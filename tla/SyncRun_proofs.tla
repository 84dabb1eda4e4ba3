--------------------------- MODULE SyncRun_proofs ---------------------------
(***************************************************************************)
(* Theorems about SyncRun, for every library, every choice of additions    *)
(* and every transcode window, and about ZuneSession, for all artists,     *)
(* albums and songs and any number of handles, operations and mishaps.     *)
(***************************************************************************)
EXTENDS SyncRun, ZuneSession, SequenceTheorems, FiniteSetTheorems, WellFoundedInduction, TLAPS

-----------------------------------------------------------------------------
(* Sequences, commands, events and items. *)

\* What Head, Tail, Append, \o and DropRange keep of the type of a sequence.
LEMMA SeqType ==
    ASSUME NEW S, NEW s \in Seq(S)
    PROVE  /\ s # <<>> => Head(s) \in S /\ Tail(s) \in Seq(S) /\ Len(Tail(s)) = Len(s) - 1
           /\ s # <<>> => Len(s) > 0
           /\ \A t \in Seq(S) : s \o t \in Seq(S) /\ Len(s \o t) = Len(s) + Len(t)
           /\ \A e \in S : Append(s, e) \in Seq(S)
           /\ Len(s) \in Nat
<1>1. s # <<>> => Head(s) \in S /\ Tail(s) \in Seq(S) /\ Len(Tail(s)) = Len(s) - 1
  BY HeadTailProperties
<1>2. s # <<>> => Len(s) > 0
  BY EmptySeq, LenProperties
<1>3. \A t \in Seq(S) : s \o t \in Seq(S) /\ Len(s \o t) = Len(s) + Len(t)
  BY ConcatProperties
<1>4. \A e \in S : Append(s, e) \in Seq(S)
  BY AppendProperties
<1>5. Len(s) \in Nat
  BY LenProperties
<1> QED BY <1>1, <1>2, <1>3, <1>4, <1>5

\* Dropping a range of positions of a sequence leaves a sequence.
LEMMA DropRangeType ==
    ASSUME NEW S, NEW s \in Seq(S), NEW i \in DOMAIN s, NEW j \in DOMAIN s
    PROVE  DropRange(s, i, j) \in Seq(S)
<1>1. i \in 1..Len(s) /\ j \in 1..Len(s) /\ Len(s) \in Nat
  BY LenProperties
<1>2. SubSeq(s, 1, i - 1) \in Seq(S) /\ SubSeq(s, j + 1, Len(s)) \in Seq(S)
  <2>1. \A k \in 1..(i - 1) : s[k] \in S
    BY <1>1, ElementOfSeq
  <2>2. \A k \in (j + 1)..Len(s) : s[k] \in S
    BY <1>1, ElementOfSeq
  <2> QED BY <1>1, <2>1, <2>2, SubSeqProperties
<1> QED BY <1>2, ConcatProperties DEF DropRange

\* A sequence given by its elements.
LEMMA MapType ==
    ASSUME NEW S, NEW n \in Nat, NEW f, f = [i \in 1..n |-> f[i]],
           \A i \in 1..n : f[i] \in S
    PROVE  f \in Seq(S) /\ Len(f) = n
BY IsASeq, LenProperties

\* The commands the App can build.
LEMMA CommandIntro ==
    /\ \A items \in Seq(SyncItem) : Execute(items) \in Command /\ Append_(items) \in Command
    /\ CancelSync \in Command
    /\ \A n \in Name : Import(n) \in Command
BY DEF Command, Execute, Append_, CancelSync, Import

\* What the worker finds in a command.
LEMMA CommandElim ==
    ASSUME NEW c \in Command
    PROVE  /\ c.op \in {"execute", "append", "cancel", "import"}
           /\ c.op \in {"execute", "append"} => c.items \in Seq(SyncItem)
BY DEF Command

\* The events the worker can send.
LEMMA EventIntro ==
    /\ Progress \in Event /\ Notice \in Event /\ SessionFailed \in Event
    /\ \A c \in Copy : Added(c) \in Event /\ Removed(<<c.track, c.path>>) \in Event
    /\ \A s, f, k \in Nat : Complete(s, f, k) \in Event
BY DEF Event, Progress, Notice, SessionFailed, Added, Removed, Complete, Copy

\* What the App finds in an event.
LEMMA EventElim ==
    ASSUME NEW e \in Event
    PROVE  e.ev = "added" => e.copy \in Copy
BY DEF Event

\* Every identifier of a sequence of items is a number.
LEMMA IdsType ==
    ASSUME NEW items, items \in Seq(QueuedItem) \/ items \in Seq(SyncItem)
    PROVE  Ids(items) \subseteq Nat
<1>1. CASE items \in Seq(QueuedItem)
  <2>1. DOMAIN items = 1..Len(items)
    BY <1>1, LenProperties
  <2>2. \A i \in 1..Len(items) : items[i] \in QueuedItem
    BY <1>1, ElementOfSeq
  <2> QED BY <2>1, <2>2 DEF Ids, QueuedItem
<1>2. CASE items \in Seq(SyncItem)
  <2>1. DOMAIN items = 1..Len(items)
    BY <1>2, LenProperties
  <2>2. \A i \in 1..Len(items) : items[i] \in SyncItem
    BY <1>2, ElementOfSeq
  <2> QED BY <2>1, <2>2 DEF Ids, SyncItem
<1> QED BY <1>1, <1>2

\* The worker receives as many items as the queue holds, each with copies.
LEMMA StampType ==
    ASSUME index \subseteq Copy, NEW items \in Seq(QueuedItem)
    PROVE  Stamp(items) \in Seq(SyncItem) /\ Len(Stamp(items)) = Len(items)
<1>1. DOMAIN items = 1..Len(items) /\ Len(items) \in Nat
  BY LenProperties
<1>2. \A i \in 1..Len(items) : Stamp(items)[i] \in SyncItem
  <2> TAKE i \in 1..Len(items)
  <2>1. items[i] \in QueuedItem
    BY ElementOfSeq
  <2>2. FindCopies(items[i].track) \in SUBSET Copy
    BY DEF FindCopies
  <2> QED BY <1>1, <2>1, <2>2 DEF Stamp, QueuedItem, SyncItem
<1>3. Stamp(items) = [i \in 1..Len(items) |-> Stamp(items)[i]]
  BY <1>1 DEF Stamp
<1> QED BY <1>1, <1>2, <1>3, MapType

-----------------------------------------------------------------------------
(* Type correctness and the accounting of a run, which need each other: the  *)
(* worker reports the item in its hand, and that there is one is part of the *)
(* accounting.                                                               *)

Inv == TypeOK /\ RunAccounting

LEMMA InitInv == Init => Inv
<1> SUFFICES ASSUME Init PROVE Inv
  OBVIOUS
<1>1. Cardinality(InitialCopies) \in Nat
  BY SyncAssumption, FS_CardinalityType
<1>2. \A S : <<>> \in Seq(S)
  BY EmptySeq
<1>3. keys \in 0..MaxKeys /\ index \subseteq Copy /\ device \subseteq Copy /\ nextOid \in Nat
  BY <1>1, SyncAssumption DEF Init
<1>4. prepared \in [Track -> {"none", "ok", "err"}] /\ report \in [Track -> {"none", "ok", "failed"}]
  BY DEF Init
<1>5. TypeOK
  BY <1>2, <1>3, <1>4 DEF Init, TypeOK
<1>6. RunAccounting
  BY DEF Init, RunAccounting
<1> QED BY <1>5, <1>6 DEF Inv

\* Events do not touch the worker.
LEMMA EventsInv ==
    Inv /\ (\/ OnSyncProgress \/ OnDeviceTrackAdded \/ OnDeviceTrackRemoved
           \/ OnSyncComplete \/ OnSessionFailed \/ OnNotice) => Inv'
<1> SUFFICES ASSUME Inv,
                    \/ OnSyncProgress \/ OnDeviceTrackAdded \/ OnDeviceTrackRemoved
                    \/ OnSyncComplete \/ OnSessionFailed \/ OnNotice
             PROVE  Inv'
  OBVIOUS
<1>1. PICK kind : HandleEvent(kind)
  BY DEF OnSyncProgress, OnDeviceTrackAdded, OnDeviceTrackRemoved,
         OnSyncComplete, OnSessionFailed, OnNotice
<1>2. evs' \in Seq(Event) /\ Head(evs) \in Event
  BY <1>1, SeqType DEF HandleEvent, Inv, TypeOK
<1>3. \A S : <<>> \in Seq(S)
  BY EmptySeq
<1>4. index' \subseteq Copy
  BY <1>2, EventElim DEF Inv, TypeOK, OnSyncProgress, OnDeviceTrackAdded,
     OnDeviceTrackRemoved, OnSyncComplete, OnSessionFailed, OnNotice, HandleEvent
<1>5. pending' \in Seq(Command)
  <2>1. CASE OnSyncComplete
    <3> DEFINE f == [i \in DOMAIN imports |-> Import(imports[i])]
    <3>1. imports \in Seq(Name) /\ pending \in Seq(Command)
      BY DEF Inv, TypeOK
    <3>2. Len(imports) \in Nat /\ DOMAIN imports = 1..Len(imports)
      BY <3>1, LenProperties
    <3>3. \A i \in 1..Len(imports) : imports[i] \in Name
      BY <3>1, ElementOfSeq
    <3>4. \A i \in 1..Len(imports) : f[i] \in Command
      BY <3>2, <3>3, CommandIntro
    <3>5. f = [i \in 1..Len(imports) |-> f[i]]
      BY <3>2
    <3> HIDE DEF f
    <3>6. f \in Seq(Command)
      BY <3>2, <3>4, <3>5, MapType
    <3>7. pending' = pending \o f
      BY <2>1 DEF OnSyncComplete, f
    <3> QED BY <3>1, <3>6, <3>7, SeqType
  <2>2. CASE ~OnSyncComplete
    BY <2>2 DEF Inv, TypeOK, OnSyncProgress, OnDeviceTrackAdded,
       OnDeviceTrackRemoved, OnSessionFailed, OnNotice
  <2> QED BY <2>1, <2>2
<1>6. TypeOK'
  BY <1>1, <1>2, <1>3, <1>4, <1>5, ZenonT(40) DEF Inv, TypeOK, HandleEvent, run, dev, history,
     OnSyncProgress, OnDeviceTrackAdded, OnDeviceTrackRemoved,
     OnSyncComplete, OnSessionFailed, OnNotice
<1>7. RunAccounting'
  BY <1>1 DEF Inv, RunAccounting, HandleEvent, run
<1> QED BY <1>6, <1>7 DEF Inv

\* Flushing and keys: what the App sends is made of queued items.
LEMMA FlushInv == Inv /\ (FlushPending \/ NoKey) => Inv'
<1> SUFFICES ASSUME Inv, FlushPending \/ NoKey PROVE Inv'
  OBVIOUS
<1>1. cmds \o pending \in Seq(Command) /\ <<>> \in Seq(Command)
  BY SeqType, EmptySeq DEF Inv, TypeOK
<1>2. TypeOK'
  BY <1>1 DEF Inv, TypeOK, FlushPending, NoKey, run, dev, history
<1>3. RunAccounting'
  BY DEF Inv, RunAccounting, FlushPending, NoKey, run
<1> QED BY <1>2, <1>3 DEF Inv

\* What every key leaves alone.
LEMMA PressKeyType ==
    Inv /\ PressKey => /\ keys' \in 0..MaxKeys /\ phase' \in {"events", "key"}
                       /\ RunAccounting'
BY SyncAssumption DEF Inv, TypeOK, PressKey, RunAccounting, run

\* What `a` adds to the queue and, while a sync runs, forwards.
LEMMA AddedItems ==
    ASSUME TypeOK, NEW pick \in Picks, AddToQueue(pick)
    PROVE  \E items \in Seq(QueuedItem) :
              /\ queue' = queue \o items /\ cmds' = cmds
              /\ \/ UNCHANGED <<pending, forwarded>>
                 \/ /\ pending' = Append(pending, Append_(Stamp(items)))
                    /\ forwarded' = forwarded \cup Ids(items)
<1> DEFINE n     == Len(pick.tracks)
           items == [i \in 1..n |-> [id |-> 10 * keys + i, entry |-> keys,
                                     track |-> pick.tracks[i]]]
<1>1. n \in Nat /\ \A i \in 1..n : pick.tracks[i] \in Track
  BY SyncAssumption, LenProperties, ElementOfSeq
<1>2. keys \in Nat
  BY SyncAssumption DEF TypeOK
<1>3. \A i \in 1..n : items[i] \in QueuedItem
  <2> SUFFICES ASSUME NEW i \in 1..n
               PROVE  [id |-> 10 * keys + i, entry |-> keys, track |-> pick.tracks[i]] \in QueuedItem
    OBVIOUS
  <2>1. pick.tracks[i] \in Track /\ 10 * keys + i \in Nat
    BY <1>1, <1>2
  <2> QED BY <1>2, <2>1 DEF QueuedItem
<1>4. items = [i \in 1..n |-> items[i]]
  OBVIOUS
<1>5. /\ queue' = queue \o items /\ cmds' = cmds
      /\ \/ UNCHANGED <<pending, forwarded>>
         \/ /\ pending' = Append(pending, Append_(Stamp(items)))
            /\ forwarded' = forwarded \cup Ids(items)
  BY DEF AddToQueue
<1> HIDE DEF items
<1>6. items \in Seq(QueuedItem)
  BY <1>1, <1>3, <1>4, MapType
<1> QED BY <1>5, <1>6

LEMMA AddToQueueInv == ASSUME NEW pick \in Picks PROVE Inv /\ AddToQueue(pick) => Inv'
<1> SUFFICES ASSUME Inv, AddToQueue(pick) PROVE Inv'
  OBVIOUS
<1>1. PressKey
  BY DEF AddToQueue
<1>2. PICK items \in Seq(QueuedItem) :
        /\ queue' = queue \o items /\ cmds' = cmds
        /\ \/ UNCHANGED <<pending, forwarded>>
           \/ /\ pending' = Append(pending, Append_(Stamp(items)))
              /\ forwarded' = forwarded \cup Ids(items)
  BY AddedItems DEF Inv
<1>4. queue' \in Seq(QueuedItem)
  BY <1>2, SeqType DEF Inv, TypeOK
<1>5. imports' \in Seq(Name)
  <2>1. CASE pick.name = NoName
    BY <2>1 DEF AddToQueue, Inv, TypeOK
  <2>2. CASE pick.name # NoName
    <3>1. Without(imports, pick.name) \in Seq(Name)
      BY DropRangeType DEF Without, Inv, TypeOK
    <3>2. pick.name \in Name
      BY DEF Name
    <3> QED BY <2>2, <3>1, <3>2, SeqType DEF AddToQueue
  <2> QED BY <2>1, <2>2
<1>6. pending' \in Seq(Command) /\ forwarded' \subseteq Nat
  <2>1. Stamp(items) \in Seq(SyncItem)
    BY <1>2, StampType DEF Inv, TypeOK
  <2>2. Append_(Stamp(items)) \in Command /\ Ids(items) \subseteq Nat
    BY <2>1, CommandIntro, IdsType
  <2>3. Append(pending, Append_(Stamp(items))) \in Seq(Command)
    BY <2>2, SeqType DEF Inv, TypeOK
  <2> QED BY <1>2, <2>2, <2>3 DEF Inv, TypeOK
<1>7. TypeOK'
  BY <1>1, <1>2, <1>4, <1>5, <1>6, PressKeyType DEF PressKey, Inv, TypeOK, run, dev
<1> QED BY <1>1, <1>7, PressKeyType DEF Inv

LEMMA QueueKeysInv ==
    Inv /\ ((\E entry \in 0..MaxKeys : RemoveQueueItem(entry)) \/ ClearQueue) => Inv'
<1> SUFFICES ASSUME Inv, (\E entry \in 0..MaxKeys : RemoveQueueItem(entry)) \/ ClearQueue
             PROVE  Inv'
  OBVIOUS
<1>1. PressKey /\ UNCHANGED <<pending, cmds, forwarded>>
  BY DEF RemoveQueueItem, ClearQueue
<1>2. queue' \in Seq(QueuedItem) /\ imports' \in Seq(Name)
  <2>1. CASE \E entry \in 0..MaxKeys : RemoveQueueItem(entry)
    <3>1. PICK first \in DOMAIN queue, last \in DOMAIN queue :
                 queue' = DropRange(queue, first, last)
      BY <2>1 DEF RemoveQueueItem
    <3>2. queue \in Seq(QueuedItem)
      BY DEF Inv, TypeOK
    <3>3. queue' \in Seq(QueuedItem)
      BY <3>1, <3>2, DropRangeType
    <3> QED BY <2>1, <3>3 DEF RemoveQueueItem, Inv, TypeOK
  <2>2. CASE ClearQueue
    BY <2>2, EmptySeq DEF ClearQueue
  <2> QED BY <2>1, <2>2
<1>3. TypeOK'
  BY <1>1, <1>2, PressKeyType DEF PressKey, Inv, TypeOK, run, dev
<1> QED BY <1>1, <1>3, PressKeyType DEF Inv

LEMMA SendKeysInv == Inv /\ (ExecuteSync \/ PressCancel) => Inv'
<1> SUFFICES ASSUME Inv, ExecuteSync \/ PressCancel PROVE Inv'
  OBVIOUS
<1>1. PressKey /\ UNCHANGED <<queue, pending, forwarded>>
  BY DEF ExecuteSync, PressCancel
<1>2. Execute(Stamp(queue)) \in Command /\ CancelSync \in Command
  BY StampType, CommandIntro DEF Inv, TypeOK
<1>3. cmds' \in Seq(Command) /\ imports' \in Seq(Name)
  <2>1. cmds \in Seq(Command) /\ imports \in Seq(Name)
    BY DEF Inv, TypeOK
  <2>2. /\ Append(cmds, Execute(Stamp(queue))) \in Seq(Command)
        /\ Append(cmds, CancelSync) \in Seq(Command)
    BY <1>2, <2>1, SeqType
  <2> QED BY <2>1, <2>2, EmptySeq DEF ExecuteSync, PressCancel
<1>4. TypeOK'
  BY <1>1, <1>3, PressKeyType DEF PressKey, Inv, TypeOK, run, dev
<1> QED BY <1>1, <1>4, PressKeyType DEF Inv

-----------------------------------------------------------------------------
(* The worker. *)

\* A command it takes is a Command and leaves a sequence of commands.
LEMMA TakeCommand ==
    ASSUME Inv, cmds # <<>>
    PROVE  /\ Head(cmds) \in Command /\ Tail(cmds) \in Seq(Command)
           /\ Head(cmds).op \in {"execute", "append"} =>
                  /\ Head(cmds).items \in Seq(SyncItem)
                  /\ Len(Head(cmds).items) \in Nat
                  /\ Ids(Head(cmds).items) \subseteq Nat
BY SeqType, CommandElim, IdsType, LenProperties DEF Inv, TypeOK

\* Sending events leaves a sequence of events.
LEMMA EmitType ==
    ASSUME Inv, NEW es, es \in Seq(Event), Emit(es)
    PROVE  evs' \in Seq(Event)
BY SeqType DEF Inv, TypeOK, Emit

\* The events of one step, as sequences.
LEMMA OneOrTwo ==
    ASSUME NEW S, NEW d \in S, NEW e \in S
    PROVE  <<>> \in Seq(S) /\ <<e>> \in Seq(S) /\ <<d, e>> \in Seq(S)
OBVIOUS

LEMMA IdleInv == Inv /\ (StartRun \/ RefuseRun \/ IgnoreCancel \/ ImportPlaylist) => Inv'
<1> SUFFICES ASSUME Inv, StartRun \/ RefuseRun \/ IgnoreCancel \/ ImportPlaylist
             PROVE  Inv'
  OBVIOUS
<1>1. cmds # <<>> /\ cmds' = Tail(cmds)
  BY DEF StartRun, RefuseRun, IgnoreCancel, ImportPlaylist
<1>2. /\ <<>> \in Seq(SyncItem) /\ Len(<<>>) = 0
      /\ <<Notice>> \in Seq(Event) /\ <<Notice, SessionFailed>> \in Seq(Event)
  BY EmptySeq, EventIntro, OneOrTwo
<1>3. CASE StartRun
  <2>1. TypeOK'
    BY <1>1, <1>2, <1>3, TakeCommand DEF StartRun, WorkerOnly, Inv, TypeOK, ui, dev
  <2>2. RunAccounting'
    BY <1>1, <1>2, <1>3, TakeCommand DEF StartRun, RunAccounting
  <2> QED BY <2>1, <2>2 DEF Inv
<1>4. CASE RefuseRun
  <2>1. evs' \in Seq(Event)
    BY <1>2, <1>4, EmitType DEF RefuseRun
  <2>2. settled' \subseteq Nat
    BY <1>1, <1>4, TakeCommand DEF RefuseRun, Inv, TypeOK
  <2>3. TypeOK'
    BY <1>1, <1>4, <2>1, <2>2, TakeCommand DEF RefuseRun, WorkerOnly, Inv, TypeOK, ui, run, dev
  <2>4. RunAccounting'
    BY <1>4 DEF RefuseRun, RunAccounting, run, Inv
  <2> QED BY <2>3, <2>4 DEF Inv
<1>5. CASE IgnoreCancel
  <2>1. TypeOK'
    BY <1>1, <1>5, TakeCommand DEF IgnoreCancel, WorkerOnly, Inv, TypeOK, ui, run, dev
  <2>2. RunAccounting'
    BY <1>5 DEF IgnoreCancel, RunAccounting, run, Inv
  <2> QED BY <2>1, <2>2 DEF Inv
<1>6. CASE ImportPlaylist
  <2>1. evs' \in Seq(Event) /\ session' \in BOOLEAN
    BY <1>2, <1>6, EmitType DEF ImportPlaylist, Inv, TypeOK
  <2>2. TypeOK'
    BY <1>1, <1>6, <2>1, TakeCommand DEF ImportPlaylist, Inv, TypeOK, ui, run, dev, history
  <2>3. RunAccounting'
    BY <1>6 DEF ImportPlaylist, RunAccounting, run, Inv
  <2> QED BY <2>2, <2>3 DEF Inv
<1> QED BY <1>3, <1>4, <1>5, <1>6

LEMMA DrainInv == Inv /\ DrainCommand => Inv'
<1> SUFFICES ASSUME Inv, DrainCommand PROVE Inv'
  OBVIOUS
<1> DEFINE cmd == Head(cmds)
<1>1. /\ cmd \in Command /\ Tail(cmds) \in Seq(Command)
      /\ cmd.op \in {"execute", "append", "cancel", "import"}
      /\ cmd.op = "append" => cmd.items \in Seq(SyncItem) /\ Len(cmd.items) \in Nat
  BY TakeCommand, CommandElim DEF DrainCommand
<1> HIDE DEF cmd
<1>2. /\ runq' \in Seq(SyncItem) /\ total' \in Nat
      /\ \E n \in Nat : total' = total + n /\ Len(runq') = Len(runq) + n
  <2>1. runq \in Seq(SyncItem) /\ total \in Nat /\ Len(runq) \in Nat
    BY SeqType DEF Inv, TypeOK
  <2>2. CASE cmd.op = "append"
    <3>1. runq' = runq \o cmd.items /\ total' = total + Len(cmd.items)
      BY <2>2 DEF DrainCommand, cmd
    <3>2. runq' \in Seq(SyncItem) /\ Len(runq') = Len(runq) + Len(cmd.items)
      BY <1>1, <2>1, <2>2, <3>1, SeqType
    <3> QED BY <1>1, <2>1, <2>2, <3>1, <3>2
  <2>3. CASE cmd.op # "append"
    <3>1. runq' = runq /\ total' = total
      BY <2>3 DEF DrainCommand, cmd
    <3>2. total' = total + 0 /\ Len(runq') = Len(runq) + 0
      BY <2>1, <3>1
    <3> QED BY <2>1, <3>1, <3>2
  <2> QED BY <2>2, <2>3
<1>3. cancelled' \in BOOLEAN
  BY DEF DrainCommand, Inv, TypeOK
<1>5. TypeOK'
  BY <1>1, <1>2, <1>3 DEF DrainCommand, WorkerOnly, Inv, TypeOK, ui, dev
<1>6. RunAccounting'
  <2>1. Len(runq) \in Nat /\ processed \in Nat
    BY SeqType DEF Inv, TypeOK
  <2>2. PICK n \in Nat : total' = total + n /\ Len(runq') = Len(runq) + n
    BY <1>2
  <2>3. /\ Len(hand) = (IF pc = "overwrite" THEN 1 ELSE 0)
        /\ processed = success + failed + Len(hand)
        /\ total = processed + Len(runq)
    BY DEF DrainCommand, Inv, RunAccounting
  <2>4. total' = processed + Len(runq')
    BY <2>1, <2>2, <2>3
  <2> QED BY <2>3, <2>4 DEF DrainCommand, RunAccounting
<1> QED BY <1>5, <1>6 DEF Inv

LEMMA ControlInv == Inv /\ (CancelRun \/ PrefetchTranscodes \/ ExhaustRun) => Inv'
<1> SUFFICES ASSUME Inv, CancelRun \/ PrefetchTranscodes \/ ExhaustRun PROVE Inv'
  OBVIOUS
<1>1. prepared' \in [Track -> {"none", "ok", "err"}]
  <2>1. CASE PrefetchTranscodes
    <3>1. PICK outcome \in [TranscodeBatch -> {"ok", "err"}] :
                 prepared' = [t \in Track |-> IF t \in TranscodeBatch THEN outcome[t]
                                             ELSE prepared[t]]
      BY <2>1 DEF PrefetchTranscodes
    <3> QED BY <3>1 DEF Inv, TypeOK
  <2>2. CASE CancelRun \/ ExhaustRun
    BY <2>2 DEF CancelRun, ExhaustRun, run, Inv, TypeOK
  <2> QED BY <2>1, <2>2
<1>2. /\ pc' \in {"drain2", "finish"} /\ pc \in {"drain1", "drain2"}
      /\ UNCHANGED <<runq, hand, total, processed, success, failed, cancelled,
                     cmds, evs, dev, settled, report>>
      /\ WorkerOnly
  BY DEF CancelRun, PrefetchTranscodes, ExhaustRun, run, Drained
<1>3. TypeOK'
  BY <1>1, <1>2 DEF WorkerOnly, Inv, TypeOK, ui, dev
<1>4. RunAccounting'
  BY <1>2 DEF Inv, RunAccounting
<1> QED BY <1>3, <1>4 DEF Inv

LEMMA PopInv == Inv /\ (PopItem \/ PopFailed) => Inv'
<1> SUFFICES ASSUME Inv, PopItem \/ PopFailed PROVE Inv'
  OBVIOUS
<1>1. /\ runq # <<>> /\ runq' = Tail(runq) /\ processed' = processed + 1
      /\ pc = "drain2" /\ total' = total
  BY DEF PopItem, PopFailed, Drained
<1>2. /\ Head(runq) \in SyncItem /\ Tail(runq) \in Seq(SyncItem)
      /\ Len(Tail(runq)) = Len(runq) - 1 /\ Len(runq) \in Nat
      /\ Len(<<Head(runq)>>) = 1 /\ <<Head(runq)>> \in Seq(SyncItem)
  <2>1. runq \in Seq(SyncItem)
    BY DEF Inv, TypeOK
  <2> QED BY <1>1, <2>1, SeqType
<1>3. Len(hand) = 0 /\ processed = success + failed + Len(hand)
      /\ total = processed + Len(runq)
  BY <1>1 DEF Inv, RunAccounting
<1>4. processed \in Nat /\ success \in Nat /\ failed \in Nat /\ total \in Nat
  BY DEF Inv, TypeOK
<1>5. <<Progress>> \in Seq(Event) /\ <<Progress, Notice>> \in Seq(Event)
  BY EventIntro, OneOrTwo
<1>6. evs' \in Seq(Event)
  BY <1>5, EmitType DEF PopItem, PopFailed
<1>7. CASE PopItem
  <2>1. TypeOK'
    BY <1>1, <1>2, <1>6, <1>7 DEF PopItem, WorkerOnly, Inv, TypeOK, ui, dev
  <2>2. RunAccounting'
    BY <1>1, <1>2, <1>3, <1>4, <1>7 DEF PopItem, RunAccounting
  <2> QED BY <2>1, <2>2 DEF Inv
<1>8. CASE PopFailed
  <2>1. settled' \subseteq Nat /\ report' \in [Track -> {"none", "ok", "failed"}]
    BY <1>2, <1>8 DEF PopFailed, SyncItem, Inv, TypeOK
  <2>2. TypeOK'
    BY <1>1, <1>2, <1>6, <1>8, <2>1 DEF PopFailed, WorkerOnly, Inv, TypeOK, ui, dev
  <2>3. RunAccounting'
    BY <1>1, <1>2, <1>3, <1>4, <1>8, SMTT(30) DEF PopFailed, RunAccounting
  <2> QED BY <2>2, <2>3 DEF Inv
<1> QED BY <1>7, <1>8

\* There is an item in the worker's hand while it overwrites and uploads.
LEMMA ItemType ==
    ASSUME Inv, pc = "overwrite"
    PROVE  Item \in SyncItem /\ Len(hand) = 1 /\ <<>> \in Seq(SyncItem) /\ Len(<<>>) = 0
<1>1. hand \in Seq(SyncItem) /\ Len(hand) = 1
  BY DEF Inv, TypeOK, RunAccounting
<1>2. hand[1] \in SyncItem
  BY <1>1, ElementOfSeq, 1 \in 1..1
<1>3. <<>> \in Seq(SyncItem) /\ Len(<<>>) = 0
  BY EmptySeq
<1> QED BY <1>1, <1>2, <1>3 DEF Item

LEMMA RemoveCopyInv == Inv /\ RemoveCopy => Inv'
<1> SUFFICES ASSUME Inv, RemoveCopy PROVE Inv'
  OBVIOUS
<1>1. PICK c \in Item.targets :
         /\ hand' = <<[Item EXCEPT !.targets = Item.targets \ {c}]>>
         /\ Emit(<<Removed(<<c.track, c.path>>)>>) \/ UNCHANGED evs
         /\ device' \subseteq device /\ doubtful' \subseteq doubtful \cup {c}
  BY DEF RemoveCopy, SetTargets, FailToRemove, AllBut
<1>2. Item \in SyncItem /\ c \in Copy /\ Len(hand) = 1
  BY ItemType DEF RemoveCopy, SyncItem
<1>3. hand' \in Seq(SyncItem) /\ Len(hand') = 1
  <2>1. [Item EXCEPT !.targets = Item.targets \ {c}] \in SyncItem
    BY <1>2 DEF SyncItem
  <2> QED BY <1>1, <2>1
<1>4. device' \subseteq Copy /\ doubtful' \subseteq Copy
  BY <1>1, <1>2 DEF Inv, TypeOK
<1>5. evs' \in Seq(Event)
  BY <1>1, <1>2, EventIntro, OneOrTwo, EmitType DEF Inv, TypeOK
<1>6. TypeOK'
  BY <1>3, <1>4, <1>5 DEF RemoveCopy, Inv, TypeOK, ui
<1>7. RunAccounting'
  BY <1>2, <1>3 DEF RemoveCopy, Inv, RunAccounting
<1> QED BY <1>6, <1>7 DEF Inv

\* The copy an upload makes.
LEMMA UploadedType == ASSUME Inv, pc = "overwrite" PROVE Uploaded \in Copy
BY ItemType DEF Uploaded, Copy, SyncItem, UploadPath, Inv, TypeOK

LEMMA UploadInv == Inv /\ (UploadOk \/ UploadFailed \/ DeviceGone) => Inv'
<1> SUFFICES ASSUME Inv, UploadOk \/ UploadFailed \/ DeviceGone PROVE Inv'
  OBVIOUS
<1>1. /\ pc = "overwrite" /\ pc' \in {"drain1", "abort"} /\ hand' = <<>>
      /\ UNCHANGED <<runq, total, processed, cancelled, prepared, cmds>>
      /\ UNCHANGED <<ui, session, forwarded>>
      /\ settled' = settled \cup {Item.id}
      /\ report' \in {[report EXCEPT ![Item.track] = r] : r \in {"ok", "failed"}}
  BY DEF UploadOk, UploadFailed, DeviceGone, ReportFailure, WorkerOnly
<1>2. Item \in SyncItem /\ Len(hand) = 1 /\ <<>> \in Seq(SyncItem) /\ Len(<<>>) = 0
  BY <1>1, ItemType
<1>3. \/ success' = success + 1 /\ failed' = failed
      \/ success' = success /\ failed' = failed + 1
  BY DEF UploadOk, UploadFailed, DeviceGone, ReportFailure
<1>4. evs' \in Seq(Event)
  <2>1. Emit(<<Added(Uploaded)>>) \/ Emit(<<Notice>>)
    BY DEF UploadOk, UploadFailed, DeviceGone, ReportFailure
  <2>2. Added(Uploaded) \in Event /\ Notice \in Event
    BY <1>1, UploadedType, EventIntro
  <2> QED BY <2>1, <2>2, OneOrTwo, EmitType
<1>9. device' \subseteq Copy /\ nextOid' \in Nat /\ doubtful' \subseteq Copy
  <2>1. Item.targets \subseteq Copy /\ Uploaded \in Copy
    BY <1>1, <1>2, UploadedType DEF SyncItem
  <2>2. \/ PutOnDevice /\ UNCHANGED doubtful
        \/ UNCHANGED dev /\ UNCHANGED doubtful
        \/ \E c \in Item.targets : FailToRemove(c) /\ UNCHANGED nextOid
    BY DEF UploadOk, UploadFailed, DeviceGone, FailToUpload, WorkerOnly
  <2>3. device \subseteq Copy /\ nextOid \in Nat /\ doubtful \subseteq Copy
    BY DEF Inv, TypeOK
  <2> QED BY <2>1, <2>2, <2>3 DEF PutOnDevice, FailToRemove, AllBut, dev
<1>5. settled' \subseteq Nat /\ report' \in [Track -> {"none", "ok", "failed"}]
  BY <1>1, <1>2 DEF SyncItem, Inv, TypeOK
<1>6. success' \in Nat /\ failed' \in Nat
  BY <1>3 DEF Inv, TypeOK
<1>7. TypeOK'
  BY <1>1, <1>2, <1>4, <1>5, <1>6, <1>9 DEF Inv, TypeOK, ui
<1>8. RunAccounting'
  <2>1. /\ processed = success + failed + 1 /\ total = processed + Len(runq)
        /\ success \in Nat /\ failed \in Nat
    BY <1>1, <1>2 DEF Inv, TypeOK, RunAccounting
  <2>2. processed' = success' + failed'
    BY <1>1, <1>3, <2>1
  <2>3. pc' # "overwrite" /\ Len(hand') = 0 /\ processed' \in Nat
    BY <1>1, <1>2 DEF Inv, TypeOK
  <2>4. total' = processed' + Len(runq')
    BY <1>1, <2>1
  <2>5. processed' = success' + failed' + Len(hand')
    BY <1>6, <2>2, <2>3
  <2> QED BY <2>3, <2>4, <2>5 DEF RunAccounting
<1> QED BY <1>7, <1>8 DEF Inv

LEMMA FinishInv == Inv /\ FinishRun => Inv'
<1> SUFFICES ASSUME Inv, FinishRun PROVE Inv'
  OBVIOUS
<1>1. <<>> \in Seq(SyncItem) /\ <<>> \in Seq(Event) /\ session' \in BOOLEAN
  BY EmptySeq DEF FinishRun
<1>2. Ids(runq) \subseteq Nat /\ Len(runq) \in Nat
  BY IdsType, LenProperties DEF Inv, TypeOK
<1>3. evs' \in Seq(Event)
  <2> DEFINE e == Complete(success, failed, Len(runq))
             t == IF pc = "abort" THEN <<SessionFailed>> ELSE <<>>
  <2>1. <<e>> \in Seq(Event) /\ t \in Seq(Event)
    BY <1>1, <1>2, EventIntro, OneOrTwo DEF Inv, TypeOK
  <2>2. Emit(<<e>> \o t)
    BY DEF FinishRun
  <2> HIDE DEF e, t
  <2>3. <<e>> \o t \in Seq(Event)
    BY <2>1, SeqType
  <2> QED BY <2>2, <2>3, EmitType
<1>4. TypeOK'
  BY <1>1, <1>2, <1>3 DEF FinishRun, Inv, TypeOK, ui, dev
<1>5. RunAccounting'
  BY DEF FinishRun, RunAccounting
<1> QED BY <1>4, <1>5 DEF Inv

LEMMA NextInv == Inv /\ [Next]_vars => Inv'
<1> SUFFICES ASSUME Inv, [Next]_vars PROVE Inv'
  OBVIOUS
<1>1. CASE UINext
  <2>1. CASE \E pick \in Picks : AddToQueue(pick)
    BY <2>1, AddToQueueInv
  <2>2. CASE ~\E pick \in Picks : AddToQueue(pick)
    BY <1>1, <2>2, EventsInv, FlushInv, QueueKeysInv, SendKeysInv DEF UINext
  <2> QED BY <2>1, <2>2
<1>2. CASE WorkerNext
  BY <1>2, IdleInv, DrainInv, ControlInv, PopInv, RemoveCopyInv, UploadInv, FinishInv
     DEF WorkerNext
<1>3. CASE UNCHANGED vars
  BY <1>3 DEF vars, ui, run, dev, history, Inv, TypeOK, RunAccounting
<1> QED BY <1>1, <1>2, <1>3 DEF Next

\* Every variable of the sync keeps its type: in particular the worker only ever
\* receives commands made of queued items, and reports items it holds.
THEOREM SyncTypes == Spec => []TypeOK
<1>1. Inv => TypeOK
  BY DEF Inv
<1> QED BY <1>1, InitInv, NextInv, PTL DEF Spec

\* Whatever is appended to, cancelled in or lost by a run, its counters account
\* for every item it was given (ExecuteSyncQueue | AppendSyncQueue).
THEOREM RunAccounted == Spec => []RunAccounting
<1>1. Inv => RunAccounting
  BY DEF Inv
<1> QED BY <1>1, InitInv, NextInv, PTL DEF Spec

-----------------------------------------------------------------------------
(* What the App and the worker have in hand.                                 *)

\* The elements of a sequence.
Elems(s) == {s[i] : i \in DOMAIN s}

LEMMA ElemsIs ==
    ASSUME NEW S, NEW s \in Seq(S)
    PROVE  /\ Elems(<<>>) = {} /\ Elems(s) \subseteq S
           /\ s # <<>> => Elems(s) = {Head(s)} \cup Elems(Tail(s))
           /\ \A t \in Seq(S) : Elems(s \o t) = Elems(s) \cup Elems(t)
<1>1. DOMAIN s = 1..Len(s) /\ Len(s) \in Nat /\ \A i \in 1..Len(s) : s[i] \in S
  BY LenProperties, ElementOfSeq
<1>2. Elems(<<>>) = {} /\ Elems(s) \subseteq S
  BY <1>1 DEF Elems
<1>3. ASSUME s # <<>> PROVE Elems(s) = {Head(s)} \cup Elems(Tail(s))
  <2>1. /\ Len(s) > 0 /\ Tail(s) \in Seq(S) /\ Len(Tail(s)) = Len(s) - 1 /\ Head(s) = s[1]
        /\ \A i \in 1..Len(Tail(s)) : Tail(s)[i] = s[i + 1]
    BY <1>3, HeadTailProperties, EmptySeq, LenProperties
  <2>2. DOMAIN Tail(s) = 1..(Len(s) - 1)
    BY <2>1, LenProperties
  <2>3. \A i \in 1..Len(s) : i # 1 => i - 1 \in 1..(Len(s) - 1) /\ s[i] = Tail(s)[i - 1]
    BY <1>1, <2>1
  <2>4. Elems(s) \subseteq {Head(s)} \cup Elems(Tail(s))
    <3> SUFFICES ASSUME NEW i \in 1..Len(s) PROVE s[i] \in {Head(s)} \cup Elems(Tail(s))
      BY <1>1 DEF Elems
    <3>1. CASE i = 1
      BY <2>1, <3>1
    <3>2. CASE i # 1
      BY <2>2, <2>3, <3>2 DEF Elems
    <3> QED BY <3>1, <3>2
  <2>5. {Head(s)} \cup Elems(Tail(s)) \subseteq Elems(s)
    <3>1. \A i \in 1..(Len(s) - 1) : i + 1 \in 1..Len(s) /\ Tail(s)[i] = s[i + 1]
      BY <1>1, <2>1
    <3>2. 1 \in 1..Len(s)
      BY <1>1, <2>1
    <3> QED BY <1>1, <2>1, <2>2, <3>1, <3>2 DEF Elems
  <2> QED BY <2>4, <2>5
<1>4. ASSUME NEW t \in Seq(S) PROVE Elems(s \o t) = Elems(s) \cup Elems(t)
  <2>1. DOMAIN t = 1..Len(t) /\ Len(t) \in Nat
    BY LenProperties
  <2>2. /\ s \o t \in Seq(S) /\ Len(s \o t) = Len(s) + Len(t) /\ DOMAIN (s \o t) = 1..(Len(s) + Len(t))
        /\ \A i \in 1..(Len(s) + Len(t)) : (s \o t)[i] = IF i <= Len(s) THEN s[i] ELSE t[i - Len(s)]
    BY ConcatProperties, LenProperties
  <2>3. \A i \in 1..Len(t) : i + Len(s) \in 1..(Len(s) + Len(t)) /\ (s \o t)[i + Len(s)] = t[i]
    BY <1>1, <2>1, <2>2
  <2>4. \A i \in 1..Len(s) : i \in 1..(Len(s) + Len(t)) /\ (s \o t)[i] = s[i]
    BY <1>1, <2>1, <2>2
  <2>5. \A i \in 1..(Len(s) + Len(t)) : ~(i <= Len(s)) => i - Len(s) \in 1..Len(t)
    BY <1>1, <2>1
  <2>6. Elems(s \o t) \subseteq Elems(s) \cup Elems(t)
    <3> SUFFICES ASSUME NEW i \in 1..(Len(s) + Len(t)) PROVE (s \o t)[i] \in Elems(s) \cup Elems(t)
      BY <2>2 DEF Elems
    <3>1. CASE i <= Len(s)
      <4>1. i \in DOMAIN s /\ (s \o t)[i] = s[i]
        BY <1>1, <2>1, <2>2, <3>1
      <4> QED BY <4>1 DEF Elems
    <3>2. CASE ~(i <= Len(s))
      <4>1. i - Len(s) \in DOMAIN t /\ (s \o t)[i] = t[i - Len(s)]
        BY <2>1, <2>2, <2>5, <3>2
      <4> QED BY <4>1 DEF Elems
    <3> QED BY <3>1, <3>2
  <2>7. Elems(s) \cup Elems(t) \subseteq Elems(s \o t)
    <3>1. ASSUME NEW i \in 1..Len(s) PROVE s[i] \in Elems(s \o t)
      <4>1. i \in DOMAIN (s \o t) /\ (s \o t)[i] = s[i]
        BY <2>2, <2>4
      <4> QED BY <4>1 DEF Elems
    <3>2. ASSUME NEW i \in 1..Len(t) PROVE t[i] \in Elems(s \o t)
      <4>1. i + Len(s) \in DOMAIN (s \o t) /\ (s \o t)[i + Len(s)] = t[i]
        BY <2>2, <2>3
      <4> QED BY <4>1 DEF Elems
    <3> QED BY <1>1, <2>1, <3>1, <3>2 DEF Elems
  <2> QED BY <2>6, <2>7
<1> QED BY <1>2, <1>3, <1>4

LEMMA ElemsOne == \A e : Elems(<<e>>) = {e}
BY DEF Elems

LEMMA ElemsAppend ==
    ASSUME NEW S, NEW s \in Seq(S), NEW e \in S
    PROVE  Elems(Append(s, e)) = Elems(s) \cup {e}
<1>1. <<e>> \in Seq(S) /\ Append(s, e) = s \o <<e>>
  BY AppendIsConcat
<1>2. Elems(<<e>>) = {e}
  BY ElemsOne
<1>3. \A t \in Seq(S) : Elems(s \o t) = Elems(s) \cup Elems(t)
  BY ElemsIs
<1> QED BY <1>1, <1>2, <1>3

LEMMA ElemsSend ==
    ASSUME NEW S, NEW s \in Seq(S), NEW e \in S
    PROVE  Elems(s \o <<e>>) = Elems(s) \cup {e}
<1>1. Append(s, e) = s \o <<e>>
  BY AppendIsConcat
<1>2. Elems(Append(s, e)) = Elems(s) \cup {e}
  BY ElemsAppend
<1> QED BY <1>1, <1>2, Zenon

\* The commands under way, and the items in them and in the worker's hands.
Sent  == Elems(cmds) \cup Elems(pending)
Items(cs) == UNION {Elems(c.items) : c \in {d \in cs : d.op \in {"execute", "append"}}}
Goods == Elems(runq) \cup Elems(hand) \cup Items(Sent)

\* Between two runs the worker has nothing in hand.
Rest == pc = "idle" => runq = <<>> /\ hand = <<>>

\* A forwarded item stays in an append command: a drain passes over an execute.
Appends == UNION {Ids(c.items) : c \in {d \in Sent : d.op = "append"}}
Conserved == forwarded \subseteq settled \cup Ids(runq) \cup Ids(hand) \cup Appends

\* A handle stands for one copy, wherever the copy is known, and an upload gets
\* a new one; the targets of an item are copies of its track.
News  == {e.copy : e \in {d \in Elems(evs) : d.ev = "added"}}
Known == device \cup index \cup News \cup UNION {it.targets : it \in Goods}
Handles ==
    /\ \A c \in Known : c.oid < nextOid
    /\ \A c, d \in Known : c.oid = d.oid => c = d
    /\ \A it \in Goods : \A c \in it.targets : c.track = it.track

Full == Inv /\ Rest /\ Conserved /\ Handles /\ NoPhantomCopy /\ ReportedOnDevice

LEMMA SentIs == ASSUME TypeOK PROVE Sent \subseteq Command /\ Elems(evs) \subseteq Event
BY ElemsIs DEF TypeOK, Sent

\* The commands that carry no items.
Bare == {c \in Command : c.op \notin {"execute", "append"}}

LEMMA BareIs == CancelSync \in Bare /\ \A n \in Name : Import(n) \in Bare
<1>1. CancelSync.op = "cancel" /\ \A n \in Name : Import(n).op = "import"
  BY DEF CancelSync, Import
<1> QED BY <1>1, CommandIntro DEF Bare

\* What each step does to the commands under way, and to nothing else of this.
LEMMA SentStep ==
    ASSUME TypeOK, TypeOK', Next
    PROVE  \/ Sent' = Sent /\ forwarded' = forwarded
           \/ (\E cs \in SUBSET Bare : Sent' = Sent \cup cs) /\ forwarded' = forwarded
           \/ Sent' = Sent \cup {Execute(Stamp(queue))} /\ forwarded' = forwarded
           \/ \E items \in Seq(QueuedItem) : /\ Sent' = Sent \cup {Append_(Stamp(items))}
                                            /\ forwarded' = forwarded \cup Ids(items)
           \/ /\ cmds # <<>> /\ Sent = {Head(cmds)} \cup Sent' /\ forwarded' = forwarded
              /\ StartRun \/ RefuseRun \/ IgnoreCancel \/ ImportPlaylist \/ DrainCommand
<1>1. cmds \in Seq(Command) /\ pending \in Seq(Command)
  BY DEF TypeOK
<1>2. CASE UNCHANGED <<cmds, pending, forwarded>>
  BY <1>2 DEF Sent
<1>3. CASE FlushPending
  <2>1. cmds' = cmds \o pending /\ pending' = <<>> /\ forwarded' = forwarded
    BY <1>3 DEF FlushPending, history
  <2>2. Elems(cmds \o pending) = Elems(cmds) \cup Elems(pending) /\ Elems(<<>>) = {}
    BY <1>1, ElemsIs
  <2> QED BY <2>1, <2>2 DEF Sent
<1>4. ASSUME cmds # <<>>, cmds' = Tail(cmds), UNCHANGED <<pending, forwarded>>
      PROVE  Sent = {Head(cmds)} \cup Sent'
  <2>1. Elems(cmds) = {Head(cmds)} \cup Elems(Tail(cmds))
    BY <1>1, <1>4, ElemsIs
  <2> QED BY <1>4, <2>1 DEF Sent
<1>5. CASE OnSyncComplete
  <2> DEFINE f == [i \in DOMAIN imports |-> Import(imports[i])]
  <2>1. imports \in Seq(Name) /\ Len(imports) \in Nat /\ DOMAIN imports = 1..Len(imports)
    BY LenProperties DEF TypeOK
  <2>2. \A i \in 1..Len(imports) : f[i] \in Bare
    BY <2>1, ElementOfSeq, BareIs
  <2>3. f = [i \in 1..Len(imports) |-> f[i]]
    BY <2>1
  <2>4. pending' = pending \o f /\ cmds' = cmds /\ forwarded' = forwarded
    BY <1>5 DEF OnSyncComplete, HandleEvent, history
  <2> HIDE DEF f
  <2>5. f \in Seq(Bare) /\ f \in Seq(Command)
    BY <2>1, <2>2, <2>3, MapType DEF Bare
  <2>6. Elems(pending \o f) = Elems(pending) \cup Elems(f)
    BY <1>1, <2>5, ElemsIs
  <2>7. Elems(f) \subseteq Bare
    BY <2>5, ElemsIs
  <2> QED BY <2>4, <2>6, <2>7 DEF Sent
<1>6. CASE ExecuteSync
  <2>1. Execute(Stamp(queue)) \in Command
    BY StampType, CommandIntro DEF TypeOK
  <2>2. cmds' = Append(cmds, Execute(Stamp(queue))) /\ UNCHANGED <<pending, forwarded>>
    BY <1>6 DEF ExecuteSync
  <2>3. Elems(Append(cmds, Execute(Stamp(queue)))) = Elems(cmds) \cup {Execute(Stamp(queue))}
    BY <1>1, <2>1, ElemsAppend
  <2> QED BY <2>2, <2>3 DEF Sent
<1>7. CASE PressCancel
  <2>1. cmds' = Append(cmds, CancelSync) /\ UNCHANGED <<pending, forwarded>>
    BY <1>7 DEF PressCancel
  <2>2. Elems(Append(cmds, CancelSync)) = Elems(cmds) \cup {CancelSync}
    BY <1>1, CommandIntro, ElemsAppend
  <2>3. Sent' = Sent \cup {CancelSync}
    BY <2>1, <2>2 DEF Sent
  <2>4. {CancelSync} \in SUBSET Bare
    BY BareIs
  <2> QED BY <2>1, <2>3, <2>4
<1>8. ASSUME NEW pick \in Picks, AddToQueue(pick), ~UNCHANGED <<cmds, pending, forwarded>>
      PROVE  \E items \in Seq(QueuedItem) : Sent' = Sent \cup {Append_(Stamp(items))}
                                            /\ forwarded' = forwarded \cup Ids(items)
  <2>1. PICK items \in Seq(QueuedItem) : /\ pending' = Append(pending, Append_(Stamp(items)))
                                        /\ forwarded' = forwarded \cup Ids(items) /\ cmds' = cmds
    BY <1>8, AddedItems
  <2>2. Append_(Stamp(items)) \in Command
    BY StampType, CommandIntro DEF TypeOK
  <2>3. Elems(pending') = Elems(pending) \cup {Append_(Stamp(items))}
    BY <1>1, <2>1, <2>2, ElemsAppend
  <2> QED BY <2>1, <2>3 DEF Sent
<1>9. CASE \/ OnSyncProgress \/ OnDeviceTrackAdded \/ OnDeviceTrackRemoved \/ OnSessionFailed \/ OnNotice
           \/ NoKey \/ (\E entry \in 0..MaxKeys : RemoveQueueItem(entry)) \/ ClearQueue
  BY <1>2, <1>9 DEF OnSyncProgress, OnDeviceTrackAdded, OnDeviceTrackRemoved, OnSessionFailed, OnNotice,
     HandleEvent, history, NoKey, RemoveQueueItem, ClearQueue
<1>10. CASE StartRun \/ RefuseRun \/ IgnoreCancel \/ ImportPlaylist \/ DrainCommand
  BY <1>4, <1>10 DEF StartRun, RefuseRun, IgnoreCancel, ImportPlaylist, DrainCommand, WorkerOnly, ui, history
<1>11. CASE \/ CancelRun \/ PrefetchTranscodes \/ ExhaustRun \/ PopItem \/ PopFailed \/ RemoveCopy
            \/ UploadOk \/ UploadFailed \/ DeviceGone \/ FinishRun
  BY <1>2, <1>11 DEF CancelRun, PrefetchTranscodes, ExhaustRun, PopItem, PopFailed, RemoveCopy, UploadOk,
     UploadFailed, DeviceGone, FinishRun, WorkerOnly, ui
<1>12. CASE \E pick \in Picks : AddToQueue(pick)
  BY <1>2, <1>8, <1>12
<1> QED BY <1>3, <1>5, <1>6, <1>7, <1>9, <1>10, <1>11, <1>12 DEF Next, UINext, WorkerNext

\* The worker has an item in its hand exactly while it overwrites.
LEMMA HandIs ==
    ASSUME Inv, Rest
    PROVE  /\ pc = "overwrite" => hand = <<Item>> /\ Item \in SyncItem
           /\ pc # "overwrite" => hand = <<>>
           /\ pc = "idle" => runq = <<>>
<1>1. hand \in Seq(SyncItem)
  BY DEF Inv, TypeOK
<1>2. pc # "overwrite" => hand = <<>>
  <2>1. pc # "overwrite" => pc = "idle" \/ Len(hand) = 0
    BY DEF Inv, RunAccounting
  <2> QED BY <1>1, <2>1, EmptySeq DEF Rest
<1>3. ASSUME pc = "overwrite" PROVE hand = <<Item>> /\ Item \in SyncItem
  <2>1. Len(hand) = 1 /\ Item \in SyncItem
    BY <1>3, ItemType
  <2>2. hand = [i \in 1..1 |-> hand[i]]
    BY <1>1, <2>1, LenProperties
  <2> QED BY <2>1, <2>2 DEF Item
<1> QED BY <1>2, <1>3 DEF Rest

LEMMA RestStep == ASSUME Inv, Rest, Next PROVE Rest'
<1>1. CASE UINext
  <2>1. UNCHANGED <<pc, runq, hand>>
    BY <1>1 DEF UINext, OnSyncProgress, OnDeviceTrackAdded, OnDeviceTrackRemoved, OnSyncComplete,
       OnSessionFailed, OnNotice, HandleEvent, FlushPending, NoKey, PressKey, AddToQueue, RemoveQueueItem,
       ClearQueue, ExecuteSync, PressCancel, run
  <2> QED BY <2>1 DEF Rest
<1>2. CASE FinishRun
  <2>1. hand = <<>>
    BY <1>2, HandIs DEF FinishRun
  <2> QED BY <1>2, <2>1 DEF FinishRun, Rest
<1>3. CASE RefuseRun \/ IgnoreCancel \/ ImportPlaylist
  BY <1>3 DEF RefuseRun, IgnoreCancel, ImportPlaylist, run, Rest
<1>4. CASE \/ StartRun \/ DrainCommand \/ CancelRun \/ PrefetchTranscodes \/ ExhaustRun
           \/ PopItem \/ PopFailed \/ RemoveCopy \/ UploadOk \/ UploadFailed \/ DeviceGone
  <2>1. pc' # "idle"
    BY <1>4 DEF StartRun, DrainCommand, CancelRun, PrefetchTranscodes, ExhaustRun,
       PopItem, PopFailed, RemoveCopy, UploadOk, UploadFailed, DeviceGone
  <2> QED BY <2>1 DEF Rest
<1> QED BY <1>1, <1>2, <1>3, <1>4 DEF Next, WorkerNext

-----------------------------------------------------------------------------
(* No forwarded track is lost. *)

LEMMA IdsElems == \A s : Ids(s) = {it.id : it \in Elems(s)}
BY DEF Ids, Elems

\* What the App sends has the ids of what is queued.
LEMMA StampIds == \A items \in Seq(QueuedItem) : Ids(Stamp(items)) = Ids(items)
<1> SUFFICES ASSUME NEW items \in Seq(QueuedItem) PROVE Ids(Stamp(items)) = Ids(items)
  OBVIOUS
<1>1. DOMAIN Stamp(items) = DOMAIN items /\ \A i \in DOMAIN items : Stamp(items)[i].id = items[i].id
  BY DEF Stamp
<1> QED BY <1>1 DEF Ids

\* The worker has been given an item: it is reported, in its queue or in its hand.
Held == settled \cup Ids(runq) \cup Ids(hand)

\* What was given stays so, whatever the worker does with it.
LEMMA HeldStep == ASSUME Inv, Rest, Next PROVE Held \subseteq Held'
<1> USE DEF Held
<1>0. runq \in Seq(SyncItem)
  BY DEF Inv, TypeOK
<1>1. CASE UNCHANGED <<settled, runq, hand>>
  BY <1>1
<1>2. CASE UINext
  BY <1>1, <1>2 DEF UINext, OnSyncProgress, OnDeviceTrackAdded, OnDeviceTrackRemoved, OnSyncComplete,
     OnSessionFailed, OnNotice, HandleEvent, FlushPending, NoKey, PressKey, AddToQueue, RemoveQueueItem,
     ClearQueue, ExecuteSync, PressCancel, run, history
<1>3. Elems(<<>>) = {} /\ Ids(<<>>) = {}
  BY DEF Elems, Ids
<1>4. CASE StartRun
  BY <1>3, <1>4, HandIs DEF StartRun
<1>5. CASE RefuseRun
  BY <1>5 DEF RefuseRun, run
<1>6. CASE IgnoreCancel \/ ImportPlaylist \/ CancelRun \/ PrefetchTranscodes \/ ExhaustRun
  BY <1>1, <1>6 DEF IgnoreCancel, ImportPlaylist, CancelRun, PrefetchTranscodes, ExhaustRun, run, history
<1>7. CASE DrainCommand
  <2>1. CASE Head(cmds).op = "append"
    <3>1. Head(cmds).items \in Seq(SyncItem) /\ runq' = runq \o Head(cmds).items
      BY <1>7, <2>1, TakeCommand DEF DrainCommand
    <3>2. Elems(runq') = Elems(runq) \cup Elems(Head(cmds).items)
      BY <1>0, <3>1, ElemsIs
    <3> QED BY <1>7, <3>2, IdsElems DEF DrainCommand
  <2>2. CASE Head(cmds).op # "append"
    BY <1>1, <1>7, <2>2 DEF DrainCommand
  <2> QED BY <2>1, <2>2
<1>8. CASE PopItem \/ PopFailed
  <2>1. runq # <<>> /\ runq' = Tail(runq)
    BY <1>8 DEF PopItem, PopFailed
  <2>2. Elems(runq) = {Head(runq)} \cup Elems(Tail(runq))
    BY <1>0, <2>1, ElemsIs
  <2>3. Ids(runq) = {Head(runq).id} \cup Ids(runq')
    BY <2>1, <2>2, IdsElems
  <2>4. Ids(hand) = {}
    BY <1>3, <1>8, HandIs DEF PopItem, PopFailed, Drained
  <2>5. \/ settled' = settled \cup {Head(runq).id}
        \/ hand' = <<Head(runq)>> /\ settled' = settled
    BY <1>8 DEF PopItem, PopFailed
  <2>6. Ids(<<Head(runq)>>) = {Head(runq).id}
    BY IdsElems, ElemsOne
  <2> QED BY <2>3, <2>4, <2>5, <2>6
<1>9. CASE RemoveCopy
  <2>1. PICK c \in Item.targets : hand' = <<[Item EXCEPT !.targets = Item.targets \ {c}]>>
    BY <1>9 DEF RemoveCopy, SetTargets
  <2>2. hand = <<Item>> /\ Item \in SyncItem
    BY <1>9, HandIs DEF RemoveCopy
  <2> DEFINE left == [Item EXCEPT !.targets = Item.targets \ {c}]
  <2>3. hand' = <<left>> /\ left.id = Item.id
    BY <2>1, <2>2 DEF SyncItem
  <2> HIDE DEF left
  <2>4. Ids(hand) = {Item.id}
    BY <2>2, IdsElems, ElemsOne
  <2>5. Ids(<<left>>) = {left.id}
    BY IdsElems, ElemsOne
  <2> QED BY <1>9, <2>3, <2>4, <2>5 DEF RemoveCopy
<1>10. CASE UploadOk \/ UploadFailed \/ DeviceGone
  <2>1. hand = <<Item>> /\ settled' = settled \cup {Item.id} /\ runq' = runq
    BY <1>10, HandIs DEF UploadOk, UploadFailed, DeviceGone, ReportFailure
  <2>2. Ids(hand) = {Item.id}
    BY <2>1, IdsElems, ElemsOne
  <2> QED BY <2>1, <2>2
<1>11. CASE FinishRun
  BY <1>11 DEF FinishRun
<1> QED BY <1>2, <1>4, <1>5, <1>6, <1>7, <1>8, <1>9, <1>10, <1>11 DEF Next, WorkerNext

\* The worker takes an append command with all its items.
LEMMA TakenHeld ==
    ASSUME Inv, Rest, StartRun \/ RefuseRun \/ IgnoreCancel \/ ImportPlaylist \/ DrainCommand,
           Head(cmds).op = "append"
    PROVE  Ids(Head(cmds).items) \subseteq Held'
<1> USE DEF Held
<1>1. CASE StartRun \/ RefuseRun
  BY <1>1 DEF StartRun, RefuseRun
<1>2. CASE DrainCommand
  <2>1. /\ Head(cmds).items \in Seq(SyncItem) /\ runq' = runq \o Head(cmds).items
        /\ runq \in Seq(SyncItem)
    BY <1>2, TakeCommand DEF DrainCommand, Inv, TypeOK
  <2>2. Elems(runq') = Elems(runq) \cup Elems(Head(cmds).items)
    BY <2>1, ElemsIs
  <2> QED BY <2>2, IdsElems
<1>3. CASE IgnoreCancel \/ ImportPlaylist
  BY <1>3 DEF IgnoreCancel, ImportPlaylist
<1> QED BY <1>1, <1>2, <1>3

LEMMA ConservedStep == ASSUME Inv, Inv', Rest, Conserved, Next PROVE Conserved'
<1>1. forwarded \subseteq Held \cup Appends
  BY DEF Conserved, Held
<1>2. Held \subseteq Held'
  BY HeldStep
<1>3. SUFFICES forwarded' \subseteq Held' \cup Appends'
  BY DEF Conserved, Held
<1>4. CASE forwarded' = forwarded /\ Sent \subseteq Sent'
  <2>1. Appends \subseteq Appends'
    BY <1>4 DEF Appends
  <2> QED BY <1>1, <1>2, <1>4, <2>1
<1>5. CASE \E items \in Seq(QueuedItem) : /\ Sent' = Sent \cup {Append_(Stamp(items))}
                                          /\ forwarded' = forwarded \cup Ids(items)
  <2>1. PICK items \in Seq(QueuedItem) : /\ Sent' = Sent \cup {Append_(Stamp(items))}
                                         /\ forwarded' = forwarded \cup Ids(items)
    BY <1>5
  <2>2. Append_(Stamp(items)).op = "append" /\ Append_(Stamp(items)).items = Stamp(items)
    BY DEF Append_
  <2>3. Appends \subseteq Appends' /\ Ids(Stamp(items)) \subseteq Appends'
    BY <2>1, <2>2 DEF Appends
  <2> QED BY <1>1, <1>2, <2>1, <2>3, StampIds
<1>6. CASE /\ cmds # <<>> /\ Sent = {Head(cmds)} \cup Sent' /\ forwarded' = forwarded
           /\ StartRun \/ RefuseRun \/ IgnoreCancel \/ ImportPlaylist \/ DrainCommand
  <2>1. Head(cmds).op = "append" => Ids(Head(cmds).items) \subseteq Held'
    BY <1>6, TakenHeld
  <2>2. Appends \subseteq Held' \cup Appends'
    BY <1>6, <2>1 DEF Appends
  <2> QED BY <1>1, <1>2, <1>6, <2>2
<1> QED BY <1>4, <1>5, <1>6, SentStep DEF Inv

-----------------------------------------------------------------------------
(* A handle stands for one copy. *)

\* What the App sends is stamped with copies of the index, of the same track.
LEMMA StampElems ==
    ASSUME NEW items \in Seq(QueuedItem), NEW it \in Elems(Stamp(items))
    PROVE  it.targets \subseteq {c \in index : c.track = it.track}
<1>1. PICK i \in DOMAIN items : it = [id |-> items[i].id, track |-> items[i].track,
                                      targets |-> FindCopies(items[i].track)]
  BY DEF Elems, Stamp
<1>2. it.track = items[i].track /\ it.targets = FindCopies(items[i].track)
  BY <1>1
<1> QED BY <1>2 DEF FindCopies

\* An item under way after a step was under way before it, with the same targets
\* or one less, or has just been stamped.
Stamped == {it \in SyncItem : it.targets \subseteq {c \in index : c.track = it.track}}
Older   == {it \in SyncItem : \E g \in Goods : it.track = g.track /\ it.targets \subseteq g.targets}

LEMMA GoodsStep == ASSUME Inv, Inv', Rest, Next PROVE Goods' \subseteq Older \cup Stamped
<1>0. /\ runq \in Seq(SyncItem) /\ runq' \in Seq(SyncItem) /\ hand' \in Seq(SyncItem)
      /\ cmds \in Seq(Command) /\ queue \in Seq(QueuedItem) /\ index \subseteq Copy
  BY DEF Inv, TypeOK
<1>1. Goods \subseteq SyncItem
  <2>1. Elems(runq) \subseteq SyncItem /\ Elems(hand) \subseteq SyncItem
    BY ElemsIs DEF Inv, TypeOK
  <2>2. \A c \in Sent : c.op \in {"execute", "append"} => Elems(c.items) \subseteq SyncItem
    BY SentIs, CommandElim, ElemsIs DEF Inv
  <2> QED BY <2>1, <2>2 DEF Goods, Items
<1>2. Goods \subseteq Older
  BY <1>1 DEF Older
<1>3. \A items \in Seq(QueuedItem) : Elems(Stamp(items)) \subseteq Stamped
  <2> TAKE items \in Seq(QueuedItem)
  <2>1. Elems(Stamp(items)) \subseteq SyncItem
    BY <1>0, StampType, ElemsIs
  <2> QED BY <2>1, StampElems DEF Stamped
<1>4. Items(Sent') \subseteq Goods \cup Stamped
  <2>1. CASE Sent' \subseteq Sent
    BY <2>1 DEF Items, Goods
  <2>2. CASE \E cs \in SUBSET Bare : Sent' = Sent \cup cs
    BY <2>2 DEF Items, Goods, Bare
  <2>3. CASE \E items \in Seq(QueuedItem) : Sent' = Sent \cup {Append_(Stamp(items))}
    BY <1>3, <2>3 DEF Items, Goods, Append_
  <2>4. CASE Sent' = Sent \cup {Execute(Stamp(queue))}
    BY <1>0, <1>3, <2>4 DEF Items, Goods, Execute
  <2> QED BY <2>1, <2>2, <2>3, <2>4, SentStep DEF Inv
<1>5. /\ Elems(<<>>) = {}
      /\ cmds # <<>> => Head(cmds) \in Sent
  <2>1. cmds # <<>> => Head(cmds) \in Elems(cmds)
    BY <1>0, ElemsIs
  <2> QED BY <2>1 DEF Elems, Sent
<1>6. cmds # <<>> /\ Head(cmds).op \in {"execute", "append"} => Elems(Head(cmds).items) \subseteq Goods
  BY <1>5 DEF Goods, Items
<1>7. Elems(runq') \subseteq Goods
  <2>1. CASE runq' = runq
    BY <2>1 DEF Goods
  <2>2. CASE StartRun
    BY <1>6, <2>2 DEF StartRun
  <2>3. CASE DrainCommand /\ runq' # runq
    <3>1. Head(cmds).items \in Seq(SyncItem) /\ runq' = runq \o Head(cmds).items /\ Head(cmds).op = "append"
      BY <2>3, TakeCommand DEF DrainCommand
    <3>2. Elems(runq') = Elems(runq) \cup Elems(Head(cmds).items)
      BY <1>0, <3>1, ElemsIs
    <3> QED BY <1>6, <2>3, <3>1, <3>2 DEF Goods, DrainCommand
  <2>4. CASE PopItem \/ PopFailed
    <3>1. Elems(runq) = {Head(runq)} \cup Elems(Tail(runq)) /\ runq' = Tail(runq)
      BY <1>0, <2>4, ElemsIs DEF PopItem, PopFailed
    <3> QED BY <3>1 DEF Goods
  <2>5. CASE FinishRun
    BY <1>5, <2>5 DEF FinishRun
  <2>6. CASE UINext
    BY <2>1, <2>6 DEF UINext, OnSyncProgress, OnDeviceTrackAdded, OnDeviceTrackRemoved, OnSyncComplete,
       OnSessionFailed, OnNotice, HandleEvent, FlushPending, NoKey, PressKey, AddToQueue, RemoveQueueItem,
       ClearQueue, ExecuteSync, PressCancel, run
  <2>7. CASE \/ RefuseRun \/ IgnoreCancel \/ ImportPlaylist \/ CancelRun \/ PrefetchTranscodes \/ ExhaustRun
             \/ RemoveCopy \/ UploadOk \/ UploadFailed \/ DeviceGone
    BY <2>1, <2>7 DEF RefuseRun, IgnoreCancel, ImportPlaylist, CancelRun, PrefetchTranscodes, ExhaustRun,
       RemoveCopy, UploadOk, UploadFailed, DeviceGone, run
  <2> QED BY <2>1, <2>2, <2>3, <2>4, <2>5, <2>6, <2>7 DEF Next, WorkerNext
<1>8. Elems(hand') \subseteq Older
  <2>1. CASE hand' = hand
    BY <1>2, <2>1 DEF Goods
  <2>2. CASE hand' = <<>>
    BY <1>5, <2>2
  <2>3. CASE PopItem
    <3>1. Elems(runq) = {Head(runq)} \cup Elems(Tail(runq)) /\ hand' = <<Head(runq)>>
      BY <1>0, <2>3, ElemsIs DEF PopItem
    <3> QED BY <1>2, <3>1, ElemsOne DEF Goods
  <2>4. CASE RemoveCopy
    <3>1. hand = <<Item>> /\ Item \in SyncItem
      BY <2>4, HandIs DEF RemoveCopy
    <3>2. PICK c \in Item.targets : hand' = <<[Item EXCEPT !.targets = Item.targets \ {c}]>>
      BY <2>4 DEF RemoveCopy, SetTargets
    <3> DEFINE left == [Item EXCEPT !.targets = Item.targets \ {c}]
    <3>3. hand' = <<left>> /\ left \in SyncItem /\ left.track = Item.track /\ left.targets \subseteq Item.targets
      BY <3>1, <3>2 DEF SyncItem
    <3> HIDE DEF left
    <3>4. Elems(hand) = {Item} /\ Elems(<<left>>) = {left}
      BY <3>1, ElemsOne
    <3>5. Item \in Goods
      BY <3>4 DEF Goods
    <3>6. left \in Older
      BY <3>3, <3>5 DEF Older
    <3> QED BY <3>3, <3>4, <3>6
  <2>5. CASE UINext
    BY <2>1, <2>5 DEF UINext, OnSyncProgress, OnDeviceTrackAdded, OnDeviceTrackRemoved, OnSyncComplete,
       OnSessionFailed, OnNotice, HandleEvent, FlushPending, NoKey, PressKey, AddToQueue, RemoveQueueItem,
       ClearQueue, ExecuteSync, PressCancel, run
  <2>6. CASE \/ RefuseRun \/ IgnoreCancel \/ ImportPlaylist \/ CancelRun \/ PrefetchTranscodes \/ ExhaustRun
             \/ StartRun \/ DrainCommand \/ PopFailed \/ UploadOk \/ UploadFailed \/ DeviceGone \/ FinishRun
    BY <2>1, <2>2, <2>6 DEF RefuseRun, IgnoreCancel, ImportPlaylist, CancelRun, PrefetchTranscodes, ExhaustRun,
       StartRun, DrainCommand, PopFailed, UploadOk, UploadFailed, DeviceGone, ReportFailure, FinishRun, run
  <2> QED BY <2>3, <2>4, <2>5, <2>6 DEF Next, WorkerNext
<1> QED BY <1>2, <1>4, <1>7, <1>8 DEF Goods

\* What each step does to the index, the events and the device.
PopsEvent ==
    /\ evs # <<>> /\ evs' = Tail(evs) /\ UNCHANGED dev
    /\ \/ Head(evs).ev = "added" /\ index' \subseteq index \cup {Head(evs).copy}
       \/ Head(evs).ev = "removed" /\ index' = {c \in index : <<c.track, c.path>> # Head(evs).path}
       \/ Head(evs).ev \notin {"added", "removed"} /\ index' = index

SendsNotice ==
    /\ UNCHANGED <<index, dev>>
    /\ \E es \in Seq(Event) : Emit(es) /\ \A e \in Elems(es) : e.ev \notin {"added", "removed"}

LEMMA EventsStep ==
    ASSUME Inv, Next
    PROVE  \/ UNCHANGED <<evs, index, dev>> \/ PopsEvent \/ SendsNotice
           \/ (UploadOk \/ UploadFailed \/ DeviceGone \/ RemoveCopy) /\ index' = index
<1>1. CASE OnSyncProgress \/ OnDeviceTrackAdded \/ OnDeviceTrackRemoved \/ OnSyncComplete \/ OnSessionFailed \/ OnNotice
  BY <1>1 DEF OnSyncProgress, OnDeviceTrackAdded, OnDeviceTrackRemoved, OnSyncComplete, OnSessionFailed,
     OnNotice, HandleEvent, PopsEvent
<1>2. CASE \/ FlushPending \/ NoKey \/ (\E pick \in Picks : AddToQueue(pick))
           \/ (\E entry \in 0..MaxKeys : RemoveQueueItem(entry)) \/ ClearQueue \/ ExecuteSync \/ PressCancel
  BY <1>2 DEF FlushPending, NoKey, PressKey, AddToQueue, RemoveQueueItem, ClearQueue, ExecuteSync, PressCancel
<1>3. CASE StartRun \/ IgnoreCancel \/ DrainCommand \/ CancelRun \/ PrefetchTranscodes \/ ExhaustRun
  BY <1>3 DEF StartRun, IgnoreCancel, DrainCommand, CancelRun, PrefetchTranscodes, ExhaustRun, WorkerOnly, ui
<1>4. /\ Progress \in Event /\ Notice \in Event /\ SessionFailed \in Event
      /\ Progress.ev = "progress" /\ Notice.ev = "notice" /\ SessionFailed.ev = "lost"
      /\ \A s, f, k \in Nat : Complete(s, f, k) \in Event /\ Complete(s, f, k).ev = "complete"
  BY EventIntro DEF Progress, Notice, SessionFailed, Complete
<1>5. ASSUME NEW d \in Event, NEW e \in Event, d.ev \notin {"added", "removed"}, e.ev \notin {"added", "removed"},
             UNCHANGED <<index, dev>>, Emit(<<e>>) \/ Emit(<<d, e>>)
      PROVE  SendsNotice
  <2>1. <<e>> \in Seq(Event) /\ <<d, e>> \in Seq(Event)
    BY OneOrTwo
  <2>2. Elems(<<e>>) = {e} /\ Elems(<<d, e>>) = {d, e}
    BY DEF Elems
  <2> QED BY <1>5, <2>1, <2>2 DEF SendsNotice
<1>6. CASE RefuseRun
  <2>1. UNCHANGED <<index, dev>> /\ Emit(<<Notice>>)
    BY <1>6 DEF RefuseRun, WorkerOnly, ui
  <2> QED BY <1>4, <1>5, <2>1
<1>7. CASE ImportPlaylist
  <2>1. UNCHANGED <<index, dev>> /\ (Emit(<<Notice>>) \/ Emit(<<Notice, SessionFailed>>))
    BY <1>7 DEF ImportPlaylist, ui
  <2> QED BY <1>4, <1>5, <2>1
<1>8. CASE PopItem \/ PopFailed
  <2>1. UNCHANGED <<index, dev>> /\ (Emit(<<Progress>>) \/ Emit(<<Progress, Notice>>))
    BY <1>8 DEF PopItem, PopFailed, WorkerOnly, ui
  <2> QED BY <1>4, <1>5, <2>1
<1>9. CASE FinishRun
  <2> DEFINE c == Complete(success, failed, Len(runq))
  <2>1. c \in Event /\ c.ev = "complete"
    <3>1. Len(runq) \in Nat
      BY LenProperties DEF Inv, TypeOK
    <3>2. success \in Nat /\ failed \in Nat
      BY DEF Inv, TypeOK
    <3> QED BY <1>4, <3>1, <3>2
  <2>2. UNCHANGED <<index, dev>>
    BY <1>9 DEF FinishRun, ui
  <2>3. PICK s \in {<<SessionFailed>>, <<>>} : Emit(<<c>> \o s)
    BY <1>9 DEF FinishRun
  <2> HIDE DEF c
  <2> DEFINE one == <<c>>
  <2>4. one \in Seq(Event) /\ s \in Seq(Event)
    BY <1>4, <2>1, OneOrTwo
  <2>5. Elems(one) = {c} /\ Elems(s) \subseteq {SessionFailed}
    BY ElemsOne DEF Elems
  <2>6. Emit(one \o s)
    BY <2>3
  <2> HIDE DEF one
  <2>7. one \o s \in Seq(Event) /\ Elems(one \o s) = Elems(one) \cup Elems(s)
    BY <2>4, SeqType, ElemsIs
  <2>8. \A e \in Elems(one \o s) : e.ev \notin {"added", "removed"}
    BY <1>4, <2>1, <2>5, <2>7
  <2> QED BY <2>2, <2>6, <2>7, <2>8 DEF SendsNotice
<1>10. CASE UploadOk \/ UploadFailed \/ DeviceGone \/ RemoveCopy
  BY <1>10 DEF UploadOk, UploadFailed, DeviceGone, RemoveCopy, WorkerOnly, ui
<1> QED BY <1>1, <1>2, <1>3, <1>6, <1>7, <1>8, <1>9, <1>10 DEF Next, UINext, WorkerNext

LEMMA UploadIs ==
    ASSUME Inv, UploadOk
    PROVE  /\ Uploaded \in Copy /\ Uploaded.oid = nextOid /\ Uploaded.track = Item.track
           /\ device' = device \cup {Uploaded} /\ evs' = evs \o <<Added(Uploaded)>>
           /\ Added(Uploaded) \in Event /\ <<Added(Uploaded)>> \in Seq(Event)
           /\ Elems(evs') = Elems(evs) \cup {Added(Uploaded)}
<1>1. Uploaded \in Copy /\ Uploaded.oid = nextOid /\ Uploaded.track = Item.track
  BY UploadedType DEF Uploaded, UploadOk
<1>2. device' = device \cup {Uploaded} /\ evs' = evs \o <<Added(Uploaded)>>
  BY DEF UploadOk, PutOnDevice, Emit
<1>3. Added(Uploaded) \in Event /\ <<Added(Uploaded)>> \in Seq(Event)
  BY <1>1, EventIntro, OneOrTwo
<1>4. Elems(evs') = Elems(evs) \cup {Added(Uploaded)}
  <2>1. evs \in Seq(Event)
    BY DEF Inv, TypeOK
  <2>2. Elems(evs \o <<Added(Uploaded)>>) = Elems(evs) \cup {Added(Uploaded)}
    BY <1>3, <2>1, ElemsSend
  <2> QED BY <1>2, <2>2, Zenon
<1> QED BY <1>1, <1>2, <1>3, <1>4

\* A failure, of the upload or of the device, is told in one event.  It can leave
\* the new copy, or hide that an old one is gone.
LEMMA FailIs ==
    ASSUME Inv, UploadFailed \/ DeviceGone
    PROVE  /\ evs' = evs \o <<Notice>> /\ <<Notice>> \in Seq(Event) /\ News' = News
           /\ Elems(<<Notice>>) = {Notice} /\ Notice.ev = "notice"
           /\ pc = "overwrite" /\ Uploaded.oid = nextOid
           /\ \/ device' = device \cup {Uploaded} /\ nextOid' = nextOid + 1 /\ doubtful' = doubtful
              \/ device' = device /\ nextOid' = nextOid /\ doubtful' = doubtful
              \/ /\ \E c \in Item.targets :
                       (device' = device \/ device' = {d \in device : d.oid # c.oid})
                       /\ doubtful' = doubtful \cup {c}
                 /\ nextOid' = nextOid
<1>1. evs' = evs \o <<Notice>> /\ pc = "overwrite" /\ Uploaded.oid = nextOid
  BY DEF UploadFailed, DeviceGone, ReportFailure, Emit, Uploaded
<1>2. Notice \in Event /\ Notice.ev = "notice"
  BY EventIntro DEF Notice
<1>3. <<Notice>> \in Seq(Event) /\ Elems(<<Notice>>) = {Notice}
  BY <1>2, OneOrTwo, ElemsOne
<1>4. Elems(evs') = Elems(evs) \cup {Notice}
  <2>1. evs \in Seq(Event)
    BY DEF Inv, TypeOK
  <2>2. Elems(evs \o <<Notice>>) = Elems(evs) \cup {Notice}
    BY <1>2, <2>1, ElemsSend
  <2> QED BY <1>1, <2>2, Zenon
<1>5. News' = News
  BY <1>2, <1>4 DEF News
<1>6. \/ device' = device \cup {Uploaded} /\ nextOid' = nextOid + 1 /\ doubtful' = doubtful
      \/ device' = device /\ nextOid' = nextOid /\ doubtful' = doubtful
      \/ /\ \E c \in Item.targets :
               (device' = device \/ device' = {d \in device : d.oid # c.oid})
               /\ doubtful' = doubtful \cup {c}
         /\ nextOid' = nextOid
  BY DEF UploadFailed, DeviceGone, FailToUpload, PutOnDevice, FailToRemove, AllBut, WorkerOnly, dev
<1> QED BY <1>1, <1>2, <1>3, <1>5, <1>6

\* What a removal does: the App is told of the copy it removed, or the user that
\* the copy could not be removed.
LEMMA RemoveIs ==
    ASSUME Inv, RemoveCopy
    PROVE  \E c \in Item.targets :
              /\ Item \in SyncItem /\ c \in Copy
              /\ nextOid' = nextOid
              /\ device' = device \/ device' = {d \in device : d.oid # c.oid}
              /\ \/ evs' = evs /\ doubtful' = doubtful \cup {c}
                 \/ /\ doubtful' = doubtful
                    /\ evs' = evs \o <<Removed(<<c.track, c.path>>)>>
                    /\ Removed(<<c.track, c.path>>) \in Event
                    /\ <<Removed(<<c.track, c.path>>)>> \in Seq(Event)
<1>1. PICK c \in Item.targets :
         /\ device' = device \/ device' = {d \in device : d.oid # c.oid}
         /\ \/ evs' = evs /\ doubtful' = doubtful \cup {c}
            \/ doubtful' = doubtful /\ evs' = evs \o <<Removed(<<c.track, c.path>>)>>
  BY DEF RemoveCopy, FailToRemove, AllBut, Emit
<1>2. Item \in SyncItem /\ c \in Copy
  BY ItemType DEF RemoveCopy, SyncItem
<1>3. Removed(<<c.track, c.path>>) \in Event /\ <<Removed(<<c.track, c.path>>)>> \in Seq(Event)
  BY <1>2, EventIntro, OneOrTwo
<1> QED BY <1>1, <1>2, <1>3 DEF RemoveCopy

\* A step makes known at most the copy it uploads, under a new handle.
LEMMA KnownStep ==
    ASSUME Inv, Next
    PROVE  \/ /\ device' \cup index' \cup News' \subseteq device \cup index \cup News \cup {Uploaded}
              /\ Uploaded.oid = nextOid /\ nextOid' = nextOid + 1
           \/ /\ device' \cup index' \cup News' \subseteq device \cup index \cup News
              /\ nextOid' = nextOid
<1>1. CASE UNCHANGED <<evs, index, dev>>
  BY <1>1 DEF News, dev
<1>2. CASE PopsEvent
  <2>1. Elems(evs) = {Head(evs)} \cup Elems(evs')
    BY <1>2, ElemsIs DEF PopsEvent, Inv, TypeOK
  <2>2. News' \subseteq News
    BY <2>1 DEF News
  <2>3. Head(evs).ev = "added" => Head(evs).copy \in News
    BY <2>1 DEF News
  <2>4. index' \subseteq index \cup News
    BY <1>2, <2>3 DEF PopsEvent
  <2> QED BY <1>2, <2>2, <2>4 DEF PopsEvent, dev
<1>3. CASE SendsNotice
  <2>1. PICK es \in Seq(Event) : evs' = evs \o es /\ \A e \in Elems(es) : e.ev \notin {"added", "removed"}
    BY <1>3 DEF SendsNotice, Emit
  <2>2. Elems(evs') = Elems(evs) \cup Elems(es)
    BY <2>1, ElemsIs DEF Inv, TypeOK
  <2>3. News' = News
    BY <2>1, <2>2 DEF News
  <2> QED BY <1>3, <2>3 DEF SendsNotice, dev
<1>4. CASE UploadOk /\ index' = index
  <2>1. Added(Uploaded).copy = Uploaded
    BY DEF Added
  <2>2. News' \subseteq News \cup {Uploaded}
    BY <1>4, <2>1, UploadIs DEF News
  <2> QED BY <1>4, <2>2, UploadIs DEF UploadOk, PutOnDevice
<1>6. CASE (UploadFailed \/ DeviceGone) /\ index' = index
  BY <1>6, FailIs
<1>5. CASE RemoveCopy /\ index' = index
  <2>1. PICK c \in Item.targets :
              /\ device' = device \/ device' = {d \in device : d.oid # c.oid}
              /\ \/ evs' = evs
                 \/ /\ evs' = evs \o <<Removed(<<c.track, c.path>>)>>
                    /\ Removed(<<c.track, c.path>>) \in Event
    BY <1>5, RemoveIs
  <2>2. News' = News
    <3>1. CASE UNCHANGED evs
      BY <3>1 DEF News
    <3>2. CASE ~UNCHANGED evs
      <4> DEFINE e == Removed(<<c.track, c.path>>)
      <4>1. e.ev = "removed" /\ evs' = evs \o <<e>>
        BY <2>1, <3>2 DEF Removed
      <4> HIDE DEF e
      <4>2. Elems(evs') = Elems(evs) \cup {e}
        <5>1. evs \in Seq(Event)
          BY DEF Inv, TypeOK
        <5>2. e \in Event
          BY <2>1, <3>2 DEF e
        <5>3. Elems(evs \o <<e>>) = Elems(evs) \cup {e}
          BY <5>1, <5>2, ElemsSend
        <5> QED BY <4>1, <5>3, Zenon
      <4> QED BY <4>1, <4>2 DEF News
    <3> QED BY <3>1, <3>2
  <2> QED BY <1>5, <2>1, <2>2 DEF RemoveCopy
<1> QED BY <1>1, <1>2, <1>3, <1>4, <1>5, <1>6, EventsStep

LEMMA KnownType == ASSUME Inv PROVE Known \subseteq Copy /\ nextOid \in Nat /\ Goods \subseteq SyncItem
<1>1. Elems(runq) \subseteq SyncItem /\ Elems(hand) \subseteq SyncItem
  BY ElemsIs DEF Inv, TypeOK
<1>2. \A c \in Sent : c.op \in {"execute", "append"} => Elems(c.items) \subseteq SyncItem
  BY SentIs, CommandElim, ElemsIs DEF Inv
<1>3. Goods \subseteq SyncItem
  BY <1>1, <1>2 DEF Goods, Items
<1>4. News \subseteq Copy
  BY SentIs, EventElim DEF News, Inv
<1>5. device \subseteq Copy /\ index \subseteq Copy /\ nextOid \in Nat
  BY DEF Inv, TypeOK
<1>6. \A it \in Goods : it.targets \subseteq Copy
  BY <1>3 DEF SyncItem
<1> QED BY <1>3, <1>4, <1>5, <1>6 DEF Known

LEMMA HandlesStep == ASSUME Inv, Inv', Rest, Handles, Next PROVE Handles'
<1>1. Goods' \subseteq Older \cup Stamped
  BY GoodsStep
<1>2. ASSUME NEW it \in Goods' PROVE it.targets \subseteq Known
  BY <1>1, <1>2 DEF Known, Older, Stamped
<1>3. \/ /\ Known' \subseteq Known \cup {Uploaded}
         /\ Uploaded.oid = nextOid /\ nextOid' = nextOid + 1
      \/ Known' \subseteq Known /\ nextOid' = nextOid
  BY <1>2, KnownStep DEF Known
<1>4. \A c \in Known : c.oid \in Nat
  BY KnownType DEF Copy
<1>5. \A it \in Goods' : \A c \in it.targets : c.track = it.track
  <2> TAKE it \in Goods'
  <2>1. CASE it \in Older
    BY <2>1 DEF Older, Handles
  <2>2. CASE it \in Stamped
    BY <2>2 DEF Stamped
  <2> QED BY <1>1, <2>1, <2>2
<1>6. CASE /\ Known' \subseteq Known \cup {Uploaded}
           /\ Uploaded.oid = nextOid /\ nextOid' = nextOid + 1
  <2>1. nextOid \in Nat
    BY KnownType
  <2>2. \A c \in Known' : c.oid < nextOid'
    BY <1>4, <1>6, <2>1 DEF Handles
  <2>3. \A c, d \in Known' : c.oid = d.oid => c = d
    BY <1>4, <1>6, <2>1 DEF Handles
  <2> QED BY <1>5, <2>2, <2>3 DEF Handles
<1>7. CASE Known' \subseteq Known /\ nextOid' = nextOid
  BY <1>5, <1>7 DEF Handles
<1> QED BY <1>3, <1>6, <1>7

-----------------------------------------------------------------------------
(* The index, once the events under way are handled, lists no copy that is   *)
(* not on the device.                                                        *)

\* The copy c is announced at the place i, in the index or by an event, and no
\* later event takes it back.
Tells(i, c) == IF i = 0 THEN c \in index ELSE evs[i].ev = "added" /\ evs[i].copy = c
Takes(e, c) == e.ev = "removed" /\ e.path = <<c.track, c.path>>

LEMMA AnnouncedIs ==
    ASSUME Inv, NEW c
    PROVE  c \in Announced <=> \E i \in 0..Len(evs) :
              Tells(i, c) /\ \A j \in (i + 1)..Len(evs) : ~Takes(evs[j], c)
<1>1. DOMAIN evs = 1..Len(evs) /\ Len(evs) \in Nat
  BY LenProperties DEF Inv, TypeOK
<1>2. ASSUME NEW i \in 0..Len(evs), Tells(i, c)
      PROVE  c \in index \cup {evs[k].copy : k \in {k \in DOMAIN evs : evs[k].ev = "added"}}
  <2>1. i = 0 \/ i \in DOMAIN evs
    BY <1>1
  <2> QED BY <1>2, <2>1 DEF Tells
<1>3. c \in Announced => \E i \in 0..Len(evs) :
              Tells(i, c) /\ \A j \in (i + 1)..Len(evs) : ~Takes(evs[j], c)
  BY DEF Announced, Tells, Takes
<1>4. ASSUME NEW i \in 0..Len(evs), Tells(i, c), \A j \in (i + 1)..Len(evs) : ~Takes(evs[j], c)
      PROVE  c \in Announced
  BY <1>2, <1>4 DEF Announced, Tells, Takes
<1> QED BY <1>3, <1>4

\* Sending events announces what they add, and takes back what they remove.
LEMMA SentAnnounced ==
    ASSUME Inv, Inv', NEW es \in Seq(Event), evs' = evs \o es, index' = index, NEW c \in Announced'
    PROVE  \/ \E e \in Elems(es) : e.ev = "added" /\ e.copy = c
           \/ c \in Announced /\ \A e \in Elems(es) : ~Takes(e, c)
<1>1. PICK i \in 0..Len(evs') :
         Tells(i, c)' /\ \A j \in (i + 1)..Len(evs') : ~Takes(evs'[j], c)
  <2>1. c \in Announced' <=> (\E i \in 0..Len(evs) :
              Tells(i, c) /\ \A j \in (i + 1)..Len(evs) : ~Takes(evs[j], c))'
    <3>1. DOMAIN evs' = 1..Len(evs') /\ Len(evs') \in Nat
      BY LenProperties DEF Inv, TypeOK
    <3>2. ASSUME NEW i \in 0..Len(evs'), Tells(i, c)'
          PROVE  c \in index' \cup {evs'[k].copy : k \in {k \in DOMAIN evs' : evs'[k].ev = "added"}}
      <4>1. i = 0 \/ i \in DOMAIN evs'
        BY <3>1
      <4> QED BY <3>2, <4>1 DEF Tells
    <3> QED BY <3>2 DEF Announced, Tells, Takes
  <2> QED BY <2>1 DEF Takes
<1>2. /\ Len(evs) \in Nat /\ Len(es) \in Nat /\ Len(evs') = Len(evs) + Len(es)
      /\ \A k \in 1..(Len(evs) + Len(es)) : evs'[k] = IF k <= Len(evs) THEN evs[k] ELSE es[k - Len(evs)]
      /\ DOMAIN es = 1..Len(es)
  BY ConcatProperties, LenProperties DEF Inv, TypeOK
<1>3. CASE i > Len(evs)
  <2>1. i - Len(evs) \in DOMAIN es /\ evs'[i] = es[i - Len(evs)] /\ i # 0
    BY <1>2, <1>3
  <2>2. es[i - Len(evs)] \in Elems(es)
    BY <2>1 DEF Elems
  <2> QED BY <1>1, <2>1, <2>2 DEF Tells
<1>4. CASE i <= Len(evs)
  <2>1. i \in 0..Len(evs) /\ Tells(i, c)
    <3>1. i = 0 \/ evs'[i] = evs[i]
      BY <1>2, <1>4
    <3> QED BY <1>1, <1>2, <1>4, <3>1 DEF Tells
  <2>2. ASSUME NEW j \in (i + 1)..Len(evs) PROVE ~Takes(evs[j], c)
    <3>1. j \in (i + 1)..Len(evs') /\ evs'[j] = evs[j]
      BY <1>2
    <3> QED BY <1>1, <3>1
  <2>3. c \in Announced
    BY <2>1, <2>2, AnnouncedIs
  <2>4. ASSUME NEW k \in 1..Len(es) PROVE ~Takes(es[k], c)
    <3>1. k + Len(evs) \in (i + 1)..Len(evs') /\ evs'[k + Len(evs)] = es[k]
      BY <1>2, <1>4
    <3> QED BY <1>1, <3>1
  <2> QED BY <1>2, <2>3, <2>4 DEF Elems
<1> QED BY <1>1, <1>2, <1>3, <1>4

\* The same fact after a step.
LEMMA ToldAfter ==
    ASSUME Inv', NEW c \in Announced'
    PROVE  \E i \in 0..Len(evs') :
              Tells(i, c)' /\ \A j \in (i + 1)..Len(evs') : ~Takes(evs'[j], c)
BY DEF Announced, Tells, Takes

\* Handling an event announces nothing new.
LEMMA PopAnnounced == ASSUME Inv, Inv', PopsEvent PROVE Announced' \subseteq Announced
<1> SUFFICES ASSUME NEW c \in Announced' PROVE c \in Announced
  OBVIOUS
<1>1. PICK i \in 0..Len(evs') :
         Tells(i, c)' /\ \A j \in (i + 1)..Len(evs') : ~Takes(evs'[j], c)
  BY ToldAfter
<1>2. /\ Len(evs) \in Nat /\ Len(evs) > 0 /\ Len(evs') = Len(evs) - 1 /\ Head(evs) = evs[1]
      /\ \A k \in 1..Len(evs') : evs'[k] = evs[k + 1]
  <2>1. evs \in Seq(Event) /\ evs # <<>> /\ evs' = Tail(evs)
    BY DEF Inv, TypeOK, PopsEvent
  <2> QED BY <2>1, HeadTailProperties, SeqType
<1>3. ASSUME NEW j \in (i + 2)..Len(evs) PROVE ~Takes(evs[j], c)
  <2>1. j - 1 \in (i + 1)..Len(evs') /\ evs'[j - 1] = evs[j]
    BY <1>2
  <2> QED BY <1>1, <2>1
<1>4. CASE i # 0
  <2>1. i + 1 \in 0..Len(evs) /\ Tells(i + 1, c)
    BY <1>1, <1>2, <1>4 DEF Tells
  <2> QED BY <1>3, <2>1, AnnouncedIs
<1>5. CASE i = 0 /\ c \in index
  <2>1. c \in index'
    BY <1>1, <1>5 DEF Tells
  <2>2. ~Takes(evs[1], c)
    BY <1>2, <2>1 DEF PopsEvent, Takes
  <2>3. \A j \in 1..Len(evs) : ~Takes(evs[j], c)
    BY <1>2, <1>3, <1>5, <2>2
  <2>4. 0 \in 0..Len(evs) /\ Tells(0, c)
    BY <1>2, <1>5 DEF Tells
  <2> QED BY <2>3, <2>4, AnnouncedIs
<1>6. CASE i = 0 /\ c \notin index
  <2>1. c \in index'
    BY <1>1, <1>6 DEF Tells
  <2>2. Head(evs).ev = "added" /\ Head(evs).copy = c
    BY <1>6, <2>1 DEF PopsEvent
  <2>3. 1 \in 0..Len(evs) /\ Tells(1, c)
    BY <1>2, <2>2 DEF Tells
  <2>4. \A j \in (1 + 1)..Len(evs) : ~Takes(evs[j], c)
    BY <1>3, <1>6
  <2> QED BY <2>3, <2>4, AnnouncedIs
<1> QED BY <1>4, <1>5, <1>6

\* What was doubtful stays so.
LEMMA DoubtfulGrows == ASSUME Next PROVE doubtful \subseteq doubtful'
<1>1. CASE UINext
  BY <1>1 DEF UINext, OnSyncProgress, OnDeviceTrackAdded, OnDeviceTrackRemoved, OnSyncComplete,
     OnSessionFailed, OnNotice, HandleEvent, FlushPending, NoKey, PressKey, AddToQueue, RemoveQueueItem,
     ClearQueue, ExecuteSync, PressCancel, history
<1>2. CASE WorkerNext
  BY <1>2 DEF WorkerNext, StartRun, RefuseRun, IgnoreCancel, ImportPlaylist, DrainCommand, CancelRun,
     PrefetchTranscodes, ExhaustRun, PopItem, PopFailed, RemoveCopy, UploadOk, UploadFailed, DeviceGone,
     FinishRun, FailToRemove, WorkerOnly, history
<1> QED BY <1>1, <1>2 DEF Next

\* Taking a copy off the device takes no other known copy off it.
LEMMA OthersStay ==
    ASSUME Inv, Rest, Handles, pc = "overwrite", NEW d \in Item.targets,
           device' = device \/ device' = {x \in device : x.oid # d.oid}
    PROVE  \A x \in device : x \in device' \/ x = d
<1>1. Item \in Goods
  BY HandIs, ElemsOne DEF Goods
<1> QED BY <1>1 DEF Known, Handles

LEMMA PhantomStep == ASSUME Inv, Inv', Rest, Handles, NoPhantomCopy, Next PROVE NoPhantomCopy'
<1>0. Announced \subseteq device \cup doubtful /\ doubtful \subseteq doubtful'
  BY DoubtfulGrows DEF NoPhantomCopy
<1> SUFFICES ASSUME NEW c \in Announced' PROVE c \in device' \cup doubtful'
  BY DEF NoPhantomCopy
<1>1. CASE UNCHANGED <<evs, index, dev>>
  <2>1. Announced' = Announced
    BY <1>1 DEF Announced
  <2> QED BY <1>0, <1>1, <2>1 DEF dev
<1>2. CASE PopsEvent
  BY <1>0, <1>2, PopAnnounced DEF PopsEvent, dev
<1>3. CASE SendsNotice
  <2>1. PICK es \in Seq(Event) : evs' = evs \o es /\ \A e \in Elems(es) : e.ev \notin {"added", "removed"}
    BY <1>3 DEF SendsNotice, Emit
  <2>2. c \in Announced
    BY <1>3, <2>1, SentAnnounced DEF SendsNotice
  <2> QED BY <1>0, <1>3, <2>2 DEF SendsNotice, dev
<1>4. CASE UploadOk /\ index' = index
  <2> DEFINE one == <<Added(Uploaded)>>
  <2>1. evs' = evs \o one /\ one \in Seq(Event) /\ device' = device \cup {Uploaded}
    BY <1>4, UploadIs
  <2>2. Elems(one) = {Added(Uploaded)} /\ Added(Uploaded).copy = Uploaded
    BY ElemsOne DEF Added
  <2> HIDE DEF one
  <2>3. c = Uploaded \/ c \in Announced
    BY <1>4, <2>1, <2>2, SentAnnounced
  <2> QED BY <1>0, <2>1, <2>3
<1>5. CASE RemoveCopy /\ index' = index
  <2>1. PICK d \in Item.targets :
              /\ device' = device \/ device' = {x \in device : x.oid # d.oid}
              /\ \/ evs' = evs /\ doubtful' = doubtful \cup {d}
                 \/ /\ evs' = evs \o <<Removed(<<d.track, d.path>>)>>
                    /\ <<Removed(<<d.track, d.path>>)>> \in Seq(Event)
    BY <1>5, RemoveIs
  <2>2. \A x \in device : x \in device' \/ x = d
    BY <1>5, <2>1, OthersStay DEF RemoveCopy
  <2>3. CASE evs' = evs /\ doubtful' = doubtful \cup {d}
    <3>1. Announced' = Announced
      BY <1>5, <2>3 DEF Announced
    <3> QED BY <1>0, <2>2, <2>3, <3>1
  <2>4. CASE ~(evs' = evs /\ doubtful' = doubtful \cup {d})
    <3> DEFINE one == <<Removed(<<d.track, d.path>>)>>
    <3>1. evs' = evs \o one /\ one \in Seq(Event)
      BY <2>1, <2>4
    <3>2. Elems(one) = {Removed(<<d.track, d.path>>)}
      BY ElemsOne
    <3>3. Removed(<<d.track, d.path>>).ev = "removed" /\ Removed(<<d.track, d.path>>).path = <<d.track, d.path>>
      BY DEF Removed
    <3> HIDE DEF one
    <3>4. c \in Announced /\ c # d
      BY <1>5, <3>1, <3>2, <3>3, SentAnnounced DEF Takes
    <3> QED BY <1>0, <2>2, <3>4
  <2> QED BY <2>3, <2>4
<1>6. CASE (UploadFailed \/ DeviceGone) /\ index' = index
  <2>1. c \in Announced
    BY <1>6, FailIs, SentAnnounced
  <2>2. CASE device \subseteq device'
    BY <1>0, <2>1, <2>2
  <2>3. CASE ~(device \subseteq device')
    <3>1. PICK d \in Item.targets : device' = {x \in device : x.oid # d.oid} /\ doubtful' = doubtful \cup {d}
      BY <1>6, <2>3, FailIs
    <3>2. \A x \in device : x \in device' \/ x = d
      BY <1>6, <3>1, FailIs, OthersStay
    <3> QED BY <1>0, <2>1, <3>1, <3>2
  <2> QED BY <2>2, <2>3
<1> QED BY <1>1, <1>2, <1>3, <1>4, <1>5, <1>6, EventsStep

-----------------------------------------------------------------------------
(* A reported success is on the device, or being overwritten. *)

LEMMA ReportedStep == ASSUME Inv, Inv', Rest, Handles, ReportedOnDevice, Next PROVE ReportedOnDevice'
<1>0. ReportedOnDevice <=> \A t \in Track : report[t] = "ok" =>
        (\E d \in device : d.track = t) \/ (\E it \in Elems(hand) : it.track = t)
  BY DEF ReportedOnDevice, Elems
<1>1. SUFFICES \A t \in Track : report'[t] = "ok" =>
        (\E d \in device' : d.track = t) \/ (\E it \in Elems(hand') : it.track = t)
  BY DEF ReportedOnDevice, Elems
<1>2. CASE UNCHANGED <<report, device, hand>>
  BY <1>0, <1>2
<1>3. CASE UINext
  BY <1>2, <1>3 DEF UINext, OnSyncProgress, OnDeviceTrackAdded, OnDeviceTrackRemoved, OnSyncComplete,
     OnSessionFailed, OnNotice, HandleEvent, FlushPending, NoKey, PressKey, AddToQueue, RemoveQueueItem,
     ClearQueue, ExecuteSync, PressCancel, run, dev, history
<1>4. CASE RefuseRun \/ IgnoreCancel \/ ImportPlaylist \/ DrainCommand \/ CancelRun \/ PrefetchTranscodes \/ ExhaustRun
           \/ FinishRun
  BY <1>2, <1>4 DEF RefuseRun, IgnoreCancel, ImportPlaylist, DrainCommand, CancelRun, PrefetchTranscodes,
     ExhaustRun, FinishRun, run, dev, history
<1>5. Elems(<<>>) = {} /\ report \in [Track -> {"none", "ok", "failed"}]
  BY DEF Elems, Inv, TypeOK
<1>6. CASE StartRun \/ PopItem \/ PopFailed
  <2>1. hand = <<>> /\ UNCHANGED device
    BY <1>6, HandIs DEF StartRun, PopItem, PopFailed, Drained, dev
  <2>2. report' = report \/ \E t \in Track : report' = [report EXCEPT ![t] = "failed"]
    <3>1. PopFailed => Head(runq) \in SyncItem
      BY SeqType DEF PopFailed, Inv, TypeOK
    <3> QED BY <1>6, <3>1 DEF StartRun, PopItem, PopFailed, SyncItem
  <2>3. \A t \in Track : report'[t] = "ok" => report[t] = "ok"
    BY <1>5, <2>2
  <2> QED BY <1>0, <1>5, <2>1, <2>3
<1>7. ASSUME pc = "overwrite" PROVE hand = <<Item>> /\ Item \in SyncItem /\ Item.track \in Track /\ Elems(hand) = {Item}
  BY <1>7, HandIs, ElemsOne DEF SyncItem
<1>8. CASE RemoveCopy
  <2>1. PICK c \in Item.targets :
           /\ hand' = <<[Item EXCEPT !.targets = Item.targets \ {c}]>>
           /\ device' = device \/ device' = {d \in device : d.oid # c.oid}
    BY <1>8 DEF RemoveCopy, FailToRemove, AllBut, SetTargets
  <2>2. pc = "overwrite" /\ report' = report
    BY <1>8 DEF RemoveCopy
  <2> DEFINE left == [Item EXCEPT !.targets = Item.targets \ {c}]
  <2>3. hand' = <<left>> /\ left.track = Item.track
    BY <1>7, <2>1, <2>2 DEF SyncItem
  <2> HIDE DEF left
  <2>4. Elems(hand') = {left}
    BY <2>3, ElemsOne
  <2>5. Item \in Goods /\ c \in Known /\ c.track = Item.track
    BY <1>7, <2>2 DEF Goods, Known, Handles
  <2>6. \A d \in device : d \in device' \/ d = c
    BY <2>1, <2>5 DEF Known, Handles
  <2> QED BY <1>0, <1>7, <2>2, <2>3, <2>4, <2>5, <2>6
<1>9. CASE UploadOk
  <2>1. device' = device \cup {Uploaded} /\ Uploaded.track = Item.track
    BY <1>9, UploadIs
  <2>2. pc = "overwrite" /\ report' = [report EXCEPT ![Item.track] = "ok"] /\ hand' = <<>>
    BY <1>9 DEF UploadOk
  <2>3. \A t \in Track : report'[t] = "ok" => report[t] = "ok" \/ t = Item.track
    BY <1>5, <1>7, <2>2
  <2> QED BY <1>0, <1>7, <2>1, <2>2, <2>3
<1>10. CASE UploadFailed \/ DeviceGone
  <2>1. pc = "overwrite" /\ report' = [report EXCEPT ![Item.track] = "failed"] /\ hand' = <<>>
    BY <1>10 DEF UploadFailed, DeviceGone, ReportFailure
  <2>2. \A t \in Track : report'[t] = "ok" => report[t] = "ok" /\ t # Item.track
    BY <1>5, <1>7, <2>1
  <2>3. \A d \in device : d \in device' \/ d.track = Item.track
    <3>1. CASE device \subseteq device'
      BY <3>1
    <3>2. CASE ~(device \subseteq device')
      <4>1. PICK c \in Item.targets : device' = {d \in device : d.oid # c.oid}
        BY <1>10, <3>2, FailIs
      <4>2. \A d \in device : d \in device' \/ d = c
        BY <2>1, <4>1, OthersStay
      <4>3. c.track = Item.track
        BY <1>7, <2>1 DEF Goods, Handles
      <4> QED BY <4>2, <4>3
    <3> QED BY <3>1, <3>2
  <2> QED BY <1>0, <1>7, <2>1, <2>2, <2>3
<1> QED BY <1>3, <1>4, <1>6, <1>8, <1>9, <1>10 DEF Next, WorkerNext

-----------------------------------------------------------------------------
(* The invariant of the sync. *)

LEMMA InitFull == Init => Full
<1> SUFFICES ASSUME Init PROVE Full
  OBVIOUS
<1>1. Inv
  BY InitInv
<1>2. Elems(<<>>) = {} /\ Len(<<>>) = 0 /\ DOMAIN <<>> = {}
  BY DEF Elems
<1>3. Goods = {} /\ News = {}
  BY <1>2 DEF Init, Goods, Sent, Items, News
<1>4. Known = InitialCopies
  BY <1>3 DEF Init, Known
<1>5. Cardinality(InitialCopies) \in Nat
  BY SyncAssumption, FS_CardinalityType
<1>6. Handles
  <2>1. \A c \in InitialCopies : c.oid < nextOid
    <3> TAKE c \in InitialCopies
    <3>1. c.oid \in 1..Cardinality(InitialCopies) /\ nextOid = 1 + Cardinality(InitialCopies)
      BY SyncAssumption DEF Init
    <3> QED BY <1>5, <3>1
  <2> QED BY <1>3, <1>4, <2>1, SyncAssumption DEF Handles
<1>7. Rest /\ Conserved
  BY DEF Init, Rest, Conserved
<1>8. NoPhantomCopy
  BY <1>2 DEF Init, NoPhantomCopy, Announced
<1>9. ReportedOnDevice
  BY DEF Init, ReportedOnDevice
<1> QED BY <1>1, <1>6, <1>7, <1>8, <1>9 DEF Full

LEMMA NextFull == Full /\ [Next]_vars => Full'
<1> SUFFICES ASSUME Full, [Next]_vars PROVE Full'
  OBVIOUS
<1>1. Inv'
  BY NextInv DEF Full
<1>2. CASE Next
  BY <1>1, <1>2, RestStep, ConservedStep, HandlesStep, PhantomStep, ReportedStep DEF Full
<1>3. CASE UNCHANGED vars
  <2>1. /\ Sent' = Sent /\ News' = News /\ Elems(runq)' = Elems(runq) /\ Elems(hand)' = Elems(hand)
        /\ UNCHANGED <<index, evs, dev, runq, hand, pc, history>>
    BY <1>3 DEF vars, ui, run, dev, history, Sent, News, Elems
  <2>2. Goods' = Goods /\ Appends' = Appends
    BY <2>1 DEF Goods, Appends, Items
  <2>3. Known' = Known
    BY <2>1, <2>2 DEF Known, dev
  <2>4. Announced' = Announced
    BY <2>1 DEF Announced
  <2>5. Rest' /\ Conserved' /\ ReportedOnDevice'
    BY <2>1, <2>2 DEF Full, Rest, Conserved, ReportedOnDevice, history, dev
  <2>6. Handles' /\ NoPhantomCopy'
    BY <2>1, <2>2, <2>3, <2>4 DEF Full, Handles, NoPhantomCopy, dev, history
  <2> QED BY <1>1, <2>5, <2>6 DEF Full
<1> QED BY <1>2, <1>3

\* A track forwarded to a running sync (AppendSyncQueue) is queued for the
\* worker, in the channel, in the run or in the worker's hands until it is
\* reported, whatever the user cancels and whenever the device is lost.
THEOREM ForwardedKept == Spec => []ForwardedConserved
<1>1. Full => ForwardedConserved
  <2> SUFFICES ASSUME Full PROVE forwarded \subseteq settled \cup InFlightIds
    BY DEF ForwardedConserved
  <2>1. Appends \subseteq InFlightIds
    BY DEF Appends, Sent, Elems, InFlightIds
  <2> QED BY <2>1 DEF Full, Conserved, InFlightIds
<1> QED BY <1>1, InitFull, NextFull, PTL DEF Spec

\* After the events under way the App's device index lists no copy that is not on
\* the device, however removals, uploads and lost sessions interleave, other than
\* one the user was told could not be removed.
THEOREM NoPhantom == Spec => []NoPhantomCopy
<1>1. Full => NoPhantomCopy
  BY DEF Full
<1> QED BY <1>1, InitFull, NextFull, PTL DEF Spec

\* A track last reported as synced has a copy on the device unless the worker is
\* overwriting it at this moment.
THEOREM SuccessIsOnDevice == Spec => []ReportedOnDevice
<1>1. Full => ReportedOnDevice
  BY DEF Full
<1> QED BY <1>1, InitFull, NextFull, PTL DEF Spec

-----------------------------------------------------------------------------
(* The Zune session: the rows of the lists. *)

\* No folder is taken for another, and every title is its song's own.
PlainNames == AlikeDir = {} /\ \A t \in Song : OwnName(t)

Quiet     == {"off", "idle", "collect", "load", "warm"}
Removing  == {"rows", "look", "unlink"}
Copying   == {"artist", "file artist", "album", "object", "file album", "upload"}
ZunePhase == Quiet \cup Removing \cup Copying \cup {"delete", "forget", "refresh", "next", "copies", "record", "wedged"}

Doing == [at : ZunePhase, todo : SUBSET Song, song : Song \cup {None}, rows : SUBSET Entry,
          row : Entry \cup {None}, back : {"idle", "warm", "rows", "copies"}, id : Nat,
          ok : BOOLEAN, free : Nat, look : SUBSET Nat, gone : Thing \cup {None}]

\* What the worker has in hand at each phase.
ZuneHand ==
    /\ op.at \in {"collect", "load"} => op.back \in {"idle", "warm"}
    /\ At("rows") => op.back = "rows"
    /\ op.at \in {"next", "copies", "record"} \cup Copying => op.back = "copies"
    /\ op.at \in {"delete", "forget"} => op.row \in Entry /\ op.back \in {"rows", "copies"}
    /\ op.at \in {"copies", "record"} \cup Copying => op.song \in Song /\ op.song \notin op.todo
    /\ op.at \in {"delete", "forget"} /\ op.back = "copies" => op.song \in Song /\ op.song \notin op.todo
    /\ op.at \in {"record"} \cup Copying => lib \in Folders
    /\ At("unlink") => op.gone \in Thing /\ op.gone.kind \in {"artist", "album"}
    /\ op.at \in {"look", "unlink"} => op.ok
    /\ op.at \in {"look", "unlink"} => \A h \in op.look : h \in DOMAIN objs /\ objs[h].kind \in {"artist", "album"}

ZuneTypeOK ==
    /\ made \in 0..MaxHandle /\ modern \in BOOLEAN
    /\ DOMAIN objs \subseteq 1..made /\ objs \in [DOMAIN objs -> Thing]
    /\ tc \in TrackList \cup {None} /\ lib \in Folders \cup {None} /\ libfile \in Folders \cup {None}
    /\ shown \in SUBSET Entry /\ op \in Doing
    /\ ops \in Nat /\ faults \in Nat /\ foreign \in Nat
    /\ twins \in SUBSET Song /\ cut \in SUBSET Song /\ marred \in SUBSET (Artist \cup Album \cup Song) /\ bare \in BOOLEAN
    /\ ZuneHand

\* A row's handle was given out and is, as long as it lives, that of the row's song.
Meets(r) == /\ r.id <= made /\ (IF r.id = 0 THEN r.form = ZmdbForm(r.song) ELSE r.form # "zmdb")
            /\ r.id \in DOMAIN objs => Is(r.id, "track", r.song)

RowsMeet ==
    /\ \A r \in Listed \cup shown \cup op.rows : Meets(r)
    /\ At("delete") => Meets(op.row)
    /\ At("forget") /\ op.row.id = 0 => op.row.form = ZmdbForm(op.row.song)
    /\ At("forget") => op.row.id \notin DOMAIN objs
    /\ At("record") => Is(op.id, "track", op.song)

\* At most one copy of each song, but for those that were sent twice.
Singles == \A t \in Song \ twins : \A g, h \in Copies(t) : g = h

-----------------------------------------------------------------------------
(* The lists and the device. *)

\* The rows of a list that name a song lead to it.
Found(R, t) == \A r \in R : r.song = t => t \in OnDevice /\ (r.id > 0 => r.id \in Copies(t))
Has(R, t)   == \E r \in R : r.song = t

\* A song has one row in each list, of one handle.
Paired(t) ==
    /\ \A r, q \in Listed : r.song = t /\ q.song = t => r = q
    /\ \A r, q \in shown : r.song = t /\ q.song = t => r = q
    /\ \A r \in Listed, q \in shown : r.song = t /\ q.song = t => r.id = q.id

\* A song is on the device and in the lists, or in neither, but for the one being
\* removed and the one being noted.
Settled(t) ==
    IF At("forget") /\ op.row.song = t THEN Copies(t) = {}
    ELSE IF At("record") /\ op.song = t THEN ~Has(Listed, t) /\ ~Has(shown, t)
    ELSE Found(Listed, t) /\ Found(shown, t) /\ (t \in OnDevice \ cut => Has(Listed, t))

Good == \A t \in Song \ (twins \cup marred) : Settled(t)

\* What is to be removed is what is shown.
InHand ==
    /\ op.at \in {"rows", "copies", "delete", "forget"} => \A r \in op.rows : r.song \notin twins \cup marred => r \in shown
    /\ op.at \in {"delete", "forget"} /\ op.row.song \notin twins \cup marred =>
         op.row \in shown /\ \A r \in op.rows : r.song # op.row.song

\* The device was not read yet.
Fresh == op.at \in {"off", "collect", "load"} /\ tc = None /\ shown = {}

\* The lists tell the truth, or it is known that they may not.
Aware == \/ Good \/ Fresh
         \/ Mishaps = 1 /\ At("load")
         \/ Mishaps = 1 /\ op.at \in {"off", "collect"} /\ ~Trusted(Free)

TruthOk  == (\A t \in Song \ (twins \cup marred) : Paired(t)) /\ InHand /\ Aware
TruthInv == Mishaps <= 1 => TruthOk

-----------------------------------------------------------------------------
(* The library. *)

\* All but what is about to be unlinked.
Spared(kind, x) == ~(At("unlink") /\ op.gone.kind = kind /\ op.gone.of = x)

\* Folders of a library exist and are what they are filed as; an album may be filed above.
Alive(l) ==
    /\ \A a \in Artist : Spared("artist", a) /\ l.artists[a] # Nowhere => Is(l.artists[a], "artist", a)
    /\ \A b \in Album : Spared("album", b) /\ Spared("artist", ArtistOf[b]) /\ l.albums[b] # Nowhere =>
         l.albums[b] = Root \/ Is(l.albums[b], "album", b) \/ Is(l.albums[b], "artist", ArtistOf[b])

\* The library that is loaded is the one on the disk, with the folders in hand.
LibShape ==
    /\ lib = None \/ lib = libfile
    /\ At("off") => lib = None
    /\ At("file artist") => Is(op.id, "artist", ArtistOf[AlbumOf[op.song]])
    /\ At("album") => lib.artists[ArtistOf[AlbumOf[op.song]]] # Nowhere
    /\ op.at \in {"object", "file album"} => Is(op.id, "album", AlbumOf[op.song])
    /\ op.at \in {"upload", "record"} => lib.albums[AlbumOf[op.song]] # Nowhere

\* The folders of the library are there, but for a session cut short.
LibFine == libfile = None \/ Alive(libfile) \/ (faults > 0 /\ bare)

\* Or the library will be dropped before it is used.
LibDoubt == Mishaps = 1 /\ op.at \in {"off", "collect"} /\ ~Trusted(Free) /\ (Loadable \/ faults > 0)

LibOk  == (op.at = "wedged" => faults > 0 /\ bare) /\ (LibFine \/ LibDoubt)
LibInv == Mishaps <= 1 => LibOk

-----------------------------------------------------------------------------
(* As long as nothing fails. *)

\* The copies of a song are in the folder where its path looks for them.
Placed(t) == AlbumDir(AlbumOf[t]) # Nowhere /\ \A h \in Copies(t) : objs[h].in = AlbumDir(AlbumOf[t])
AllPlaced == \A t \in OnDevice : Placed(t)

\* Another computer has changed the device and the lists are not read again yet.
Stale == foreign > 0 /\ (At("load") \/ (op.at \in {"off", "collect"} /\ ~Trusted(Free)))

\* How far the songs of which the free space is noted are those of the device.
Dated(S) ==
    /\ op.at \in Quiet /\ tc.rows # {} => S = OnDevice
    /\ op.at \in Removing \/ (op.at \in {"delete", "forget"} /\ op.back = "rows") =>
         OnDevice \subseteq S /\ (op.ok => S # OnDevice)
    /\ At("forget") => op.row.song \in S \ OnDevice
    /\ At("next") => op.todo \cap OnDevice \subseteq S /\ (tc.rows # {} /\ ~op.ok => S = OnDevice)
    /\ op.at \in {"copies"} \cup Copying \/ (op.at \in {"delete", "forget"} /\ op.back = "copies") =>
         (op.todo \cup {op.song}) \cap OnDevice \subseteq S
    /\ At("record") => op.todo \cap OnDevice \subseteq S

\* The free space in the cache is that of some songs of which it is known how they differ
\* from those of the device: it is believed again only if they do not.
Datable == tc # None /\ tc.header /\ \E S \in SUBSET Song : tc.free = Room[OneEach(S)] /\ Dated(S)

\* The App knows of every song on the device, so that a sync finds the copy to replace.
Sighted ==
    /\ op.at \notin {"off", "collect", "load"} => \A t \in OnDevice : (At("record") /\ op.song = t) \/ Has(shown, t)
    /\ At("copies") /\ op.song \in OnDevice => Has(op.rows, op.song)
    /\ At("copies") => \A r \in op.rows : r.song = op.song
    /\ op.at \in {"delete", "forget"} /\ op.back = "copies" => op.row.song = op.song /\ op.rows = {}
    /\ op.at \in Copying => op.song \notin OnDevice

RowsPlaced == \A r \in Listed \cup shown : r.id = 0 => Placed(r.song)
UpToDate   == Sighted /\ (tc # None => Datable) /\ RowsPlaced
Early      == {"off", "collect", "load"}

CalmOk ==
    /\ twins = {} /\ cut = {} /\ marred = {}
    /\ tc # None \/ op.at \in Early
    /\ ~Stale => UpToDate
    /\ op.at = "load" /\ tc # None => tc.rows = {}
    /\ foreign > 0 /\ op.at = "load" => AllPlaced
    /\ op.at = "load" => op.free = Free
    /\ foreign > 0 /\ op.at \in {"off", "collect"} => AllPlaced \/ Trusted(Free)
CalmInv == faults = 0 /\ foreign <= 1 => CalmOk

\* ... and as long as no other computer has been at it.
Exact(l) ==
    /\ \A a \in Artist : Spared("artist", a) /\ l.artists[a] # Nowhere => l.artists[a] = Find(Root, "artist", a)
    /\ \A b \in Album : Spared("album", b) /\ Spared("artist", ArtistOf[b]) /\ l.albums[b] # Nowhere =>
         l.albums[b] = AlbumDir(b)

\* No session has scanned the folders.
Blank   == Exact(Scanned) /\ (op.at \in {"off", "warm"} \/ (op.at \in {"collect", "load"} /\ op.back = "warm"))
\* The folder in hand is the one a path leads to.
InPlace ==
    /\ op.at = "file artist" => op.id = Find(Root, "artist", ArtistOf[AlbumOf[op.song]])
    /\ op.at \in {"object", "file album"} => op.id = AlbumDir(AlbumOf[op.song])

FirstOk ==
    /\ AllPlaced /\ InPlace
    /\ libfile = None => Blank
    /\ libfile # None => Exact(libfile) /\ tc # None
FirstInv == faults = 0 /\ foreign = 0 => FirstOk

LEMMA ZuneLeast ==
    ASSUME NEW S \in SUBSET Nat, S # {}
    PROVE  Min(S) \in S /\ \A n \in S : Min(S) <= n
<1>1. \E m \in S : \A n \in S : m <= n
  <2>1. PICK m \in S : \A n \in S : ~ (<<n, m>> \in OpToRel(<, Nat))
    BY NatLessThanWellFounded, WFMin, Zenon
  <2>2. ASSUME NEW n \in S PROVE m <= n
    <3>1. <<n, m>> \in Nat \X Nat
      OBVIOUS
    <3>2. ~(n < m)
      BY <2>1, <3>1 DEF OpToRel
    <3> QED BY <3>2
  <2> QED BY <2>2
<1> QED BY <1>1 DEF Min

\* A look-up finds the first of what is there, or nothing.
LEMMA FirstOf ==
    ASSUME NEW H \in SUBSET Nat
    PROVE  /\ H = {} => First(H) = Nowhere
           /\ H # {} => First(H) \in H /\ First(H) # Nowhere /\ \A n \in H : First(H) <= n
<1>1. CASE H = {}
  BY <1>1 DEF First
<1>2. CASE H # {}
  <2>1. First(H) = Min(H) /\ Min(H) \in H /\ \A n \in H : Min(H) <= n
    BY <1>2, ZuneLeast DEF First
  <2>2. Min(H) \in Nat
    BY <2>1
  <2> QED BY <1>2, <2>1, <2>2 DEF Nowhere
<1> QED BY <1>1, <1>2

LEMMA NamedIs ==
    ASSUME ZuneTypeOK, NEW d, NEW kind, NEW x
    PROVE  /\ Named(d, kind, x) # Nowhere =>
                 Is(Named(d, kind, x), kind, x) /\ objs[Named(d, kind, x)].in = d
                 /\ Named(d, kind, x) \in 1..made
           /\ Named(d, kind, x) = Nowhere => \A h \in DOMAIN objs : Is(h, kind, x) => objs[h].in # d
           /\ \A h \in DOMAIN objs : Is(h, kind, x) /\ objs[h].in = d => Named(d, kind, x) <= h
           /\ Named(d, kind, x) \in Int
<1> DEFINE H == {h \in Children(d) : Is(h, kind, x)}
<1>1. H \in SUBSET (1..made) /\ made \in Nat
  BY DEF ZuneTypeOK, Children
<1>2. H \in SUBSET Nat
  BY <1>1
<1>3. /\ H = {} => First(H) = Nowhere
      /\ H # {} => First(H) \in H /\ First(H) # Nowhere /\ \A n \in H : First(H) <= n
  <2> HIDE DEF H
  <2> QED BY <1>2, FirstOf
<1>4. Named(d, kind, x) = First(H)
  BY DEF Named
<1> QED BY <1>1, <1>3, <1>4 DEF Children, Is, Nowhere

\* Of the folders that are taken for the one that is looked for.
LEMMA CandidateIs ==
    ASSUME ZuneTypeOK, NEW d, NEW kind, NEW x
    PROVE  /\ Candidates(d, kind, x) \subseteq 1..made
           /\ \A h \in Candidates(d, kind, x) : h \in DOMAIN objs /\ objs[h].kind = kind /\ objs[h].in = d
           /\ Find(d, kind, x) # Nowhere => Find(d, kind, x) \in Candidates(d, kind, x)
           /\ Find(d, kind, x) \in Int
<1> DEFINE H == Candidates(d, kind, x)
<1>1. H \in SUBSET (1..made) /\ made \in Nat
  BY DEF ZuneTypeOK, Children, Candidates
<1>2. /\ H = {} => First(H) = Nowhere
      /\ H # {} => First(H) \in H /\ First(H) # Nowhere /\ \A n \in H : First(H) <= n
  <2>1. H \in SUBSET Nat
    BY <1>1
  <2> HIDE DEF H
  <2> QED BY <2>1, FirstOf
<1>3. Named(d, kind, x) # Nowhere => Named(d, kind, x) \in H
  BY NamedIs DEF Candidates, Children, Is
<1>4. \A h \in H : h \in DOMAIN objs /\ objs[h].kind = kind /\ objs[h].in = d
  BY DEF Candidates, Children
<1>5. Find(d, kind, x) # Nowhere => Find(d, kind, x) \in H
  BY <1>2, <1>3 DEF Find
<1> QED BY <1>1, <1>4, <1>5 DEF Nowhere

LEMMA PlainCandidates ==
    ASSUME PlainNames, NEW d, NEW kind, NEW x
    PROVE  /\ Candidates(d, kind, x) = {h \in Children(d) : Is(h, kind, x)}
           /\ Find(d, kind, x) = Named(d, kind, x)
<1>1. Candidates(d, kind, x) = {h \in Children(d) : Is(h, kind, x)}
  BY DEF PlainNames, Candidates, Is, Children
<1> QED BY <1>1 DEF Find, Named

LEMMA FindIs ==
    ASSUME ZuneTypeOK, PlainNames, NEW d, NEW kind, NEW x
    PROVE  /\ Find(d, kind, x) # Nowhere =>
                 Is(Find(d, kind, x), kind, x) /\ objs[Find(d, kind, x)].in = d
                 /\ Find(d, kind, x) \in 1..made
           /\ Find(d, kind, x) = Nowhere => \A h \in DOMAIN objs : Is(h, kind, x) => objs[h].in # d
           /\ \A h \in DOMAIN objs : Is(h, kind, x) /\ objs[h].in = d => Find(d, kind, x) <= h
           /\ Find(d, kind, x) \in Int
BY PlainCandidates, NamedIs

\* There are no more copies than handles.
LEMMA CopyCount ==
    ASSUME ZuneTypeOK, NEW t
    PROVE  Copies(t) \subseteq 1..made /\ IsFiniteSet(Copies(t)) /\ Cardinality(Copies(t)) \in 0..MaxHandle
<1>1. Copies(t) \subseteq 1..made /\ made \in Nat /\ MaxHandle \in Nat /\ made <= MaxHandle
  BY ZuneAssumption DEF ZuneTypeOK, Copies
<1>2. IsFiniteSet(1..made) /\ Cardinality(1..made) = made
  BY <1>1, FS_Interval
<1>3. IsFiniteSet(Copies(t)) /\ Cardinality(Copies(t)) <= made /\ Cardinality(Copies(t)) \in Nat
  BY <1>1, <1>2, FS_Subset, FS_CardinalityType
<1> QED BY <1>1, <1>3

LEMMA FreeType ==
    ASSUME ZuneTypeOK PROVE Free \in Nat
<1>1. [t \in Song |-> Cardinality(Copies(t))] \in [Song -> 0..MaxHandle]
  BY CopyCount
<1> QED BY <1>1, ZuneAssumption DEF Free

LEMMA RoomIs ==
    ASSUME NEW S \in SUBSET Song PROVE Room[OneEach(S)] \in Nat
<1>1. OneEach(S) \in [Song -> 0..MaxHandle]
  BY ZuneAssumption DEF OneEach
<1> QED BY <1>1, ZuneAssumption

-----------------------------------------------------------------------------
(* Types. *)

LEMMA NoOpType == NoOp \in Doing /\ Off \in Doing
BY DEF NoOp, Off, Doing, ZunePhase, Quiet, Removing, Copying

\* What a step of the worker does to its record.
LEMMA GoType ==
    ASSUME op \in Doing, NEW l \in ZunePhase
    PROVE  /\ [op EXCEPT !.at = l] \in Doing
           /\ [op EXCEPT !.at = l].at = l
BY DEF Doing

LEMMA ScannedType ==
    ASSUME ZuneTypeOK PROVE Scanned \in Folders
<1>1. \A a \in Artist : ScannedArtist(a) \in Int
  BY NamedIs DEF ScannedArtist
<1>2. \A b \in Album : HomeOf(b) \in Int
  BY <1>1, ZuneAssumption DEF HomeOf, Root
<1>3. \A b \in Album : DirOf(b) \in Int
  BY <1>2, CandidateIs DEF DirOf
<1> QED BY <1>1, <1>3 DEF Scanned, Folders, Nowhere

LEMMA PartlyScannedType ==
    ASSUME ZuneTypeOK, NEW A, NEW B, NEW D PROVE PartlyScanned(A, B, D) \in Folders
<1>1. \A a \in Artist : ScannedArtist(a) \in Int
  BY NamedIs DEF ScannedArtist
<1>2. \A b \in Album : HomeOf(b) \in Int
  BY <1>1, ZuneAssumption DEF HomeOf, Root
<1>3. \A b \in Album : DirOf(b) \in Int
  BY <1>2, CandidateIs DEF DirOf
<1> QED BY <1>1, <1>2, <1>3 DEF PartlyScanned, Folders, Nowhere, Root

LEMMA WithoutType ==
    ASSUME NEW l \in Folders, NEW kind, NEW x PROVE WithoutDir(l, kind, x) \in Folders
<1>0. Nowhere \in Int
  BY DEF Nowhere
<1>1. l.artists \in [Artist -> Int] /\ l.albums \in [Album -> Int]
  BY DEF Folders
<1>2. WithoutAlbum(l, x) \in Folders
  <2>1. [l.albums EXCEPT ![x] = Nowhere] \in [Album -> Int]
    BY <1>0, <1>1
  <2> QED BY <1>1, <2>1 DEF WithoutAlbum, Folders
<1>3. WithoutArtist(l, x) \in Folders
  <2>1. [l.artists EXCEPT ![x] = Nowhere] \in [Artist -> Int]
    BY <1>0, <1>1
  <2>2. [b \in Album |-> IF ArtistOf[b] = x THEN Nowhere ELSE l.albums[b]] \in [Album -> Int]
    BY <1>0, <1>1
  <2> QED BY <2>1, <2>2 DEF WithoutArtist, Folders
<1> QED BY <1>2, <1>3 DEF WithoutDir

LEMMA InvalidateType ==
    ASSUME ZuneTypeOK, NEW kind, NEW x, Invalidate(kind, x)
    PROVE  /\ lib' \in Folders \cup {None} /\ libfile' \in Folders \cup {None}
           /\ lib \in Folders => lib' \in Folders
BY WithoutType, ZuneAssumption DEF Invalidate, ZuneTypeOK

LEMMA EnsureType ==
    ASSUME ZuneTypeOK, EnsureLibrary
    PROVE  lib' \in Folders /\ libfile' \in Folders \cup {None}
BY ScannedType, PartlyScannedType DEF EnsureLibrary, Library, ZuneTypeOK

\* The device with one object more, or some less.
LEMMA WithType ==
    ASSUME ZuneTypeOK, made < MaxHandle, made' = made + 1,
           NEW o \in Thing, objs' = With(o)
    PROVE  /\ made' \in 0..MaxHandle /\ DOMAIN objs' = DOMAIN objs \cup {made + 1}
           /\ made + 1 \notin DOMAIN objs /\ made + 1 > 0
           /\ DOMAIN objs' \subseteq 1..made' /\ objs' \in [DOMAIN objs' -> Thing]
           /\ objs'[made + 1] = o /\ \A h \in DOMAIN objs : objs'[h] = objs[h]
BY ZuneAssumption DEF ZuneTypeOK, With

LEMMA DeletedType ==
    ASSUME ZuneTypeOK, NEW H, objs' = Deleted(H), UNCHANGED made
    PROVE  /\ DOMAIN objs' = DOMAIN objs \ H
           /\ DOMAIN objs' \subseteq 1..made' /\ objs' \in [DOMAIN objs' -> Thing]
           /\ \A h \in DOMAIN objs' : objs'[h] = objs[h]
BY DEF ZuneTypeOK, Deleted

LEMMA ZuneInitType == ZuneInit => ZuneTypeOK
<1> SUFFICES ASSUME ZuneInit PROVE ZuneTypeOK
  OBVIOUS
<1>1. Off.at = "off"
  BY DEF Off, NoOp
<1>2. PICK n \in 0..MaxHandle : objs \in [1..n -> Thing] /\ made = n
  <2>1. PICK n \in 0..MaxHandle : objs \in [1..n -> Thing]
    BY ZuneAssumption DEF ZuneInit
  <2>2. n \in Nat /\ DOMAIN objs = 1..n
    BY <2>1, ZuneAssumption
  <2>3. Cardinality(1..n) = n
    BY <2>2, FS_Interval
  <2> QED BY <2>1, <2>2, <2>3 DEF ZuneInit
<1>3. ZuneHand
  BY <1>1 DEF ZuneInit, ZuneHand, At, Copying
<1>4. made \in 0..MaxHandle /\ DOMAIN objs \subseteq 1..made
  BY <1>2, ZuneAssumption DEF ZuneInit
<1>5. objs \in [DOMAIN objs -> Thing]
  BY <1>2
<1> QED BY <1>3, <1>4, <1>5, NoOpType DEF ZuneInit, ZuneTypeOK

\* Steps of a worker that touch no object.
LEMMA ListingType ==
    ASSUME ZuneTypeOK, Open \/ Reload \/ Collect \/ Load \/ Warm \/ Close
    PROVE  ZuneTypeOK'
<1> USE DEF zune, caches, limits, annals
<1>0. Off.at = "off" /\ NoOp.at = "idle" /\ Off \in Doing /\ NoOp \in Doing
  BY NoOpType DEF Off, NoOp
<1>1. CASE Open
  <2>1. /\ op' = [NoOp EXCEPT !.at = "collect", !.back = "warm"]
        /\ UNCHANGED <<objs, made, modern, tc, libfile, faults, foreign, twins, cut, marred, bare>>
        /\ ops' = ops + 1 /\ lib' = None /\ shown' = {}
    BY <1>1 DEF Open
  <2>2. op' \in Doing /\ op'.at = "collect" /\ op'.back = "warm"
    BY <2>1 DEF NoOp, Doing, ZunePhase, Quiet
  <2>3. ZuneHand'
    BY <2>2 DEF ZuneHand, At, Copying
  <2> QED BY <2>1, <2>2, <2>3 DEF ZuneTypeOK
<1>2. CASE Reload
  <2>1. /\ op' = [NoOp EXCEPT !.at = "collect"]
        /\ UNCHANGED <<objs, made, modern, tc, lib, shown, libfile, faults, foreign, twins, cut, marred, bare>>
        /\ ops' = ops + 1
    BY <1>2 DEF Reload
  <2>2. op' \in Doing /\ op'.at = "collect" /\ op'.back = "idle"
    BY <2>1 DEF NoOp, Doing, ZunePhase, Quiet
  <2>3. ZuneHand'
    BY <2>2 DEF ZuneHand, At, Copying
  <2> QED BY <2>1, <2>2, <2>3 DEF ZuneTypeOK
<1>3. CASE Collect
  <2>1. PICK free \in {Free, 0} :
         /\ Asked(free)
         /\ \/ /\ Trusted(free)
               /\ tc' = [tc EXCEPT !.header = TRUE, !.free = free]
               /\ shown' = tc.rows /\ Go(op.back)
               /\ UNCHANGED <<libfile, lib>>
            \/ /\ ~Trusted(free)
               /\ IF Loadable THEN tc' = None /\ libfile' = None /\ lib' = None
                              ELSE UNCHANGED <<tc, libfile, lib>>
               /\ op' = [op EXCEPT !.at = "load", !.free = free]
               /\ UNCHANGED shown
    BY <1>3 DEF Collect
  <2>2. /\ At("collect") /\ bare' \in BOOLEAN
        /\ UNCHANGED <<objs, made, modern, ops, foreign, twins, cut, marred>>
        /\ faults' \in Nat /\ free \in Nat /\ op.back \in {"idle", "warm"}
    <3>1. free \in Nat
      BY FreeType
    <3>2. faults' \in Nat
      BY <2>1 DEF Asked, Fails, ZuneTypeOK
    <3> QED BY <1>3, <3>1, <3>2 DEF Collect, ZuneTypeOK, ZuneHand, At
  <2>3. CASE /\ Trusted(free)
             /\ tc' = [tc EXCEPT !.header = TRUE, !.free = free]
             /\ shown' = tc.rows /\ Go(op.back)
             /\ UNCHANGED <<libfile, lib>>
    <3>1. tc \in TrackList /\ tc' \in TrackList /\ shown' \in SUBSET Entry
      <4>1. tc \in TrackList
        BY <2>3 DEF ZuneTypeOK, Trusted, Loadable
      <4> QED BY <2>2, <2>3, <4>1 DEF TrackList
    <3>2. op' \in Doing /\ op'.at \in {"idle", "warm"}
      BY <2>2, <2>3, GoType DEF Go, ZuneTypeOK, ZunePhase, Quiet
    <3>3. ZuneHand'
      BY <3>2 DEF ZuneHand, At, Copying
    <3> QED BY <2>2, <2>3, <3>1, <3>2, <3>3 DEF ZuneTypeOK
  <2>4. CASE /\ ~Trusted(free)
             /\ IF Loadable THEN tc' = None /\ libfile' = None /\ lib' = None
                            ELSE UNCHANGED <<tc, libfile, lib>>
             /\ op' = [op EXCEPT !.at = "load", !.free = free]
             /\ UNCHANGED shown
    <3>1. op' \in Doing /\ op'.at = "load" /\ op'.back = op.back
      BY <2>2, <2>4 DEF Doing, ZuneTypeOK, ZunePhase, Quiet
    <3>2. ZuneHand'
      BY <2>2, <3>1 DEF ZuneHand, At, Copying
    <3> QED BY <2>2, <2>4, <3>1, <3>2 DEF ZuneTypeOK
  <2> QED BY <2>1, <2>3, <2>4
<1>4. CASE Load
  <2>1. /\ At("load") /\ op' = [op EXCEPT !.at = op.back] /\ op.back \in {"idle", "warm"}
        /\ UNCHANGED <<objs, made, modern, libfile, lib, ops, foreign, twins, cut, bare>>
        /\ faults' \in Nat
    BY <1>4 DEF Load, Go, Fails, ZuneTypeOK, ZuneHand, At
  <2>2. op' \in Doing /\ op'.at \in {"idle", "warm"}
    BY <2>1, GoType DEF ZuneTypeOK, ZunePhase, Quiet
  <2>3. ZuneHand'
    BY <2>2 DEF ZuneHand, At, Copying
  <2>4. /\ \A S \in SUBSET OnDevice : ByTitle(S) \in SUBSET Entry
        /\ \A H \in SUBSET Walked : ByFile(H) \in SUBSET Entry
    <3>1. \A t \in Song : Row(0, t, ZmdbForm(t)) \in Entry
      BY DEF Row, Entry, Form, ZmdbForm
    <3>2. \A t \in Song : \A h \in Copies(t) : Row(h, objs[h].of, "file") \in Entry
      BY DEF Copies, Is, Row, Entry, Form, ZuneTypeOK
    <3>3. \A h \in Walked : Row(h, objs[h].of, "file") \in Entry
      BY <3>2 DEF Walked
    <3> QED BY <3>1, <3>3 DEF ByTitle, ByFile, OnDevice
  <2>5. op.free \in Nat
    BY DEF ZuneTypeOK, Doing
  <2>6. tc' \in TrackList \cup {None} /\ shown' \in SUBSET Entry /\ marred' \in SUBSET (Artist \cup Album \cup Song)
    <3>0. \A rows : Missing(rows) \subseteq Song
      BY DEF Missing, OnDevice
    <3>1. CASE shown' \in {shown, {}} /\ UNCHANGED tc /\ marred' = marred \cup Missing(Listed)
      BY <3>0, <3>1 DEF ZuneTypeOK
    <3>2. ASSUME NEW rows \in SUBSET Entry, tc' = [header |-> TRUE, free |-> op.free, rows |-> rows], shown' = rows,
                 marred' = Missing(rows)
          PROVE  /\ tc' \in TrackList \cup {None} /\ shown' \in SUBSET Entry
                 /\ marred' \in SUBSET (Artist \cup Album \cup Song)
      BY <2>5, <3>0, <3>2 DEF TrackList
    <3>3. \/ shown' \in {shown, {}} /\ UNCHANGED tc /\ marred' = marred \cup Missing(Listed)
          \/ \E rows \in SUBSET Entry : /\ tc' = [header |-> TRUE, free |-> op.free, rows |-> rows]
                                        /\ shown' = rows /\ marred' = Missing(rows)
      BY <1>4, <2>4 DEF Load
    <3> QED BY <3>1, <3>2, <3>3
  <2> QED BY <2>1, <2>2, <2>3, <2>6 DEF ZuneTypeOK
<1>5. CASE Warm
  <2>1. /\ op' = NoOp /\ (EnsureLibrary \/ UNCHANGED <<lib, libfile>>) /\ faults' \in Nat
        /\ UNCHANGED <<objs, made, modern, tc, shown, ops, foreign, twins, cut, marred, bare>>
    BY <1>5 DEF Warm, EnsureLibrary, NoLibrary, Fails, ZuneTypeOK
  <2>2. ZuneHand'
    BY <1>0, <2>1 DEF ZuneHand, At, Copying
  <2> QED BY <1>0, <2>1, <2>2, EnsureType DEF ZuneTypeOK
<1>6. CASE Close
  <2>1. /\ op' = Off /\ lib' = None /\ shown' = {} /\ faults' \in Nat
        /\ UNCHANGED <<objs, made, modern, tc, libfile, ops, foreign, twins, marred, bare>>
    BY <1>6 DEF Close, Fails, ZuneTypeOK
  <2>2. cut' \in SUBSET Song
    <3>1. At("record") => op.song \in Song
      BY DEF ZuneTypeOK, ZuneHand, At, Copying
    <3> QED BY <1>6, <3>1 DEF Close, ZuneTypeOK
  <2>3. ZuneHand'
    BY <1>0, <2>1 DEF ZuneHand, At, Copying
  <2> QED BY <1>0, <2>1, <2>2, <2>3 DEF ZuneTypeOK
<1> QED BY <1>1, <1>2, <1>3, <1>4, <1>5, <1>6

LEMMA RemovalType ==
    ASSUME ZuneTypeOK, Removal
    PROVE  ZuneTypeOK'
<1> USE DEF zune, caches, limits, annals
<1>0. NoOp.at = "idle" /\ NoOp \in Doing
  BY NoOpType DEF NoOp
<1>f. ASSUME UNCHANGED faults \/ Fails PROVE faults' \in Nat
  BY <1>f DEF Fails, ZuneTypeOK
<1>1. CASE StartRemoval
  <2>1. PICK R \in SUBSET shown : op' = [NoOp EXCEPT !.at = "rows", !.rows = R, !.back = "rows"]
    BY <1>1 DEF StartRemoval
  <2>2. /\ UNCHANGED <<objs, made, modern, tc, libfile, lib, shown, faults, foreign, twins, cut, marred, bare>>
        /\ ops' = ops + 1
    BY <1>1 DEF StartRemoval
  <2>3. op' \in Doing /\ op'.at = "rows" /\ op'.back = "rows"
    BY <2>1 DEF NoOp, Doing, ZunePhase, Removing, ZuneTypeOK
  <2>4. ZuneHand'
    BY <2>3 DEF ZuneHand, At, Copying
  <2> QED BY <2>2, <2>3, <2>4 DEF ZuneTypeOK
<1>2. ASSUME NEW l \in {"rows", "copies"}, NextRow(l) PROVE ZuneTypeOK'
  <2>1. PICK r \in op.rows : op' = [op EXCEPT !.at = "delete", !.row = r, !.rows = @ \ {r}]
    BY <1>2 DEF NextRow
  <2>2. UNCHANGED <<objs, made, modern, tc, libfile, lib, shown, ops, faults, foreign, twins, cut, marred, bare>> /\ At(l)
    BY <1>2 DEF NextRow
  <2>3. /\ op' \in Doing /\ op'.at = "delete" /\ op'.back = op.back /\ op'.row \in Entry
        /\ op'.song = op.song /\ op'.todo = op.todo
    BY <2>1 DEF Doing, ZunePhase, ZuneTypeOK
  <2>4. ZuneHand'
    BY <2>2, <2>3 DEF ZuneTypeOK, ZuneHand, At, Copying
  <2> QED BY <2>2, <2>3, <2>4 DEF ZuneTypeOK
<1>3. CASE Delete
  <2>1. /\ objs' = objs \/ \E h : objs' = Deleted({h})
        /\ op' = [op EXCEPT !.at = "forget"] \/ op' = [op EXCEPT !.at = op.back]
        /\ UNCHANGED <<made, modern, tc, libfile, lib, shown, ops, foreign, twins, cut, bare>> /\ At("delete")
    BY <1>3 DEF Delete, Go
  <2>7. faults' \in Nat
    BY <1>3, <1>f DEF Delete
  <2>6. marred' \in SUBSET (Artist \cup Album \cup Song)
    <3>1. \A h \in DOMAIN objs : objs[h].of \in Artist \cup Album \cup Song
      BY DEF ZuneTypeOK, Thing
    <3>2. marred' = marred \/ \E h \in DOMAIN objs : marred' = marred \cup {objs[h].of}
      BY <1>3 DEF Delete, Targets
    <3> QED BY <3>1, <3>2 DEF ZuneTypeOK
  <2>2. op.row \in Entry /\ op.back \in {"rows", "copies"}
    BY <2>1 DEF ZuneTypeOK, ZuneHand, At
  <2>3. /\ op' \in Doing /\ op'.at \in {"forget", op.back} /\ op'.back = op.back /\ op'.row = op.row
        /\ op'.song = op.song /\ op'.todo = op.todo
    BY <2>1, <2>2 DEF Doing, ZunePhase, Removing, ZuneTypeOK
  <2>4. ZuneHand'
    BY <2>1, <2>2, <2>3 DEF ZuneTypeOK, ZuneHand, At, Copying
  <2>5. DOMAIN objs' \subseteq 1..made' /\ objs' \in [DOMAIN objs' -> Thing]
    BY <2>1, DeletedType DEF ZuneTypeOK
  <2> QED BY <2>1, <2>3, <2>4, <2>5, <2>6, <2>7 DEF ZuneTypeOK
<1>4. CASE Forget
  <2>1. /\ op' = [op EXCEPT !.at = op.back, !.ok = (op.ok \/ op.back = "rows")]
        /\ UNCHANGED <<objs, made, modern, ops, faults, foreign, twins, cut, marred, bare>> /\ At("forget")
    BY <1>4 DEF Forget
  <2>2. op.row \in Entry /\ op.back \in {"rows", "copies"}
    BY <2>1 DEF ZuneTypeOK, ZuneHand, At
  <2>3. /\ op' \in Doing /\ op'.at = op.back /\ op'.back = op.back
        /\ op'.song = op.song /\ op'.todo = op.todo
    BY <2>1, <2>2 DEF Doing, ZunePhase, Removing, ZuneTypeOK
  <2>4. ZuneHand'
    BY <2>1, <2>2, <2>3 DEF ZuneTypeOK, ZuneHand, At, Copying
  <2>5. tc' \in TrackList \cup {None}
    <3>1. tc # None => [tc EXCEPT !.rows = {r \in tc.rows : ~Gone(r, op.row)}] \in TrackList
      BY DEF ZuneTypeOK, TrackList
    <3> QED BY <1>4, <3>1 DEF Forget, Kept
  <2>6. lib' \in Folders \cup {None} /\ libfile' \in Folders \cup {None}
    BY <1>4, InvalidateType DEF Forget, ZuneTypeOK
  <2>7. shown' \in SUBSET Entry
    BY <1>4 DEF Forget, ZuneTypeOK
  <2> QED BY <2>1, <2>3, <2>4, <2>5, <2>6, <2>7 DEF ZuneTypeOK
<1>5. CASE RowsDone
  <2> DEFINE L == {h \in DOMAIN objs : objs[h].kind \in {"artist", "album"} /\ Reached(h)}
  <2>1. /\ op' = [op EXCEPT !.at = IF op.ok THEN "look" ELSE "refresh", !.rows = {}, !.look = L]
        /\ UNCHANGED <<objs, made, modern, tc, libfile, lib, shown, ops, faults, foreign, twins, cut, marred, bare>>
    BY <1>5 DEF RowsDone
  <2>2. L \in SUBSET Nat
    BY DEF ZuneTypeOK
  <2> HIDE DEF L
  <2>3. /\ op' \in Doing /\ op'.at = (IF op.ok THEN "look" ELSE "refresh") /\ op'.look = L /\ op'.ok = op.ok
    BY <2>1, <2>2, ZenonT(40) DEF Doing, ZunePhase, Removing, ZuneTypeOK
  <2>4. ZuneHand'
    <3>1. \A h \in L : h \in DOMAIN objs' /\ objs'[h].kind \in {"artist", "album"}
      BY <2>1 DEF L
    <3>2. CASE op.ok
      BY <2>3, <3>1, <3>2 DEF ZuneHand, At, Copying
    <3>3. CASE ~op.ok
      BY <2>3, <3>3 DEF ZuneHand, At, Copying
    <3> QED BY <3>2, <3>3
  <2> QED BY <2>1, <2>3, <2>4 DEF ZuneTypeOK
<1>6. ASSUME NEW h \in op.look, LookAt(h) PROVE ZuneTypeOK'
  <2>1. /\ UNCHANGED <<made, modern, tc, libfile, lib, shown, ops, foreign, twins, cut, marred>> /\ At("look")
        /\ \/ objs' = Deleted({h}) /\ op' = [op EXCEPT !.at = "unlink", !.look = op.look \ {h}, !.gone = objs[h]]
           \/ (objs' = objs \/ objs' = Deleted({h})) /\ op' = [op EXCEPT !.look = op.look \ {h}]
    BY <1>6 DEF LookAt
  <2>6. faults' \in Nat /\ bare' \in BOOLEAN
    BY <1>6, <1>f DEF LookAt, ZuneTypeOK
  <2>2. op.ok /\ h \in DOMAIN objs /\ objs[h] \in Thing /\ objs[h].kind \in {"artist", "album"}
    BY <2>1, <1>6 DEF ZuneTypeOK, ZuneHand, At
  <2>3. /\ op' \in Doing /\ op'.at \in {"look", "unlink"} /\ op'.look = op.look \ {h} /\ op'.ok = op.ok
        /\ op'.at = "unlink" => op'.gone = objs[h]
    <3>1. CASE op' = [op EXCEPT !.at = "unlink", !.look = op.look \ {h}, !.gone = objs[h]]
      BY <2>2, <3>1 DEF Doing, ZunePhase, Removing, ZuneTypeOK
    <3>2. CASE op' = [op EXCEPT !.look = op.look \ {h}]
      BY <2>1, <3>2 DEF Doing, ZuneTypeOK, At
    <3> QED BY <2>1, <3>1, <3>2
  <2>4. /\ DOMAIN objs' \subseteq 1..made' /\ objs' \in [DOMAIN objs' -> Thing]
        /\ \A g \in DOMAIN objs \ {h} : g \in DOMAIN objs' /\ objs'[g] = objs[g]
    BY <2>1, DeletedType DEF ZuneTypeOK
  <2>5. ZuneHand'
    BY <2>1, <2>2, <2>3, <2>4 DEF ZuneTypeOK, ZuneHand, At, Copying
  <2> QED BY <2>1, <2>3, <2>4, <2>5, <2>6 DEF ZuneTypeOK
<1>7. CASE Unlink
  <2>1. /\ UNCHANGED <<objs, made, modern, tc, shown, ops, faults, foreign, twins, cut, marred, bare>> /\ At("unlink")
        /\ op' = [op EXCEPT !.at = "look"] /\ Invalidate(op.gone.kind, op.gone.of)
    BY <1>7 DEF Unlink, Go
  <2>2. op' \in Doing /\ op'.at = "look" /\ op'.look = op.look /\ op'.ok = op.ok
    BY <2>1 DEF Doing, ZunePhase, Removing, ZuneTypeOK
  <2>3. ZuneHand'
    BY <2>1, <2>2 DEF ZuneTypeOK, ZuneHand, At, Copying
  <2> QED BY <2>1, <2>2, <2>3, InvalidateType DEF ZuneTypeOK
<1>8. CASE Cleaned
  <2>1. /\ UNCHANGED <<objs, made, modern, tc, lib, libfile, shown, ops, faults, foreign, twins, cut, marred, bare>>
        /\ op' = [op EXCEPT !.at = "refresh"]
    BY <1>8 DEF Cleaned, Go
  <2>2. op' \in Doing /\ op'.at = "refresh"
    BY <2>1 DEF Doing, ZunePhase, ZuneTypeOK
  <2>3. ZuneHand'
    BY <2>2 DEF ZuneHand, At, Copying
  <2> QED BY <2>1, <2>2, <2>3 DEF ZuneTypeOK
<1>9. CASE Refresh
  <2>1. /\ UNCHANGED <<objs, made, modern, lib, libfile, shown, ops, foreign, twins, cut, marred, bare>>
        /\ op' = NoOp /\ faults' \in Nat /\ tc' \in {tc, Noted(Free)}
    BY <1>9 DEF Refresh, Fails, ZuneTypeOK
  <2>2. ZuneHand'
    BY <1>0, <2>1 DEF ZuneHand, At, Copying
  <2>3. Noted(Free) \in TrackList \cup {None}
    <3>1. tc # None => [tc EXCEPT !.free = Free] \in TrackList
      BY FreeType DEF ZuneTypeOK, TrackList
    <3> QED BY <3>1 DEF Noted, Loadable, ZuneTypeOK
  <2> QED BY <1>0, <2>1, <2>2, <2>3 DEF ZuneTypeOK
<1>10. CASE Overlook
  <2>1. PICK L \in SUBSET op.look : op' = [op EXCEPT !.look = L]
    BY <1>10 DEF Overlook
  <2>2. /\ UNCHANGED <<objs, made, modern, tc, lib, libfile, shown, ops, foreign, twins, cut, marred, bare>> /\ At("look")
        /\ faults' \in Nat
    BY <1>10 DEF Overlook, Fails, ZuneTypeOK
  <2>3. op' \in Doing /\ op'.at = "look" /\ op'.look \subseteq op.look /\ op'.ok = op.ok
    BY <2>1, <2>2 DEF Doing, ZuneTypeOK, At
  <2>4. ZuneHand'
    BY <2>2, <2>3 DEF ZuneTypeOK, ZuneHand, At, Copying
  <2> QED BY <2>2, <2>3, <2>4 DEF ZuneTypeOK
<1> QED BY <1>1, <1>2, <1>3, <1>4, <1>5, <1>6, <1>7, <1>8, <1>9, <1>10 DEF Removal

LEMMA SyncingType ==
    ASSUME ZuneTypeOK, Syncing
    PROVE  ZuneTypeOK'
<1> USE DEF zune, caches, limits, annals
<1>0. NoOp.at = "idle" /\ NoOp \in Doing
  BY NoOpType DEF NoOp
<1>f. ASSUME UNCHANGED faults \/ Fails PROVE faults' \in Nat
  BY <1>f DEF Fails, ZuneTypeOK
<1>1. CASE StartSync
  <2>1. PICK T \in SUBSET Song : op' = [NoOp EXCEPT !.at = "next", !.todo = T, !.back = "copies"]
    BY <1>1 DEF StartSync
  <2>2. /\ UNCHANGED <<objs, made, modern, tc, libfile, lib, shown, faults, foreign, twins, cut, marred, bare>>
        /\ ops' = ops + 1
    BY <1>1 DEF StartSync
  <2>3. op' \in Doing /\ op'.at = "next" /\ op'.back = "copies"
    BY <2>1 DEF NoOp, Doing, ZunePhase
  <2>4. ZuneHand'
    BY <2>3 DEF ZuneHand, At, Copying
  <2> QED BY <2>2, <2>3, <2>4 DEF ZuneTypeOK
<1>2. CASE NextSong
  <2>1. PICK t \in op.todo : op' = [op EXCEPT !.at = "copies", !.todo = @ \ {t}, !.song = t,
                                             !.rows = CopiesShown(t)]
    BY <1>2 DEF NextSong
  <2>2. UNCHANGED <<objs, made, modern, tc, libfile, lib, shown, ops, faults, foreign, twins, cut, marred, bare>> /\ At("next")
    BY <1>2 DEF NextSong
  <2>3. /\ op' \in Doing /\ op'.at = "copies" /\ op'.back = op.back
        /\ op'.song = t /\ op'.todo = op.todo \ {t} /\ t \in Song
    BY <2>1 DEF CopiesShown, Doing, ZunePhase, ZuneTypeOK
  <2>4. ZuneHand'
    BY <2>2, <2>3 DEF ZuneTypeOK, ZuneHand, At, Copying
  <2> QED BY <2>2, <2>3, <2>4 DEF ZuneTypeOK
<1>3. CASE NextRow("copies")
  <2>1. PICK r \in op.rows : op' = [op EXCEPT !.at = "delete", !.row = r, !.rows = @ \ {r}]
    BY <1>3 DEF NextRow
  <2>2. UNCHANGED <<objs, made, modern, tc, libfile, lib, shown, ops, faults, foreign, twins, cut, marred, bare>> /\ At("copies")
    BY <1>3 DEF NextRow
  <2>3. /\ op' \in Doing /\ op'.at = "delete" /\ op'.back = op.back /\ op'.row \in Entry
        /\ op'.song = op.song /\ op'.todo = op.todo
    BY <2>1 DEF Doing, ZunePhase, ZuneTypeOK
  <2>4. ZuneHand'
    BY <2>2, <2>3 DEF ZuneTypeOK, ZuneHand, At, Copying
  <2> QED BY <2>2, <2>3, <2>4 DEF ZuneTypeOK
<1>4. CASE ImportTrack
  <2>1. /\ At("copies") /\ faults' \in Nat
        /\ \/ op' = [op EXCEPT !.at = "artist"] /\ EnsureLibrary
           \/ op' = [op EXCEPT !.at = "next"] /\ UNCHANGED <<lib, libfile>>
        /\ UNCHANGED <<objs, made, modern, tc, shown, ops, foreign, twins, cut, marred, bare>>
    BY <1>4 DEF ImportTrack, Go, EnsureLibrary, NoLibrary, Fails, ZuneTypeOK
  <2>2. /\ op' \in Doing /\ op'.back = op.back /\ op'.song = op.song /\ op'.todo = op.todo
        /\ (op'.at = "artist" /\ EnsureLibrary) \/ (op'.at = "next" /\ UNCHANGED <<lib, libfile>>)
    <3>1. op \in Doing /\ {"artist", "next"} \subseteq ZunePhase
      BY DEF ZunePhase, Copying, ZuneTypeOK
    <3>2. PICK m \in {"artist", "next"} : op' = [op EXCEPT !.at = m]
      BY <2>1
    <3>3. op' \in Doing /\ op'.at = m /\ op'.back = op.back /\ op'.song = op.song /\ op'.todo = op.todo
      BY <3>1, <3>2 DEF Doing
    <3>4. (m = "artist" /\ EnsureLibrary) \/ (m = "next" /\ UNCHANGED <<lib, libfile>>)
      <4>1. CASE op' = [op EXCEPT !.at = "artist"] /\ EnsureLibrary
        <5>1. op'.at = "artist"
          BY <3>1, <4>1 DEF Doing
        <5> QED BY <3>3, <4>1, <5>1
      <4>2. CASE op' = [op EXCEPT !.at = "next"] /\ UNCHANGED <<lib, libfile>>
        <5>1. op'.at = "next"
          BY <3>1, <4>2 DEF Doing
        <5> QED BY <3>3, <4>2, <5>1
      <4> QED BY <2>1, <4>1, <4>2
    <3> QED BY <3>3, <3>4
  <2>3. lib' \in Folders \cup {None} /\ libfile' \in Folders \cup {None} /\ (op'.at = "artist" => lib' \in Folders)
    BY <2>2, EnsureType DEF ZuneTypeOK
  <2>4. op.back = "copies" /\ op.song \in Song /\ op.song \notin op.todo
    BY <2>1 DEF ZuneTypeOK, ZuneHand, At
  <2>5. ZuneHand'
    <3>1. op'.at \in {"artist", "next"}
      BY <2>2
    <3> QED BY <2>2, <2>3, <2>4, <3>1 DEF ZuneHand, At, Copying
  <2> QED BY <2>1, <2>2, <2>3, <2>5 DEF ZuneTypeOK
<1> DEFINE Step(m) ==
        /\ op.at \in Copying \cup {"record"} /\ op' \in Doing /\ op'.at = m
        /\ op'.back = op.back /\ op'.song = op.song /\ op'.todo = op.todo
<1>5. ASSUME NEW m \in Copying \cup {"record", "next", "wedged"}, Step(m), lib' \in Folders, libfile' \in Folders \cup {None},
             UNCHANGED <<modern, ops, foreign, marred, bare>>, cut' \in SUBSET Song, faults' \in Nat,
             made' \in 0..MaxHandle, DOMAIN objs' \subseteq 1..made', objs' \in [DOMAIN objs' -> Thing],
             tc' \in TrackList \cup {None}, shown' \in SUBSET Entry, twins' \in SUBSET Song
      PROVE  ZuneTypeOK'
  <2>1. /\ op.back = "copies" /\ op.song \in Song /\ op.song \notin op.todo
    BY <1>5 DEF ZuneTypeOK, ZuneHand, At
  <2>2. ZuneHand'
    BY <1>5, <2>1 DEF ZuneHand, At, Copying
  <2> QED BY <1>5, <2>2 DEF ZuneTypeOK
<1>6. ASSUME op.at \in Copying \cup {"record"}
      PROVE  /\ op.song \in Song /\ lib \in Folders /\ libfile \in Folders \cup {None}
             /\ AlbumOf[op.song] \in Album /\ ArtistOf[AlbumOf[op.song]] \in Artist
             /\ op.id \in Nat /\ op.id \in Int
             /\ made \in 0..MaxHandle /\ DOMAIN objs \subseteq 1..made /\ objs \in [DOMAIN objs -> Thing]
             /\ tc \in TrackList \cup {None} /\ shown \in SUBSET Entry /\ twins \in SUBSET Song /\ cut \in SUBSET Song
             /\ faults \in Nat /\ faults + 1 \in Nat
  BY <1>6, ZuneAssumption DEF ZuneTypeOK, ZuneHand, Doing
<1>7. ASSUME op.at \in Copying, NEW m \in Copying \cup {"next", "wedged"}, op' = [op EXCEPT !.at = m] PROVE Step(m)
  BY <1>7 DEF Doing, ZunePhase, ZuneTypeOK
<1>8. ASSUME op.at \in Copying \cup {"record"}, NEW m \in Copying \cup {"record"}, NEW i \in Nat, op' = [op EXCEPT !.at = m, !.id = i] PROVE Step(m)
  BY <1>8 DEF Doing, ZunePhase, ZuneTypeOK
<1> HIDE DEF Step
<1>9. ASSUME op.at \in Copying, NEW kind \in {"artist", "album"}, NEW x \in Artist \cup Album, NEW d \in Int, NEW m \in Copying,
             Folder(kind, x, d, m), UNCHANGED <<modern, tc, libfile, lib, shown, ops, foreign, twins, cut, marred, bare>>
      PROVE  ZuneTypeOK'
  <2>0. faults' \in Nat
    BY <1>9, <1>f DEF Folder
  <2>1. CASE Keep /\ (Go("wedged") \/ Go("next"))
    BY <1>9, <2>0, <2>1, <1>5, <1>6, <1>7 DEF Go, Keep
  <2>2. ASSUME Keep, NEW h \in Candidates(d, kind, x), op' = [op EXCEPT !.at = m, !.id = h] PROVE ZuneTypeOK'
    <3>1. h \in Nat
      BY <2>2, CandidateIs DEF ZuneTypeOK
    <3>2. Step(m)
      BY <1>9, <1>8, <2>2, <3>1
    <3> QED BY <1>9, <2>0, <2>2, <1>5, <1>6, <3>2 DEF Keep
  <2>3. CASE Live(d) /\ Send(Object(kind, x, d)) /\ (op' = [op EXCEPT !.at = m, !.id = made'] \/ Go("next"))
    <3>1. made' \in Nat
      BY <1>9, <1>6, <2>3 DEF Send
    <3>2. Step(m) \/ Step("next")
      BY <1>9, <1>7, <1>8, <2>3, <3>1 DEF Go
    <3>3. Object(kind, x, d) \in Thing
      BY <1>9, <2>3 DEF Object, Thing, Live, Root, ZuneTypeOK
    <3>4. made' \in 0..MaxHandle /\ DOMAIN objs' \subseteq 1..made' /\ objs' \in [DOMAIN objs' -> Thing]
      BY <2>3, <3>3, WithType DEF Send
    <3> QED BY <1>9, <2>0, <1>5, <1>6, <3>2, <3>4
  <2> QED BY <1>9, <2>1, <2>2, <2>3 DEF Folder
<1>10. CASE PlaceArtist
  <2>1. op.at \in Copying /\ UNCHANGED <<modern, tc, libfile, lib, shown, ops, foreign, twins, cut, marred, bare>>
    BY <1>10 DEF PlaceArtist, At, Copying
  <2>2. CASE Go("album") /\ Keep /\ UNCHANGED faults
    BY <2>1, <2>2, <1>5, <1>6, <1>7 DEF Go, Copying, Keep
  <2>3. CASE Folder("artist", ArtistOf[AlbumOf[op.song]], Root, "file artist")
    <3>1. Root \in Int /\ "file artist" \in Copying
      BY DEF Root, Copying
    <3> QED BY <2>1, <2>3, <1>6, <1>9, <3>1
  <2> QED BY <1>10, <2>2, <2>3 DEF PlaceArtist
<1>11. CASE FileArtist
  <2>1. op.at \in Copying /\ UNCHANGED <<objs, made, modern, tc, shown, ops, faults, foreign, twins, cut, marred, bare>>
    BY <1>11 DEF FileArtist, At, Copying
  <2>2. [lib EXCEPT !.artists[ArtistOf[AlbumOf[op.song]]] = op.id] \in Folders
    BY <2>1, <1>6 DEF Folders
  <2>3. Step("album")
    BY <1>11, <2>1, <1>7 DEF FileArtist, File, Go, Copying
  <2>4. lib' \in Folders /\ libfile' \in Folders
    BY <1>11, <2>2 DEF FileArtist, File
  <2> QED BY <2>1, <2>3, <2>4, <1>5, <1>6 DEF Copying
<1>12. CASE PlaceAlbum
  <2>1. op.at \in Copying /\ UNCHANGED <<modern, tc, libfile, lib, shown, ops, foreign, twins, cut, marred, bare>>
    BY <1>12 DEF PlaceAlbum, At, Copying
  <2>2. CASE Go("upload") /\ Keep /\ UNCHANGED faults
    BY <2>1, <2>2, <1>5, <1>6, <1>7 DEF Go, Copying, Keep
  <2>3. CASE Folder("album", AlbumOf[op.song], lib.artists[ArtistOf[AlbumOf[op.song]]], "object")
    <3>1. lib.artists[ArtistOf[AlbumOf[op.song]]] \in Int /\ "object" \in Copying
      BY <2>1, <1>6 DEF Folders, Copying
    <3> QED BY <2>1, <2>3, <1>6, <1>9, <3>1
  <2> QED BY <1>12, <2>2, <2>3 DEF PlaceAlbum
<1>13. CASE AlbumObject
  <2>1. op.at \in Copying /\ UNCHANGED <<modern, tc, lib, libfile, shown, ops, foreign, twins, cut, marred, bare>>
    BY <1>13 DEF AlbumObject, At, Copying
  <2>2. Step("file album")
    BY <1>13, <2>1, <1>7 DEF AlbumObject, Go, Copying
  <2>0. faults' \in Nat
    BY <1>13, <1>f DEF AlbumObject
  <2>3. CASE Send(Object("alb", AlbumOf[op.song], Root))
    <3>1. Object("alb", AlbumOf[op.song], Root) \in Thing
      BY <2>1, <1>6 DEF Object, Thing, Root
    <3>2. made' \in 0..MaxHandle /\ DOMAIN objs' \subseteq 1..made' /\ objs' \in [DOMAIN objs' -> Thing]
      BY <2>3, <3>1, WithType DEF Send
    <3> QED BY <2>0, <2>1, <2>2, <3>2, <1>5, <1>6 DEF Copying
  <2>4. CASE Keep
    BY <2>0, <2>1, <2>2, <2>4, <1>5, <1>6 DEF Copying, Keep
  <2> QED BY <1>13, <2>3, <2>4 DEF AlbumObject
<1>14. CASE FileAlbum
  <2>1. op.at \in Copying /\ UNCHANGED <<objs, made, modern, tc, shown, ops, faults, foreign, twins, cut, marred, bare>>
    BY <1>14 DEF FileAlbum, At, Copying
  <2>2. [lib EXCEPT !.albums[AlbumOf[op.song]] = op.id] \in Folders
    BY <2>1, <1>6 DEF Folders
  <2>3. Step("upload")
    BY <1>14, <2>1, <1>7 DEF FileAlbum, File, Go, Copying
  <2>4. lib' \in Folders /\ libfile' \in Folders
    BY <1>14, <2>2 DEF FileAlbum, File
  <2> QED BY <2>1, <2>3, <2>4, <1>5, <1>6 DEF Copying
<1>15. CASE Upload
  <2> DEFINE d == lib.albums[AlbumOf[op.song]]
  <2>1. op.at \in Copying /\ UNCHANGED <<modern, tc, lib, libfile, shown, ops, foreign, marred, bare>>
    BY <1>15 DEF Upload, At, Copying
  <2>0. faults' \in Nat /\ cut' \in SUBSET Song
    BY <1>15, <2>1, <1>6 DEF Upload, Fails, ZuneTypeOK
  <2>2. CASE Keep /\ UNCHANGED twins /\ (Go("wedged") \/ Go("next"))
    BY <2>0, <2>1, <2>2, <1>5, <1>6, <1>7 DEF Go, Keep
  <2>3. CASE /\ Live(d) /\ Send(Object("track", op.song, d))
             /\ twins' = IF Copies(op.song) # {} THEN twins \cup {op.song} ELSE twins
             /\ op' = [op EXCEPT !.at = "record", !.id = made'] \/ Go("next")
    <3>1. made' \in Nat /\ twins' \in SUBSET Song
      BY <2>1, <1>6, <2>3 DEF Send
    <3>2. Step("record") \/ Step("next")
      BY <2>1, <1>7, <1>8, <2>3, <3>1 DEF Go
    <3>3. d \in Int
      BY <2>1, <1>6 DEF Folders
    <3>4. Object("track", op.song, d) \in Thing
      BY <2>1, <1>6, <2>3, <3>3 DEF Object, Thing, Live, Root, ZuneTypeOK
    <3>5. made' \in 0..MaxHandle /\ DOMAIN objs' \subseteq 1..made' /\ objs' \in [DOMAIN objs' -> Thing]
      BY <2>3, <3>4, WithType DEF Send
    <3> QED BY <2>0, <2>1, <3>1, <3>2, <3>5, <1>5, <1>6
  <2> QED BY <1>15, <2>2, <2>3 DEF Upload
<1>16. CASE Record
  <2>1. /\ op.at = "record" /\ UNCHANGED <<objs, made, modern, libfile, lib, ops, faults, foreign, twins, cut, marred, bare>>
        /\ tc' = Appended(Row(op.id, op.song, "file")) /\ shown' = Shown(Row(op.id, op.song, "title"))
        /\ op' = [op EXCEPT !.at = "next", !.ok = TRUE]
    BY <1>16 DEF Record, At
  <2>2. Row(op.id, op.song, "file") \in Entry /\ Row(op.id, op.song, "title") \in Entry
    BY <2>1, <1>6 DEF Row, Entry, Form
  <2>3. shown' \in SUBSET Entry
    BY <2>1, <2>2, <1>6 DEF Shown
  <2>4. tc' \in TrackList
    <3> DEFINE r == Row(op.id, op.song, "file")
    <3> HIDE DEF r
    <3>1. r \in Entry
      BY <2>2 DEF r
    <3>2. CASE tc = None
      BY <2>1, <3>1, <3>2 DEF Appended, TrackList, r
    <3>3. CASE tc # None
      <4>1. tc \in TrackList
        BY <2>1, <1>6, <3>3
      <4>2. [tc EXCEPT !.rows = tc.rows \cup {r}] \in TrackList
        BY <3>1, <4>1 DEF TrackList
      <4> QED BY <2>1, <3>3, <4>2 DEF Appended, r
    <3> QED BY <3>2, <3>3
  <2>5. Step("next")
    BY <2>1 DEF Step, Doing, ZunePhase, ZuneTypeOK
  <2> QED BY <2>1, <2>3, <2>4, <2>5, <1>5, <1>6
<1>17. CASE SyncDone
  <2>1. /\ UNCHANGED <<objs, made, modern, tc, lib, libfile, shown, ops, faults, foreign, twins, cut, marred, bare>>
        /\ op' \in {NoOp, [op EXCEPT !.at = "refresh"]}
    BY <1>17 DEF SyncDone
  <2>2. op' \in Doing /\ op'.at \in {"refresh", "idle"}
    BY <2>1, <1>0 DEF Doing, ZunePhase, ZuneTypeOK
  <2>3. ZuneHand'
    BY <2>2 DEF ZuneHand, At, Copying
  <2> QED BY <2>1, <2>2, <2>3 DEF ZuneTypeOK
<1> QED BY <1>1, <1>2, <1>3, <1>4, <1>10, <1>11, <1>12, <1>13, <1>14, <1>15, <1>16, <1>17 DEF Syncing

LEMMA ElsewhereType ==
    ASSUME ZuneTypeOK, DeletedElsewhere \/ AddedElsewhere
    PROVE  ZuneTypeOK'
<1> USE DEF zune, caches, limits, annals
<1>1. /\ At("off") /\ foreign' = foreign + 1 /\ UNCHANGED <<modern, tc, lib, libfile, shown, op, ops, faults, twins, cut, marred, bare>>
  BY DEF DeletedElsewhere, AddedElsewhere, Elsewhere
<1>2. made' \in 0..MaxHandle /\ DOMAIN objs' \subseteq 1..made' /\ objs' \in [DOMAIN objs' -> Thing]
  <2>1. CASE DeletedElsewhere
    <3>1. (\E H : objs' = Deleted(H)) /\ UNCHANGED made
      BY <2>1 DEF DeletedElsewhere
    <3> QED BY <3>1, DeletedType DEF ZuneTypeOK
  <2>2. CASE AddedElsewhere
    <3>1. PICK t \in Song : /\ AlbumDir(AlbumOf[t]) # Nowhere /\ made < MaxHandle
                            /\ made' = made + 1 /\ objs' = With(Object("track", t, AlbumDir(AlbumOf[t])))
      BY <2>2 DEF AddedElsewhere
    <3>2. AlbumDir(AlbumOf[t]) \in Nat
      BY <3>1, CandidateIs DEF AlbumDir, ZuneTypeOK
    <3>3. Object("track", t, AlbumDir(AlbumOf[t])) \in Thing
      BY <3>2 DEF Object, Thing
    <3> QED BY <3>1, <3>3, WithType
  <2> QED BY <2>1, <2>2
<1>3. ZuneHand'
  BY <1>1 DEF ZuneHand, At, Copying, ZuneTypeOK
<1> QED BY <1>1, <1>2, <1>3 DEF ZuneTypeOK

\* Every action keeps the types, and what the worker has in hand is what its phase needs.
THEOREM ZuneTypes == ZuneSpec => []ZuneTypeOK
<1>1. ZuneTypeOK /\ [ZuneNext]_zuneVars => ZuneTypeOK'
  <2>1. ASSUME ZuneTypeOK, UNCHANGED zuneVars PROVE ZuneTypeOK'
    BY <2>1 DEF zuneVars, ZuneTypeOK, ZuneHand, At
  <2> QED BY <2>1, ListingType, RemovalType, SyncingType, ElsewhereType DEF ZuneNext, Listing
<1> QED BY <1>1, ZuneInitType, PTL DEF ZuneSpec

-----------------------------------------------------------------------------
(* Rows and handles. *)

\* Objects come under new handles, and do not change.
OldObjects == made <= made' /\ \A h \in DOMAIN objs' : h <= made => h \in DOMAIN objs /\ objs'[h] = objs[h]

LEMMA OldObjectsStay ==
    ASSUME ZuneTypeOK, ZuneNext \/ UNCHANGED zuneVars PROVE OldObjects
<1> USE DEF zune
<1>1. made \in Nat /\ DOMAIN objs \subseteq 1..made
  BY DEF ZuneTypeOK
<1>2. UNCHANGED <<objs, made>> => OldObjects
  BY <1>1 DEF OldObjects
<1>3. ASSUME NEW H, objs' = Deleted(H), UNCHANGED made PROVE OldObjects
  <2>1. DOMAIN objs' = DOMAIN objs \ H /\ \A h \in DOMAIN objs' : objs'[h] = objs[h]
    BY <1>3, DeletedType
  <2> QED BY <1>1, <1>3, <2>1 DEF OldObjects
<1>4. ASSUME NEW o, objs' = With(o), made' = made + 1 PROVE OldObjects
  BY <1>1, <1>4 DEF OldObjects, With
<1>5. Open \/ Reload \/ Collect \/ Load \/ Warm \/ Close => UNCHANGED <<objs, made>>
  BY DEF Open, Reload, Collect, Load, Warm, Close
<1>6. StartRemoval \/ NextRow("rows") \/ Forget \/ RowsDone \/ Unlink \/ Cleaned \/ Refresh => UNCHANGED <<objs, made>>
  BY DEF StartRemoval, NextRow, Forget, RowsDone, Unlink, Cleaned, Refresh
<1>7. Delete => UNCHANGED made /\ (UNCHANGED objs \/ \E H : objs' = Deleted(H))
  BY DEF Delete
<1>8. (\E h \in op.look : LookAt(h)) => UNCHANGED made /\ (UNCHANGED objs \/ \E H : objs' = Deleted(H))
  BY DEF LookAt
<1>9. StartSync \/ NextSong \/ NextRow("copies") \/ ImportTrack \/ FileArtist \/ FileAlbum \/ Record \/ SyncDone =>
         UNCHANGED <<objs, made>>
  BY DEF StartSync, NextSong, NextRow, ImportTrack, FileArtist, FileAlbum, Record, SyncDone
<1>10. PlaceArtist \/ PlaceAlbum \/ AlbumObject \/ Upload =>
         UNCHANGED <<objs, made>> \/ (made' = made + 1 /\ \E o : objs' = With(o))
  <2>1. \A o : Send(o) => made' = made + 1 /\ objs' = With(o)
    BY DEF Send
  <2>2. PlaceArtist \/ PlaceAlbum \/ AlbumObject \/ Upload => Keep \/ \E o : Send(o)
    BY DEF PlaceArtist, PlaceAlbum, AlbumObject, Upload, Folder
  <2> QED BY <2>1, <2>2 DEF Keep
<1>11. DeletedElsewhere => UNCHANGED made /\ \E H : objs' = Deleted(H)
  BY DEF DeletedElsewhere
<1>12. AddedElsewhere => made' = made + 1 /\ \E o : objs' = With(o)
  BY DEF AddedElsewhere
<1>13. UNCHANGED zuneVars \/ Overlook => UNCHANGED <<objs, made>>
  BY DEF zuneVars, Overlook
<1> QED BY <1>2, <1>3, <1>4, <1>5, <1>6, <1>7, <1>8, <1>9, <1>10, <1>11, <1>12, <1>13
        DEF ZuneNext, Listing, Removal, Syncing

\* The rows anyone knows of.
AllRows == Listed \cup shown \cup op.rows

LEMMA RowTypes ==
    ASSUME ZuneTypeOK PROVE AllRows \subseteq Entry /\ Listed \subseteq Entry /\ shown \subseteq Entry /\ op.rows \subseteq Entry
BY DEF AllRows, Listed, ZuneTypeOK, TrackList, Doing

LEMMA MeetsStays ==
    ASSUME ZuneTypeOK, OldObjects, ZuneTypeOK', NEW r \in Entry, Meets(r) PROVE Meets(r)'
BY DEF Meets, OldObjects, Is, Entry, ZuneTypeOK

LEMMA SamePhaseRows ==
    ASSUME ZuneTypeOK, ZuneTypeOK', OldObjects, RowsMeet, AllRows' \subseteq AllRows,
           op'.at \notin {"delete", "forget", "record"}
    PROVE  RowsMeet'
<1>1. \A r \in AllRows' : Meets(r)'
  BY RowTypes, MeetsStays DEF RowsMeet, AllRows
<1> QED BY <1>1 DEF RowsMeet, AllRows, At

\* What steps leave the rows alone, or drop some, or pass them from one place to another.
LEMMA MildSteps ==
    ASSUME ZuneTypeOK,
           \/ Open \/ Reload \/ Collect \/ Warm \/ Close
           \/ StartRemoval \/ Forget \/ RowsDone \/ (\E h \in op.look : LookAt(h)) \/ Overlook \/ Unlink \/ Cleaned \/ Refresh
           \/ StartSync \/ NextSong \/ ImportTrack \/ PlaceArtist \/ FileArtist \/ PlaceAlbum \/ AlbumObject \/ FileAlbum
           \/ SyncDone \/ DeletedElsewhere \/ AddedElsewhere
    PROVE  AllRows' \subseteq AllRows /\ op'.at \notin {"delete", "forget", "record"}
<1> USE DEF caches
<1>0. op \in Doing /\ NoOp.at = "idle" /\ Off.at = "off" /\ NoOp.rows = {} /\ Off.rows = {}
  BY DEF ZuneTypeOK, NoOp, Off
<1>1. UNCHANGED tc => Listed' = Listed
  BY DEF Listed
<1>2. ASSUME NEW m \in STRING, op' = [op EXCEPT !.at = m] PROVE op'.at = m /\ op'.rows = op.rows
  BY <1>0, <1>2 DEF Doing
<1>3. CASE Open \/ Reload
  <2>1. op'.at = "collect" /\ op'.rows = {}
    BY <1>3 DEF Open, Reload, NoOp
  <2> QED BY <1>1, <1>3, <2>1 DEF Open, Reload, AllRows
<1>4. CASE Collect
  <2>1. op.back \in {"idle", "warm"}
    BY <1>4 DEF Collect, ZuneTypeOK, ZuneHand, At
  <2>2. op'.at \in {"idle", "warm", "load"} /\ op'.rows = op.rows
    BY <1>0, <1>4, <2>1 DEF Collect, Go, Doing
  <2>3. Listed' \subseteq Listed /\ shown' \subseteq Listed \cup shown
    <3>1. ASSUME NEW free, Trusted(free), tc' = [tc EXCEPT !.header = TRUE, !.free = free], shown' = tc.rows
          PROVE  Listed' \subseteq Listed /\ shown' \subseteq Listed \cup shown
      <4>1. tc \in TrackList /\ Listed = tc.rows
        BY <3>1 DEF Trusted, Loadable, ZuneTypeOK, Listed
      <4>2. tc'.rows = tc.rows
        BY <3>1, <4>1 DEF TrackList
      <4> QED BY <3>1, <4>1, <4>2 DEF Listed
    <3>2. ASSUME tc' = None, UNCHANGED shown PROVE  Listed' \subseteq Listed /\ shown' \subseteq Listed \cup shown
      BY <3>2 DEF Listed
    <3> QED BY <1>1, <1>4, <3>1, <3>2 DEF Collect
  <2> QED BY <2>2, <2>3 DEF AllRows
<1>5. CASE Warm \/ Close
  BY <1>0, <1>1, <1>5 DEF Warm, Close, AllRows
<1>6. CASE StartRemoval
  <2>1. op'.at = "rows" /\ op'.rows \subseteq shown
    BY <1>6 DEF StartRemoval, NoOp
  <2> QED BY <1>1, <1>6, <2>1 DEF StartRemoval, AllRows
<1>7. CASE Forget
  <2>1. op.back \in {"rows", "copies"}
    BY <1>7 DEF Forget, ZuneTypeOK, ZuneHand, At
  <2>2. op'.at = op.back /\ op'.rows = op.rows
    BY <1>0, <1>7 DEF Forget, Doing
  <2>3. Listed' \subseteq Listed
    <3>1. CASE tc = None
      BY <1>7, <3>1 DEF Forget, Listed
    <3>2. CASE tc # None
      <4>1. tc \in TrackList /\ tc' = [tc EXCEPT !.rows = {r \in tc.rows : ~Gone(r, op.row)}]
        BY <1>7, <3>2 DEF Forget, Kept, ZuneTypeOK
      <4>2. tc'.rows \subseteq tc.rows
        BY <4>1 DEF TrackList
      <4> QED BY <3>2, <4>2 DEF Listed
    <3> QED BY <3>1, <3>2
  <2> QED BY <1>7, <2>1, <2>2, <2>3 DEF Forget, AllRows
<1>8. CASE RowsDone
  <2>1. op'.at \in {"look", "refresh"} /\ op'.rows = {}
    BY <1>0, <1>8 DEF RowsDone, Doing
  <2> QED BY <1>1, <1>8, <2>1 DEF RowsDone, AllRows
<1>9. CASE \E h \in op.look : LookAt(h)
  <2>1. op'.at \in {"look", "unlink"} /\ op'.rows = op.rows
    BY <1>0, <1>9 DEF LookAt, Doing, At
  <2> QED BY <1>1, <1>9, <2>1 DEF LookAt, AllRows
<1>16. CASE Overlook
  <2>1. op'.at = "look" /\ op'.rows = op.rows
    BY <1>0, <1>16 DEF Overlook, Doing, At
  <2> QED BY <1>1, <1>16, <2>1 DEF Overlook, AllRows
<1>10. CASE Unlink \/ Cleaned \/ FileArtist \/ FileAlbum \/ AlbumObject \/ ImportTrack
  <2>1. op'.at \in {"look", "refresh", "album", "upload", "file album", "artist", "next"} /\ op'.rows = op.rows
    <3>1. PICK m \in {"look", "refresh", "album", "upload", "file album", "artist", "next"} : op' = [op EXCEPT !.at = m]
      BY <1>10 DEF Unlink, Cleaned, FileArtist, FileAlbum, AlbumObject, ImportTrack, File, Go
    <3>2. op'.at = m /\ op'.rows = op.rows
      BY <1>0, <3>1 DEF Doing
    <3> QED BY <3>2
  <2> QED BY <1>1, <1>10, <2>1 DEF Unlink, Cleaned, FileArtist, FileAlbum, AlbumObject, ImportTrack, AllRows
<1>11. CASE Refresh
  <2>1. Listed' = Listed
    <3>1. Loadable => [tc EXCEPT !.free = Free].rows = tc.rows /\ [tc EXCEPT !.free = Free] \in TrackList
      BY FreeType DEF Loadable, ZuneTypeOK, TrackList
    <3>2. tc' = Noted(Free) \/ UNCHANGED tc
      BY <1>11 DEF Refresh
    <3> QED BY <1>1, <3>1, <3>2, ZuneAssumption DEF Noted, Listed, Loadable
  <2> QED BY <1>0, <1>11, <2>1 DEF Refresh, AllRows
<1>12. CASE StartSync \/ SyncDone
  <2>1. op'.at \in {"next", "idle", "refresh"} /\ op'.rows \subseteq op.rows
    <3>1. CASE StartSync
      BY <3>1 DEF StartSync, NoOp
    <3>2. CASE SyncDone
      <4>1. op' = [op EXCEPT !.at = "refresh"] \/ op' = NoOp
        BY <3>2 DEF SyncDone
      <4>2. CASE op' = [op EXCEPT !.at = "refresh"]
        BY <1>0, <4>2 DEF Doing
      <4>3. CASE op' = NoOp
        BY <1>0, <4>3 DEF NoOp
      <4> QED BY <4>1, <4>2, <4>3
    <3> QED BY <1>12, <3>1, <3>2
  <2> QED BY <1>1, <1>12, <2>1 DEF StartSync, SyncDone, AllRows
<1>13. CASE NextSong
  <2>1. op'.at = "copies" /\ op'.rows \subseteq shown
    <3>1. PICK t \in op.todo : op' = [op EXCEPT !.at = "copies", !.todo = @ \ {t}, !.song = t,
                                               !.rows = CopiesShown(t)]
      BY <1>13 DEF NextSong
    <3>2. op'.at = "copies" /\ op'.rows = CopiesShown(t)
      BY <1>0, <3>1 DEF Doing
    <3> QED BY <3>2 DEF CopiesShown
  <2> QED BY <1>1, <1>13, <2>1 DEF NextSong, AllRows
<1>14. CASE PlaceArtist \/ PlaceAlbum
  <2>1. op'.at \in {"album", "upload", "file artist", "object", "wedged", "next"} /\ op'.rows = op.rows
    BY <1>0, <1>2, <1>14 DEF PlaceArtist, PlaceAlbum, Folder, Go, Doing
  <2> QED BY <1>1, <1>14, <2>1 DEF PlaceArtist, PlaceAlbum, AllRows
<1>15. CASE DeletedElsewhere \/ AddedElsewhere
  BY <1>1, <1>15 DEF DeletedElsewhere, AddedElsewhere, Elsewhere, At, AllRows
<1> QED BY <1>3, <1>4, <1>5, <1>6, <1>7, <1>8, <1>9, <1>10, <1>11, <1>12, <1>13, <1>14, <1>15, <1>16

LEMMA ResolveIs ==
    ASSUME ZuneTypeOK, NEW t, Resolve(t) \in DOMAIN objs
    PROVE  objs[Resolve(t)].kind = "track" /\ <<objs[Resolve(t)].of, t>> \in Fits
<1> DEFINE b == AlbumDir(AlbumOf[t])
           H == Titled(b, t)
<1>1. 1..made \subseteq Nat /\ H \in SUBSET Nat /\ DOMAIN objs \subseteq 1..made
  BY DEF ZuneTypeOK, Children, Titled
<1>2. Nowhere \notin DOMAIN objs
  BY <1>1 DEF Nowhere
<1>3. Resolve(t) = FindTitle(b, t) /\ FindTitle(b, t) = First(H)
  BY <1>2 DEF Resolve, FindTitle
<1>4. H # {} /\ First(H) \in H
  <2> HIDE DEF H
  <2> QED BY <1>1, <1>2, <1>3, FirstOf
<1> QED BY <1>3, <1>4 DEF Titled

LEMMA LeadsIs ==
    ASSUME NEW t, NEW h \in Leads(t)
    PROVE  h \in DOMAIN objs /\ objs[h].kind = "track" /\ <<objs[h].of, t>> \in Fits
BY DEF Leads, Titled, Children

LEMMA RowsMeetStep ==
    ASSUME ZuneTypeOK, ZuneTypeOK', RowsMeet, ZuneNext \/ UNCHANGED zuneVars PROVE RowsMeet'
<1> USE DEF caches, zune
<1>0. OldObjects /\ op \in Doing /\ made \in Nat /\ DOMAIN objs \subseteq 1..made
  BY OldObjectsStay DEF ZuneTypeOK
<1>1. CASE UNCHANGED zuneVars
  BY <1>1 DEF zuneVars, RowsMeet, Meets, Listed, At, Is
<1>2. CASE Load
  <2>1. op'.at \in {"idle", "warm"} /\ op'.rows = op.rows
    BY <1>0, <1>2 DEF Load, Go, Doing, ZuneTypeOK, ZuneHand, At
  <2> DEFINE Rows == ByTitle(OnDevice) \cup ByFile(Walked)
  <2>2. \A r \in Rows : Meets(r)
    <3>1. \A r \in ByTitle(OnDevice) : Meets(r)
      BY <1>0 DEF ByTitle, Row, Meets
    <3>2. \A t \in Song : \A h \in Copies(t) : Meets(Row(h, objs[h].of, "file"))
      BY <1>0 DEF Copies, Row, Meets, Is
    <3> QED BY <3>1, <3>2 DEF ByFile, Walked
  <2>3. UNCHANGED <<objs, made>>
    BY <1>2 DEF Load
  <2>4. \A r : Meets(r)' <=> Meets(r)
    BY <2>3 DEF Meets, Is
  <2>5. AllRows' \subseteq AllRows \cup Rows
    <3>1. (\A S \in SUBSET OnDevice : ByTitle(S) \subseteq Rows) /\ (\A H \in SUBSET Walked : ByFile(H) \subseteq Rows)
      BY DEF ByTitle, ByFile
    <3>2. \/ UNCHANGED tc /\ shown' \in {shown, {}}
          \/ \E rows \in SUBSET Rows : tc' = [header |-> TRUE, free |-> op.free, rows |-> rows] /\ shown' = rows
      <4> HIDE DEF Rows
      <4> QED BY <1>2, <3>1 DEF Load
    <3>3. UNCHANGED tc => Listed' = Listed
      BY DEF Listed
    <3>4. ASSUME NEW rows, tc' = [header |-> TRUE, free |-> op.free, rows |-> rows] PROVE Listed' \subseteq rows
      BY <3>4 DEF Listed
    <3> HIDE DEF Rows
    <3> QED BY <2>1, <3>2, <3>3, <3>4 DEF AllRows
  <2> HIDE DEF Rows
  <2> QED BY <2>1, <2>2, <2>4, <2>5 DEF RowsMeet, AllRows, At
<1>3. ASSUME NEW l \in {"rows", "copies"}, NextRow(l) PROVE RowsMeet'
  <2>1. PICK r \in op.rows : op' = [op EXCEPT !.at = "delete", !.row = r, !.rows = @ \ {r}]
    BY <1>3 DEF NextRow
  <2>2. op'.at = "delete" /\ op'.row = r /\ op'.rows \subseteq op.rows
    BY <1>0, <2>1 DEF Doing
  <2>3. UNCHANGED <<objs, made, tc, shown>>
    BY <1>3 DEF NextRow
  <2>4. \A q : Meets(q)' <=> Meets(q)
    BY <2>3 DEF Meets, Is
  <2> QED BY <2>1, <2>2, <2>3, <2>4 DEF RowsMeet, Listed, At
<1>4. CASE Delete
  <2>1. /\ At("delete") /\ UNCHANGED <<made, tc, shown>>
        /\ \/ /\ op' = [op EXCEPT !.at = "forget"]
              /\ \E h \in {Target(op.row)} \cup Targets(op.row) : objs' = Deleted({h})
           \/ op' = [op EXCEPT !.at = op.back]
    BY <1>4 DEF Delete, Go
  <2>2. op.back \in {"rows", "copies"} /\ op.row \in Entry /\ Meets(op.row)
    BY <2>1 DEF ZuneTypeOK, ZuneHand, At, RowsMeet
  <2>3. op'.at \in {op.back, "forget"} /\ op'.rows = op.rows /\ op'.row = op.row
    BY <1>0, <2>1, <2>2 DEF Doing
  <2>4. \A r \in AllRows' : Meets(r)'
    BY <1>0, <2>1, <2>3, RowTypes, MeetsStays DEF AllRows, Listed, RowsMeet
  <2>5. op'.at = "forget" => op'.row.id \notin DOMAIN objs'
    <3> SUFFICES ASSUME op'.at = "forget" PROVE op.row.id \notin DOMAIN objs'
      BY <2>3
    <3>1. PICK h \in {Target(op.row)} \cup Targets(op.row) : objs' = Deleted({h})
      BY <1>0, <2>1, <2>2 DEF Doing
    <3>2. DOMAIN objs' = DOMAIN objs \ {h}
      BY <2>1, <3>1, DeletedType
    <3>3. op.row.id \in Nat /\ 0 \notin DOMAIN objs
      BY <1>0, <2>2 DEF Entry
    <3> QED BY <3>2, <3>3 DEF Target, Targets
  <2> QED BY <2>2, <2>3, <2>4, <2>5 DEF RowsMeet, AllRows, At, Meets
<1>5. CASE Upload
  <2> DEFINE d == lib.albums[AlbumOf[op.song]]
  <2>1. UNCHANGED <<tc, shown>>
    BY <1>5 DEF Upload
  <2>2. CASE op' = [op EXCEPT !.at = "record", !.id = made'] /\ made < MaxHandle /\ made' = made + 1
             /\ objs' = With(Object("track", op.song, d))
    <3>1. op'.at = "record" /\ op'.id = made + 1 /\ op'.rows = op.rows /\ op'.song = op.song
      BY <1>0, <2>2 DEF Doing
    <3>2. Is(op.id, "track", op.song)'
      BY <1>0, <2>2, <3>1 DEF Is, With, Object
    <3>3. \A r \in AllRows' : Meets(r)'
      BY <1>0, <2>1, <3>1, RowTypes, MeetsStays DEF AllRows, Listed, RowsMeet
    <3> QED BY <3>1, <3>2, <3>3 DEF RowsMeet, AllRows, At
  <2>3. CASE op' = [op EXCEPT !.at = "next"] \/ op' = [op EXCEPT !.at = "wedged"]
    <3>1. op'.at \in {"next", "wedged"} /\ op'.rows = op.rows
      BY <1>0, <2>3 DEF Doing
    <3> QED BY <1>0, <2>1, <3>1, SamePhaseRows DEF AllRows, Listed
  <2> QED BY <1>5, <2>2, <2>3 DEF Upload, Go, Send
<1>6. CASE Record
  <2>1. /\ At("record") /\ UNCHANGED <<objs, made>>
        /\ tc' = Appended(Row(op.id, op.song, "file")) /\ shown' = Shown(Row(op.id, op.song, "title"))
        /\ op' = [op EXCEPT !.at = "next", !.ok = TRUE]
    BY <1>6 DEF Record
  <2>2. op'.at = "next" /\ op'.rows = op.rows
    BY <1>0, <2>1 DEF Doing
  <2>3. \A r : Meets(r)' <=> Meets(r)
    BY <2>1 DEF Meets, Is
  <2>4. Listed' \subseteq Listed \cup {Row(op.id, op.song, "file")}
    <3>1. CASE tc = None
      BY <2>1, <3>1 DEF Listed, Appended
    <3>2. CASE tc # None
      <4>1. tc \in TrackList /\ tc' = [tc EXCEPT !.rows = tc.rows \cup {Row(op.id, op.song, "file")}]
        BY <2>1, <3>2 DEF Appended, ZuneTypeOK
      <4>2. tc'.rows = tc.rows \cup {Row(op.id, op.song, "file")}
        BY <4>1 DEF TrackList
      <4> QED BY <3>2, <4>2 DEF Listed
    <3> QED BY <3>1, <3>2
  <2>5. shown' \subseteq shown \cup {Row(op.id, op.song, "title")}
    BY <2>1 DEF Shown
  <2>6. Is(op.id, "track", op.song) /\ op.id \in 1..made
    BY <1>0, <2>1 DEF RowsMeet, Is
  <2>7. Meets(Row(op.id, op.song, "file")) /\ Meets(Row(op.id, op.song, "title"))
    BY <1>0, <2>6 DEF Meets, Row
  <2> QED BY <2>2, <2>3, <2>4, <2>5, <2>7 DEF RowsMeet, At
<1> QED BY <1>0, <1>1, <1>2, <1>3, <1>4, <1>5, <1>6, MildSteps, SamePhaseRows DEF ZuneNext, Listing, Removal, Syncing

LEMMA RowsMeetInit == ZuneInit => RowsMeet
BY DEF ZuneInit, RowsMeet, Listed, Off, NoOp, At

\* What a removal deletes is a copy of the song of its row, never another object: handles
\* are not given out twice, and a path leads to a file that fits the title, whatever of the
\* folders above it can be read.
THEOREM RowsHit == ZuneSpec => []RemovalHits
<1>1. ZuneTypeOK /\ RowsMeet => RemovalHits
  <2> SUFFICES ASSUME ZuneTypeOK, RowsMeet, At("delete"),
                      NEW h \in Targets(op.row) \cup ({Target(op.row)} \cap DOMAIN objs)
               PROVE  /\ objs[h].kind = "track"
                      /\ IF op.row.id > 0 THEN objs[h].of = op.row.song ELSE <<objs[h].of, op.row.song>> \in Fits
    BY DEF RemovalHits
  <2>1. op.row \in Entry /\ Meets(op.row)
    BY DEF ZuneTypeOK, ZuneHand, At, RowsMeet
  <2>2. CASE op.row.id > 0
    BY <2>1, <2>2 DEF Target, Targets, Meets, Is
  <2>3. CASE ~(op.row.id > 0)
    <3>1. Target(op.row) = Resolve(op.row.song) /\ Targets(op.row) = Leads(op.row.song) \cap DOMAIN objs
      BY <2>3 DEF Target, Targets
    <3>2. CASE h \in Leads(op.row.song)
      BY <2>3, <3>2, LeadsIs
    <3>3. CASE h = Resolve(op.row.song) /\ h \in DOMAIN objs
      BY <2>3, <3>3, ResolveIs
    <3> QED BY <3>1, <3>2, <3>3
  <2> QED BY <2>2, <2>3
<1>2. ZuneTypeOK /\ ZuneTypeOK' /\ RowsMeet /\ [ZuneNext]_zuneVars => RowsMeet'
  BY RowsMeetStep
<1> QED BY <1>1, <1>2, RowsMeetInit, ZuneTypes, PTL DEF ZuneSpec

-----------------------------------------------------------------------------
(* The device with one object more, or some less, and what is found on it. *)

LEMMA SameDevice ==
    ASSUME UNCHANGED objs
    PROVE  /\ \A t : Copies(t)' = Copies(t)
           /\ OnDevice' = OnDevice /\ Free' = Free
           /\ \A h, kind, x : Is(h, kind, x)' <=> Is(h, kind, x)
           /\ \A d, kind, x : Find(d, kind, x)' = Find(d, kind, x)
           /\ \A b : AlbumDir(b)' = AlbumDir(b)
           /\ \A t : Placed(t)' <=> Placed(t)
           /\ AllPlaced' <=> AllPlaced
<1>1. /\ \A t : Copies(t)' = Copies(t)
      /\ \A h, kind, x : Is(h, kind, x)' <=> Is(h, kind, x)
      /\ \A d : Children(d)' = Children(d)
  BY DEF Copies, Is, Children
<1>2. OnDevice' = OnDevice /\ Free' = Free
  BY <1>1 DEF OnDevice, Free
<1>3. \A d, kind, x : Find(d, kind, x)' = Find(d, kind, x)
  BY <1>1 DEF Find, Named, Candidates
<1>4. \A b : AlbumDir(b)' = AlbumDir(b)
  BY <1>3 DEF AlbumDir
<1>5. \A t : Placed(t)' <=> Placed(t)
  BY <1>1, <1>4 DEF Placed
<1> QED BY <1>1, <1>2, <1>3, <1>4, <1>5 DEF AllPlaced

\* One song, one copy: the free space tells the songs.
LEMMA FreeIs ==
    ASSUME Singles, twins = {} PROVE Free = Room[OneEach(OnDevice)]
<1>1. \A t \in Song : Cardinality(Copies(t)) = IF t \in OnDevice THEN 1 ELSE 0
  <2> SUFFICES ASSUME NEW t \in Song PROVE Cardinality(Copies(t)) = IF t \in OnDevice THEN 1 ELSE 0
    OBVIOUS
  <2>1. CASE Copies(t) = {}
    BY <2>1, FS_EmptySet DEF OnDevice
  <2>2. CASE Copies(t) # {}
    <3>1. PICK h : h \in Copies(t)
      BY <2>2
    <3>2. Copies(t) = {h}
      BY <3>1 DEF Singles
    <3> QED BY <2>2, <3>2, FS_Singleton DEF OnDevice
  <2> QED BY <2>1, <2>2
<1>2. [t \in Song |-> Cardinality(Copies(t))] = OneEach(OnDevice)
  BY <1>1 DEF OneEach
<1> QED BY <1>2 DEF Free

LEMMA Apart ==
    ASSUME NEW S \in SUBSET Song, NEW T \in SUBSET Song, S # T
    PROVE  Room[OneEach(S)] - Room[OneEach(T)] \notin -1..1
BY ZuneAssumption

\* A list dated by other songs than those on the device is not trusted.
LEMMA Distrust ==
    ASSUME Singles, twins = {}, tc = None \/ tc.rows = {} \/ \E S \in SUBSET Song : tc.free = Room[OneEach(S)] /\ S # OnDevice
    PROVE  ~Trusted(Free)
<1>1. CASE tc = None \/ tc.rows = {}
  BY <1>1 DEF Trusted, Loadable
<1>2. CASE \E S \in SUBSET Song : tc.free = Room[OneEach(S)] /\ S # OnDevice
  <2>1. PICK S \in SUBSET Song : tc.free = Room[OneEach(S)] /\ S # OnDevice
    BY <1>2
  <2>2. OnDevice \in SUBSET Song
    BY DEF OnDevice
  <2>3. Free - tc.free \notin -1..1
    BY <2>1, <2>2, FreeIs, Apart
  <2> QED BY <2>3 DEF Trusted
<1> QED BY <1>1, <1>2

LEMMA TrustedDated ==
    ASSUME ZuneTypeOK, tc # None, tc.rows # {}, tc.free = Free
    PROVE  Trusted(Free)
BY FreeType DEF Trusted, Loadable

LEMMA CopiesWith ==
    ASSUME ZuneTypeOK, made < MaxHandle, made' = made + 1, NEW o \in Thing, objs' = With(o)
    PROVE  /\ \A t : Copies(t)' = IF o.kind = "track" /\ o.of = t THEN Copies(t) \cup {made + 1} ELSE Copies(t)
           /\ \A h, kind, x : Is(h, kind, x) => Is(h, kind, x)'
           /\ \A h : h = made' => Is(h, o.kind, o.of)'
           /\ \A h, kind, x : Is(h, kind, x)' => Is(h, kind, x) \/ (h = made + 1 /\ kind = o.kind /\ x = o.of)
           /\ o.kind # "track" => OnDevice' = OnDevice /\ Free' = Free
           /\ o.kind = "track" => OnDevice' = OnDevice \cup ({o.of} \cap Song)
<1>1. /\ DOMAIN objs' = DOMAIN objs \cup {made + 1} /\ made + 1 \notin DOMAIN objs
      /\ objs'[made + 1] = o /\ \A h \in DOMAIN objs : objs'[h] = objs[h]
  BY WithType
<1>2. \A t : Copies(t)' = IF o.kind = "track" /\ o.of = t THEN Copies(t) \cup {made + 1} ELSE Copies(t)
  BY <1>1 DEF Copies, Is
<1>3. /\ \A h, kind, x : Is(h, kind, x) => Is(h, kind, x)'
      /\ \A h : h = made' => Is(h, o.kind, o.of)'
      /\ \A h, kind, x : Is(h, kind, x)' => Is(h, kind, x) \/ (h = made + 1 /\ kind = o.kind /\ x = o.of)
  <2>1. ASSUME NEW h, NEW kind, NEW x, Is(h, kind, x) PROVE Is(h, kind, x)'
    BY <1>1, <2>1 DEF Is
  <2>2. made + 1 \in DOMAIN objs' /\ objs'[made + 1].kind = o.kind /\ objs'[made + 1].of = o.of
    BY <1>1
  <2>3. ASSUME NEW h, NEW kind, NEW x, Is(h, kind, x)' PROVE Is(h, kind, x) \/ (h = made + 1 /\ kind = o.kind /\ x = o.of)
    BY <1>1, <2>2, <2>3 DEF Is
  <2>4. ASSUME NEW h, h = made' PROVE Is(h, o.kind, o.of)'
    BY <2>2, <2>4 DEF Is
  <2> QED BY <2>1, <2>3, <2>4
<1>4. o.kind # "track" => OnDevice' = OnDevice /\ Free' = Free
  BY <1>2 DEF OnDevice, Free
<1>5. o.kind = "track" => OnDevice' = OnDevice \cup ({o.of} \cap Song)
  BY <1>2 DEF OnDevice
<1> QED BY <1>2, <1>3, <1>4, <1>5

LEMMA CopiesDeleted ==
    ASSUME ZuneTypeOK, NEW H, objs' = Deleted(H), UNCHANGED made
    PROVE  /\ \A t : Copies(t)' = Copies(t) \ H
           /\ \A h, kind, x : Is(h, kind, x)' <=> Is(h, kind, x) /\ h \notin H
           /\ \A d : Children(d)' = Children(d) \ H
           /\ OnDevice' \subseteq OnDevice
<1>1. /\ DOMAIN objs' = DOMAIN objs \ H /\ \A h \in DOMAIN objs' : objs'[h] = objs[h]
  BY DeletedType
<1>2. /\ \A t : Copies(t)' = Copies(t) \ H
      /\ \A h, kind, x : Is(h, kind, x)' <=> Is(h, kind, x) /\ h \notin H
      /\ \A d : Children(d)' = Children(d) \ H
  BY <1>1 DEF Copies, Is, Children
<1>3. OnDevice' \subseteq OnDevice
  BY <1>2 DEF OnDevice
<1> QED BY <1>2, <1>3

LEMMA FoundFirst ==
    ASSUME PlainNames, NEW d, NEW kind, NEW x
    PROVE  /\ Find(d, kind, x) = First({h \in Children(d) : Is(h, kind, x)})
           /\ Find(d, kind, x)' = First({h \in Children(d) : Is(h, kind, x)}')
<1>1. Candidates(d, kind, x) = {h \in Children(d) : Is(h, kind, x)}
  BY DEF Candidates, PlainNames, Children, Is
<1>2. Candidates(d, kind, x)' = {h \in Children(d) : Is(h, kind, x)}'
  BY DEF Candidates, PlainNames, Children, Is
<1> QED BY <1>1, <1>2 DEF Find, Named, First

\* What is found first is found first after it.
LEMMA FindWith ==
    ASSUME PlainNames, ZuneTypeOK, ZuneTypeOK', made < MaxHandle, made' = made + 1, NEW o \in Thing, objs' = With(o)
    PROVE  /\ \A d, kind, x : Find(d, kind, x) # Nowhere => Find(d, kind, x)' = Find(d, kind, x)
           /\ \A d, kind, x : kind # o.kind \/ x # o.of => Find(d, kind, x)' = Find(d, kind, x)
           /\ Find(o.in, o.kind, o.of) = Nowhere => Find(o.in, o.kind, o.of)' = made + 1
<1> DEFINE H(d, kind, x) == {h \in Children(d) : Is(h, kind, x)}
<1>1. /\ DOMAIN objs' = DOMAIN objs \cup {made + 1} /\ made + 1 \notin DOMAIN objs
      /\ objs'[made + 1] = o /\ \A h \in DOMAIN objs : objs'[h] = objs[h]
      /\ DOMAIN objs \subseteq 1..made /\ made \in Nat
  <2>1. DOMAIN objs \subseteq 1..made /\ made \in Nat
    BY ZuneAssumption DEF ZuneTypeOK
  <2> QED BY <2>1, WithType
<1>2. \A d, kind, x : H(d, kind, x)' = IF d = o.in /\ kind = o.kind /\ x = o.of THEN H(d, kind, x) \cup {made + 1} ELSE H(d, kind, x)
  BY <1>1 DEF Children, Is
<1>3. \A d, kind, x : H(d, kind, x) \in SUBSET (1..made)
  BY <1>1 DEF Children
<1>4. \A d, kind, x : Find(d, kind, x) = First(H(d, kind, x)) /\ Find(d, kind, x)' = First(H(d, kind, x)')
  BY FoundFirst DEF First
<1> HIDE DEF H
<1>5. ASSUME NEW d, NEW kind, NEW x, Find(d, kind, x) # Nowhere PROVE Find(d, kind, x)' = Find(d, kind, x)
  <2> DEFINE K == H(d, kind, x)
             K1 == H(d, kind, x)'
  <2>0. K \in SUBSET Nat /\ K1 \in SUBSET Nat /\ K \subseteq 1..made /\ K1 \subseteq K \cup {made + 1} /\ K \subseteq K1
    BY <1>1, <1>2, <1>3
  <2>1. K # {} /\ First(K) \in K /\ \A n \in K : First(K) <= n
    BY <1>4, <1>5, <2>0, FirstOf
  <2>2. K1 # {} /\ First(K1) \in K1 /\ \A n \in K1 : First(K1) <= n
    BY <2>0, <2>1, FirstOf
  <2>3. First(K1) <= First(K) /\ First(K) <= made /\ First(K) \in Nat
    BY <1>1, <2>0, <2>1, <2>2
  <2>4. First(K1) \in K
    BY <1>1, <2>0, <2>2, <2>3
  <2>5. First(K) = First(K1)
    <3>1. First(K) <= First(K1) /\ First(K1) \in Nat
      BY <2>0, <2>1, <2>4
    <3> HIDE DEF K, K1
    <3> QED BY <2>3, <3>1
  <2> QED BY <1>4, <2>5
<1>6. ASSUME NEW d, NEW kind, NEW x, kind # o.kind \/ x # o.of PROVE Find(d, kind, x)' = Find(d, kind, x)
  BY <1>2, <1>4, <1>6
<1>7. ASSUME Find(o.in, o.kind, o.of) = Nowhere PROVE Find(o.in, o.kind, o.of)' = made + 1
  <2>1. H(o.in, o.kind, o.of) = {}
    <3>1. H(o.in, o.kind, o.of) \in SUBSET Nat
      BY <1>3
    <3> QED BY <1>4, <1>7, <3>1, FirstOf
  <2>2. H(o.in, o.kind, o.of)' = {made + 1}
    BY <1>2, <2>1
  <2>3. First({made + 1}) \in {made + 1}
    BY <1>1, FirstOf
  <2> QED BY <1>4, <2>2, <2>3
<1> QED BY <1>5, <1>6, <1>7

LEMMA FindDeleted ==
    ASSUME PlainNames, ZuneTypeOK, ZuneTypeOK', NEW H, objs' = Deleted(H), UNCHANGED made
    PROVE  \A d, kind, x : Find(d, kind, x) # Nowhere /\ Find(d, kind, x) \notin H => Find(d, kind, x)' = Find(d, kind, x)
<1> SUFFICES ASSUME NEW d, NEW kind, NEW x, Find(d, kind, x) # Nowhere, Find(d, kind, x) \notin H
             PROVE  Find(d, kind, x)' = Find(d, kind, x)
  OBVIOUS
<1> DEFINE K == {h \in Children(d) : Is(h, kind, x)}
<1>1. K' = K \ H
  BY CopiesDeleted
<1>2. K \in SUBSET Nat
  BY DEF Children, ZuneTypeOK
<1>3. Find(d, kind, x) = First(K) /\ Find(d, kind, x)' = First(K')
  BY FoundFirst
<1> HIDE DEF K
<1>4. K # {} /\ First(K) \in K /\ \A n \in K : First(K) <= n
  BY <1>2, <1>3, FirstOf
<1>5. First(K) \in K \ H
  BY <1>3, <1>4
<1>6. First(K \ H) \in K \ H /\ \A n \in K \ H : First(K \ H) <= n
  <2>1. K \ H \in SUBSET Nat /\ K \ H # {}
    BY <1>2, <1>5
  <2> QED BY <2>1, FirstOf
<1>7. First(K) <= First(K \ H) /\ First(K \ H) <= First(K) /\ First(K) \in Nat /\ First(K \ H) \in Nat
  BY <1>2, <1>4, <1>5, <1>6
<1>8. First(K) = First(K \ H)
  BY <1>7
<1> QED BY <1>1, <1>3, <1>8

-----------------------------------------------------------------------------
(* What each action does, field by field. *)

\* The worker keeps what it has in hand.
Holds == /\ op'.todo = op.todo /\ op'.song = op.song /\ op'.rows = op.rows /\ op'.row = op.row
         /\ op'.back = op.back /\ op'.ok = op.ok /\ op'.free = op.free /\ op'.gone = op.gone

History == <<twins, cut, marred, bare>>

LEMMA GoDoes ==
    ASSUME ZuneTypeOK, NEW m, op' = [op EXCEPT !.at = m]
    PROVE  op'.at = m /\ Holds /\ op'.id = op.id /\ op'.look = op.look
<1>1. op \in Doing
  BY DEF ZuneTypeOK
<1> QED BY <1>1 DEF Doing, Holds

LEMMA GoIdDoes ==
    ASSUME ZuneTypeOK, NEW m, NEW i, op' = [op EXCEPT !.at = m, !.id = i]
    PROVE  op'.at = m /\ Holds /\ op'.id = i /\ op'.look = op.look
<1>1. op \in Doing
  BY DEF ZuneTypeOK
<1> QED BY <1>1 DEF Doing, Holds

LEMMA ListedSame == ASSUME UNCHANGED tc PROVE Listed' = Listed
BY DEF Listed

LEMMA OpenDoes ==
    ASSUME Open
    PROVE  /\ op.at = "off" /\ op'.at = "collect" /\ op'.back = "warm" /\ op'.rows = {}
           /\ lib' = None /\ shown' = {} /\ UNCHANGED <<objs, made, tc, libfile, faults, foreign>> /\ UNCHANGED History
BY DEF Open, At, NoOp, History, zune, caches, annals

LEMMA ReloadDoes ==
    ASSUME Reload
    PROVE  /\ op.at = "idle" /\ op'.at = "collect" /\ op'.back = "idle" /\ op'.rows = {}
           /\ UNCHANGED <<objs, made, tc, libfile, lib, shown, faults, foreign>> /\ UNCHANGED History
BY DEF Reload, At, NoOp, History, zune, caches, annals

\* The list is believed, or read again.
Believes(free) ==
    /\ Trusted(free) /\ tc' = [tc EXCEPT !.header = TRUE, !.free = free] /\ shown' = tc.rows
    /\ op'.at = op.back /\ UNCHANGED <<libfile, lib>>
Rereads(free) ==
    /\ ~Trusted(free) /\ op'.at = "load" /\ op'.free = free /\ UNCHANGED shown
    /\ IF Loadable THEN tc' = None /\ libfile' = None /\ lib' = None ELSE UNCHANGED <<tc, libfile, lib>>

LEMMA CollectDoes ==
    ASSUME ZuneTypeOK, Collect
    PROVE  /\ op.at = "collect" /\ op.back \in {"idle", "warm"} /\ op'.back = op.back /\ op'.rows = op.rows
           /\ \E free \in {Free, 0} : Asked(free) /\ (Believes(free) \/ Rereads(free))
           /\ bare' = (bare \/ (~Loadable /\ (lib # None \/ libfile # None)))
           /\ UNCHANGED <<objs, made, foreign, twins, cut, marred>>
<1>1. op \in Doing /\ op.at = "collect" /\ op.back \in {"idle", "warm"}
  BY DEF Collect, ZuneTypeOK, ZuneHand, At
<1>2. \A m, f : [op EXCEPT !.at = m, !.free = f].at = m /\ [op EXCEPT !.at = m, !.free = f].free = f
                /\ [op EXCEPT !.at = m, !.free = f].back = op.back /\ [op EXCEPT !.at = m, !.free = f].rows = op.rows
  BY <1>1 DEF Doing
<1>3. \A m : [op EXCEPT !.at = m].at = m /\ [op EXCEPT !.at = m].back = op.back /\ [op EXCEPT !.at = m].rows = op.rows
  BY <1>1 DEF Doing
<1>4. PICK free \in {Free, 0} :
         /\ Asked(free)
         /\ \/ /\ Trusted(free)
               /\ tc' = [tc EXCEPT !.header = TRUE, !.free = free]
               /\ shown' = tc.rows /\ op' = [op EXCEPT !.at = op.back]
               /\ UNCHANGED <<libfile, lib>>
            \/ /\ ~Trusted(free)
               /\ IF Loadable THEN tc' = None /\ libfile' = None /\ lib' = None
                              ELSE UNCHANGED <<tc, libfile, lib>>
               /\ op' = [op EXCEPT !.at = "load", !.free = free]
               /\ UNCHANGED shown
  BY DEF Collect, Go
<1>5. op'.back = op.back /\ op'.rows = op.rows /\ (Believes(free) \/ Rereads(free))
  <2>1. CASE Trusted(free) /\ tc' = [tc EXCEPT !.header = TRUE, !.free = free] /\ shown' = tc.rows
             /\ op' = [op EXCEPT !.at = op.back] /\ UNCHANGED <<libfile, lib>>
    BY <1>3, <2>1 DEF Believes
  <2>2. CASE /\ ~Trusted(free)
             /\ IF Loadable THEN tc' = None /\ libfile' = None /\ lib' = None
                            ELSE UNCHANGED <<tc, libfile, lib>>
             /\ op' = [op EXCEPT !.at = "load", !.free = free]
             /\ UNCHANGED shown
    BY <1>2, <2>2 DEF Rereads
  <2> QED BY <1>4, <2>1, <2>2
<1> QED BY <1>1, <1>4, <1>5 DEF Collect, zune, limits

\* What a reading may find, and what it must find when nothing fails.
Findable(rows) == (\E S \in SUBSET OnDevice : rows = ByTitle(S)) \/ (\E H \in SUBSET Walked : rows = ByFile(H))
FullList(rows) == rows = ByFile(Walked) \/ (\E S \in SUBSET OnDevice : Listable \subseteq S /\ rows = ByTitle(S))

LEMMA LoadDoes ==
    ASSUME ZuneTypeOK, Load
    PROVE  /\ op.at = "load" /\ op'.at = op.back /\ op'.at \in {"idle", "warm"} /\ op'.rows = op.rows
           /\ \/ \E rows : /\ Findable(rows) /\ ((FullList(rows) /\ UNCHANGED faults) \/ Fails)
                           /\ tc' = [header |-> TRUE, free |-> op.free, rows |-> rows] /\ shown' = rows
                           /\ marred' = Missing(rows)
              \/ Fails /\ shown' \in {shown, {}} /\ UNCHANGED tc /\ marred' = marred \cup Missing(Listed)
           /\ UNCHANGED <<objs, made, libfile, lib, foreign, twins, cut, bare>>
<1>1. op.at = "load" /\ op' = [op EXCEPT !.at = op.back] /\ op.back \in {"idle", "warm"}
  BY DEF Load, ZuneTypeOK, ZuneHand, At, Go
<1>2. op'.at = op.back /\ op'.rows = op.rows
  BY <1>1, GoDoes DEF Holds
<1>3. \/ \E rows : /\ Findable(rows) /\ ((FullList(rows) /\ UNCHANGED faults) \/ Fails)
                   /\ tc' = [header |-> TRUE, free |-> op.free, rows |-> rows] /\ shown' = rows
                   /\ marred' = Missing(rows)
      \/ Fails /\ shown' \in {shown, {}} /\ UNCHANGED tc /\ marred' = marred \cup Missing(Listed)
  <2>1. CASE Fails /\ shown' \in {shown, {}} /\ UNCHANGED tc /\ marred' = marred \cup Missing(Listed)
    BY <2>1
  <2>2. CASE \E rows \in {ByTitle(S) : S \in SUBSET OnDevice} \cup {ByFile(H) : H \in SUBSET Walked} :
            /\ \/ /\ modern /\ UNCHANGED faults
                  /\ \E S \in SUBSET OnDevice : Listable \subseteq S /\ rows = ByTitle(S)
               \/ ~modern /\ rows = ByFile(Walked) /\ UNCHANGED faults
               \/ Fails /\ \E H \in SUBSET Walked : rows = ByFile(H)
            /\ tc' = [header |-> TRUE, free |-> op.free, rows |-> rows]
            /\ shown' = rows /\ marred' = Missing(rows)
    BY <2>2 DEF Findable, FullList
  <2> QED BY <2>1, <2>2 DEF Load
<1> QED BY <1>1, <1>2, <1>3 DEF Load, zune, limits

LEMMA WarmDoes ==
    ASSUME Warm
    PROVE  /\ op.at = "warm" /\ op'.at = "idle" /\ op'.rows = {} /\ (EnsureLibrary \/ NoLibrary)
           /\ UNCHANGED <<objs, made, tc, shown, foreign>> /\ UNCHANGED History
BY DEF Warm, At, NoOp, zune, limits, annals, History

LEMMA EnsureDoes ==
    ASSUME EnsureLibrary \/ NoLibrary
    PROVE  UNCHANGED faults \/ Fails
BY DEF EnsureLibrary, NoLibrary

LEMMA CloseDoes ==
    ASSUME Close
    PROVE  /\ op.at # "off" /\ op'.at = "off" /\ op'.rows = {} /\ lib' = None /\ shown' = {}
           /\ (op.at = "idle" /\ UNCHANGED faults) \/ (op.at # "idle" /\ faults' = faults + 1)
           /\ cut' = (IF op.at = "record" THEN cut \cup {op.song} ELSE cut)
           /\ UNCHANGED <<objs, made, tc, libfile, foreign, twins, marred, bare>>
<1>1. op.at # "off" /\ op'.at = "off" /\ op'.rows = {}
  BY DEF Close, At, Off, NoOp
<1>2. (op.at = "idle" /\ UNCHANGED faults) \/ (op.at # "idle" /\ faults' = faults + 1)
  BY DEF Close, At, Fails
<1> QED BY <1>1, <1>2 DEF Close, At, zune, caches, limits

LEMMA StartRemovalDoes ==
    ASSUME StartRemoval
    PROVE  /\ op.at = "idle" /\ op'.at = "rows" /\ op'.back = "rows" /\ op'.rows \subseteq shown /\ op'.ok = FALSE
           /\ UNCHANGED <<objs, made, tc, libfile, lib, shown, faults, foreign>> /\ UNCHANGED History
<1>1. PICK R \in SUBSET shown : op' = [NoOp EXCEPT !.at = "rows", !.rows = R, !.back = "rows"]
  BY DEF StartRemoval
<1>2. op'.at = "rows" /\ op'.back = "rows" /\ op'.rows = R /\ op'.ok = FALSE
  BY <1>1 DEF NoOp
<1> QED BY <1>2 DEF StartRemoval, At, zune, caches, annals, History

LEMMA NextRowDoes ==
    ASSUME ZuneTypeOK, NEW l \in {"rows", "copies"}, NextRow(l)
    PROVE  /\ op.at = l /\ op'.at = "delete" /\ op.back = l /\ op'.back = l
           /\ op'.row \in op.rows /\ op'.rows = op.rows \ {op'.row}
           /\ op'.todo = op.todo /\ op'.song = op.song /\ op'.ok = op.ok
           /\ UNCHANGED <<objs, made, tc, libfile, lib, shown, faults, foreign>> /\ UNCHANGED History
<1>1. op \in Doing /\ op.at = l /\ op.back = l
  BY DEF NextRow, At, ZuneTypeOK, ZuneHand
<1>2. PICK r \in op.rows : op' = [op EXCEPT !.at = "delete", !.row = r, !.rows = @ \ {r}]
  BY DEF NextRow
<1>3. /\ op'.at = "delete" /\ op'.row = r /\ op'.rows = op.rows \ {r} /\ op'.back = op.back
      /\ op'.todo = op.todo /\ op'.song = op.song /\ op'.ok = op.ok
  BY <1>1, <1>2 DEF Doing
<1> QED BY <1>1, <1>2, <1>3 DEF NextRow, zune, caches, limits, annals, History

\* A call that fails may have removed any of what the row's path may lead to.
FailsAt(h) ==
    /\ Fails /\ objs' = Deleted({h})
    /\ (op'.at = "forget" /\ UNCHANGED marred) \/ (op'.at = op.back /\ marred' = marred \cup {objs[h].of})

LEMMA DeleteDoes ==
    ASSUME ZuneTypeOK, Delete
    PROVE  /\ op.at = "delete" /\ Holds /\ op.back \in {"rows", "copies"}
           /\ \/ /\ Target(op.row) \in DOMAIN objs /\ objs' = Deleted({Target(op.row)}) /\ op'.at = "forget"
                 /\ UNCHANGED <<faults, marred>>
              \/ Target(op.row) \notin DOMAIN objs /\ op'.at = op.back /\ UNCHANGED <<objs, faults, marred>>
              \/ op'.at = op.back /\ Fails /\ UNCHANGED <<objs, marred>>
              \/ \E h \in Targets(op.row) : FailsAt(h)
           /\ UNCHANGED <<made, tc, libfile, lib, shown, foreign, twins, cut, bare>>
<1>1. op.at = "delete" /\ op.back \in {"rows", "copies"}
  BY DEF Delete, At, ZuneTypeOK, ZuneHand
<1>2. \/ /\ Target(op.row) \in DOMAIN objs /\ objs' = Deleted({Target(op.row)}) /\ op' = [op EXCEPT !.at = "forget"]
         /\ UNCHANGED <<faults, marred>>
      \/ Target(op.row) \notin DOMAIN objs /\ op' = [op EXCEPT !.at = op.back] /\ UNCHANGED <<objs, faults, marred>>
      \/ op' = [op EXCEPT !.at = op.back] /\ Fails /\ UNCHANGED <<objs, marred>>
      \/ \E h \in Targets(op.row) :
           /\ Fails /\ objs' = Deleted({h})
           /\ \/ op' = [op EXCEPT !.at = "forget"] /\ UNCHANGED marred
              \/ op' = [op EXCEPT !.at = op.back] /\ marred' = marred \cup {objs[h].of}
  BY DEF Delete, Go
<1>3. \E m \in {"forget", op.back} : op' = [op EXCEPT !.at = m]
  BY <1>2
<1>4. Holds
  BY <1>3, GoDoes
<1>5. UNCHANGED <<made, tc, libfile, lib, shown, foreign, twins, cut, bare>>
  BY DEF Delete, caches, limits
<1>6. CASE \E h \in Targets(op.row) :
             /\ Fails /\ objs' = Deleted({h})
             /\ \/ op' = [op EXCEPT !.at = "forget"] /\ UNCHANGED marred
                \/ op' = [op EXCEPT !.at = op.back] /\ marred' = marred \cup {objs[h].of}
  <2>1. PICK h \in Targets(op.row) :
             /\ Fails /\ objs' = Deleted({h})
             /\ \/ op' = [op EXCEPT !.at = "forget"] /\ UNCHANGED marred
                \/ op' = [op EXCEPT !.at = op.back] /\ marred' = marred \cup {objs[h].of}
    BY <1>6
  <2>2. FailsAt(h)
    BY <2>1, GoDoes DEF FailsAt
  <2> QED BY <1>1, <1>4, <1>5, <2>2
<1> QED BY <1>1, <1>2, <1>4, <1>5, <1>6, GoDoes

LEMMA ForgetDoes ==
    ASSUME ZuneTypeOK, Forget
    PROVE  /\ op.at = "forget" /\ op.back \in {"rows", "copies"} /\ op'.at = op.back /\ op'.back = op.back
           /\ op'.rows = op.rows /\ op'.todo = op.todo /\ op'.song = op.song
           /\ op'.ok = (op.ok \/ op.back = "rows")
           /\ Listed' = {r \in Listed : ~Gone(r, op.row)} /\ shown' = {r \in shown : ~SameName(r, op.row)}
           /\ tc # None => tc' # None /\ tc'.rows = Listed' /\ tc'.header = tc.header /\ tc'.free = tc.free
           /\ tc = None => tc' = None
           /\ IF op.row.id > 0 THEN UNCHANGED <<lib, libfile>> ELSE Invalidate("album", AlbumOf[op.row.song])
           /\ UNCHANGED <<objs, made, faults, foreign>> /\ UNCHANGED History
<1>1. op \in Doing /\ op.at = "forget" /\ op.back \in {"rows", "copies"}
  BY DEF Forget, At, ZuneTypeOK, ZuneHand
<1>2. op' = [op EXCEPT !.at = op.back, !.ok = (@ \/ op.back = "rows")]
  BY DEF Forget
<1>3. /\ op'.at = op.back /\ op'.back = op.back /\ op'.rows = op.rows /\ op'.todo = op.todo /\ op'.song = op.song
      /\ op'.ok = (op.ok \/ op.back = "rows")
  BY <1>1, <1>2 DEF Doing
<1>4. /\ Listed' = {r \in Listed : ~Gone(r, op.row)}
      /\ tc # None => tc' # None /\ tc'.rows = Listed' /\ tc'.header = tc.header /\ tc'.free = tc.free
      /\ tc = None => tc' = None
  <2>1. CASE tc = None
    BY <2>1 DEF Forget, Listed
  <2>2. CASE tc # None
    <3>1. tc \in TrackList /\ tc' = [tc EXCEPT !.rows = {r \in tc.rows : ~Gone(r, op.row)}]
      BY <2>2 DEF Forget, Kept, ZuneTypeOK
    <3>2. /\ tc'.rows = {r \in tc.rows : ~Gone(r, op.row)} /\ tc'.header = tc.header /\ tc'.free = tc.free
          /\ tc' \in TrackList
      BY <3>1 DEF TrackList
    <3>3. tc' # None
      BY <3>2, ZuneAssumption
    <3> QED BY <2>2, <3>2, <3>3 DEF Listed
  <2> QED BY <2>1, <2>2
<1> QED BY <1>1, <1>3, <1>4 DEF Forget, zune, limits, annals, History

LEMMA RowsDoneDoes ==
    ASSUME ZuneTypeOK, RowsDone
    PROVE  /\ op.at = "rows" /\ op'.at = (IF op.ok THEN "look" ELSE "refresh") /\ op'.rows = {} /\ op'.ok = op.ok
           /\ UNCHANGED <<objs, made, tc, libfile, lib, shown, faults, foreign>> /\ UNCHANGED History
<1>1. op \in Doing /\ op.at = "rows"
  BY DEF RowsDone, At, ZuneTypeOK
<1>2. op'.at = (IF op.ok THEN "look" ELSE "refresh") /\ op'.rows = {} /\ op'.ok = op.ok
  BY <1>1 DEF RowsDone, Doing
<1> QED BY <1>1, <1>2 DEF RowsDone, zune, caches, limits, annals, History

LEMMA LookDoes ==
    ASSUME ZuneTypeOK, NEW h \in op.look, LookAt(h)
    PROVE  /\ op.at = "look" /\ op.ok /\ op'.ok /\ op'.rows = op.rows
           /\ h \in DOMAIN objs /\ objs[h].kind \in {"artist", "album"}
           /\ \/ /\ objs' = Deleted({h}) /\ op'.at = "unlink" /\ op'.gone = objs[h] /\ UNCHANGED bare
                 /\ (Children(h) = {} /\ UNCHANGED faults) \/ Fails
              \/ op'.at = "look" /\ Fails /\ objs' = Deleted({h}) /\ bare'
              \/ op'.at = "look" /\ UNCHANGED <<objs, faults, bare>>
           /\ UNCHANGED <<made, tc, libfile, lib, shown, foreign, twins, cut, marred>>
<1>1. op \in Doing /\ op.at = "look" /\ op.ok /\ h \in DOMAIN objs /\ objs[h].kind \in {"artist", "album"}
  BY DEF LookAt, At, ZuneTypeOK, ZuneHand
<1>2. CASE /\ objs' = Deleted({h}) /\ UNCHANGED bare /\ ((Children(h) = {} /\ UNCHANGED faults) \/ Fails)
           /\ op' = [op EXCEPT !.at = "unlink", !.look = @ \ {h}, !.gone = objs[h]]
  <2>1. op'.at = "unlink" /\ op'.gone = objs[h] /\ op'.ok = op.ok /\ op'.rows = op.rows
    BY <1>1, <1>2 DEF Doing
  <2> QED BY <1>1, <1>2, <2>1 DEF LookAt, caches, limits
<1>3. CASE op' = [op EXCEPT !.look = @ \ {h}] /\ Fails /\ objs' = Deleted({h}) /\ bare' = TRUE
  <2>1. op'.at = "look" /\ op'.ok = op.ok /\ op'.rows = op.rows
    BY <1>1, <1>3 DEF Doing
  <2> QED BY <1>1, <1>3, <2>1 DEF LookAt, caches, limits
<1>4. CASE op' = [op EXCEPT !.look = @ \ {h}] /\ UNCHANGED <<objs, faults, bare>>
  <2>1. op'.at = "look" /\ op'.ok = op.ok /\ op'.rows = op.rows
    BY <1>1, <1>4 DEF Doing
  <2> QED BY <1>1, <1>4, <2>1 DEF LookAt, caches, limits
<1> QED BY <1>2, <1>3, <1>4 DEF LookAt

LEMMA OverlookDoes ==
    ASSUME ZuneTypeOK, Overlook
    PROVE  /\ op.at = "look" /\ op'.at = "look" /\ Holds /\ op.ok /\ Fails
           /\ UNCHANGED <<objs, made, tc, libfile, lib, shown, foreign>> /\ UNCHANGED History
<1>1. op \in Doing /\ op.at = "look" /\ op.ok
  BY DEF Overlook, At, ZuneTypeOK, ZuneHand
<1>2. PICK L \in SUBSET op.look : op' = [op EXCEPT !.look = L]
  BY DEF Overlook
<1>3. op'.at = "look" /\ Holds
  BY <1>1, <1>2 DEF Doing, Holds
<1> QED BY <1>1, <1>3 DEF Overlook, zune, caches, limits, annals, History

LEMMA UnlinkDoes ==
    ASSUME ZuneTypeOK, Unlink
    PROVE  /\ op.at = "unlink" /\ op'.at = "look" /\ Holds /\ op.ok /\ Invalidate(op.gone.kind, op.gone.of)
           /\ op.gone \in Thing /\ op.gone.kind \in {"artist", "album"}
           /\ UNCHANGED <<objs, made, tc, shown, faults, foreign>> /\ UNCHANGED History
BY GoDoes DEF Unlink, At, Go, ZuneTypeOK, ZuneHand, zune, limits, annals, History

LEMMA CleanedDoes ==
    ASSUME ZuneTypeOK, Cleaned
    PROVE  /\ op.at = "look" /\ op'.at = "refresh" /\ Holds
           /\ UNCHANGED <<objs, made, tc, libfile, lib, shown, faults, foreign>> /\ UNCHANGED History
BY GoDoes DEF Cleaned, At, Go, zune, caches, limits, annals, History

LEMMA RefreshDoes ==
    ASSUME ZuneTypeOK, Refresh
    PROVE  /\ op.at = "refresh" /\ op'.at = "idle" /\ op'.rows = {} /\ Listed' = Listed
           /\ tc = None <=> tc' = None
           /\ UNCHANGED tc \/ (Loadable /\ tc.header /\ tc'.header = tc.header /\ tc'.free = Free /\ tc'.rows = tc.rows)
           /\ (tc' = Noted(Free) /\ UNCHANGED faults) \/ (Fails /\ UNCHANGED tc)
           /\ UNCHANGED <<objs, made, libfile, lib, shown, foreign>> /\ UNCHANGED History
<1>1. op.at = "refresh" /\ op'.at = "idle" /\ op'.rows = {}
  BY DEF Refresh, At, NoOp
<1>2. UNCHANGED tc \/ (Loadable /\ tc.header /\ tc' = [tc EXCEPT !.free = Free])
  BY DEF Refresh, Noted
<1>3. CASE UNCHANGED tc
  BY <1>1, <1>3, ListedSame DEF Refresh, zune, limits, annals, History
<1>4. CASE Loadable /\ tc.header /\ tc' = [tc EXCEPT !.free = Free]
  <2>1. tc \in TrackList /\ tc # None
    BY <1>4 DEF Loadable, ZuneTypeOK
  <2>2. tc'.header = tc.header /\ tc'.free = Free /\ tc'.rows = tc.rows /\ tc' \in TrackList
    BY <1>4, <2>1, FreeType DEF TrackList
  <2>3. tc' # None
    BY <2>2, ZuneAssumption
  <2>4. Listed' = Listed
    BY <2>1, <2>2, <2>3 DEF Listed
  <2> QED BY <1>1, <1>4, <2>1, <2>2, <2>3, <2>4 DEF Refresh, zune, limits, annals, History
<1> QED BY <1>2, <1>3, <1>4

LEMMA StartSyncDoes ==
    ASSUME StartSync
    PROVE  /\ op.at = "idle" /\ op'.at = "next" /\ op'.back = "copies" /\ op'.rows = {} /\ op'.ok = FALSE
           /\ UNCHANGED <<objs, made, tc, libfile, lib, shown, faults, foreign>> /\ UNCHANGED History
<1>1. PICK T \in SUBSET Song : op' = [NoOp EXCEPT !.at = "next", !.todo = T, !.back = "copies"]
  BY DEF StartSync
<1>2. op'.at = "next" /\ op'.back = "copies" /\ op'.rows = {} /\ op'.ok = FALSE
  BY <1>1 DEF NoOp
<1> QED BY <1>2 DEF StartSync, At, zune, caches, annals, History

LEMMA NextSongDoes ==
    ASSUME ZuneTypeOK, NextSong
    PROVE  /\ op.at = "next" /\ op'.at = "copies" /\ op'.back = "copies" /\ op'.song \in op.todo /\ op'.song \in Song
           /\ op'.todo = op.todo \ {op'.song} /\ op'.rows = CopiesShown(op'.song) /\ op'.ok = op.ok
           /\ UNCHANGED <<objs, made, tc, libfile, lib, shown, faults, foreign>> /\ UNCHANGED History
<1>1. op \in Doing /\ op.at = "next" /\ op.back = "copies"
  BY DEF NextSong, At, ZuneTypeOK, ZuneHand
<1>2. PICK t \in op.todo : op' = [op EXCEPT !.at = "copies", !.todo = @ \ {t}, !.song = t,
                                           !.rows = CopiesShown(t)]
  BY DEF NextSong
<1>3. /\ op'.at = "copies" /\ op'.back = "copies" /\ op'.song = t /\ t \in Song
      /\ op'.todo = op.todo \ {t} /\ op'.rows = CopiesShown(t) /\ op'.ok = op.ok
  BY <1>1, <1>2 DEF Doing
<1> QED BY <1>1, <1>2, <1>3 DEF NextSong, zune, caches, limits, annals, History

\* Among plain names the copies of a song are the rows that name it.
LEMMA PlainCopies ==
    ASSUME PlainNames, ZuneTypeOK, RowsMeet, NEW t \in Song
    PROVE  CopiesShown(t) = {r \in shown : r.song = t}
<1>1. \A r \in shown : r \in Entry /\ Meets(r)
  BY DEF ZuneTypeOK, RowsMeet
<1>2. \A s \in Song : OwnName(s)
  BY DEF PlainNames
<1>3. ASSUME NEW r \in shown PROVE r.song \in Song /\ r.form \in {"title", "file"} /\ r.id \in Nat
  <2>1. r \in Entry /\ Meets(r)
    BY <1>1
  <2>2. r.song \in Song /\ r.id \in Nat /\ r.form \in {"title", "file", "zmdb"}
    BY <2>1 DEF Entry, Form
  <2>3. ZmdbForm(r.song) = "title"
    BY <1>2, <2>2 DEF OwnName, ZmdbForm
  <2> QED BY <2>1, <2>2, <2>3 DEF Meets
<1>4. ASSUME NEW r \in shown PROVE <<r.form, r.song, t>> \in Taken <=> r.song = t
  BY <1>2, <1>3 DEF OwnName
<1> QED BY <1>4 DEF CopiesShown

LEMMA ImportDoes ==
    ASSUME ZuneTypeOK, ImportTrack
    PROVE  /\ op.at = "copies" /\ op.rows = {} /\ Holds
           /\ (op'.at = "artist" /\ EnsureLibrary) \/ (op'.at = "next" /\ NoLibrary)
           /\ UNCHANGED <<objs, made, tc, shown, foreign>> /\ UNCHANGED History
BY GoDoes DEF ImportTrack, At, Go, zune, limits, annals, History

\* The worker finds a folder, makes it, gets stuck or gives the song up, with a folder
\* made that it does not know of or without.
Finds(kind, x, d, next) ==
    /\ \E h \in Candidates(d, kind, x) : op'.id = h /\ ((h = Find(d, kind, x) /\ UNCHANGED faults) \/ Fails)
    /\ op'.at = next /\ UNCHANGED <<objs, made>>
Puts(kind, x, d) == Live(d) /\ made < MaxHandle /\ made' = made + 1 /\ objs' = With(Object(kind, x, d))
Makes(kind, x, d, next) ==
    /\ Puts(kind, x, d) /\ op'.at = next /\ op'.id = made'
    /\ (Find(d, kind, x) = Nowhere /\ UNCHANGED faults) \/ Fails
Sticks(d) == ~Live(d) /\ op'.at = "wedged" /\ UNCHANGED <<objs, made, faults>>
GivesUp == op'.at = "next" /\ Fails /\ UNCHANGED <<objs, made>>
Wastes(kind, x, d) == op'.at = "next" /\ Fails /\ Puts(kind, x, d)

LEMMA FolderDoes ==
    ASSUME ZuneTypeOK, NEW kind, NEW x, NEW d, NEW next, Folder(kind, x, d, next)
    PROVE  Holds /\ (Finds(kind, x, d, next) \/ Makes(kind, x, d, next) \/ Sticks(d) \/ GivesUp \/ Wastes(kind, x, d))
<1>1. CASE ~Live(d) /\ Go("wedged") /\ Keep /\ UNCHANGED faults
  BY <1>1, GoDoes DEF Go, Sticks, Keep
<1>2. CASE Live(d) /\ Keep /\ \E h \in Candidates(d, kind, x) :
            op' = [op EXCEPT !.at = next, !.id = h] /\ ((h = Find(d, kind, x) /\ UNCHANGED faults) \/ Fails)
  <2>1. PICK h \in Candidates(d, kind, x) :
            op' = [op EXCEPT !.at = next, !.id = h] /\ ((h = Find(d, kind, x) /\ UNCHANGED faults) \/ Fails)
    BY <1>2
  <2>2. op'.at = next /\ op'.id = h /\ Holds
    BY <2>1, GoIdDoes
  <2> QED BY <1>2, <2>1, <2>2 DEF Finds, Keep
<1>3. CASE /\ Live(d) /\ Send(Object(kind, x, d)) /\ op' = [op EXCEPT !.at = next, !.id = made']
           /\ (Find(d, kind, x) = Nowhere /\ UNCHANGED faults) \/ Fails
  BY <1>3, GoIdDoes DEF Makes, Puts, Send
<1>4. CASE Live(d) /\ Fails /\ Go("next") /\ (Keep \/ Send(Object(kind, x, d)))
  BY <1>4, GoDoes DEF Go, GivesUp, Wastes, Puts, Keep, Send
<1> QED BY <1>1, <1>2, <1>3, <1>4 DEF Folder

LEMMA PlaceArtistDoes ==
    ASSUME ZuneTypeOK, PlaceArtist
    PROVE  LET a == ArtistOf[AlbumOf[op.song]] IN
           /\ op.at = "artist" /\ Holds
           /\ \/ lib.artists[a] # Nowhere /\ op'.at = "album" /\ UNCHANGED <<objs, made, faults>>
              \/ lib.artists[a] = Nowhere
                 /\ (Finds("artist", a, Root, "file artist") \/ Makes("artist", a, Root, "file artist") \/ GivesUp
                     \/ Wastes("artist", a, Root))
           /\ UNCHANGED <<tc, libfile, lib, shown, foreign>> /\ UNCHANGED History
<1> DEFINE a == ArtistOf[AlbumOf[op.song]]
<1>1. CASE lib.artists[a] # Nowhere
  BY <1>1, GoDoes DEF PlaceArtist, At, Go, Keep, caches, limits, annals, History
<1>2. CASE lib.artists[a] = Nowhere
  <2>1. Folder("artist", a, Root, "file artist")
    BY <1>2 DEF PlaceArtist
  <2>2. ~Sticks(Root)
    BY DEF Sticks, Live
  <2> QED BY <1>2, <2>1, <2>2, FolderDoes DEF PlaceArtist, At, caches, limits, annals, History
<1> QED BY <1>1, <1>2

LEMMA FileArtistDoes ==
    ASSUME ZuneTypeOK, FileArtist
    PROVE  /\ op.at = "file artist" /\ op'.at = "album" /\ Holds
           /\ lib' = [lib EXCEPT !.artists[ArtistOf[AlbumOf[op.song]]] = op.id] /\ libfile' = lib'
           /\ UNCHANGED <<objs, made, tc, shown, faults, foreign>> /\ UNCHANGED History
BY GoDoes DEF FileArtist, At, File, Go, zune, limits, annals, History

LEMMA PlaceAlbumDoes ==
    ASSUME ZuneTypeOK, PlaceAlbum
    PROVE  LET b == AlbumOf[op.song]
               d == lib.artists[ArtistOf[AlbumOf[op.song]]] IN
           /\ op.at = "album" /\ Holds
           /\ \/ lib.albums[b] # Nowhere /\ op'.at = "upload" /\ UNCHANGED <<objs, made, faults>>
              \/ lib.albums[b] = Nowhere
                 /\ (Finds("album", b, d, "object") \/ Makes("album", b, d, "object") \/ Sticks(d) \/ GivesUp
                     \/ Wastes("album", b, d))
           /\ UNCHANGED <<tc, libfile, lib, shown, foreign>> /\ UNCHANGED History
<1> DEFINE b == AlbumOf[op.song]
           d == lib.artists[ArtistOf[AlbumOf[op.song]]]
<1>1. CASE lib.albums[b] # Nowhere
  BY <1>1, GoDoes DEF PlaceAlbum, At, Go, Keep, caches, limits, annals, History
<1>2. CASE lib.albums[b] = Nowhere
  <2>1. Folder("album", b, d, "object")
    BY <1>2 DEF PlaceAlbum
  <2> QED BY <1>2, <2>1, FolderDoes DEF PlaceAlbum, At, caches, limits, annals, History
<1> QED BY <1>1, <1>2

LEMMA AlbumObjectDoes ==
    ASSUME ZuneTypeOK, AlbumObject
    PROVE  /\ op.at = "object" /\ op'.at = "file album" /\ Holds /\ op'.id = op.id
           /\ \/ Puts("alb", AlbumOf[op.song], Root) /\ (UNCHANGED faults \/ Fails)
              \/ Fails /\ UNCHANGED <<objs, made>>
           /\ UNCHANGED <<tc, libfile, lib, shown, foreign>> /\ UNCHANGED History
BY GoDoes DEF AlbumObject, At, Go, Keep, Send, Puts, Live, caches, limits, annals, History

LEMMA FileAlbumDoes ==
    ASSUME ZuneTypeOK, FileAlbum
    PROVE  /\ op.at = "file album" /\ op'.at = "upload" /\ Holds
           /\ lib' = [lib EXCEPT !.albums[AlbumOf[op.song]] = op.id] /\ libfile' = lib'
           /\ UNCHANGED <<objs, made, tc, shown, faults, foreign>> /\ UNCHANGED History
BY GoDoes DEF FileAlbum, At, File, Go, zune, limits, annals, History

\* A song is sent; the answer may be lost.
Sends(d) ==
    /\ Puts("track", op.song, d)
    /\ twins' = IF Copies(op.song) # {} THEN twins \cup {op.song} ELSE twins
    /\ \/ op'.at = "record" /\ op'.id = made' /\ UNCHANGED <<faults, cut>>
       \/ op'.at = "next" /\ Fails /\ cut' = cut \cup {op.song}

LEMMA UploadDoes ==
    ASSUME ZuneTypeOK, Upload
    PROVE  LET d == lib.albums[AlbumOf[op.song]] IN
           /\ op.at = "upload" /\ Holds
           /\ Sends(d) \/ ((Sticks(d) \/ GivesUp) /\ UNCHANGED <<twins, cut>>)
           /\ UNCHANGED <<tc, libfile, lib, shown, foreign, marred, bare>>
<1> DEFINE d == lib.albums[AlbumOf[op.song]]
<1>1. CASE ~Live(d) /\ op' = [op EXCEPT !.at = "wedged"] /\ Keep /\ UNCHANGED <<faults, twins, cut>>
  BY <1>1, GoDoes DEF Upload, At, Sticks, Keep, caches, limits
<1>2. CASE /\ Live(d) /\ Send(Object("track", op.song, d))
           /\ twins' = IF Copies(op.song) # {} THEN twins \cup {op.song} ELSE twins
           /\ \/ op' = [op EXCEPT !.at = "record", !.id = made'] /\ UNCHANGED <<faults, cut>>
              \/ op' = [op EXCEPT !.at = "next"] /\ Fails /\ cut' = cut \cup {op.song}
  <2>1. Puts("track", op.song, d)
    BY <1>2 DEF Puts, Send
  <2>2. CASE op' = [op EXCEPT !.at = "record", !.id = made'] /\ UNCHANGED <<faults, cut>>
    BY <1>2, <2>1, <2>2, GoIdDoes DEF Upload, At, Sends, caches, limits
  <2>3. CASE op' = [op EXCEPT !.at = "next"] /\ Fails /\ cut' = cut \cup {op.song}
    BY <1>2, <2>1, <2>3, GoDoes DEF Upload, At, Sends, caches, limits
  <2> QED BY <1>2, <2>2, <2>3
<1>3. CASE Fails /\ op' = [op EXCEPT !.at = "next"] /\ Keep /\ UNCHANGED <<twins, cut>>
  BY <1>3, GoDoes DEF Upload, At, GivesUp, Keep, caches, limits
<1> QED BY <1>1, <1>2, <1>3 DEF Upload, Go

LEMMA RecordDoes ==
    ASSUME ZuneTypeOK, Record
    PROVE  /\ op.at = "record" /\ op'.at = "next" /\ op'.ok = TRUE /\ op'.rows = op.rows /\ op'.todo = op.todo /\ op'.back = op.back
           /\ op'.song = op.song
           /\ Listed' = Listed \cup {Row(op.id, op.song, "file")} /\ shown' = Shown(Row(op.id, op.song, "title"))
           /\ tc' # None /\ tc'.rows = Listed'
           /\ tc # None => tc'.header = tc.header /\ tc'.free = tc.free
           /\ UNCHANGED <<objs, made, libfile, lib, faults, foreign>> /\ UNCHANGED History
<1>1. op \in Doing /\ op.at = "record"
  BY DEF Record, At, ZuneTypeOK
<1>2. op' = [op EXCEPT !.at = "next", !.ok = TRUE]
  BY DEF Record
<1>3. op'.at = "next" /\ op'.ok = TRUE /\ op'.rows = op.rows /\ op'.todo = op.todo /\ op'.back = op.back /\ op'.song = op.song
  BY <1>1, <1>2 DEF Doing
<1>4. /\ Listed' = Listed \cup {Row(op.id, op.song, "file")}
      /\ tc' # None /\ tc'.rows = Listed'
      /\ tc # None => tc'.header = tc.header /\ tc'.free = tc.free
  <2>0. Row(op.id, op.song, "file") \in Entry
    BY <1>1 DEF Row, Entry, Form, ZuneTypeOK, ZuneHand, Doing
  <2>1. CASE tc = None
    <3>1. tc' = [header |-> FALSE, free |-> 0, rows |-> {Row(op.id, op.song, "file")}]
      BY <2>1 DEF Record, Appended
    <3>2. tc' \in TrackList /\ tc'.rows = {Row(op.id, op.song, "file")}
      BY <2>0, <3>1 DEF TrackList
    <3>3. tc' # None
      BY <3>2, ZuneAssumption
    <3> QED BY <2>1, <3>2, <3>3 DEF Listed
  <2>2. CASE tc # None
    <3>1. tc \in TrackList /\ tc' = [tc EXCEPT !.rows = tc.rows \cup {Row(op.id, op.song, "file")}]
      BY <2>2 DEF Record, Appended, ZuneTypeOK
    <3>2. /\ tc'.rows = tc.rows \cup {Row(op.id, op.song, "file")} /\ tc'.header = tc.header /\ tc'.free = tc.free
          /\ tc' \in TrackList
      BY <2>0, <3>1 DEF TrackList
    <3>3. tc' # None
      BY <3>2, ZuneAssumption
    <3> QED BY <2>2, <3>2, <3>3 DEF Listed
  <2> QED BY <2>1, <2>2
<1> QED BY <1>1, <1>3, <1>4 DEF Record, zune, limits, annals, History

LEMMA SyncDoneDoes ==
    ASSUME ZuneTypeOK, SyncDone
    PROVE  /\ op.at = "next" /\ op'.at = (IF op.ok THEN "refresh" ELSE "idle")
           /\ op'.rows \subseteq op.rows
           /\ UNCHANGED <<objs, made, tc, libfile, lib, shown, faults, foreign>> /\ UNCHANGED History
<1>1. op.at = "next" /\ op' = (IF op.ok THEN [op EXCEPT !.at = "refresh"] ELSE NoOp)
  BY DEF SyncDone, At
<1>2. op'.at = (IF op.ok THEN "refresh" ELSE "idle") /\ op'.rows \subseteq op.rows
  <2>1. CASE op.ok
    BY <1>1, <2>1, GoDoes DEF Holds
  <2>2. CASE ~op.ok
    BY <1>1, <2>2 DEF NoOp
  <2> QED BY <2>1, <2>2
<1> QED BY <1>1, <1>2 DEF SyncDone, zune, caches, limits, annals, History

LEMMA DeletedDoes ==
    ASSUME DeletedElsewhere
    PROVE  /\ op.at = "off" /\ foreign' = foreign + 1
           /\ \E t \in Song : \E h \in Copies(t) : \E also \in {{}, Emptied(h)} : objs' = Deleted({h} \cup also)
           /\ UNCHANGED <<made, tc, libfile, lib, shown, op, faults>> /\ UNCHANGED History
BY DEF DeletedElsewhere, Elsewhere, At, caches, annals, History

LEMMA AddedDoes ==
    ASSUME AddedElsewhere
    PROVE  /\ op.at = "off" /\ foreign' = foreign + 1
           /\ \E t \in Song \ OnDevice :
                 /\ AlbumDir(AlbumOf[t]) # Nowhere /\ made < MaxHandle
                 /\ made' = made + 1 /\ objs' = With(Object("track", t, AlbumDir(AlbumOf[t])))
           /\ UNCHANGED <<tc, libfile, lib, shown, op, faults>> /\ UNCHANGED History
BY DEF AddedElsewhere, Elsewhere, At, caches, annals, History

-----------------------------------------------------------------------------
(* One copy of each song, but for those sent twice. *)

LEMMA ObjectType ==
    ASSUME NEW kind \in {"artist", "album", "alb", "track"}, NEW x \in Artist \cup Album \cup Song, NEW d \in Nat
    PROVE  Object(kind, x, d) \in Thing /\ Object(kind, x, d).kind = kind /\ Object(kind, x, d).of = x
           /\ Object(kind, x, d).in = d
BY DEF Object, Thing

LEMMA LiveType == ASSUME ZuneTypeOK, NEW d, Live(d) PROVE d \in Nat
<1>1. DOMAIN objs \subseteq 1..made /\ made \in Nat
  BY ZuneAssumption DEF ZuneTypeOK
<1> QED BY <1>1 DEF Live, Root

LEMMA AlbumDirIs ==
    ASSUME PlainNames, ZuneTypeOK, NEW b, AlbumDir(b) # Nowhere
    PROVE  /\ Find(Root, "artist", ArtistOf[b]) # Nowhere /\ Find(Find(Root, "artist", ArtistOf[b]), "album", b) # Nowhere
           /\ AlbumDir(b) = Find(Find(Root, "artist", ArtistOf[b]), "album", b)
           /\ Is(AlbumDir(b), "album", b) /\ AlbumDir(b) \in Nat /\ objs[AlbumDir(b)].in = Find(Root, "artist", ArtistOf[b])
           /\ Is(Find(Root, "artist", ArtistOf[b]), "artist", ArtistOf[b])
<1>1. /\ Find(Root, "artist", ArtistOf[b]) # Nowhere /\ Find(Find(Root, "artist", ArtistOf[b]), "album", b) # Nowhere
      /\ AlbumDir(b) = Find(Find(Root, "artist", ArtistOf[b]), "album", b)
  BY DEF AlbumDir
<1>2. made \in Nat
  BY ZuneAssumption DEF ZuneTypeOK
<1> QED BY <1>1, <1>2, FindIs

\* The song in hand, its album and its artist.
LEMMA HandType ==
    ASSUME ZuneTypeOK, op.at \in Copying \cup {"record"}
    PROVE  /\ op.song \in Song /\ lib \in Folders /\ op.song \notin op.todo
           /\ AlbumOf[op.song] \in Album /\ ArtistOf[AlbumOf[op.song]] \in Artist
           /\ op.id \in Nat /\ op.back = "copies"
BY ZuneAssumption DEF ZuneTypeOK, ZuneHand, Doing, At

\* What a step does to the device.
AddsFolder == \E o \in Thing : o.kind # "track" /\ made < MaxHandle /\ made' = made + 1 /\ objs' = With(o)
AddsSong(t) == \E d \in Nat : made < MaxHandle /\ made' = made + 1 /\ objs' = With(Object("track", t, d))

LEMMA PutsFolder ==
    ASSUME ZuneTypeOK, NEW kind \in {"artist", "album", "alb"}, NEW x \in Artist \cup Album, NEW d, Puts(kind, x, d)
    PROVE  AddsFolder
<1>1. d \in Nat
  BY LiveType DEF Puts
<1> QED BY <1>1, ObjectType DEF Puts, AddsFolder

LEMMA FolderSteps ==
    ASSUME ZuneTypeOK, PlaceArtist \/ PlaceAlbum \/ AlbumObject
    PROVE  AddsFolder \/ UNCHANGED <<objs, made>>
<1>1. op.at \in Copying
  BY PlaceArtistDoes, PlaceAlbumDoes, AlbumObjectDoes DEF Copying
<1>2. AlbumOf[op.song] \in Album /\ ArtistOf[AlbumOf[op.song]] \in Artist
  BY <1>1, HandType
<1>3. CASE PlaceArtist
  <2>1. UNCHANGED <<objs, made>> \/ Puts("artist", ArtistOf[AlbumOf[op.song]], Root)
    BY <1>3, PlaceArtistDoes DEF Finds, GivesUp, Makes, Wastes
  <2> QED BY <1>2, <2>1, PutsFolder
<1>4. CASE PlaceAlbum
  <2>1. UNCHANGED <<objs, made>> \/ Puts("album", AlbumOf[op.song], lib.artists[ArtistOf[AlbumOf[op.song]]])
    BY <1>4, PlaceAlbumDoes DEF Finds, Sticks, GivesUp, Makes, Wastes
  <2> QED BY <1>2, <2>1, PutsFolder
<1>5. CASE AlbumObject
  <2>1. UNCHANGED <<objs, made>> \/ Puts("alb", AlbumOf[op.song], Root)
    BY <1>5, AlbumObjectDoes
  <2> QED BY <1>2, <2>1, PutsFolder
<1> QED BY <1>3, <1>4, <1>5

\* The upload sent the song, whether or not it was told so.
SentSong == \E d : Sends(d)

LEMMA UploadAdds ==
    ASSUME ZuneTypeOK, Upload, SentSong
    PROVE  /\ op.song \in Song /\ AddsSong(op.song)
           /\ twins' = (IF Copies(op.song) # {} THEN twins \cup {op.song} ELSE twins)
           /\ \/ op'.at = "record" /\ op'.id = made' /\ UNCHANGED <<faults, cut>>
              \/ op'.at = "next" /\ Fails /\ cut' = cut \cup {op.song}
<1>1. op.song \in Song
  BY UploadDoes, HandType DEF Copying
<1>2. PICK d : Sends(d)
  BY DEF SentSong
<1>3. AddsSong(op.song)
  BY <1>2, LiveType DEF Sends, Puts, AddsSong
<1> QED BY <1>1, <1>2, <1>3 DEF Sends

LEMMA UploadNot ==
    ASSUME ZuneTypeOK, Upload, ~SentSong
    PROVE  op'.at \in {"next", "wedged"} /\ UNCHANGED <<objs, made, twins, cut>>
           /\ ((op'.at = "wedged" /\ UNCHANGED faults) \/ (op'.at = "next" /\ Fails))
BY UploadDoes DEF Sticks, GivesUp, SentSong

LEMMA AddedAdds ==
    ASSUME PlainNames, ZuneTypeOK, AddedElsewhere
    PROVE  \E t \in Song \ OnDevice : AddsSong(t) /\ AlbumDir(AlbumOf[t]) # Nowhere
                 /\ objs' = With(Object("track", t, AlbumDir(AlbumOf[t])))
<1>1. PICK t \in Song \ OnDevice :
         /\ AlbumDir(AlbumOf[t]) # Nowhere /\ made < MaxHandle
         /\ made' = made + 1 /\ objs' = With(Object("track", t, AlbumDir(AlbumOf[t])))
  BY AddedDoes
<1>2. AlbumDir(AlbumOf[t]) \in Nat
  BY <1>1, AlbumDirIs
<1> QED BY <1>1, <1>2 DEF AddsSong

LEMMA AddsFolderDoes ==
    ASSUME ZuneTypeOK, AddsFolder
    PROVE  /\ \A t : Copies(t)' = Copies(t)
           /\ OnDevice' = OnDevice /\ Free' = Free
           /\ \A h, kind, x : Is(h, kind, x) => Is(h, kind, x)'
BY CopiesWith DEF AddsFolder

LEMMA AddsSongDoes ==
    ASSUME ZuneTypeOK, NEW s \in Song, AddsSong(s)
    PROVE  /\ \A t : Copies(t)' = IF s = t THEN Copies(t) \cup {made + 1} ELSE Copies(t)
           /\ OnDevice' = OnDevice \cup {s}
           /\ \A h, kind, x : Is(h, kind, x) => Is(h, kind, x)'
           /\ made + 1 \in Nat \ {0}
<1>1. PICK d \in Nat : made < MaxHandle /\ made' = made + 1 /\ objs' = With(Object("track", s, d))
  BY DEF AddsSong
<1>2. Object("track", s, d) \in Thing /\ Object("track", s, d).kind = "track" /\ Object("track", s, d).of = s
  BY ObjectType
<1>3. made + 1 \in Nat \ {0}
  BY ZuneAssumption DEF ZuneTypeOK
<1> QED BY <1>1, <1>2, <1>3, CopiesWith

LEMMA LookKeeps ==
    ASSUME ZuneTypeOK, NEW h \in op.look, LookAt(h)
    PROVE  \A t : Copies(t)' = Copies(t)
<1>1. CASE UNCHANGED objs
  BY <1>1, SameDevice
<1>2. CASE objs' = Deleted({h})
  <2>1. UNCHANGED made /\ objs[h].kind \in {"artist", "album"}
    BY LookDoes
  <2>2. \A t : h \notin Copies(t)
    BY <2>1 DEF Copies, Is
  <2> QED BY <1>2, <2>1, <2>2, CopiesDeleted
<1> QED BY <1>1, <1>2, LookDoes

\* Of most steps the device has no more and no fewer songs.
LEMMA SameSongs ==
    ASSUME ZuneTypeOK,
           \/ Open \/ Reload \/ Collect \/ Load \/ Warm \/ Close
           \/ StartRemoval \/ NextRow("rows") \/ (Delete /\ UNCHANGED objs) \/ Forget \/ RowsDone
           \/ (\E h \in op.look : LookAt(h)) \/ Overlook \/ Unlink \/ Cleaned \/ Refresh
           \/ StartSync \/ NextSong \/ NextRow("copies") \/ ImportTrack \/ PlaceArtist \/ FileArtist \/ PlaceAlbum
           \/ AlbumObject \/ FileAlbum \/ (Upload /\ ~SentSong) \/ Record \/ SyncDone
    PROVE  UNCHANGED twins /\ \A t : Copies(t)' = Copies(t)
<1>1. CASE UNCHANGED objs /\ UNCHANGED twins
  BY <1>1, SameDevice
<1>2. CASE \/ Open \/ Reload \/ Collect \/ Load \/ Warm \/ Close \/ StartRemoval \/ NextRow("rows") \/ Forget \/ RowsDone
           \/ Overlook \/ Unlink \/ Cleaned \/ Refresh
  BY <1>1, <1>2, OverlookDoes, OpenDoes, ReloadDoes, CollectDoes, LoadDoes, WarmDoes, CloseDoes, StartRemovalDoes, NextRowDoes,
     ForgetDoes, RowsDoneDoes, UnlinkDoes, CleanedDoes, RefreshDoes DEF History
<1>3. CASE Delete /\ UNCHANGED objs
  BY <1>1, <1>3, DeleteDoes DEF History
<1>4. CASE \E h \in op.look : LookAt(h)
  BY <1>4, LookKeeps, LookDoes DEF History
<1>5. CASE StartSync \/ NextSong \/ NextRow("copies") \/ ImportTrack \/ FileArtist \/ FileAlbum \/ Record \/ SyncDone
  BY <1>1, <1>5, StartSyncDoes, NextSongDoes, NextRowDoes, ImportDoes, FileArtistDoes, FileAlbumDoes, RecordDoes, SyncDoneDoes
     DEF History
<1>6. CASE PlaceArtist \/ PlaceAlbum \/ AlbumObject
  <2>1. UNCHANGED twins
    BY <1>6, PlaceArtistDoes, PlaceAlbumDoes, AlbumObjectDoes DEF History
  <2> QED BY <1>1, <1>6, <2>1, FolderSteps, AddsFolderDoes
<1>7. CASE Upload /\ ~SentSong
  BY <1>1, <1>7, UploadNot
<1> QED BY <1>2, <1>3, <1>4, <1>5, <1>6, <1>7

LEMMA SinglesStep ==
    ASSUME PlainNames, ZuneTypeOK, Singles, ZuneNext \/ UNCHANGED zuneVars PROVE Singles'
<1>1. CASE UNCHANGED twins /\ \A t : Copies(t)' = Copies(t)
  BY <1>1 DEF Singles
<1>2. ASSUME NEW H, objs' = Deleted(H), UNCHANGED <<made, twins>> PROVE Singles'
  BY <1>2, CopiesDeleted DEF Singles
<1>3. CASE Delete /\ ~UNCHANGED objs
  BY <1>2, <1>3, DeleteDoes DEF FailsAt
<1>4. CASE Upload /\ SentSong
  BY <1>4, UploadAdds, AddsSongDoes DEF Singles
<1>5. CASE DeletedElsewhere
  BY <1>2, <1>5, DeletedDoes DEF History
<1>6. CASE AddedElsewhere
  <2>1. PICK t \in Song \ OnDevice : AddsSong(t)
    BY <1>6, AddedAdds
  <2>2. Copies(t) = {} /\ UNCHANGED twins
    BY <1>6, <2>1, AddedDoes DEF OnDevice, History
  <2> QED BY <2>1, <2>2, AddsSongDoes DEF Singles
<1>7. CASE UNCHANGED zuneVars
  BY <1>1, <1>7, SameDevice DEF zuneVars
<1> QED BY <1>1, <1>3, <1>4, <1>5, <1>6, <1>7, SameSongs DEF ZuneNext, Listing, Removal, Syncing

-----------------------------------------------------------------------------
(* The library that is loaded is the one on the disk, and knows the folders  *)
(* that a song is about to go into.                                          *)

\* What will be there.
Will(h, kind, x) == h \in DOMAIN objs' /\ objs'[h].kind = kind /\ objs'[h].of = x

LEMMA MakesWill ==
    ASSUME ZuneTypeOK, NEW kind \in {"artist", "album", "alb"}, NEW x \in Artist \cup Album, NEW d, NEW next, Makes(kind, x, d, next)
    PROVE  op'.at = next /\ Will(op'.id, kind, x)
<1>1. d \in Nat
  BY LiveType DEF Makes, Puts
<1>2. Object(kind, x, d) \in Thing /\ Object(kind, x, d).kind = kind /\ Object(kind, x, d).of = x
  BY <1>1, ObjectType
<1>3. made < MaxHandle /\ made' = made + 1 /\ objs' = With(Object(kind, x, d)) /\ op'.id = made + 1 /\ op'.at = next
  BY DEF Makes, Puts
<1>4. DOMAIN objs' = DOMAIN objs \cup {made + 1} /\ objs'[made + 1] = Object(kind, x, d)
  BY <1>2, <1>3, WithType
<1> QED BY <1>2, <1>3, <1>4 DEF Will

LEMMA FindsWill ==
    ASSUME PlainNames, ZuneTypeOK, NEW kind, NEW x, NEW d, NEW next, Finds(kind, x, d, next)
    PROVE  op'.at = next /\ Will(op'.id, kind, x)
<1>1. op'.id \in Candidates(d, kind, x) /\ UNCHANGED objs /\ op'.at = next
  BY DEF Finds
<1>2. Is(op'.id, kind, x)
  <2>1. \A h \in Candidates(d, kind, x) : Is(h, kind, x)
    BY PlainCandidates
  <2> QED BY <1>1, <2>1
<1> QED BY <1>1, <1>2 DEF Will, Is

LEMMA LibShapeElsewhere ==
    ASSUME lib' = None \/ lib' = libfile', op'.at = "off" => lib' = None,
           op'.at \notin Copying \cup {"record"} \/ op'.at = "artist"
    PROVE  LibShape'
BY DEF LibShape, At, Copying

LEMMA LibShapeStep ==
    ASSUME PlainNames, ZuneTypeOK, ZuneTypeOK', LibShape, ZuneNext \/ UNCHANGED zuneVars PROVE LibShape'
<1> DEFINE b == AlbumOf[op.song]
           a == ArtistOf[AlbumOf[op.song]]
<1>0. (lib = None \/ lib = libfile) /\ (op.at = "off" => lib = None)
  BY DEF LibShape, At
<1>1. CASE UNCHANGED zuneVars
  BY <1>1, SameDevice DEF LibShape, zuneVars, At
<1>2. CASE Open \/ Reload \/ Close
  BY <1>0, <1>2, OpenDoes, ReloadDoes, CloseDoes, LibShapeElsewhere DEF Copying
<1>3. CASE Collect
  <2>1. op'.at \in {"idle", "warm", "load"}
    BY <1>3, CollectDoes DEF Believes, Rereads
  <2>2. lib' = None \/ lib' = libfile'
    BY <1>0, <1>3, CollectDoes DEF Believes, Rereads
  <2> QED BY <2>1, <2>2, LibShapeElsewhere DEF Copying
<1>4. CASE Load
  BY <1>0, <1>4, LoadDoes, LibShapeElsewhere DEF Copying
<1>5. CASE Warm \/ ImportTrack
  <2>1. (EnsureLibrary \/ NoLibrary) /\ op'.at \in {"idle", "artist", "next"}
    BY <1>5, WarmDoes, ImportDoes
  <2>2. lib' = None \/ lib' = libfile'
    BY <1>0, <2>1 DEF EnsureLibrary, NoLibrary, Library
  <2> QED BY <2>1, <2>2, LibShapeElsewhere DEF Copying
<1>6. CASE StartRemoval \/ NextRow("rows") \/ NextRow("copies") \/ RowsDone \/ Cleaned \/ Refresh \/ StartSync \/ NextSong \/ SyncDone
  <2>1. UNCHANGED <<lib, libfile>> /\ op'.at \in {"rows", "delete", "look", "refresh", "idle", "next", "copies"}
    BY <1>6, StartRemovalDoes, NextRowDoes, RowsDoneDoes, CleanedDoes, RefreshDoes, StartSyncDoes, NextSongDoes, SyncDoneDoes
  <2> QED BY <1>0, <2>1, LibShapeElsewhere DEF Copying
<1>7. CASE Delete \/ (\E h \in op.look : LookAt(h)) \/ Overlook
  <2>1. UNCHANGED <<lib, libfile>> /\ op'.at \in {"rows", "copies", "forget", "unlink", "look"}
    BY <1>7, DeleteDoes, LookDoes, OverlookDoes DEF FailsAt
  <2> QED BY <1>0, <2>1, LibShapeElsewhere DEF Copying
<1>8. CASE Forget \/ Unlink
  <2>1. op'.at \in {"rows", "copies", "look"} /\ (UNCHANGED <<lib, libfile>> \/ \E kind, x : Invalidate(kind, x))
    BY <1>8, ForgetDoes, UnlinkDoes
  <2>2. lib' = None \/ lib' = libfile'
    BY <1>0, <2>1 DEF Invalidate
  <2> QED BY <2>1, <2>2, LibShapeElsewhere DEF Copying
<1>9. ASSUME op'.at \in {"next", "wedged"}, UNCHANGED <<lib, libfile>> PROVE LibShape'
  BY <1>0, <1>9, LibShapeElsewhere DEF Copying
<1>10. CASE PlaceArtist
  <2>1. op'.song = op.song /\ UNCHANGED <<lib, libfile>> /\ a \in Artist /\ lib \in Folders
    BY <1>10, PlaceArtistDoes, HandType DEF Holds, Copying
  <2>2. CASE lib.artists[a] # Nowhere /\ op'.at = "album"
    BY <1>0, <2>1, <2>2 DEF LibShape, At
  <2>3. CASE Finds("artist", a, Root, "file artist") \/ Makes("artist", a, Root, "file artist")
    <3>1. op'.at = "file artist" /\ Will(op'.id, "artist", a)
      BY <2>1, <2>3, FindsWill, MakesWill
    <3>2. op'.song = op.song /\ (lib' = None \/ lib' = libfile')
      BY <1>0, <2>1
    <3>3. Is(op.id, "artist", ArtistOf[AlbumOf[op.song]])'
      BY <3>1, <3>2 DEF Will, Is
    <3> QED BY <3>1, <3>2, <3>3 DEF LibShape, At
  <2> QED BY <1>9, <1>10, <2>1, <2>2, <2>3, PlaceArtistDoes DEF GivesUp, Wastes
<1>11. CASE FileArtist
  <2>1. op'.song = op.song /\ op'.at = "album" /\ a \in Artist /\ lib \in Folders /\ op.id \in Nat
        /\ lib' = [lib EXCEPT !.artists[a] = op.id] /\ libfile' = lib'
    BY <1>11, FileArtistDoes, HandType DEF Holds, Copying
  <2>2. lib'.artists[a] = op.id
    BY <2>1 DEF Folders
  <2>3. lib'.artists[ArtistOf[AlbumOf[op'.song]]] # Nowhere
    BY <2>1, <2>2 DEF Nowhere
  <2> QED BY <2>1, <2>3 DEF LibShape, At
<1>12. CASE PlaceAlbum
  <2> DEFINE d == lib.artists[a]
  <2>1. op'.song = op.song /\ UNCHANGED <<lib, libfile>> /\ b \in Album /\ lib \in Folders
    BY <1>12, PlaceAlbumDoes, HandType DEF Holds, Copying
  <2>2. CASE lib.albums[b] # Nowhere /\ op'.at = "upload"
    BY <1>0, <2>1, <2>2 DEF LibShape, At
  <2>3. CASE Finds("album", b, d, "object") \/ Makes("album", b, d, "object")
    <3>1. op'.at = "object" /\ Will(op'.id, "album", b)
      BY <2>1, <2>3, FindsWill, MakesWill
    <3>2. op'.song = op.song /\ (lib' = None \/ lib' = libfile')
      BY <1>0, <2>1
    <3>3. Is(op.id, "album", AlbumOf[op.song])'
      BY <3>1, <3>2 DEF Will, Is
    <3> QED BY <3>1, <3>2, <3>3 DEF LibShape, At
  <2> QED BY <1>9, <1>12, <2>1, <2>2, <2>3, PlaceAlbumDoes DEF GivesUp, Sticks, Wastes
<1>13. CASE AlbumObject
  <2>1. op'.song = op.song /\ op'.at = "file album" /\ op'.id = op.id /\ UNCHANGED <<lib, libfile>> /\ Is(op.id, "album", b)
    BY <1>13, AlbumObjectDoes DEF Holds, LibShape
  <2>2. Is(op.id, "album", AlbumOf[op.song])'
    <3>1. CASE UNCHANGED <<objs, made>>
      BY <2>1, <3>1 DEF Is
    <3>2. CASE AddsFolder
      <4>1. \A h, kind, x : Is(h, kind, x) => Will(h, kind, x)
        BY <3>2, AddsFolderDoes DEF Is, Will
      <4>2. Will(op'.id, "album", AlbumOf[op'.song])
        BY <2>1, <4>1
      <4> QED BY <2>1, <4>2 DEF Will, Is
    <3> QED BY <1>13, <3>1, <3>2, FolderSteps
  <2> QED BY <1>0, <2>1, <2>2 DEF LibShape, At
<1>14. CASE FileAlbum
  <2>1. op'.song = op.song /\ op'.at = "upload" /\ b \in Album /\ lib \in Folders /\ op.id \in Nat
        /\ lib' = [lib EXCEPT !.albums[b] = op.id] /\ libfile' = lib'
    BY <1>14, FileAlbumDoes, HandType DEF Holds, Copying
  <2>2. lib'.albums[b] = op.id
    BY <2>1 DEF Folders
  <2>3. lib'.albums[AlbumOf[op'.song]] # Nowhere
    BY <2>1, <2>2 DEF Nowhere
  <2> QED BY <2>1, <2>3 DEF LibShape, At
<1>15. CASE Upload
  <2>1. op'.song = op.song /\ UNCHANGED <<lib, libfile>> /\ lib.albums[b] # Nowhere /\ op'.at \in {"record", "next", "wedged"}
    BY <1>15, UploadDoes DEF Holds, LibShape, Sticks, GivesUp, Sends
  <2> QED BY <1>0, <2>1 DEF LibShape, At
<1>16. CASE Record
  BY <1>0, <1>16, RecordDoes, LibShapeElsewhere DEF Copying
<1>17. CASE DeletedElsewhere \/ AddedElsewhere
  BY <1>0, <1>17, DeletedDoes, AddedDoes, LibShapeElsewhere DEF Copying
<1> QED BY <1>1, <1>2, <1>3, <1>4, <1>5, <1>6, <1>7, <1>8, <1>10, <1>11, <1>12, <1>13, <1>14, <1>15, <1>16, <1>17
        DEF ZuneNext, Listing, Removal, Syncing

-----------------------------------------------------------------------------
(* The lists and the device. *)

\* One mishap at a time.
LEMMA MishapsGrow ==
    ASSUME ZuneTypeOK, ZuneNext
    PROVE  /\ \/ UNCHANGED <<faults, foreign>>
              \/ faults' = faults + 1 /\ UNCHANGED foreign
              \/ foreign' = foreign + 1 /\ UNCHANGED faults
           /\ faults \in Nat /\ foreign \in Nat
<1>1. CASE Listing
  BY <1>1, OpenDoes, ReloadDoes, CollectDoes, LoadDoes, WarmDoes, EnsureDoes, CloseDoes DEF Listing, Asked, Fails, ZuneTypeOK
<1>2. CASE Removal
  BY <1>2, StartRemovalDoes, NextRowDoes, DeleteDoes, ForgetDoes, RowsDoneDoes, LookDoes,
     OverlookDoes, UnlinkDoes, CleanedDoes, RefreshDoes DEF Removal, FailsAt, Fails, ZuneTypeOK
<1>3. CASE PlaceArtist \/ PlaceAlbum \/ AlbumObject \/ Upload
  BY <1>3, PlaceArtistDoes, PlaceAlbumDoes, AlbumObjectDoes, UploadDoes 
     DEF Finds, Makes, Sticks, GivesUp, Wastes, Sends, Fails, ZuneTypeOK
<1>4. CASE StartSync \/ NextSong \/ NextRow("copies") \/ ImportTrack \/ FileArtist \/ FileAlbum \/ Record \/ SyncDone
  BY <1>4, StartSyncDoes, NextSongDoes, NextRowDoes, ImportDoes, EnsureDoes, FileArtistDoes, FileAlbumDoes, RecordDoes, SyncDoneDoes
     DEF Fails, ZuneTypeOK
<1>5. CASE DeletedElsewhere \/ AddedElsewhere
  BY <1>5, DeletedDoes, AddedDoes DEF ZuneTypeOK
<1> QED BY <1>1, <1>2, <1>3, <1>4, <1>5 DEF ZuneNext, Syncing

LEMMA AwareIsGood ==
    ASSUME Aware, op.at \notin {"off", "collect", "load"} PROVE Good
BY DEF Aware, Fresh, At

LEMMA CalmIsGood == ASSUME Aware, faults = 0, foreign = 0 PROVE Good \/ Fresh
BY DEF Aware, Mishaps

\* Nothing is settled by halves but at two steps.
Plain == op.at \notin {"forget", "record"}

LEMMA PlainGood ==
    ASSUME Plain
    PROVE  Good <=> \A t \in Song \ (twins \cup marred) :
                      Found(Listed, t) /\ Found(shown, t) /\ (t \in OnDevice \ cut => Has(Listed, t))
BY DEF Plain, Good, Settled, At

LEMMA FreshFinds == ASSUME Fresh PROVE Listed = {} /\ shown = {} /\ \A t : Found(Listed, t) /\ Found(shown, t)
BY DEF Fresh, Listed, Found

LEMMA PairedSame ==
    ASSUME Listed' = Listed, shown' \in {shown, {}, Listed}, NEW t, Paired(t)
    PROVE  Paired(t)'
BY DEF Paired

LEMMA InHandFree == ASSUME op'.at \notin {"rows", "copies", "delete", "forget"} PROVE InHand'
BY DEF InHand

LEMMA FoundSame ==
    ASSUME \A t : Copies(t)' = Copies(t)
    PROVE  /\ OnDevice' = OnDevice
           /\ \A R, t : Found(R, t)' <=> Found(R, t)
BY DEF OnDevice, Found

\* Steps that change neither the songs nor the lists.
LEMMA TruthCalm ==
    ASSUME Aware, \A t : Copies(t)' = Copies(t), UNCHANGED <<shown, twins, cut, marred>>, Listed' = Listed,
           op.at \notin {"off", "collect", "load", "forget", "record"}, op'.at \notin {"forget", "record"}
    PROVE  Good'
<1>1. Plain /\ Plain'
  BY DEF Plain
<1>2. Good
  BY AwareIsGood
<1>3. \A t \in Song \ (twins \cup marred) : Found(Listed, t) /\ Found(shown, t) /\ (t \in OnDevice \ cut => Has(Listed, t))
  BY <1>1, <1>2, PlainGood
<1>4. OnDevice' = OnDevice /\ \A R, t : Found(R, t)' <=> Found(R, t)
  BY FoundSame
<1>5. \A t \in Song \ (twins \cup marred)' : Found(Listed, t)' /\ Found(shown, t)' /\ (t \in OnDevice' \ cut' => Has(Listed, t)')
  BY <1>3, <1>4 DEF Found, Has, Copies, OnDevice
<1> QED BY <1>1, <1>5 DEF Plain, Good, Settled, At

\* The rows of a list that was read: each is that of a song of the device.
LEMMA FindableIs ==
    ASSUME ZuneTypeOK, NEW rows, Findable(rows)
    PROVE  /\ rows \subseteq Entry
           /\ \A t : Found(rows, t)
           /\ \A t : (\A g, h \in Copies(t) : g = h) => \A r, q \in rows : r.song = t /\ q.song = t => r = q
<1>1. CASE \E S \in SUBSET OnDevice : rows = ByTitle(S)
  <2>1. PICK S \in SUBSET OnDevice : rows = ByTitle(S)
    BY <1>1
  <2>2. \A r \in rows : r = Row(0, r.song, ZmdbForm(r.song)) /\ r.song \in S /\ r.id = 0
    BY <2>1 DEF ByTitle, Row
  <2>3. rows \subseteq Entry
    BY <2>1 DEF ByTitle, Row, Entry, Form, ZmdbForm, OnDevice
  <2> QED BY <2>2, <2>3 DEF Found
<1>2. CASE \E H \in SUBSET Walked : rows = ByFile(H)
  <2>1. PICK H \in SUBSET Walked : rows = ByFile(H)
    BY <1>2
  <2>2. \A h \in H : h \in DOMAIN objs /\ objs[h].of \in Song /\ h \in Copies(objs[h].of) /\ h \in Nat
    BY DEF Walked, Copies, Is, ZuneTypeOK
  <2>3. \A r \in rows : r.id \in H /\ r.song = objs[r.id].of /\ r = Row(r.id, r.song, "file")
    BY <2>1 DEF ByFile, Row
  <2>4. rows \subseteq Entry
    BY <2>1, <2>2 DEF ByFile, Row, Entry, Form
  <2>5. \A r \in rows : r.song \in OnDevice /\ r.id \in Copies(r.song)
    BY <2>2, <2>3 DEF OnDevice
  <2> QED BY <2>3, <2>4, <2>5 DEF Found
<1> QED BY <1>1, <1>2 DEF Findable

LEMMA TruthList ==
    ASSUME ZuneTypeOK, ZuneTypeOK', Singles, TruthOk, Load, faults' + foreign' <= 1 PROVE TruthOk'
<1>0. op'.at \in {"idle", "warm"} /\ op.at = "load" /\ UNCHANGED <<objs, twins, cut>>
  BY LoadDoes
<1>1. (\A t : Copies(t)' = Copies(t)) /\ InHand' /\ Plain' /\ OnDevice' = OnDevice
      /\ \A R, t : Found(R, t)' <=> Found(R, t)
  BY <1>0, SameDevice, InHandFree, FoundSame DEF Plain
<1>2. ASSUME NEW rows, Findable(rows), tc' = [header |-> TRUE, free |-> op.free, rows |-> rows], shown' = rows,
             marred' = Missing(rows)
      PROVE  TruthOk'
  <2>1. tc'.rows = rows
    BY <1>2
  <2>2. Listed' = rows
    <3>1. tc' \in TrackList
      <4>1. op.free \in Nat
        BY DEF ZuneTypeOK, Doing
      <4> QED BY <1>2, <4>1, FindableIs DEF TrackList
    <3> QED BY <2>1, <3>1, ZuneAssumption DEF Listed
  <2>3. ASSUME NEW t \in Song \ (twins \cup marred)'
        PROVE  Found(rows, t) /\ (t \in OnDevice => Has(rows, t)) /\ \A r, q \in rows : r.song = t /\ q.song = t => r = q
    <3>1. \A g, h \in Copies(t) : g = h
      BY <1>0 DEF Singles
    <3>2. t \in OnDevice => Has(rows, t)
      BY <1>2 DEF Missing, Has
    <3> QED BY <1>2, <3>1, <3>2, FindableIs
  <2>4. \A t \in Song \ (twins \cup marred)' : Paired(t)'
    BY <1>1, <1>2, <2>2, <2>3 DEF Paired
  <2>5. \A t \in Song \ (twins \cup marred)' : Found(Listed, t)' /\ Found(shown, t)' /\ (t \in OnDevice' \ cut' => Has(Listed, t)')
    BY <1>1, <1>2, <2>2, <2>3 DEF Found, Has, OnDevice
  <2>6. Good'
    BY <1>1, <2>5 DEF Plain, Good, Settled, At
  <2> QED BY <1>1, <2>4, <2>6 DEF TruthOk, Aware
<1>3. ASSUME Fails, shown' \in {shown, {}}, UNCHANGED tc, marred' = marred \cup Missing(Listed) PROVE TruthOk'
  <2>1. faults \in Nat /\ foreign \in Nat /\ UNCHANGED foreign
    BY LoadDoes DEF ZuneTypeOK
  <2>2. faults = 0 /\ foreign = 0
    BY <1>3, <2>1 DEF Fails
  <2>3. Good \/ Fresh
    BY <2>2, CalmIsGood DEF TruthOk
  <2>4. Listed' = Listed
    BY <1>3, ListedSame
  <2>5. \A t \in Song \ (twins \cup marred)' : Paired(t)'
    BY <1>0, <1>3, <2>4, PairedSame DEF TruthOk
  <2>6. Plain
    BY <1>0 DEF Plain
  <2>61. \A t \in Song \ (twins \cup marred)' : Found(Listed, t) /\ Found(shown, t) /\ (t \in OnDevice => Has(Listed, t))
    <3>1. TAKE t \in Song \ (twins \cup marred)'
    <3>2. t \in OnDevice => Has(Listed, t)
      BY <1>3 DEF Missing, Has
    <3>3. CASE Good
      BY <1>0, <1>3, <2>6, <3>2, <3>3, PlainGood
    <3>4. CASE Fresh
      BY <3>2, <3>4, FreshFinds
    <3> QED BY <2>3, <3>3, <3>4
  <2>7. \A t \in Song \ (twins \cup marred)' : Found(Listed, t)' /\ Found(shown, t)' /\ (t \in OnDevice' \ cut' => Has(Listed, t)')
    BY <1>0, <1>1, <1>3, <2>4, <2>61 DEF Found, Has, OnDevice
  <2>8. Good'
    BY <1>1, <2>7 DEF Plain, Good, Settled, At
  <2> QED BY <1>1, <2>5, <2>8 DEF TruthOk, Aware
<1> QED BY <1>2, <1>3, LoadDoes

\* In what order it learns of changes: the free space is asked first.
LEMMA TruthAsk ==
    ASSUME ZuneTypeOK, ZuneTypeOK', TruthOk, faults' + foreign' <= 1, Collect,
           faults = 0 /\ foreign = 0 /\ Loadable => Trusted(Free)
    PROVE  TruthOk'
<1>0. /\ op.at = "collect" /\ op.back \in {"idle", "warm"} /\ UNCHANGED <<objs, made, foreign, twins, cut, marred>>
      /\ faults \in Nat /\ foreign \in Nat
  BY CollectDoes DEF ZuneTypeOK
<1>1. PICK free \in {Free, 0} : Asked(free) /\ (Believes(free) \/ Rereads(free))
  BY CollectDoes
<1>2. Plain /\ Plain' /\ InHand' /\ op'.at \notin {"off", "collect"}
  BY <1>0, <1>1, InHandFree DEF Plain, Believes, Rereads
<1>3. (\A t : Copies(t)' = Copies(t)) /\ OnDevice' = OnDevice /\ \A R, t : Found(R, t)' <=> Found(R, t)
  BY <1>0, SameDevice, FoundSame
<1>4. CASE Believes(free)
  <2>1. Good
    <3>0. ~Fresh
      BY <1>4 DEF Believes, Trusted, Loadable, Fresh
    <3>1. CASE free = Free
      BY <1>0, <1>4, <3>0, <3>1 DEF TruthOk, Aware, Believes, At
    <3>2. CASE free # Free
      BY <1>0, <1>1, <3>0, <3>2, CalmIsGood DEF TruthOk, Asked, Fails
    <3> QED BY <3>1, <3>2
  <2>2. shown' = Listed /\ Listed' = Listed
    <3>1. tc # None /\ tc \in TrackList /\ tc' \in TrackList \cup {None}
      BY <1>4 DEF Believes, Trusted, Loadable, ZuneTypeOK
    <3>2. tc' = [tc EXCEPT !.header = TRUE, !.free = free] /\ shown' = tc.rows
      BY <1>4 DEF Believes
    <3>3. free \in Nat
      BY FreeType
    <3>4. tc'.rows = tc.rows /\ tc' \in TrackList
      BY <3>1, <3>2, <3>3 DEF TrackList
    <3> QED BY <3>1, <3>2, <3>4, ZuneAssumption DEF Listed
  <2>3. \A t \in Song \ (twins \cup marred)' : Paired(t)'
    BY <1>0, <2>2 DEF Paired, TruthOk
  <2>4. \A t \in Song \ (twins \cup marred)' : Found(Listed, t)' /\ Found(shown, t)' /\ (t \in OnDevice' \ cut' => Has(Listed, t)')
    BY <1>0, <1>2, <1>3, <2>1, <2>2, PlainGood DEF Found, Has, OnDevice
  <2>5. Good'
    BY <1>2, <2>4 DEF Plain, Good, Settled, At
  <2> QED BY <1>2, <2>3, <2>5 DEF TruthOk, Aware
<1>5. CASE Rereads(free)
  <2>1. Listed' \in {Listed, {}} /\ shown' = shown /\ op'.at = "load"
    <3>1. CASE Loadable
      BY <1>5, <3>1 DEF Rereads, Listed
    <3>2. CASE ~Loadable
      BY <1>5, <3>2, ListedSame DEF Rereads
    <3> QED BY <1>5, <3>1, <3>2 DEF Rereads
  <2>2. \A t \in Song \ (twins \cup marred)' : Paired(t)'
    BY <1>0, <2>1 DEF Paired, TruthOk
  <2>3. CASE faults' + foreign' = 1
    BY <1>2, <2>1, <2>2, <2>3 DEF TruthOk, Aware, Mishaps, At
  <2>4. CASE faults' + foreign' # 1
    <3>1. faults = 0 /\ foreign = 0 /\ faults' = 0
      BY <1>0, <1>1, <2>4 DEF Asked, Fails
    <3>2. free = Free
      BY <1>1, <3>1 DEF Asked, Fails
    <3>3. ~Loadable
      BY <1>5, <3>1, <3>2 DEF Rereads
    <3>4. Listed' = Listed
      BY <1>5, <3>3, ListedSame DEF Rereads
    <3>50. CASE Fresh
      BY <1>2, <1>5, <2>1, <2>2, <3>3, <3>50 DEF TruthOk, Aware, Fresh, Rereads
    <3>5. SUFFICES ASSUME Good PROVE TruthOk'
      BY <3>1, <3>50, CalmIsGood DEF TruthOk
    <3>6. \A t \in Song \ (twins \cup marred)' : Found(Listed, t)' /\ Found(shown, t)' /\ (t \in OnDevice' \ cut' => Has(Listed, t)')
      BY <1>0, <1>2, <1>3, <2>1, <3>4, <3>5, PlainGood DEF Found, Has, OnDevice
    <3>7. Good'
      BY <1>2, <3>6 DEF Plain, Good, Settled, At
    <3> QED BY <1>2, <2>2, <3>7 DEF TruthOk, Aware
  <2> QED BY <2>3, <2>4
<1> QED BY <1>1, <1>4, <1>5

\* What the free space says as long as there was no mishap.
LEMMA CalmTrust ==
    ASSUME ZuneTypeOK, Singles, CalmInv, faults = 0, foreign = 0
    PROVE  /\ twins = {} /\ cut = {} /\ marred = {}
           /\ op.at \in Quiet /\ Loadable => tc.free = Room[OneEach(OnDevice)] /\ Trusted(Free)
           /\ op.at \in {"forget", "unlink"} => ~Trusted(Free)
<1>1. twins = {} /\ cut = {} /\ marred = {} /\ (tc # None => Datable)
  BY DEF CalmInv, CalmOk, UpToDate, Early, Stale
<1>2. ASSUME op.at \in Quiet, Loadable PROVE tc.free = Room[OneEach(OnDevice)] /\ Trusted(Free)
  <2>1. PICK S \in SUBSET Song : tc.free = Room[OneEach(S)] /\ Dated(S)
    BY <1>1, <1>2 DEF Loadable, Datable
  <2>2. S = OnDevice
    BY <1>2, <2>1 DEF Dated, Loadable
  <2>3. tc.free = Free
    BY <1>1, <2>1, <2>2, FreeIs
  <2> QED BY <1>2, <2>1, <2>2, <2>3, TrustedDated DEF Loadable
<1>3. ASSUME op.at \in {"forget", "unlink"} PROVE ~Trusted(Free)
  <2>1. CASE tc = None
    BY <2>1 DEF Trusted, Loadable
  <2>2. CASE tc # None
    <3>1. PICK S \in SUBSET Song : tc.free = Room[OneEach(S)] /\ Dated(S)
      BY <1>1, <2>2 DEF Datable
    <3>2. S # OnDevice
      <4>1. op.at = "unlink" => op.ok
        BY DEF ZuneTypeOK, ZuneHand
      <4> QED BY <1>3, <3>1, <4>1 DEF Dated, At, Removing
    <3> QED BY <1>1, <3>1, <3>2, Distrust
  <2> QED BY <2>1, <2>2
<1> QED BY <1>1, <1>2, <1>3

LEMMA SameTrust ==
    ASSUME UNCHANGED <<tc, objs>> PROVE (Trusted(Free))' <=> Trusted(Free)
<1>1. Free' = Free
  BY SameDevice
<1> QED BY <1>1 DEF Trusted, Loadable

LEMMA TruthOpen ==
    ASSUME ZuneTypeOK, TruthOk, faults' + foreign' <= 1, Open PROVE TruthOk'
<1>1. op.at = "off" /\ op'.at = "collect" /\ UNCHANGED <<objs, tc, faults, foreign, twins, cut, marred>> /\ shown' = {}
  BY OpenDoes DEF History
<1>2. Listed' = Listed /\ (\A t : Copies(t)' = Copies(t)) /\ OnDevice' = OnDevice
  BY <1>1, SameDevice, ListedSame
<1>3. \A t \in Song \ (twins \cup marred)' : Paired(t)'
  BY <1>1, <1>2, PairedSame DEF TruthOk
<1>4. InHand' /\ Plain /\ Plain'
  BY <1>1, InHandFree DEF Plain
<1>5. ASSUME Good PROVE Good'
  <2>1. \A t \in Song \ (twins \cup marred)' : Found(Listed, t)' /\ Found(shown, t)' /\ (t \in OnDevice' \ cut' => Has(Listed, t)')
    BY <1>1, <1>2, <1>4, <1>5, PlainGood DEF Found, Has
  <2> QED BY <1>4, <2>1 DEF Plain, Good, Settled, At
<1>6. Fresh => Fresh'
  BY <1>1 DEF Fresh
<1> QED BY <1>1, <1>3, <1>4, <1>5, <1>6, SameTrust DEF TruthOk, Aware, Mishaps, At

LEMMA TruthClose ==
    ASSUME ZuneTypeOK, Singles, TruthOk, CalmInv, faults' + foreign' <= 1, Close PROVE TruthOk'
<1>1. /\ op.at # "off" /\ op'.at = "off" /\ UNCHANGED <<objs, tc, foreign, twins, marred>> /\ shown' = {}
      /\ faults \in Nat /\ foreign \in Nat
      /\ (op.at = "idle" /\ UNCHANGED faults) \/ (faults' = faults + 1 /\ faults = 0 /\ foreign = 0)
      /\ cut' = (IF op.at = "record" THEN cut \cup {op.song} ELSE cut)
  BY CloseDoes DEF ZuneTypeOK
<1>2. Listed' = Listed /\ (\A t : Copies(t)' = Copies(t)) /\ OnDevice' = OnDevice
  BY <1>1, SameDevice, ListedSame
<1>3. \A t \in Song \ (twins \cup marred)' : Paired(t)'
  BY <1>1, <1>2, PairedSame DEF TruthOk
<1>4. InHand' /\ Plain'
  BY <1>1, InHandFree DEF Plain
<1>50. CASE Fresh
  BY <1>1, <1>3, <1>4, <1>50 DEF TruthOk, Aware, Fresh
<1>5. SUFFICES ASSUME Good PROVE TruthOk'
  BY <1>1, <1>50, AwareIsGood, CalmIsGood DEF TruthOk
<1>6. CASE op.at # "forget"
  <2>1. \A t \in Song \ (twins \cup marred) : Found(Listed, t) /\ (t \in OnDevice \ cut' => Has(Listed, t))
    <3>1. CASE op.at # "record"
      BY <1>1, <1>5, <1>6, <3>1, PlainGood DEF Plain
    <3>2. CASE op.at = "record"
      BY <1>1, <1>5, <3>2 DEF Good, Settled, At, Found, Has
    <3> QED BY <3>1, <3>2
  <2>2. \A t \in Song \ (twins \cup marred)' : Found(Listed, t)' /\ Found(shown, t)' /\ (t \in OnDevice' \ cut' => Has(Listed, t)')
    BY <1>1, <1>2, <2>1 DEF Found, Has
  <2>3. Good'
    BY <1>4, <2>2 DEF Plain, Good, Settled, At
  <2> QED BY <1>3, <1>4, <2>3 DEF TruthOk, Aware
<1>7. CASE op.at = "forget"
  <2>1. ~(Trusted(Free))'
    BY <1>1, <1>7, CalmTrust, SameTrust
  <2>2. Mishaps' = 1
    BY <1>1, <1>7 DEF Mishaps
  <2> QED BY <1>1, <1>3, <1>4, <2>1, <2>2 DEF TruthOk, Aware, At
<1> QED BY <1>6, <1>7

\* A removal takes the row's song, of which there is one copy.
LEMMA Hits ==
    ASSUME PlainNames, ZuneTypeOK, RowsMeet, Delete
    PROVE  /\ op.row \in Entry
           /\ Target(op.row) \in DOMAIN objs => Target(op.row) \in Copies(op.row.song)
           /\ \A h \in Targets(op.row) : h \in Copies(op.row.song)
<1>1. op.row \in Entry /\ Meets(op.row) /\ op.row.song \in Song /\ op.row.id \in Nat
  BY DEF Delete, At, ZuneTypeOK, ZuneHand, RowsMeet, Entry
<1>2. \A h \in DOMAIN objs : objs[h].kind = "track" /\ <<objs[h].of, op.row.song>> \in Fits => h \in Copies(op.row.song)
  <2> TAKE h \in DOMAIN objs
  <2> SUFFICES ASSUME objs[h].kind = "track", <<objs[h].of, op.row.song>> \in Fits PROVE h \in Copies(op.row.song)
    OBVIOUS
  <2>1. objs[h].of \in Song
    BY ZuneAssumption
  <2>2. objs[h].of = op.row.song
    BY <1>1, <2>1 DEF PlainNames, OwnName
  <2> QED BY <2>2 DEF Copies, Is
<1>3. CASE op.row.id > 0
  BY <1>1, <1>3 DEF Target, Targets, Meets, Is, Copies
<1>4. CASE ~(op.row.id > 0)
  <2>1. Target(op.row) = Resolve(op.row.song) /\ Targets(op.row) \subseteq Leads(op.row.song)
    BY <1>4 DEF Target, Targets
  <2> QED BY <1>1, <1>2, <2>1, ResolveIs, LeadsIs
<1> QED BY <1>1, <1>3, <1>4

LEMMA TruthDelete ==
    ASSUME PlainNames, ZuneTypeOK, RowsMeet, Singles, TruthOk, Delete, ~UNCHANGED objs PROVE TruthOk'
<1> DEFINE s == op.row.song
<1>1. /\ op.at = "delete" /\ op'.row = op.row /\ op'.rows = op.rows /\ op.back \in {"rows", "copies"}
      /\ UNCHANGED <<made, tc, shown, twins, cut>>
      /\ (op'.at = "forget" /\ UNCHANGED marred) \/ (op'.at = op.back /\ marred' = marred \cup {s})
      /\ \E h \in Copies(s) : objs' = Deleted({h})
  <2>1. \A h \in Copies(s) : objs[h].of = s
    BY DEF Copies, Is
  <2>2. /\ (op'.at = "forget" /\ UNCHANGED marred) \/ (op'.at = op.back /\ marred' = marred \cup {s})
        /\ \E h \in Copies(s) : objs' = Deleted({h})
    BY <2>1, DeleteDoes, Hits DEF FailsAt
  <2> QED BY <2>2, DeleteDoes DEF Holds
<1>2. PICK h \in Copies(s) : objs' = Deleted({h})
  BY <1>1
<1>21. s \in Song
  BY Hits DEF Entry
<1>3. Listed' = Listed /\ \A t : Copies(t)' = Copies(t) \ {h}
  BY <1>1, <1>2, ListedSame, CopiesDeleted
<1>4. \A t : t # s => Copies(t)' = Copies(t)
  <2>1. objs[h].of = s
    BY <1>2 DEF Copies, Is
  <2>2. \A t : t # s => h \notin Copies(t)
    BY <2>1 DEF Copies, Is
  <2> QED BY <1>3, <2>2
<1>5. \A t \in Song \ (twins \cup marred) : t = s => Copies(t)' = {}
  <2> SUFFICES ASSUME NEW t \in Song \ (twins \cup marred), t = s PROVE Copies(t)' = {}
    OBVIOUS
  <2>1. h \in Copies(t) /\ \A g \in Copies(t) : g = h
    BY <1>2 DEF Singles
  <2> QED BY <1>3, <2>1
<1>6. Good
  BY <1>1, AwareIsGood DEF TruthOk
<1>7. \A t \in Song \ (twins \cup marred) : Found(Listed, t) /\ Found(shown, t) /\ (t \in OnDevice \ cut => Has(Listed, t))
  BY <1>1, <1>6, PlainGood DEF Plain
<1>8. \A t \in Song \ (twins \cup marred) : t # s =>
        Found(Listed, t)' /\ Found(shown, t)' /\ (t \in OnDevice' \ cut' => Has(Listed, t)')
  BY <1>1, <1>3, <1>4, <1>7 DEF Found, Has, OnDevice
<1>81. \A t \in Song \ (twins \cup marred)' : t \in Song \ (twins \cup marred) /\ (t = s => op'.at = "forget")
  BY <1>1
<1>9. Good'
  BY <1>1, <1>5, <1>8, <1>81 DEF Good, Settled, At
<1>10. \A t \in Song \ (twins \cup marred)' : Paired(t)'
  BY <1>1, <1>3, <1>81, PairedSame DEF TruthOk
<1>11. InHand'
  BY <1>1 DEF TruthOk, InHand
<1> QED BY <1>9, <1>10, <1>11 DEF TruthOk, Aware

\* The list is dated by other songs than those on the device.
Misdated == Singles /\ twins = {}
            /\ (tc = None \/ tc.rows = {} \/ \E S \in SUBSET Song : tc.free = Room[OneEach(S)] /\ S # OnDevice)
TrustedNow == Trusted(Free)

LEMMA MisdatedNext == Misdated' => ~TrustedNow'
<1>1. Misdated => ~TrustedNow
  BY Distrust DEF Misdated, TrustedNow
<1>2. (Misdated => ~TrustedNow)'
  BY <1>1, PTL
<1> QED BY <1>2

LEMMA DistrustNext ==
    ASSUME Singles', twins' = {},
           tc' = None \/ tc'.rows = {} \/ \E S \in SUBSET Song : tc'.free = Room[OneEach(S)] /\ S # OnDevice'
    PROVE  ~(Trusted(Free))'
<1>1. Misdated'
  BY DEF Misdated
<1> QED BY <1>1, MisdatedNext DEF TrustedNow

LEMMA TruthForget ==
    ASSUME PlainNames, ZuneTypeOK, RowsMeet, TruthOk, Forget PROVE TruthOk'
<1> DEFINE s == op.row.song
<1>1. /\ op.at = "forget" /\ op'.at \in {"rows", "copies"} /\ op'.rows = op.rows
      /\ Listed' = {r \in Listed : ~Gone(r, op.row)} /\ shown' = {r \in shown : ~SameName(r, op.row)}
      /\ UNCHANGED <<objs, made, twins, cut, marred>>
  BY ForgetDoes DEF History
<1>2. (\A t : Copies(t)' = Copies(t)) /\ OnDevice' = OnDevice
  BY <1>1, SameDevice
<1>3. /\ op.row \in Entry /\ op.row.id \notin DOMAIN objs /\ (op.row.id = 0 => op.row.form = "title") /\ s \in Song
      /\ \A r \in Listed : Meets(r) /\ r \in Entry
  BY <1>1, RowTypes DEF ZuneTypeOK, ZuneHand, At, RowsMeet, PlainNames, OwnName, ZmdbForm, Entry
<1>4. Good
  BY <1>1, AwareIsGood DEF TruthOk
<1>5. \A t \in Song \ (twins \cup marred) : t # s =>
        Found(Listed, t) /\ Found(shown, t) /\ (t \in OnDevice \ cut => Has(Listed, t))
  BY <1>1, <1>4 DEF Good, Settled, At
<1>6. ASSUME NEW t \in Song \ (twins \cup marred), t # s
      PROVE  Found(Listed, t)' /\ Found(shown, t)' /\ (t \in OnDevice' \ cut' => Has(Listed, t)')
  <2>1. \A r \in Listed : r.song = t => ~Gone(r, op.row)
    BY <1>3, <1>5, <1>6 DEF Found, Gone, SameName, Entry, Copies
  <2> QED BY <1>1, <1>2, <1>5, <1>6, <2>1 DEF Found, Has
<1>7. ASSUME NEW t \in Song \ (twins \cup marred), t = s
      PROVE  Found(Listed, t)' /\ Found(shown, t)' /\ (t \in OnDevice' \ cut' => Has(Listed, t)')
  <2>1. op.row \in shown /\ Paired(t)
    BY <1>1, <1>7 DEF TruthOk, InHand
  <2>2. \A r \in Listed : r.song = t => Gone(r, op.row)
    <3>1. ASSUME NEW r \in Listed, r.song = t PROVE Gone(r, op.row)
      <4>1. r.id = op.row.id /\ r \in Entry /\ Meets(r)
        BY <1>3, <1>7, <2>1, <3>1 DEF Paired
      <4>2. op.row.id = 0 => r.form = "title"
        BY <4>1, <3>1, <1>7 DEF Meets, PlainNames, OwnName, ZmdbForm
      <4> QED BY <1>3, <1>7, <3>1, <4>1, <4>2 DEF Gone, SameName, Entry
    <3> QED BY <3>1
  <2>3. \A r \in shown : r.song = t => SameName(r, op.row)
    BY <1>7, <2>1 DEF Paired, SameName
  <2>4. t \notin OnDevice
    BY <1>1, <1>4, <1>7 DEF Good, Settled, At, OnDevice
  <2> QED BY <1>1, <1>2, <2>2, <2>3, <2>4 DEF Found, Has
<1>8. Good'
  BY <1>1, <1>6, <1>7 DEF Good, Settled, At
<1>9. \A t \in Song \ (twins \cup marred)' : Paired(t)'
  BY <1>1 DEF Paired, TruthOk
<1>10. InHand'
  <2>1. \A r \in op.rows : r.song \notin twins \cup marred => r \in shown /\ (s \notin twins \cup marred => r.song # s)
    BY <1>1 DEF TruthOk, InHand
  <2>2. \A r \in op.rows : r.song \notin twins \cup marred => r \in shown'
    BY <1>1, <2>1 DEF SameName
  <2> QED BY <1>1, <2>2 DEF InHand
<1> QED BY <1>8, <1>9, <1>10 DEF TruthOk, Aware

LEMMA TruthUpload ==
    ASSUME ZuneTypeOK, TruthOk, Upload, SentSong PROVE TruthOk'
<1> DEFINE s == op.song
<1>1. /\ op.at = "upload" /\ op'.song = op.song /\ UNCHANGED <<tc, shown, marred>> /\ s \in Song
      /\ twins' = (IF Copies(s) # {} THEN twins \cup {s} ELSE twins)
      /\ AddsSong(s)
      /\ (op'.at = "record" /\ cut' = cut) \/ (op'.at = "next" /\ cut' = cut \cup {s})
  BY UploadDoes, UploadAdds DEF Holds
<1>2. (\A t : t # s => Copies(t)' = Copies(t)) /\ OnDevice' = OnDevice \cup {s} /\ Listed' = Listed
  BY <1>1, AddsSongDoes, ListedSame
<1>3. Good
  BY <1>1, AwareIsGood DEF TruthOk
<1>4. \A t \in Song \ (twins \cup marred) : Found(Listed, t) /\ Found(shown, t) /\ (t \in OnDevice \ cut => Has(Listed, t))
  BY <1>1, <1>3, PlainGood DEF Plain
<1>5. \A t \in Song \ (twins \cup marred)' : t # s =>
        Found(Listed, t)' /\ Found(shown, t)' /\ (t \in OnDevice' \ cut' => Has(Listed, t)')
  <2>1. TAKE t \in Song \ (twins \cup marred)'
  <2>2. HAVE t # s
  <2>3. t \in Song \ (twins \cup marred) /\ (t \in OnDevice' \ cut' => t \in OnDevice \ cut)
    BY <1>1, <1>2, <2>2
  <2> QED BY <1>1, <1>2, <1>4, <2>2, <2>3 DEF Found, Has
<1>6. s \notin (twins \cup marred)' => ~Has(Listed, s) /\ ~Has(shown, s)
  <2> SUFFICES ASSUME s \notin (twins \cup marred)' PROVE ~Has(Listed, s) /\ ~Has(shown, s)
    OBVIOUS
  <2>1. s \in Song \ (twins \cup marred) /\ Copies(s) = {}
    BY <1>1
  <2>2. s \notin OnDevice
    BY <2>1 DEF OnDevice
  <2> QED BY <1>4, <2>1, <2>2 DEF Found, Has
<1>7. Good'
  <2>1. ASSUME NEW t \in Song \ (twins \cup marred)', t = s
        PROVE  /\ ~Has(Listed, t)' /\ ~Has(shown, t)'
               /\ Found(Listed, t)' /\ Found(shown, t)' /\ (op'.at # "record" => t \in cut')
    BY <1>1, <1>2, <1>6, <2>1 DEF Has, Found
  <2>2. ASSUME NEW t \in Song \ (twins \cup marred)' PROVE Settled(t)'
    BY <1>1, <1>5, <2>1, <2>2 DEF Settled, At
  <2> QED BY <2>2 DEF Good
<1>8. \A t \in Song \ (twins \cup marred)' : Paired(t)'
  BY <1>1, <1>2, PairedSame DEF TruthOk
<1>9. InHand'
  BY <1>1, InHandFree
<1> QED BY <1>7, <1>8, <1>9 DEF TruthOk, Aware

LEMMA TruthRecord ==
    ASSUME ZuneTypeOK, RowsMeet, TruthOk, Record PROVE TruthOk'
<1> DEFINE s == op.song
           r0 == Row(op.id, s, "file")
           q0 == Row(op.id, s, "title")
<1>1. /\ op.at = "record" /\ op'.at = "next" /\ UNCHANGED <<objs, twins, cut, marred>>
      /\ Listed' = Listed \cup {r0} /\ shown' = Shown(q0)
  BY RecordDoes DEF History
<1>2. (\A t : Copies(t)' = Copies(t)) /\ OnDevice' = OnDevice
  BY <1>1, SameDevice
<1>3. s \in Song /\ op.id \in Copies(s) /\ op.id \in Nat
  BY <1>1, HandType DEF RowsMeet, At, Copies, Is
<1>4. r0.song = s /\ r0.id = op.id /\ q0.song = s /\ q0.id = op.id
  BY DEF Row
<1>5. shown \subseteq shown' /\ shown' \subseteq shown \cup {q0} /\ (~Has(shown, s) => shown' = shown \cup {q0})
  BY <1>1, <1>4 DEF Shown, SameName, Has
<1>6. Good
  BY <1>1, AwareIsGood DEF TruthOk
<1>7. \A t \in Song \ (twins \cup marred) : t # s => Found(Listed, t) /\ Found(shown, t) /\ (t \in OnDevice \ cut => Has(Listed, t))
  BY <1>1, <1>6 DEF Good, Settled, At
<1>8. s \notin twins \cup marred => ~Has(Listed, s) /\ ~Has(shown, s)
  BY <1>1, <1>3, <1>6 DEF Good, Settled, At
<1> HIDE DEF r0, q0
<1>9. \A t \in Song \ (twins \cup marred) : Found(Listed, t)' /\ Found(shown, t)' /\ (t \in OnDevice' \ cut' => Has(Listed, t)')
  <2> SUFFICES ASSUME NEW t \in Song \ (twins \cup marred)
               PROVE  Found(Listed, t)' /\ Found(shown, t)' /\ (t \in OnDevice' \ cut' => Has(Listed, t)')
    OBVIOUS
  <2>1. CASE t # s
    BY <1>1, <1>2, <1>4, <1>5, <1>7, <2>1 DEF Found, Has
  <2>2. CASE t = s
    <3>1. \A r \in Listed' \cup shown' : r.song = t => r.id = op.id
      BY <1>1, <1>4, <1>5, <1>8, <2>2 DEF Has
    <3>2. t \in OnDevice'
      BY <1>2, <1>3, <2>2 DEF OnDevice
    <3> QED BY <1>1, <1>2, <1>3, <1>4, <2>2, <3>1, <3>2 DEF Found, Has
  <2> QED BY <2>1, <2>2
<1>10. Good'
  BY <1>1, <1>9 DEF Good, Settled, At
<1>11. \A t \in Song \ (twins \cup marred)' : Paired(t)'
  <2> SUFFICES ASSUME NEW t \in Song \ (twins \cup marred) PROVE Paired(t)'
    BY <1>1
  <2>1. CASE t # s
    BY <1>1, <1>4, <1>5, <2>1 DEF Paired, TruthOk
  <2>2. CASE t = s
    BY <1>1, <1>4, <1>5, <1>8, <2>2 DEF Paired, Has
  <2> QED BY <2>1, <2>2
<1>12. InHand'
  BY <1>1, InHandFree
<1> QED BY <1>10, <1>11, <1>12 DEF TruthOk, Aware

\* Folders that get empty have no song in them.
LEMMA EmptiedFolders ==
    ASSUME PlainNames, ZuneTypeOK, NEW t \in Song, NEW h \in Copies(t), Placed(t), NEW also \in {{}, Emptied(h)}
    PROVE  \A g \in also : g \in DOMAIN objs /\ objs[g].kind # "track"
<1> DEFINE b == AlbumOf[t]
           d == AlbumDir(b)
<1>1. d # Nowhere /\ objs[h].in = d
  BY DEF Placed
<1>2. Is(d, "album", b) /\ objs[d].in = Find(Root, "artist", ArtistOf[b])
      /\ Is(Find(Root, "artist", ArtistOf[b]), "artist", ArtistOf[b])
  BY <1>1, AlbumDirIs
<1> HIDE DEF d, b
<1>3. \A g \in Emptied(h) : g = d \/ (g \in DOMAIN objs /\ objs[g].kind = "alb") \/ g = objs[d].in
  BY <1>1 DEF Emptied
<1> QED BY <1>2, <1>3 DEF Is

\* What others do to the device: one song less, or one more.
LEMMA ElsewhereSongs ==
    ASSUME PlainNames, ZuneTypeOK, Singles, twins = {}, AllPlaced, DeletedElsewhere \/ AddedElsewhere
    PROVE  \E t \in Song : (t \in OnDevice /\ OnDevice' = OnDevice \ {t}) \/ (t \notin OnDevice /\ OnDevice' = OnDevice \cup {t})
<1>1. CASE AddedElsewhere
  BY <1>1, AddedAdds, AddsSongDoes
<1>2. CASE DeletedElsewhere
  <2>0. PICK t \in Song : \E h \in Copies(t) : \E also \in {{}, Emptied(h)} : objs' = Deleted({h} \cup also) /\ UNCHANGED made
    BY <1>2, DeletedDoes
  <2>01. PICK h \in Copies(t) : \E also \in {{}, Emptied(h)} : objs' = Deleted({h} \cup also) /\ UNCHANGED made
    BY <2>0
  <2>1. PICK also \in {{}, Emptied(h)} : objs' = Deleted({h} \cup also) /\ UNCHANGED made
    BY <2>01
  <2>2. t \in OnDevice /\ Placed(t)
    BY <2>1 DEF OnDevice, AllPlaced
  <2>3. \A g \in also : g \in DOMAIN objs /\ objs[g].kind # "track"
    BY <2>1, <2>2, EmptiedFolders
  <2>4. \A u : Copies(u) \cap also = {}
    BY <2>3 DEF Copies, Is
  <2>5. \A u : Copies(u)' = Copies(u) \ ({h} \cup also)
    BY <2>1, CopiesDeleted
  <2>6. \A u : u # t => h \notin Copies(u)
    BY <2>1 DEF Copies, Is
  <2>7. Copies(t) = {h}
    BY <2>1 DEF Singles
  <2>8. OnDevice' = OnDevice \ {t}
    <3>1. \A u : u # t => Copies(u)' = Copies(u)
      BY <2>4, <2>5, <2>6
    <3>2. \A u : u = t => Copies(u)' = {}
      BY <2>5, <2>7
    <3> QED BY <3>1, <3>2 DEF OnDevice
  <2> QED BY <2>0, <2>2, <2>8
<1> QED BY <1>1, <1>2

\* After a change by others the free space is not the one noted.
LEMMA ElsewhereTells ==
    ASSUME PlainNames, ZuneTypeOK, Singles, Singles', CalmInv, AllPlaced, faults = 0, foreign = 0, DeletedElsewhere \/ AddedElsewhere
    PROVE  ~(Trusted(Free))'
<1>1. twins = {} /\ op.at = "off" /\ UNCHANGED <<tc, twins>>
  BY CalmTrust, DeletedDoes, AddedDoes DEF History
<1>2. OnDevice' # OnDevice
  BY <1>1, ElsewhereSongs
<1>3. Loadable => tc.free = Room[OneEach(OnDevice)]
  BY <1>1, CalmTrust DEF Quiet
<1>4. OnDevice \in SUBSET Song
  BY DEF OnDevice
<1>5. tc' = None \/ tc'.rows = {} \/ \E S \in SUBSET Song : tc'.free = Room[OneEach(S)] /\ S # OnDevice'
  BY <1>1, <1>2, <1>3, <1>4 DEF Loadable
<1> QED BY <1>1, <1>5, DistrustNext

LEMMA TruthElsewhere ==
    ASSUME PlainNames, ZuneTypeOK, Singles, Singles', TruthOk, CalmInv, AllPlaced, faults = 0, foreign = 0,
           DeletedElsewhere \/ AddedElsewhere
    PROVE  TruthOk'
<1>1. op.at = "off" /\ UNCHANGED <<tc, shown, op, twins, marred, faults>> /\ foreign' = foreign + 1
  BY DeletedDoes, AddedDoes DEF History
<1>2. Mishaps' = 1 /\ InHand'
  BY <1>1, InHandFree DEF Mishaps
<1>3. \A t \in Song \ (twins \cup marred)' : Paired(t)'
  BY <1>1, ListedSame, PairedSame DEF TruthOk
<1> QED BY <1>1, <1>2, <1>3, ElsewhereTells DEF TruthOk, Aware, At

\* A call that fails and leaves the device as it is.
LEMMA DeleteNot ==
    ASSUME ZuneTypeOK, Delete, UNCHANGED objs
    PROVE  op.at = "delete" /\ op'.at = op.back /\ op.back \in {"rows", "copies"} /\ Holds /\ UNCHANGED History
<1>1. \A h \in DOMAIN objs : objs' # Deleted({h})
  <2>1. \A h \in DOMAIN objs : h \notin DOMAIN Deleted({h})
    BY DEF Deleted
  <2> QED BY <2>1
<1>2. Targets(op.row) \subseteq DOMAIN objs
  BY DEF Targets
<1> QED BY <1>1, <1>2, DeleteDoes DEF FailsAt, History

LEMMA InHandStep ==
    ASSUME ZuneTypeOK, TruthOk,
           StartRemoval \/ NextRow("rows") \/ NextRow("copies") \/ (Delete /\ UNCHANGED objs) \/ NextSong
    PROVE  InHand'
<1>1. CASE StartRemoval
  BY <1>1, StartRemovalDoes DEF InHand
<1>2. CASE NextSong
  BY <1>2, NextSongDoes DEF InHand, CopiesShown
<1>3. CASE Delete /\ UNCHANGED objs
  BY <1>3, DeleteNot, DeleteDoes DEF InHand, Holds, TruthOk, History
<1>4. ASSUME NEW l \in {"rows", "copies"}, NextRow(l) PROVE InHand'
  <2>1. /\ op.at = l /\ op'.at = "delete" /\ op'.row \in op.rows /\ op'.rows = op.rows \ {op'.row}
        /\ UNCHANGED <<shown, twins, marred>>
    BY <1>4, NextRowDoes DEF History
  <2>2. \A r \in op.rows : r.song \notin twins \cup marred => r \in shown
    BY <2>1 DEF TruthOk, InHand
  <2>3. op.rows \subseteq Entry
    BY RowTypes
  <2>4. op'.row.song \notin twins \cup marred => op'.row \in shown /\ \A r \in op'.rows : r.song # op'.row.song
    <3> SUFFICES ASSUME op'.row.song \notin twins \cup marred PROVE op'.row \in shown /\ \A r \in op'.rows : r.song # op'.row.song
      OBVIOUS
    <3>1. op'.row \in shown /\ op'.row.song \in Song \ (twins \cup marred)
      BY <2>1, <2>2, <2>3 DEF Entry
    <3>2. Paired(op'.row.song)
      BY <3>1 DEF TruthOk
    <3> QED BY <2>1, <2>2, <3>1, <3>2 DEF Paired
  <2> QED BY <2>1, <2>2, <2>4 DEF InHand
<1> QED BY <1>1, <1>2, <1>3, <1>4

LEMMA TruthOthers ==
    ASSUME ZuneTypeOK, TruthOk,
           \/ Reload \/ Warm \/ StartRemoval \/ NextRow("rows") \/ (Delete /\ UNCHANGED objs) \/ RowsDone
           \/ (\E h \in op.look : LookAt(h)) \/ Overlook \/ Unlink \/ Cleaned \/ Refresh
           \/ StartSync \/ NextSong \/ NextRow("copies") \/ ImportTrack \/ PlaceArtist \/ FileArtist \/ PlaceAlbum
           \/ AlbumObject \/ FileAlbum \/ (Upload /\ ~SentSong) \/ SyncDone
    PROVE  TruthOk'
<1>1. UNCHANGED twins /\ \A t : Copies(t)' = Copies(t)
  BY SameSongs
<1>2. CASE Reload \/ Warm \/ RowsDone \/ (\E h \in op.look : LookAt(h)) \/ Overlook \/ Unlink \/ Cleaned \/ Refresh
  <2>1. /\ UNCHANGED <<shown, cut, marred>> /\ Listed' = Listed
        /\ op.at \in {"idle", "warm", "rows", "look", "unlink", "refresh"}
        /\ op'.at \in {"collect", "idle", "look", "unlink", "refresh"}
    BY <1>2, ReloadDoes, WarmDoes, RowsDoneDoes, LookDoes, OverlookDoes, UnlinkDoes, CleanedDoes, RefreshDoes, ListedSame DEF History
  <2> QED BY <1>1, <2>1, InHandFree, PairedSame, TruthCalm DEF TruthOk, Aware
<1>3. CASE \/ StartSync \/ ImportTrack \/ PlaceArtist \/ FileArtist \/ PlaceAlbum
           \/ AlbumObject \/ FileAlbum \/ (Upload /\ ~SentSong) \/ SyncDone
  <2>1. CASE StartSync \/ ImportTrack \/ FileArtist \/ FileAlbum \/ SyncDone
    <3>1. /\ UNCHANGED <<shown, cut, marred>> /\ Listed' = Listed
          /\ op.at \in {"idle", "copies", "next"} \cup Copying
          /\ op'.at \in {"next", "artist", "album", "upload", "refresh", "idle"}
      BY <2>1, StartSyncDoes, ImportDoes, FileArtistDoes, FileAlbumDoes, SyncDoneDoes, ListedSame DEF History, Copying
    <3> QED BY <1>1, <3>1, InHandFree, PairedSame, TruthCalm DEF TruthOk, Aware, Copying
  <2>2. CASE PlaceArtist \/ PlaceAlbum \/ AlbumObject \/ (Upload /\ ~SentSong)
    <3>1. /\ UNCHANGED <<shown, cut, marred>> /\ Listed' = Listed
          /\ op.at \in Copying
          /\ op'.at \in Copying \cup {"next", "wedged"}
      BY <2>2, PlaceArtistDoes, PlaceAlbumDoes, AlbumObjectDoes, UploadDoes, UploadNot, ListedSame
         DEF History, Copying, Finds, Makes, Sticks, GivesUp, Wastes
    <3> QED BY <1>1, <3>1, InHandFree, PairedSame, TruthCalm DEF TruthOk, Aware, Copying
  <2> QED BY <1>3, <2>1, <2>2
<1>4. CASE StartRemoval \/ NextRow("rows") \/ NextRow("copies") \/ (Delete /\ UNCHANGED objs) \/ NextSong
  <2>1. /\ UNCHANGED <<shown, cut, marred>> /\ Listed' = Listed
        /\ op.at \in {"idle", "rows", "copies", "delete", "next"}
        /\ op'.at \in {"rows", "copies", "delete"}
    BY <1>4, StartRemovalDoes, NextRowDoes, DeleteNot, DeleteDoes, NextSongDoes, ListedSame DEF History
  <2> QED BY <1>1, <1>4, <2>1, InHandStep, PairedSame, TruthCalm DEF TruthOk, Aware
<1> QED BY <1>2, <1>3, <1>4

LEMMA TruthStep ==
    ASSUME ZuneTypeOK, ZuneTypeOK', RowsMeet, Singles, Singles', PlainNames, CalmInv, FirstInv, TruthInv,
           ZuneNext \/ UNCHANGED zuneVars
    PROVE  TruthInv'
<1> SUFFICES ASSUME faults' + foreign' <= 1 PROVE TruthOk'
  BY DEF TruthInv, Mishaps
<1>1. CASE UNCHANGED zuneVars
  <2>1. TruthOk /\ UNCHANGED <<op, tc, shown, faults, foreign, objs, twins, cut, marred>>
    BY <1>1 DEF zuneVars, TruthInv, Mishaps
  <2>2. Listed' = Listed /\ OnDevice' = OnDevice /\ (\A t : Copies(t)' = Copies(t)) /\ (\A R, t : Found(R, t)' <=> Found(R, t))
        /\ (Trusted(Free)' <=> Trusted(Free))
    BY <2>1, ListedSame, SameDevice, FoundSame, SameTrust
  <2>3. (\A t \in Song \ (twins \cup marred) : Paired(t))' /\ InHand'
    BY <2>1, <2>2 DEF TruthOk, Paired, InHand
  <2>4. \A t \in Song \ (twins \cup marred) : Settled(t) => Settled(t)'
    BY <2>1, <2>2 DEF Settled, Has, At
  <2>5. Aware'
    BY <2>1, <2>2, <2>4 DEF TruthOk, Aware, Good, Fresh, Mishaps, At
  <2> QED BY <2>3, <2>5 DEF TruthOk
<1> SUFFICES ASSUME ZuneNext PROVE TruthOk'
  BY <1>1
<1>2. TruthOk
  <2>1. faults + foreign <= 1
    BY MishapsGrow
  <2> QED BY <2>1 DEF TruthInv, Mishaps
<1>3. faults = 0 /\ foreign = 0 /\ (op.at \in Quiet /\ Loadable) => Trusted(Free)
  BY CalmTrust
<1>4. CASE Collect
  BY <1>2, <1>3, <1>4, TruthAsk, CollectDoes DEF Quiet
<1>5. CASE DeletedElsewhere \/ AddedElsewhere
  <2>1. foreign' = foreign + 1 /\ UNCHANGED faults
    BY <1>5, DeletedDoes, AddedDoes
  <2>2. faults = 0 /\ foreign = 0
    BY <2>1 DEF ZuneTypeOK
  <2>3. AllPlaced
    BY <2>2 DEF FirstInv, FirstOk
  <2> QED BY <1>2, <1>5, <2>2, <2>3, TruthElsewhere
<1>6. CASE Open \/ Load \/ Close \/ Forget \/ Record \/ (Delete /\ ~UNCHANGED objs) \/ (Upload /\ SentSong)
  BY <1>2, <1>6, TruthOpen, TruthList, TruthClose, TruthForget, TruthRecord, TruthDelete, TruthUpload
<1> QED BY <1>2, <1>4, <1>5, <1>6, TruthOthers DEF ZuneNext, Listing, Removal, Syncing

-----------------------------------------------------------------------------
(* Songs are where the tags of their albums say. *)

LEMMA PlacedWith ==
    ASSUME PlainNames, ZuneTypeOK, ZuneTypeOK', made < MaxHandle, made' = made + 1, NEW o \in Thing, objs' = With(o),
           NEW t, Placed(t), o.kind = "track" /\ o.of = t => o.in = AlbumDir(AlbumOf[t])
    PROVE  Placed(t)' /\ AlbumDir(AlbumOf[t])' = AlbumDir(AlbumOf[t])
<1> DEFINE b == AlbumOf[t]
<1>1. AlbumDir(b) # Nowhere /\ \A h \in Copies(t) : objs[h].in = AlbumDir(b)
  BY DEF Placed
<1>2. AlbumDir(b)' = AlbumDir(b)
  BY <1>1, FindWith DEF AlbumDir
<1>3. \A h \in Copies(t)' : objs'[h].in = AlbumDir(b)
  <2>1. objs'[made + 1] = o /\ \A h \in DOMAIN objs : objs'[h] = objs[h]
    BY WithType
  <2> QED BY <1>1, <2>1, CopiesWith DEF Copies, Is
<1> QED BY <1>1, <1>2, <1>3 DEF Placed

LEMMA PlacedDeleted ==
    ASSUME PlainNames, ZuneTypeOK, ZuneTypeOK', NEW H, objs' = Deleted(H), UNCHANGED made, NEW t, Placed(t),
           AlbumDir(AlbumOf[t]) \notin H, Find(Root, "artist", ArtistOf[AlbumOf[t]]) \notin H
    PROVE  Placed(t)' /\ AlbumDir(AlbumOf[t])' = AlbumDir(AlbumOf[t])
<1> DEFINE b == AlbumOf[t]
<1>1. AlbumDir(b) # Nowhere /\ \A h \in Copies(t) : objs[h].in = AlbumDir(b)
  BY DEF Placed
<1>2. AlbumDir(b)' = AlbumDir(b)
  <2>1. /\ Find(Root, "artist", ArtistOf[b]) # Nowhere /\ Find(Find(Root, "artist", ArtistOf[b]), "album", b) # Nowhere
        /\ AlbumDir(b) = Find(Find(Root, "artist", ArtistOf[b]), "album", b)
    BY <1>1, AlbumDirIs
  <2>2. Find(Root, "artist", ArtistOf[b])' = Find(Root, "artist", ArtistOf[b])
    BY <2>1, FindDeleted
  <2>3. \A d : Find(d, "album", b) # Nowhere /\ Find(d, "album", b) \notin H => Find(d, "album", b)' = Find(d, "album", b)
    BY FindDeleted
  <2> QED BY <2>1, <2>2, <2>3 DEF AlbumDir
<1>3. \A h \in Copies(t)' : h \in Copies(t) /\ objs'[h] = objs[h]
  BY CopiesDeleted, DeletedType DEF Copies, Is
<1> QED BY <1>1, <1>2, <1>3 DEF Placed

\* A file is found by its own name.
LEMMA TitledIs ==
    ASSUME PlainNames, ZuneTypeOK, NEW t \in Song, NEW d, NEW h \in Copies(t), objs[h].in = d
    PROVE  h \in Titled(d, t)
<1>1. <<t, t>> \in Fits
  BY DEF PlainNames, OwnName
<1> QED BY <1>1 DEF Titled, Copies, Is, Children

\* The path of a song on the device leads to a file.
LEMMA PathLeads ==
    ASSUME PlainNames, ZuneTypeOK, NEW t \in OnDevice, Placed(t) PROVE Resolve(t) \in DOMAIN objs
<1> DEFINE b == AlbumDir(AlbumOf[t])
           H == Titled(b, t)
<1>1. b # Nowhere /\ Resolve(t) = First(H)
  BY DEF Placed, Resolve, FindTitle
<1>2. H \in SUBSET Nat /\ H \subseteq DOMAIN objs
  BY DEF Titled, Children, ZuneTypeOK
<1>3. PICK h : h \in Copies(t)
  BY DEF OnDevice
<1>4. h \in H
  BY <1>3, TitledIs DEF Placed, OnDevice
<1> HIDE DEF H
<1> QED BY <1>1, <1>2, <1>4, FirstOf

\* An empty folder is not on the way to a song.
LEMMA EmptyApart ==
    ASSUME PlainNames, ZuneTypeOK, NEW t \in OnDevice, Placed(t), NEW g, Children(g) = {}
    PROVE  AlbumDir(AlbumOf[t]) # g /\ Find(Root, "artist", ArtistOf[AlbumOf[t]]) # g
<1>1. PICK h : h \in Copies(t)
  BY DEF OnDevice
<1>2. h \in Children(AlbumDir(AlbumOf[t]))
  BY <1>1 DEF Placed, Copies, Is, Children
<1>3. AlbumDir(AlbumOf[t]) \in Children(Find(Root, "artist", ArtistOf[AlbumOf[t]]))
  BY AlbumDirIs DEF Placed, Is, Children
<1> QED BY <1>2, <1>3

-----------------------------------------------------------------------------
(* As long as nothing fails. *)

LEMMA CalmNow ==
    ASSUME CalmOk, op.at \notin Early PROVE twins = {} /\ cut = {} /\ marred = {} /\ tc # None /\ Sighted /\ Datable /\ RowsPlaced
BY DEF CalmOk, Stale, UpToDate, Early, At

LEMMA CalmNext ==
    ASSUME op'.at \notin Early, twins' = {}, cut' = {}, marred' = {}, tc' # None, Sighted', Datable', RowsPlaced' PROVE CalmOk'
BY DEF CalmOk, UpToDate, Early

LEMMA RowsStay ==
    ASSUME RowsPlaced, \A r \in Listed' \cup shown' : r \in Listed \cup shown \/ r.id # 0,
           \A r \in Listed \cup shown : Placed(r.song) => Placed(r.song)'
    PROVE  RowsPlaced'
<1>1. \A r \in Listed' \cup shown' : r.id = 0 => Placed(r.song)'
  BY DEF RowsPlaced
<1> QED BY <1>1 DEF RowsPlaced

\* What is dated by the songs of the device, is dated by them still.
LEMMA DatedAgain ==
    ASSUME tc' # None, tc'.header, NEW S \in SUBSET Song, tc'.free = Room[OneEach(S)], Dated(S)' PROVE Datable'
BY DEF Datable

\* Songs that are listed are on the device, and those on the device are listed.
LEMMA ListedIs ==
    ASSUME TruthOk, Plain, Good, twins = {}, cut = {}, marred = {}, ZuneTypeOK
    PROVE  /\ \A t \in OnDevice : Has(Listed, t)
           /\ \A r \in Listed \cup shown : r.song \in OnDevice /\ (r.id > 0 => r.id \in Copies(r.song))
           /\ tc # None /\ tc.rows = {} => OnDevice = {}
<1>1. \A t \in Song : Found(Listed, t) /\ Found(shown, t) /\ (t \in OnDevice => Has(Listed, t))
  BY PlainGood
<1>2. \A r \in Listed \cup shown : r.song \in Song
  BY RowTypes DEF Entry
<1>3. OnDevice \subseteq Song
  BY DEF OnDevice
<1>4. tc # None /\ tc.rows = {} => Listed = {}
  BY DEF Listed
<1> QED BY <1>1, <1>2, <1>3, <1>4 DEF Found, Has

\* Without a mishap, and at rest, the free space is the one noted.
LEMMA AtRest ==
    ASSUME ZuneTypeOK, Singles, TruthOk, CalmOk, op.at = "idle"
    PROVE  AllPlaced \/ Trusted(Free)
<1>1. twins = {} /\ cut = {} /\ marred = {} /\ tc # None /\ Datable
  BY CalmNow DEF Early
<1>2. CASE tc.rows = {}
  <2>1. Plain /\ Good
    BY AwareIsGood DEF Plain, TruthOk
  <2> QED BY <1>1, <1>2, <2>1, ListedIs DEF AllPlaced
<1>3. CASE tc.rows # {}
  <2>1. PICK S \in SUBSET Song : tc.free = Room[OneEach(S)] /\ Dated(S)
    BY <1>1 DEF Datable
  <2>2. S = OnDevice
    BY <1>3, <2>1 DEF Dated, Quiet
  <2>3. tc.free = Free
    BY <1>1, <2>1, <2>2, FreeIs
  <2> QED BY <1>1, <1>3, <2>3, TrustedDated
<1> QED BY <1>2, <1>3

LEMMA DatedQuiet ==
    ASSUME op'.at \in Quiet, UNCHANGED objs, NEW S, Dated(S), op.at \in Quiet, UNCHANGED tc PROVE Dated(S)'
<1>1. OnDevice' = OnDevice
  BY SameDevice
<1> QED BY <1>1 DEF Dated, Quiet, Removing, Copying, At

LEMMA DatableQuiet ==
    ASSUME tc # None => Datable, op'.at \in Quiet, UNCHANGED objs, op.at \in Quiet, UNCHANGED tc
    PROVE  tc' # None => Datable'
<1> SUFFICES ASSUME tc # None PROVE Datable'
  OBVIOUS
<1>1. PICK S \in SUBSET Song : tc.free = Room[OneEach(S)] /\ Dated(S)
  BY DEF Datable
<1>2. tc.header
  BY DEF Datable
<1> QED BY <1>1, <1>2, DatedQuiet, DatedAgain

LEMMA CalmStart ==
    ASSUME ZuneTypeOK, Singles, TruthOk, CalmOk, faults' = 0, faults = 0, Open \/ Reload \/ Close PROVE CalmOk'
<1>1. /\ UNCHANGED <<objs, tc, foreign, twins, cut, marred>> /\ shown' \in {shown, {}} /\ op'.at \in {"off", "collect"}
      /\ op.at \in {"off", "idle"}
  BY OpenDoes, ReloadDoes, CloseDoes DEF History
<1>2. OnDevice' = OnDevice /\ Listed' = Listed /\ (AllPlaced' <=> AllPlaced) /\ ((Trusted(Free))' <=> Trusted(Free))
      /\ \A t : Placed(t)' <=> Placed(t)
  BY <1>1, SameDevice, SameTrust, ListedSame
<1>3. twins = {} /\ cut = {} /\ marred = {} /\ (tc # None \/ op.at \in Early)
  BY DEF CalmOk
<1>4. foreign > 0 => AllPlaced \/ Trusted(Free)
  BY <1>1, AtRest DEF CalmOk
<1>5. ASSUME ~Stale' PROVE UpToDate'
  <2>1. ~Stale
    BY <1>1, <1>2, <1>5 DEF Stale, At
  <2>2. (tc # None => Datable) /\ RowsPlaced
    BY <2>1 DEF CalmOk, UpToDate
  <2>3. tc' # None => Datable'
    BY <1>1, <2>2, DatableQuiet DEF Quiet
  <2>4. RowsPlaced'
    BY <1>1, <1>2, <2>2, RowsStay
  <2>5. Sighted'
    BY <1>1 DEF Sighted, At, Copying
  <2> QED BY <2>3, <2>4, <2>5 DEF UpToDate
<1> QED BY <1>1, <1>2, <1>3, <1>4, <1>5 DEF CalmOk, Early

LEMMA CalmAsk ==
    ASSUME ZuneTypeOK, ZuneTypeOK', Singles, TruthOk, CalmInv, CalmOk, faults = 0, faults' = 0, Collect PROVE CalmOk'
<1>0. /\ op.at = "collect" /\ op.back \in {"idle", "warm"} /\ UNCHANGED <<objs, made, foreign, twins, cut, marred>>
      /\ faults \in Nat /\ foreign \in Nat
  BY CollectDoes DEF ZuneTypeOK
<1>1. Believes(Free) \/ Rereads(Free)
  <2>1. PICK free \in {Free, 0} : Asked(free) /\ (Believes(free) \/ Rereads(free))
    BY CollectDoes
  <2>2. free = Free
    BY <2>1 DEF Asked, Fails
  <2> QED BY <2>1, <2>2
<1>2. OnDevice' = OnDevice /\ (AllPlaced' <=> AllPlaced) /\ (\A t : Placed(t)' <=> Placed(t)) /\ Free' = Free
  BY <1>0, SameDevice
<1>3. twins = {} /\ cut = {} /\ marred = {} /\ OnDevice \in SUBSET Song
  BY DEF CalmOk, OnDevice
<1>4. CASE Believes(Free)
  <2>1. Good /\ ~Stale
    BY <1>0, <1>4 DEF TruthOk, Aware, Fresh, Believes, Trusted, Loadable, At, Stale
  <2>2. tc' = [tc EXCEPT !.header = TRUE, !.free = Free] /\ shown' = tc.rows /\ tc # None /\ tc \in TrackList
        /\ op'.at \in {"idle", "warm"} /\ UNCHANGED lib
    BY <1>0, <1>4 DEF Believes, Trusted, Loadable, ZuneTypeOK
  <2>3. Free \in Nat
    BY FreeType
  <2>4. tc'.rows = tc.rows /\ tc'.header /\ tc'.free = Free /\ tc' \in TrackList
    BY <2>2, <2>3 DEF TrackList
  <2>5. tc' # None /\ Listed' = Listed /\ shown' = Listed
    BY <2>2, <2>4, ZuneAssumption DEF Listed
  <2>6. RowsPlaced'
    <3>1. RowsPlaced
      BY <2>1 DEF CalmOk, UpToDate
    <3> QED BY <1>2, <2>5, <3>1, RowsStay
  <2>7. Sighted'
    <3>1. \A t \in OnDevice : Has(Listed, t)
      BY <1>0, <1>3, <2>1, ListedIs DEF Plain
    <3>2. \A t \in OnDevice' : Has(shown, t)'
      BY <1>2, <2>5, <3>1 DEF Has
    <3> QED BY <2>2, <3>2 DEF Sighted, At, Copying
  <2>8. Datable'
    <3>1. tc'.free = Room[OneEach(OnDevice)]
      BY <1>3, <2>4, FreeIs
    <3>2. ASSUME NEW S, S = OnDevice PROVE Dated(S)'
      BY <1>2, <2>2, <3>2 DEF Dated, Quiet, Removing, Copying, At
    <3> QED BY <1>3, <2>4, <2>5, <3>1, <3>2 DEF Datable
  <2> QED BY <1>0, <1>3, <2>2, <2>5, <2>6, <2>7, <2>8, CalmNext DEF Early
<1>5. CASE Rereads(Free)
  <2>1. ~Trusted(Free) /\ op'.at = "load" /\ op'.free = Free /\ UNCHANGED shown
        /\ IF Loadable THEN tc' = None ELSE UNCHANGED tc
    BY <1>5 DEF Rereads
  <2>2. foreign = 0 => ~Loadable
    BY <1>0, <2>1, CalmTrust DEF Quiet
  <2>3. foreign > 0 => AllPlaced
    BY <1>0, <2>1 DEF CalmOk
  <2>4. tc' # None => tc'.rows = {} /\ UNCHANGED tc
    BY <2>1 DEF Loadable
  <2>5. tc' # None \/ op'.at \in Early
    BY <2>1 DEF Early
  <2>6. ASSUME ~Stale' PROVE UpToDate'
    <3>1. foreign = 0
      BY <1>0, <2>1, <2>6 DEF Stale, At
    <3>2. UNCHANGED tc /\ ~Stale
      BY <2>1, <2>2, <3>1 DEF Stale
    <3>3. (tc # None => Datable) /\ RowsPlaced
      BY <3>2 DEF CalmOk, UpToDate
    <3>4. tc' # None => Datable'
      BY <1>0, <2>1, <3>2, <3>3, DatableQuiet DEF Quiet
    <3>5. RowsPlaced'
      BY <1>2, <2>1, <3>2, <3>3, RowsStay, ListedSame
    <3>6. Sighted'
      BY <2>1 DEF Sighted, At, Copying
    <3> QED BY <3>4, <3>5, <3>6 DEF UpToDate
  <2> QED BY <1>0, <1>2, <1>3, <2>1, <2>3, <2>4, <2>5, <2>6 DEF CalmOk, Early
<1> QED BY <1>1, <1>4, <1>5

\* A list that was read as it should be has every song a path leads to.
LEMMA CompleteHas ==
    ASSUME ZuneTypeOK, NEW rows, FullList(rows), NEW h \in Walked PROVE Has(rows, objs[h].of)
<1>1. CASE rows = ByFile(Walked)
  <2>1. Row(h, objs[h].of, "file") \in rows /\ Row(h, objs[h].of, "file").song = objs[h].of
    BY <1>1 DEF ByFile, Row
  <2> QED BY <2>1 DEF Has
<1>2. CASE \E S \in SUBSET OnDevice : Listable \subseteq S /\ rows = ByTitle(S)
  <2>1. PICK S \in SUBSET OnDevice : Listable \subseteq S /\ rows = ByTitle(S)
    BY <1>2
  <2>2. objs[h].of \in S
    BY <2>1 DEF Listable
  <2>3. \A t \in S : Row(0, t, ZmdbForm(t)) \in rows /\ Row(0, t, ZmdbForm(t)).song = t
    BY <2>1 DEF ByTitle, Row
  <2> QED BY <2>2, <2>3 DEF Has
<1> QED BY <1>1, <1>2 DEF FullList

\* A path leads to the songs that are in place.
LEMMA PlacedReached ==
    ASSUME PlainNames, ZuneTypeOK, NEW t \in OnDevice, Placed(t) PROVE \E h \in Walked : objs[h].of = t
<1>1. PICK h : h \in Copies(t) /\ t \in Song
  BY DEF OnDevice
<1>2. objs[h].in = AlbumDir(AlbumOf[t]) /\ AlbumDir(AlbumOf[t]) # Nowhere
  BY <1>1 DEF Placed
<1>3. /\ Is(AlbumDir(AlbumOf[t]), "album", AlbumOf[t])
      /\ objs[AlbumDir(AlbumOf[t])].in = Find(Root, "artist", ArtistOf[AlbumOf[t]])
      /\ Is(Find(Root, "artist", ArtistOf[AlbumOf[t]]), "artist", ArtistOf[AlbumOf[t]])
  BY <1>2, AlbumDirIs
<1>4. Reached(h)
  BY <1>2, <1>3 DEF Reached, Live, Is
<1> QED BY <1>1, <1>4 DEF Walked, Copies, Is

LEMMA CalmList ==
    ASSUME PlainNames, ZuneTypeOK, ZuneTypeOK', Singles, CalmOk, FirstInv, faults = 0, faults' = 0, Load PROVE CalmOk'
<1>0. op'.at \in {"idle", "warm"} /\ op.at = "load" /\ UNCHANGED <<objs, twins, cut, foreign>>
  BY LoadDoes
<1>1. PICK rows : /\ Findable(rows) /\ FullList(rows)
                  /\ tc' = [header |-> TRUE, free |-> op.free, rows |-> rows] /\ shown' = rows /\ marred' = Missing(rows)
  BY LoadDoes DEF Fails
<1>2. OnDevice' = OnDevice /\ \A t : Placed(t)' <=> Placed(t)
  BY <1>0, SameDevice
<1>3. twins = {} /\ cut = {} /\ OnDevice \in SUBSET Song /\ op.free = Free
  BY <1>0 DEF CalmOk, OnDevice
<1>4. tc'.rows = rows /\ tc'.header /\ tc'.free = Free
  BY <1>1, <1>3
<1>6. AllPlaced
  <2>1. foreign \in Nat
    BY DEF ZuneTypeOK
  <2>2. CASE foreign = 0
    BY <2>2 DEF FirstInv, FirstOk
  <2>3. CASE foreign > 0
    BY <1>0, <2>3 DEF CalmOk
  <2> QED BY <2>1, <2>2, <2>3
<1>5. \A t \in OnDevice : Has(rows, t)
  <2>1. TAKE t \in OnDevice
  <2>2. PICK h \in Walked : objs[h].of = t
    BY <1>6, <2>1, PlacedReached DEF AllPlaced
  <2> QED BY <1>1, <2>2, CompleteHas
<1>51. marred' = {}
  BY <1>1, <1>5 DEF Missing, Has
<1>7. \A r \in rows : r \in Entry /\ (r.id = 0 => Placed(r.song))
  <2>1. \A r \in rows : r \in Entry /\ r.song \in OnDevice
    BY <1>1, FindableIs DEF Found
  <2> QED BY <1>6, <2>1 DEF AllPlaced
<1>8. tc' # None /\ Listed' = rows
  <2>1. tc' \in TrackList
    BY <1>1, <1>3, <1>7, FreeType DEF TrackList
  <2> QED BY <1>4, <2>1, ZuneAssumption DEF Listed
<1>9. RowsPlaced'
  <2>1. \A r \in Listed' \cup shown' : r.id = 0 => Placed(r.song)'
    BY <1>1, <1>2, <1>7, <1>8
  <2> QED BY <2>1 DEF RowsPlaced
<1>10. Sighted'
  <2>1. \A t \in OnDevice' : Has(shown, t)'
    BY <1>1, <1>2, <1>5 DEF Has
  <2> QED BY <1>0, <2>1 DEF Sighted, At, Copying
<1>11. Datable'
  <2>1. tc'.free = Room[OneEach(OnDevice)]
    BY <1>3, <1>4, FreeIs
  <2>2. ASSUME NEW S, S = OnDevice PROVE Dated(S)'
    BY <1>0, <1>2, <2>2 DEF Dated, Quiet, Removing, Copying, At
  <2> QED BY <1>3, <1>4, <1>8, <2>1, <2>2 DEF Datable
<1> QED BY <1>0, <1>3, <1>8, <1>51, <1>9, <1>10, <1>11, CalmNext DEF Early

\* Steps that neither change the songs nor the lists.
LEMMA CalmSame ==
    ASSUME ZuneTypeOK, CalmOk, op.at \notin Early, op'.at \notin Early,
           \A t : Copies(t)' = Copies(t), UNCHANGED <<tc, shown, twins, cut, marred>>, Sighted',
           \A S \in SUBSET Song : Dated(S) => Dated(S)',
           \A r \in Listed \cup shown : Placed(r.song) => Placed(r.song)'
    PROVE  CalmOk'
<1>1. twins = {} /\ cut = {} /\ marred = {} /\ tc # None /\ Datable /\ RowsPlaced
  BY CalmNow
<1>2. RowsPlaced'
  BY <1>1, RowsStay, ListedSame
<1>3. Datable'
  <2>1. PICK S \in SUBSET Song : tc.free = Room[OneEach(S)] /\ Dated(S)
    BY <1>1 DEF Datable
  <2>2. tc.header
    BY <1>1 DEF Datable
  <2> QED BY <1>1, <2>1, <2>2, DatedAgain
<1> QED BY <1>1, <1>2, <1>3, CalmNext

LEMMA PlacedSame == ASSUME UNCHANGED objs PROVE \A r \in Listed \cup shown : Placed(r.song) => Placed(r.song)'
<1>1. \A t : Placed(t) => Placed(t)'
  BY SameDevice
<1> QED BY <1>1

\* Nothing on the device, or all of it, when nothing is under way.
LEMMA DatedIdle ==
    ASSUME ZuneTypeOK, TruthOk, CalmOk, op.at = "idle", NEW S \in SUBSET Song, Dated(S)
    PROVE  OnDevice \subseteq S /\ (tc.rows # {} => S = OnDevice)
<1>1. Plain /\ Good /\ twins = {} /\ cut = {} /\ marred = {} /\ tc # None
  BY AwareIsGood, CalmNow DEF Plain, Early, TruthOk
<1>2. tc.rows = {} => OnDevice = {}
  BY <1>1, ListedIs
<1>3. tc.rows # {} => S = OnDevice
  BY DEF Dated, Quiet
<1> QED BY <1>2, <1>3

LEMMA CalmIdle ==
    ASSUME ZuneTypeOK, TruthOk, CalmOk, Warm \/ StartRemoval \/ StartSync PROVE CalmOk'
<1>1. /\ op.at \in {"warm", "idle"} /\ op'.at \in {"idle", "rows", "next"} /\ UNCHANGED <<objs, tc, shown, twins, cut, marred>>
  BY WarmDoes, StartRemovalDoes, StartSyncDoes DEF History
<1>2. (\A t : Copies(t)' = Copies(t)) /\ OnDevice' = OnDevice
  BY <1>1, SameDevice
<1>3. Sighted'
  <2>1. \A t \in OnDevice : Has(shown, t)
    BY <1>1, CalmNow DEF Sighted, At, Early
  <2> QED BY <1>1, <1>2, <2>1 DEF Sighted, At, Copying, Has
<1>4. ASSUME NEW S \in SUBSET Song, Dated(S) PROVE Dated(S)'
  <2>1. CASE Warm
    BY <1>1, <1>2, <1>4, <2>1, WarmDoes, DatedQuiet DEF Quiet
  <2>2. CASE StartRemoval
    <3>1. OnDevice \subseteq S
      BY <1>4, <2>2, StartRemovalDoes, DatedIdle
    <3> QED BY <1>2, <2>2, <3>1, StartRemovalDoes DEF Dated, Quiet, Removing, Copying, At
  <2>3. CASE StartSync
    <3>1. OnDevice \subseteq S /\ (tc.rows # {} => S = OnDevice)
      BY <1>4, <2>3, StartSyncDoes, DatedIdle
    <3> QED BY <1>1, <1>2, <2>3, <3>1, StartSyncDoes DEF Dated, Quiet, Removing, Copying, At
  <2> QED BY <2>1, <2>2, <2>3
<1> QED BY <1>1, <1>2, <1>3, <1>4, CalmSame, PlacedSame DEF Early

LEMMA CalmNextRow ==
    ASSUME ZuneTypeOK, TruthOk, CalmOk, NextRow("rows") \/ NextRow("copies") PROVE CalmOk'
<1>1. PICK l \in {"rows", "copies"} : NextRow(l)
  OBVIOUS
<1>2. /\ op.at = l /\ op'.at = "delete" /\ op'.back = l /\ op'.row \in op.rows /\ op'.rows = op.rows \ {op'.row}
      /\ op'.todo = op.todo /\ op'.song = op.song /\ op'.ok = op.ok /\ UNCHANGED <<objs, tc, shown, twins, cut, marred>>
  BY <1>1, NextRowDoes DEF History
<1>3. (\A t : Copies(t)' = Copies(t)) /\ OnDevice' = OnDevice
  BY <1>2, SameDevice
<1>4. Sighted /\ twins = {} /\ marred = {}
  BY <1>2, CalmNow DEF Early
<1>5. ASSUME NEW S \in SUBSET Song, Dated(S) PROVE Dated(S)'
  BY <1>2, <1>3, <1>5 DEF Dated, Quiet, Removing, Copying, At
<1>6. \A t \in OnDevice' : Has(shown, t)'
  BY <1>2, <1>3, <1>4 DEF Sighted, At, Has
<1>7. l = "copies" => op'.row.song = op'.song /\ op'.rows = {}
  <2> SUFFICES ASSUME l = "copies" PROVE op'.row.song = op'.song /\ op'.rows = {}
    OBVIOUS
  <2>1. \A r \in op.rows : r.song = op.song /\ r \in shown /\ r.song \in Song
    BY <1>2, <1>4, RowTypes DEF Sighted, At, TruthOk, InHand, Entry
  <2>2. \A r, q \in op.rows : r = q
    BY <1>4, <2>1 DEF TruthOk, Paired
  <2> QED BY <1>2, <2>1, <2>2
<1>8. Sighted'
  BY <1>2, <1>6, <1>7 DEF Sighted, At, Copying
<1> QED BY <1>2, <1>3, <1>5, <1>8, CalmSame, PlacedSame DEF Early

\* A row that is shown leads to its song.
LEMMA RowLeads ==
    ASSUME ZuneTypeOK, RowsMeet, PlainNames, TruthOk, CalmOk, Delete
    PROVE  op.row.song \in OnDevice /\ Target(op.row) \in Copies(op.row.song)
<1>1. op.at = "delete" /\ twins = {} /\ cut = {} /\ marred = {} /\ RowsPlaced
  BY DeleteDoes, CalmNow DEF Early
<1>2. op.row \in shown /\ op.row \in Entry
  BY <1>1 DEF TruthOk, InHand, ZuneTypeOK, ZuneHand, At
<1>3. Good /\ Plain
  BY <1>1, AwareIsGood DEF Plain, TruthOk
<1>4. op.row.song \in OnDevice /\ (op.row.id > 0 => op.row.id \in Copies(op.row.song))
  BY <1>1, <1>2, <1>3, ListedIs
<1>5. Target(op.row) \in DOMAIN objs
  <2>1. CASE op.row.id > 0
    BY <1>4, <2>1 DEF Target, Copies
  <2>2. CASE ~(op.row.id > 0)
    <3>1. op.row.id = 0
      BY <1>2, <2>2 DEF Entry
    <3>2. Placed(op.row.song)
      BY <1>1, <1>2, <3>1 DEF RowsPlaced
    <3> QED BY <1>4, <2>2, <3>2, PathLeads DEF Target
  <2> QED BY <2>1, <2>2
<1> QED BY <1>4, <1>5, Hits

\* What is on the device but the one copy of a song that is deleted.
LEMMA CopyGone ==
    ASSUME PlainNames, ZuneTypeOK, ZuneTypeOK', Singles, twins = {}, NEW s \in OnDevice, NEW h \in Copies(s), objs' = Deleted({h}), UNCHANGED made
    PROVE  /\ OnDevice' = OnDevice \ {s}
           /\ \A t : Placed(t) => Placed(t)'
<1>1. \A t : Copies(t)' = Copies(t) \ {h}
  BY CopiesDeleted
<1>2. s \in Song
  BY DEF OnDevice
<1>3. \A t : t # s => h \notin Copies(t)
  BY DEF Copies, Is
<1>4. Copies(s) = {h}
  BY <1>2 DEF Singles
<1>5. (\A t : t # s => Copies(t)' = Copies(t)) /\ Copies(s)' = {}
  BY <1>1, <1>3, <1>4
<1>6. OnDevice' = OnDevice \ {s}
  BY <1>5 DEF OnDevice
<1>7. ASSUME NEW t, Placed(t) PROVE Placed(t)'
  <2>1. objs[h].kind = "track"
    BY DEF Copies, Is
  <2>2. AlbumDir(AlbumOf[t]) \notin {h} /\ Find(Root, "artist", ArtistOf[AlbumOf[t]]) \notin {h}
    BY <1>7, <2>1, AlbumDirIs DEF Placed, Is
  <2> QED BY <1>7, <2>2, PlacedDeleted
<1> QED BY <1>6, <1>7

LEMMA CalmDelete ==
    ASSUME ZuneTypeOK, ZuneTypeOK', RowsMeet, Singles, PlainNames, TruthOk, CalmOk, faults = 0, faults' = 0, Delete
    PROVE  CalmOk'
<1> DEFINE h == Target(op.row)
<1>1. op.row.song \in OnDevice /\ h \in Copies(op.row.song)
  BY RowLeads
<1>2. /\ op.at = "delete" /\ op'.at = "forget" /\ Holds /\ op.back \in {"rows", "copies"}
      /\ objs' = Deleted({h}) /\ UNCHANGED <<made, tc, shown, twins, cut, marred>>
  BY <1>1, DeleteDoes DEF Fails, FailsAt, History, Copies
<1>4. twins = {} /\ cut = {} /\ marred = {} /\ tc # None /\ Sighted /\ Datable /\ RowsPlaced
  BY <1>2, CalmNow DEF Early
<1>3. OnDevice' = OnDevice \ {op.row.song} /\ \A t : Placed(t) => Placed(t)'
  BY <1>1, <1>2, <1>4, CopyGone
<1>5. RowsPlaced'
  BY <1>2, <1>3, <1>4, RowsStay, ListedSame
<1>6. Sighted'
  BY <1>2, <1>3, <1>4 DEF Sighted, At, Copying, Has, Holds
<1>7. Datable'
  <2>1. PICK S \in SUBSET Song : tc.free = Room[OneEach(S)] /\ Dated(S)
    BY <1>4 DEF Datable
  <2>2. op.row.song \in S
    BY <1>1, <1>2, <1>4, <2>1 DEF Dated, Sighted, At
  <2>3. Dated(S)'
    BY <1>1, <1>2, <1>3, <2>1, <2>2 DEF Dated, Quiet, Removing, Copying, At, Holds
  <2>4. tc.header
    BY <1>4 DEF Datable
  <2> QED BY <1>2, <1>4, <2>1, <2>3, <2>4, DatedAgain
<1> QED BY <1>2, <1>4, <1>5, <1>6, <1>7, CalmNext DEF Early

LEMMA CalmForget ==
    ASSUME ZuneTypeOK, TruthOk, CalmOk, Forget PROVE CalmOk'
<1>1. /\ op.at = "forget" /\ op.back \in {"rows", "copies"} /\ op'.at = op.back /\ op'.back = op.back
      /\ op'.rows = op.rows /\ op'.todo = op.todo /\ op'.song = op.song
      /\ op'.ok = (op.ok \/ op.back = "rows")
      /\ Listed' = {r \in Listed : ~Gone(r, op.row)} /\ shown' = {r \in shown : ~SameName(r, op.row)}
      /\ tc # None => tc' # None /\ tc'.rows = Listed' /\ tc'.header = tc.header /\ tc'.free = tc.free
      /\ UNCHANGED <<objs, twins, cut, marred>>
  BY ForgetDoes DEF History
<1>2. OnDevice' = OnDevice /\ (\A t : Placed(t) => Placed(t)')
  BY <1>1, SameDevice
<1>3. twins = {} /\ cut = {} /\ marred = {} /\ tc # None /\ Sighted /\ Datable /\ RowsPlaced
  BY <1>1, CalmNow DEF Early
<1>4. RowsPlaced'
  BY <1>1, <1>2, <1>3, RowsStay
<1>5. PICK S \in SUBSET Song : tc.free = Room[OneEach(S)] /\ Dated(S)
  BY <1>3 DEF Datable
<1>6. op.row.song \in S \ OnDevice
  BY <1>1, <1>5 DEF Dated, At
<1>7. Sighted'
  <2>1. \A t \in OnDevice' : Has(shown, t)'
    <3>1. \A t \in OnDevice : Has(shown, t)
      BY <1>1, <1>3 DEF Sighted, At
    <3>2. \A r \in shown : r.song \in OnDevice => r \in shown'
      BY <1>1, <1>6 DEF SameName
    <3> QED BY <1>2, <3>1, <3>2 DEF Has
  <2>2. op.back = "copies" => op.rows = {} /\ op.song \notin OnDevice
    BY <1>1, <1>3, <1>6 DEF Sighted, At
  <2> QED BY <1>1, <1>2, <2>1, <2>2 DEF Sighted, At, Copying
<1>8. Dated(S)'
  BY <1>1, <1>2, <1>5, <1>6 DEF Dated, Quiet, Removing, Copying, At
<1>9. tc.header
  BY <1>3 DEF Datable
<1>10. Datable'
  BY <1>1, <1>3, <1>5, <1>8, <1>9, DatedAgain
<1> QED BY <1>1, <1>3, <1>4, <1>7, <1>10, CalmNext DEF Early

LEMMA CalmLook ==
    ASSUME PlainNames, ZuneTypeOK, ZuneTypeOK', TruthOk, CalmOk, faults = 0, faults' = 0, NEW h \in op.look, LookAt(h)
    PROVE  CalmOk'
<1>1. /\ op.at = "look" /\ op'.at \in {"unlink", "look"} /\ op.ok /\ op'.ok
      /\ (Children(h) = {} /\ objs' = Deleted({h})) \/ UNCHANGED objs
      /\ UNCHANGED <<made, tc, shown, twins, cut, marred>>
  BY LookDoes DEF Fails
<1>2. \A t : Copies(t)' = Copies(t)
  BY LookKeeps
<1>3. OnDevice' = OnDevice
  BY <1>2 DEF OnDevice
<1>4. twins = {} /\ cut = {} /\ marred = {} /\ Sighted
  BY <1>1, CalmNow DEF Early
<1>5. Sighted'
  BY <1>1, <1>3, <1>4 DEF Sighted, At, Copying, Has
<1>6. ASSUME NEW S \in SUBSET Song, Dated(S) PROVE Dated(S)'
  BY <1>1, <1>3, <1>6 DEF Dated, Quiet, Removing, Copying, At
<1>7. \A r \in Listed \cup shown : Placed(r.song) => Placed(r.song)'
  <2> SUFFICES ASSUME NEW r \in Listed \cup shown, Placed(r.song) PROVE Placed(r.song)'
    OBVIOUS
  <2>1. r.song \in OnDevice
    BY <1>1, <1>4, ListedIs, AwareIsGood, CalmNow DEF Plain, Early, TruthOk
  <2>2. CASE UNCHANGED objs
    BY <2>2, SameDevice
  <2>3. CASE Children(h) = {} /\ objs' = Deleted({h})
    <3>1. AlbumDir(AlbumOf[r.song]) \notin {h} /\ Find(Root, "artist", ArtistOf[AlbumOf[r.song]]) \notin {h}
      BY <2>1, <2>3, EmptyApart
    <3> QED BY <1>1, <2>3, <3>1, PlacedDeleted
  <2> QED BY <1>1, <2>2, <2>3
<1> QED BY <1>1, <1>2, <1>5, <1>6, <1>7, CalmSame DEF Early

LEMMA CalmClean ==
    ASSUME ZuneTypeOK, CalmOk, RowsDone \/ Unlink \/ Cleaned PROVE CalmOk'
<1>1. /\ op.at \in {"rows", "unlink", "look"} /\ op'.at \in {"look", "refresh"} /\ UNCHANGED <<objs, tc, shown, twins, cut, marred>>
      /\ op'.at = "look" => op'.ok = op.ok
  BY RowsDoneDoes, UnlinkDoes, CleanedDoes DEF History, Holds
<1>2. (\A t : Copies(t)' = Copies(t)) /\ OnDevice' = OnDevice
  BY <1>1, SameDevice
<1>3. Sighted'
  <2>1. \A t \in OnDevice : Has(shown, t)
    BY <1>1, CalmNow DEF Sighted, At, Early
  <2> QED BY <1>1, <1>2, <2>1 DEF Sighted, At, Copying, Has
<1>4. ASSUME NEW S \in SUBSET Song, Dated(S) PROVE Dated(S)'
  BY <1>1, <1>2, <1>4 DEF Dated, Quiet, Removing, Copying, At
<1> QED BY <1>1, <1>2, <1>3, <1>4, CalmSame, PlacedSame DEF Early

LEMMA CalmRefresh ==
    ASSUME ZuneTypeOK, Singles, CalmOk, faults = 0, faults' = 0, Refresh PROVE CalmOk'
<1>1. /\ op.at = "refresh" /\ op'.at = "idle" /\ op'.rows = {} /\ Listed' = Listed /\ (tc = None <=> tc' = None)
      /\ UNCHANGED <<objs, shown, twins, cut, marred>> /\ tc' = Noted(Free)
      /\ UNCHANGED tc \/ (Loadable /\ tc.header /\ tc'.header = tc.header /\ tc'.free = Free /\ tc'.rows = tc.rows)
  BY RefreshDoes DEF History, Fails
<1>2. OnDevice' = OnDevice /\ (\A t : Placed(t) => Placed(t)') /\ OnDevice \in SUBSET Song
  <2>1. OnDevice \in SUBSET Song
    BY DEF OnDevice
  <2> QED BY <1>1, <2>1, SameDevice
<1>3. twins = {} /\ cut = {} /\ marred = {} /\ tc # None /\ Sighted /\ Datable /\ RowsPlaced
  BY <1>1, CalmNow DEF Early
<1>4. RowsPlaced'
  BY <1>1, <1>2, <1>3, RowsStay
<1>5. Sighted'
  BY <1>1, <1>2, <1>3 DEF Sighted, At, Copying, Has
<1>6. Datable'
  <2>1. tc.header
    BY <1>3 DEF Datable
  <2>2. CASE Loadable /\ tc.header /\ tc'.header = tc.header /\ tc'.free = Free
    <3>1. tc'.free = Room[OneEach(OnDevice)]
      BY <1>3, <2>2, FreeIs
    <3>2. ASSUME NEW S, S = OnDevice PROVE Dated(S)'
      BY <1>1, <1>2, <3>2 DEF Dated, Quiet, Removing, Copying, At
    <3> QED BY <1>1, <1>2, <1>3, <2>1, <2>2, <3>1, <3>2 DEF Datable
  <2>3. CASE ~Loadable
    <3>1. UNCHANGED tc /\ tc.rows = {}
      BY <1>1, <1>3, <2>3 DEF Noted, Loadable
    <3>2. PICK S \in SUBSET Song : tc.free = Room[OneEach(S)]
      BY <1>3 DEF Datable
    <3>3. Dated(S)'
      BY <1>1, <3>1 DEF Dated, Quiet, Removing, Copying, At
    <3> QED BY <1>3, <2>1, <3>1, <3>2, <3>3, DatedAgain
  <2>4. Loadable => tc'.header = tc.header /\ tc'.free = Free
    BY <1>1, <1>3, <2>1, <2>2 DEF Noted, ZuneTypeOK, TrackList
  <2> QED BY <2>1, <2>2, <2>3, <2>4
<1> QED BY <1>1, <1>3, <1>4, <1>5, <1>6, CalmNext DEF Early

LEMMA CalmNextSong ==
    ASSUME PlainNames, ZuneTypeOK, RowsMeet, CalmOk, faults = 0, faults' = 0, NextSong \/ ImportTrack \/ SyncDone PROVE CalmOk'
<1>1. /\ op.at \in {"next", "copies"} /\ op'.at \in {"copies", "artist", "refresh", "idle"} /\ UNCHANGED <<objs, tc, shown, twins, cut, marred>>
  BY NextSongDoes, ImportDoes, SyncDoneDoes DEF History, NoLibrary, Fails
<1>2. (\A t : Copies(t)' = Copies(t)) /\ OnDevice' = OnDevice
  BY <1>1, SameDevice
<1>3. Sighted
  BY <1>1, CalmNow DEF Early
<1>4. \A t \in OnDevice' : Has(shown, t)'
  BY <1>1, <1>2, <1>3 DEF Sighted, At, Has
<1>5. Sighted' /\ \A S \in SUBSET Song : Dated(S) => Dated(S)'
  <2>1. CASE NextSong
    <3>1. /\ op.at = "next" /\ op'.at = "copies" /\ op'.song \in op.todo /\ op'.todo = op.todo \ {op'.song}
          /\ op'.rows = {r \in shown : r.song = op'.song}
      BY <2>1, NextSongDoes, PlainCopies
    <3>2. op'.song \in OnDevice' => Has(op'.rows, op'.song)
      BY <1>1, <1>4, <3>1 DEF Has
    <3>3. Sighted'
      BY <1>4, <3>1, <3>2 DEF Sighted, At, Copying, Has
    <3>4. ASSUME NEW S \in SUBSET Song, Dated(S) PROVE Dated(S)'
      BY <1>1, <1>2, <3>1, <3>4 DEF Dated, Quiet, Removing, Copying, At
    <3> QED BY <3>3, <3>4
  <2>2. CASE ImportTrack
    <3>1. op.at = "copies" /\ op.rows = {} /\ op'.at = "artist" /\ op'.song = op.song /\ op'.todo = op.todo
      BY <2>2, ImportDoes DEF Holds, NoLibrary, Fails
    <3>2. op.song \notin OnDevice
      BY <1>3, <3>1 DEF Sighted, At, Has
    <3>3. Sighted'
      BY <1>2, <1>4, <3>1, <3>2 DEF Sighted, At, Copying
    <3>4. ASSUME NEW S \in SUBSET Song, Dated(S) PROVE Dated(S)'
      BY <1>1, <1>2, <3>1, <3>4 DEF Dated, Quiet, Removing, Copying, At
    <3> QED BY <3>3, <3>4
  <2>3. CASE SyncDone
    <3>1. op.at = "next" /\ op'.at = (IF op.ok THEN "refresh" ELSE "idle")
      BY <2>3, SyncDoneDoes
    <3>3. Sighted'
      BY <1>4, <3>1 DEF Sighted, At, Copying
    <3>4. ASSUME NEW S \in SUBSET Song, Dated(S) PROVE Dated(S)'
      BY <1>1, <1>2, <3>1, <3>4 DEF Dated, Quiet, Removing, Copying, At
    <3> QED BY <3>3, <3>4
  <2> QED BY <2>1, <2>2, <2>3
<1> QED BY <1>1, <1>2, <1>5, CalmSame, PlacedSame DEF Early

LEMMA FoldersKeepPlaced ==
    ASSUME PlainNames, ZuneTypeOK, ZuneTypeOK', AddsFolder PROVE \A t : Placed(t) => Placed(t)'
BY PlacedWith DEF AddsFolder

LEMMA CalmPlace ==
    ASSUME PlainNames, ZuneTypeOK, ZuneTypeOK', CalmOk, faults = 0, faults' = 0,
           PlaceArtist \/ FileArtist \/ PlaceAlbum \/ AlbumObject \/ FileAlbum \/ (Upload /\ ~SentSong)
    PROVE  CalmOk'
<1>1. /\ op.at \in Copying /\ op'.at \in Copying \cup {"wedged"} /\ op'.song = op.song /\ op'.todo = op.todo
      /\ UNCHANGED <<tc, shown, twins, cut, marred>> /\ (UNCHANGED objs \/ AddsFolder)
  <2>1. CASE FileArtist \/ FileAlbum
    BY <2>1, FileArtistDoes, FileAlbumDoes DEF History, Copying, Holds
  <2>2. ~Fails
    BY DEF Fails
  <2>3. CASE PlaceArtist
    BY <2>2, <2>3, PlaceArtistDoes, FolderSteps DEF History, Copying, Holds, Finds, Makes, GivesUp, Wastes
  <2>4. CASE PlaceAlbum
    BY <2>2, <2>4, PlaceAlbumDoes, FolderSteps DEF History, Copying, Holds, Finds, Makes, Sticks, GivesUp, Wastes
  <2>5. CASE AlbumObject
    BY <2>2, <2>5, AlbumObjectDoes, FolderSteps DEF History, Copying, Holds
  <2>6. CASE Upload /\ ~SentSong
    <3>1. op'.at = "wedged" /\ UNCHANGED <<objs, twins, cut>>
      BY <2>2, <2>6, UploadNot
    <3>2. op.at = "upload" /\ Holds /\ UNCHANGED <<tc, shown, marred>>
      BY <2>6, UploadDoes
    <3> QED BY <3>1, <3>2 DEF Copying, Holds
  <2> QED BY <2>1, <2>3, <2>4, <2>5, <2>6
<1>2. (\A t : Copies(t)' = Copies(t)) /\ OnDevice' = OnDevice
  BY <1>1, SameDevice, AddsFolderDoes
<1>3. Sighted
  BY <1>1, CalmNow DEF Early, Copying
<1>4. Sighted'
  BY <1>1, <1>2, <1>3 DEF Sighted, At, Copying, Has
<1>5. ASSUME NEW S \in SUBSET Song, Dated(S) PROVE Dated(S)'
  BY <1>1, <1>2, <1>5 DEF Dated, Quiet, Removing, Copying, At
<1>6. \A r \in Listed \cup shown : Placed(r.song) => Placed(r.song)'
  BY <1>1, FoldersKeepPlaced, PlacedSame
<1> QED BY <1>1, <1>2, <1>4, <1>5, <1>6, CalmSame DEF Early, Copying

LEMMA CalmUpload ==
    ASSUME PlainNames, ZuneTypeOK, ZuneTypeOK', TruthOk, CalmOk, faults = 0, faults' = 0, Upload, SentSong PROVE CalmOk'
<1> DEFINE s == op.song
<1>1. /\ op.at = "upload" /\ op'.at = "record" /\ op'.song = op.song /\ op'.todo = op.todo /\ UNCHANGED <<tc, shown, cut, marred>> /\ s \in Song
      /\ s \notin op.todo
      /\ twins' = (IF Copies(s) # {} THEN twins \cup {s} ELSE twins)
      /\ AddsSong(s)
  <2>1. op.at = "upload" /\ Holds /\ UNCHANGED <<tc, shown, marred>>
    BY UploadDoes
  <2>2. op'.at = "record" /\ UNCHANGED cut
    BY UploadAdds DEF Fails
  <2> QED BY <2>1, <2>2, UploadAdds, HandType DEF Holds, Copying
<1>2. twins = {} /\ cut = {} /\ marred = {} /\ tc # None /\ Sighted /\ Datable /\ RowsPlaced
  BY <1>1, CalmNow DEF Early
<1>3. s \notin OnDevice
  BY <1>1, <1>2 DEF Sighted, At, Copying
<1>4. twins' = {}
  BY <1>1, <1>2, <1>3 DEF OnDevice
<1>5. OnDevice' = OnDevice \cup {s}
  BY <1>1, AddsSongDoes
<1>6. Sighted'
  BY <1>1, <1>2, <1>5 DEF Sighted, At, Copying, Has
<1>7. Datable'
  <2>1. PICK S \in SUBSET Song : tc.free = Room[OneEach(S)] /\ Dated(S)
    BY <1>2 DEF Datable
  <2>2. tc.header
    BY <1>2 DEF Datable
  <2>3. Dated(S)'
    BY <1>1, <1>5, <2>1 DEF Dated, Quiet, Removing, Copying, At
  <2> QED BY <1>1, <1>2, <2>1, <2>2, <2>3, DatedAgain
<1>8. RowsPlaced'
  <2>1. \A r \in Listed \cup shown : r.song # s
    BY <1>1, <1>2, <1>3, ListedIs, AwareIsGood DEF Plain, TruthOk
  <2>2. PICK d \in Nat : made < MaxHandle /\ made' = made + 1 /\ objs' = With(Object("track", s, d))
    BY <1>1 DEF AddsSong
  <2>3. Object("track", s, d) \in Thing /\ Object("track", s, d).of = s
    BY <1>1, ObjectType
  <2>4. \A r \in Listed \cup shown : Placed(r.song) => Placed(r.song)'
    BY <2>1, <2>2, <2>3, PlacedWith
  <2> QED BY <1>1, <1>2, <2>4, RowsStay, ListedSame
<1> QED BY <1>1, <1>2, <1>4, <1>6, <1>7, <1>8, CalmNext DEF Early

LEMMA CalmRecord ==
    ASSUME ZuneTypeOK, RowsMeet, CalmOk, Record PROVE CalmOk'
<1> DEFINE s == op.song
           r0 == Row(op.id, s, "file")
           q0 == Row(op.id, s, "title")
<1>1. /\ op.at = "record" /\ op'.at = "next" /\ op'.ok = TRUE /\ op'.todo = op.todo /\ UNCHANGED <<objs, twins, cut, marred>>
      /\ Listed' = Listed \cup {r0} /\ shown' = Shown(q0)
      /\ tc' # None /\ (tc # None => tc'.header = tc.header /\ tc'.free = tc.free)
  BY RecordDoes DEF History
<1>2. OnDevice' = OnDevice /\ (\A t : Placed(t) => Placed(t)')
  BY <1>1, SameDevice
<1>3. twins = {} /\ cut = {} /\ marred = {} /\ tc # None /\ Sighted /\ Datable /\ RowsPlaced
  BY <1>1, CalmNow DEF Early
<1>4. op.id # 0
  <2>1. op.id \in DOMAIN objs
    BY <1>1 DEF RowsMeet, At, Is
  <2> QED BY <2>1 DEF ZuneTypeOK
<1>5. r0.id = op.id /\ q0.id = op.id /\ q0.song = s
  BY DEF Row
<1>6. shown \subseteq shown' /\ shown' \subseteq shown \cup {q0} /\ Has(shown', s)
  BY <1>1, <1>5 DEF Shown, SameName, Has
<1> HIDE DEF r0, q0
<1>7. RowsPlaced'
  BY <1>1, <1>2, <1>3, <1>4, <1>5, <1>6, RowsStay
<1>8. Sighted'
  <2>1. \A t \in OnDevice' : Has(shown, t)'
    BY <1>1, <1>2, <1>3, <1>6 DEF Sighted, At, Has
  <2> QED BY <1>1, <2>1 DEF Sighted, At, Copying
<1>9. Datable'
  <2>1. PICK S \in SUBSET Song : tc.free = Room[OneEach(S)] /\ Dated(S)
    BY <1>3 DEF Datable
  <2>2. tc.header
    BY <1>3 DEF Datable
  <2>3. Dated(S)'
    BY <1>1, <1>2, <2>1 DEF Dated, Quiet, Removing, Copying, At
  <2> QED BY <1>1, <1>3, <2>1, <2>2, <2>3, DatedAgain
<1> QED BY <1>1, <1>3, <1>7, <1>8, <1>9, CalmNext DEF Early

\* The songs another computer leaves are where they were: it takes no folder from over them.
LEMMA StillPlaced ==
    ASSUME PlainNames, ZuneTypeOK, ZuneTypeOK', AllPlaced, NEW t \in Song, NEW h \in Copies(t), NEW also \in {{}, Emptied(h)},
           objs' = Deleted({h} \cup also), UNCHANGED made, NEW u \in OnDevice, u # t
    PROVE  Placed(u)'
<1> DEFINE d == objs[h].in
           e == AlbumDir(AlbumOf[u])
           a == Find(Root, "artist", ArtistOf[AlbumOf[u]])
<1>1. Placed(t) /\ Placed(u)
  BY DEF AllPlaced, OnDevice
<1>2. Is(d, "album", AlbumOf[t]) /\ Is(h, "track", t)
  BY <1>1, AlbumDirIs DEF Placed, Copies
<1>3. Is(e, "album", AlbumOf[u]) /\ objs[e].in = a /\ Is(a, "artist", ArtistOf[AlbumOf[u]])
  BY <1>1, AlbumDirIs DEF Placed
<1>4. PICK g : Is(g, "track", u) /\ objs[g].in = e
  BY <1>1 DEF OnDevice, Placed, Copies
<1>5. Children(d) = {h} => e # d
  BY <1>2, <1>4 DEF Children, Is
<1>6. also = {} \/ (Children(d) = {h} /\ also = {d} \cup {c \in DOMAIN objs : objs[c].kind = "alb" /\ objs[c].of = objs[d].of}
                                                  \cup {c \in DOMAIN objs : c = objs[d].in /\ Children(c) = {d}})
  BY DEF Emptied
<1>7. e \notin also
  <2>1. CASE also = {}
    BY <2>1
  <2>2. CASE also # {}
    <3>1. e # d /\ objs[e].kind # "alb"
      BY <1>3, <1>5, <1>6, <2>2 DEF Is
    <3>2. objs[d].in # e
      <4>1. Placed(t) /\ d = AlbumDir(AlbumOf[t])
        BY <1>1 DEF Placed
      <4>2. Is(objs[d].in, "artist", ArtistOf[AlbumOf[t]])
        BY <4>1, AlbumDirIs DEF Placed
      <4> QED BY <1>3, <4>2 DEF Is
    <3> QED BY <1>6, <2>2, <3>1, <3>2
  <2> QED BY <2>1, <2>2
<1>8. a \notin also
  <2>1. CASE also = {}
    BY <2>1
  <2>2. CASE also # {}
    <3>1. e # d
      BY <1>5, <1>6, <2>2
    <3>2. a # d /\ objs[a].kind # "alb"
      BY <1>2, <1>3 DEF Is
    <3>3. Children(a) # {d}
      BY <1>3, <3>1 DEF Children, Is
    <3> HIDE DEF a, e, d
    <3> QED BY <1>6, <2>2, <3>2, <3>3
  <2> QED BY <2>1, <2>2
<1>9. e # h /\ a # h
  BY <1>2, <1>3 DEF Is
<1> QED BY <1>1, <1>7, <1>8, <1>9, PlacedDeleted

LEMMA PlacedElsewhere ==
    ASSUME PlainNames, ZuneTypeOK, ZuneTypeOK', Singles, twins = {}, AllPlaced, DeletedElsewhere \/ AddedElsewhere
    PROVE  AllPlaced'
<1>1. CASE DeletedElsewhere
  <2>0. PICK t \in Song : \E h \in Copies(t) : \E also \in {{}, Emptied(h)} : objs' = Deleted({h} \cup also) /\ UNCHANGED made
    BY <1>1, DeletedDoes
  <2>1. PICK h \in Copies(t) : \E also \in {{}, Emptied(h)} : objs' = Deleted({h} \cup also) /\ UNCHANGED made
    BY <2>0
  <2>2. PICK also \in {{}, Emptied(h)} : objs' = Deleted({h} \cup also) /\ UNCHANGED made
    BY <2>1
  <2>3. OnDevice' \subseteq OnDevice
    BY <2>2, CopiesDeleted
  <2>4. t \notin OnDevice'
    <3>1. Copies(t) = {h}
      BY <2>0, <2>1 DEF Singles
    <3>2. Copies(t)' = Copies(t) \ ({h} \cup also)
      BY <2>2, CopiesDeleted
    <3> QED BY <3>1, <3>2 DEF OnDevice
  <2>5. \A u \in OnDevice' : Placed(u)'
    BY <2>0, <2>1, <2>2, <2>3, <2>4, StillPlaced
  <2> QED BY <2>5 DEF AllPlaced
<1>2. CASE AddedElsewhere
  <2>1. PICK t \in Song \ OnDevice : AddsSong(t) /\ AlbumDir(AlbumOf[t]) # Nowhere
                 /\ objs' = With(Object("track", t, AlbumDir(AlbumOf[t])))
    BY <1>2, AddedAdds
  <2> DEFINE o == Object("track", t, AlbumDir(AlbumOf[t]))
  <2>2. AlbumDir(AlbumOf[t]) \in Nat /\ made < MaxHandle /\ made' = made + 1
    BY <2>1, AlbumDirIs DEF AddsSong
  <2>3. o \in Thing /\ o.kind = "track" /\ o.of = t /\ o.in = AlbumDir(AlbumOf[t])
    BY <2>1, <2>2, ObjectType
  <2>4. OnDevice' = OnDevice \cup {t}
    BY <2>1, AddsSongDoes
  <2>5. Placed(t)
    BY <2>1 DEF Placed, OnDevice
  <2>6. \A u \in OnDevice' : Placed(u)
    BY <2>4, <2>5 DEF AllPlaced
  <2> HIDE DEF o
  <2>7. \A u : Placed(u) => Placed(u)'
    BY <2>1, <2>2, <2>3, PlacedWith DEF o
  <2> QED BY <2>6, <2>7 DEF AllPlaced
<1> QED BY <1>1, <1>2

LEMMA CalmElsewhere ==
    ASSUME PlainNames, ZuneTypeOK, ZuneTypeOK', Singles, Singles', CalmInv, CalmOk, AllPlaced, faults = 0, foreign = 0,
           DeletedElsewhere \/ AddedElsewhere
    PROVE  CalmOk'
<1>1. op.at = "off" /\ UNCHANGED <<tc, op, twins, cut, marred>> /\ foreign' = foreign + 1
  BY DeletedDoes, AddedDoes DEF History
<1>2. twins = {} /\ cut = {} /\ marred = {}
  BY DEF CalmOk
<1>3. ~(Trusted(Free))' /\ AllPlaced'
  BY <1>2, ElsewhereTells, PlacedElsewhere
<1> QED BY <1>1, <1>2, <1>3 DEF CalmOk, Stale, Early, At

LEMMA CalmOverlook == ASSUME ZuneTypeOK, Overlook, faults = 0, faults' = 0 PROVE FALSE
BY OverlookDoes DEF Fails

LEMMA CalmStep ==
    ASSUME ZuneTypeOK, ZuneTypeOK', RowsMeet, Singles, Singles', PlainNames, TruthInv, CalmInv, FirstInv,
           ZuneNext \/ UNCHANGED zuneVars
    PROVE  CalmInv'
<1> SUFFICES ASSUME faults' = 0, foreign' <= 1 PROVE CalmOk'
  BY DEF CalmInv
<1>1. CASE UNCHANGED zuneVars
  <2>1. CalmOk
    BY <1>1 DEF zuneVars, CalmInv
  <2>2. /\ OnDevice' = OnDevice /\ (AllPlaced' <=> AllPlaced) /\ ((Trusted(Free))' <=> Trusted(Free)) /\ Free' = Free
        /\ Listed' = Listed /\ (\A t : Placed(t)' <=> Placed(t)) /\ UNCHANGED <<op, tc, shown, foreign, twins, cut, marred>>
    BY <1>1, SameDevice, SameTrust, ListedSame DEF zuneVars
  <2>3. Stale' <=> Stale
    BY <2>2 DEF Stale, At
  <2>4. Sighted => Sighted'
    BY <2>2 DEF Sighted, At, Has
  <2>5. \A S : Dated(S) => Dated(S)'
    BY <2>2 DEF Dated, At
  <2>6. Datable => Datable'
    BY <2>2, <2>5 DEF Datable
  <2>7. RowsPlaced => RowsPlaced'
    BY <2>2 DEF RowsPlaced
  <2>8. UpToDate => UpToDate'
    BY <2>2, <2>4, <2>6, <2>7 DEF UpToDate
  <2> QED BY <2>1, <2>2, <2>3, <2>8 DEF CalmOk
<1> SUFFICES ASSUME ZuneNext PROVE CalmOk'
  BY <1>1
<1>2. faults = 0 /\ foreign <= 1 /\ foreign \in Nat /\ (foreign' = foreign + 1 => foreign = 0)
  BY MishapsGrow
<1>3. CalmOk /\ TruthOk
  <2>1. TruthOk
    BY <1>2 DEF TruthInv, Mishaps
  <2> QED BY <1>2, <2>1 DEF CalmInv
<1>4. CASE Listing
  BY <1>2, <1>3, <1>4, CalmStart, CalmAsk, CalmList, CalmIdle DEF Listing
<1>5. CASE Removal
  BY <1>2, <1>3, <1>5, CalmIdle, CalmNextRow, CalmDelete, CalmForget, CalmLook, CalmOverlook, CalmClean, CalmRefresh DEF Removal
<1>6. CASE Syncing
  BY <1>2, <1>3, <1>6, CalmIdle, CalmNextRow, CalmNextSong, CalmPlace, CalmUpload, CalmRecord DEF Syncing
<1>7. CASE DeletedElsewhere \/ AddedElsewhere
  <2>1. foreign' = foreign + 1
    BY <1>7, DeletedDoes, AddedDoes
  <2>2. foreign = 0
    BY <1>2, <2>1
  <2>3. AllPlaced
    BY <1>2, <2>2 DEF FirstInv, FirstOk
  <2> QED BY <1>2, <1>3, <1>7, <2>2, <2>3, CalmElsewhere
<1> QED BY <1>4, <1>5, <1>6, <1>7 DEF ZuneNext

-----------------------------------------------------------------------------
(* The library. *)

LEMMA AllSpared == op.at # "unlink" => \A kind, x : Spared(kind, x)
BY DEF Spared, At

\* What a scan files is there, however much of the device it read.
LEMMA ScannedAlive ==
    ASSUME PlainNames, ZuneTypeOK, NEW l,
           \A a \in Artist : l.artists[a] \in {Nowhere, ScannedArtist(a)},
           \A b \in Album : l.albums[b] \in {Nowhere, Root, HomeOf(b), DirOf(b)}
    PROVE  /\ \A a \in Artist : l.artists[a] # Nowhere => Is(l.artists[a], "artist", a)
           /\ \A b \in Album : l.albums[b] # Nowhere =>
                l.albums[b] = Root \/ Is(l.albums[b], "album", b) \/ Is(l.albums[b], "artist", ArtistOf[b])
<1>1. ASSUME NEW a \in Artist, l.artists[a] # Nowhere PROVE Is(l.artists[a], "artist", a)
  BY <1>1, NamedIs DEF ScannedArtist
<1>2. ASSUME NEW b \in Album PROVE HomeOf(b) = Root \/ Is(HomeOf(b), "artist", ArtistOf[b])
  BY NamedIs DEF HomeOf, ScannedArtist
<1>3. ASSUME NEW b \in Album PROVE DirOf(b) = HomeOf(b) \/ Is(DirOf(b), "album", b)
  BY FindIs DEF DirOf
<1> QED BY <1>1, <1>2, <1>3

LEMMA EnsureFiles ==
    ASSUME ZuneTypeOK, EnsureLibrary
    PROVE  \/ UNCHANGED libfile
           \/ /\ \A a \in Artist : libfile'.artists[a] \in {Nowhere, ScannedArtist(a)}
              /\ \A b \in Album : libfile'.albums[b] \in {Nowhere, Root, HomeOf(b), DirOf(b)}
<1>1. \A a \in Artist : Scanned.artists[a] = ScannedArtist(a)
  BY DEF Scanned
<1>2. \A b \in Album : Scanned.albums[b] \in {Nowhere, DirOf(b)}
  BY DEF Scanned
<1>3. ASSUME NEW A, NEW B, NEW D, NEW l, l = PartlyScanned(A, B, D)
      PROVE  /\ \A a \in Artist : l.artists[a] \in {Nowhere, ScannedArtist(a)}
             /\ \A b \in Album : l.albums[b] \in {Nowhere, Root, HomeOf(b), DirOf(b)}
  BY <1>3 DEF PartlyScanned
<1>4. CASE libfile' = Scanned
  BY <1>1, <1>2, <1>4
<1>5. CASE \E A \in SUBSET Artist, B, D \in SUBSET Album : libfile' = PartlyScanned(A, B, D)
  BY <1>3, <1>5
<1> QED BY <1>4, <1>5 DEF EnsureLibrary

\* A library outlives a step that takes no folder away.
LEMMA AliveStays ==
    ASSUME op.at # "unlink", \A h, kind, x : kind \in {"artist", "album"} /\ Is(h, kind, x) => Is(h, kind, x)',
           UNCHANGED libfile, Alive(libfile)
    PROVE  Alive(libfile)'
<1> DEFINE l == libfile
<1>1. \A a \in Artist : l.artists[a] # Nowhere => Is(l.artists[a], "artist", a)'
  BY AllSpared DEF Alive
<1>2. \A b \in Album : l.albums[b] # Nowhere =>
         l.albums[b] = Root \/ Is(l.albums[b], "album", b)' \/ Is(l.albums[b], "artist", ArtistOf[b])'
  BY AllSpared DEF Alive
<1> QED BY <1>1, <1>2 DEF Alive

LEMMA WithoutIs ==
    ASSUME NEW l \in Folders, NEW kind \in {"artist", "album"}, NEW x
    PROVE  LET m == WithoutDir(l, kind, x) IN
           /\ \A a \in Artist : m.artists[a] # Nowhere => m.artists[a] = l.artists[a] /\ ~(kind = "artist" /\ a = x)
           /\ \A b \in Album : m.albums[b] # Nowhere => /\ m.albums[b] = l.albums[b] /\ ~(kind = "album" /\ b = x)
                                                        /\ ~(kind = "artist" /\ ArtistOf[b] = x)
<1>1. l = [artists |-> l.artists, albums |-> l.albums] /\ l.artists \in [Artist -> Int] /\ l.albums \in [Album -> Int]
  BY DEF Folders
<1>2. CASE kind = "artist"
  <2>1. WithoutDir(l, kind, x).artists = [l.artists EXCEPT ![x] = Nowhere]
        /\ WithoutDir(l, kind, x).albums = [b \in Album |-> IF ArtistOf[b] = x THEN Nowhere ELSE l.albums[b]]
    BY <1>2 DEF WithoutDir, WithoutArtist
  <2>2. \A a \in Artist : [l.artists EXCEPT ![x] = Nowhere][a] = IF a = x THEN Nowhere ELSE l.artists[a]
    BY <1>1
  <2> QED BY <1>2, <2>1, <2>2
<1>3. CASE kind = "album"
  <2>1. WithoutDir(l, kind, x) = [l EXCEPT !.albums[x] = Nowhere]
    BY <1>3 DEF WithoutDir, WithoutAlbum
  <2>2. WithoutDir(l, kind, x).artists = l.artists /\ WithoutDir(l, kind, x).albums = [l.albums EXCEPT ![x] = Nowhere]
    BY <1>1, <2>1
  <2>3. \A b \in Album : [l.albums EXCEPT ![x] = Nowhere][b] = IF b = x THEN Nowhere ELSE l.albums[b]
    BY <1>1
  <2> QED BY <1>3, <2>2, <2>3
<1> QED BY <1>2, <1>3

LEMMA InvalidateIs ==
    ASSUME ZuneTypeOK, LibShape, libfile # None, NEW kind, NEW x, Invalidate(kind, x)
    PROVE  libfile \in Folders /\ libfile' = WithoutDir(libfile, kind, x)
BY DEF LibShape, Invalidate, ZuneTypeOK

LEMMA InvalidateNone ==
    ASSUME LibShape, libfile = None, NEW kind, NEW x, Invalidate(kind, x) PROVE libfile' = None
BY DEF LibShape, Invalidate

\* The entries of a folder that is gone go with it.
LEMMA AliveInvalid ==
    ASSUME ZuneTypeOK, LibShape, libfile # None, Alive(libfile), NEW kind \in {"artist", "album"}, NEW x, Invalidate(kind, x),
           UNCHANGED objs, op'.at # "unlink", op.at = "unlink" => kind = op.gone.kind /\ x = op.gone.of
    PROVE  Alive(libfile)'
<1> DEFINE l == libfile
           m == WithoutDir(libfile, kind, x)
<1>1. l \in Folders /\ libfile' = m
  BY InvalidateIs
<1>2. /\ \A a \in Artist : m.artists[a] # Nowhere => m.artists[a] = l.artists[a] /\ ~(kind = "artist" /\ a = x)
      /\ \A b \in Album : m.albums[b] # Nowhere => /\ m.albums[b] = l.albums[b] /\ ~(kind = "album" /\ b = x)
                                                   /\ ~(kind = "artist" /\ ArtistOf[b] = x)
  BY <1>1, WithoutIs
<1> HIDE DEF m
<1>3. \A k, y : ~(kind = k /\ y = x) => Spared(k, y)
  BY DEF Spared, At
<1>4. ASSUME NEW a \in Artist, m.artists[a] # Nowhere PROVE Is(m.artists[a], "artist", a)
  BY <1>2, <1>3, <1>4 DEF Alive
<1>5. ASSUME NEW b \in Album, m.albums[b] # Nowhere
      PROVE  m.albums[b] = Root \/ Is(m.albums[b], "album", b) \/ Is(m.albums[b], "artist", ArtistOf[b])
  BY <1>2, <1>3, <1>5 DEF Alive
<1>6. \A h, k, y : Is(h, k, y)' <=> Is(h, k, y)
  BY SameDevice
<1> QED BY <1>1, <1>4, <1>5, <1>6 DEF Alive

\* A folder is filed where it is.
LEMMA AliveFiled ==
    ASSUME ZuneTypeOK, LibShape, Alive(libfile), FileArtist \/ FileAlbum PROVE Alive(libfile)'
<1> DEFINE b == AlbumOf[op.song]
           a == ArtistOf[AlbumOf[op.song]]
<1>1. lib = libfile /\ lib \in Folders /\ a \in Artist /\ b \in Album /\ op.at # "unlink" /\ op'.at # "unlink" /\ UNCHANGED objs
  BY FileArtistDoes, FileAlbumDoes, HandType, ZuneAssumption DEF Copying, LibShape
<1>2. \A h, k, y : Is(h, k, y)' <=> Is(h, k, y)
  BY <1>1, SameDevice
<1>3. CASE FileArtist
  <2>1. libfile' = [lib EXCEPT !.artists[a] = op.id] /\ Is(op.id, "artist", a)
    BY <1>3, FileArtistDoes DEF LibShape, At
  <2>2. libfile'.artists = [lib.artists EXCEPT ![a] = op.id] /\ libfile'.albums = lib.albums
    BY <1>1, <2>1 DEF Folders
  <2>3. \A c \in Artist : libfile'.artists[c] # Nowhere => Is(libfile'.artists[c], "artist", c)
    BY <1>1, <2>1, <2>2, AllSpared DEF Alive, Folders
  <2>4. \A c \in Album : libfile'.albums[c] # Nowhere =>
           libfile'.albums[c] = Root \/ Is(libfile'.albums[c], "album", c) \/ Is(libfile'.albums[c], "artist", ArtistOf[c])
    BY <1>1, <2>2, AllSpared DEF Alive
  <2> QED BY <1>2, <2>3, <2>4 DEF Alive
<1>4. CASE FileAlbum
  <2>1. libfile' = [lib EXCEPT !.albums[b] = op.id] /\ Is(op.id, "album", b)
    BY <1>4, FileAlbumDoes DEF LibShape, At
  <2>2. libfile'.albums = [lib.albums EXCEPT ![b] = op.id] /\ libfile'.artists = lib.artists
    BY <1>1, <2>1 DEF Folders
  <2>3. \A c \in Artist : libfile'.artists[c] # Nowhere => Is(libfile'.artists[c], "artist", c)
    BY <1>1, <2>2, AllSpared DEF Alive
  <2>4. \A c \in Album : libfile'.albums[c] # Nowhere =>
           libfile'.albums[c] = Root \/ Is(libfile'.albums[c], "album", c) \/ Is(libfile'.albums[c], "artist", ArtistOf[c])
    BY <1>1, <2>1, <2>2, AllSpared DEF Alive, Folders
  <2> QED BY <1>2, <2>3, <2>4 DEF Alive
<1> QED BY <1>3, <1>4

\* A folder that goes leaves its entries to the step after it.
LEMMA AliveLook ==
    ASSUME ZuneTypeOK, Alive(libfile), NEW h \in op.look, LookAt(h), op'.at = "unlink" \/ UNCHANGED objs PROVE Alive(libfile)'
<1>1. op.at = "look" /\ h \in DOMAIN objs /\ UNCHANGED <<made, libfile>>
      /\ \/ objs' = Deleted({h}) /\ op'.at = "unlink" /\ op'.gone = objs[h]
         \/ op'.at = "look" /\ UNCHANGED objs
  BY LookDoes
<1>2. CASE op'.at = "look" /\ UNCHANGED objs
  <2>1. \A g, k, x : Is(g, k, x)' <=> Is(g, k, x)
    BY <1>2, SameDevice
  <2> QED BY <1>1, <2>1, AliveStays
<1>3. CASE objs' = Deleted({h}) /\ op'.at = "unlink" /\ op'.gone = objs[h]
  <2> DEFINE l == libfile
  <2>1. \A g, k, x : Is(g, k, x)' <=> Is(g, k, x) /\ g # h
    BY <1>1, <1>3, CopiesDeleted
  <2>2. \A k, x : Spared(k, x)' => ~Is(h, k, x)
    BY <1>3 DEF Spared, At, Is
  <2>3. \A k, x : Spared(k, x)
    BY <1>1, AllSpared
  <2>4. \A a \in Artist : Spared("artist", a)' /\ l.artists[a] # Nowhere => Is(l.artists[a], "artist", a)'
    BY <1>1, <2>1, <2>2, <2>3 DEF Alive
  <2>5. \A b \in Album : Spared("album", b)' /\ Spared("artist", ArtistOf[b])' /\ l.albums[b] # Nowhere =>
           l.albums[b] = Root \/ Is(l.albums[b], "album", b)' \/ Is(l.albums[b], "artist", ArtistOf[b])'
    BY <1>1, <2>1, <2>2, <2>3 DEF Alive
  <2> QED BY <1>1, <2>4, <2>5 DEF Alive
<1> QED BY <1>1, <1>2, <1>3

\* A song more or less, or a folder more, leaves the folders there are.
LEMMA AliveDevice ==
    ASSUME ZuneTypeOK, UNCHANGED libfile, Alive(libfile), op.at # "unlink",
           \/ UNCHANGED objs \/ AddsFolder \/ (\E s \in Song : AddsSong(s))
           \/ \E h \in DOMAIN objs : objs' = Deleted({h}) /\ UNCHANGED made /\ objs[h].kind = "track"
    PROVE  Alive(libfile)'
<1>1. \A h, kind, x : kind \in {"artist", "album"} /\ Is(h, kind, x) => Is(h, kind, x)'
  <2>1. CASE UNCHANGED objs
    BY <2>1, SameDevice
  <2>2. CASE AddsFolder
    BY <2>2, AddsFolderDoes
  <2>3. CASE \E s \in Song : AddsSong(s)
    BY <2>3, AddsSongDoes
  <2>4. CASE \E h \in DOMAIN objs : objs' = Deleted({h}) /\ UNCHANGED made /\ objs[h].kind = "track"
    <3>1. PICK g \in DOMAIN objs : objs' = Deleted({g}) /\ UNCHANGED made /\ objs[g].kind = "track"
      BY <2>4
    <3>2. \A h, kind, x : Is(h, kind, x)' <=> Is(h, kind, x) /\ h # g
      BY <3>1, CopiesDeleted
    <3> QED BY <3>1, <3>2 DEF Is
  <2> QED BY <2>1, <2>2, <2>3, <2>4
<1> QED BY <1>1, AliveStays

LEMMA LibOn ==
    ASSUME ZuneTypeOK, LibFine, op.at # "unlink", UNCHANGED libfile, faults' \in {faults, faults + 1}, bare => bare',
           op'.at # "wedged",
           \/ UNCHANGED objs \/ AddsFolder \/ (\E s \in Song : AddsSong(s))
           \/ \E h \in DOMAIN objs : objs' = Deleted({h}) /\ UNCHANGED made /\ objs[h].kind = "track"
    PROVE  LibOk'
<1>1. faults \in Nat
  BY DEF ZuneTypeOK
<1>2. CASE libfile = None
  BY <1>2 DEF LibOk, LibFine
<1>3. CASE Alive(libfile)
  BY <1>3, AliveDevice DEF LibOk, LibFine
<1>4. CASE faults > 0 /\ bare
  BY <1>1, <1>4 DEF LibOk, LibFine
<1> QED BY <1>2, <1>3, <1>4 DEF LibFine

\* Most steps leave the library cache as it is.
LEMMA LibQuiet ==
    ASSUME ZuneTypeOK, RowsMeet, LibFine,
           \/ Open \/ Reload \/ Load \/ StartRemoval \/ NextRow("rows") \/ Delete \/ RowsDone \/ Overlook \/ Cleaned \/ Refresh
           \/ StartSync \/ NextSong \/ NextRow("copies") \/ Record \/ SyncDone \/ (Close /\ op.at # "unlink")
    PROVE  LibOk'
<1>1. CASE \/ Open \/ Reload \/ Load \/ StartRemoval \/ NextRow("rows") \/ RowsDone \/ Overlook \/ Cleaned \/ Refresh
           \/ StartSync \/ NextSong \/ NextRow("copies") \/ Record \/ SyncDone \/ (Close /\ op.at # "unlink")
  <2>1. /\ op.at # "unlink" /\ op'.at # "wedged" /\ UNCHANGED <<objs, libfile, bare>> /\ faults' \in {faults, faults + 1}
    <3>1. CASE Open \/ Reload \/ Load \/ (Close /\ op.at # "unlink")
      BY <3>1, OpenDoes, ReloadDoes, LoadDoes, CloseDoes DEF History, Fails
    <3>2. CASE StartRemoval \/ NextRow("rows") \/ NextRow("copies") \/ RowsDone \/ Overlook \/ Cleaned \/ Refresh
      BY <3>2, StartRemovalDoes, NextRowDoes, RowsDoneDoes, OverlookDoes, CleanedDoes, RefreshDoes DEF History, Fails
    <3>3. CASE StartSync \/ NextSong \/ Record \/ SyncDone
      BY <3>3, StartSyncDoes, NextSongDoes, RecordDoes, SyncDoneDoes DEF History
    <3> QED BY <1>1, <3>1, <3>2, <3>3
  <2> QED BY <2>1, LibOn
<1>2. CASE Delete
  <2>1. /\ op.at = "delete" /\ op'.at # "wedged" /\ UNCHANGED <<libfile, bare, made>> /\ faults' \in {faults, faults + 1}
        /\ \/ UNCHANGED objs
           \/ \E h \in Targets(op.row) \cup ({Target(op.row)} \cap DOMAIN objs) : objs' = Deleted({h})
    BY <1>2, DeleteDoes DEF FailsAt, Fails
  <2>2. \A h \in Targets(op.row) \cup ({Target(op.row)} \cap DOMAIN objs) : h \in DOMAIN objs /\ objs[h].kind = "track"
    <3>1. op.row \in Entry /\ Meets(op.row)
      BY <2>1 DEF At, ZuneTypeOK, ZuneHand, RowsMeet
    <3>2. CASE op.row.id > 0
      BY <3>1, <3>2 DEF Target, Targets, Meets, Is
    <3>3. CASE ~(op.row.id > 0)
      BY <3>3, ResolveIs, LeadsIs DEF Target, Targets
    <3> QED BY <3>2, <3>3
  <2> QED BY <2>1, <2>2, LibOn
<1> QED BY <1>1, <1>2

LEMMA LibEnsure ==
    ASSUME PlainNames, ZuneTypeOK, LibShape, LibFine, Warm \/ ImportTrack PROVE LibOk'
<1>1. /\ EnsureLibrary \/ NoLibrary
      /\ UNCHANGED <<objs, made, bare>> /\ op.at # "unlink" /\ op'.at \in {"idle", "artist", "next"}
      /\ faults' \in {faults, faults + 1}
  BY WarmDoes, ImportDoes, EnsureDoes DEF History, Fails
<1>2. CASE UNCHANGED libfile
  BY <1>1, <1>2, LibOn
<1>3. CASE /\ \A a \in Artist : libfile'.artists[a] \in {Nowhere, ScannedArtist(a)}
           /\ \A b \in Album : libfile'.albums[b] \in {Nowhere, Root, HomeOf(b), DirOf(b)}
  <2>1. \A h, k, y : Is(h, k, y)' <=> Is(h, k, y)
    BY <1>1, SameDevice
  <2>2. /\ \A a \in Artist : libfile'.artists[a] # Nowhere => Is(libfile'.artists[a], "artist", a)
        /\ \A b \in Album : libfile'.albums[b] # Nowhere =>
             libfile'.albums[b] = Root \/ Is(libfile'.albums[b], "album", b) \/ Is(libfile'.albums[b], "artist", ArtistOf[b])
    BY <1>3, ScannedAlive
  <2>3. Alive(libfile)'
    BY <2>1, <2>2 DEF Alive
  <2> QED BY <1>1, <2>3 DEF LibOk, LibFine
<1> QED BY <1>1, <1>2, <1>3, EnsureFiles DEF NoLibrary

LEMMA LibFolders ==
    ASSUME ZuneTypeOK, LibShape, LibFine, PlaceArtist \/ PlaceAlbum \/ AlbumObject \/ Upload PROVE LibOk'
<1> DEFINE b == AlbumOf[op.song]
           a == ArtistOf[AlbumOf[op.song]]
<1>0. op.at \in Copying
  BY PlaceArtistDoes, PlaceAlbumDoes, AlbumObjectDoes, UploadDoes DEF Copying
<1>1. UNCHANGED <<libfile, bare>> /\ op.at # "unlink" /\ lib = libfile /\ libfile # None /\ b \in Album /\ a \in Artist
      /\ ArtistOf[b] = a
  BY <1>0, HandType, PlaceArtistDoes, PlaceAlbumDoes, AlbumObjectDoes, UploadDoes, ZuneAssumption DEF LibShape, History, Copying
<1>2. faults' \in {faults, faults + 1}
  <2>1. CASE PlaceArtist
    BY <2>1, PlaceArtistDoes DEF Finds, Makes, GivesUp, Wastes, Fails
  <2>2. CASE PlaceAlbum
    BY <2>2, PlaceAlbumDoes DEF Finds, Makes, GivesUp, Wastes, Sticks, Fails
  <2>3. CASE AlbumObject
    BY <2>3, AlbumObjectDoes DEF Fails
  <2>4. CASE Upload
    BY <2>4, UploadDoes DEF Sends, Sticks, GivesUp, Fails
  <2> QED BY <2>1, <2>2, <2>3, <2>4
<1>3. UNCHANGED objs \/ AddsFolder \/ \E s \in Song : AddsSong(s)
  BY FolderSteps, UploadAdds, UploadNot
<1>4. CASE op'.at # "wedged"
  BY <1>1, <1>2, <1>3, <1>4, LibOn
<1>5. CASE op'.at = "wedged"
  <2>1. ~Alive(libfile)
    <3> SUFFICES ASSUME Alive(libfile) PROVE FALSE
      OBVIOUS
    <3>1. CASE PlaceArtist \/ AlbumObject
      BY <1>5, <3>1, PlaceArtistDoes, AlbumObjectDoes DEF Finds, Makes, GivesUp, Wastes
    <3>2. CASE PlaceAlbum
      <4>1. ~Live(lib.artists[a]) /\ lib.artists[a] # Nowhere
        BY <1>5, <3>2, PlaceAlbumDoes DEF Finds, Makes, GivesUp, Wastes, Sticks, LibShape, At
      <4> QED BY <1>1, <4>1, AllSpared DEF Alive, Live, Is
    <3>3. CASE Upload
      <4>1. ~Live(lib.albums[b]) /\ lib.albums[b] # Nowhere
        BY <1>5, <3>3, UploadDoes DEF Sends, GivesUp, Sticks, LibShape, At
      <4> QED BY <1>1, <4>1, AllSpared DEF Alive, Live, Is
    <3> QED BY <3>1, <3>2, <3>3
  <2>2. faults > 0 /\ bare
    BY <1>1, <2>1 DEF LibFine
  <2>3. faults' > 0 /\ bare'
    BY <1>1, <1>2, <2>2 DEF ZuneTypeOK
  <2> QED BY <2>3 DEF LibOk, LibFine
<1> QED BY <1>4, <1>5

LEMMA LibWrites ==
    ASSUME ZuneTypeOK, LibShape, LibFine, Forget \/ Unlink \/ FileArtist \/ FileAlbum PROVE LibOk'
<1>1. UNCHANGED <<objs, made, faults, bare>> /\ op'.at \notin {"wedged", "unlink"}
  BY ForgetDoes, UnlinkDoes, FileArtistDoes, FileAlbumDoes DEF History
<1>2. CASE faults > 0 /\ bare
  BY <1>1, <1>2 DEF LibOk, LibFine
<1>3. ASSUME Alive(libfile)' PROVE LibOk'
  BY <1>1, <1>3 DEF LibOk, LibFine
<1>4. CASE FileArtist \/ FileAlbum
  <2>1. libfile # None
    BY <1>4, FileArtistDoes, FileAlbumDoes, HandType, ZuneAssumption DEF LibShape, Copying
  <2> QED BY <1>2, <1>3, <1>4, <2>1, AliveFiled DEF LibFine
<1>5. CASE Forget
  <2>1. op.at = "forget" /\ (UNCHANGED libfile \/ \E x : Invalidate("album", x))
    BY <1>5, ForgetDoes
  <2>2. CASE UNCHANGED libfile
    BY <1>1, <2>1, <2>2, LibOn
  <2>3. CASE \E x : Invalidate("album", x)
    <3>1. CASE libfile = None
      BY <1>1, <2>3, <3>1, InvalidateNone DEF LibOk, LibFine
    <3>2. CASE libfile # None /\ Alive(libfile)
      BY <1>1, <1>3, <2>1, <2>3, <3>2, AliveInvalid
    <3> QED BY <1>2, <3>1, <3>2 DEF LibFine
  <2> QED BY <2>1, <2>2, <2>3
<1>6. CASE Unlink
  <2>1. op.at = "unlink" /\ Invalidate(op.gone.kind, op.gone.of) /\ op.gone.kind \in {"artist", "album"}
    BY <1>6, UnlinkDoes
  <2>2. CASE libfile = None
    BY <1>1, <2>1, <2>2, InvalidateNone DEF LibOk, LibFine
  <2>3. CASE libfile # None /\ Alive(libfile)
    BY <1>1, <1>3, <2>1, <2>3, AliveInvalid
  <2> QED BY <1>2, <2>2, <2>3 DEF LibFine
<1> QED BY <1>4, <1>5, <1>6

LEMMA LibLook ==
    ASSUME ZuneTypeOK, LibFine, NEW h \in op.look, LookAt(h) PROVE LibOk'
<1>1. /\ UNCHANGED libfile /\ op'.at # "wedged" /\ faults' \in {faults, faults + 1} /\ faults \in Nat /\ (bare => bare')
      /\ (op'.at = "unlink" \/ UNCHANGED objs) \/ (faults' > 0 /\ bare')
  <2>1. faults \in Nat /\ UNCHANGED libfile
    BY LookDoes DEF ZuneTypeOK
  <2>2. CASE op'.at = "unlink"
    BY <2>1, <2>2, LookDoes DEF Fails
  <2>3. CASE op'.at = "look" /\ Fails /\ bare'
    BY <2>1, <2>3 DEF Fails
  <2>4. CASE op'.at = "look" /\ UNCHANGED <<objs, faults, bare>>
    BY <2>1, <2>4
  <2> QED BY <2>2, <2>3, <2>4, LookDoes
<1>2. CASE libfile = None \/ (faults > 0 /\ bare) \/ (faults' > 0 /\ bare')
  BY <1>1, <1>2 DEF LibOk, LibFine
<1>3. CASE Alive(libfile) /\ (op'.at = "unlink" \/ UNCHANGED objs)
  BY <1>1, <1>3, AliveLook DEF LibOk, LibFine
<1> QED BY <1>1, <1>2, <1>3 DEF LibFine

\* The session that ends before it drops a folder's entries has noted less room than there is.
LEMMA LibCut ==
    ASSUME ZuneTypeOK, Singles, CalmInv, Close, op.at = "unlink", faults' + foreign' <= 1 PROVE LibOk'
<1>1. UNCHANGED <<objs, tc, foreign>> /\ faults' = faults + 1 /\ op'.at = "off" /\ faults \in Nat /\ foreign \in Nat
  BY CloseDoes DEF ZuneTypeOK
<1>2. ~(Trusted(Free))'
  BY <1>1, CalmTrust, SameTrust
<1> QED BY <1>1, <1>2 DEF LibOk, LibDoubt, Mishaps

LEMMA LibAsk ==
    ASSUME ZuneTypeOK, LibFine \/ LibDoubt, Collect, faults' + foreign' <= 1 PROVE LibOk'
<1>1. /\ op.at = "collect" /\ UNCHANGED <<objs, foreign>> /\ bare' = (bare \/ (~Loadable /\ (lib # None \/ libfile # None)))
      /\ faults \in Nat /\ foreign \in Nat /\ op.back \in {"idle", "warm"}
  BY CollectDoes DEF ZuneTypeOK
<1>2. PICK free \in {Free, 0} : Asked(free) /\ (Believes(free) \/ Rereads(free))
  BY CollectDoes
<1>3. faults' \in {faults, faults + 1} /\ op'.at \in {"idle", "warm", "load"} /\ (bare \in BOOLEAN)
  BY <1>1, <1>2 DEF Asked, Fails, Believes, Rereads, ZuneTypeOK
<1>4. libfile' \in {libfile, None}
  BY <1>2 DEF Believes, Rereads
<1>5. CASE LibFine
  <2>1. CASE UNCHANGED libfile
    BY <1>1, <1>3, <1>5, <2>1, LibOn
  <2>2. CASE libfile' = None
    BY <1>3, <2>2 DEF LibOk, LibFine
  <2> QED BY <1>4, <2>1, <2>2
<1>6. CASE LibDoubt
  <2>1. faults + foreign = 1 /\ ~Trusted(Free) /\ (Loadable \/ faults > 0)
    BY <1>6 DEF LibDoubt, Mishaps
  <2>2. free = Free /\ faults' = faults
    BY <1>1, <1>2, <2>1 DEF Asked, Fails
  <2>3. Rereads(Free)
    BY <1>2, <2>1, <2>2 DEF Believes
  <2>4. CASE Loadable
    BY <1>3, <2>3, <2>4 DEF Rereads, LibOk, LibFine
  <2>5. CASE ~Loadable
    <3>1. faults > 0 /\ UNCHANGED libfile
      BY <2>1, <2>3, <2>5 DEF Rereads
    <3> QED BY <1>1, <1>3, <2>2, <2>5, <3>1 DEF LibOk, LibFine
  <2> QED BY <2>4, <2>5
<1> QED BY <1>5, <1>6

LEMMA LibElsewhere ==
    ASSUME PlainNames, ZuneTypeOK, Singles, Singles', LibFine, TruthOk, CalmInv, FirstOk, faults = 0, foreign = 0,
           DeletedElsewhere \/ AddedElsewhere
    PROVE  LibOk'
<1>1. op.at = "off" /\ UNCHANGED <<op, tc, libfile, faults, bare>> /\ foreign' = foreign + 1
  BY DeletedDoes, AddedDoes DEF History
<1>2. CASE AddedElsewhere
  BY <1>1, <1>2, AddedAdds, LibOn
<1>21. CASE libfile = None
  BY <1>1, <1>21 DEF LibOk, LibFine
<1>3. CASE DeletedElsewhere /\ libfile # None
  <2>1. OnDevice # {}
    BY <1>3, DeletedDoes DEF OnDevice
  <2>2. Loadable
    <3>1. tc # None /\ twins = {} /\ cut = {} /\ marred = {}
      BY <1>3 DEF CalmInv, CalmOk, FirstOk
    <3>2. Good /\ Plain
      BY <1>1, <3>1, CalmIsGood DEF Plain, TruthOk, Fresh
    <3> QED BY <2>1, <3>1, <3>2, ListedIs DEF Loadable
  <2>3. Loadable'
    BY <1>1, <2>2 DEF Loadable
  <2> QED BY <1>1, <2>3, ElsewhereTells DEF FirstOk, LibOk, LibDoubt, Mishaps
<1> QED BY <1>2, <1>21, <1>3

LEMMA LibStep ==
    ASSUME PlainNames, ZuneTypeOK, RowsMeet, Singles, Singles', LibShape, TruthInv, CalmInv, FirstInv, LibInv, ZuneNext \/ UNCHANGED zuneVars
    PROVE  LibInv'
<1> SUFFICES ASSUME faults' + foreign' <= 1 PROVE LibOk'
  BY DEF LibInv, Mishaps
<1>1. CASE UNCHANGED zuneVars
  <2>1. LibOk
    BY <1>1 DEF zuneVars, LibInv, Mishaps
  <2>2. UNCHANGED <<op, tc, libfile, faults, foreign, bare, objs>>
    BY <1>1 DEF zuneVars
  <2>3. (\A h, k, y : Is(h, k, y)' <=> Is(h, k, y)) /\ ((Trusted(Free))' <=> Trusted(Free)) /\ (Loadable' <=> Loadable)
    BY <2>2, SameDevice, SameTrust DEF Loadable
  <2>4. Alive(libfile)' <=> Alive(libfile)
    BY <2>2, <2>3 DEF Alive, Spared, At
  <2> QED BY <2>1, <2>2, <2>3, <2>4 DEF LibOk, LibFine, LibDoubt, Mishaps
<1> SUFFICES ASSUME ZuneNext PROVE LibOk'
  BY <1>1
<1>2. LibOk /\ TruthOk /\ faults \in Nat /\ foreign \in Nat
  <2>1. faults + foreign <= 1 /\ faults \in Nat /\ foreign \in Nat
    BY MishapsGrow
  <2> QED BY <2>1 DEF LibInv, TruthInv, Mishaps
<1>3. CASE LibDoubt /\ op.at \in {"off", "collect"}
  <2>1. CASE Open
    <3>1. op'.at = "collect" /\ UNCHANGED <<objs, tc, faults, foreign>>
      BY <2>1, OpenDoes
    <3>2. ((Trusted(Free))' <=> Trusted(Free)) /\ (Loadable' <=> Loadable)
      BY <3>1, SameTrust DEF Loadable
    <3> QED BY <1>3, <3>1, <3>2 DEF LibOk, LibDoubt, Mishaps
  <2>2. CASE Collect
    BY <1>3, <2>2, LibAsk
  <2>3. ~Close /\ ~DeletedElsewhere /\ ~AddedElsewhere
    BY <1>2, <1>3, CloseDoes, DeletedDoes, AddedDoes DEF LibDoubt, Mishaps
  <2> QED BY <1>3, <2>1, <2>2, <2>3, ReloadDoes, LoadDoes, WarmDoes, StartRemovalDoes, NextRowDoes, DeleteDoes, ForgetDoes,
             RowsDoneDoes, LookDoes, OverlookDoes, UnlinkDoes, CleanedDoes, RefreshDoes, StartSyncDoes, NextSongDoes, ImportDoes,
             PlaceArtistDoes, FileArtistDoes, PlaceAlbumDoes, AlbumObjectDoes, FileAlbumDoes, UploadDoes, RecordDoes, SyncDoneDoes
             DEF ZuneNext, Listing, Removal, Syncing
<1>4. CASE LibFine
  <2>1. CASE Listing
    BY <1>4, <2>1, LibQuiet, LibAsk, LibEnsure, LibCut DEF Listing
  <2>2. CASE Removal
    BY <1>4, <2>2, LibQuiet, LibWrites, LibLook DEF Removal
  <2>3. CASE Syncing
    BY <1>4, <2>3, LibQuiet, LibEnsure, LibFolders, LibWrites DEF Syncing
  <2>4. CASE DeletedElsewhere \/ AddedElsewhere
    <3>1. foreign' = foreign + 1 /\ UNCHANGED faults
      BY <2>4, DeletedDoes, AddedDoes
    <3>2. faults = 0 /\ foreign = 0
      BY <1>2, <3>1
    <3>3. FirstOk
      BY <3>2 DEF FirstInv
    <3> QED BY <1>2, <1>4, <2>4, <3>2, <3>3, LibElsewhere
  <2> QED BY <2>1, <2>2, <2>3, <2>4 DEF ZuneNext
<1> QED BY <1>2, <1>3, <1>4 DEF LibOk, LibDoubt, Mishaps

-----------------------------------------------------------------------------
(* Before any mishap the library is exact. *)

LEMMA AlbumDirWith ==
    ASSUME PlainNames, ZuneTypeOK, ZuneTypeOK', made < MaxHandle, made' = made + 1, NEW o \in Thing, objs' = With(o),
           NEW b, AlbumDir(b) # Nowhere
    PROVE  AlbumDir(b)' = AlbumDir(b)
BY FindWith DEF AlbumDir

LEMMA ExactAll ==
    ASSUME Exact(libfile), op.at # "unlink"
    PROVE  /\ \A a \in Artist : libfile.artists[a] # Nowhere => libfile.artists[a] = Find(Root, "artist", a)
           /\ \A b \in Album : libfile.albums[b] # Nowhere => libfile.albums[b] = AlbumDir(b)
BY AllSpared DEF Exact

LEMMA ExactSame ==
    ASSUME Exact(libfile), UNCHANGED <<libfile, objs>>, op.at # "unlink" PROVE Exact(libfile)'
<1>1. (\A d, kind, x : Find(d, kind, x)' = Find(d, kind, x)) /\ \A b : AlbumDir(b)' = AlbumDir(b)
  BY SameDevice
<1> QED BY <1>1, ExactAll DEF Exact

LEMMA ExactWith ==
    ASSUME PlainNames, ZuneTypeOK, ZuneTypeOK', made < MaxHandle, made' = made + 1, NEW o \in Thing, objs' = With(o),
           Exact(libfile), UNCHANGED libfile, op.at # "unlink"
    PROVE  Exact(libfile)'
<1> DEFINE l == libfile
<1>1. \A a \in Artist : l.artists[a] # Nowhere => l.artists[a] = Find(Root, "artist", a)'
  <2>1. \A a : Find(Root, "artist", a) # Nowhere => Find(Root, "artist", a)' = Find(Root, "artist", a)
    BY FindWith
  <2> QED BY <2>1, ExactAll
<1>2. \A b \in Album : l.albums[b] # Nowhere => l.albums[b] = AlbumDir(b)'
  BY ExactAll, AlbumDirWith
<1> QED BY <1>1, <1>2 DEF Exact

LEMMA ExactAdds ==
    ASSUME PlainNames, ZuneTypeOK, ZuneTypeOK', AddsFolder \/ (\E s \in Song : AddsSong(s)), Exact(libfile), UNCHANGED libfile, op.at # "unlink"
    PROVE  Exact(libfile)'
<1>1. CASE AddsFolder
  BY <1>1, ExactWith DEF AddsFolder
<1>2. CASE \E s \in Song : AddsSong(s)
  <2>1. PICK s \in Song : AddsSong(s)
    BY <1>2
  <2>2. PICK d \in Nat : made < MaxHandle /\ made' = made + 1 /\ objs' = With(Object("track", s, d))
    BY <2>1 DEF AddsSong
  <2>3. Object("track", s, d) \in Thing
    BY <2>1, <2>2, ObjectType
  <2> QED BY <2>2, <2>3, ExactWith
<1> QED BY <1>1, <1>2

LEMMA ExactDeleted ==
    ASSUME PlainNames, ZuneTypeOK, ZuneTypeOK', NEW h, objs' = Deleted({h}), UNCHANGED <<made, libfile>>, Exact(libfile), op.at # "unlink",
           \A k \in {"artist", "album"} : \A x : Is(h, k, x) => ~Spared(k, x)'
    PROVE  Exact(libfile)'
<1> DEFINE l == libfile
<1>1. \A d, kind, x : Find(d, kind, x) # Nowhere /\ Find(d, kind, x) # h => Find(d, kind, x)' = Find(d, kind, x)
  BY FindDeleted
<1>2. \A d, kind, x : Find(d, kind, x) # Nowhere => Is(Find(d, kind, x), kind, x)
  BY FindIs
<1>3. ASSUME NEW a, Spared("artist", a)', Find(Root, "artist", a) # Nowhere
      PROVE  Find(Root, "artist", a)' = Find(Root, "artist", a)
  BY <1>1, <1>2, <1>3
<1>4. ASSUME NEW b, Spared("artist", ArtistOf[b])', Spared("album", b)', AlbumDir(b) # Nowhere PROVE AlbumDir(b)' = AlbumDir(b)
  <2>1. /\ Find(Root, "artist", ArtistOf[b]) # Nowhere /\ Find(Find(Root, "artist", ArtistOf[b]), "album", b) # Nowhere
        /\ AlbumDir(b) = Find(Find(Root, "artist", ArtistOf[b]), "album", b)
    BY <1>4, AlbumDirIs
  <2>2. Find(Root, "artist", ArtistOf[b])' = Find(Root, "artist", ArtistOf[b])
    BY <1>3, <1>4, <2>1
  <2>3. \A d : Find(d, "album", b) # Nowhere => Find(d, "album", b)' = Find(d, "album", b)
    BY <1>1, <1>2, <1>4
  <2> QED BY <2>1, <2>2, <2>3 DEF AlbumDir
<1>5. \A a \in Artist : Spared("artist", a)' /\ l.artists[a] # Nowhere => l.artists[a] = Find(Root, "artist", a)'
  BY <1>3, ExactAll
<1>6. \A b \in Album : Spared("album", b)' /\ Spared("artist", ArtistOf[b])' /\ l.albums[b] # Nowhere => l.albums[b] = AlbumDir(b)'
  BY <1>4, ExactAll
<1> QED BY <1>5, <1>6 DEF Exact

LEMMA ExactInvalid ==
    ASSUME ZuneTypeOK, LibShape, libfile # None, Exact(libfile), NEW kind \in {"artist", "album"}, NEW x, Invalidate(kind, x),
           UNCHANGED objs, op'.at # "unlink", op.at = "unlink" => kind = op.gone.kind /\ x = op.gone.of
    PROVE  Exact(libfile)'
<1> DEFINE l == libfile
           m == WithoutDir(libfile, kind, x)
<1>1. l \in Folders /\ libfile' = m
  BY InvalidateIs
<1>2. /\ \A a \in Artist : m.artists[a] # Nowhere => m.artists[a] = l.artists[a] /\ ~(kind = "artist" /\ a = x)
      /\ \A b \in Album : m.albums[b] # Nowhere => /\ m.albums[b] = l.albums[b] /\ ~(kind = "album" /\ b = x)
                                                   /\ ~(kind = "artist" /\ ArtistOf[b] = x)
  BY <1>1, WithoutIs
<1> HIDE DEF m
<1>3. \A k, y : ~(kind = k /\ y = x) => Spared(k, y)
  BY DEF Spared, At
<1>4. \A a \in Artist : m.artists[a] # Nowhere => m.artists[a] = Find(Root, "artist", a)
  BY <1>2, <1>3 DEF Exact
<1>5. \A b \in Album : m.albums[b] # Nowhere => m.albums[b] = AlbumDir(b)
  BY <1>2, <1>3 DEF Exact
<1>6. (\A d, k, y : Find(d, k, y)' = Find(d, k, y)) /\ \A b : AlbumDir(b)' = AlbumDir(b)
  BY SameDevice
<1> QED BY <1>1, <1>4, <1>5, <1>6 DEF Exact

LEMMA ScanStays == ASSUME UNCHANGED objs PROVE Scanned' = Scanned
<1>1. \A d, k, y : Find(d, k, y)' = Find(d, k, y)
  BY SameDevice
<1>2. \A d, k, y : Named(d, k, y)' = Named(d, k, y)
  BY DEF Named, First, Children, Is
<1>3. \A a : ScannedArtist(a)' = ScannedArtist(a)
  BY <1>2 DEF ScannedArtist
<1>4. \A b : HomeOf(b)' = HomeOf(b)
  BY <1>3 DEF HomeOf
<1>5. \A b : DirOf(b)' = DirOf(b)
  BY <1>1, <1>4 DEF DirOf
<1> QED BY <1>2, <1>3, <1>5 DEF Scanned

LEMMA ExactScanned ==
    ASSUME UNCHANGED objs, Exact(Scanned), op.at # "unlink", op'.at # "unlink", libfile' = Scanned \/ libfile' = None
    PROVE  Exact(Scanned)' /\ (libfile' # None => Exact(libfile)')
<1>1. (\A d, kind, x : Find(d, kind, x)' = Find(d, kind, x)) /\ \A b : AlbumDir(b)' = AlbumDir(b)
  BY SameDevice
<1> DEFINE l == Scanned
<1>2. /\ \A a \in Artist : l.artists[a] # Nowhere => l.artists[a] = Find(Root, "artist", a)
      /\ \A b \in Album : l.albums[b] # Nowhere => l.albums[b] = AlbumDir(b)
  BY AllSpared DEF Exact
<1>3. l' = l
  BY ScanStays
<1> HIDE DEF l
<1>4. Exact(l)'
  BY <1>1, <1>2, <1>3 DEF Exact
<1>5. libfile' = l => Exact(libfile)'
  BY <1>1, <1>2 DEF Exact
<1> QED BY <1>4, <1>5 DEF l

LEMMA FoldersAre == ASSUME NEW l \in Folders PROVE l.artists \in [Artist -> Int] /\ l.albums \in [Album -> Int]
BY DEF Folders

LEMMA FiledAre ==
    ASSUME NEW S, NEW f \in [S -> Int], NEW x, NEW i \in Nat PROVE [f EXCEPT ![x] = i] \in [S -> Int]
<1>1. \A n \in Nat : n \in Int
  OBVIOUS
<1> QED BY <1>1

LEMMA ExactFiled ==
    ASSUME ZuneTypeOK, LibShape, Exact(libfile), FileArtist \/ FileAlbum,
           op.at = "file artist" => op.id = Find(Root, "artist", ArtistOf[AlbumOf[op.song]]),
           op.at = "file album" => op.id = AlbumDir(AlbumOf[op.song])
    PROVE  Exact(libfile)' /\ libfile' \in Folders
<1> DEFINE b == AlbumOf[op.song]
           a == ArtistOf[AlbumOf[op.song]]
<1>1. lib = libfile /\ lib \in Folders /\ a \in Artist /\ b \in Album /\ op.at # "unlink" /\ op.id \in Nat /\ UNCHANGED objs
  BY FileArtistDoes, FileAlbumDoes, HandType, ZuneAssumption DEF Copying, LibShape
<1>2. (\A d, k, y : Find(d, k, y)' = Find(d, k, y)) /\ \A c : AlbumDir(c)' = AlbumDir(c)
  BY <1>1, SameDevice
<1>3. CASE FileArtist
  <2>1. libfile' = [lib EXCEPT !.artists[a] = op.id] /\ op.id = Find(Root, "artist", a)
    BY <1>3, FileArtistDoes
  <2>2. libfile'.artists = [lib.artists EXCEPT ![a] = op.id] /\ libfile'.albums = lib.albums /\ libfile' \in Folders
    <3>1. libfile' = [artists |-> [lib.artists EXCEPT ![a] = op.id], albums |-> lib.albums]
      BY <1>1, <2>1 DEF Folders
    <3>2. [lib.artists EXCEPT ![a] = op.id] \in [Artist -> Int] /\ lib.albums \in [Album -> Int]
      <4>0. lib \in Folders /\ op.id \in Nat
        BY <1>1
      <4>1. lib.artists \in [Artist -> Int] /\ lib.albums \in [Album -> Int]
        BY <4>0, FoldersAre
      <4> HIDE DEF a
      <4> QED BY <4>0, <4>1, FiledAre
    <3> QED BY <3>1, <3>2 DEF Folders
  <2>3. \A c \in Artist : libfile'.artists[c] # Nowhere => libfile'.artists[c] = Find(Root, "artist", c)
    BY <1>1, <2>1, <2>2, ExactAll DEF Folders
  <2>4. \A c \in Album : libfile'.albums[c] # Nowhere => libfile'.albums[c] = AlbumDir(c)
    BY <1>1, <2>2, ExactAll
  <2> QED BY <1>2, <2>2, <2>3, <2>4 DEF Exact
<1>4. CASE FileAlbum
  <2>1. libfile' = [lib EXCEPT !.albums[b] = op.id] /\ op.id = AlbumDir(b)
    BY <1>4, FileAlbumDoes
  <2>2. libfile'.albums = [lib.albums EXCEPT ![b] = op.id] /\ libfile'.artists = lib.artists /\ libfile' \in Folders
    <3>1. libfile' = [artists |-> lib.artists, albums |-> [lib.albums EXCEPT ![b] = op.id]]
      BY <1>1, <2>1 DEF Folders
    <3>2. [lib.albums EXCEPT ![b] = op.id] \in [Album -> Int] /\ lib.artists \in [Artist -> Int]
      <4>0. lib \in Folders /\ op.id \in Nat
        BY <1>1
      <4>1. lib.artists \in [Artist -> Int] /\ lib.albums \in [Album -> Int]
        BY <4>0, FoldersAre
      <4> HIDE DEF b
      <4> QED BY <4>0, <4>1, FiledAre
    <3> QED BY <3>1, <3>2 DEF Folders
  <2>3. \A c \in Artist : libfile'.artists[c] # Nowhere => libfile'.artists[c] = Find(Root, "artist", c)
    BY <1>1, <2>2, ExactAll
  <2>4. \A c \in Album : libfile'.albums[c] # Nowhere => libfile'.albums[c] = AlbumDir(c)
    BY <1>1, <2>1, <2>2, ExactAll DEF Folders
  <2> QED BY <1>2, <2>2, <2>3, <2>4 DEF Exact
<1> QED BY <1>3, <1>4

LEMMA InPlaceFree ==
    ASSUME op'.at \notin {"file artist", "object", "file album"} PROVE InPlace'
BY DEF InPlace

LEMMA FirstOn ==
    ASSUME FirstOk, libfile # None, UNCHANGED <<libfile, objs>>, op.at # "unlink", tc # None => tc' # None,
           op'.at \notin {"file artist", "object", "file album"}
    PROVE  FirstOk'
<1>1. Exact(libfile)' /\ AllPlaced'
  BY ExactSame, SameDevice DEF FirstOk
<1> QED BY <1>1, InPlaceFree DEF FirstOk

\* Until the folders are scanned.
LEMMA FirstBlank ==
    ASSUME FirstOk, libfile = None, libfile' = None, UNCHANGED objs, op.at \in {"off", "collect", "load"},
           op'.at \in {"off", "warm"} \/ (op'.at \in {"collect", "load"} /\ op'.back = "warm")
    PROVE  FirstOk'
<1>1. Exact(Scanned)
  BY DEF FirstOk, Blank
<1>2. Exact(Scanned)'
  BY <1>1, ExactScanned
<1>3. AllPlaced' /\ InPlace'
  BY SameDevice, InPlaceFree DEF FirstOk
<1> QED BY <1>2, <1>3 DEF FirstOk, Blank

LEMMA FirstStart ==
    ASSUME FirstOk, faults = 0, faults' = 0, Open \/ Reload \/ Close PROVE FirstOk'
<1>1. /\ UNCHANGED <<objs, tc, libfile>> /\ op'.at \in {"off", "collect"}
      /\ op.at \in {"off", "idle"} /\ (op.at = "off" => op'.at = "collect" /\ op'.back = "warm")
  BY OpenDoes, ReloadDoes, CloseDoes
<1>2. CASE libfile # None
  BY <1>1, <1>2, FirstOn
<1>3. CASE libfile = None
  <2>1. op.at = "off"
    BY <1>1, <1>3 DEF FirstOk, Blank
  <2> QED BY <1>1, <1>3, <2>1, FirstBlank
<1> QED BY <1>2, <1>3

LEMMA FirstAsk ==
    ASSUME ZuneTypeOK, ZuneTypeOK', Singles, CalmInv, FirstOk, faults = 0, foreign = 0, faults' = 0, Collect PROVE FirstOk'
<1>0. /\ op.at = "collect" /\ op.back \in {"idle", "warm"} /\ op'.back = op.back /\ UNCHANGED objs
  BY CollectDoes
<1>1. Believes(Free) \/ Rereads(Free)
  <2>1. PICK free \in {Free, 0} : Asked(free) /\ (Believes(free) \/ Rereads(free))
    BY CollectDoes
  <2>2. free = Free
    BY <2>1 DEF Asked, Fails
  <2> QED BY <2>1, <2>2
<1>2. UNCHANGED libfile /\ (tc # None => tc' # None) /\ (op'.at = op.back \/ op'.at = "load")
  <2>1. CASE Believes(Free)
    <3>1. tc' = [tc EXCEPT !.header = TRUE, !.free = Free] /\ tc # None /\ tc \in TrackList
      BY <2>1 DEF Believes, Trusted, Loadable, ZuneTypeOK
    <3>2. Free \in Nat
      BY FreeType
    <3>3. tc' \in TrackList
      BY <3>1, <3>2 DEF TrackList
    <3> QED BY <2>1, <3>3, ZuneAssumption DEF Believes
  <2>2. CASE Rereads(Free)
    <3>1. ~Loadable
      BY <1>0, <2>2, CalmTrust DEF Rereads, Quiet
    <3> QED BY <2>2, <3>1 DEF Rereads
  <2> QED BY <1>1, <2>1, <2>2
<1>3. CASE libfile # None
  BY <1>0, <1>2, <1>3, FirstOn
<1>4. CASE libfile = None
  <2>1. op.back = "warm"
    BY <1>0, <1>4 DEF FirstOk, Blank
  <2> QED BY <1>0, <1>2, <1>4, <2>1, FirstBlank
<1> QED BY <1>3, <1>4

LEMMA FirstList ==
    ASSUME ZuneTypeOK, ZuneTypeOK', FirstOk, faults = 0, faults' = 0, Load PROVE FirstOk'
<1>0. op'.at \in {"idle", "warm"} /\ op'.at = op.back /\ op.at = "load" /\ UNCHANGED <<objs, libfile>>
  BY LoadDoes
<1>1. PICK rows : Findable(rows) /\ tc' = [header |-> TRUE, free |-> op.free, rows |-> rows]
  BY LoadDoes DEF Fails
<1>2. tc' # None
  <2>1. rows \subseteq Entry /\ op.free \in Nat
    BY <1>1, FindableIs DEF ZuneTypeOK, Doing
  <2>2. tc' \in TrackList
    BY <1>1, <2>1 DEF TrackList
  <2> QED BY <2>2, ZuneAssumption
<1>3. CASE libfile # None
  BY <1>0, <1>2, <1>3, FirstOn
<1>4. CASE libfile = None
  <2>1. op.back = "warm"
    BY <1>0, <1>4 DEF FirstOk, Blank
  <2> QED BY <1>0, <1>4, <2>1, FirstBlank
<1> QED BY <1>3, <1>4

LEMMA FirstEnsure ==
    ASSUME ZuneTypeOK, LibShape, CalmOk, FirstOk, faults = 0, faults' = 0, Warm \/ ImportTrack PROVE FirstOk'
<1>1. /\ op.at \in {"warm", "copies"} /\ op'.at \in {"idle", "artist", "next"} /\ EnsureLibrary /\ UNCHANGED <<objs, tc>>
  BY WarmDoes, ImportDoes DEF NoLibrary, Fails
<1>2. CASE libfile # None
  <2>1. UNCHANGED libfile
    BY <1>1, <1>2 DEF EnsureLibrary
  <2> QED BY <1>1, <1>2, <2>1, FirstOn
<1>3. CASE libfile = None
  <2>0. ~Fails
    BY DEF Fails
  <2>1. libfile' = Scanned
    <3>1. lib = None
      BY <1>3 DEF LibShape
    <3> QED BY <1>1, <1>3, <2>0, <3>1 DEF EnsureLibrary
  <2>2. Exact(Scanned) /\ op.at = "warm"
    BY <1>1, <1>3 DEF FirstOk, Blank
  <2>3. AllPlaced' /\ InPlace'
    BY <1>1, SameDevice, InPlaceFree DEF FirstOk
  <2>4. libfile' # None
    BY <2>1, ScannedType, ZuneAssumption
  <2>5. Exact(libfile)'
    BY <1>1, <2>1, <2>2, <2>4, ExactScanned
  <2>6. tc' # None
    BY <1>1, <2>2 DEF CalmOk, Early
  <2> QED BY <2>3, <2>4, <2>5, <2>6 DEF FirstOk
<1> QED BY <1>2, <1>3

LEMMA FirstSame ==
    ASSUME ZuneTypeOK, FirstOk,
           StartRemoval \/ NextRow("rows") \/ NextRow("copies") \/ RowsDone \/ Cleaned \/ Refresh
           \/ StartSync \/ NextSong \/ SyncDone
    PROVE  FirstOk'
<1>1. /\ UNCHANGED <<libfile, objs>> /\ (tc # None => tc' # None)
      /\ op.at \in {"idle", "rows", "copies", "look", "refresh", "next"}
      /\ op'.at \in {"rows", "delete", "look", "refresh", "idle", "next", "copies"}
  <2>1. CASE StartRemoval \/ StartSync
    BY <2>1, StartRemovalDoes, StartSyncDoes
  <2>2. CASE NextRow("rows") \/ NextRow("copies")
    BY <2>2, NextRowDoes
  <2>3. CASE RowsDone \/ Cleaned \/ Refresh
    BY <2>3, RowsDoneDoes, CleanedDoes, RefreshDoes
  <2>4. CASE NextSong \/ SyncDone
    BY <2>4, NextSongDoes, SyncDoneDoes
  <2> QED BY <2>1, <2>2, <2>3, <2>4
<1>2. libfile # None
  BY <1>1 DEF FirstOk, Blank
<1> QED BY <1>1, <1>2, FirstOn

LEMMA FirstRecord ==
    ASSUME ZuneTypeOK, FirstOk, Record PROVE FirstOk'
<1>1. UNCHANGED <<libfile, objs>> /\ op.at = "record" /\ op'.at = "next" /\ tc' # None
  BY RecordDoes
<1>2. libfile # None
  BY <1>1 DEF FirstOk, Blank
<1> QED BY <1>1, <1>2, FirstOn

LEMMA FirstDelete ==
    ASSUME ZuneTypeOK, ZuneTypeOK', RowsMeet, Singles, PlainNames, TruthOk, CalmOk, FirstOk,
           faults = 0, faults' = 0, Delete
    PROVE  FirstOk'
<1>1. op.at = "delete" /\ op.back \in {"rows", "copies"} /\ UNCHANGED <<made, tc, libfile>>
  BY DeleteDoes
<1>2. libfile # None
  BY <1>1 DEF FirstOk, Blank
<1>3. CASE UNCHANGED objs
  <2>1. op'.at \notin {"file artist", "object", "file album"}
    BY <1>1, DeleteDoes DEF FailsAt, Fails
  <2> QED BY <1>1, <1>2, <1>3, <2>1, FirstOn
<1>4. CASE ~UNCHANGED objs
  <2> DEFINE h == Target(op.row)
  <2>1. h \in DOMAIN objs /\ objs' = Deleted({h}) /\ op'.at = "forget"
    BY <1>4, DeleteDoes DEF FailsAt, Fails
  <2>2. op.row.song \in OnDevice /\ h \in Copies(op.row.song)
    BY RowLeads
  <2> HIDE DEF h
  <2>3. twins = {}
    BY DEF CalmOk
  <2>4. OnDevice' \subseteq OnDevice /\ \A t : Placed(t) => Placed(t)'
    BY <1>1, <2>1, <2>2, <2>3, CopyGone
  <2>5. AllPlaced'
    <3>1. AllPlaced
      BY DEF FirstOk
    <3> QED BY <2>4, <3>1 DEF AllPlaced
  <2>6. objs[h].kind = "track"
    BY <2>2 DEF Copies, Is
  <2>7. \A k \in {"artist", "album"} : \A x : ~Is(h, k, x)
    BY <2>6 DEF Is
  <2>8. Exact(libfile)'
    <3>1. Exact(libfile)
      BY <1>2 DEF FirstOk
    <3> QED BY <1>1, <2>1, <2>7, <3>1, ExactDeleted
  <2>9. InPlace'
    BY <1>1, <2>1, InPlaceFree DEF FirstOk
  <2> QED BY <1>1, <1>2, <2>5, <2>8, <2>9 DEF FirstOk
<1> QED BY <1>3, <1>4

LEMMA FirstInvalid ==
    ASSUME ZuneTypeOK, ZuneTypeOK', LibShape, FirstOk, libfile # None, NEW kind \in {"artist", "album"}, NEW x, Invalidate(kind, x),
           UNCHANGED objs, op'.at \notin {"unlink", "file artist", "object", "file album"},
           op.at = "unlink" => kind = op.gone.kind /\ x = op.gone.of, tc # None => tc' # None
    PROVE  FirstOk'
<1>1. Exact(libfile)'
  BY ExactInvalid DEF FirstOk
<1>2. libfile' # None
  <2>1. libfile \in Folders /\ libfile' = WithoutDir(libfile, kind, x)
    BY InvalidateIs
  <2>2. libfile' \in Folders
    BY <2>1, WithoutType
  <2> QED BY <2>2, ZuneAssumption
<1>3. AllPlaced' /\ InPlace'
  BY SameDevice, InPlaceFree DEF FirstOk
<1> QED BY <1>1, <1>2, <1>3 DEF FirstOk

LEMMA FirstForget ==
    ASSUME ZuneTypeOK, ZuneTypeOK', LibShape, FirstOk, Forget PROVE FirstOk'
<1>1. /\ op.at = "forget" /\ op'.at \in {"rows", "copies"} /\ UNCHANGED objs
      /\ (tc # None => tc' # None)
      /\ IF op.row.id > 0 THEN UNCHANGED <<lib, libfile>> ELSE Invalidate("album", AlbumOf[op.row.song])
  BY ForgetDoes
<1>2. libfile # None
  BY <1>1 DEF FirstOk, Blank
<1>3. CASE op.row.id > 0
  BY <1>1, <1>2, <1>3, FirstOn
<1>4. CASE ~(op.row.id > 0)
  BY <1>1, <1>2, <1>4, FirstInvalid
<1> QED BY <1>3, <1>4

LEMMA FirstUnlink ==
    ASSUME ZuneTypeOK, ZuneTypeOK', LibShape, FirstOk, Unlink PROVE FirstOk'
<1>1. /\ op.at = "unlink" /\ op'.at = "look" /\ UNCHANGED <<objs, tc>>
      /\ Invalidate(op.gone.kind, op.gone.of) /\ op.gone.kind \in {"artist", "album"}
  BY UnlinkDoes
<1>2. libfile # None
  BY <1>1 DEF FirstOk, Blank
<1> QED BY <1>1, <1>2, FirstInvalid

LEMMA FirstLook ==
    ASSUME PlainNames, ZuneTypeOK, ZuneTypeOK', FirstOk, faults = 0, faults' = 0, NEW h \in op.look, LookAt(h) PROVE FirstOk'
<1>1. /\ op.at = "look" /\ UNCHANGED <<made, tc, libfile>>
      /\ h \in DOMAIN objs /\ objs[h].kind \in {"artist", "album"}
  BY LookDoes
<1>2. libfile # None
  BY <1>1 DEF FirstOk, Blank
<1>3. CASE UNCHANGED objs
  <2>1. op'.at \in {"look", "unlink"}
    BY LookDoes
  <2> QED BY <1>1, <1>2, <1>3, <2>1, FirstOn
<1>4. CASE ~UNCHANGED objs
  <2>1. Children(h) = {} /\ objs' = Deleted({h}) /\ op'.at = "unlink" /\ op'.gone = objs[h]
    BY <1>4, LookDoes DEF Fails
  <2>2. OnDevice' = OnDevice
    BY LookKeeps DEF OnDevice
  <2>3. AllPlaced'
    <3> SUFFICES ASSUME NEW t \in OnDevice PROVE Placed(t)'
      BY <2>2 DEF AllPlaced
    <3>1. Placed(t)
      BY DEF FirstOk, AllPlaced
    <3>2. AlbumDir(AlbumOf[t]) # h /\ Find(Root, "artist", ArtistOf[AlbumOf[t]]) # h
      BY <2>1, <3>1, EmptyApart
    <3> QED BY <1>1, <2>1, <3>1, <3>2, PlacedDeleted
  <2>4. \A k \in {"artist", "album"} : \A x : Is(h, k, x) => ~Spared(k, x)'
    BY <2>1 DEF Is, Spared, At
  <2>5. Exact(libfile)'
    <3>1. Exact(libfile)
      BY <1>2 DEF FirstOk
    <3> QED BY <1>1, <2>1, <2>4, <3>1, ExactDeleted
  <2>6. InPlace'
    BY <1>1, <2>1, InPlaceFree DEF FirstOk
  <2> QED BY <1>1, <1>2, <2>3, <2>5, <2>6 DEF FirstOk
<1> QED BY <1>3, <1>4

LEMMA FirstPlaced ==
    ASSUME PlainNames, ZuneTypeOK, ZuneTypeOK', FirstOk, libfile # None, UNCHANGED libfile, op.at # "unlink",
           AddsFolder \/ UNCHANGED objs
    PROVE  AllPlaced' /\ Exact(libfile)'
<1>1. AllPlaced /\ Exact(libfile)
  BY DEF FirstOk
<1>2. CASE UNCHANGED objs
  BY <1>1, <1>2, SameDevice, ExactSame
<1>3. CASE AddsFolder
  <2>1. OnDevice' = OnDevice /\ \A t : Placed(t) => Placed(t)'
    BY <1>3, AddsFolderDoes, FoldersKeepPlaced
  <2>2. AllPlaced'
    BY <1>1, <2>1 DEF AllPlaced
  <2> QED BY <1>1, <1>3, <2>2, ExactAdds
<1> QED BY <1>2, <1>3

LEMMA NewFolder ==
    ASSUME PlainNames, ZuneTypeOK, ZuneTypeOK', faults = 0, faults' = 0,
           NEW kind \in {"artist", "album"}, NEW x \in Artist \cup Album, NEW d \in Nat, NEW next, Makes(kind, x, d, next)
    PROVE  /\ op'.id = Find(d, kind, x)' /\ op'.at = next
           /\ \A e, k, y : Find(e, k, y) # Nowhere => Find(e, k, y)' = Find(e, k, y)
<1> DEFINE o == Object(kind, x, d)
<1>1. o \in Thing /\ o.kind = kind /\ o.of = x /\ o.in = d
  BY ObjectType
<1>2. made < MaxHandle /\ made' = made + 1 /\ objs' = With(o) /\ Find(d, kind, x) = Nowhere /\ op'.at = next /\ op'.id = made'
  BY DEF Makes, Puts, Fails
<1> HIDE DEF o
<1> QED BY <1>1, <1>2, FindWith

LEMMA FirstArtist ==
    ASSUME PlainNames, ZuneTypeOK, ZuneTypeOK', FirstOk, faults = 0, faults' = 0, PlaceArtist PROVE FirstOk'
<1> DEFINE a == ArtistOf[AlbumOf[op.song]]
<1>0. ~Fails
  BY DEF Fails
<1>1. /\ op.at = "artist" /\ op'.song = op.song /\ UNCHANGED <<tc, libfile>>
      /\ \/ op'.at = "album" /\ UNCHANGED objs
         \/ Finds("artist", a, Root, "file artist") \/ Makes("artist", a, Root, "file artist")
  BY <1>0, PlaceArtistDoes DEF Holds, GivesUp, Wastes
<1>2. libfile # None
  BY <1>1 DEF FirstOk, Blank
<1>4. AllPlaced' /\ Exact(libfile)'
  BY <1>1, <1>2, FolderSteps, FirstPlaced
<1>5. a \in Artist /\ a' = a
  BY <1>1, HandType DEF Copying
<1>6. op'.at \notin {"object", "file album"} /\ (op'.at = "file artist" => op'.id = Find(Root, "artist", a)')
  <2>1. CASE Finds("artist", a, Root, "file artist")
    BY <1>0, <1>5, <2>1, SameDevice DEF Finds
  <2>2. CASE Makes("artist", a, Root, "file artist")
    <3>1. op'.at = "file artist" /\ \A e : e = a => op'.id = Find(Root, "artist", e)'
      <4>1. a \in Artist \cup Album /\ Root \in Nat
        BY <1>5 DEF Root
      <4> QED BY <2>2, <4>1, NewFolder
    <3> QED BY <1>5, <3>1
  <2>3. CASE op'.at = "album"
    BY <2>3
  <2> QED BY <1>1, <2>1, <2>2, <2>3
<1>7. InPlace'
  BY <1>5, <1>6 DEF InPlace
<1> QED BY <1>1, <1>2, <1>4, <1>7 DEF FirstOk

LEMMA FirstFiled ==
    ASSUME ZuneTypeOK, LibShape, FirstOk, FileArtist \/ FileAlbum PROVE FirstOk'
<1>1. op.at \in {"file artist", "file album"} /\ op'.at \in {"album", "upload"} /\ UNCHANGED <<objs, tc>>
  BY FileArtistDoes, FileAlbumDoes
<1>2. Exact(libfile) /\ tc # None
  BY <1>1 DEF FirstOk, Blank
<1>3. /\ op.at = "file artist" => op.id = Find(Root, "artist", ArtistOf[AlbumOf[op.song]])
      /\ op.at = "file album" => op.id = AlbumDir(AlbumOf[op.song])
  BY DEF FirstOk, InPlace
<1>4. Exact(libfile)' /\ libfile' \in Folders
  BY <1>2, <1>3, ExactFiled
<1>5. libfile' # None
  BY <1>4, ZuneAssumption
<1>6. AllPlaced' /\ InPlace'
  BY <1>1, SameDevice, InPlaceFree DEF FirstOk
<1> QED BY <1>1, <1>2, <1>4, <1>5, <1>6 DEF FirstOk

LEMMA FirstAlbum ==
    ASSUME PlainNames, ZuneTypeOK, ZuneTypeOK', LibShape, FirstOk, faults = 0, faults' = 0, PlaceAlbum PROVE FirstOk'
<1> DEFINE b == AlbumOf[op.song]
           a == ArtistOf[AlbumOf[op.song]]
           d == lib.artists[a]
<1>0. ~Fails
  BY DEF Fails
<1>1. /\ op.at = "album" /\ op'.song = op.song /\ UNCHANGED <<tc, libfile>>
      /\ \/ op'.at = "upload" /\ UNCHANGED objs
         \/ Finds("album", b, d, "object") \/ Makes("album", b, d, "object") \/ Sticks(d)
  BY <1>0, PlaceAlbumDoes DEF Holds, GivesUp, Wastes
<1>2. libfile # None
  BY <1>1 DEF FirstOk, Blank
<1>4. AllPlaced' /\ Exact(libfile)' /\ Exact(libfile)
  BY <1>1, <1>2, FolderSteps, FirstPlaced DEF FirstOk
<1>5. a \in Artist /\ b \in Album /\ a' = a /\ b' = b /\ lib \in Folders
  BY <1>1, HandType DEF Copying
<1>6. d = Find(Root, "artist", a) /\ d # Nowhere
  <2>1. lib = libfile /\ d # Nowhere
    BY <1>1, <1>5, ZuneAssumption DEF LibShape, At
  <2> QED BY <1>1, <1>4, <1>5, <2>1, ExactAll
<1>7. op'.at # "file artist" /\ (op'.at \in {"object", "file album"} => op'.id = AlbumDir(b)')
  <2>1. CASE Finds("album", b, d, "object")
    <3>1. AlbumDir(b) = Find(d, "album", b)
      BY <1>6 DEF AlbumDir
    <3>2. UNCHANGED objs /\ op'.id = Find(d, "album", b) /\ op'.at = "object"
      BY <1>0, <2>1 DEF Finds
    <3>3. AlbumDir(b)' = AlbumDir(b)
      BY <1>5, <3>2, SameDevice
    <3> QED BY <3>1, <3>2, <3>3
  <2>2. CASE Makes("album", b, d, "object")
    <3>1. d \in Nat /\ b \in Artist \cup Album
      BY <1>5, <1>6, FindIs
    <3>2. op'.at = "object" /\ (\A e, y : e = d /\ y = b => op'.id = Find(e, "album", y)')
          /\ \A e, k, y : Find(e, k, y) # Nowhere => Find(e, k, y)' = Find(e, k, y)
      BY <2>2, <3>1, NewFolder
    <3>3. \A y : y = b => AlbumDir(y)' = op'.id
      <4> SUFFICES ASSUME NEW y, y = b PROVE AlbumDir(y)' = op'.id
        OBVIOUS
      <4>1. Find(Root, "artist", ArtistOf[y])' = d /\ d # Nowhere
        BY <1>6, <3>2
      <4> QED BY <3>2, <4>1 DEF AlbumDir
    <3> QED BY <1>5, <3>2, <3>3
  <2>3. CASE op'.at = "upload" \/ Sticks(d)
    BY <2>3 DEF Sticks
  <2> QED BY <1>1, <2>1, <2>2, <2>3
<1>8. InPlace'
  BY <1>5, <1>7 DEF InPlace
<1> QED BY <1>1, <1>2, <1>4, <1>8 DEF FirstOk

LEMMA FirstObject ==
    ASSUME PlainNames, ZuneTypeOK, ZuneTypeOK', FirstOk, AlbumObject PROVE FirstOk'
<1>1. /\ op.at = "object" /\ op'.at = "file album" /\ op'.song = op.song /\ op'.id = op.id
      /\ UNCHANGED <<tc, libfile>>
      /\ \/ made < MaxHandle /\ made' = made + 1 /\ objs' = With(Object("alb", AlbumOf[op.song], Root))
         \/ UNCHANGED objs
  BY AlbumObjectDoes DEF Holds, Puts
<1>2. libfile # None
  BY <1>1 DEF FirstOk, Blank
<1>4. AllPlaced' /\ Exact(libfile)'
  BY <1>1, <1>2, FolderSteps, FirstPlaced
<1>5. AlbumOf[op.song] \in Album /\ op.id \in Nat
  BY <1>1, HandType DEF Copying
<1>6. op.id = AlbumDir(AlbumOf[op.song])
  BY <1>1 DEF FirstOk, InPlace
<1>7. AlbumDir(AlbumOf[op.song]) # Nowhere
  BY <1>5, <1>6 DEF Nowhere
<1>8. Object("alb", AlbumOf[op.song], Root) \in Thing
  BY <1>5, ObjectType DEF Root
<1>9. AlbumDir(AlbumOf[op.song])' = AlbumDir(AlbumOf[op.song])
  <2>1. \A b : b = AlbumOf[op.song] => AlbumDir(b)' = AlbumDir(b)
    BY <1>1, <1>7, <1>8, AlbumDirWith, SameDevice
  <2> QED BY <1>1, <2>1
<1>10. InPlace'
  BY <1>1, <1>6, <1>9 DEF InPlace
<1> QED BY <1>1, <1>2, <1>4, <1>10 DEF FirstOk

\* A song goes into the folder of its album.
LEMMA SendsNot ==
    ASSUME ZuneTypeOK, NEW d, Sticks(d) \/ GivesUp PROVE ~SentSong
<1>1. UNCHANGED made /\ made \in Nat
  BY DEF Sticks, GivesUp, ZuneTypeOK
<1> QED BY <1>1 DEF SentSong, Sends, Puts

LEMMA FirstUpload ==
    ASSUME PlainNames, ZuneTypeOK, ZuneTypeOK', LibShape, FirstOk, faults = 0, faults' = 0, Upload PROVE FirstOk'
<1> DEFINE b == AlbumOf[op.song]
           d == lib.albums[b]
<1>1. op.at = "upload" /\ UNCHANGED <<tc, libfile>>
  BY UploadDoes
<1>2. libfile # None
  BY <1>1 DEF FirstOk, Blank
<1>3. CASE ~SentSong
  <2>1. UNCHANGED objs /\ op'.at \in {"next", "wedged"}
    BY <1>3, UploadNot
  <2> QED BY <1>1, <1>2, <2>1, FirstOn
<1>4. CASE SentSong
  <2>1. op.song \in Song /\ b \in Album /\ lib \in Folders
    BY <1>1, HandType DEF Copying
  <2>2. Exact(libfile) /\ AllPlaced
    BY <1>2 DEF FirstOk
  <2>3. d = AlbumDir(b) /\ d # Nowhere
    <3>1. lib = libfile /\ d # Nowhere
      BY <1>1, <2>1, ZuneAssumption DEF LibShape, At
    <3> QED BY <1>1, <2>1, <2>2, <3>1, ExactAll
  <2>4. d \in Nat
    BY <2>3, AlbumDirIs
  <2>5. made < MaxHandle /\ made' = made + 1 /\ objs' = With(Object("track", op.song, d)) /\ AddsSong(op.song)
    <3>1. Sends(d)
      BY <1>4, UploadDoes, SendsNot
    <3> QED BY <1>4, <3>1, UploadAdds DEF Sends, Puts
  <2>6. Exact(libfile)'
    BY <1>1, <2>1, <2>2, <2>5, ExactAdds
  <2>7. OnDevice' = OnDevice \cup {op.song}
    BY <2>1, <2>5, AddsSongDoes
  <2>8. \A t \in OnDevice \cup {op.song} : Placed(t)
    <3>1. op.song \notin OnDevice => Placed(op.song)
      BY <2>1, <2>3 DEF OnDevice, Placed
    <3> QED BY <2>2, <3>1 DEF AllPlaced
  <2>9. \A t \in OnDevice \cup {op.song} : Placed(t)'
    <3> SUFFICES ASSUME NEW t \in OnDevice \cup {op.song} PROVE Placed(t)'
      OBVIOUS
    <3> DEFINE o == Object("track", op.song, d)
    <3>1. o \in Thing /\ o.kind = "track" /\ o.of = op.song /\ o.in = d
      BY <2>1, <2>4, ObjectType
    <3>2. objs' = With(o)
      BY <2>5
    <3>3. o.kind = "track" /\ o.of = t => o.in = AlbumDir(AlbumOf[t])
      BY <2>3, <3>1
    <3> HIDE DEF o
    <3> QED BY <2>5, <2>8, <3>1, <3>2, <3>3, PlacedWith
  <2>10. AllPlaced'
    BY <2>7, <2>9 DEF AllPlaced
  <2>11. InPlace' /\ tc' # None
    BY <1>1, <1>2, <1>4, UploadAdds, InPlaceFree DEF FirstOk
  <2> QED BY <1>1, <1>2, <2>6, <2>10, <2>11 DEF FirstOk
<1> QED BY <1>3, <1>4

LEMMA FirstStep ==
    ASSUME ZuneTypeOK, ZuneTypeOK', RowsMeet, Singles, PlainNames, LibShape, TruthInv, CalmInv, FirstInv,
           ZuneNext \/ UNCHANGED zuneVars
    PROVE  FirstInv'
<1> SUFFICES ASSUME faults' = 0, foreign' = 0 PROVE FirstOk'
  BY DEF FirstInv
<1>1. CASE UNCHANGED zuneVars
  <2>1. UNCHANGED <<op, tc, libfile, faults, foreign, objs>>
    BY <1>1 DEF zuneVars
  <2>2. FirstOk
    BY <2>1 DEF FirstInv
  <2>3. AllPlaced' /\ Scanned' = Scanned
    BY <2>1, <2>2, SameDevice, ScanStays DEF FirstOk
  <2>4. InPlace'
    <3>1. /\ \A b : AlbumDir(b)' = AlbumDir(b)
          /\ \A k, x : Find(k, "artist", x)' = Find(k, "artist", x)
      BY <2>1, SameDevice
    <3> QED BY <2>1, <2>2, <3>1 DEF FirstOk, InPlace
  <2>5. (Exact(libfile)' <=> Exact(libfile)) /\ (Blank' <=> Blank)
    <3>1. /\ \A b : AlbumDir(b)' = AlbumDir(b)
          /\ \A k, x : Find(k, "artist", x)' = Find(k, "artist", x)
      BY <2>1, SameDevice
    <3>2. Exact(libfile)' <=> Exact(libfile)
      BY <2>1, <3>1 DEF Exact, Spared, At
    <3> DEFINE l == Scanned
    <3>3. l' = l
      BY <2>3
    <3> HIDE DEF l
    <3>4. Exact(l)' <=> Exact(l)
      BY <2>1, <3>1, <3>3 DEF Exact, Spared, At
    <3> QED BY <2>1, <3>2, <3>4 DEF l, Blank
  <2> QED BY <2>1, <2>2, <2>3, <2>4, <2>5 DEF FirstOk
<1> SUFFICES ASSUME ZuneNext PROVE FirstOk'
  BY <1>1
<1>2. faults = 0 /\ foreign = 0
  BY MishapsGrow
<1>3. FirstOk /\ CalmOk /\ TruthOk
  <2>1. FirstOk /\ CalmOk
    BY <1>2 DEF FirstInv, CalmInv
  <2> QED BY <1>2, <2>1 DEF TruthInv, Mishaps
<1>4. CASE Listing
  <2>1. CASE Open \/ Reload \/ Close
    BY <1>2, <1>3, <2>1, FirstStart
  <2>2. CASE Collect
    BY <1>2, <1>3, <2>2, FirstAsk
  <2>3. CASE Load
    BY <1>2, <1>3, <2>3, FirstList
  <2>4. CASE Warm
    BY <1>2, <1>3, <2>4, FirstEnsure
  <2> QED BY <1>4, <2>1, <2>2, <2>3, <2>4 DEF Listing
<1>5. CASE Removal
  <2>1. CASE StartRemoval \/ NextRow("rows") \/ RowsDone \/ Cleaned \/ Refresh
    BY <1>3, <2>1, FirstSame
  <2>2. CASE Delete
    BY <1>2, <1>3, <2>2, FirstDelete
  <2>3. CASE Forget \/ Unlink
    BY <1>3, <2>3, FirstForget, FirstUnlink
  <2>4. CASE \E h \in op.look : LookAt(h)
    BY <1>2, <1>3, <2>4, FirstLook
  <2>5. ~Overlook
    BY <1>2, CalmOverlook
  <2> QED BY <1>5, <2>1, <2>2, <2>3, <2>4, <2>5 DEF Removal
<1>6. CASE Syncing
  <2>1. CASE StartSync \/ NextSong \/ NextRow("copies") \/ SyncDone
    BY <1>3, <2>1, FirstSame
  <2>2. CASE ImportTrack
    BY <1>2, <1>3, <2>2, FirstEnsure
  <2>3. CASE PlaceArtist \/ PlaceAlbum \/ AlbumObject
    BY <1>2, <1>3, <2>3, FirstArtist, FirstAlbum, FirstObject
  <2>4. CASE FileArtist \/ FileAlbum
    BY <1>3, <2>4, FirstFiled
  <2>5. CASE Upload \/ Record
    BY <1>2, <1>3, <2>5, FirstUpload, FirstRecord
  <2> QED BY <1>6, <2>1, <2>2, <2>3, <2>4, <2>5 DEF Syncing
<1>7. ~(DeletedElsewhere \/ AddedElsewhere)
  BY <1>2, DeletedDoes, AddedDoes
<1> QED BY <1>4, <1>5, <1>6, <1>7 DEF ZuneNext

-----------------------------------------------------------------------------
(* The Zune session: the theorems. *)

\* Where the folders of a tidy device are.
LEMMA TidyFolder ==
    ASSUME PlainNames, ZuneTypeOK, Tidy, NEW b, NEW g, Is(g, "album", b)
    PROVE  /\ g # Nowhere /\ AlbumDir(b) = g
           /\ Find(Root, "artist", ArtistOf[b]) # Nowhere /\ Find(Find(Root, "artist", ArtistOf[b]), "album", b) = g
<1> DEFINE e == objs[g].in
           f == Find(Root, "artist", ArtistOf[b])
<1>1. g \in DOMAIN objs /\ objs[g].kind = "album" /\ objs[g].of = b
  BY DEF Is
<1>2. Is(e, "artist", ArtistOf[b]) /\ e \in DOMAIN objs
  BY <1>1 DEF Tidy, Is
<1>3. objs[e].in = Root
  BY <1>2 DEF Tidy, Is
<1>4. \A x, y, kind, z : Is(x, kind, z) /\ Is(y, kind, z) => x = y
  BY DEF Tidy, Is
<1>5. f # Nowhere /\ f = e
  <2>1. f # Nowhere
    BY <1>2, <1>3, FindIs
  <2>2. Is(f, "artist", ArtistOf[b])
    BY <2>1, FindIs
  <2> QED BY <1>2, <1>4, <2>1, <2>2
<1>6. Find(f, "album", b) # Nowhere /\ Find(f, "album", b) = g
  <2>1. objs[g].in = f
    BY <1>5
  <2> HIDE DEF f, e
  <2>2. Find(f, "album", b) # Nowhere
    BY <1>1, <2>1, FindIs
  <2>3. Is(Find(f, "album", b), "album", b)
    BY <2>2, FindIs
  <2> QED BY <1>4, <2>2, <2>3
<1> QED BY <1>5, <1>6 DEF AlbumDir

LEMMA TidyPlaced ==
    ASSUME PlainNames, ZuneTypeOK, Tidy PROVE Singles /\ AllPlaced
<1>1. Singles
  BY DEF Singles, Copies, Is, Tidy
<1>2. ASSUME NEW t \in OnDevice PROVE Placed(t)
  <2>1. PICK g \in Copies(t) : TRUE
    BY DEF OnDevice
  <2>2. \A h \in Copies(t) : Is(objs[h].in, "album", AlbumOf[t])
    BY DEF Copies, Is, Tidy
  <2>3. \A h \in Copies(t) : AlbumDir(AlbumOf[t]) = objs[h].in /\ objs[h].in # Nowhere
    BY <2>2, TidyFolder
  <2> QED BY <2>1, <2>3 DEF Placed
<1> QED BY <1>1, <1>2 DEF AllPlaced

LEMMA TidyScanned ==
    ASSUME PlainNames, ZuneTypeOK, Tidy PROVE Exact(Scanned)
<1>0. \A d, kind, x : Find(d, kind, x) = Named(d, kind, x)
  BY PlainCandidates
<1>1. ASSUME NEW a \in Artist, Scanned.artists[a] # Nowhere PROVE Scanned.artists[a] = Find(Root, "artist", a)
  BY <1>0, <1>1 DEF Scanned, ScannedArtist
<1>2. ASSUME NEW b \in Album, Scanned.albums[b] # Nowhere PROVE Scanned.albums[b] = AlbumDir(b)
  <2>1. Named(Root, "alb", b) # Nowhere /\ Scanned.albums[b] = DirOf(b)
    BY <1>2 DEF Scanned
  <2>2. Is(Named(Root, "alb", b), "alb", b)
    BY <2>1, NamedIs
  <2>3. PICK g \in DOMAIN objs : Is(g, "album", b)
    BY <2>2 DEF Tidy, Is
  <2>4. /\ g # Nowhere /\ AlbumDir(b) = g
        /\ Find(Root, "artist", ArtistOf[b]) # Nowhere /\ Find(Find(Root, "artist", ArtistOf[b]), "album", b) = g
    BY <2>3, TidyFolder
  <2>5. HomeOf(b) = Find(Root, "artist", ArtistOf[b])
    BY <1>0, <2>4 DEF HomeOf, ScannedArtist
  <2> QED BY <2>1, <2>4, <2>5 DEF DirOf
<1> QED BY <1>1, <1>2 DEF Exact

LEMMA ZuneInitMore ==
    ASSUME PlainNames, ZuneInit PROVE Singles /\ LibShape /\ TruthInv /\ LibInv /\ CalmInv /\ FirstInv
<1>0. ZuneTypeOK /\ Tidy
  BY ZuneInitType DEF ZuneInit
<1>1. /\ tc = None /\ libfile = None /\ lib = None /\ shown = {} /\ op.at = "off" /\ op.rows = {}
      /\ faults = 0 /\ foreign = 0 /\ twins = {} /\ cut = {} /\ marred = {}
  BY DEF ZuneInit, Off, NoOp
<1>2. Listed = {}
  BY <1>1 DEF Listed
<1>3. Singles /\ AllPlaced /\ Exact(Scanned)
  BY <1>0, TidyPlaced, TidyScanned
<1>4. LibShape
  BY <1>1 DEF LibShape, At
<1>5. TruthOk
  <2>1. \A t \in Song : Paired(t)
    BY <1>1, <1>2 DEF Paired
  <2> QED BY <1>1, <2>1 DEF TruthOk, InHand, Aware, Fresh
<1>6. LibOk
  BY <1>1 DEF LibOk, LibFine
<1>7. CalmOk
  <2>1. Sighted /\ RowsPlaced
    BY <1>1, <1>2 DEF Sighted, RowsPlaced, At, Copying
  <2> QED BY <1>1, <2>1 DEF CalmOk, UpToDate, Early
<1>8. FirstOk
  BY <1>1, <1>3 DEF FirstOk, InPlace, Blank
<1>9. TruthInv
  BY <1>5 DEF TruthInv
<1> QED BY <1>3, <1>4, <1>6, <1>7, <1>8, <1>9 DEF LibInv, CalmInv, FirstInv

\* All of it together.
CacheInv == RowsMeet /\ Singles /\ LibShape /\ TruthInv /\ LibInv /\ CalmInv /\ FirstInv

LEMMA CacheInits == PlainNames /\ ZuneInit => CacheInv
BY ZuneInitMore, RowsMeetInit DEF CacheInv

LEMMA CacheSteps ==
    ASSUME PlainNames, ZuneTypeOK, ZuneTypeOK', CacheInv, ZuneNext \/ UNCHANGED zuneVars PROVE CacheInv'
<1>1. RowsMeet /\ Singles /\ LibShape /\ TruthInv /\ LibInv /\ CalmInv /\ FirstInv
  BY DEF CacheInv
<1>2. RowsMeet' /\ Singles' /\ LibShape'
  BY <1>1, RowsMeetStep, SinglesStep, LibShapeStep
<1>3. TruthInv'
  BY <1>1, <1>2, TruthStep
<1>4. LibInv'
  BY <1>1, <1>2, LibStep
<1>5. CalmInv'
  BY <1>1, <1>2, CalmStep
<1>6. FirstInv'
  BY <1>1, FirstStep
<1> QED BY <1>2, <1>3, <1>4, <1>5, <1>6 DEF CacheInv

LEMMA CachesTell ==
    ASSUME CacheInv PROVE ListTrue /\ NoDeadParent /\ OneCopy
<1>1. TruthInv /\ LibInv /\ CalmInv
  BY DEF CacheInv
<1>2. ListTrue
  <2> SUFFICES ASSUME At("idle"), Mishaps <= 1
               PROVE  \A t \in Song \ (twins \cup marred) : Found(Listed, t) /\ (t \in OnDevice \ cut => Has(Listed, t))
    BY DEF ListTrue, Found, Has
  <2>1. Aware /\ op.at = "idle"
    BY <1>1 DEF TruthInv, TruthOk, At
  <2>2. Good /\ Plain
    BY <2>1, AwareIsGood DEF Plain
  <2> QED BY <2>2, PlainGood
<1>3. NoDeadParent
  BY <1>1 DEF LibInv, LibOk, NoDeadParent, Mishaps, At
<1>4. OneCopy
  BY <1>1 DEF CalmInv, CalmOk, OneCopy
<1> QED BY <1>2, <1>3, <1>4

\* The list that is kept of a Zune is the list of the device after any one mishap, but for
\* what that mishap hid from the last reading or from the session, on a Zune whose names
\* are all their own: without them a removal by path may hit the file of another title.
THEOREM ListHolds == PlainNames => (ZuneSpec => []ListTrue)
<1> SUFFICES ASSUME PlainNames PROVE ZuneSpec => []ListTrue
  OBVIOUS
<1>1. ZuneTypeOK /\ ZuneTypeOK' /\ CacheInv /\ [ZuneNext]_zuneVars => CacheInv'
  BY CacheSteps
<1>2. CacheInv => ListTrue
  BY CachesTell
<1> QED BY <1>1, <1>2, CacheInits, ZuneTypes, PTL DEF ZuneSpec

\* No file is sent into a folder that is gone, where no folder's name is taken for another,
\* unless the library cache was believed without a list to date it or a folder went by a
\* call that failed.
THEOREM ParentsLive == PlainNames => (ZuneSpec => []NoDeadParent)
<1> SUFFICES ASSUME PlainNames PROVE ZuneSpec => []NoDeadParent
  OBVIOUS
<1>1. ZuneTypeOK /\ ZuneTypeOK' /\ CacheInv /\ [ZuneNext]_zuneVars => CacheInv'
  BY CacheSteps
<1>2. CacheInv => NoDeadParent
  BY CachesTell
<1> QED BY <1>1, <1>2, CacheInits, ZuneTypes, PTL DEF ZuneSpec

\* As long as nothing fails and others make one change at most, a song that is synced
\* again is replaced, whatever songs the Zune came with, if all names are their own.
THEOREM SongsOnce == PlainNames => (ZuneSpec => []OneCopy)
<1> SUFFICES ASSUME PlainNames PROVE ZuneSpec => []OneCopy
  OBVIOUS
<1>1. ZuneTypeOK /\ ZuneTypeOK' /\ CacheInv /\ [ZuneNext]_zuneVars => CacheInv'
  BY CacheSteps
<1>2. CacheInv => OneCopy
  BY CachesTell
<1> QED BY <1>1, <1>2, CacheInits, ZuneTypes, PTL DEF ZuneSpec

===============================================================================
