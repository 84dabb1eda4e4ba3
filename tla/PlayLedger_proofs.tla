-------------------------- MODULE PlayLedger_proofs --------------------------
(***************************************************************************)
(* Theorems about PlayLedger, for every set of tracks and devices, every   *)
(* cooldown and any number of acts and faults; and, at the end, about      *)
(* StemHub, which is served by the same process.                           *)
(***************************************************************************)
EXTENDS PlayLedger, StemHub, FiniteSetTheorems, SequenceTheorems, TLAPS

-----------------------------------------------------------------------------
(* Entries. *)

LEMMA TakenFinite ==
    ASSUME NEW e \in Entry, NEW D \in SUBSET Device
    PROVE  IsFiniteSet(Taken(e, D)) /\ Took(e, D) \in Nat
<1> DEFINE Of(d) == {d} \X (1..e.took[d])
           F     == [d \in D |-> Of(d)]
           S     == {Of(d) : d \in D}
<1>1. IsFiniteSet(D)
  BY LedgerAssumption, FS_Subset
<1>2. F \in Surjection(D, S)
  BY DEF Surjection
<1>3. IsFiniteSet(S)
  <2> HIDE DEF F, S
  <2> QED BY <1>1, <1>2, FS_Surjection
<1>4. \A d \in D : IsFiniteSet(Of(d))
  <2> SUFFICES ASSUME NEW d \in D PROVE IsFiniteSet(Of(d))
    OBVIOUS
  <2>1. e.took[d] \in Nat
    BY DEF Entry
  <2>2. 1 \in Int /\ e.took[d] \in Int
    BY <2>1
  <2>3. IsFiniteSet(1..e.took[d])
    BY <2>2, FS_Interval
  <2>4. IsFiniteSet({d})
    BY FS_Singleton
  <2> QED BY <2>3, <2>4, FS_Product
<1>5. \A T \in S : IsFiniteSet(T)
  BY <1>4
<1>6. IsFiniteSet(UNION S)
  <2> HIDE DEF S
  <2> QED BY <1>3, <1>5, FS_UNION
<1> QED BY <1>6, FS_CardinalityType DEF Taken, Took

LEMMA TookOfTaken ==
    ASSUME NEW e, NEW f, e.took = f.took, NEW D
    PROVE  Took(e, D) = Took(f, D)
BY DEF Took, Taken

\* Fewer devices, fewer plays.
LEMMA TookFewer ==
    ASSUME NEW e \in Entry, NEW D \in SUBSET Device, NEW C \in SUBSET D
    PROVE  Took(e, C) <= Took(e, D)
<1>1. Taken(e, C) \in SUBSET Taken(e, D)
  BY DEF Taken
<1> QED BY <1>1, TakenFinite, FS_Subset DEF Took

\* What a later reading of device d adds.
LEMMA TookMore ==
    ASSUME NEW e \in Entry, NEW f \in Entry, NEW d \in Device, NEW r \in Nat,
           f.took = [e.took EXCEPT ![d] = r], e.took[d] <= r,
           NEW D \in SUBSET Device
    PROVE  Took(f, D) = Took(e, D) + (IF d \in D THEN r - e.took[d] ELSE 0)
<1>1. e.took \in [Device -> Nat] /\ f.took \in [Device -> Nat] /\ e.took[d] \in Nat
  BY DEF Entry
<1>2. CASE d \notin D
  <2>1. \A c \in D : f.took[c] = e.took[c]
    BY <1>1, <1>2
  <2>2. {{c} \X (1..f.took[c]) : c \in D} = {{c} \X (1..e.took[c]) : c \in D}
    BY <2>1
  <2>3. Took(f, D) = Took(e, D)
    BY <2>2 DEF Took, Taken
  <2> QED BY <1>2, <2>3, TakenFinite
<1>3. CASE d \in D
  <2> DEFINE New == {d} \X ((e.took[d] + 1)..r)
  <2>1. Taken(f, D) = Taken(e, D) \cup New
    <3>1. \A c \in D : f.took[c] = IF c = d THEN r ELSE e.took[c]
      BY <1>1
    <3>2. ASSUME NEW x \in Taken(f, D) PROVE x \in Taken(e, D) \cup New
      <4>1. PICK c \in D : x \in {c} \X (1..f.took[c])
        BY DEF Taken
      <4>2. x = <<c, x[2]>> /\ x[2] \in 1..f.took[c]
        BY <4>1
      <4>3. CASE c # d
        <5>1. x \in {c} \X (1..e.took[c])
          BY <3>1, <4>1, <4>3
        <5> QED BY <5>1 DEF Taken
      <4>4. CASE c = d /\ x[2] <= e.took[d]
        <5>1. x[2] \in 1..e.took[d]
          BY <4>2, <4>4, <3>1, <1>1
        <5>2. x \in {d} \X (1..e.took[d])
          BY <5>1, <4>2, <4>4
        <5> QED BY <5>2, <1>3 DEF Taken
      <4>5. CASE c = d /\ ~(x[2] <= e.took[d])
        <5>1. x[2] \in (e.took[d] + 1)..r
          BY <4>2, <4>5, <3>1, <1>1
        <5> QED BY <5>1, <4>2, <4>5
      <4> QED BY <4>3, <4>4, <4>5
    <3>3. ASSUME NEW x \in Taken(e, D) PROVE x \in Taken(f, D)
      <4>1. PICK c \in D : x \in {c} \X (1..e.took[c])
        BY DEF Taken
      <4>2. e.took[c] \in Nat /\ f.took[c] \in Nat /\ e.took[c] <= f.took[c]
        BY <3>1, <1>1
      <4>3. 1..e.took[c] \subseteq 1..f.took[c]
        BY <4>2
      <4>4. x \in {c} \X (1..f.took[c])
        BY <4>1, <4>3
      <4> QED BY <4>4 DEF Taken
    <3>4. ASSUME NEW x \in New PROVE x \in Taken(f, D)
      <4>1. x = <<d, x[2]>> /\ x[2] \in 1..r
        BY <1>1
      <4>2. x \in {d} \X (1..f.took[d])
        BY <4>1, <3>1, <1>3
      <4> QED BY <4>2, <1>3 DEF Taken
    <3> QED BY <3>2, <3>3, <3>4
  <2>2. Taken(e, D) \cap New = {}
    <3> SUFFICES ASSUME NEW x \in Taken(e, D), x \in New PROVE FALSE
      OBVIOUS
    <3>1. PICK c \in D : x \in {c} \X (1..e.took[c])
      BY DEF Taken
    <3>2. x[1] = c /\ x[2] \in 1..e.took[c] /\ x[1] = d /\ x[2] \in (e.took[d] + 1)..r
      BY <3>1
    <3> QED BY <3>2, <1>1
  <2>3. IsFiniteSet(New) /\ Cardinality(New) = r - e.took[d]
    <3>1. /\ IsFiniteSet((e.took[d] + 1)..r)
          /\ Cardinality((e.took[d] + 1)..r) = r - e.took[d]
      <4>1. e.took[d] + 1 \in Int /\ r \in Int
        BY <1>1
      <4>2. /\ IsFiniteSet((e.took[d] + 1)..r)
            /\ Cardinality((e.took[d] + 1)..r) =
                 IF e.took[d] + 1 > r THEN 0 ELSE r - (e.took[d] + 1) + 1
        BY <4>1, FS_Interval
      <4> QED BY <4>2, <1>1
    <3>2. IsFiniteSet({d}) /\ Cardinality({d}) = 1
      BY FS_Singleton
    <3>3. /\ IsFiniteSet(New)
          /\ Cardinality(New) = Cardinality({d}) * Cardinality((e.took[d] + 1)..r)
      BY <3>1, <3>2, FS_Product
    <3> QED BY <3>1, <3>2, <3>3, <1>1
  <2>4. Cardinality(Taken(e, D) \cup New) = Cardinality(Taken(e, D)) + Cardinality(New) - Cardinality({})
    <3> HIDE DEF New
    <3> QED BY <2>2, <2>3, TakenFinite, FS_Union
  <2>5. Cardinality({}) = 0
    BY FS_EmptySet
  <2> HIDE DEF New
  <2>6. Took(e, D) \in Nat /\ Took(e, D) = Cardinality(Taken(e, D)) /\ Took(f, D) = Cardinality(Taken(f, D))
    BY TakenFinite DEF Took
  <2> QED BY <1>1, <1>3, <2>1, <2>3, <2>4, <2>5, <2>6
<1> QED BY <1>2, <1>3

LEMMA EntryFields ==
    ASSUME NEW e \in Entry
    PROVE  /\ e.n \in Nat /\ e.own \in SUBSET Int
           /\ e.seen \in [Device -> Nat] /\ e.took \in [Device -> Nat]
BY DEF Entry

\* One play more.
LEMMA RecordPlay ==
    ASSUME NEW e \in Entry, NEW id \in Int
    PROVE  /\ record_play(e, id) \in Entry
           /\ record_play(e, id).n = e.n + 1 /\ record_play(e, id).own = e.own \cup {id}
           /\ record_play(e, id).seen = e.seen /\ record_play(e, id).took = e.took
<1> DEFINE f == record_play(e, id)
           n == e.n + 1
           own == e.own \cup {id}
<1>1. n \in Nat /\ own \in SUBSET Int
  BY EntryFields
<1>2. f = [e EXCEPT !.n = n, !.own = own]
  BY DEF record_play
<1>3. f \in Entry /\ f.n = n /\ f.own = own /\ f.seen = e.seen /\ f.took = e.took
  <2> HIDE DEF f, n, own
  <2> QED BY <1>1, <1>2 DEF Entry
<1> QED BY <1>3

LEMMA MergeObservation ==
    ASSUME NEW e \in Entry, NEW d \in Device, NEW o \in Nat, NEW r \in Nat
    PROVE  LET f == merge_device_observation(e, d, o, r) IN
           /\ f \in Entry
           /\ f.n = e.n + Beyond(o, e.seen[d]) /\ f.own = e.own
           /\ f.seen = [e.seen EXCEPT ![d] = o] /\ f.took = [e.took EXCEPT ![d] = r]
<1> DEFINE f == merge_device_observation(e, d, o, r)
           n == e.n + Beyond(o, e.seen[d])
           seen == [e.seen EXCEPT ![d] = o]
           took == [e.took EXCEPT ![d] = r]
<1>1. Beyond(o, e.seen[d]) \in Nat
  BY DEF Entry, Beyond
<1>2. n \in Nat /\ seen \in [Device -> Nat] /\ took \in [Device -> Nat]
  BY <1>1, EntryFields
<1>3. f = [e EXCEPT !.n = n, !.seen = seen, !.took = took]
  BY DEF merge_device_observation
<1>4. f \in Entry /\ f.n = n /\ f.own = e.own /\ f.seen = seen /\ f.took = took
  <2> HIDE DEF f, n, seen, took
  <2> QED BY <1>2, <1>3 DEF Entry
<1> QED BY <1>4

\* What a play, and a reading of device d, leave of entry e.
Played(e, f, id) ==
    f.n = e.n + 1 /\ f.own = e.own \cup {id} /\ f.seen = e.seen /\ f.took = e.took
Observed(e, f, d, o, r) ==
    /\ f.n = e.n + Beyond(o, e.seen[d]) /\ f.own = e.own
    /\ f.seen = [e.seen EXCEPT ![d] = o] /\ f.took = [e.took EXCEPT ![d] = r]

LEMMA PlayedEntry ==
    ASSUME NEW e \in Entry, NEW id \in Int
    PROVE  Played(e, record_play(e, id), id)
BY RecordPlay DEF Played

LEMMA ObservedEntry ==
    ASSUME NEW e \in Entry, NEW d \in Device, NEW o \in Nat, NEW r \in Nat
    PROVE  Observed(e, merge_device_observation(e, d, o, r), d, o, r)
<1>1. LET f == merge_device_observation(e, d, o, r) IN
      /\ f.n = e.n + Beyond(o, e.seen[d]) /\ f.own = e.own
      /\ f.seen = [e.seen EXCEPT ![d] = o] /\ f.took = [e.took EXCEPT ![d] = r]
  BY MergeObservation
<1> QED BY <1>1 DEF Observed

-----------------------------------------------------------------------------
(* Types. *)

\* Min, of FiniteSetsExt, is a CHOOSE.
LEMMA MinOfTwo ==
    ASSUME NEW a \in Nat, NEW b \in Nat
    PROVE  Min({a, b}) = IF a <= b THEN a ELSE b
<1> DEFINE m == IF a <= b THEN a ELSE b
           P(x) == x \in {a, b} /\ \A y \in {a, b} : x <= y
<1>1. P(m)
  OBVIOUS
<1>2. \A x : P(x) => x = m
  OBVIOUS
<1>3. Min({a, b}) = CHOOSE x \in {a, b} : \A y \in {a, b} : x <= y
  BY DEF Min
<1> QED BY <1>1, <1>2, <1>3

LEMMA AppFields ==
    ASSUME NEW a \in App
    PROVE  /\ a # None /\ a.plays \in Plays /\ a.key \in Device \cup {None}
           /\ a.rows \in Lists \cup {None}
           /\ a.lib \in BOOLEAN /\ a.up \in BOOLEAN /\ a.ignore \in BOOLEAN
<1>1. a # None
  BY LedgerAssumption
<1> QED BY <1>1 DEF App

LEMMA MergedApp ==
    ASSUME NEW a \in App
    PROVE  /\ Merged(a) \in App
           /\ Merged(a).key = a.key /\ Merged(a).rows = a.rows /\ Merged(a).lib = a.lib
           /\ Merged(a).up = a.up /\ Merged(a).ignore = a.ignore
           /\ a.key = None \/ a.rows = None \/ ~a.lib => Merged(a).plays = a.plays
           /\ a.key # None /\ a.rows # None /\ a.lib => \A t \in Track :
                Merged(a).plays[t] =
                  IF t \in Copied
                  THEN merge_device_observation(a.plays[t], a.key, a.rows.of[t], a.rows.real[t])
                  ELSE a.plays[t]
<1>1. CASE a.key = None \/ a.rows = None \/ ~a.lib
  BY <1>1 DEF Merged
<1>2. CASE a.key # None /\ a.rows # None /\ a.lib
  <2> DEFINE Of(t) == IF t \in Copied
                      THEN merge_device_observation(a.plays[t], a.key, a.rows.of[t], a.rows.real[t])
                      ELSE a.plays[t]
             plays == [t \in Track |-> Of(t)]
  <2>1. Merged(a) = [a EXCEPT !.plays = plays]
    BY <1>2 DEF Merged
  <2>2. ASSUME NEW t \in Track PROVE Of(t) \in Entry
    <3>1. /\ a.plays[t] \in Entry /\ a.key \in Device
          /\ a.rows.of[t] \in Nat /\ a.rows.real[t] \in Nat
      BY <1>2, AppFields DEF Plays, Lists
    <3> QED BY <3>1, MergeObservation
  <2>3. plays \in Plays
    BY <2>2 DEF Plays
  <2>4. \A t \in Track : plays[t] = Of(t)
    OBVIOUS
  <2> HIDE DEF plays
  <2>5. /\ Merged(a) \in App /\ Merged(a).plays = plays
        /\ Merged(a).key = a.key /\ Merged(a).rows = a.rows /\ Merged(a).lib = a.lib
        /\ Merged(a).up = a.up /\ Merged(a).ignore = a.ignore
    BY <2>1, <2>3 DEF App
  <2> QED BY <1>2, <2>4, <2>5
<1> QED BY <1>1, <1>2, AppFields

LEMMA NoticeCases ==
    ASSUME NEW n \in Notice
    PROVE  /\ n.ev \in {"detected", "failed", "library", "tracks"}
           /\ n.of \in Device \cup {None}
           /\ n.ev = "tracks" => n.of \in Device /\ n.rows \in Lists
BY DEF Notice

LEMMA Notices ==
    /\ \A d \in Device \cup {None} : \A ev \in {"detected", "failed", "library"} : Event(ev, d) \in Notice
    /\ TypeOK => \A d \in Device : Listing(d) \in Notice
<1>1. ASSUME TypeOK, NEW d \in Device PROVE Listing(d) \in Notice
  <2>1. counter[d] \in [Track -> Nat] /\ hist.plays[d] \in [Track -> Nat]
    BY <1>1 DEF TypeOK
  <2> QED BY <2>1 DEF Listing, Notice, Lists
<1> QED BY <1>1 DEF Event, Notice

LEMMA ZeroTypes == Zero \in [Device -> Nat] /\ NoPlays \in Entry /\ [t \in Track |-> NoPlays] \in Plays
<1>1. Zero \in [Device -> Nat]
  BY DEF Zero
<1>2. NoPlays \in Entry
  BY <1>1 DEF NoPlays, Entry
<1> QED BY <1>1, <1>2 DEF Plays

LEMMA TypeInit == Init => TypeOK
<1> SUFFICES ASSUME Init PROVE TypeOK
  OBVIOUS
<1>1. PICK b \in Budgets : left = [tui |-> b.tui, phone |-> b.phone] /\ faults = b.faults
  BY DEF Init
<1>2. b \in [{"tui", "phone", "faults"} -> Nat]
  BY LedgerAssumption
<1>3. left \in [{"tui", "phone"} -> Nat] /\ faults \in Nat
  BY <1>1, <1>2
<1>4. counter \in [Device -> [Track -> Nat]]
  BY DEF Init
<1>5. hist \in [plays : [Device -> [Track -> Nat]], wiped : SUBSET Device, misread : BOOLEAN]
  BY <1>4 DEF Init
<1>6. /\ phone \in [listen : Nat, track : Track \cup {None}, playing : BOOLEAN, past : BOOLEAN,
                    counted : Track \cup {None}]
      /\ phone.track # None => phone.listen > 0
  BY DEF Init, NoPhone
<1>7. reported \in [done : SUBSET Nat, open : SUBSET (Nat \X Track), doubt : SUBSET Nat, dropped : SUBSET Nat]
  BY DEF Init
<1> QED BY <1>3, <1>4, <1>5, <1>6, <1>7, ZeroTypes DEF Init, TypeOK

\* Spending one of what is left.
LEMMA ActsTypes ==
    ASSUME TypeOK, NEW who \in {"tui", "phone"}, Acts(who)
    PROVE  /\ left' \in [{"tui", "phone"} -> Nat] /\ left[who] \in Nat \ {0}
           /\ left'[who] = left[who] - 1
           /\ \A x \in {"tui", "phone"} \ {who} : left'[x] = left[x]
BY DEF Acts, TypeOK

LEMMA FailsTypes == TypeOK /\ Fails => faults' \in Nat
BY DEF TypeOK, Fails

\* Devices.
LEMMA DeviceTypes ==
    ASSUME TypeOK, NEW d \in Device,
           ResetDevice(d) \/ (\E t \in Copied : PlayOnDevice(d, t))
    PROVE  TypeOK'
<1>1. Acts("tui") /\ UNCHANGED <<disk, app, remote, faults>>
  BY DEF ResetDevice, PlayOnDevice
<1>2. /\ counter' \in [Device -> [Track -> Nat]]
      /\ hist' \in [plays : [Device -> [Track -> Nat]], wiped : SUBSET Device, misread : BOOLEAN]
  <2>1. CASE ResetDevice(d)
    BY <2>1 DEF ResetDevice, TypeOK
  <2>2. CASE \E t \in Copied : PlayOnDevice(d, t)
    <3>1. PICK t \in Copied : PlayOnDevice(d, t)
      BY <2>2
    <3>2. t \in Track
      BY LedgerAssumption
    <3>3. /\ counter[d] \in [Track -> Nat] /\ hist.plays[d] \in [Track -> Nat]
          /\ hist.plays \in [Device -> [Track -> Nat]]
      BY DEF TypeOK
    <3>4. counter' = [counter EXCEPT ![d] = [counter[d] EXCEPT ![t] = counter[d][t] + 1]]
      BY <3>1 DEF PlayOnDevice
    <3> DEFINE more == [hist.plays EXCEPT ![d] = [hist.plays[d] EXCEPT ![t] = hist.plays[d][t] + 1]]
    <3>5. more \in [Device -> [Track -> Nat]]
      BY <3>2, <3>3
    <3>6. hist' = [hist EXCEPT !.plays = more]
      BY <3>1 DEF PlayOnDevice
    <3>7. counter' \in [Device -> [Track -> Nat]]
      <4>1. [counter[d] EXCEPT ![t] = counter[d][t] + 1] \in [Track -> Nat]
        BY <3>2, <3>3
      <4>2. counter \in [Device -> [Track -> Nat]]
        BY DEF TypeOK
      <4> QED BY <3>4, <4>1, <4>2
    <3> HIDE DEF more
    <3> QED BY <3>5, <3>6, <3>7 DEF TypeOK
  <2> QED BY <2>1, <2>2
<1> QED BY <1>1, <1>2, ActsTypes DEF TypeOK, app, remote

\* Keys and plays in the TUI.
LEMMA PlayHereApp ==
    ASSUME TypeOK, NEW t \in Track, PlayHere(t)
    PROVE  /\ tui' \in App /\ tui \in App /\ disk' = tui'.plays
           /\ tui'.plays = [tui.plays EXCEPT ![t] = record_play(tui.plays[t], -left["tui"])]
           /\ tui'.key = tui.key /\ tui'.rows = tui.rows /\ tui'.lib = tui.lib
           /\ tui'.up = tui.up /\ tui'.ignore = tui.ignore
<1>1. tui \in App /\ -left["tui"] \in Int
  BY DEF TypeOK, PlayHere
<1>2. tui.plays \in Plays
  BY <1>1, AppFields
<1>3. record_play(tui.plays[t], -left["tui"]) \in Entry
  BY <1>1, <1>2, RecordPlay DEF Plays
<1> DEFINE plays == [tui.plays EXCEPT ![t] = record_play(tui.plays[t], -left["tui"])]
<1>4. plays \in Plays
  BY <1>2, <1>3 DEF Plays
<1>5. tui' = [tui EXCEPT !.plays = plays] /\ disk' = tui'.plays
  BY DEF PlayHere, Saved
<1> HIDE DEF plays
<1>6. /\ tui' \in App /\ tui'.plays = plays
      /\ tui'.key = tui.key /\ tui'.rows = tui.rows /\ tui'.lib = tui.lib
      /\ tui'.up = tui.up /\ tui'.ignore = tui.ignore
  BY <1>1, <1>4, <1>5 DEF App
<1> QED BY <1>1, <1>5, <1>6 DEF plays

LEMMA TuiTypes == ASSUME TypeOK, Tui PROVE TypeOK'
<1>1. CASE StartTui
  <2>1. tui' \in App
    BY <1>1 DEF StartTui, App, TypeOK
  <2>2. cmds' \in Seq({"library", "connect", "disconnect"}) /\ tui' # None
    <3>1. cmds' = <<"library">>
      BY <1>1 DEF StartTui
    <3>2. tui' # None
      BY <2>1, AppFields
    <3> QED BY <3>1, <3>2
  <2>3. Acts("tui") /\ UNCHANGED <<disk, events, session, counter, remote, faults, hist>>
    BY <1>1 DEF StartTui
  <2> QED BY <2>1, <2>2, <2>3, ActsTypes DEF TypeOK, remote
<1>2. CASE EndTui
  BY <1>2 DEF EndTui, TypeOK, remote
<1>3. ASSUME NEW t \in Track, PlayHere(t) PROVE TypeOK'
  <2>1. /\ Acts("tui") /\ UNCHANGED <<cmds, events, session, counter, remote, faults, hist>>
    BY <1>3 DEF PlayHere
  <2>2. tui' \in App /\ disk' = tui'.plays
    BY <1>3, PlayHereApp
  <2>3. disk' \in Plays /\ tui' # None
    BY <2>2, AppFields
  <2> QED BY <2>1, <2>2, <2>3, ActsTypes DEF TypeOK, remote
<1>4. ASSUME NEW cmd \in {"connect", "disconnect", "library"}, Press(cmd) PROVE TypeOK'
  <2>1. /\ Acts("tui") /\ UNCHANGED <<disk, events, session, counter, remote, faults, hist>>
        /\ tui # None
    BY <1>4 DEF Press
  <2>2. tui \in App
    BY <2>1 DEF TypeOK
  <2>3. tui' \in App
    BY <1>4, <2>2 DEF Press, App
  <2>4. cmds' \in Seq({"library", "connect", "disconnect"}) /\ tui' # None
    BY <1>4, <2>3, AppFields DEF Press, TypeOK
  <2> QED BY <2>1, <2>3, <2>4, ActsTypes DEF TypeOK, remote
<1> QED BY <1>1, <1>2, <1>3, <1>4 DEF Tui

\* The worker and the events.
LEMMA WorkerTypes == ASSUME TypeOK, Worker PROVE TypeOK'
<1>1. UNCHANGED <<disk, tui, counter, remote, left>>
  BY DEF Worker, Connect, Disconnect, LoadLibrary, DeviceGone, Take
<1>2. cmds' \in Seq({"library", "connect", "disconnect"}) /\ tui # None
  <2>1. cmds \in Seq({"library", "connect", "disconnect"})
    BY DEF TypeOK
  <2>2. \/ cmds # <<>> /\ cmds' = Tail(cmds)
        \/ session # None /\ cmds' = cmds
    BY DEF Worker, Connect, Disconnect, LoadLibrary, DeviceGone, Take
  <2>3. tui # None
    BY <2>2 DEF TypeOK
  <2> QED BY <2>1, <2>2, <2>3
<1>3. /\ session' \in Device \cup {None} /\ faults' \in Nat
      /\ hist' \in [plays : [Device -> [Track -> Nat]], wiped : SUBSET Device, misread : BOOLEAN]
  BY FailsTypes DEF Worker, Connect, Disconnect, LoadLibrary, DeviceGone, TypeOK
<1>4. events' \in Seq(Notice)
  <2>1. \E es \in Seq(Notice) : Emit(es) \/ events' = events
    <3>1. CASE Connect
      <4>1. \/ Emit(<<Event("failed", None)>>)
            \/ \E d \in Device : \/ Emit(<<Event("detected", d), Listing(d)>>)
                                 \/ Emit(<<Event("detected", d)>>)
                                 \/ Emit(<<Event("detected", d), Event("failed", d)>>)
        BY <3>1 DEF Connect
      <4>2. <<Event("failed", None)>> \in Seq(Notice)
        BY Notices
      <4>3. ASSUME NEW d \in Device
            PROVE  /\ <<Event("detected", d), Listing(d)>> \in Seq(Notice)
                   /\ <<Event("detected", d)>> \in Seq(Notice)
                   /\ <<Event("detected", d), Event("failed", d)>> \in Seq(Notice)
        <5>1. Event("detected", d) \in Notice /\ Event("failed", d) \in Notice /\ Listing(d) \in Notice
          BY Notices
        <5> QED BY <5>1
      <4> QED BY <4>1, <4>2, <4>3
    <3>2. CASE Disconnect
      <4>1. <<>> \in Seq(Notice)
        OBVIOUS
      <4> QED BY <3>2, <4>1 DEF Disconnect
    <3>3. CASE LoadLibrary
      <4>1. <<Event("library", None)>> \in Seq(Notice)
        BY Notices
      <4> QED BY <3>3, <4>1 DEF LoadLibrary
    <3>4. CASE DeviceGone
      <4>1. <<Event("failed", session)>> \in Seq(Notice)
        BY Notices DEF TypeOK
      <4> QED BY <3>4, <4>1 DEF DeviceGone
    <3> QED BY <3>1, <3>2, <3>3, <3>4 DEF Worker
  <2>2. events \in Seq(Notice)
    BY DEF TypeOK
  <2>3. ASSUME NEW es \in Seq(Notice), Emit(es) PROVE events' \in Seq(Notice)
    <3>1. events' = events \o es
      BY <2>3 DEF Emit
    <3> QED BY <2>2, <3>1
  <2> QED BY <2>1, <2>2, <2>3
<1> QED BY <1>1, <1>2, <1>3, <1>4 DEF TypeOK, remote

\* What the panel does with an event.
LEMMA PanelApp ==
    ASSUME TypeOK, Panel
    PROVE  /\ tui \in App /\ tui' \in App /\ disk' \in Plays
           /\ events # <<>> /\ events' = Tail(events) /\ Head(events) \in Notice
           /\ UNCHANGED <<cmds, session, counter, remote, left, faults, hist>>
<1>1. /\ events # <<>> /\ events' = Tail(events) 
      /\ UNCHANGED <<cmds, session, counter, remote, left, faults, hist>>
  BY DEF Panel, OnDetected, OnFailed, OnTracks, OnLibrary, Handle
<1>2. tui \in App /\ Head(events) \in Notice
  BY <1>1 DEF TypeOK
<1>3. disk \in Plays
  BY DEF TypeOK
<1> DEFINE n == Head(events)
<1>4. n.of \in Device \cup {None}
  BY <1>2, NoticeCases
<1>5. CASE OnDetected
  <2>1. disk' = disk
    BY <1>5 DEF OnDetected
  <2>2. [tui EXCEPT !.key = n.of, !.up = TRUE] \in App
    BY <1>2, <1>4 DEF App
  <2>3. tui' = tui \/ tui' = [tui EXCEPT !.key = n.of, !.up = TRUE]
    BY <1>5 DEF OnDetected
  <2> QED BY <1>1, <1>2, <1>3, <2>1, <2>2, <2>3
<1>6. CASE OnFailed
  <2>1. disk' = disk /\ tui' = [tui EXCEPT !.key = None, !.up = FALSE]
    BY <1>6 DEF OnFailed
  <2>2. [tui EXCEPT !.key = None, !.up = FALSE] \in App
    BY <1>2 DEF App
  <2> QED BY <1>1, <1>2, <1>3, <2>1, <2>2
<1>7. CASE OnTracks
  <2>1. CASE tui.ignore
    <3>1. disk' = disk /\ tui' = tui
      BY <1>7, <2>1 DEF OnTracks
    <3> QED BY <1>1, <1>2, <1>3, <3>1
  <2>2. CASE ~tui.ignore
    <3> DEFINE a == [tui EXCEPT !.rows = n.rows]
    <3>1. n.rows \in Lists
      BY <1>2, <1>7, NoticeCases DEF OnTracks, Handle
    <3>2. a \in App
      BY <1>2, <3>1 DEF App
    <3>3. tui' = Merged(a) /\ disk' = tui'.plays
      BY <1>7, <2>2 DEF OnTracks, Saved
    <3> HIDE DEF a
    <3>4. tui' \in App
      BY <3>2, <3>3, MergedApp
    <3>5. tui'.plays \in Plays
      BY <3>4, AppFields
    <3> QED BY <1>1, <1>2, <3>3, <3>4, <3>5
  <2> QED BY <2>1, <2>2
<1>8. CASE OnLibrary
  <2> DEFINE a == [tui EXCEPT !.lib = TRUE]
  <2>1. a \in App
    BY <1>2 DEF App
  <2>2. tui' = Merged(a) /\ disk' = tui'.plays
    BY <1>8 DEF OnLibrary, Saved
  <2> HIDE DEF a
  <2>3. tui' \in App
    BY <2>1, <2>2, MergedApp
  <2>4. tui'.plays \in Plays
    BY <2>3, AppFields
  <2> QED BY <1>1, <1>2, <2>2, <2>3, <2>4
<1> QED BY <1>5, <1>6, <1>7, <1>8 DEF Panel

LEMMA PanelTypes == ASSUME TypeOK, Panel PROVE TypeOK'
<1>1. tui' # None
  BY PanelApp, AppFields
<1>2. events' \in Seq(Notice)
  <2>1. events \in Seq(Notice)
    BY DEF TypeOK
  <2>2. events # <<>> /\ events' = Tail(events)
    BY PanelApp
  <2> QED BY <2>1, <2>2
<1> QED BY <1>1, <1>2, PanelApp DEF TypeOK, remote

\* Requests.
Phones  == [listen : Nat, track : Track \cup {None}, playing : BOOLEAN, past : BOOLEAN,
            counted : Track \cup {None}]
History == [done : SUBSET Nat, open : SUBSET (Nat \X Track), doubt : SUBSET Nat, dropped : SUBSET Nat]

LEMMA ClientTypes ==
    ASSUME TypeOK, Client
    PROVE  TypeOK'
<1>1. UNCHANGED <<disk, app, counter, serve, reported, faults, hist>>
  BY DEF Client, Threshold, TogglePause, PlaybackTick, QueueCompleted, PlayOnPhone, TrackCompleted
<1>2. phone \in Phones
  BY DEF TypeOK, Phones
<1>3. left' \in [{"tui", "phone"} -> Nat]
  <2>1. Acts("phone") \/ left' = left
    BY DEF Client, Threshold, TogglePause, PlaybackTick, QueueCompleted, PlayOnPhone, TrackCompleted
  <2> QED BY <2>1, ActsTypes DEF TypeOK
<1>4. posts' = posts \/ (Due /\ posts' = posts \cup {Post(phone.listen, phone.track)})
  BY DEF Client, Threshold, TogglePause, PlaybackTick, QueueCompleted, PlayOnPhone, TrackCompleted, Send, SendIfDue
<1>5. phone' \in Phones /\ (phone'.track # None => phone'.listen > 0)
  <2>1. CASE Threshold \/ TogglePause
    BY <2>1, <1>2 DEF Threshold, TogglePause, Phones, TypeOK
  <2>2. CASE PlaybackTick
    BY <2>2, <1>2 DEF PlaybackTick, Due, Counted, Phones, TypeOK
  <2>4. CASE QueueCompleted
    <3>1. phone' = [[phone EXCEPT !.counted = phone.track] EXCEPT !.playing = FALSE]
      BY <2>4 DEF QueueCompleted, Counted
    <3> QED BY <3>1, <1>2 DEF Phones, TypeOK
  <2>3. ASSUME NEW t \in Track, PlayOnPhone(t) \/ TrackCompleted(t) PROVE phone' \in Phones /\ (phone'.track # None => phone'.listen > 0)
    <3>1. phone' = Heard(t) /\ left["phone"] \in Nat \ {0}
      BY <2>3, ActsTypes DEF PlayOnPhone, TrackCompleted
    <3> QED BY <3>1 DEF Heard, Phones
  <2> QED BY <2>1, <2>2, <2>3, <2>4 DEF Client
<1>6. Due => Post(phone.listen, phone.track) \in Report
  <2>1. faults \in Nat
    BY DEF TypeOK
  <2> QED BY <1>2, <2>1 DEF Due, Post, Phones, Report, TypeOK
<1>7. posts' \subseteq Report /\ \A p \in posts' : ~p.waits => p.at \in {"sent", "admitted"}
  <2> DEFINE p == Post(phone.listen, phone.track)
  <2>1. p.waits
    BY DEF Post
  <2>2. posts \subseteq Report /\ \A q \in posts : ~q.waits => q.at \in {"sent", "admitted"}
    BY DEF TypeOK
  <2> HIDE DEF p
  <2> QED BY <1>4, <1>6, <2>1, <2>2 DEF p
<1> QED BY <1>1, <1>3, <1>5, <1>7 DEF TypeOK, app, Phones

LEMMA ReportFields ==
    ASSUME NEW p \in Report
    PROVE  /\ p.listen \in Nat \ {0} /\ p.track \in Track
           /\ p.at \in {"sent", "admitted", "answered", "error"}
           /\ p.no \in Nat /\ p.late \in BOOLEAN /\ p.waits \in BOOLEAN
BY DEF Report

\* A request that goes on: where it is, whether it is late, and whether it is waited for.
LEMMA ReportAt ==
    ASSUME NEW p \in Report, NEW at \in {"sent", "admitted", "answered", "error"},
           NEW q, q = [p EXCEPT !.at = at]
    PROVE  q \in Report /\ q.at = at /\ q.listen = p.listen /\ q.track = p.track /\ q.waits = p.waits
BY DEF Report

LEMMA ReportLate ==
    ASSUME NEW p \in Report
    PROVE  LET q == [p EXCEPT !.late = TRUE] IN
           q \in Report /\ q.at = p.at /\ q.listen = p.listen /\ q.track = p.track /\ q.waits = p.waits
BY DEF Report

LEMMA ReportLeft ==
    ASSUME NEW p \in Report
    PROVE  LET q == [p EXCEPT !.waits = FALSE] IN
           q \in Report /\ q.at = p.at /\ q.listen = p.listen /\ q.track = p.track /\ ~q.waits
BY DEF Report

\* A failed report.
LEMMA FailTypes ==
    ASSUME TypeOK, NEW p \in posts, Fail(p)
    PROVE  /\ phone' \in Phones /\ phone'.listen = phone.listen /\ phone'.track = phone.track
           /\ phone'.past = phone.past
           /\ phone'.counted = IF phone.counted = p.track THEN None ELSE phone.counted
           /\ reported' \in History
           /\ reported'.doubt = reported.doubt \cup Mistaken(p)
           /\ reported'.open = reported.open /\ reported'.done = reported.done
<1>1. phone \in Phones /\ reported \in History
  BY DEF TypeOK, Phones, History
<1>2. Mistaken(p) \in SUBSET Nat
  BY <1>1 DEF Mistaken, Phones
<1>3. phone' = phone \/ phone' = [phone EXCEPT !.counted = None]
  BY DEF Fail, Failed, Counted
<1>4. /\ phone' \in Phones /\ phone'.listen = phone.listen /\ phone'.track = phone.track
      /\ phone'.past = phone.past
  BY <1>1, <1>3 DEF Phones
<1>5. phone'.counted = IF phone.counted = p.track THEN None ELSE phone.counted
  BY <1>1 DEF Fail, Failed, Counted, Phones
<1>6. reported' = [reported EXCEPT !.doubt = @ \cup Mistaken(p)]
  BY DEF Fail
<1>7. /\ reported' \in History /\ reported'.doubt = reported.doubt \cup Mistaken(p)
      /\ reported'.open = reported.open /\ reported'.done = reported.done
  BY <1>1, <1>2, <1>6 DEF History
<1> QED BY <1>4, <1>5, <1>7

LEMMA NetTypes == ASSUME TypeOK, Net PROVE TypeOK'
<1>1. PICK p \in posts : Refused(p) \/ GiveUp(p) \/ Lost(p) \/ Answer(p)
  BY DEF Net
<1>2. UNCHANGED <<disk, app, counter, serve, left, hist>> /\ faults' \in Nat
  BY <1>1, FailsTypes DEF Refused, GiveUp, Lost, Answer, TypeOK
<1>3. p \in Report /\ posts \subseteq Report /\ phone \in Phones /\ reported \in History
  BY <1>1 DEF TypeOK, Phones, History
<1>4. /\ phone' \in Phones /\ phone'.listen = phone.listen /\ phone'.track = phone.track
      /\ reported' \in History
  <2>1. CASE Fail(p)
    BY <2>1, FailTypes
  <2>2. CASE ~Fail(p)
    <3>1. /\ phone' = phone
          /\ \/ reported' = reported
             \/ reported' = [reported EXCEPT !.open = @ \ {<<p.listen, p.track>>}]
      BY <1>1, <2>2 DEF Refused, GiveUp, Lost, Answer
    <3> QED BY <3>1, <1>3 DEF History
  <2> QED BY <2>1, <2>2
<1>5. posts' \subseteq Report /\ \A q \in posts' : ~q.waits => q.at \in {"sent", "admitted"}
  <2> DEFINE r == [p EXCEPT !.waits = FALSE]
  <2>1. r \in Report /\ r.at = p.at
    BY <1>3, ReportLeft
  <2>2. posts' \subseteq posts \cup (IF p.at \in {"sent", "admitted"} THEN {r} ELSE {})
    BY <1>1 DEF Refused, GiveUp, Lost, Answer
  <2>3. \A q \in posts : ~q.waits => q.at \in {"sent", "admitted"}
    BY DEF TypeOK
  <2> HIDE DEF r
  <2> QED BY <1>3, <2>1, <2>2, <2>3
<1> QED BY <1>2, <1>4, <1>5 DEF TypeOK, app, Phones, History

\* The server.
LEMMA ServerFields ==
    ASSUME NEW s \in Server
    PROVE  s # None /\ s.plays \in Plays /\ s.since \in [Track -> Nat] /\ s.n \in Nat
<1>1. s # None
  BY LedgerAssumption
<1> QED BY <1>1 DEF Server

\* What the server does with a request.
Replied(p, at) == (posts \ {p}) \cup (IF p.waits THEN {[p EXCEPT !.at = at]} ELSE {})

LEMMA AdmitSteps ==
    ASSUME TypeOK, NEW p \in posts, Admit(p)
    PROVE  \/ /\ Repeat(p) /\ posts' = Replied(p, "answered")
              /\ serve' = serve /\ reported' \in History /\ reported'.done = reported.done
              /\ reported'.open = reported.open /\ reported'.doubt = reported.doubt
           \/ /\ ~Repeat(p) /\ posts' = Replied(p, "error")
              /\ serve' = serve /\ reported' = reported
           \/ /\ ~Repeat(p) /\ posts' = (posts \ {p}) \cup {[p EXCEPT !.at = "admitted"]}
              /\ serve' \in Server /\ serve'.plays = serve.plays
              /\ serve'.since = [serve.since EXCEPT ![p.track] = 0]
              /\ reported' \in History /\ reported'.done = reported.done
              /\ reported'.doubt = reported.doubt \cup TooLate(p)
              /\ reported'.open = reported.open \cup {<<p.listen, p.track>>}
<1>1. /\ serve \in Server /\ reported \in History
      /\ p.listen \in Nat /\ p.track \in Track
  BY ReportFields DEF Admit, TypeOK, History
<1>2. CASE Repeat(p)
  <2>1. posts' = Replied(p, "answered") /\ serve' = serve
    BY <1>2 DEF Admit, Replied
  <2>2. reported' = reported \/ reported' = [reported EXCEPT !.dropped = @ \cup {p.listen}]
    BY <1>2 DEF Admit
  <2>3. /\ reported' \in History /\ reported'.open = reported.open
        /\ reported'.doubt = reported.doubt /\ reported'.done = reported.done
    BY <1>1, <2>2 DEF History
  <2> QED BY <1>2, <2>1, <2>3
<1>3. CASE ~Repeat(p) /\ serve.n >= WindowMax
  BY <1>3 DEF Admit, Replied
<1>4. CASE ~Repeat(p) /\ ~(serve.n >= WindowMax)
  <2> DEFINE since == [serve.since EXCEPT ![p.track] = 0]
             n == serve.n + 1
             open == reported.open \cup {<<p.listen, p.track>>}
             doubt == reported.doubt \cup TooLate(p)
  <2>1. since \in [Track -> Nat] /\ n \in Nat
    BY <1>1, ServerFields
  <2>2. open \in SUBSET (Nat \X Track) /\ doubt \in SUBSET Nat
    BY <1>1 DEF History, TooLate
  <2>3. /\ serve' = [serve EXCEPT !.since = since, !.n = n]
        /\ reported' = [reported EXCEPT !.open = open, !.doubt = doubt]
    BY <1>4 DEF Admit
  <2>4. posts' = (posts \ {p}) \cup {[p EXCEPT !.at = "admitted"]}
    BY <1>4 DEF Admit
  <2>5. /\ serve' \in Server /\ serve'.plays = serve.plays /\ serve'.since = since
        /\ reported' \in History /\ reported'.doubt = doubt /\ reported'.open = open
        /\ reported'.done = reported.done
    <3> HIDE DEF since, n, open, doubt
    <3> QED BY <1>1, <2>1, <2>2, <2>3 DEF Server, History
  <2> QED BY <1>4, <2>4, <2>5
<1> QED BY <1>2, <1>3, <1>4

LEMMA RecordSteps ==
    ASSUME TypeOK, NEW p \in posts, Record(p)
    PROVE  /\ serve \in Server /\ serve' \in Server /\ serve'.since = serve.since
           /\ serve'.plays = [serve.plays EXCEPT ![p.track] = record_play(@, p.listen)]
           /\ disk' = serve'.plays
           /\ reported' \in History /\ reported'.done = reported.done \cup {p.listen}
           /\ reported'.doubt = reported.doubt /\ reported'.open = reported.open
<1>1. /\ serve \in Server /\ reported \in History
      /\ p.listen \in Nat /\ p.track \in Track
  BY ReportFields DEF Record, TypeOK, History
<1>2. serve.plays \in Plays
  BY <1>1, ServerFields
<1> DEFINE plays == [serve.plays EXCEPT ![p.track] = record_play(@, p.listen)]
<1>3. plays \in Plays
  <2>1. serve.plays[p.track] \in Entry /\ p.listen \in Int
    BY <1>1, <1>2 DEF Plays
  <2>2. record_play(serve.plays[p.track], p.listen) \in Entry
    BY <2>1, RecordPlay
  <2> QED BY <1>2, <2>2 DEF Plays
<1>4. serve' = [serve EXCEPT !.plays = plays]
  BY DEF Record
<1>5. serve' \in Server /\ serve'.since = serve.since /\ serve'.plays = plays
  <2> HIDE DEF plays
  <2> QED BY <1>1, <1>3, <1>4 DEF Server
<1>6. reported' = [reported EXCEPT !.done = @ \cup {p.listen}]
  BY DEF Record
<1>7. /\ reported' \in History /\ reported'.done = reported.done \cup {p.listen}
      /\ reported'.doubt = reported.doubt /\ reported'.open = reported.open
  BY <1>1, <1>6 DEF History
<1>8. disk' = serve'.plays
  BY DEF Record
<1> QED BY <1>1, <1>5, <1>7, <1>8

LEMMA StopSteps ==
    ASSUME TypeOK, StopServe
    PROVE  /\ reported' \in History /\ reported'.open = reported.open
           /\ reported'.doubt = reported.doubt \cup Listens(reported.open)
           /\ reported'.done = reported.done
           /\ posts' \subseteq Report
           /\ \A q \in posts' :
                \/ q \in posts /\ q.at = "sent"
                \/ /\ q.waits /\ q.at = "error"
                   /\ \E p \in posts : p.waits /\ p.at # "sent" /\ q = [p EXCEPT !.at = "error"]
<1>1. reported \in History /\ posts \subseteq Report
  BY DEF TypeOK, History
<1> DEFINE doubt == reported.doubt \cup Listens(reported.open)
           dropped == reported.dropped \cup {p.listen : p \in {q \in posts : q.at # "sent" /\ ~q.waits}}
<1>2. doubt \in SUBSET Nat
  BY <1>1 DEF History, Listens
<1>3. dropped \in SUBSET Nat
  BY <1>1, ReportFields DEF History
<1>4. reported' = [reported EXCEPT !.doubt = doubt, !.dropped = dropped]
  BY DEF StopServe
<1>5. /\ reported' \in History /\ reported'.open = reported.open /\ reported'.doubt = doubt
      /\ reported'.done = reported.done
  <2> HIDE DEF doubt, dropped
  <2> QED BY <1>1, <1>2, <1>3, <1>4 DEF History
<1>6. posts' = {p \in posts : p.at = "sent"}
                \cup {[p EXCEPT !.at = "error"] : p \in {q \in posts : q.at # "sent" /\ q.waits}}
  BY DEF StopServe
<1>7. ASSUME NEW q \in posts', ~(q \in posts /\ q.at = "sent")
      PROVE  /\ q \in Report /\ q.waits /\ q.at = "error"
             /\ \E p \in posts : p.waits /\ p.at # "sent" /\ q = [p EXCEPT !.at = "error"]
  <2>1. PICK p \in posts : p.waits /\ p.at # "sent" /\ q = [p EXCEPT !.at = "error"]
    BY <1>6, <1>7
  <2>2. p \in Report
    BY <1>1
  <2> QED BY <2>1, <2>2, ReportAt
<1> QED BY <1>1, <1>5, <1>7

LEMMA ServingTypes == ASSUME TypeOK, Serving PROVE TypeOK'
<1>1. UNCHANGED <<app, counter, phone, faults, hist>>
  BY DEF Serving, StartServe, StopServe, WindowOver, Admit, Record
<1>2. /\ disk \in Plays /\ posts \subseteq Report /\ reported \in History
      /\ \A q \in posts : ~q.waits => q.at \in {"sent", "admitted"}
  BY DEF TypeOK, History
<1>3. CASE StartServe
  <2>1. Acts("phone") /\ disk' = disk /\ posts' = posts /\ reported' = reported
    BY <1>3 DEF StartServe
  <2>2. serve' = [plays |-> disk, since |-> [t \in Track |-> Cooldown], n |-> 0]
    BY <1>3 DEF StartServe
  <2>3. [t \in Track |-> Cooldown] \in [Track -> Nat]
    BY LedgerAssumption
  <2>4. serve' \in Server
    BY <1>2, <2>2, <2>3 DEF Server
  <2> QED BY <1>1, <2>1, <2>4, ActsTypes DEF TypeOK, app
<1>4. CASE StopServe
  <2>1. serve' = None /\ disk' = disk /\ left' = left
    BY <1>4 DEF StopServe
  <2> QED BY <1>1, <1>4, <2>1, StopSteps DEF TypeOK, app, History
<1>5. CASE WindowOver
  <2>1. serve \in Server /\ serve' = [serve EXCEPT !.n = 0]
    BY <1>5 DEF WindowOver, TypeOK
  <2>2. serve' \in Server
    BY <2>1 DEF Server
  <2>3. UNCHANGED <<disk, posts, reported, left>>
    BY <1>5 DEF WindowOver
  <2> QED BY <1>1, <2>2, <2>3 DEF TypeOK, app
<1>6. ASSUME NEW p \in posts, Admit(p) PROVE TypeOK'
  <2>1. /\ disk' = disk /\ left' = left /\ p \in Report
    BY <1>2, <1>6 DEF Admit
  <2>2. posts' \subseteq Report /\ \A q \in posts' : ~q.waits => q.at \in {"sent", "admitted"}
    <3>1. ASSUME NEW at \in {"answered", "error"}, posts' = Replied(p, at)
          PROVE  posts' \subseteq Report /\ \A q \in posts' : ~q.waits => q.at \in {"sent", "admitted"}
      <4> DEFINE n == [p EXCEPT !.at = at]
      <4>1. n \in Report /\ n.waits = p.waits
        BY <2>1, ReportAt
      <4>2. posts' = (posts \ {p}) \cup (IF p.waits THEN {n} ELSE {})
        BY <3>1 DEF Replied
      <4> HIDE DEF n
      <4> QED BY <1>2, <4>1, <4>2
    <3>2. CASE posts' = (posts \ {p}) \cup {[p EXCEPT !.at = "admitted"]}
      <4> DEFINE n == [p EXCEPT !.at = "admitted"]
      <4>1. n \in Report /\ n.at = "admitted"
        BY <2>1, ReportAt
      <4> HIDE DEF n
      <4> QED BY <1>2, <3>2, <4>1 DEF n
    <3> QED BY <1>6, <3>1, <3>2, AdmitSteps
  <2>3. serve' \in Server /\ reported' \in History
    <3>1. serve \in Server
      BY <1>6 DEF Admit, TypeOK
    <3> QED BY <1>2, <1>6, <3>1, AdmitSteps
  <2> QED BY <1>1, <2>1, <2>2, <2>3 DEF TypeOK, app, History
<1>7. ASSUME NEW p \in posts, Record(p) PROVE TypeOK'
  <2>1. left' = left /\ p \in Report
    BY <1>2, <1>7 DEF Record
  <2>2. serve' \in Server /\ disk' \in Plays /\ reported' \in History
    BY <1>7, RecordSteps, ServerFields
  <2> DEFINE r == [p EXCEPT !.at = "answered"]
  <2>3. r \in Report /\ (p.waits => r.waits)
    BY <2>1, ReportAt
  <2>4. posts' = (posts \ {p}) \cup (IF p.waits THEN {r} ELSE {})
    BY <1>7 DEF Record
  <2> HIDE DEF r
  <2>5. posts' \subseteq Report /\ \A q \in posts' : ~q.waits => q.at \in {"sent", "admitted"}
    BY <1>2, <2>3, <2>4
  <2> QED BY <1>1, <2>1, <2>2, <2>5 DEF TypeOK, app, History
<1> QED BY <1>3, <1>4, <1>5, <1>6, <1>7 DEF Serving

LEMMA TickSteps ==
    ASSUME TypeOK, Tick
    PROVE  /\ reported' \in History /\ reported'.open = reported.open
           /\ reported.doubt \subseteq reported'.doubt /\ reported'.done = reported.done
           /\ serve # None => \A x \in reported.open :
                serve.since[x[2]] = Cooldown - 1 => x[1] \in reported'.doubt
           /\ serve = None => serve' = None
           /\ serve # None => /\ serve' \in Server /\ serve'.plays = serve.plays
                              /\ \A t \in Track : serve'.since[t] = Min({serve.since[t] + 1, Cooldown})
           /\ \A q \in posts' : \E p \in posts : q = [p EXCEPT !.late = TRUE]
<1>1. reported \in History
  BY DEF TypeOK, History
<1> DEFINE old == IF serve = None THEN {}
                  ELSE Listens({x \in reported.open : serve.since[x[2]] = Cooldown - 1})
           doubt == reported.doubt \cup old
<1>2. doubt \in SUBSET Nat
  BY <1>1 DEF History, Listens
<1>3. reported' = [reported EXCEPT !.doubt = doubt]
  BY DEF Tick
<1>4. /\ reported' \in History /\ reported'.open = reported.open /\ reported'.doubt = doubt
      /\ reported'.done = reported.done
  <2> HIDE DEF doubt
  <2> QED BY <1>1, <1>2, <1>3 DEF History
<1>5. serve # None => \A x \in reported.open : serve.since[x[2]] = Cooldown - 1 => x[1] \in old
  BY DEF Listens
<1>6. serve = None => serve' = None
  BY DEF Tick
<1>7. ASSUME serve # None
      PROVE  /\ serve' \in Server /\ serve'.plays = serve.plays
             /\ \A t \in Track : serve'.since[t] = Min({serve.since[t] + 1, Cooldown})
  <2> DEFINE since == [t \in Track |-> Min({serve.since[t] + 1, Cooldown})]
  <2>1. serve \in Server
    BY <1>7 DEF TypeOK
  <2>2. ASSUME NEW t \in Track PROVE Min({serve.since[t] + 1, Cooldown}) \in Nat
    <3>1. serve.since[t] + 1 \in Nat /\ Cooldown \in Nat
      BY <2>1, ServerFields, LedgerAssumption
    <3> QED BY <3>1, MinOfTwo
  <2>3. since \in [Track -> Nat]
    BY <2>2
  <2>4. serve' = [serve EXCEPT !.since = since]
    BY <1>7 DEF Tick
  <2>5. \A t \in Track : since[t] = Min({serve.since[t] + 1, Cooldown})
    OBVIOUS
  <2>6. serve' \in Server /\ serve'.plays = serve.plays /\ serve'.since = since
    <3> HIDE DEF since
    <3> QED BY <2>1, <2>3, <2>4 DEF Server
  <2> QED BY <2>5, <2>6
<1>8. \A q \in posts' : \E p \in posts : q = [p EXCEPT !.late = TRUE]
  BY DEF Tick
<1> QED BY <1>4, <1>5, <1>6, <1>7, <1>8

LEMMA TickTypes == ASSUME TypeOK, Tick PROVE TypeOK'
<1>1. UNCHANGED <<disk, app, counter, phone, left, faults, hist>>
  BY DEF Tick
<1>2. posts' \subseteq Report /\ \A q \in posts' : ~q.waits => q.at \in {"sent", "admitted"}
  <2> SUFFICES ASSUME NEW q \in posts' PROVE q \in Report /\ (~q.waits => q.at \in {"sent", "admitted"})
    OBVIOUS
  <2>1. PICK p \in posts : q = [p EXCEPT !.late = TRUE]
    BY TickSteps
  <2>2. p \in Report /\ (~p.waits => p.at \in {"sent", "admitted"})
    BY DEF TypeOK
  <2> QED BY <2>1, <2>2, ReportLate
<1>3. serve' \in Server \cup {None}
  BY TickSteps
<1> QED BY <1>1, <1>2, <1>3, TickSteps DEF TypeOK, app, History

LEMMA TypeStep == ASSUME TypeOK, [Next]_vars PROVE TypeOK'
<1>1. CASE UNCHANGED vars
  BY <1>1 DEF vars, app, remote, TypeOK
<1> QED BY <1>1, DeviceTypes, TuiTypes, WorkerTypes, PanelTypes, ClientTypes, NetTypes, ServingTypes,
           TickTypes DEF Next

\* Every variable keeps its type; without the TUI its worker holds nothing, and a
\* request nobody waits for is one that the server is recording.
THEOREM LedgerTypes == Spec => []TypeOK
<1>1. Init => TypeOK
  BY TypeInit
<1>2. TypeOK /\ [Next]_vars => TypeOK'
  BY TypeStep
<1> QED BY <1>1, <1>2, PTL DEF Spec

-----------------------------------------------------------------------------
(* The copies: the file and both memories. *)

LEMMA CopiesPlays ==
    ASSUME TypeOK
    PROVE  \A c \in Copies : c \in Plays /\ \A t \in Track : c[t] \in Entry
<1>1. \A c \in Copies : c \in Plays
  BY AppFields, ServerFields DEF Copies, TypeOK
<1> QED BY <1>1 DEF Plays

LEMMA InCopies ==
    /\ disk \in Copies
    /\ tui # None => tui.plays \in Copies
    /\ serve # None => serve.plays \in Copies
BY DEF Copies

\* A copy after a step is one of before, but for one play, or for what is read.
LEMMA CopiesStep ==
    ASSUME TypeOK, [Next]_vars
    PROVE  \/ Copies' \subseteq Copies
           \/ \E t \in Track : PlayHere(t) /\ Copies' \subseteq Copies \cup {tui'.plays}
           \/ \E p \in posts : Record(p) /\ Copies' \subseteq Copies \cup {serve'.plays}
           \/ (OnTracks \/ OnLibrary) /\ Copies' \subseteq Copies \cup {tui'.plays}
<1> DEFINE Same == disk' = disk /\ tui' = tui /\ serve' = serve
<1>1. Same => Copies' = Copies
  BY DEF Copies
<1>2. CASE UNCHANGED vars
  BY <1>1, <1>2 DEF vars, app, remote
<1>3. ASSUME NEW d \in Device, ResetDevice(d) \/ (\E t \in Copied : PlayOnDevice(d, t))
      PROVE  Copies' = Copies
  BY <1>1, <1>3 DEF ResetDevice, PlayOnDevice, app, remote
<1>4. CASE StartTui
  <2>1. tui'.plays = disk /\ disk' = disk /\ serve' = serve
    BY <1>4 DEF StartTui, remote
  <2> QED BY <2>1 DEF Copies
<1>5. CASE EndTui
  BY <1>5 DEF EndTui, remote, Copies
<1>6. ASSUME NEW t \in Track, PlayHere(t) PROVE Copies' \subseteq Copies \cup {tui'.plays}
  BY <1>6 DEF PlayHere, Saved, remote, Copies
<1>7. ASSUME NEW cmd \in {"connect", "disconnect", "library"}, Press(cmd) PROVE Copies' \subseteq Copies
  <2>1. tui # None /\ disk' = disk /\ serve' = serve /\ tui \in App
    BY <1>7 DEF Press, remote, TypeOK
  <2>2. tui'.plays = tui.plays
    BY <1>7, <2>1 DEF Press, App
  <2> QED BY <2>1, <2>2 DEF Copies
<1>8. CASE Worker
  BY <1>1, <1>8 DEF Worker, Connect, Disconnect, LoadLibrary, DeviceGone, Take, remote
<1>9. CASE OnDetected \/ OnFailed
  <2>1. tui \in App /\ tui' \in App /\ disk' = disk /\ serve' = serve
    BY <1>9, PanelApp DEF Panel, OnDetected, OnFailed, Handle, remote
  <2>2. tui'.plays = tui.plays
    BY <1>9, <2>1 DEF OnDetected, OnFailed, App
  <2> QED BY <2>1, <2>2, AppFields DEF Copies
<1>10. CASE OnTracks \/ OnLibrary
  BY <1>10 DEF OnTracks, OnLibrary, Saved, Handle, remote, Copies
<1>11. CASE Client \/ Net
  BY <1>1, <1>11 DEF Client, Threshold, TogglePause, PlaybackTick, QueueCompleted, PlayOnPhone, TrackCompleted,
                    Net, Refused, GiveUp, Lost, Answer, app
<1>12. CASE StartServe
  <2>1. serve'.plays = disk /\ disk' = disk /\ tui' = tui
    BY <1>12 DEF StartServe, app
  <2> QED BY <2>1 DEF Copies
<1>13. CASE StopServe
  BY <1>13 DEF StopServe, app, Copies
<1>14. CASE WindowOver
  <2>1. serve # None /\ serve \in Server /\ disk' = disk /\ tui' = tui /\ serve' = [serve EXCEPT !.n = 0]
    BY <1>14 DEF WindowOver, app, TypeOK
  <2>2. serve'.plays = serve.plays
    BY <2>1 DEF Server
  <2> QED BY <2>1, <2>2 DEF Copies
<1>15. ASSUME NEW p \in posts, Admit(p) PROVE Copies' \subseteq Copies
  <2>1. serve # None /\ disk' = disk /\ tui' = tui
    BY <1>15 DEF Admit, app
  <2>2. serve'.plays = serve.plays
    BY <1>15, AdmitSteps
  <2> QED BY <2>1, <2>2 DEF Copies
<1>16. ASSUME NEW p \in posts, Record(p) PROVE Copies' \subseteq Copies \cup {serve'.plays}
  BY <1>16 DEF Record, app, Copies
<1>17. CASE Tick
  <2>1. disk' = disk /\ tui' = tui
    BY <1>17 DEF Tick, app
  <2> QED BY <1>17, <2>1, TickSteps DEF Copies
<1> QED BY <1>2, <1>3, <1>4, <1>5, <1>6, <1>7, <1>8, <1>9, <1>10, <1>11, <1>12, <1>13, <1>14, <1>15,
           <1>16, <1>17 DEF Next, Tui, Panel, Serving

\* The same for one entry.  A device is read when its list comes, or the library does.
ReadsList ==
    OnTracks /\ ~tui.ignore /\ tui.key # None /\ Head(events).rows \in Lists
ReadsRows ==
    OnLibrary /\ tui.key # None /\ tui.rows # None

LEMMA PanelReads ==
    ASSUME TypeOK, OnTracks \/ OnLibrary
    PROVE  /\ tui \in App /\ tui' \in App
           /\ disk' = disk \/ disk' = tui'.plays
           /\ tui'.key = tui.key /\ tui'.up = tui.up /\ tui'.ignore = tui.ignore
           /\ OnTracks => tui'.lib = tui.lib
           /\ OnTracks /\ tui.ignore => tui' = tui
           /\ OnTracks /\ ~tui.ignore => tui'.rows = Head(events).rows /\ tui'.rows \in Lists
           /\ OnLibrary => tui'.rows = tui.rows /\ tui'.lib = TRUE
           /\ \/ tui'.plays = tui.plays /\ (tui'.key = None \/ tui'.rows = None \/ ~tui'.lib \/ (OnTracks /\ tui.ignore))
              \/ /\ ReadsList \/ ReadsRows
                 /\ tui'.key \in Device /\ tui'.rows \in Lists
                 /\ \A t \in Track : tui'.plays[t] =
                      IF t \in Copied
                      THEN merge_device_observation(tui.plays[t], tui'.key, tui'.rows.of[t], tui'.rows.real[t])
                      ELSE tui.plays[t]
<1>1. tui \in App /\ tui' \in App /\ events # <<>> /\ Head(events) \in Notice
  BY PanelApp DEF Panel
<1>2. tui.key \in Device \cup {None} /\ tui.rows \in Lists \cup {None} /\ tui.lib \in BOOLEAN
  BY <1>1, AppFields
<1>3. CASE OnTracks
  <2>1. Head(events).rows \in Lists /\ Head(events).rows # None
    <3>1. Head(events).rows \in Lists
      BY <1>1, <1>3, NoticeCases DEF OnTracks, Handle
    <3> QED BY <3>1, LedgerAssumption
  <2>2. ~OnLibrary
    BY <1>3 DEF OnTracks, OnLibrary, Handle
  <2>3. CASE tui.ignore
    <3>1. tui' = tui /\ disk' = disk
      BY <1>3, <2>3 DEF OnTracks
    <3> QED BY <1>1, <1>3, <2>2, <2>3, <3>1
  <2>4. CASE ~tui.ignore
    <3> DEFINE a == [tui EXCEPT !.rows = Head(events).rows]
    <3>1. /\ a \in App /\ a.plays = tui.plays /\ a.key = tui.key /\ a.rows = Head(events).rows
          /\ a.lib = tui.lib /\ a.up = tui.up /\ a.ignore = tui.ignore
      BY <1>1, <2>1 DEF App
    <3>2. tui' = Merged(a) /\ disk' = tui'.plays
      BY <1>3, <2>4 DEF OnTracks, Saved
    <3> HIDE DEF a
    <3>3. /\ tui'.key = tui.key /\ tui'.rows = Head(events).rows /\ tui'.lib = tui.lib
          /\ tui'.up = tui.up /\ tui'.ignore = tui.ignore
      BY <3>1, <3>2, MergedApp
    <3>4. CASE tui.key = None \/ ~tui.lib
      <4>1. tui'.plays = tui.plays
        BY <3>1, <3>2, <3>4, MergedApp
      <4> QED BY <1>1, <1>2, <1>3, <2>1, <2>2, <2>4, <3>2, <3>3, <3>4, <4>1
    <3>5. CASE tui.key # None /\ tui.lib
      <4>1. \A t \in Track : tui'.plays[t] =
              IF t \in Copied
              THEN merge_device_observation(tui.plays[t], tui'.key, tui'.rows.of[t], tui'.rows.real[t])
              ELSE tui.plays[t]
        <5>1. a.key # None /\ a.rows # None /\ a.lib
          BY <2>1, <3>1, <3>5
        <5>2. \A t \in Track : Merged(a).plays[t] =
                IF t \in Copied
                THEN merge_device_observation(a.plays[t], a.key, a.rows.of[t], a.rows.real[t])
                ELSE a.plays[t]
          BY <3>1, <5>1, MergedApp
        <5> QED BY <3>1, <3>2, <3>3, <5>2
      <4>2. ReadsList
        BY <1>3, <2>1, <2>4, <3>5 DEF ReadsList
      <4> QED BY <1>1, <1>2, <1>3, <2>1, <2>2, <2>4, <3>2, <3>3, <3>5, <4>1, <4>2
    <3> QED BY <1>2, <3>4, <3>5
  <2> QED BY <1>1, <2>3, <2>4, AppFields
<1>4. CASE OnLibrary
  <2>1. ~OnTracks
    BY <1>4 DEF OnTracks, OnLibrary, Handle
  <2> DEFINE a == [tui EXCEPT !.lib = TRUE]
  <2>2. /\ a \in App /\ a.plays = tui.plays /\ a.key = tui.key /\ a.rows = tui.rows
        /\ a.lib = TRUE /\ a.up = tui.up /\ a.ignore = tui.ignore
    BY <1>1 DEF App
  <2>3. tui' = Merged(a) /\ disk' = tui'.plays
    BY <1>4 DEF OnLibrary, Saved
  <2> HIDE DEF a
  <2>4. /\ tui'.key = tui.key /\ tui'.rows = tui.rows /\ tui'.lib = TRUE
        /\ tui'.up = tui.up /\ tui'.ignore = tui.ignore
    BY <2>2, <2>3, MergedApp
  <2>5. CASE tui.key = None \/ tui.rows = None
    <3>1. tui'.plays = tui.plays
      BY <2>2, <2>3, <2>5, MergedApp
    <3> QED BY <1>1, <1>4, <2>1, <2>3, <2>4, <2>5, <3>1
  <2>6. CASE tui.key # None /\ tui.rows # None
    <3>1. \A t \in Track : tui'.plays[t] =
            IF t \in Copied
            THEN merge_device_observation(tui.plays[t], tui'.key, tui'.rows.of[t], tui'.rows.real[t])
            ELSE tui.plays[t]
      BY <2>2, <2>3, <2>4, <2>6, MergedApp
    <3>2. ReadsRows
      BY <1>4, <2>6 DEF ReadsRows
    <3> QED BY <1>1, <1>2, <1>4, <2>1, <2>3, <2>4, <2>6, <3>1, <3>2
  <2> QED BY <2>5, <2>6
<1> QED BY <1>3, <1>4

LEMMA EntryStep ==
    ASSUME TypeOK, [Next]_vars, NEW c \in Copies', NEW t \in Track
    PROVE  \E b \in Copies :
             \/ c[t] = b[t]
             \/ (\E u \in Track : PlayHere(u)) /\ Played(b[t], c[t], -left["tui"])
             \/ \E p \in posts : Record(p) /\ p.track = t /\ Played(b[t], c[t], p.listen)
             \/ /\ ReadsList \/ ReadsRows
                /\ tui'.key \in Device /\ tui'.rows \in Lists
                /\ Observed(b[t], c[t], tui'.key, tui'.rows.of[t], tui'.rows.real[t])
<1>1. CASE c \in Copies
  BY <1>1
<1>2. ASSUME NEW u \in Track, PlayHere(u), c = tui'.plays
      PROVE  \E b \in Copies : c[t] = b[t] \/ Played(b[t], c[t], -left["tui"])
  <2>1. tui.plays \in Copies /\ tui.plays \in Plays
    BY <1>2, InCopies, PlayHereApp, AppFields
  <2>2. c = [tui.plays EXCEPT ![u] = record_play(tui.plays[u], -left["tui"])]
    BY <1>2, PlayHereApp
  <2>3. c[t] = IF t = u THEN record_play(tui.plays[u], -left["tui"]) ELSE tui.plays[t]
    BY <2>1, <2>2 DEF Plays
  <2>4. tui.plays[u] \in Entry /\ -left["tui"] \in Int
    BY <2>1 DEF Plays, TypeOK
  <2>5. Played(tui.plays[u], record_play(tui.plays[u], -left["tui"]), -left["tui"])
    BY <2>4, PlayedEntry
  <2> QED BY <2>1, <2>3, <2>5
<1>3. ASSUME NEW p \in posts, Record(p), c = serve'.plays
      PROVE  \E b \in Copies : c[t] = b[t] \/ (p.track = t /\ Played(b[t], c[t], p.listen))
  <2>1. serve.plays \in Copies /\ serve.plays \in Plays
    BY <1>3, InCopies, RecordSteps, ServerFields
  <2>2. c = [serve.plays EXCEPT ![p.track] = record_play(serve.plays[p.track], p.listen)]
    BY <1>3, RecordSteps
  <2>3. c[t] = IF t = p.track THEN record_play(serve.plays[p.track], p.listen) ELSE serve.plays[t]
    BY <2>1, <2>2 DEF Plays
  <2>4. serve.plays[t] \in Entry /\ p.listen \in Int
    BY <2>1, ReportFields DEF Plays, TypeOK
  <2>5. Played(serve.plays[t], record_play(serve.plays[t], p.listen), p.listen)
    BY <2>4, PlayedEntry
  <2> QED BY <2>1, <2>3, <2>5
<1>4. ASSUME OnTracks \/ OnLibrary, c = tui'.plays
      PROVE  \E b \in Copies :
               \/ c[t] = b[t]
               \/ /\ ReadsList \/ ReadsRows
                  /\ tui'.key \in Device /\ tui'.rows \in Lists
                  /\ Observed(b[t], c[t], tui'.key, tui'.rows.of[t], tui'.rows.real[t])
  <2>1. tui.plays \in Copies /\ tui.plays[t] \in Entry
    BY <1>4, PanelReads, AppFields, InCopies, CopiesPlays
  <2>2. CASE tui'.plays = tui.plays
    BY <1>4, <2>1, <2>2
  <2>3. ASSUME ReadsList \/ ReadsRows, tui'.key \in Device, tui'.rows \in Lists,
               tui'.plays[t] = merge_device_observation(tui.plays[t], tui'.key, tui'.rows.of[t], tui'.rows.real[t])
        PROVE  Observed(tui.plays[t], c[t], tui'.key, tui'.rows.of[t], tui'.rows.real[t])
    <3> DEFINE o == tui'.rows.of[t]
               r == tui'.rows.real[t]
               k == tui'.key
    <3>1. o \in Nat /\ r \in Nat /\ k \in Device
      BY <2>3 DEF Lists
    <3>2. c[t] = merge_device_observation(tui.plays[t], k, o, r)
      BY <1>4, <2>3
    <3> HIDE DEF o, r, k
    <3>3. Observed(tui.plays[t], c[t], k, o, r)
      BY <2>1, <3>1, <3>2, ObservedEntry
    <3> QED BY <3>3 DEF o, r, k
  <2> QED BY <1>4, <2>1, <2>2, <2>3, PanelReads
<1> QED BY <1>1, <1>2, <1>3, <1>4, CopiesStep

\* What counts in an entry grows by a play in the TUI or by a recorded listen.
LEMMA OwnStep ==
    ASSUME TypeOK, [Next]_vars, NEW c \in Copies', NEW t \in Track
    PROVE  \E b \in Copies :
             \/ c[t].own = b[t].own
             \/ (\E u \in Track : PlayHere(u)) /\ c[t].own = b[t].own \cup {-left["tui"]}
             \/ \E p \in posts : Record(p) /\ p.track = t /\ c[t].own = b[t].own \cup {p.listen}
<1>1. PICK b \in Copies :
        \/ c[t] = b[t]
        \/ (\E u \in Track : PlayHere(u)) /\ Played(b[t], c[t], -left["tui"])
        \/ \E p \in posts : Record(p) /\ p.track = t /\ Played(b[t], c[t], p.listen)
        \/ /\ ReadsList \/ ReadsRows
           /\ tui'.key \in Device /\ tui'.rows \in Lists
           /\ Observed(b[t], c[t], tui'.key, tui'.rows.of[t], tui'.rows.real[t])
  BY EntryStep
<1>2. CASE c[t] = b[t]
  BY <1>2
<1>3. CASE (\E u \in Track : PlayHere(u)) /\ Played(b[t], c[t], -left["tui"])
  <2>1. c[t].own = b[t].own \cup {-left["tui"]}
    BY <1>3 DEF Played
  <2> QED BY <1>3, <2>1
<1>4. ASSUME NEW p \in posts, Record(p), p.track = t, Played(b[t], c[t], p.listen)
      PROVE  c[t].own = b[t].own \cup {p.listen}
  BY <1>4 DEF Played
<1>5. CASE Observed(b[t], c[t], tui'.key, tui'.rows.of[t], tui'.rows.real[t])
  BY <1>5 DEF Observed
<1> QED BY <1>1, <1>2, <1>3, <1>4, <1>5

-----------------------------------------------------------------------------
(* Listens: a listen whose report is in no doubt is admitted once. *)

\* The listens with their tracks: heard, reported, and admitted.
Names == {<<p.listen, p.track>> : p \in posts} \cup reported.open \cup {<<phone.listen, phone.track>>}

\* The numbers of listens and of the plays in the TUI are given out once.
Fresh ==
    /\ \A x \in Names : x[1] = 0 \/ x[1] > left["phone"]
    /\ \A c \in Copies, t \in Track : \A i \in c[t].own :
         IF i > 0 THEN i > left["phone"] ELSE -i > left["tui"]

OneTrack == \A x, y \in Names : x[1] = y[1] => x[2] = y[2]

Admitted(l) == \E p \in posts : p.listen = l /\ p.at = "admitted"
Counts(l)   == \E c \in Copies, t \in Track : l \in c[t].own
Waiting(l)  == \E p \in posts : p.listen = l /\ p.waits
WillSend(l) == phone.listen = l /\ Due

\* The server would answer another report of the listen without recording it.
Repeated(l) == serve # None /\ \E x \in reported.open : x[1] = l /\ serve.since[x[2]] < Cooldown

\* A listen is reported by one request at a time, and admitted once.  Once it was
\* admitted it is reported again only while the server would not admit it.
OneReport(l) ==
    /\ \A p, q \in posts : p.listen = l /\ q.listen = l /\ p.waits /\ q.waits => p = q
    /\ WillSend(l) => ~Waiting(l)
OnceAdmitted(l) ==
    /\ \A p, q \in posts : p.listen = l /\ q.listen = l /\ p.at = "admitted" /\ q.at = "admitted" => p = q
    /\ Admitted(l) => ~Counts(l)
NoSecond(l) == Admitted(l) \/ Counts(l) => Repeated(l) \/ (~Waiting(l) /\ ~WillSend(l))

Once(l)   == OneReport(l) /\ OnceAdmitted(l) /\ NoSecond(l)
Undoubted == \A l \in (Nat \ {0}) \ reported.doubt : Once(l)

\* What counts was recorded.
Recorded == \A c \in Copies, t \in Track : \A i \in c[t].own : i > 0 => i \in reported.done

ReportsInv == TypeOK /\ Fresh /\ OneTrack /\ Recorded /\ Undoubted

\* Only Record counts a listen.
LEMMA CountsStep ==
    ASSUME TypeOK, [Next]_vars, NEW l \in Nat \ {0}
    PROVE  Counts(l)' => Counts(l) \/ \E p \in posts : Record(p) /\ p.listen = l
<1> SUFFICES ASSUME Counts(l)' PROVE Counts(l) \/ \E p \in posts : Record(p) /\ p.listen = l
  OBVIOUS
<1>1. PICK c \in Copies', t \in Track : l \in c[t].own
  BY DEF Counts
<1>2. PICK b \in Copies :
        \/ c[t].own = b[t].own
        \/ c[t].own = b[t].own \cup {-left["tui"]}
        \/ \E p \in posts : Record(p) /\ c[t].own = b[t].own \cup {p.listen}
  BY OwnStep
<1>3. left["tui"] \in Nat
  BY DEF TypeOK
<1> QED BY <1>1, <1>2, <1>3 DEF Counts

\* Listens get a number when a track is chosen.
LEMMA NamesStep ==
    ASSUME TypeOK, [Next]_vars
    PROVE  \/ Names' \subseteq Names
           \/ /\ Acts("phone")
              /\ \E t \in Track : Names' \subseteq Names \cup {<<left["phone"], t>>}
<1> DEFINE Sent(ps) == {<<p.listen, p.track>> : p \in ps}
<1>1. posts \subseteq Report
  BY DEF TypeOK
<1>2. CASE UNCHANGED <<posts, phone, reported>>
  BY <1>2 DEF Names
<1>3. CASE Client
  <2>1. reported' = reported /\ Sent(posts') \subseteq Sent(posts) \cup {<<phone.listen, phone.track>>}
    <3>1. posts' = posts \/ posts' = posts \cup {Post(phone.listen, phone.track)}
      BY <1>3 DEF Client, Threshold, TogglePause, PlaybackTick, QueueCompleted, PlayOnPhone, TrackCompleted, Send, SendIfDue
    <3>2. LET p == Post(phone.listen, phone.track) IN p.listen = phone.listen /\ p.track = phone.track
      BY DEF Post
    <3>3. reported' = reported
      BY <1>3 DEF Client, Threshold, TogglePause, PlaybackTick, QueueCompleted, PlayOnPhone, TrackCompleted
    <3> QED BY <3>1, <3>2, <3>3
  <2>2. CASE Threshold \/ TogglePause \/ PlaybackTick \/ QueueCompleted
    <3>1. phone'.listen = phone.listen /\ phone'.track = phone.track
      BY <2>2 DEF Threshold, TogglePause, PlaybackTick, QueueCompleted, Counted, TypeOK
    <3> QED BY <2>1, <3>1 DEF Names
  <2>3. ASSUME NEW t \in Track, PlayOnPhone(t) \/ TrackCompleted(t)
        PROVE  Acts("phone") /\ Names' \subseteq Names \cup {<<left["phone"], t>>}
    <3>1. Acts("phone") /\ phone' = Heard(t)
      BY <2>3 DEF PlayOnPhone, TrackCompleted
    <3>2. phone'.listen = left["phone"] /\ phone'.track = t
      BY <3>1 DEF Heard
    <3> QED BY <2>1, <3>1, <3>2 DEF Names
  <2> QED BY <1>3, <2>2, <2>3 DEF Client
<1>4. CASE Net
  <2>1. PICK p \in posts : Refused(p) \/ GiveUp(p) \/ Lost(p) \/ Answer(p)
    BY <1>4 DEF Net
  <2>2. phone'.listen = phone.listen /\ phone'.track = phone.track /\ reported'.open \subseteq reported.open
    <3>1. CASE Fail(p)
      BY <3>1, FailTypes
    <3>2. CASE ~Fail(p)
      <4>1. /\ phone' = phone
          /\ \/ reported' = reported
             \/ reported' = [reported EXCEPT !.open = @ \ {<<p.listen, p.track>>}]
        BY <2>1, <3>2 DEF Refused, GiveUp, Lost, Answer
      <4> QED BY <4>1 DEF TypeOK
    <3> QED BY <3>1, <3>2
  <2>3. Sent(posts') \subseteq Sent(posts)
    <3> DEFINE r == [p EXCEPT !.waits = FALSE]
    <3>1. r.listen = p.listen /\ r.track = p.track
      BY <1>1, ReportLeft
    <3>2. posts' \subseteq posts \cup {r}
      BY <2>1 DEF Refused, GiveUp, Lost, Answer
    <3> HIDE DEF r
    <3> QED BY <3>1, <3>2
  <2> QED BY <2>2, <2>3 DEF Names
<1>5. CASE StopServe
  <2>1. Sent(posts') \subseteq Sent(posts)
    <3>1. ASSUME NEW q \in posts' PROVE \E p \in posts : q.listen = p.listen /\ q.track = p.track
      <4>1. PICK p \in posts : q = p \/ q = [p EXCEPT !.at = "error"]
        BY <1>5, StopSteps
      <4>2. p \in Report
        BY <1>1
      <4> QED BY <4>1, <4>2, ReportAt
    <3> QED BY <3>1
  <2>2. phone' = phone /\ reported'.open = reported.open
    BY <1>5, StopSteps DEF StopServe
  <2> QED BY <2>1, <2>2 DEF Names
<1>6. ASSUME NEW p \in posts, Admit(p) \/ Record(p) PROVE Names' \subseteq Names
  <2>1. phone' = phone
    BY <1>6 DEF Admit, Record
  <2>2. reported'.open \subseteq reported.open \cup {<<p.listen, p.track>>}
    BY <1>6, AdmitSteps, RecordSteps
  <2>3. PICK at \in {"answered", "error", "admitted"} : posts' \subseteq posts \cup {[p EXCEPT !.at = at]}
    <3>1. CASE Admit(p)
      <4>1. \/ posts' \subseteq posts \cup {[p EXCEPT !.at = "answered"]}
            \/ posts' \subseteq posts \cup {[p EXCEPT !.at = "error"]}
            \/ posts' \subseteq posts \cup {[p EXCEPT !.at = "admitted"]}
        <5>1. \A at : Replied(p, at) \subseteq posts \cup {[p EXCEPT !.at = at]}
          BY DEF Replied
        <5>2. \/ posts' = Replied(p, "answered") \/ posts' = Replied(p, "error")
              \/ posts' = (posts \ {p}) \cup {[p EXCEPT !.at = "admitted"]}
          BY <3>1, AdmitSteps
        <5> QED BY <5>1, <5>2
      <4> QED BY <4>1
    <3>2. CASE Record(p)
      BY <3>2 DEF Record
    <3> QED BY <1>6, <3>1, <3>2
  <2> DEFINE r == [p EXCEPT !.at = at]
  <2>4. r.listen = p.listen /\ r.track = p.track
    BY <1>1, ReportAt
  <2> HIDE DEF r
  <2>5. posts' \subseteq posts \cup {r}
    BY <2>3 DEF r
  <2>6. Sent(posts') \subseteq Sent(posts)
    BY <2>4, <2>5
  <2> QED BY <2>1, <2>2, <2>6 DEF Names
<1>7. CASE Tick
  <2>1. Sent(posts') \subseteq Sent(posts)
    <3>1. ASSUME NEW q \in posts' PROVE \E p \in posts : q.listen = p.listen /\ q.track = p.track
      <4>1. PICK p \in posts : q = [p EXCEPT !.late = TRUE]
        BY <1>7, TickSteps
      <4>2. p \in Report
        BY <1>1
      <4> QED BY <4>1, <4>2, ReportLate
    <3> QED BY <3>1
  <2>2. phone' = phone /\ reported'.open = reported.open
    BY <1>7, TickSteps DEF Tick
  <2> QED BY <2>1, <2>2 DEF Names
<1>8. CASE StartServe \/ WindowOver \/ Tui \/ Worker \/ Panel \/ UNCHANGED vars
           \/ \E d \in Device : ResetDevice(d) \/ (\E t \in Copied : PlayOnDevice(d, t))
  <2>1. UNCHANGED <<posts, phone, reported>>
    <3>1. CASE StartServe \/ WindowOver \/ UNCHANGED vars
      BY <3>1 DEF StartServe, WindowOver, vars, remote
    <3>2. CASE Tui
      BY <3>2 DEF Tui, StartTui, EndTui, PlayHere, Press, remote
    <3>3. CASE Worker
      BY <3>3 DEF Worker, Connect, Disconnect, LoadLibrary, DeviceGone, Take, remote
    <3>4. CASE Panel
      BY <3>4, PanelApp DEF remote
    <3>5. CASE \E d \in Device : ResetDevice(d) \/ (\E t \in Copied : PlayOnDevice(d, t))
      BY <3>5 DEF ResetDevice, PlayOnDevice, remote
    <3> QED BY <1>8, <3>1, <3>2, <3>3, <3>4, <3>5
  <2> QED BY <1>2, <2>1
<1> QED BY <1>3, <1>4, <1>5, <1>6, <1>7, <1>8 DEF Next, Serving

LEMMA LeftStep ==
    ASSUME TypeOK, [Next]_vars
    PROVE  /\ left["phone"] \in Nat /\ left'["phone"] \in Nat /\ left'["phone"] <= left["phone"]
           /\ left["tui"] \in Nat /\ left'["tui"] \in Nat /\ left'["tui"] <= left["tui"]
<1>1. left' = left \/ Acts("tui") \/ Acts("phone")
  BY DEF Next, vars, ResetDevice, PlayOnDevice, Tui, StartTui, EndTui, PlayHere, Press,
         Worker, Connect, Disconnect, LoadLibrary, DeviceGone, Take,
         Panel, OnDetected, OnFailed, OnTracks, OnLibrary, Handle,
         Client, Threshold, TogglePause, PlaybackTick, QueueCompleted, PlayOnPhone, TrackCompleted,
         Net, Refused, GiveUp, Lost, Answer, Serving, StartServe, StopServe, WindowOver, Admit, Record, Tick
<1>2. left["phone"] \in Nat /\ left["tui"] \in Nat
  BY DEF TypeOK
<1> QED BY <1>1, <1>2, ActsTypes

LEMMA NamesTypes ==
    ASSUME TypeOK, NEW x \in Names
    PROVE  x[1] \in Nat
BY ReportFields DEF Names, TypeOK

LEMMA FreshStep == ASSUME TypeOK, Fresh, [Next]_vars PROVE Fresh'
<1>1. ASSUME NEW x \in Names' PROVE x[1] = 0 \/ x[1] > left'["phone"]
  <2>1. CASE x \in Names
    BY <2>1, NamesTypes, LeftStep DEF Fresh
  <2>2. CASE Acts("phone") /\ x[1] = left["phone"]
    BY <2>2, ActsTypes
  <2> QED BY <2>1, <2>2, NamesStep
<1>2. ASSUME NEW c \in Copies', NEW t \in Track, NEW i \in c[t].own
      PROVE  IF i > 0 THEN i > left'["phone"] ELSE -i > left'["tui"]
  <2>1. PICK b \in Copies :
          \/ c[t].own = b[t].own
          \/ (\E u \in Track : PlayHere(u)) /\ c[t].own = b[t].own \cup {-left["tui"]}
          \/ \E p \in posts : Record(p) /\ c[t].own = b[t].own \cup {p.listen}
    BY OwnStep
  <2>2. b[t].own \subseteq Int
    BY CopiesPlays, EntryFields
  <2>3. CASE i \in b[t].own
    <3>1. IF i > 0 THEN i > left["phone"] ELSE -i > left["tui"]
      BY <2>3 DEF Fresh
    <3> QED BY <2>2, <2>3, <3>1, LeftStep
  <2>4. CASE (\E u \in Track : PlayHere(u)) /\ i = -left["tui"]
    <3>1. Acts("tui")
      BY <2>4 DEF PlayHere
    <3>2. left["tui"] \in Nat \ {0} /\ left'["tui"] = left["tui"] - 1
      BY <3>1, ActsTypes
    <3> QED BY <2>4, <3>2
  <2>5. ASSUME NEW p \in posts, i = p.listen
        PROVE  IF i > 0 THEN i > left'["phone"] ELSE -i > left'["tui"]
    <3>1. p.listen \in Nat \ {0} /\ <<p.listen, p.track>> \in Names
      BY ReportFields DEF TypeOK, Names
    <3>2. p.listen > left["phone"]
      BY <3>1 DEF Fresh
    <3> QED BY <2>5, <3>1, <3>2, LeftStep
  <2> QED BY <2>1, <2>3, <2>4, <2>5
<1> QED BY <1>1, <1>2 DEF Fresh

LEMMA OneTrackStep == ASSUME TypeOK, Fresh, OneTrack, [Next]_vars PROVE OneTrack'
<1>1. CASE Names' \subseteq Names
  BY <1>1 DEF OneTrack
<1>2. ASSUME Acts("phone"), NEW t \in Track, Names' \subseteq Names \cup {<<left["phone"], t>>}
      PROVE  OneTrack'
  <2>1. left["phone"] \in Nat \ {0}
    BY <1>2, ActsTypes
  <2>2. \A x \in Names : x[1] # left["phone"]
    BY <2>1, NamesTypes DEF Fresh
  <2> QED BY <1>2, <2>2 DEF OneTrack
<1> QED BY <1>1, <1>2, NamesStep

\* A step that takes a listen no further.
LEMMA OnceFrame ==
    ASSUME NEW l \in Nat \ {0}, Once(l),
           Waiting(l)' => Waiting(l), Admitted(l)' => Admitted(l),
           WillSend(l)' => WillSend(l), Counts(l)' => Counts(l), Repeated(l) => Repeated(l)',
           \A p, q \in posts' : p.listen = l /\ q.listen = l /\ p.waits /\ q.waits => p = q,
           \A p, q \in posts' : p.listen = l /\ q.listen = l /\ p.at = "admitted" /\ q.at = "admitted" => p = q
    PROVE  Once(l)'
BY DEF Once, OneReport, OnceAdmitted, NoSecond

LEMMA OnceElsewhere ==
    ASSUME TypeOK, [Next]_vars, NEW l \in Nat \ {0}, Once(l),
           UNCHANGED <<posts, phone, reported>>,
           serve # None => serve' # None /\ serve'.since = serve.since,
           Counts(l)' => Counts(l)
    PROVE  Once(l)'
<1>1. WillSend(l)' = WillSend(l)
  BY DEF WillSend, Due
<1>2. Waiting(l)' = Waiting(l) /\ Admitted(l)' = Admitted(l)
  BY DEF Waiting, Admitted
<1>3. Repeated(l) => Repeated(l)'
  BY DEF Repeated
<1>4. /\ \A p, q \in posts' : p.listen = l /\ q.listen = l /\ p.waits /\ q.waits => p = q
      /\ \A p, q \in posts' : p.listen = l /\ q.listen = l /\ p.at = "admitted" /\ q.at = "admitted" => p = q
  BY DEF Once, OneReport, OnceAdmitted
<1> QED BY <1>1, <1>2, <1>3, <1>4, OnceFrame

\* The report of a listen leaves.  It is new, or its report had failed.
LEMMA OnceSent ==
    ASSUME TypeOK, [Next]_vars, NEW l \in Nat \ {0}, Once(l), phone.listen = l, Due, Send(phone),
           ~WillSend(l)', UNCHANGED <<serve, reported>>, Counts(l)' => Counts(l)
    PROVE  Once(l)'
<1> DEFINE p == Post(phone.listen, phone.track)
<1>1. p.listen = l /\ p.at = "sent" /\ p.waits
  BY DEF Post
<1>2. posts' = posts \cup {p}
  BY DEF Send
<1> HIDE DEF p
<1>3. ~Waiting(l)
  BY DEF Once, OneReport, WillSend
<1>4. Admitted(l)' => Admitted(l)
  BY <1>1, <1>2 DEF Admitted
<1>5. Repeated(l)' = Repeated(l)
  BY DEF Repeated
<1>6. OneReport(l)'
  BY <1>1, <1>2, <1>3 DEF OneReport, Waiting
<1>7. OnceAdmitted(l)'
  BY <1>1, <1>2, <1>4 DEF Once, OnceAdmitted
<1>8. NoSecond(l)'
  BY <1>4, <1>5 DEF Once, NoSecond, WillSend
<1> QED BY <1>6, <1>7, <1>8 DEF Once

\* The reports of the other listens are not touched.
LEMMA OnceOther ==
    ASSUME TypeOK, [Next]_vars, NEW l \in Nat \ {0}, Once(l),
           \A p \in posts' : p.listen = l => p \in posts,
           WillSend(l)' => WillSend(l), Repeated(l) => Repeated(l)', Counts(l)' => Counts(l)
    PROVE  Once(l)'
<1>1. (Waiting(l)' => Waiting(l)) /\ (Admitted(l)' => Admitted(l))
  BY DEF Waiting, Admitted
<1>2. /\ \A p, q \in posts' : p.listen = l /\ q.listen = l /\ p.waits /\ q.waits => p = q
      /\ \A p, q \in posts' : p.listen = l /\ q.listen = l /\ p.at = "admitted" /\ q.at = "admitted" => p = q
  BY DEF Once, OneReport, OnceAdmitted
<1> QED BY <1>1, <1>2, OnceFrame

LEMMA OnceClient ==
    ASSUME TypeOK, Fresh, [Next]_vars, Client, NEW l \in Nat \ {0}, Once(l), Counts(l)' => Counts(l)
    PROVE  Once(l)'
<1>1. UNCHANGED <<serve, reported>> /\ Repeated(l)' = Repeated(l)
  <2>1. UNCHANGED <<serve, reported>>
    BY DEF Client, Threshold, TogglePause, PlaybackTick, QueueCompleted, PlayOnPhone, TrackCompleted
  <2> QED BY <2>1 DEF Repeated
<1>2. phone \in Phones
  BY DEF TypeOK, Phones
<1>3. CASE Threshold \/ TogglePause
  <2>1. posts' = posts /\ WillSend(l)' = WillSend(l)
    <3>1. posts' = posts /\ (phone' = [phone EXCEPT !.past = ~@] \/ phone' = [phone EXCEPT !.playing = ~@])
      BY <1>3 DEF Threshold, TogglePause
    <3>2. phone'.listen = phone.listen /\ phone'.track = phone.track /\ phone'.counted = phone.counted
      BY <1>2, <3>1 DEF Phones
    <3> QED BY <3>1, <3>2 DEF WillSend, Due
  <2> QED BY <1>1, <2>1, OnceOther
<1>4. CASE PlaybackTick \/ QueueCompleted
  <2>1. /\ posts' = posts \/ (Due /\ Send(phone))
        /\ phone'.listen = phone.listen /\ phone'.track = phone.track /\ phone'.counted = phone.track
    <3>1. CASE PlaybackTick
      BY <1>2, <3>1 DEF PlaybackTick, Counted, Phones
    <3>2. CASE QueueCompleted
      <4>1. phone' = [[phone EXCEPT !.counted = phone.track] EXCEPT !.playing = FALSE]
        BY <3>2 DEF QueueCompleted, Counted
      <4> QED BY <1>2, <3>2, <4>1 DEF QueueCompleted, SendIfDue, Phones
    <3> QED BY <1>4, <3>1, <3>2
  <2>2. ~WillSend(l)'
    BY <2>1 DEF WillSend, Due
  <2>3. CASE phone.listen = l /\ Due /\ Send(phone)
    BY <1>1, <2>1, <2>2, <2>3, OnceSent
  <2>4. CASE posts' = posts \/ phone.listen # l
    <3>1. \A p \in posts' : p.listen = l => p \in posts
      BY <2>1, <2>4 DEF Send, Post
    <3> QED BY <1>1, <2>2, <3>1, OnceOther
  <2> QED BY <2>1, <2>3, <2>4
<1>5. ASSUME NEW t \in Track, PlayOnPhone(t) \/ TrackCompleted(t) PROVE Once(l)'
  <2>1. Acts("phone") /\ phone' = Heard(t)
    BY <1>5 DEF PlayOnPhone, TrackCompleted
  <2>2. phone'.listen = left["phone"] /\ left["phone"] \in Nat \ {0}
    BY <2>1, ActsTypes DEF Heard
  <2>3. \A x \in Names : x[1] # left["phone"]
    BY <2>2, NamesTypes DEF Fresh
  <2>4. posts' = posts \/ (Due /\ Send(phone))
    BY <1>5 DEF PlayOnPhone, TrackCompleted, SendIfDue
  <2>5. phone.listen # left["phone"] /\ \A p \in posts : p.listen # left["phone"]
    <3>1. <<phone.listen, phone.track>> \in Names /\ \A p \in posts : <<p.listen, p.track>> \in Names
      BY DEF Names
    <3>2. \A a, b : <<a, b>> \in Names => a # left["phone"]
      BY <2>3
    <3> QED BY <3>1, <3>2
  <2>6. posts' \subseteq posts \cup {Post(phone.listen, phone.track)}
    BY <2>4 DEF Send
  <2>7. Post(phone.listen, phone.track).listen = phone.listen
    BY DEF Post
  <2>8. CASE l = left["phone"]
    <3>1. \A p \in posts' : p.listen # l
      BY <2>5, <2>6, <2>7, <2>8
    <3>2. ~Waiting(l)' /\ ~Admitted(l)'
      BY <3>1 DEF Waiting, Admitted
    <3>3. ~Counts(l)
      <4>1. ASSUME NEW c \in Copies, NEW u \in Track, l \in c[u].own PROVE FALSE
        <5>1. IF l > 0 THEN l > left["phone"] ELSE -l > left["tui"]
          BY <4>1 DEF Fresh
        <5> QED BY <2>2, <2>8, <5>1
      <4> QED BY <4>1 DEF Counts
    <3> QED BY <3>1, <3>2, <3>3 DEF Once, OneReport, OnceAdmitted, NoSecond
  <2>9. CASE l # left["phone"]
    <3>1. ~WillSend(l)'
      BY <2>2, <2>9 DEF WillSend
    <3>2. CASE posts' = posts \/ phone.listen # l
      <4>1. \A p \in posts' : p.listen = l => p \in posts
        BY <2>6, <2>7, <3>2
      <4> QED BY <1>1, <3>1, <4>1, OnceOther
    <3>3. CASE Due /\ Send(phone) /\ phone.listen = l
      BY <1>1, <3>1, <3>3, OnceSent
    <3> QED BY <2>4, <3>2, <3>3
  <2> QED BY <2>8, <2>9
<1> QED BY <1>3, <1>4, <1>5 DEF Client

\* A report that failed is sent again, if the phone still plays what it was of.
LEMMA OnceNet ==
    ASSUME TypeOK, OneTrack, [Next]_vars, Net, NEW l \in (Nat \ {0}) \ reported'.doubt, Once(l),
           Counts(l)' => Counts(l)
    PROVE  Once(l)'
<1>1. PICK p \in posts : Refused(p) \/ GiveUp(p) \/ Lost(p) \/ Answer(p)
  BY DEF Net
<1>2. p \in Report /\ posts \subseteq Report /\ phone \in Phones
  BY DEF TypeOK, Phones
<1>9. CASE Lost(p)
  <2>1. UNCHANGED <<serve, phone, reported>> /\ posts' \subseteq posts
    BY <1>9 DEF Lost
  <2>2. WillSend(l)' = WillSend(l) /\ Repeated(l)' = Repeated(l)
    BY <2>1 DEF WillSend, Due, Repeated
  <2> QED BY <2>1, <2>2, OnceOther
<1> SUFFICES ASSUME ~Lost(p) PROVE Once(l)'
  BY <1>9
<1>3. serve' = serve /\ p.waits
  BY <1>1 DEF Refused, GiveUp, Answer
<1> DEFINE r == [p EXCEPT !.waits = FALSE]
<1>4. r.listen = p.listen /\ r.at = p.at /\ ~r.waits
  BY <1>2, ReportLeft
<1>5. posts' \subseteq (posts \ {p}) \cup (IF p.at \in {"sent", "admitted"} THEN {r} ELSE {})
  BY <1>1 DEF Refused, GiveUp, Answer
<1> HIDE DEF r
<1>6. CASE p.listen # l
  <2>1. \A q \in posts' : q.listen = l => q \in posts
    BY <1>4, <1>5, <1>6
  <2>2. WillSend(l)' => WillSend(l)
    <3>1. CASE Fail(p)
      <4>1. /\ phone'.listen = phone.listen /\ phone'.track = phone.track
            /\ phone'.counted = IF phone.counted = p.track THEN None ELSE phone.counted
            /\ reported'.doubt = reported.doubt \cup Mistaken(p)
        BY <3>1, FailTypes
      <4>2. phone.listen = l => phone.counted # p.track
        BY <1>6, <4>1 DEF Mistaken
      <4> QED BY <4>1, <4>2 DEF WillSend, Due
    <3>2. CASE ~Fail(p)
      <4>1. phone' = phone
        BY <1>1, <3>2 DEF Refused, GiveUp, Answer
      <4> QED BY <4>1 DEF WillSend, Due
    <3> QED BY <3>1, <3>2
  <2>3. Repeated(l) => Repeated(l)'
    <3>1. reported.open \ {<<p.listen, p.track>>} \subseteq reported'.open
      <4>1. CASE Fail(p)
        BY <4>1, FailTypes
      <4>2. CASE ~Fail(p)
        <5>1. \/ reported' = reported
              \/ reported' = [reported EXCEPT !.open = @ \ {<<p.listen, p.track>>}]
          BY <1>1, <4>2 DEF Refused, GiveUp, Answer
        <5> QED BY <5>1 DEF TypeOK
      <4> QED BY <4>1, <4>2
    <3> QED BY <1>3, <1>6, <3>1 DEF Repeated
  <2> QED BY <2>1, <2>2, <2>3, OnceOther
<1>7. CASE p.listen = l
  <2>1. Waiting(l) /\ ~WillSend(l)
    BY <1>3, <1>7 DEF Waiting, Once, OneReport
  <2>2. ~Waiting(l)'
    <3>1. \A q \in posts : q.listen = l /\ q.waits => q = p
      BY <1>3, <1>7 DEF Once, OneReport
    <3> QED BY <1>4, <1>5, <3>1 DEF Waiting
  <2>3. Admitted(l)' => Admitted(l)
    BY <1>4, <1>5, <1>7 DEF Admitted
  <2>4. OneReport(l)'
    BY <2>2 DEF OneReport, Waiting
  <2>5. OnceAdmitted(l)'
    <3>1. ASSUME NEW q1 \in posts', NEW q2 \in posts', q1.listen = l, q2.listen = l,
                 q1.at = "admitted", q2.at = "admitted"
          PROVE  q1 = q2
      <4>1. \A q \in posts : q.listen = l /\ q.at = "admitted" /\ p.at = "admitted" => q = p
        BY <1>7 DEF Once, OnceAdmitted
      <4>2. CASE p.at = "admitted"
        BY <1>4, <1>5, <3>1, <4>1, <4>2
      <4>3. CASE p.at # "admitted"
        BY <1>4, <1>5, <3>1, <4>3 DEF Once, OnceAdmitted
      <4> QED BY <4>2, <4>3
    <3> QED BY <2>3, <3>1 DEF Once, OnceAdmitted
  <2>6. NoSecond(l)'
    <3>1. CASE Fail(p)
      <4>1. reported'.open = reported.open
        BY <3>1, FailTypes
      <4>2. Repeated(l)' = Repeated(l)
        BY <1>3, <4>1 DEF Repeated
      <4> QED BY <2>1, <2>3, <4>2 DEF Once, NoSecond
    <3>2. CASE ~Fail(p)
      <4>1. phone' = phone
        BY <1>1, <3>2 DEF Refused, GiveUp, Answer
      <4>2. ~WillSend(l)'
        BY <2>1, <4>1 DEF WillSend, Due
      <4> QED BY <2>2, <4>2 DEF NoSecond
    <3> QED BY <3>1, <3>2
  <2> QED BY <2>4, <2>5, <2>6 DEF Once
<1> QED BY <1>6, <1>7

\* A server that stops forgets what it admitted: what was not answered is in doubt.
LEMMA OnceStop ==
    ASSUME TypeOK, [Next]_vars, StopServe, NEW l \in (Nat \ {0}) \ reported'.doubt, Once(l),
           Counts(l)' => Counts(l)
    PROVE  Once(l)'
<1>1. posts \subseteq Report /\ phone' = phone
  BY DEF StopServe, TypeOK
<1>2. ~Repeated(l)
  BY StopSteps DEF Repeated, Listens
<1>3. \A q \in posts' : q.at \in {"sent", "error"}
  BY StopSteps
<1>4. ASSUME NEW q \in posts'
      PROVE  \/ q \in posts /\ q.at = "sent"
             \/ \E p \in posts : p.waits /\ p.at # "sent" /\ p.listen = q.listen /\ q = [p EXCEPT !.at = "error"]
  <2>1. CASE q \in posts /\ q.at = "sent"
    BY <2>1
  <2>2. CASE ~(q \in posts /\ q.at = "sent")
    <3>1. PICK p \in posts : p.waits /\ p.at # "sent" /\ q = [p EXCEPT !.at = "error"]
      BY <2>2, StopSteps
    <3> QED BY <1>1, <3>1, ReportAt
  <2> QED BY <2>1, <2>2
<1>5. ~Admitted(l)' /\ (Waiting(l)' => Waiting(l)) /\ WillSend(l)' = WillSend(l)
  BY <1>1, <1>3, <1>4 DEF Admitted, Waiting, WillSend, Due
<1>6. ASSUME NEW q1 \in posts', NEW q2 \in posts', q1.listen = l, q2.listen = l, q1.waits, q2.waits
      PROVE  q1 = q2
  <2>1. PICK p1 \in posts : /\ p1.waits /\ p1.listen = l
                            /\ \/ p1.at = "sent" /\ q1 = p1
                               \/ p1.at # "sent" /\ q1 = [p1 EXCEPT !.at = "error"]
    BY <1>4, <1>6
  <2>2. PICK p2 \in posts : /\ p2.waits /\ p2.listen = l
                            /\ \/ p2.at = "sent" /\ q2 = p2
                               \/ p2.at # "sent" /\ q2 = [p2 EXCEPT !.at = "error"]
    BY <1>4, <1>6
  <2>3. p1 = p2
    BY <2>1, <2>2 DEF Once, OneReport
  <2> QED BY <2>1, <2>2, <2>3
<1>7. OneReport(l)' /\ OnceAdmitted(l)'
  <2>1. WillSend(l)' => ~Waiting(l)'
    BY <1>5 DEF Once, OneReport
  <2>2. OneReport(l)'
    BY <1>6, <2>1 DEF OneReport
  <2> QED BY <1>5, <2>2 DEF OnceAdmitted, Admitted
<1>8. NoSecond(l)'
  BY <1>2, <1>5 DEF Once, NoSecond
<1> QED BY <1>7, <1>8 DEF Once

\* Time makes what was not answered for the cooldown doubtful.
LEMMA OnceTick ==
    ASSUME TypeOK, [Next]_vars, Tick, NEW l \in (Nat \ {0}) \ reported'.doubt, Once(l),
           Counts(l)' => Counts(l)
    PROVE  Once(l)'
<1>1. posts \subseteq Report /\ phone' = phone
  BY DEF Tick, TypeOK
<1>2. ASSUME NEW q \in posts'
      PROVE  \E p \in posts : /\ p.waits = q.waits /\ p.listen = q.listen /\ p.at = q.at
                              /\ q = [p EXCEPT !.late = TRUE]
  <2>1. PICK p \in posts : q = [p EXCEPT !.late = TRUE]
    BY TickSteps
  <2> QED BY <1>1, <2>1, ReportLate
<1>3. (Admitted(l)' => Admitted(l)) /\ (Waiting(l)' => Waiting(l)) /\ WillSend(l)' = WillSend(l)
  BY <1>1, <1>2 DEF Admitted, Waiting, WillSend, Due
<1>4. ASSUME NEW q1 \in posts', NEW q2 \in posts', q1.listen = l, q2.listen = l,
             (q1.waits /\ q2.waits) \/ (q1.at = "admitted" /\ q2.at = "admitted")
      PROVE  q1 = q2
  <2>1. PICK p1 \in posts : /\ p1.waits = q1.waits /\ p1.listen = l /\ p1.at = q1.at
                            /\ q1 = [p1 EXCEPT !.late = TRUE]
    BY <1>2, <1>4
  <2>2. PICK p2 \in posts : /\ p2.waits = q2.waits /\ p2.listen = l /\ p2.at = q2.at
                            /\ q2 = [p2 EXCEPT !.late = TRUE]
    BY <1>2, <1>4
  <2>3. p1 = p2
    BY <1>4, <2>1, <2>2 DEF Once, OneReport, OnceAdmitted
  <2> QED BY <2>1, <2>2, <2>3
<1>5. Repeated(l) => Repeated(l)'
  <2> SUFFICES ASSUME Repeated(l) PROVE Repeated(l)'
    OBVIOUS
  <2>1. serve # None
    BY DEF Repeated
  <2>2. PICK x \in reported.open : x[1] = l /\ serve.since[x[2]] < Cooldown
    BY DEF Repeated
  <2>3. x[2] \in Track /\ serve \in Server
    BY <2>1 DEF TypeOK
  <2>4. serve.since[x[2]] \in Nat /\ Cooldown \in Nat \ {0}
    BY <2>3, ServerFields, LedgerAssumption
  <2>5. serve.since[x[2]] # Cooldown - 1
    BY <2>1, <2>2, TickSteps
  <2>6. serve'.since[x[2]] = Min({serve.since[x[2]] + 1, Cooldown}) /\ serve' \in Server
    BY <2>1, <2>3, TickSteps
  <2>7. Min({serve.since[x[2]] + 1, Cooldown}) = serve.since[x[2]] + 1
    <3>1. PICK n \in Nat : n = serve.since[x[2]] + 1
      BY <2>4
    <3>2. n <= Cooldown
      BY <2>2, <2>4, <3>1
    <3> QED BY <2>4, <3>1, <3>2, MinOfTwo
  <2>8. serve'.since[x[2]] < Cooldown
    BY <2>2, <2>4, <2>5, <2>6, <2>7
  <2>9. serve' # None /\ reported'.open = reported.open
    BY <2>6, ServerFields, TickSteps
  <2> QED BY <2>2, <2>8, <2>9 DEF Repeated
<1> QED BY <1>3, <1>4, <1>5, OnceFrame

\* A report is admitted when nothing it repeats was.
LEMMA OnceAdmit ==
    ASSUME TypeOK, OneTrack, Recorded, [Next]_vars, NEW p \in posts, Admit(p),
           NEW l \in (Nat \ {0}) \ reported'.doubt, Once(l),
           Counts(l)' => Counts(l)
    PROVE  Once(l)'
<1>1. p \in Report /\ posts \subseteq Report /\ p.track \in Track
  BY ReportFields DEF TypeOK
<1>2. p.at = "sent" /\ serve # None /\ phone' = phone /\ serve \in Server
  BY DEF Admit, TypeOK
<1>4. WillSend(l)' = WillSend(l)
  BY <1>2 DEF WillSend, Due
<1>5. ASSUME NEW at \in {"answered", "error", "admitted"},
             posts' \subseteq (posts \ {p}) \cup {[p EXCEPT !.at = at]}
      PROVE  /\ Waiting(l)' => Waiting(l)
             /\ Admitted(l)' => Admitted(l) \/ (p.listen = l /\ at = "admitted")
             /\ \A q, r \in posts' : q.listen = l /\ r.listen = l /\ q.waits /\ r.waits => q = r
             /\ at # "admitted" \/ p.listen # l \/ ~Admitted(l) =>
                  \A q, r \in posts' : q.listen = l /\ r.listen = l /\ q.at = "admitted" /\ r.at = "admitted" => q = r
  <2> DEFINE n == [p EXCEPT !.at = at]
  <2>1. n.at = at /\ n.listen = p.listen /\ n.waits = p.waits
    BY <1>1, ReportAt
  <2> HIDE DEF n
  <2>2. posts' \subseteq (posts \ {p}) \cup {n}
    BY <1>5 DEF n
  <2>3. \A q \in posts : q.listen = l /\ q.waits /\ p.listen = l /\ p.waits => q = p
    BY DEF Once, OneReport
  <2>4. p.listen = l /\ p.waits => Waiting(l)
    BY DEF Waiting
  <2>5. Waiting(l)' => Waiting(l)
    BY <2>1, <2>2, <2>4 DEF Waiting
  <2>6. Admitted(l)' => Admitted(l) \/ (p.listen = l /\ at = "admitted")
    BY <2>1, <2>2 DEF Admitted
  <2>7. ASSUME NEW q \in posts', NEW r \in posts', q.listen = l, r.listen = l, q.waits, r.waits PROVE q = r
    BY <2>1, <2>2, <2>3, <2>7 DEF Once, OneReport
  <2>8. at # "admitted" \/ p.listen # l \/ ~Admitted(l) =>
          \A q, r \in posts' : q.listen = l /\ r.listen = l /\ q.at = "admitted" /\ r.at = "admitted" => q = r
    <3>1. \A q, r \in posts : q.listen = l /\ r.listen = l /\ q.at = "admitted" /\ r.at = "admitted" => q = r
      BY DEF Once, OnceAdmitted
    <3>2. CASE at # "admitted" \/ p.listen # l
      BY <2>1, <2>2, <3>1, <3>2
    <3>3. CASE ~Admitted(l)
      <4>1. \A q \in posts : ~(q.listen = l /\ q.at = "admitted")
        BY <3>3 DEF Admitted
      <4> QED BY <2>2, <4>1
    <3> QED BY <3>2, <3>3
  <2>9. \A q, r \in posts' : q.listen = l /\ r.listen = l /\ q.waits /\ r.waits => q = r
    BY <2>7
  <2> QED BY <2>5, <2>6, <2>8, <2>9
<1>6. CASE Repeat(p)
  <2>1. /\ posts' \subseteq (posts \ {p}) \cup {[p EXCEPT !.at = "answered"]}
        /\ serve' = serve /\ reported'.open = reported.open
    BY <1>6, AdmitSteps DEF Replied
  <2>2. Repeated(l)' = Repeated(l)
    BY <2>1 DEF Repeated
  <2>3. /\ Waiting(l)' => Waiting(l)
        /\ Admitted(l)' => Admitted(l)
        /\ \A q, r \in posts' : q.listen = l /\ r.listen = l /\ q.waits /\ r.waits => q = r
        /\ \A q, r \in posts' : q.listen = l /\ r.listen = l /\ q.at = "admitted" /\ r.at = "admitted" => q = r
    BY <1>5, <2>1
  <2> QED BY <1>4, <2>2, <2>3, OnceFrame
<1>7. CASE /\ ~Repeat(p) /\ posts' = Replied(p, "error")
           /\ serve' = serve /\ reported' = reported
  <2>1. Repeated(l)' = Repeated(l)
    BY <1>7 DEF Repeated
  <2>3. posts' \subseteq (posts \ {p}) \cup {[p EXCEPT !.at = "error"]}
    BY <1>7 DEF Replied
  <2>2. /\ Waiting(l)' => Waiting(l)
        /\ Admitted(l)' => Admitted(l)
        /\ \A q, r \in posts' : q.listen = l /\ r.listen = l /\ q.waits /\ r.waits => q = r
        /\ \A q, r \in posts' : q.listen = l /\ r.listen = l /\ q.at = "admitted" /\ r.at = "admitted" => q = r
    BY <1>5, <2>3
  <2> QED BY <1>4, <2>1, <2>2, OnceFrame
<1>8. CASE /\ ~Repeat(p) /\ posts' = (posts \ {p}) \cup {[p EXCEPT !.at = "admitted"]}
           /\ serve' \in Server /\ serve'.since = [serve.since EXCEPT ![p.track] = 0]
           /\ reported'.open = reported.open \cup {<<p.listen, p.track>>}
           /\ reported'.doubt = reported.doubt \cup TooLate(p)
  <2>1. serve.since \in [Track -> Nat] /\ serve' # None
    BY <1>2, <1>8, ServerFields
  <2>2. Repeated(l) => Repeated(l)'
    <3> SUFFICES ASSUME Repeated(l) PROVE Repeated(l)'
      OBVIOUS
    <3>1. PICK x \in reported.open : x[1] = l /\ serve.since[x[2]] < Cooldown
      BY DEF Repeated
    <3>2. x[2] \in Track
      BY DEF TypeOK
    <3>3. serve'.since[x[2]] < Cooldown
      BY <1>8, <2>1, <3>1, <3>2, LedgerAssumption
    <3> QED BY <1>8, <2>1, <3>1, <3>3 DEF Repeated
  <2>3. p.listen = l => ~Admitted(l) /\ ~Counts(l)
    <3> SUFFICES ASSUME p.listen = l, Admitted(l) \/ Counts(l) PROVE FALSE
      OBVIOUS
    <3>6. p.waits
      <4> SUFFICES ASSUME ~p.waits PROVE FALSE
        OBVIOUS
      <4>1. Counts(l) => l \in reported.done
        BY DEF Recorded, Counts
      <4>2. l \in reported'.doubt
        BY <1>8, <4>1 DEF TooLate, Admitted
      <4> QED BY <4>2
    <3>1. Waiting(l)
      BY <3>6 DEF Waiting
    <3>2. Repeated(l)
      BY <3>1 DEF Once, NoSecond
    <3>3. PICK x \in reported.open : x[1] = l /\ serve.since[x[2]] < Cooldown
      BY <3>2 DEF Repeated
    <3>4. x \in Names /\ <<p.listen, p.track>> \in Names
      BY DEF Names
    <3>5. x[2] = p.track
      BY <3>3, <3>4 DEF OneTrack
    <3> QED BY <1>8, <3>3, <3>5 DEF Repeat
  <2>4. /\ Waiting(l)' => Waiting(l)
        /\ Admitted(l)' => Admitted(l) \/ p.listen = l
        /\ \A q, r \in posts' : q.listen = l /\ r.listen = l /\ q.waits /\ r.waits => q = r
        /\ \A q, r \in posts' : q.listen = l /\ r.listen = l /\ q.at = "admitted" /\ r.at = "admitted" => q = r
    BY <1>5, <1>8, <2>3
  <2>5. CASE p.listen # l
    BY <1>4, <2>2, <2>4, <2>5, OnceFrame
  <2>6. CASE p.listen = l
    <3>1. OneReport(l)'
      BY <1>4, <2>4 DEF Once, OneReport
    <3>2. OnceAdmitted(l)'
      BY <2>3, <2>4, <2>6 DEF OnceAdmitted
    <3>3. Repeated(l)'
      <4> DEFINE x == <<p.listen, p.track>>
      <4>1. x \in reported'.open /\ x[1] = l /\ x[2] = p.track
        BY <1>8, <2>6
      <4>2. serve'.since[p.track] = 0
        BY <1>1, <1>8, <2>1
      <4>3. serve'.since[x[2]] < Cooldown
        BY <4>1, <4>2, LedgerAssumption
      <4> QED BY <2>1, <4>1, <4>3 DEF Repeated
    <3> QED BY <3>1, <3>2, <3>3 DEF Once, NoSecond
  <2> QED BY <2>5, <2>6
<1> QED BY <1>6, <1>7, <1>8, AdmitSteps

LEMMA OnceRecord ==
    ASSUME TypeOK, [Next]_vars, NEW p \in posts, Record(p), NEW l \in Nat \ {0}, Once(l),
           Counts(l)' => Counts(l) \/ p.listen = l
    PROVE  Once(l)'
<1>1. p \in Report /\ posts \subseteq Report
  BY DEF TypeOK
<1>2. p.at = "admitted" /\ serve # None /\ phone' = phone
  BY DEF Record
<1>3. WillSend(l)' = WillSend(l)
  BY <1>2 DEF WillSend, Due
<1>4. Repeated(l) => Repeated(l)'
  <2>1. serve' # None /\ serve'.since = serve.since /\ reported'.open = reported.open
    BY RecordSteps, ServerFields
  <2> QED BY <2>1 DEF Repeated
<1> DEFINE n == [p EXCEPT !.at = "answered"]
<1>5. n.at = "answered" /\ n.listen = p.listen /\ n.waits = p.waits
  BY <1>1, ReportAt
<1>6. posts' = (posts \ {p}) \cup (IF p.waits THEN {n} ELSE {})
  BY DEF Record
<1> HIDE DEF n
<1>7. (Waiting(l)' => Waiting(l)) /\ (Admitted(l)' => Admitted(l))
  BY <1>5, <1>6 DEF Waiting, Admitted
<1>8. ASSUME NEW q \in posts', NEW r \in posts', q.listen = l, r.listen = l, q.waits, r.waits PROVE q = r
  <2>1. \A s \in posts : p.waits /\ p.listen = l /\ s.listen = l /\ s.waits => s = p
    BY DEF Once, OneReport
  <2>2. \A s1, s2 \in posts : s1.listen = l /\ s2.listen = l /\ s1.waits /\ s2.waits => s1 = s2
    BY DEF Once, OneReport
  <2> QED BY <1>5, <1>6, <1>8, <2>1, <2>2
<1>9. ASSUME NEW q \in posts', NEW r \in posts', q.listen = l, r.listen = l,
             q.at = "admitted", r.at = "admitted"
      PROVE  q = r
  BY <1>5, <1>6, <1>9 DEF Once, OnceAdmitted
<1>10. CASE p.listen # l
  BY <1>3, <1>4, <1>7, <1>8, <1>9, <1>10, OnceFrame
<1>11. CASE p.listen = l
  <2>1. Admitted(l)
    BY <1>2, <1>11 DEF Admitted
  <2>2. ~Admitted(l)'
    <3>1. \A s \in posts : s.listen = l /\ s.at = "admitted" => s = p
      BY <1>2, <1>11 DEF Once, OnceAdmitted
    <3> QED BY <1>5, <1>6, <3>1 DEF Admitted
  <2>3. OneReport(l)'
    BY <1>3, <1>7, <1>8 DEF Once, OneReport
  <2>4. OnceAdmitted(l)'
    BY <1>9, <2>2 DEF OnceAdmitted
  <2>5. NoSecond(l)'
    BY <1>3, <1>4, <1>7, <2>1 DEF Once, NoSecond
  <2> QED BY <2>3, <2>4, <2>5 DEF Once
<1> QED BY <1>10, <1>11

LEMMA DoubtGrows ==
    ASSUME TypeOK, [Next]_vars
    PROVE  reported.doubt \subseteq reported'.doubt /\ reported.done \subseteq reported'.done
<1>1. CASE Net
  <2>1. PICK p \in posts : Refused(p) \/ GiveUp(p) \/ Lost(p) \/ Answer(p)
    BY <1>1 DEF Net
  <2>2. CASE Fail(p)
    BY <2>2, FailTypes
  <2>3. CASE ~Fail(p)
    <3>1. reported' = reported \/ reported' = [reported EXCEPT !.open = @ \ {<<p.listen, p.track>>}]
      BY <2>1, <2>3 DEF Refused, GiveUp, Lost, Answer
    <3> QED BY <3>1 DEF TypeOK
  <2> QED BY <2>2, <2>3
<1>2. CASE StopServe
  BY <1>2, StopSteps
<1>3. CASE Tick
  BY <1>3, TickSteps
<1>4. ASSUME NEW p \in posts, Admit(p) \/ Record(p) 
      PROVE  reported.doubt \subseteq reported'.doubt /\ reported.done \subseteq reported'.done
  BY <1>4, AdmitSteps, RecordSteps
<1>5. CASE StartServe \/ WindowOver \/ Tui \/ Worker \/ Panel \/ Client \/ UNCHANGED vars
           \/ \E d \in Device : ResetDevice(d) \/ (\E t \in Copied : PlayOnDevice(d, t))
  <2>1. CASE StartServe \/ WindowOver \/ UNCHANGED vars
    BY <2>1 DEF StartServe, WindowOver, vars, remote
  <2>2. CASE Tui
    BY <2>2 DEF Tui, StartTui, EndTui, PlayHere, Press, remote
  <2>3. CASE Worker
    BY <2>3 DEF Worker, Connect, Disconnect, LoadLibrary, DeviceGone, Take, remote
  <2>4. CASE Panel
    BY <2>4, PanelApp DEF remote
  <2>5. CASE Client
    BY <2>5 DEF Client, Threshold, TogglePause, PlaybackTick, QueueCompleted, PlayOnPhone, TrackCompleted
  <2>6. CASE \E d \in Device : ResetDevice(d) \/ (\E t \in Copied : PlayOnDevice(d, t))
    BY <2>6 DEF ResetDevice, PlayOnDevice, remote
  <2> QED BY <1>5, <2>1, <2>2, <2>3, <2>4, <2>5, <2>6
<1> QED BY <1>1, <1>2, <1>3, <1>4, <1>5 DEF Next, Serving

\* What a listen adds to a count it adds to the history.
LEMMA RecordedStep == ASSUME TypeOK, Recorded, [Next]_vars PROVE Recorded'
<1> SUFFICES ASSUME NEW c \in Copies', NEW t \in Track, NEW i \in c[t].own, i > 0
             PROVE  i \in reported'.done
  BY DEF Recorded
<1>1. PICK b \in Copies :
        \/ c[t].own = b[t].own
        \/ (\E u \in Track : PlayHere(u)) /\ c[t].own = b[t].own \cup {-left["tui"]}
        \/ \E p \in posts : Record(p) /\ c[t].own = b[t].own \cup {p.listen}
  BY OwnStep
<1>2. CASE i \in b[t].own
  BY <1>2, DoubtGrows DEF Recorded
<1>3. left["tui"] \in Nat
  BY DEF TypeOK
<1>4. CASE i = -left["tui"]
  BY <1>3, <1>4
<1>5. ASSUME NEW p \in posts, Record(p), i = p.listen PROVE i \in reported'.done
  BY <1>5, RecordSteps
<1> QED BY <1>1, <1>2, <1>4, <1>5

\* The steps that only the TUI, the worker and the devices take.
LEMMA Elsewhere ==
    ASSUME TypeOK, StartServe \/ WindowOver \/ Tui \/ Worker \/ Panel \/ UNCHANGED vars
                   \/ \E d \in Device : ResetDevice(d) \/ (\E t \in Copied : PlayOnDevice(d, t))
    PROVE  /\ UNCHANGED <<posts, phone, reported>>
           /\ serve # None => serve' # None /\ serve'.since = serve.since
<1>1. CASE StartServe
  BY <1>1 DEF StartServe
<1>2. CASE WindowOver
  <2>1. serve \in Server /\ serve' = [serve EXCEPT !.n = 0]
    BY <1>2 DEF WindowOver, TypeOK
  <2>2. serve' \in Server /\ serve'.since = serve.since
    BY <2>1 DEF Server
  <2> QED BY <1>2, <2>2, ServerFields DEF WindowOver
<1>3. CASE UNCHANGED vars
  BY <1>3 DEF vars, remote
<1>4. CASE Tui
  BY <1>4 DEF Tui, StartTui, EndTui, PlayHere, Press, remote
<1>5. CASE Worker
  BY <1>5 DEF Worker, Connect, Disconnect, LoadLibrary, DeviceGone, Take, remote
<1>6. CASE Panel
  BY <1>6, PanelApp DEF remote
<1>7. CASE \E d \in Device : ResetDevice(d) \/ (\E t \in Copied : PlayOnDevice(d, t))
  BY <1>7 DEF ResetDevice, PlayOnDevice, remote
<1> QED BY <1>1, <1>2, <1>3, <1>4, <1>5, <1>6, <1>7

LEMMA UndoubtedStep == ASSUME ReportsInv, [Next]_vars PROVE Undoubted'
<1> SUFFICES ASSUME NEW l \in (Nat \ {0}) \ reported'.doubt PROVE Once(l)'
  BY DEF Undoubted
<1>1. TypeOK /\ Fresh /\ OneTrack /\ Recorded
  BY DEF ReportsInv
<1>2. Once(l)
  BY <1>1, DoubtGrows DEF ReportsInv, Undoubted
<1>3. CASE \E p \in posts : Record(p) /\ p.listen = l
  BY <1>1, <1>2, <1>3, OnceRecord
<1>4. CASE ~\E p \in posts : Record(p) /\ p.listen = l
  <2>1. Counts(l)' => Counts(l)
    BY <1>1, <1>4, CountsStep
  <2>2. CASE StartServe \/ WindowOver \/ Tui \/ Worker \/ Panel \/ UNCHANGED vars
             \/ \E d \in Device : ResetDevice(d) \/ (\E t \in Copied : PlayOnDevice(d, t))
    <3>1. /\ UNCHANGED <<posts, phone, reported>>
          /\ serve # None => serve' # None /\ serve'.since = serve.since
      BY <1>1, <2>2, Elsewhere
    <3> QED BY <1>1, <1>2, <2>1, <3>1, OnceElsewhere
  <2>3. CASE Client
    BY <1>1, <1>2, <2>1, <2>3, OnceClient
  <2>4. CASE Net
    BY <1>1, <1>2, <2>1, <2>4, OnceNet
  <2>5. CASE StopServe
    BY <1>1, <1>2, <2>1, <2>5, OnceStop
  <2>6. CASE Tick
    BY <1>1, <1>2, <2>1, <2>6, OnceTick
  <2>7. ASSUME NEW p \in posts, Admit(p) PROVE Once(l)'
    BY <1>1, <1>2, <2>1, <2>7, OnceAdmit
  <2>8. ASSUME NEW p \in posts, Record(p) PROVE Once(l)'
    BY <1>1, <1>2, <2>1, <2>8, OnceRecord
  <2> QED BY <2>2, <2>3, <2>4, <2>5, <2>6, <2>7, <2>8 DEF Next, Serving
<1> QED BY <1>3, <1>4

LEMMA ReportsInit == Init => ReportsInv
<1> SUFFICES ASSUME Init PROVE ReportsInv
  OBVIOUS
<1>1. TypeOK
  BY TypeInit
<1>2. /\ disk = [t \in Track |-> NoPlays] /\ tui = None /\ serve = None
      /\ posts = {} /\ reported.open = {} /\ phone.listen = 0 /\ phone.track = None
  BY DEF Init, NoPhone
<1>3. Copies = {disk} /\ \A t \in Track : disk[t].own = {}
  BY <1>2 DEF Copies, NoPlays
<1>4. Names = {<<0, None>>}
  BY <1>2 DEF Names
<1>5. Fresh /\ OneTrack /\ Recorded
  BY <1>3, <1>4 DEF Fresh, OneTrack, Recorded
<1>6. \A l \in Nat \ {0} : Once(l)
  BY <1>2, <1>3 DEF Once, OneReport, OnceAdmitted, NoSecond, Waiting, Admitted, Counts, WillSend, Due
<1> QED BY <1>1, <1>5, <1>6 DEF ReportsInv, Undoubted

LEMMA ReportsStep == ASSUME ReportsInv, [Next]_vars PROVE ReportsInv'
BY TypeStep, FreshStep, OneTrackStep, RecordedStep, UndoubtedStep DEF ReportsInv

-----------------------------------------------------------------------------
(* Devices: what is read of them comes in order. *)

\* Of device d and a track: counter o after r plays comes after counter p after q.
\* The counter may have been reset meanwhile, and never grows by more than the plays.
Behind(p, q, o, r) == q <= r /\ o - p <= r - q
Before(L, M)       == \A t \in Track : Behind(L.of[t], L.real[t], M.of[t], M.real[t])
Now(d)             == [of |-> counter[d], real |-> hist.plays[d]]

\* A list of device d that may be read: no copy has read more, the device has no less,
\* and a device that was not reset says all that was played.
Readable(L, d) ==
    /\ Before(L, Now(d))
    /\ \A c \in Copies, t \in Track : Behind(c[t].seen[d], c[t].took[d], L.of[t], L.real[t])
    /\ d \notin hist.wiped => \A t \in Track : L.of[t] = L.real[t]

IsList(i) == events[i].ev = "tracks"

\* The list of the panel is of the device of the panel: no other list is about to
\* replace it, and the device is not about to go.
Current == tui # None /\ tui.key # None /\ tui.rows # None
           /\ ~(events # <<>> /\ Head(events).ev \in {"tracks", "failed"})

\* From the detection of a device to its list or its failure nothing comes between; a
\* list that comes first is of the device of the panel, if there is one.
Channel ==
    /\ \A i \in DOMAIN events : events[i].ev = "detected" =>
         i < Len(events) /\ (events[i + 1].ev = "failed" \/ (IsList(i + 1) /\ events[i + 1].of = events[i].of))
    /\ \A i \in DOMAIN events : IsList(i) =>
         IF i = 1 THEN tui.key \in {None, events[1].of}
                  ELSE events[i - 1].ev = "detected" /\ events[i - 1].of = events[i].of
    /\ tui # None /\ tui.ignore => tui.key = None

Ordered ==
    /\ \A d \in Device : Readable(Now(d), d)
    /\ \A c \in Copies, t \in Track, d \in Device \ hist.wiped : c[t].seen[d] = c[t].took[d]
    /\ \A i \in DOMAIN events : IsList(i) => Readable(events[i].rows, events[i].of)
    /\ \A i, j \in DOMAIN events :
         i < j /\ IsList(i) /\ IsList(j) /\ events[i].of = events[j].of => Before(events[i].rows, events[j].rows)
    /\ Current => /\ Readable(tui.rows, tui.key)
                  /\ \A j \in DOMAIN events :
                       IsList(j) /\ events[j].of = tui.key => Before(tui.rows, events[j].rows)

\* With a device connected, its last list is on its way, or was read as far as the
\* panel and the library go.
Latest(i) ==
    /\ IsList(i) /\ events[i].of = session /\ events[i].rows.real = hist.plays[session]
    /\ \A j \in DOMAIN events : j > i => events[j].ev \notin {"detected", "tracks"}
AllRead ==
    session # None =>
      \/ \E i \in DOMAIN events : Latest(i)
      \/ /\ \A i \in DOMAIN events : events[i].ev \notin {"detected", "tracks"}
         /\ tui.key # None =>
              /\ tui.key = session
              /\ tui.rows # None =>
                   /\ tui.rows.real = hist.plays[session]
                   /\ tui.lib => \A t \in Copied : tui.plays[t].took[session] = hist.plays[session][t]

PanelInv == ~hist.misread => Channel /\ Ordered /\ AllRead

LEMMA Behinds ==
    /\ \A p, q \in Nat : Behind(p, q, p, q)
    /\ \A p, q, o, r, x, y \in Nat : Behind(p, q, o, r) /\ Behind(o, r, x, y) => Behind(p, q, x, y)
BY DEF Behind

LEMMA NowTypes ==
    ASSUME TypeOK, NEW d \in Device
    PROVE  /\ Now(d) \in Lists /\ Now(d).of = counter[d] /\ Now(d).real = hist.plays[d]
           /\ Now(d) = Listing(d).rows
<1>1. counter[d] \in [Track -> Nat] /\ hist.plays[d] \in [Track -> Nat]
  BY DEF TypeOK
<1> QED BY <1>1 DEF Now, Lists, Listing

LEMMA BeforeAll ==
    ASSUME NEW L \in Lists, NEW M \in Lists, NEW N \in Lists
    PROVE  /\ Before(L, L)
           /\ Before(L, M) /\ Before(M, N) => Before(L, N)
<1>1. ASSUME NEW t \in Track
      PROVE  /\ L.of[t] \in Nat /\ L.real[t] \in Nat /\ M.of[t] \in Nat
             /\ M.real[t] \in Nat /\ N.of[t] \in Nat /\ N.real[t] \in Nat
  BY DEF Lists
<1> QED BY <1>1, Behinds DEF Before

\* A device is played on, or reset.
LEMMA NowStep ==
    ASSUME TypeOK, [Next]_vars, NEW d \in Device
    PROVE  /\ Before(Now(d), Now(d)')
           /\ hist.wiped \subseteq hist'.wiped
           /\ d \notin hist'.wiped => \A t \in Track : counter[d][t] = hist.plays[d][t]
                                                        => counter'[d][t] = hist'.plays[d][t]
           /\ session = d /\ session' = d => Now(d)' = Now(d)
           /\ hist.misread => hist'.misread
<1>1. /\ counter \in [Device -> [Track -> Nat]] /\ hist.plays \in [Device -> [Track -> Nat]]
      /\ counter[d] \in [Track -> Nat] /\ hist.plays[d] \in [Track -> Nat]
      /\ hist \in [plays : [Device -> [Track -> Nat]], wiped : SUBSET Device, misread : BOOLEAN]
  BY DEF TypeOK
<1>2. Before(Now(d), Now(d))
  BY NowTypes, BeforeAll
<1>3. CASE counter' = counter /\ hist'.plays = hist.plays /\ hist'.wiped = hist.wiped
           /\ (hist.misread => hist'.misread)
  BY <1>2, <1>3 DEF Now, Before
<1>4. ASSUME NEW g \in Device, ResetDevice(g) PROVE
        /\ Before(Now(d), Now(d)') /\ hist.wiped \subseteq hist'.wiped
        /\ d \notin hist'.wiped => counter'[d] = counter[d] /\ hist'.plays[d] = hist.plays[d]
        /\ session = d => Now(d)' = Now(d)
        /\ hist'.misread = hist.misread
  <2>1. /\ counter' = [counter EXCEPT ![g] = [t \in Track |-> 0]]
        /\ hist' = [hist EXCEPT !.wiped = @ \cup {g}] /\ session # g
    BY <1>4 DEF ResetDevice
  <2>2. hist'.plays = hist.plays /\ hist'.wiped = hist.wiped \cup {g} /\ hist'.misread = hist.misread
    BY <1>1, <2>1
  <2>3. CASE d # g
    <3>1. counter'[d] = counter[d]
      BY <1>1, <2>1, <2>3
    <3> QED BY <1>2, <2>2, <3>1 DEF Now, Before
  <2>4. CASE d = g
    <3>1. \A t \in Track : counter'[d][t] = 0
      BY <1>1, <2>1, <2>4
    <3>2. \A t \in Track : Behind(counter[d][t], hist.plays[d][t], 0, hist.plays[d][t])
      BY <1>1 DEF Behind
    <3> QED BY <2>1, <2>2, <2>4, <3>1, <3>2 DEF Now, Before
  <2> QED BY <2>3, <2>4
<1>5. ASSUME NEW g \in Device, NEW u \in Copied, PlayOnDevice(g, u) PROVE
        /\ Before(Now(d), Now(d)') /\ hist'.wiped = hist.wiped
        /\ \A t \in Track : counter[d][t] = hist.plays[d][t] => counter'[d][t] = hist'.plays[d][t]
        /\ session = d => Now(d)' = Now(d)
        /\ hist'.misread = hist.misread
  <2> DEFINE more == [hist.plays EXCEPT ![g] = [hist.plays[g] EXCEPT ![u] = hist.plays[g][u] + 1]]
  <2>1. /\ counter' = [counter EXCEPT ![g] = [counter[g] EXCEPT ![u] = counter[g][u] + 1]]
        /\ hist' = [hist EXCEPT !.plays = more] /\ session # g
    BY <1>5 DEF PlayOnDevice
  <2>2. hist'.plays = more /\ hist'.wiped = hist.wiped /\ hist'.misread = hist.misread
    <3> HIDE DEF more
    <3> QED BY <1>1, <2>1
  <2>3. CASE d # g
    <3>1. counter'[d] = counter[d] /\ hist'.plays[d] = hist.plays[d]
      BY <1>1, <2>1, <2>2, <2>3
    <3> QED BY <1>2, <2>2, <3>1 DEF Now, Before
  <2>4. CASE d = g
    <3>1. ASSUME NEW t \in Track
          PROVE  /\ counter'[d][t] = counter[d][t] + (IF t = u THEN 1 ELSE 0)
                 /\ hist'.plays[d][t] = hist.plays[d][t] + (IF t = u THEN 1 ELSE 0)
                 /\ counter[d][t] \in Nat /\ hist.plays[d][t] \in Nat
      BY <1>1, <2>1, <2>2, <2>4
    <3>2. ASSUME NEW t \in Track
          PROVE  Behind(counter[d][t], hist.plays[d][t], counter'[d][t], hist'.plays[d][t])
      BY <3>1 DEF Behind
    <3>3. Before(Now(d), Now(d)')
      BY <3>2 DEF Now, Before
    <3> QED BY <2>1, <2>2, <2>4, <3>1, <3>3
  <2> QED BY <2>3, <2>4
<1>6. CASE Connect
  <2>1. counter' = counter /\ (hist' = hist \/ hist' = [hist EXCEPT !.misread = TRUE])
    BY <1>6 DEF Connect, Take
  <2> QED BY <1>1, <1>3, <2>1
<1>7. CASE Disconnect \/ LoadLibrary \/ DeviceGone \/ Tui \/ Panel \/ Client \/ Net \/ Serving \/ Tick
           \/ UNCHANGED vars
  <2>1. CASE Disconnect \/ LoadLibrary \/ DeviceGone \/ Tick \/ UNCHANGED vars
    BY <1>3, <2>1 DEF Disconnect, LoadLibrary, DeviceGone, Take, Tick, vars
  <2>2. CASE Tui
    BY <1>3, <2>2 DEF Tui, StartTui, EndTui, PlayHere, Press
  <2>3. CASE Panel
    BY <1>3, <2>3, PanelApp
  <2>4. CASE Client \/ Net
    BY <1>3, <2>4 DEF Client, Threshold, TogglePause, PlaybackTick, QueueCompleted, PlayOnPhone, TrackCompleted,
                     Net, Refused, GiveUp, Lost, Answer
  <2>5. CASE Serving
    BY <1>3, <2>5 DEF Serving, StartServe, StopServe, WindowOver, Admit, Record
  <2> QED BY <1>7, <2>1, <2>2, <2>3, <2>4, <2>5
<1> QED BY <1>1, <1>4, <1>5, <1>6, <1>7 DEF Next, Worker

\* What a step reads may be read, and comes before the lists still to come.
LEMMA Reading ==
    ASSUME TypeOK, Channel, Ordered, OnTracks \/ OnLibrary, ReadsList \/ ReadsRows
    PROVE  /\ tui'.key \in Device /\ tui'.rows \in Lists
           /\ Readable(tui'.rows, tui'.key)
           /\ \A j \in DOMAIN events : j # 1 /\ IsList(j) /\ events[j].of = tui'.key =>
                Before(tui'.rows, events[j].rows)
<1>1. events \in Seq(Notice) /\ tui \in App /\ events # <<>>
  BY PanelApp DEF Panel, TypeOK
<1>2. Head(events) = events[1] /\ 1 \in DOMAIN events /\ \A j \in DOMAIN events : j # 1 => 1 < j
  BY <1>1
<1>3. tui.key # None => tui.key \in Device
  BY <1>1, AppFields
<1>4. CASE ReadsList
  <2>1. IsList(1) /\ tui.key # None /\ tui'.key = tui.key /\ tui'.rows = events[1].rows /\ tui'.rows \in Lists
    BY <1>2, <1>4, PanelReads DEF ReadsList, OnTracks, Handle, IsList
  <2>2. tui.key = events[1].of
    BY <1>2, <2>1 DEF Channel
  <2> QED BY <1>2, <1>3, <2>1, <2>2 DEF Ordered
<1>5. CASE ReadsRows
  <2>1. Current
    BY <1>1, <1>2, <1>5, AppFields DEF ReadsRows, Current, OnLibrary, Handle
  <2>2. tui'.key = tui.key /\ tui'.rows = tui.rows /\ tui.rows \in Lists
    BY <1>1, <1>5, AppFields, PanelReads DEF ReadsRows
  <2> QED BY <1>3, <1>5, <2>1, <2>2 DEF Ordered, ReadsRows
<1> QED BY <1>4, <1>5

\* A list stays readable while no later one is read.
LEMMA ReadableStep ==
    ASSUME TypeOK, [Next]_vars, Ordered, NEW L \in Lists, NEW d \in Device,
           (\A t \in Track : Behind(L.of[t], L.real[t], Now(d).of[t], Now(d).real[t])) \/ L = Now(d)',
           \A c \in Copies, t \in Track : Behind(c[t].seen[d], c[t].took[d], L.of[t], L.real[t]),
           d \notin hist'.wiped => \A t \in Track : L.of[t] = L.real[t],
           (OnTracks \/ OnLibrary) /\ (ReadsList \/ ReadsRows) /\ tui'.key = d => Before(tui'.rows, L)
    PROVE  Readable(L, d)'
<1>1. TypeOK'
  BY TypeStep
<1>2. Now(d) \in Lists /\ Now(d)' \in Lists
  <2>1. counter'[d] \in [Track -> Nat] /\ hist'.plays[d] \in [Track -> Nat]
    BY <1>1 DEF TypeOK
  <2> QED BY <2>1, NowTypes DEF Now, Lists
<1>3. Before(L, Now(d)')
  BY <1>2, NowStep, BeforeAll DEF Before
<1>4. ASSUME NEW c \in Copies', NEW t \in Track
      PROVE  Behind(c[t].seen[d], c[t].took[d], L.of[t], L.real[t])
  <2>1. PICK b \in Copies :
          \/ c[t] = b[t]
          \/ (\E u \in Track : PlayHere(u)) /\ Played(b[t], c[t], -left["tui"])
          \/ \E p \in posts : Record(p) /\ p.track = t /\ Played(b[t], c[t], p.listen)
          \/ /\ ReadsList \/ ReadsRows
             /\ tui'.key \in Device /\ tui'.rows \in Lists
             /\ Observed(b[t], c[t], tui'.key, tui'.rows.of[t], tui'.rows.real[t])
    BY EntryStep
  <2>2. CASE c[t].seen = b[t].seen /\ c[t].took = b[t].took
    BY <2>2
  <2>3. CASE /\ ReadsList \/ ReadsRows
             /\ Observed(b[t], c[t], tui'.key, tui'.rows.of[t], tui'.rows.real[t])
    <3>1. b[t] \in Entry
      BY CopiesPlays
    <3>2. /\ c[t].seen = [b[t].seen EXCEPT ![tui'.key] = tui'.rows.of[t]]
          /\ c[t].took = [b[t].took EXCEPT ![tui'.key] = tui'.rows.real[t]]
      BY <2>3 DEF Observed
    <3>3. CASE tui'.key # d
      BY <3>1, <3>2, <3>3, EntryFields
    <3>4. CASE tui'.key = d
      <4>1. c[t].seen[d] = tui'.rows.of[t] /\ c[t].took[d] = tui'.rows.real[t]
        BY <3>1, <3>2, <3>4, EntryFields
      <4>2. Before(tui'.rows, L)
        BY <2>3, <3>4 DEF ReadsList, ReadsRows
      <4> QED BY <4>1, <4>2 DEF Before
    <3> QED BY <3>3, <3>4
  <2> QED BY <2>1, <2>2, <2>3 DEF Played
<1> QED BY <1>3, <1>4 DEF Readable

\* The devices themselves, and the copies.
LEMMA NowReadable ==
    ASSUME TypeOK, [Next]_vars, Channel, Ordered, NEW d \in Device
    PROVE  Readable(Now(d), d)'
<1>1. TypeOK'
  BY TypeStep
<1>2. Now(d) \in Lists /\ Now(d)' \in Lists
  <2>1. counter'[d] \in [Track -> Nat] /\ hist'.plays[d] \in [Track -> Nat]
    BY <1>1 DEF TypeOK
  <2> QED BY <2>1, NowTypes DEF Now, Lists
<1>3. PICK L \in Lists : L = Now(d)'
  BY <1>2
<1>4. Readable(Now(d), d) /\ Before(Now(d), L)
  BY <1>3, NowStep DEF Ordered
<1>5. ASSUME NEW c \in Copies, NEW t \in Track
      PROVE  Behind(c[t].seen[d], c[t].took[d], L.of[t], L.real[t])
  <2>1. c[t].seen[d] \in Nat /\ c[t].took[d] \in Nat
    BY CopiesPlays, EntryFields
  <2>2. Behind(c[t].seen[d], c[t].took[d], Now(d).of[t], Now(d).real[t])
    BY <1>4 DEF Readable
  <2>3. Behind(Now(d).of[t], Now(d).real[t], L.of[t], L.real[t])
    BY <1>4 DEF Before
  <2>4. Now(d).of[t] \in Nat /\ Now(d).real[t] \in Nat /\ L.of[t] \in Nat /\ L.real[t] \in Nat
    BY <1>2, <1>3 DEF Lists
  <2> QED BY <2>1, <2>2, <2>3, <2>4 DEF Behind
<1>6. d \notin hist'.wiped => \A t \in Track : L.of[t] = L.real[t]
  <2> SUFFICES ASSUME d \notin hist'.wiped, NEW t \in Track PROVE L.of[t] = L.real[t]
    OBVIOUS
  <2>1. d \notin hist.wiped
    BY NowStep
  <2>2. Now(d).of[t] = Now(d).real[t]
    BY <1>4, <2>1 DEF Readable
  <2>3. counter[d][t] = hist.plays[d][t]
    BY <2>2, NowTypes
  <2>4. counter'[d][t] = hist'.plays[d][t]
    BY <2>3, NowStep
  <2>5. L.of = counter'[d] /\ L.real = hist'.plays[d]
    BY <1>3 DEF Now
  <2> QED BY <2>4, <2>5
<1>7. (OnTracks \/ OnLibrary) /\ (ReadsList \/ ReadsRows) /\ tui'.key = d => Before(tui'.rows, L)
  <2> SUFFICES ASSUME OnTracks \/ OnLibrary, ReadsList \/ ReadsRows, tui'.key = d PROVE Before(tui'.rows, L)
    OBVIOUS
  <2>1. tui'.rows \in Lists /\ Readable(tui'.rows, d)
    BY Reading
  <2>2. Before(tui'.rows, Now(d))
    BY <2>1 DEF Readable
  <2> QED BY <1>2, <1>4, <1>3, <2>1, <2>2, BeforeAll
<1>8. Readable(L, d)'
  BY <1>3, <1>5, <1>6, <1>7, ReadableStep
<1> QED BY <1>3, <1>8 DEF Readable

LEMMA CopiesWhole ==
    ASSUME TypeOK, [Next]_vars, Channel, Ordered,
           NEW c \in Copies', NEW t \in Track, NEW d \in Device \ hist'.wiped
    PROVE  c[t].seen[d] = c[t].took[d]
<1>1. d \in Device \ hist.wiped
  BY NowStep
<1>2. PICK b \in Copies :
        \/ c[t] = b[t]
        \/ (\E u \in Track : PlayHere(u)) /\ Played(b[t], c[t], -left["tui"])
        \/ \E p \in posts : Record(p) /\ p.track = t /\ Played(b[t], c[t], p.listen)
        \/ /\ ReadsList \/ ReadsRows
           /\ tui'.key \in Device /\ tui'.rows \in Lists
           /\ Observed(b[t], c[t], tui'.key, tui'.rows.of[t], tui'.rows.real[t])
  BY EntryStep
<1>3. b[t].seen[d] = b[t].took[d]
  BY <1>1 DEF Ordered
<1>4. CASE c[t].seen = b[t].seen /\ c[t].took = b[t].took
  BY <1>3, <1>4
<1>5. CASE /\ ReadsList \/ ReadsRows
           /\ Observed(b[t], c[t], tui'.key, tui'.rows.of[t], tui'.rows.real[t])
  <2>1. b[t].seen \in [Device -> Nat] /\ b[t].took \in [Device -> Nat]
    BY CopiesPlays, EntryFields
  <2>2. /\ c[t].seen = [b[t].seen EXCEPT ![tui'.key] = tui'.rows.of[t]]
        /\ c[t].took = [b[t].took EXCEPT ![tui'.key] = tui'.rows.real[t]]
    BY <1>5 DEF Observed
  <2>3. CASE tui'.key # d
    BY <1>3, <2>1, <2>2, <2>3
  <2>4. CASE tui'.key = d
    <3>1. Readable(tui'.rows, d)
      BY <1>5, <2>4, Reading DEF ReadsList, ReadsRows
    <3>2. tui'.rows.of[t] = tui'.rows.real[t]
      BY <1>1, <3>1 DEF Readable
    <3> QED BY <2>1, <2>2, <2>4, <3>2
  <2> QED BY <2>3, <2>4
<1> QED BY <1>2, <1>4, <1>5 DEF Played

\* A list that is not read now, or was read before: it stays readable.
LEMMA ListReadable ==
    ASSUME TypeOK, [Next]_vars, Channel, Ordered, NEW L \in Lists, NEW d \in Device, Readable(L, d),
           (OnTracks \/ OnLibrary) /\ (ReadsList \/ ReadsRows) /\ tui'.key = d => Before(tui'.rows, L)
    PROVE  Readable(L, d)'
<1>1. d \notin hist'.wiped => d \notin hist.wiped
  BY NowStep
<1> QED BY <1>1, ReadableStep DEF Readable, Before

\* A step of another than the panel: events are added at the end.
PanelKept ==
    /\ tui' # None /\ tui'.key # None =>
         /\ tui # None /\ tui.key = tui'.key /\ tui.rows = tui'.rows /\ tui.lib = tui'.lib
         /\ \A t \in Track : tui'.plays[t].took = tui.plays[t].took
    /\ tui' # None /\ tui'.ignore => tui'.key = None \/ (tui # None /\ tui.ignore)
Plain(es) == \A i \in DOMAIN es : es[i].ev \in {"library", "failed"}

LEMMA KeptSame == tui' = tui => PanelKept
BY DEF PanelKept

LEMMA EmitNothing == ASSUME TypeOK, events' = events PROVE \E es \in Seq(Notice) : Emit(es) /\ Plain(es)
<1>1. events \in Seq(Notice)
  BY DEF TypeOK
<1>2. events \o <<>> = events
  BY <1>1
<1>3. <<>> \in Seq(Notice) /\ Plain(<<>>)
  BY DEF Plain
<1> QED BY <1>2, <1>3 DEF Emit

LEMMA EmitOne ==
    ASSUME NEW n \in Notice, n.ev \in {"library", "failed"}, Emit(<<n>>)
    PROVE  \E es \in Seq(Notice) : Emit(es) /\ Plain(es)
<1>1. <<n>> \in Seq(Notice) /\ Plain(<<n>>)
  BY DEF Plain
<1> QED BY <1>1

LEMMA PlayHereKept == ASSUME TypeOK, NEW u \in Track, PlayHere(u) PROVE PanelKept
<1>1. /\ tui' \in App /\ tui \in App
      /\ tui'.plays = [tui.plays EXCEPT ![u] = record_play(tui.plays[u], -left["tui"])]
      /\ tui'.key = tui.key /\ tui'.rows = tui.rows /\ tui'.lib = tui.lib /\ tui'.ignore = tui.ignore
  BY PlayHereApp
<1>2. tui.plays \in Plays /\ tui # None
  BY <1>1, AppFields
<1>3. record_play(tui.plays[u], -left["tui"]).took = tui.plays[u].took
  <2>1. tui.plays[u] \in Entry /\ -left["tui"] \in Int
    BY <1>2 DEF Plays, TypeOK
  <2> QED BY <2>1, RecordPlay
<1>4. \A t \in Track : tui'.plays[t].took = tui.plays[t].took
  BY <1>1, <1>2, <1>3 DEF Plays
<1> QED BY <1>1, <1>2, <1>4 DEF PanelKept

LEMMA QuietSteps ==
    ASSUME TypeOK, [Next]_vars, ~hist'.misread
    PROVE  \/ EndTui \/ Panel
           \/ PanelKept /\ session' \in {session, None} /\ \E es \in Seq(Notice) : Emit(es) /\ Plain(es)
           \/ \E d \in Device, n \in Notice :
                /\ PanelKept /\ Emit(<<Event("detected", d), n>>)
                /\ \/ n = Listing(d) /\ session' = d /\ UNCHANGED <<counter, hist>>
                   \/ n.ev = "failed" /\ session' = None
<1> DEFINE Quiet == PanelKept /\ session' \in {session, None} /\ \E es \in Seq(Notice) : Emit(es) /\ Plain(es)
<1>1. ASSUME tui' = tui, session' = session, events' = events PROVE Quiet
  BY <1>1, KeptSame, EmitNothing
<1>2. CASE UNCHANGED vars
  BY <1>1, <1>2 DEF vars, app
<1>3. ASSUME NEW d \in Device, ResetDevice(d) \/ (\E t \in Copied : PlayOnDevice(d, t)) PROVE Quiet
  BY <1>1, <1>3 DEF ResetDevice, PlayOnDevice, app
<1>4. CASE StartTui
  <2>1. tui'.key = None /\ ~tui'.ignore /\ events' = events /\ session' = session
    BY <1>4 DEF StartTui
  <2>2. PanelKept
    BY <2>1 DEF PanelKept
  <2> QED BY <2>1, <2>2, EmitNothing
<1>5. ASSUME NEW u \in Track, PlayHere(u) PROVE Quiet
  BY <1>5, PlayHereKept, EmitNothing DEF PlayHere
<1>6. ASSUME NEW cmd \in {"connect", "disconnect", "library"}, Press(cmd) PROVE Quiet
  <2>1. events' = events /\ session' = session /\ tui # None /\ tui \in App
    BY <1>6 DEF Press, TypeOK
  <2>2. \/ tui' = [tui EXCEPT !.ignore = FALSE, !.up = TRUE]
        \/ tui' = [tui EXCEPT !.ignore = TRUE, !.up = FALSE, !.key = None, !.rows = None]
        \/ tui' = tui
    BY <1>6 DEF Press
  <2>3. PanelKept
    BY <2>1, <2>2 DEF PanelKept, App
  <2> QED BY <2>1, <2>3, EmitNothing
<1>7. CASE Connect
  <2>1. tui' = tui
    BY <1>7 DEF Connect, Take
  <2>2. CASE Emit(<<Event("failed", None)>>) /\ session' = session
    <3>1. Event("failed", None) \in Notice /\ Event("failed", None).ev = "failed"
      BY Notices DEF Event
    <3> QED BY <2>1, <2>2, <3>1, KeptSame, EmitOne
  <2>3. ASSUME NEW d \in Device, session' = d, Emit(<<Event("detected", d), Listing(d)>>), hist' = hist
        PROVE  \E n \in Notice : /\ PanelKept /\ Emit(<<Event("detected", d), n>>)
                                 /\ n = Listing(d) /\ session' = d /\ UNCHANGED <<counter, hist>>
    <3>1. Listing(d) \in Notice /\ counter' = counter
      BY <1>7, Notices DEF Connect, Take
    <3> QED BY <2>1, <2>3, <3>1, KeptSame
  <2>4. ASSUME NEW d \in Device, session' = None, Emit(<<Event("detected", d), Event("failed", d)>>)
        PROVE  \E n \in Notice : /\ PanelKept /\ Emit(<<Event("detected", d), n>>)
                                 /\ n.ev = "failed" /\ session' = None
    <3>1. Event("failed", d) \in Notice /\ Event("failed", d).ev = "failed"
      BY Notices DEF Event
    <3> QED BY <2>1, <2>4, <3>1, KeptSame
  <2>5. \A d \in Device : ~(hist' = [hist EXCEPT !.misread = TRUE])
    BY DEF TypeOK
  <2> QED BY <1>7, <2>2, <2>3, <2>4, <2>5 DEF Connect
<1>8. CASE Disconnect
  BY <1>8, KeptSame, EmitNothing DEF Disconnect, Take
<1>9. CASE LoadLibrary
  <2>1. Event("library", None) \in Notice /\ Event("library", None).ev = "library"
    BY Notices DEF Event
  <2> QED BY <1>9, <2>1, KeptSame, EmitOne DEF LoadLibrary, Take
<1>10. CASE DeviceGone
  <2>1. Event("failed", session) \in Notice /\ Event("failed", session).ev = "failed"
    BY Notices DEF Event, TypeOK
  <2> QED BY <1>10, <2>1, KeptSame, EmitOne DEF DeviceGone
<1>11. CASE Client \/ Net
  BY <1>1, <1>11 DEF Client, Threshold, TogglePause, PlaybackTick, QueueCompleted, PlayOnPhone, TrackCompleted,
                    Net, Refused, GiveUp, Lost, Answer, app
<1>12. CASE Serving \/ Tick
  BY <1>1, <1>12 DEF Serving, StartServe, StopServe, WindowOver, Admit, Record, Tick, app
<1> QED BY <1>2, <1>3, <1>4, <1>5, <1>6, <1>7, <1>8, <1>9, <1>10, <1>11, <1>12 DEF Next, Tui, Worker

LEMMA CurrentKept ==
    ASSUME TypeOK, PanelKept, NEW es \in Seq(Notice), Emit(es), Current'
    PROVE  Current /\ tui'.rows = tui.rows /\ tui'.key = tui.key
<1>1. events \in Seq(Notice) /\ events' = events \o es
  BY DEF TypeOK, Emit
<1>2. events # <<>> => events' # <<>> /\ Head(events') = Head(events)
  BY <1>1
<1> QED BY <1>2 DEF Current, PanelKept

\* Events that are no list.
LEMMA PlainStep ==
    ASSUME TypeOK, [Next]_vars, Channel, Ordered, AllRead,
           PanelKept, session' \in {session, None}, NEW es \in Seq(Notice), Emit(es), Plain(es),
           \A d \in Device : Readable(Now(d), d)',
           \A L \in Lists, d \in Device : Readable(L, d) => Readable(L, d)'
    PROVE  /\ Channel' /\ AllRead'
           /\ \A i \in DOMAIN events' : IsList(i)' => Readable(events[i].rows, events[i].of)'
           /\ (\A i, j \in DOMAIN events : i < j /\ IsList(i) /\ IsList(j) /\ events[i].of = events[j].of
                 => Before(events[i].rows, events[j].rows))'
           /\ (Current => /\ Readable(tui.rows, tui.key)
                          /\ \A j \in DOMAIN events :
                               IsList(j) /\ events[j].of = tui.key => Before(tui.rows, events[j].rows))'
<1>1. events \in Seq(Notice) /\ events' = events \o es /\ TypeOK'
  BY TypeStep DEF TypeOK, Emit
<1>2. Len(events') = Len(events) + Len(es) /\ DOMAIN events' = 1..Len(events') /\ DOMAIN events = 1..Len(events)
      /\ Len(events) \in Nat /\ Len(es) \in Nat
  BY <1>1
<1>3. \A i \in DOMAIN events : i \in DOMAIN events' /\ events'[i] = events[i]
  BY <1>1, <1>2
<1>4. ASSUME NEW i \in DOMAIN events', i \notin DOMAIN events PROVE events'[i].ev \in {"library", "failed"}
  <2>1. i - Len(events) \in DOMAIN es /\ events'[i] = es[i - Len(events)]
    BY <1>1, <1>2, <1>4
  <2> QED BY <2>1 DEF Plain
<1>5. \A i \in DOMAIN events' : events'[i].ev \in {"tracks", "detected"} => i \in DOMAIN events /\ events'[i] = events[i]
  BY <1>3, <1>4
<1>6. Channel'
  <2>1. ASSUME NEW i \in DOMAIN events', events'[i].ev = "detected"
        PROVE  i < Len(events') /\ (events'[i + 1].ev = "failed"
                                    \/ (IsList(i + 1)' /\ events'[i + 1].of = events'[i].of))
    <3>1. i \in DOMAIN events /\ events'[i] = events[i] /\ i < Len(events)
      BY <1>5, <2>1 DEF Channel
    <3>2. i + 1 \in DOMAIN events /\ events'[i + 1] = events[i + 1]
      BY <1>2, <1>3, <3>1
    <3> QED BY <1>2, <2>1, <3>1, <3>2 DEF Channel, IsList
  <2>2. ASSUME NEW i \in DOMAIN events', IsList(i)'
        PROVE  IF i = 1 THEN tui'.key \in {None, events'[1].of}
                        ELSE events'[i - 1].ev = "detected" /\ events'[i - 1].of = events'[i].of
    <3>1. i \in DOMAIN events /\ events'[i] = events[i] /\ IsList(i)
      BY <1>5, <2>2 DEF IsList
    <3>2. CASE i = 1
      <4>1. tui' # None
        <5>1. events' # <<>>
          BY <1>1, <1>2, <3>1
        <5> QED BY <1>1, <5>1 DEF TypeOK
      <4> QED BY <3>1, <3>2, <4>1 DEF Channel, PanelKept
    <3>3. CASE i # 1
      <4>1. i - 1 \in DOMAIN events /\ events'[i - 1] = events[i - 1]
        BY <1>2, <1>3, <3>1, <3>3
      <4> QED BY <3>1, <3>3, <4>1 DEF Channel
    <3> QED BY <3>2, <3>3
  <2>3. tui' # None /\ tui'.ignore => tui'.key = None
    BY DEF Channel, PanelKept
  <2> QED BY <2>1, <2>2, <2>3 DEF Channel
<1>7. ASSUME NEW i \in DOMAIN events', IsList(i)' PROVE Readable(events[i].rows, events[i].of)'
  <2>1. i \in DOMAIN events /\ events'[i] = events[i] /\ IsList(i)
    BY <1>5, <1>7 DEF IsList
  <2>2. PICK L \in Lists, d \in Device : L = events[i].rows /\ d = events[i].of
    <3>1. events[i] \in Notice
      BY <1>1, <2>1
    <3> QED BY <2>1, <3>1, NoticeCases DEF IsList
  <2>3. Readable(L, d)
    BY <2>1, <2>2 DEF Ordered
  <2>4. Readable(L, d)'
    BY <2>3
  <2> QED BY <2>1, <2>2, <2>4 DEF Readable
<1>8. ASSUME NEW i \in DOMAIN events', NEW j \in DOMAIN events', i < j, IsList(i)', IsList(j)',
             events'[i].of = events'[j].of
      PROVE  Before(events'[i].rows, events'[j].rows)
  <2>1. /\ i \in DOMAIN events /\ events'[i] = events[i] /\ IsList(i)
        /\ j \in DOMAIN events /\ events'[j] = events[j] /\ IsList(j)
    BY <1>5, <1>8 DEF IsList
  <2> QED BY <1>8, <2>1 DEF Ordered
<1>9. ASSUME Current'
      PROVE  /\ Readable(tui.rows, tui.key)'
             /\ \A j \in DOMAIN events' :
                  IsList(j)' /\ events'[j].of = tui'.key => Before(tui'.rows, events'[j].rows)
  <2>1. Current /\ tui'.rows = tui.rows /\ tui'.key = tui.key
    BY <1>9, CurrentKept
  <2>2. PICK L \in Lists, d \in Device : L = tui.rows /\ d = tui.key
    <3>1. tui \in App /\ tui.key # None /\ tui.rows # None
      BY <2>1 DEF Current, TypeOK
    <3> QED BY <3>1, AppFields
  <2>3. Readable(L, d)'
    BY <2>1, <2>2 DEF Ordered
  <2>4. Readable(tui.rows, tui.key)'
    BY <2>1, <2>2, <2>3 DEF Readable
  <2>5. ASSUME NEW j \in DOMAIN events', IsList(j)', events'[j].of = tui'.key
        PROVE  Before(tui'.rows, events'[j].rows)
    <3>1. j \in DOMAIN events /\ events'[j] = events[j] /\ IsList(j)
      BY <1>5, <2>5 DEF IsList
    <3> QED BY <2>1, <2>5, <3>1 DEF Ordered
  <2> QED BY <2>4, <2>5
<1>10. AllRead'
  <2> SUFFICES ASSUME session' # None PROVE AllRead'
    BY DEF AllRead
  <2>1. session' = session /\ session \in Device /\ tui' # None /\ tui # None
    BY <1>1 DEF TypeOK
  <2>2. Now(session)' = [of |-> counter'[session], real |-> hist'.plays[session]]
        /\ Now(session) = [of |-> counter[session], real |-> hist.plays[session]]
    BY <2>1 DEF Now
  <2>3. hist'.plays[session] = hist.plays[session]
    <3>1. PICK d \in Device : d = session
      BY <2>1
    <3>2. Now(d)' = Now(d)
      BY <2>1, <3>1, NowStep
    <3> QED BY <3>1, <3>2 DEF Now
  <2>4. ASSUME NEW i \in DOMAIN events, Latest(i) PROVE AllRead'
    <3>1. i \in DOMAIN events' /\ events'[i] = events[i]
      BY <1>3
    <3>2. \A j \in DOMAIN events' : j > i => events'[j].ev \notin {"detected", "tracks"}
      BY <1>5, <2>4 DEF Latest
    <3>3. Latest(i)'
      BY <2>1, <2>3, <2>4, <3>1, <3>2 DEF Latest, IsList
    <3> QED BY <3>1, <3>3 DEF AllRead
  <2>5. ASSUME \A i \in DOMAIN events : events[i].ev \notin {"detected", "tracks"},
               tui.key # None =>
                 /\ tui.key = session
                 /\ tui.rows # None =>
                      /\ tui.rows.real = hist.plays[session]
                      /\ tui.lib => \A t \in Copied : tui.plays[t].took[session] = hist.plays[session][t]
        PROVE  AllRead'
    <3>1. \A i \in DOMAIN events' : events'[i].ev \notin {"detected", "tracks"}
      BY <1>5, <2>5
    <3>2. tui'.key # None =>
            /\ tui'.key = session'
            /\ tui'.rows # None =>
                 /\ tui'.rows.real = hist'.plays[session']
                 /\ tui'.lib => \A t \in Copied : tui'.plays[t].took[session'] = hist'.plays[session'][t]
      BY <2>1, <2>3, <2>5, LedgerAssumption DEF PanelKept
    <3> QED BY <3>1, <3>2 DEF AllRead
  <2> QED BY <2>1, <2>4, <2>5 DEF AllRead
<1> QED BY <1>6, <1>7, <1>8, <1>9, <1>10

\* A device is detected: its list, or its failure, follows.
LEMMA OpenStep ==
    ASSUME TypeOK, [Next]_vars, Channel, Ordered,
           NEW g \in Device, NEW n \in Notice, PanelKept, Emit(<<Event("detected", g), n>>),
           \/ n = Listing(g) /\ session' = g /\ UNCHANGED <<counter, hist>>
           \/ n.ev = "failed" /\ session' = None,
           \A d \in Device : Readable(Now(d), d)',
           \A L \in Lists, d \in Device : Readable(L, d) => Readable(L, d)'
    PROVE  /\ Channel' /\ AllRead'
           /\ \A i \in DOMAIN events' : IsList(i)' => Readable(events[i].rows, events[i].of)'
           /\ (\A i, j \in DOMAIN events : i < j /\ IsList(i) /\ IsList(j) /\ events[i].of = events[j].of
                 => Before(events[i].rows, events[j].rows))'
           /\ (Current => /\ Readable(tui.rows, tui.key)
                          /\ \A j \in DOMAIN events :
                               IsList(j) /\ events[j].of = tui.key => Before(tui.rows, events[j].rows))'
<1> DEFINE k == Len(events)
           m == Event("detected", g)
<1>1. events \in Seq(Notice) /\ TypeOK'
  BY TypeStep DEF TypeOK
<1>2. m.ev = "detected" /\ m.of = g /\ m \in Notice
  BY Notices DEF Event
<1> HIDE DEF m
<1>3. events' = events \o <<m, n>> /\ <<m, n>> \in Seq(Notice)
  BY <1>2 DEF Emit, m
<1>4. /\ k \in Nat /\ DOMAIN events = 1..k /\ Len(events') = k + 2 /\ DOMAIN events' = 1..(k + 2)
      /\ events'[k + 1] = m /\ events'[k + 2] = n
      /\ \A i \in 1..k : events'[i] = events[i]
  BY <1>1, <1>3
<1> HIDE DEF k
<1>5. \/ /\ n.ev = "tracks" /\ n.of = g /\ n.rows = Now(g)' /\ n.rows = Now(g) /\ session' = g
         /\ n.rows.real = hist'.plays[g]
      \/ n.ev = "failed" /\ session' = None
  <2>1. CASE n = Listing(g) /\ session' = g /\ UNCHANGED <<counter, hist>>
    <3>1. n.ev = "tracks" /\ n.of = g /\ n.rows = Now(g) /\ Now(g)' = Now(g)
      BY <2>1, NowTypes DEF Listing, Now
    <3>2. Now(g).real = hist.plays[g]
      BY NowTypes
    <3> QED BY <2>1, <3>1, <3>2
  <2> QED BY <2>1
<1>6. ASSUME NEW i \in DOMAIN events', IsList(i)'
      PROVE  \/ i \in DOMAIN events /\ i \in 1..k /\ events'[i] = events[i] /\ IsList(i)
             \/ i = k + 2 /\ events'[i] = n /\ n.ev = "tracks"
  BY <1>2, <1>4, <1>6 DEF IsList
<1>7. Channel'
  <2>1. ASSUME NEW i \in DOMAIN events', events'[i].ev = "detected"
        PROVE  i < Len(events') /\ (events'[i + 1].ev = "failed"
                                    \/ (IsList(i + 1)' /\ events'[i + 1].of = events'[i].of))
    <3>1. CASE i \in 1..k
      <4>1. i \in DOMAIN events /\ events'[i] = events[i] /\ i < k
        BY <1>4, <2>1, <3>1 DEF Channel, k
      <4>2. i + 1 \in 1..k /\ events'[i + 1] = events[i + 1]
        BY <1>4, <3>1, <4>1
      <4> QED BY <1>4, <2>1, <4>1, <4>2 DEF Channel, IsList
    <3>2. CASE i = k + 1
      BY <1>2, <1>4, <1>5, <3>2 DEF IsList
    <3>3. CASE i = k + 2
      BY <1>4, <1>5, <2>1, <3>3
    <3> QED BY <1>4, <3>1, <3>2, <3>3
  <2>2. ASSUME NEW i \in DOMAIN events', IsList(i)'
        PROVE  IF i = 1 THEN tui'.key \in {None, events'[1].of}
                        ELSE events'[i - 1].ev = "detected" /\ events'[i - 1].of = events'[i].of
    <3>1. CASE i \in 1..k
      <4>1. IsList(i) /\ i \in DOMAIN events /\ events'[i] = events[i]
        BY <1>4, <1>6, <2>2, <3>1
      <4>2. CASE i = 1
        <5>1. tui' # None
          <6>1. events' # <<>>
            BY <1>4, <4>1
          <6> QED BY <1>1, <6>1 DEF TypeOK
        <5> QED BY <4>1, <4>2, <5>1 DEF Channel, PanelKept
      <4>3. CASE i # 1
        <5>1. i - 1 \in 1..k /\ events'[i - 1] = events[i - 1]
          BY <1>4, <3>1, <4>3
        <5> QED BY <4>1, <4>3, <5>1 DEF Channel
      <4> QED BY <4>2, <4>3
    <3>2. CASE i = k + 2
      <4>1. i # 1 /\ i - 1 = k + 1
        BY <1>4, <3>2
      <4> QED BY <1>2, <1>4, <1>5, <1>6, <2>2, <3>2, <4>1
    <3> QED BY <1>4, <1>6, <2>2, <3>1, <3>2
  <2>3. tui' # None /\ tui'.ignore => tui'.key = None
    BY DEF Channel, PanelKept
  <2> QED BY <2>1, <2>2, <2>3 DEF Channel
<1>8. ASSUME NEW i \in DOMAIN events', IsList(i)' PROVE Readable(events[i].rows, events[i].of)'
  <2>1. CASE i \in DOMAIN events /\ events'[i] = events[i] /\ IsList(i)
    <3>1. PICK L \in Lists, d \in Device : L = events[i].rows /\ d = events[i].of
      <4>1. events[i] \in Notice
        BY <1>1, <2>1
      <4> QED BY <2>1, <4>1, NoticeCases DEF IsList
    <3>2. Readable(L, d)'
      BY <2>1, <3>1 DEF Ordered
    <3> QED BY <2>1, <3>1, <3>2 DEF Readable
  <2>2. CASE i = k + 2 /\ events'[i] = n /\ n.ev = "tracks"
    <3>1. events'[i].of = g /\ events'[i].rows = Now(g)'
      BY <1>5, <2>2
    <3>2. Readable(Now(g), g)'
      OBVIOUS
    <3> QED BY <3>1, <3>2 DEF Readable
  <2> QED BY <1>6, <1>8, <2>1, <2>2
<1>9. ASSUME NEW i \in DOMAIN events', NEW j \in DOMAIN events', i < j, IsList(i)', IsList(j)',
             events'[i].of = events'[j].of
      PROVE  Before(events'[i].rows, events'[j].rows)
  <2>1. i \in DOMAIN events /\ events'[i] = events[i] /\ IsList(i)
    BY <1>4, <1>6, <1>9
  <2>2. CASE j \in DOMAIN events /\ events'[j] = events[j] /\ IsList(j)
    BY <1>9, <2>1, <2>2 DEF Ordered
  <2>3. CASE j = k + 2 /\ events'[j] = n /\ n.ev = "tracks"
    <3>1. Readable(events[i].rows, events[i].of)
      BY <2>1 DEF Ordered
    <3>2. events[i].of = g /\ n.rows = Now(g)
      BY <1>5, <1>9, <2>1, <2>3
    <3> QED BY <2>1, <2>3, <3>1, <3>2 DEF Readable
  <2> QED BY <1>6, <1>9, <2>2, <2>3
<1>10. ASSUME Current'
      PROVE  /\ Readable(tui.rows, tui.key)'
             /\ \A j \in DOMAIN events' :
                  IsList(j)' /\ events'[j].of = tui'.key => Before(tui'.rows, events'[j].rows)
  <2>1. Current /\ tui'.rows = tui.rows /\ tui'.key = tui.key
    BY <1>3, <1>10, CurrentKept DEF m
  <2>2. PICK L \in Lists, d \in Device : L = tui.rows /\ d = tui.key
    <3>1. tui \in App /\ tui.key # None /\ tui.rows # None
      BY <2>1 DEF Current, TypeOK
    <3> QED BY <3>1, AppFields
  <2>3. Readable(L, d) /\ Readable(L, d)'
    BY <2>1, <2>2 DEF Ordered
  <2>4. Readable(tui.rows, tui.key)'
    BY <2>1, <2>2, <2>3 DEF Readable
  <2>5. ASSUME NEW j \in DOMAIN events', IsList(j)', events'[j].of = tui'.key
        PROVE  Before(tui'.rows, events'[j].rows)
    <3>1. CASE j \in DOMAIN events /\ events'[j] = events[j] /\ IsList(j)
      BY <2>1, <2>5, <3>1 DEF Ordered
    <3>2. CASE j = k + 2 /\ events'[j] = n /\ n.ev = "tracks"
      <4>1. d = g /\ n.rows = Now(g)
        BY <1>5, <2>1, <2>2, <2>5, <3>2
      <4> QED BY <2>1, <2>2, <2>3, <3>2, <4>1 DEF Readable
    <3> QED BY <1>6, <2>5, <3>1, <3>2
  <2> QED BY <2>4, <2>5
<1>11. AllRead'
  <2>1. CASE session' = None
    BY <2>1 DEF AllRead
  <2>2. CASE session' # None
    <3>1. n.ev = "tracks" /\ n.of = g /\ session' = g /\ n.rows.real = hist'.plays[g]
      BY <1>5, <2>2
    <3>2. PICK i \in DOMAIN events' : i = k + 2
      BY <1>4
    <3>3. events'[i] = n /\ \A j \in DOMAIN events' : ~(j > i)
      BY <1>4, <3>2
    <3>4. Latest(i)'
      BY <3>1, <3>3 DEF Latest, IsList
    <3> QED BY <3>4 DEF AllRead
  <2> QED BY <2>1, <2>2
<1> QED BY <1>7, <1>8, <1>9, <1>10, <1>11

LEMMA EndStep ==
    ASSUME TypeOK, [Next]_vars, EndTui
    PROVE  /\ Channel' /\ AllRead'
           /\ \A i \in DOMAIN events' : IsList(i)' => Readable(events[i].rows, events[i].of)'
           /\ (\A i, j \in DOMAIN events : i < j /\ IsList(i) /\ IsList(j) /\ events[i].of = events[j].of
                 => Before(events[i].rows, events[j].rows))'
           /\ ~Current'
<1>1. tui' = None /\ DOMAIN events' = {} /\ session' = None
  BY DEF EndTui
<1>2. Channel'
  BY <1>1 DEF Channel
<1>3. AllRead' /\ ~Current'
  BY <1>1 DEF AllRead, Current
<1> QED BY <1>1, <1>2, <1>3

\* The panel takes the first event.
LEMMA TailOf ==
    ASSUME TypeOK, events # <<>>, events' = Tail(events)
    PROVE  /\ Len(events) \in Nat \ {0} /\ Len(events') = Len(events) - 1 /\ 1 \in DOMAIN events
           /\ DOMAIN events = 1..Len(events) /\ DOMAIN events' = 1..Len(events')
           /\ Head(events) = events[1] /\ events[1] \in Notice
           /\ \A i \in DOMAIN events' : i \in Nat \ {0} /\ i + 1 \in DOMAIN events /\ events'[i] = events[i + 1]
           /\ \A i \in DOMAIN events : i # 1 => i - 1 \in DOMAIN events' /\ events'[i - 1] = events[i]
<1>1. events \in Seq(Notice)
  BY DEF TypeOK
<1> QED BY <1>1

\* What is left of the queue.
LEMMA TailStep ==
    ASSUME TypeOK, [Next]_vars, Channel, Ordered, Panel,
           \A L \in Lists, d \in Device :
             /\ Readable(L, d)
             /\ (OnTracks \/ OnLibrary) /\ (ReadsList \/ ReadsRows) /\ tui'.key = d => Before(tui'.rows, L)
             => Readable(L, d)'
    PROVE  /\ \A i \in DOMAIN events' : events'[i].ev = "detected" =>
                i < Len(events') /\ (events'[i + 1].ev = "failed"
                                     \/ (IsList(i + 1)' /\ events'[i + 1].of = events'[i].of))
           /\ \A i \in DOMAIN events' : IsList(i)' =>
                IF i = 1 THEN Head(events).ev = "detected" /\ Head(events).of = events'[1].of
                         ELSE events'[i - 1].ev = "detected" /\ events'[i - 1].of = events'[i].of
           /\ \A i \in DOMAIN events' : IsList(i)' => Readable(events[i].rows, events[i].of)'
           /\ (\A i, j \in DOMAIN events : i < j /\ IsList(i) /\ IsList(j) /\ events[i].of = events[j].of
                 => Before(events[i].rows, events[j].rows))'
<1>1. events # <<>> /\ events' = Tail(events) /\ events \in Seq(Notice)
  BY PanelApp DEF TypeOK
<1>2. /\ Len(events) \in Nat \ {0} /\ Len(events') = Len(events) - 1 /\ 1 \in DOMAIN events
      /\ DOMAIN events = 1..Len(events) /\ DOMAIN events' = 1..Len(events')
      /\ Head(events) = events[1] /\ events[1] \in Notice
      /\ \A i \in DOMAIN events' : i \in Nat \ {0} /\ i + 1 \in DOMAIN events /\ events'[i] = events[i + 1]
  BY <1>1, TailOf
<1>3. ASSUME NEW i \in DOMAIN events', events'[i].ev = "detected"
      PROVE  i < Len(events') /\ (events'[i + 1].ev = "failed"
                                  \/ (IsList(i + 1)' /\ events'[i + 1].of = events'[i].of))
  <2>1. i + 1 \in DOMAIN events /\ events'[i] = events[i + 1] /\ i \in Nat
    BY <1>2
  <2>2. /\ i + 1 < Len(events)
        /\ events[i + 2].ev = "failed" \/ (IsList(i + 2) /\ events[i + 2].of = events[i + 1].of)
    <3>1. (i + 1) + 1 = i + 2
      BY <2>1
    <3> QED BY <1>3, <2>1, <3>1 DEF Channel
  <2>3. i + 1 \in DOMAIN events' /\ (i + 1) + 1 = i + 2
    BY <1>2, <2>1, <2>2
  <2>4. events'[i + 1] = events[i + 2]
    BY <1>2, <2>3
  <2> QED BY <1>2, <2>1, <2>2, <2>4 DEF IsList
<1>4. ASSUME NEW i \in DOMAIN events', IsList(i)'
      PROVE  i + 1 \in DOMAIN events /\ IsList(i + 1) /\ events'[i] = events[i + 1] /\ i \in Nat \ {0}
  BY <1>2, <1>4 DEF IsList
<1>5. ASSUME NEW i \in DOMAIN events', IsList(i)'
      PROVE  IF i = 1 THEN Head(events).ev = "detected" /\ Head(events).of = events'[1].of
                      ELSE events'[i - 1].ev = "detected" /\ events'[i - 1].of = events'[i].of
  <2>1. i + 1 \in DOMAIN events /\ IsList(i + 1) /\ events'[i] = events[i + 1] /\ i \in Nat \ {0}
    BY <1>4, <1>5
  <2>2. i + 1 # 1 /\ (i + 1) - 1 = i
    BY <2>1
  <2>3. events[i].ev = "detected" /\ events[i].of = events[i + 1].of
    BY <2>1, <2>2 DEF Channel
  <2>4. CASE i = 1
    BY <1>2, <2>1, <2>3, <2>4
  <2>5. CASE i # 1
    <3>1. i - 1 \in DOMAIN events' /\ (i - 1) + 1 = i
      BY <1>2, <2>1, <2>5
    <3>2. events'[i - 1] = events[i]
      BY <1>2, <3>1
    <3> QED BY <2>1, <2>3, <2>5, <3>2
  <2> QED BY <2>4, <2>5
<1>6. ASSUME NEW i \in DOMAIN events', IsList(i)' PROVE Readable(events[i].rows, events[i].of)'
  <2>1. i + 1 \in DOMAIN events /\ IsList(i + 1) /\ events'[i] = events[i + 1] /\ i \in Nat \ {0}
    BY <1>4, <1>6
  <2>2. PICK L \in Lists, d \in Device : L = events[i + 1].rows /\ d = events[i + 1].of
    <3>1. events[i + 1] \in Notice
      BY <1>1, <2>1
    <3> QED BY <2>1, <3>1, NoticeCases DEF IsList
  <2>3. Readable(L, d)
    BY <2>1, <2>2 DEF Ordered
  <2>4. (OnTracks \/ OnLibrary) /\ (ReadsList \/ ReadsRows) /\ tui'.key = d => Before(tui'.rows, L)
    <3>1. i + 1 # 1
      BY <2>1
    <3> QED BY <2>1, <2>2, <3>1, Reading
  <2>5. Readable(L, d)'
    BY <2>3, <2>4
  <2> QED BY <2>1, <2>2, <2>5 DEF Readable
<1>7. ASSUME NEW i \in DOMAIN events', NEW j \in DOMAIN events', i < j, IsList(i)', IsList(j)',
             events'[i].of = events'[j].of
      PROVE  Before(events'[i].rows, events'[j].rows)
  <2>1. /\ i + 1 \in DOMAIN events /\ IsList(i + 1) /\ events'[i] = events[i + 1] /\ i \in Nat \ {0}
        /\ j + 1 \in DOMAIN events /\ IsList(j + 1) /\ events'[j] = events[j + 1] /\ j \in Nat \ {0}
    BY <1>4, <1>7
  <2>2. i + 1 < j + 1
    BY <1>7, <2>1
  <2> QED BY <1>7, <2>1, <2>2 DEF Ordered
<1> QED BY <1>3, <1>5, <1>6, <1>7

LEMMA TailLatest ==
    ASSUME TypeOK, [Next]_vars, Panel, session # None, NEW i \in DOMAIN events, i # 1, Latest(i)
    PROVE  AllRead'
<1>1. events # <<>> /\ events' = Tail(events) /\ session' = session /\ hist' = hist
  BY PanelApp
<1>2. /\ \A j \in DOMAIN events' : j \in Nat \ {0} /\ j + 1 \in DOMAIN events /\ events'[j] = events[j + 1]
      /\ i - 1 \in DOMAIN events' /\ events'[i - 1] = events[i] /\ i \in Nat
  BY <1>1, TailOf
<1>3. PICK h \in DOMAIN events' : h = i - 1
  BY <1>2
<1>4. \A j \in DOMAIN events' : j > h => events'[j].ev \notin {"detected", "tracks"}
  BY <1>2, <1>3 DEF Latest
<1>5. Latest(h)'
  BY <1>1, <1>2, <1>3, <1>4 DEF Latest, IsList
<1> QED BY <1>3, <1>5 DEF AllRead

\* What the panel does: the channel, its list, and what was read.
PanelAfter ==
    /\ events' # <<>> /\ events'[1].ev = "tracks" => tui'.key \in {None, events'[1].of}
    /\ tui' # None /\ tui'.ignore => tui'.key = None
    /\ (Current => /\ Readable(tui.rows, tui.key)
                   /\ \A j \in DOMAIN events :
                        IsList(j) /\ events[j].of = tui.key => Before(tui.rows, events[j].rows))'
    /\ AllRead'

LEMMA DetectedStep == ASSUME TypeOK, [Next]_vars, Channel, Ordered, AllRead, OnDetected PROVE PanelAfter
<1>1. /\ tui \in App /\ tui' \in App /\ events # <<>> /\ events' = Tail(events) /\ Panel
      /\ session' = session /\ hist' = hist
  BY PanelApp DEF Panel
<1>2. /\ Len(events) \in Nat \ {0} /\ Len(events') = Len(events) - 1 /\ 1 \in DOMAIN events
      /\ DOMAIN events = 1..Len(events) /\ DOMAIN events' = 1..Len(events')
      /\ Head(events) = events[1]
      /\ \A i \in DOMAIN events' : i \in Nat \ {0} /\ i + 1 \in DOMAIN events /\ events'[i] = events[i + 1]
  BY <1>1, TailOf
<1>3. events[1].ev = "detected"
  BY <1>2 DEF OnDetected, Handle
<1>4. 1 < Len(events) /\ (events[2].ev = "failed" \/ (IsList(2) /\ events[2].of = events[1].of))
  BY <1>2, <1>3 DEF Channel
<1>5. 1 \in DOMAIN events' /\ events' # <<>> /\ events'[1] = events[2] /\ Head(events') = events'[1]
  BY <1>1, <1>2, <1>4
<1>6. ~Current'
  BY <1>4, <1>5 DEF Current, IsList
<1>7. (tui'.ignore /\ tui'.key = None) \/ (~tui'.ignore /\ tui'.key = events[1].of)
  <2>1. CASE tui.ignore
    BY <1>1, <2>1, AppFields DEF OnDetected, Channel
  <2>2. CASE ~tui.ignore
    <3>1. tui' = [tui EXCEPT !.key = events[1].of, !.up = TRUE]
      BY <1>2, <2>2 DEF OnDetected
    <3> QED BY <1>1, <2>2, <3>1 DEF App
  <2> QED BY <2>1, <2>2
<1>8. events'[1].ev = "tracks" => tui'.key \in {None, events'[1].of}
  BY <1>4, <1>5, <1>7
<1>9. AllRead'
  <2>1. CASE session = None
    BY <1>1, <2>1 DEF AllRead
  <2>2. CASE session # None
    <3>1. PICK i \in DOMAIN events : Latest(i)
      BY <1>2, <1>3, <2>2 DEF AllRead
    <3>2. i # 1
      BY <1>3, <3>1 DEF Latest, IsList
    <3> QED BY <1>1, <2>2, <3>1, <3>2, TailLatest
  <2> QED BY <2>1, <2>2
<1> QED BY <1>6, <1>7, <1>8, <1>9 DEF PanelAfter

LEMMA FailedStep == ASSUME TypeOK, [Next]_vars, Channel, Ordered, AllRead, OnFailed PROVE PanelAfter
<1>1. /\ tui \in App /\ events # <<>> /\ events' = Tail(events) /\ Panel
      /\ session' = session /\ hist' = hist
  BY PanelApp DEF Panel
<1>2. /\ 1 \in DOMAIN events /\ Head(events) = events[1]
      /\ \A i \in DOMAIN events' : i \in Nat \ {0} /\ i + 1 \in DOMAIN events /\ events'[i] = events[i + 1]
  BY <1>1, TailOf
<1>3. events[1].ev = "failed"
  BY <1>2 DEF OnFailed, Handle
<1>4. tui'.key = None
  BY <1>1 DEF OnFailed, App
<1>5. ~Current'
  BY <1>4 DEF Current
<1>6. AllRead'
  <2>1. CASE session = None
    BY <1>1, <2>1 DEF AllRead
  <2>2. ASSUME session # None, NEW i \in DOMAIN events, Latest(i) PROVE AllRead'
    <3>1. i # 1
      BY <1>3, <2>2 DEF Latest, IsList
    <3> QED BY <1>1, <2>2, <3>1, TailLatest
  <2>3. ASSUME \A i \in DOMAIN events : events[i].ev \notin {"detected", "tracks"} PROVE AllRead'
    <3>1. \A i \in DOMAIN events' : events'[i].ev \notin {"detected", "tracks"}
      BY <1>2, <2>3
    <3> QED BY <1>4, <3>1 DEF AllRead
  <2> QED BY <2>1, <2>2, <2>3 DEF AllRead
<1> QED BY <1>4, <1>5, <1>6 DEF PanelAfter

\* A list is read, or the library comes.
LEMMA ReadStep ==
    ASSUME TypeOK, [Next]_vars, Channel, Ordered, AllRead, OnTracks \/ OnLibrary,
           \A L \in Lists, d \in Device :
             /\ Readable(L, d)
             /\ (OnTracks \/ OnLibrary) /\ (ReadsList \/ ReadsRows) /\ tui'.key = d => Before(tui'.rows, L)
             => Readable(L, d)'
    PROVE  PanelAfter
<1>1. /\ tui \in App /\ tui' \in App /\ events # <<>> /\ events' = Tail(events) /\ Panel
      /\ session' = session /\ hist' = hist
  BY PanelApp DEF Panel
<1>2. /\ Len(events) \in Nat \ {0} /\ Len(events') = Len(events) - 1 /\ 1 \in DOMAIN events
      /\ DOMAIN events = 1..Len(events) /\ DOMAIN events' = 1..Len(events')
      /\ Head(events) = events[1]
      /\ \A i \in DOMAIN events' : i \in Nat \ {0} /\ i + 1 \in DOMAIN events /\ events'[i] = events[i + 1]
  BY <1>1, TailOf
<1>3. (OnTracks /\ events[1].ev = "tracks") \/ (OnLibrary /\ events[1].ev = "library")
  BY <1>2 DEF OnTracks, OnLibrary, Handle
<1>4. tui'.key = tui.key /\ tui'.ignore = tui.ignore /\ (tui.ignore => tui.key = None) /\ tui # None
  BY <1>1, PanelReads, AppFields DEF Channel
<1>5. events' # <<>> => events'[1].ev # "tracks"
  <2> SUFFICES ASSUME events' # <<>>, events'[1].ev = "tracks" PROVE FALSE
    OBVIOUS
  <2>1. 1 \in DOMAIN events'
    <3>1. events' \in Seq(Notice)
      BY TypeStep DEF TypeOK
    <3> QED BY <1>2, <3>1
  <2>2. 2 \in DOMAIN events /\ IsList(2)
    BY <1>2, <2>1 DEF IsList
  <2>3. events[1].ev = "detected"
    BY <2>2 DEF Channel
  <2> QED BY <1>3, <2>3
\* The list of the panel, if it is of the device of the panel, is one that may be read.
<1>6. ASSUME tui'.key # None, tui'.rows # None
      PROVE  /\ tui'.key \in Device /\ tui'.rows \in Lists /\ Readable(tui'.rows, tui'.key)
             /\ \A j \in DOMAIN events : j # 1 /\ IsList(j) /\ events[j].of = tui'.key =>
                  Before(tui'.rows, events[j].rows)
             /\ OnTracks => tui'.rows = events[1].rows /\ tui'.key = events[1].of
  <2>1. tui'.key \in Device /\ tui'.rows \in Lists
    BY <1>1, <1>6, AppFields
  <2>2. CASE OnTracks
    <3>1. events[1].ev = "tracks" /\ ~tui.ignore /\ IsList(1)
      BY <1>2, <1>4, <1>6, <2>2 DEF OnTracks, Handle, IsList
    <3>2. tui'.rows = events[1].rows /\ tui'.key = events[1].of
      BY <1>2, <1>4, <1>6, <2>2, <3>1, PanelReads DEF Channel
    <3>3. \A j \in DOMAIN events : j # 1 => 1 < j
      BY <1>2
    <3> QED BY <1>2, <2>1, <3>1, <3>2, <3>3 DEF Ordered
  <2>3. CASE OnLibrary /\ ~OnTracks
    <3>1. tui'.rows = tui.rows /\ Current
      BY <1>1, <1>2, <1>3, <1>4, <1>6, <2>3, PanelReads DEF Current
    <3> QED BY <1>4, <2>1, <2>3, <3>1 DEF Ordered
  <2> QED BY <2>2, <2>3
<1>7. ASSUME Current'
      PROVE  /\ Readable(tui.rows, tui.key)'
             /\ \A j \in DOMAIN events' :
                  IsList(j)' /\ events'[j].of = tui'.key => Before(tui'.rows, events'[j].rows)
  <2>1. tui'.key # None /\ tui'.rows # None
    BY <1>7 DEF Current
  <2>2. PICK L \in Lists, d \in Device : L = tui'.rows /\ d = tui'.key
    BY <1>6, <2>1
  <2>3. Readable(L, d) /\ Before(tui'.rows, L)
    BY <1>6, <2>1, <2>2, BeforeAll
  <2>4. Readable(L, d)'
    BY <2>3
  <2>5. Readable(tui.rows, tui.key)'
    BY <2>2, <2>4 DEF Readable
  <2>6. ASSUME NEW j \in DOMAIN events', IsList(j)', events'[j].of = tui'.key
        PROVE  Before(tui'.rows, events'[j].rows)
    <3>1. j + 1 \in DOMAIN events /\ j + 1 # 1 /\ events'[j] = events[j + 1]
      BY <1>2
    <3> QED BY <1>6, <2>1, <2>6, <3>1 DEF IsList
  <2> QED BY <2>5, <2>6
\* A list of the panel that is the last is read as far as the library goes.
<1>8. ASSUME tui'.key # None, tui'.rows # None, tui'.lib, tui'.key = session,
             tui'.rows.real = hist.plays[session]
      PROVE  \A t \in Copied : tui'.plays[t].took[session] = hist.plays[session][t]
  <2> SUFFICES ASSUME NEW t \in Copied PROVE tui'.plays[t].took[session] = hist.plays[session][t]
    OBVIOUS
  <2>1. t \in Track /\ tui.plays[t] \in Entry
    <3>1. tui.plays \in Plays
      BY <1>1, AppFields
    <3> QED BY <3>1, LedgerAssumption DEF Plays
  <2>2. ~tui.ignore
    BY <1>4, <1>8
  <2>3. /\ tui'.key \in Device /\ tui'.rows \in Lists
        /\ tui'.plays[t] = merge_device_observation(tui.plays[t], tui'.key, tui'.rows.of[t], tui'.rows.real[t])
    BY <1>8, <2>1, <2>2, PanelReads
  <2> DEFINE o == tui'.rows.of[t]
             r == tui'.rows.real[t]
             g == tui'.key
  <2>4. o \in Nat /\ r \in Nat /\ g \in Device
    BY <2>1, <2>3 DEF Lists
  <2>5. tui'.plays[t] = merge_device_observation(tui.plays[t], g, o, r)
    BY <2>3
  <2>6. r = hist.plays[session][t] /\ g = session
    BY <1>8
  <2> HIDE DEF o, r, g
  <2>7. Observed(tui.plays[t], tui'.plays[t], g, o, r)
    BY <2>1, <2>4, <2>5, ObservedEntry
  <2>8. tui'.plays[t].took = [tui.plays[t].took EXCEPT ![g] = r]
    BY <2>7 DEF Observed
  <2>9. tui.plays[t].took \in [Device -> Nat]
    BY <2>1, EntryFields
  <2> QED BY <2>4, <2>6, <2>8, <2>9
<1>9. AllRead'
  <2>1. CASE session = None
    BY <1>1, <2>1 DEF AllRead
  <2>2. ASSUME NEW i \in DOMAIN events, Latest(i), i # 1, session # None PROVE AllRead'
    BY <1>1, <2>2, TailLatest
  <2>3. ASSUME session # None, \A i \in DOMAIN events' : events'[i].ev \notin {"detected", "tracks"},
               tui'.key # None => /\ tui'.key = session
                                  /\ tui'.rows # None => tui'.rows.real = hist.plays[session]
        PROVE  AllRead'
    BY <1>1, <1>8, <2>3 DEF AllRead
  <2>4. ASSUME session # None, Latest(1) PROVE AllRead'
    <3>1. \A i \in DOMAIN events' : events'[i].ev \notin {"detected", "tracks"}
      <4>1. \A i \in DOMAIN events' : i + 1 > 1 /\ i + 1 \in DOMAIN events /\ events'[i] = events[i + 1]
        BY <1>2
      <4> QED BY <2>4, <4>1 DEF Latest
    <3>2. OnTracks
      BY <1>3, <2>4 DEF Latest, IsList
    <3>3. tui'.key # None => tui'.key = session
      BY <1>2, <1>4, <2>4 DEF Channel, Latest
    <3>4. tui'.key # None /\ tui'.rows # None => tui'.rows.real = hist.plays[session]
      BY <1>6, <2>4, <3>2 DEF Latest
    <3> QED BY <2>3, <2>4, <3>1, <3>3, <3>4
  <2>5. ASSUME session # None, \A i \in DOMAIN events : events[i].ev \notin {"detected", "tracks"},
               tui.key # None => /\ tui.key = session
                                 /\ tui.rows # None => tui.rows.real = hist.plays[session]
        PROVE  AllRead'
    <3>1. \A i \in DOMAIN events' : events'[i].ev \notin {"detected", "tracks"}
      BY <1>2, <2>5
    <3>2. OnLibrary
      BY <1>2, <1>3, <2>5
    <3>3. tui'.rows = tui.rows
      BY <3>2, PanelReads
    <3> QED BY <1>4, <2>3, <2>5, <3>1, <3>3
  <2> QED BY <2>1, <2>2, <2>4, <2>5 DEF AllRead
<1> QED BY <1>4, <1>5, <1>7, <1>9 DEF PanelAfter

LEMMA MisreadStays == ASSUME TypeOK, [Next]_vars PROVE hist.misread => hist'.misread
<1>1. \/ hist' = hist \/ hist' = [hist EXCEPT !.misread = TRUE]
      \/ \E X : hist' = [hist EXCEPT !.plays = X] \/ hist' = [hist EXCEPT !.wiped = X]
  <2>1. CASE \E d \in Device : ResetDevice(d) \/ (\E t \in Copied : PlayOnDevice(d, t))
    BY <2>1 DEF ResetDevice, PlayOnDevice
  <2>2. CASE Tui \/ Worker \/ UNCHANGED vars
    BY <2>2 DEF vars, Tui, StartTui, EndTui, PlayHere, Press,
                Worker, Connect, Disconnect, LoadLibrary, DeviceGone, Take
  <2>3. CASE Panel
    BY <2>3, PanelApp
  <2>4. CASE Client \/ Net \/ Serving \/ Tick
    BY <2>4 DEF Client, Threshold, TogglePause, PlaybackTick, QueueCompleted, PlayOnPhone, TrackCompleted, Net, Refused, GiveUp, Lost, Answer,
                Serving, StartServe, StopServe, WindowOver, Admit, Record, Tick
  <2> QED BY <2>1, <2>2, <2>3, <2>4 DEF Next
<1> QED BY <1>1 DEF TypeOK

\* The channel, the order and what was read, together.
LEMMA PanelStep == ASSUME TypeOK, PanelInv, [Next]_vars PROVE PanelInv'
<1> SUFFICES ASSUME ~hist'.misread PROVE Channel' /\ Ordered' /\ AllRead'
  BY DEF PanelInv
<1>1. Channel /\ Ordered /\ AllRead
  BY MisreadStays DEF PanelInv
<1>2. \A d \in Device : Readable(Now(d), d)'
  BY <1>1, NowReadable
<1>3. \A c \in Copies', t \in Track, d \in Device \ hist'.wiped : c[t].seen[d] = c[t].took[d]
  BY <1>1, CopiesWhole
<1> DEFINE Lists1 == \A i \in DOMAIN events : IsList(i) => Readable(events[i].rows, events[i].of)
           Lists2 == \A i, j \in DOMAIN events : i < j /\ IsList(i) /\ IsList(j) /\ events[i].of = events[j].of
                       => Before(events[i].rows, events[j].rows)
           Panel1 == Current => /\ Readable(tui.rows, tui.key)
                                /\ \A j \in DOMAIN events :
                                     IsList(j) /\ events[j].of = tui.key => Before(tui.rows, events[j].rows)
<1>4. ASSUME Lists1', Lists2', Panel1' PROVE Ordered'
  BY <1>2, <1>3, <1>4 DEF Ordered
<1>5. CASE Panel
  <2>1. \A L \in Lists, d \in Device :
          /\ Readable(L, d)
          /\ (OnTracks \/ OnLibrary) /\ (ReadsList \/ ReadsRows) /\ tui'.key = d => Before(tui'.rows, L)
          => Readable(L, d)'
    BY <1>1, ListReadable
  <2>2. PanelAfter
    BY <1>1, <1>5, <2>1, DetectedStep, FailedStep, ReadStep DEF Panel
  <2>3. /\ \A i \in DOMAIN events' : events'[i].ev = "detected" =>
             i < Len(events') /\ (events'[i + 1].ev = "failed"
                                  \/ (IsList(i + 1)' /\ events'[i + 1].of = events'[i].of))
        /\ \A i \in DOMAIN events' : IsList(i)' =>
             IF i = 1 THEN Head(events).ev = "detected" /\ Head(events).of = events'[1].of
                      ELSE events'[i - 1].ev = "detected" /\ events'[i - 1].of = events'[i].of
    BY <1>1, <1>5, <2>1, TailStep
  <2>4. Lists1' /\ Lists2'
    BY <1>1, <1>5, <2>1, TailStep
  <2>5. \A i \in DOMAIN events' : IsList(i)' /\ i = 1 => tui'.key \in {None, events'[1].of}
    <3>1. events' \in Seq(Notice)
      BY TypeStep DEF TypeOK
    <3>2. 1 \in DOMAIN events' => events' # <<>>
      BY <3>1
    <3> QED BY <2>2, <3>2 DEF PanelAfter, IsList
  <2>6. Channel'
    BY <2>2, <2>3, <2>5 DEF Channel, PanelAfter
  <2>7. Panel1' /\ AllRead'
    BY <2>2 DEF PanelAfter
  <2> QED BY <1>4, <2>4, <2>6, <2>7
<1>6. CASE ~Panel
  <2>1. \A L \in Lists, d \in Device : Readable(L, d) => Readable(L, d)'
    <3>1. ~(OnTracks \/ OnLibrary)
      BY <1>6 DEF Panel
    <3> QED BY <1>1, <3>1, ListReadable
  <2>2. CASE EndTui
    <3>1. Channel' /\ AllRead' /\ Lists1' /\ Lists2' /\ ~Current'
      BY <2>2, EndStep
    <3>2. Panel1'
      BY <3>1
    <3> QED BY <1>4, <3>1, <3>2
  <2>3. ASSUME PanelKept, session' \in {session, None}, NEW es \in Seq(Notice), Emit(es), Plain(es)
        PROVE  Channel' /\ Ordered' /\ AllRead'
    <3>1. Channel' /\ AllRead' /\ Lists1' /\ Lists2' /\ Panel1'
      BY <1>1, <1>2, <2>1, <2>3, PlainStep
    <3> QED BY <1>4, <3>1
  <2>4. ASSUME NEW d \in Device, NEW n \in Notice, PanelKept, Emit(<<Event("detected", d), n>>),
               \/ n = Listing(d) /\ session' = d /\ UNCHANGED <<counter, hist>>
               \/ n.ev = "failed" /\ session' = None
        PROVE  Channel' /\ Ordered' /\ AllRead'
    <3>1. Channel' /\ AllRead' /\ Lists1' /\ Lists2' /\ Panel1'
      BY <1>1, <1>2, <2>1, <2>4, OpenStep
    <3> QED BY <1>4, <3>1
  <2> QED BY <1>6, <2>2, <2>3, <2>4, QuietSteps
<1> QED BY <1>5, <1>6

LEMMA PanelInit == Init => PanelInv
<1> SUFFICES ASSUME Init PROVE Channel /\ Ordered /\ AllRead
  BY DEF PanelInv
<1>1. /\ disk = [t \in Track |-> NoPlays] /\ tui = None /\ serve = None /\ events = <<>> /\ session = None
      /\ counter = [d \in Device |-> [t \in Track |-> 0]] /\ hist.plays = counter
  BY DEF Init
<1>2. DOMAIN events = {}
  BY <1>1
<1>3. Copies = {disk}
  BY <1>1 DEF Copies
<1>4. \A d \in Device, t \in Track : Now(d).of[t] = 0 /\ Now(d).real[t] = 0
                                     /\ disk[t].seen[d] = 0 /\ disk[t].took[d] = 0
  BY <1>1 DEF Now, NoPlays, Zero
<1>5. \A d \in Device : Readable(Now(d), d)
  BY <1>3, <1>4 DEF Readable, Before, Behind
<1>6. Ordered
  BY <1>1, <1>2, <1>3, <1>4, <1>5 DEF Ordered, Current
<1>7. Channel /\ AllRead
  BY <1>1, <1>2 DEF Channel, AllRead
<1> QED BY <1>6, <1>7

-----------------------------------------------------------------------------
(* The counts. *)

\* No count is of more than what was counted and taken, but for doubtful listens, and
\* none misses what was taken of a device that was not reset.
Right(e) ==
    /\ IsFiniteSet(e.own)
    /\ ~hist.misread =>
         /\ e.own \cap reported.doubt = {} => e.n <= Cardinality(e.own) + Took(e, Device)
         /\ e.n >= Cardinality(e.own) + Took(e, Device \ hist.wiped)

RightInv  == \A c \in Copies, t \in Track : Right(c[t])
LedgerInv == ReportsInv /\ PanelInv /\ RightInv

LEMMA RightSame ==
    ASSUME TypeOK, [Next]_vars, NEW e \in Entry, Right(e)
    PROVE  Right(e)'
<1>1. hist.wiped \subseteq Device /\ hist'.wiped \subseteq Device /\ hist.wiped \subseteq hist'.wiped
  <2>1. hist.wiped \subseteq Device /\ hist'.wiped \subseteq Device
    BY TypeStep DEF TypeOK
  <2>2. ASSUME NEW d \in hist.wiped PROVE d \in hist'.wiped
    <3>1. d \in Device
      BY <2>1
    <3> QED BY <3>1, NowStep
  <2> QED BY <2>1, <2>2
<1>2. Device \ hist'.wiped \in SUBSET (Device \ hist.wiped) /\ Device \ hist.wiped \in SUBSET Device
  BY <1>1
<1>3. Took(e, Device \ hist'.wiped) <= Took(e, Device \ hist.wiped)
  BY <1>2, TookFewer
<1>4. /\ Took(e, Device \ hist'.wiped) \in Nat /\ Took(e, Device \ hist.wiped) \in Nat
      /\ e.n \in Nat /\ Cardinality(e.own) \in Nat
  BY <1>2, TakenFinite, EntryFields, FS_CardinalityType DEF Right
<1>5. e.own \cap reported'.doubt = {} => e.own \cap reported.doubt = {}
  BY DoubtGrows
<1>6. ~hist'.misread => ~hist.misread
  BY MisreadStays
<1>7. ASSUME ~hist'.misread PROVE e.n >= Cardinality(e.own) + Took(e, Device \ hist'.wiped)
  <2>1. e.n >= Cardinality(e.own) + Took(e, Device \ hist.wiped)
    BY <1>6, <1>7 DEF Right
  <2> QED BY <1>3, <1>4, <2>1
<1>8. ASSUME ~hist'.misread, e.own \cap reported'.doubt = {}
      PROVE  e.n <= Cardinality(e.own) + Took(e, Device)
  BY <1>5, <1>6, <1>8 DEF Right
<1> QED BY <1>7, <1>8 DEF Right

\* A play more.
LEMMA RightPlayed ==
    ASSUME TypeOK, [Next]_vars, NEW e \in Entry, NEW f \in Entry, NEW id \in Int, Right(e), Played(e, f, id),
           id \in reported'.doubt \/ id \notin e.own
    PROVE  Right(f)'
<1>1. Right(e)'
  BY RightSame
<1>2. hist'.wiped \subseteq Device
  BY TypeStep DEF TypeOK
<1>3. f.n = e.n + 1 /\ f.own = e.own \cup {id} /\ f.took = e.took /\ e.n \in Nat
  BY EntryFields DEF Played
<1>4. Took(f, Device) = Took(e, Device) /\ Took(f, Device \ hist'.wiped) = Took(e, Device \ hist'.wiped)
  BY <1>3, TookOfTaken
<1>5. Took(e, Device) \in Nat /\ Took(e, Device \ hist'.wiped) \in Nat
  BY TakenFinite
<1>6. /\ IsFiniteSet(e.own) /\ IsFiniteSet(f.own) /\ Cardinality(e.own) \in Nat
      /\ Cardinality(f.own) = IF id \in e.own THEN Cardinality(e.own) ELSE Cardinality(e.own) + 1
  BY <1>3, FS_AddElement, FS_CardinalityType DEF Right
<1>7. ASSUME ~hist'.misread, f.own \cap reported'.doubt = {}
      PROVE  f.n <= Cardinality(f.own) + Took(f, Device)
  <2>1. e.own \cap reported'.doubt = {} /\ id \notin e.own
    BY <1>3, <1>7
  <2>2. e.n <= Cardinality(e.own) + Took(e, Device)
    BY <1>1, <1>7, <2>1 DEF Right
  <2> QED BY <1>3, <1>4, <1>5, <1>6, <2>1, <2>2
<1>8. ASSUME ~hist'.misread PROVE f.n >= Cardinality(f.own) + Took(f, Device \ hist'.wiped)
  <2>1. e.n >= Cardinality(e.own) + Took(e, Device \ hist'.wiped)
    BY <1>1, <1>8 DEF Right
  <2> QED BY <1>3, <1>4, <1>5, <1>6, <2>1
<1> QED BY <1>6, <1>7, <1>8 DEF Right

\* A reading takes what the device played since the last, once.
LEMMA RightObserved ==
    ASSUME TypeOK, [Next]_vars, NEW e \in Entry, NEW f \in Entry, Right(e), NEW d \in Device,
           NEW o \in Nat, NEW r \in Nat, Observed(e, f, d, o, r),
           ~hist'.misread => Behind(e.seen[d], e.took[d], o, r),
           ~hist'.misread /\ d \notin hist'.wiped => e.seen[d] = e.took[d] /\ o = r
    PROVE  Right(f)'
<1>1. Right(e)'
  BY RightSame
<1>2. /\ f.n = e.n + Beyond(o, e.seen[d]) /\ f.own = e.own /\ f.took = [e.took EXCEPT ![d] = r]
      /\ e.n \in Nat /\ e.seen[d] \in Nat /\ e.took[d] \in Nat
  BY EntryFields DEF Observed
<1>3. IsFiniteSet(f.own) /\ Cardinality(f.own) = Cardinality(e.own) /\ Cardinality(e.own) \in Nat
  BY <1>2, FS_CardinalityType DEF Right
<1>4. SUFFICES ASSUME ~hist'.misread
      PROVE  /\ f.own \cap reported'.doubt = {} => f.n <= Cardinality(f.own) + Took(f, Device)
             /\ f.n >= Cardinality(f.own) + Took(f, Device \ hist'.wiped)
  BY <1>3 DEF Right
<1>5. e.took[d] <= r /\ o - e.seen[d] <= r - e.took[d]
  BY <1>4 DEF Behind
<1>6. Device \in SUBSET Device /\ Device \ hist'.wiped \in SUBSET Device
  OBVIOUS
<1>7. /\ Took(f, Device) = Took(e, Device) + (r - e.took[d])
      /\ Took(f, Device \ hist'.wiped) =
           Took(e, Device \ hist'.wiped) + (IF d \in Device \ hist'.wiped THEN r - e.took[d] ELSE 0)
  BY <1>2, <1>5, <1>6, TookMore
<1>8. Took(e, Device) \in Nat /\ Took(e, Device \ hist'.wiped) \in Nat
  BY <1>6, TakenFinite
<1>9. ASSUME f.own \cap reported'.doubt = {} PROVE f.n <= Cardinality(f.own) + Took(f, Device)
  <2>1. e.n <= Cardinality(e.own) + Took(e, Device)
    BY <1>1, <1>2, <1>4, <1>9 DEF Right
  <2> QED BY <1>2, <1>3, <1>5, <1>7, <1>8, <2>1 DEF Beyond
<1>10. f.n >= Cardinality(f.own) + Took(f, Device \ hist'.wiped)
  <2>1. e.n >= Cardinality(e.own) + Took(e, Device \ hist'.wiped)
    BY <1>1, <1>4 DEF Right
  <2>2. CASE d \in hist'.wiped
    BY <1>2, <1>3, <1>7, <1>8, <2>1, <2>2 DEF Beyond
  <2>3. CASE d \notin hist'.wiped
    <3>1. e.seen[d] = e.took[d] /\ o = r
      BY <1>4, <2>3
    <3> QED BY <1>2, <1>3, <1>5, <1>7, <1>8, <2>1, <2>3, <3>1 DEF Beyond
  <2> QED BY <2>2, <2>3
<1> QED BY <1>9, <1>10

LEMMA RightStep == ASSUME LedgerInv, [Next]_vars PROVE RightInv'
<1>1. TypeOK /\ Fresh /\ OneTrack /\ Undoubted /\ PanelInv
  BY DEF LedgerInv, ReportsInv
<1> SUFFICES ASSUME NEW c \in Copies', NEW t \in Track PROVE Right(c[t])'
  BY DEF RightInv
<1>2. PICK b \in Copies :
        \/ c[t] = b[t]
        \/ (\E u \in Track : PlayHere(u)) /\ Played(b[t], c[t], -left["tui"])
        \/ \E p \in posts : Record(p) /\ p.track = t /\ Played(b[t], c[t], p.listen)
        \/ /\ ReadsList \/ ReadsRows
           /\ tui'.key \in Device /\ tui'.rows \in Lists
           /\ Observed(b[t], c[t], tui'.key, tui'.rows.of[t], tui'.rows.real[t])
  BY <1>1, EntryStep
<1>3. b[t] \in Entry /\ Right(b[t])
  BY <1>1, CopiesPlays DEF LedgerInv, RightInv
<1>4. c[t] \in Entry
  <2>1. TypeOK'
    BY <1>1, TypeStep
  <2>2. c \in Plays
    BY <2>1, AppFields, ServerFields DEF Copies, TypeOK
  <2> QED BY <2>2 DEF Plays
<1>5. PICK e \in Entry, f \in Entry : e = b[t] /\ f = c[t]
  BY <1>3, <1>4
<1>6. CASE c[t] = b[t]
  <2>1. Right(e)'
    BY <1>1, <1>3, <1>5, RightSame
  <2> QED BY <1>5, <1>6, <2>1
<1>7. CASE (\E u \in Track : PlayHere(u)) /\ Played(b[t], c[t], -left["tui"])
  <2>1. left["tui"] \in Nat \ {0}
    <3>1. Acts("tui")
      BY <1>7 DEF PlayHere
    <3> QED BY <1>1, <3>1, ActsTypes
  <2>2. PICK id \in Int : id = -left["tui"]
    BY <2>1
  <2>3. id \notin b[t].own
    <3> SUFFICES ASSUME id \in b[t].own PROVE FALSE
      OBVIOUS
    <3>1. IF id > 0 THEN id > left["phone"] ELSE -id > left["tui"]
      BY <1>1 DEF Fresh
    <3> QED BY <2>1, <2>2, <3>1
  <2>4. Right(f)'
    BY <1>1, <1>3, <1>5, <1>7, <2>2, <2>3, RightPlayed
  <2> QED BY <1>5, <2>4
<1>8. ASSUME NEW p \in posts, Record(p), Played(b[t], c[t], p.listen) PROVE Right(c[t])'
  <2>1. p.listen \in Nat \ {0} /\ p.at = "admitted"
    BY <1>1, <1>8, ReportFields DEF Record, TypeOK
  <2>2. PICK id \in Int : id = p.listen
    BY <2>1
  <2>3. id \in reported'.doubt \/ id \notin b[t].own
    <3> SUFFICES ASSUME id \notin reported'.doubt, id \in b[t].own PROVE FALSE
      OBVIOUS
    <3>1. id \notin reported.doubt
      BY <1>1, DoubtGrows
    <3>2. Once(id)
      BY <1>1, <2>1, <2>2, <3>1 DEF Undoubted
    <3>3. Admitted(id) /\ Counts(id)
      BY <2>1, <2>2 DEF Admitted, Counts
    <3> QED BY <3>2, <3>3 DEF Once, OnceAdmitted
  <2>4. Right(f)'
    BY <1>1, <1>3, <1>5, <1>8, <2>2, <2>3, RightPlayed
  <2> QED BY <1>5, <2>4
<1>9. CASE /\ ReadsList \/ ReadsRows
           /\ tui'.key \in Device /\ tui'.rows \in Lists
           /\ Observed(b[t], c[t], tui'.key, tui'.rows.of[t], tui'.rows.real[t])
  <2>1. PICK d \in Device, L \in Lists : d = tui'.key /\ L = tui'.rows
    BY <1>9
  <2>2. PICK o \in Nat, r \in Nat : o = L.of[t] /\ r = L.real[t]
    <3>1. L.of[t] \in Nat /\ L.real[t] \in Nat
      BY DEF Lists
    <3> QED BY <3>1
  <2>3. Observed(e, f, d, o, r)
    BY <1>5, <1>9, <2>1, <2>2
  <2>4. ASSUME ~hist'.misread
        PROVE  /\ Behind(e.seen[d], e.took[d], o, r)
               /\ d \notin hist'.wiped => e.seen[d] = e.took[d] /\ o = r
    <3>1. Channel /\ Ordered
      BY <1>1, <2>4, MisreadStays DEF PanelInv
    <3>2. Readable(L, d)
      BY <1>1, <1>9, <2>1, <3>1, Reading DEF ReadsList, ReadsRows
    <3>3. Behind(e.seen[d], e.took[d], o, r)
      BY <1>5, <2>2, <3>2 DEF Readable
    <3>4. d \notin hist'.wiped => d \notin hist.wiped
      BY <1>1, NowStep
    <3>5. d \notin hist'.wiped => e.seen[d] = e.took[d]
      BY <1>5, <3>1, <3>4 DEF Ordered
    <3> QED BY <2>2, <3>2, <3>3, <3>4, <3>5 DEF Readable
  <2>5. Right(f)'
    BY <1>1, <1>3, <1>5, <2>3, <2>4, RightObserved
  <2> QED BY <1>5, <2>5
<1> QED BY <1>2, <1>6, <1>7, <1>8, <1>9

LEMMA LedgerInit == Init => LedgerInv
<1> SUFFICES ASSUME Init PROVE LedgerInv
  OBVIOUS
<1>1. tui = None /\ serve = None /\ disk = [t \in Track |-> NoPlays]
  BY DEF Init
<1>2. Copies = {disk}
  BY <1>1 DEF Copies
<1>3. Right(NoPlays)
  <2>1. NoPlays.n = 0 /\ NoPlays.own = {} /\ NoPlays.took = Zero
    BY DEF NoPlays
  <2>2. \A D \in SUBSET Device : Took(NoPlays, D) = 0
    <3> SUFFICES ASSUME NEW D \in SUBSET Device PROVE Took(NoPlays, D) = 0
      OBVIOUS
    <3>1. \A d \in D : NoPlays.took[d] = 0
      BY <2>1 DEF Zero
    <3>2. \A d \in D : 1..NoPlays.took[d] = {}
      BY <3>1
    <3>3. Taken(NoPlays, D) = {}
      BY <3>2 DEF Taken
    <3> QED BY <3>3, FS_EmptySet DEF Took
  <2>3. IsFiniteSet({}) /\ Cardinality({}) = 0
    BY FS_EmptySet
  <2> QED BY <2>1, <2>2, <2>3 DEF Right
<1>4. RightInv
  BY <1>1, <1>2, <1>3 DEF RightInv
<1> QED BY <1>4, ReportsInit, PanelInit DEF LedgerInv

LEMMA LedgerStep == ASSUME LedgerInv, [Next]_vars PROVE LedgerInv'
<1>1. TypeOK /\ ReportsInv /\ PanelInv
  BY DEF LedgerInv, ReportsInv
<1>2. ReportsInv' /\ PanelInv' /\ RightInv'
  BY <1>1, ReportsStep, PanelStep, RightStep
<1> QED BY <1>2 DEF LedgerInv

\* The inductive invariant of the ledger: one report of a listen at a time, lists in
\* order, and what every entry counts.
THEOREM LedgerInvariant == Spec => []LedgerInv
<1>1. Init => LedgerInv
  BY LedgerInit
<1>2. LedgerInv /\ [Next]_vars => LedgerInv'
  BY LedgerStep
<1> QED BY <1>1, <1>2, PTL DEF Spec

\* In the file and in both memories no play is counted twice, whoever overwrote whom,
\* in whatever order devices, lists and the library came and went, and however often
\* a listen was reported (CountedOnce says what is excepted).
THEOREM PlaysCountedOnce == Spec => []CountedOnce
<1>1. LedgerInv => CountedOnce
  BY DEF LedgerInv, RightInv, Right, CountedOnce
<1> QED BY <1>1, LedgerInvariant, PTL

\* What was played on a device and read of it is in every copy, and with the library
\* and the list there the TUI has read all of it.
THEOREM DevicePlaysAreKept == Spec => []DevicePlaysKept
<1>1. LedgerInv => DevicePlaysKept
  <2> SUFFICES ASSUME LedgerInv, ~hist.misread
               PROVE  /\ \A c \in Copies, t \in Track :
                           c[t].n >= Cardinality(c[t].own) + Took(c[t], Device \ hist.wiped)
                      /\ tui # None /\ events = <<>> =>
                           (tui.lib /\ tui.rows # None /\ tui.key # None /\ tui.key = session
                            => \A t \in Copied : tui.plays[t].took[session] = hist.plays[session][t])
    BY DEF DevicePlaysKept
  <2>1. \A c \in Copies, t \in Track : c[t].n >= Cardinality(c[t].own) + Took(c[t], Device \ hist.wiped)
    BY DEF LedgerInv, RightInv, Right
  <2>2. ASSUME events = <<>>, tui.lib, tui.rows # None, tui.key # None, tui.key = session
        PROVE  \A t \in Copied : tui.plays[t].took[session] = hist.plays[session][t]
    <3>1. DOMAIN events = {}
      BY <2>2
    <3> QED BY <2>2, <3>1 DEF LedgerInv, PanelInv, AllRead
  <2> QED BY <2>1, <2>2
<1> QED BY <1>1, LedgerInvariant, PTL

-----------------------------------------------------------------------------
(***************************************************************************)
(* Module StemHub, the other half of the streaming server that keeps a     *)
(* state, for every library and any number of clients and jobs.            *)
(***************************************************************************)

(* The inductive invariant: the properties and that the slot holds a job    *)
(* that was started.                                                        *)

SlotStarted == current # NoJob => stage[current] # "none"

HubInv == HubTypeOK /\ SlotStarted /\ OnlyCurrentWanted /\ SeparatingIsAlive

LEMMA HubInitInv == HubInit => HubInv
BY HubAssumption DEF HubInit, HubInv, HubTypeOK, SlotStarted, OnlyCurrentWanted, SeparatingIsAlive,
   Stage, Live, NoJob

\* The handlers that only look leave every job as it is.
Looks ==
    \/ \E c \in HttpClient, t \in HubTrack : PostMiss(c, t)
    \/ \E c \in HttpClient : PostJoin(c) \/ PostLook(c)
    \/ \E t \in HubTrack : OtherProcess(t)

LEMMA LookInv == HubInv /\ Looks => HubInv'
<1> SUFFICES ASSUME HubInv, Looks PROVE HubInv'
  OBVIOUS
<1> USE DEF Looks
<1> DEFINE P == {NoPost} \cup [step : {"missed", "looked"}, track : HubTrack]
<1>1. UNCHANGED <<current, track, cancels, cancelled, failed, stage, work>>
  BY DEF PostMiss, PostJoin, PostLook, OtherProcess, hub
<1>2. cache' \subseteq HubTrack
  BY DEF PostMiss, PostJoin, PostLook, OtherProcess, HubInv, HubTypeOK
<1>3. post' \in [HttpClient -> P]
  <2>1. ASSUME NEW c \in HttpClient, NEW t \in HubTrack, PostMiss(c, t) PROVE post' \in [HttpClient -> P]
    BY <2>1 DEF PostMiss, Posted, HubInv, HubTypeOK
  <2>2. ASSUME NEW c \in HttpClient, PostJoin(c) PROVE post' \in [HttpClient -> P]
    BY <2>2 DEF PostJoin, HubInv, HubTypeOK
  <2>3. ASSUME NEW t \in HubTrack, OtherProcess(t) PROVE post' \in [HttpClient -> P]
    BY <2>3 DEF OtherProcess, hub, HubInv, HubTypeOK
  <2>4. ASSUME NEW c \in HttpClient, PostLook(c) PROVE post' \in [HttpClient -> P]
    <3>1. post[c].step = "missed" /\ post[c] \in P
      BY <2>4 DEF PostLook, HubInv, HubTypeOK
    <3>2. post[c].track \in HubTrack
      BY <3>1 DEF NoPost
    <3> QED BY <2>4, <3>2 DEF PostLook, Posted, HubInv, HubTypeOK
  <2> QED BY <2>1, <2>2, <2>3, <2>4
<1> QED BY <1>1, <1>2, <1>3 DEF HubInv, HubTypeOK, SlotStarted, OnlyCurrentWanted,
        SeparatingIsAlive, Live

LEMMA CancelInv == ASSUME NEW t \in HubTrack PROVE HubInv /\ Cancel(t) => HubInv'
<1> SUFFICES ASSUME HubInv, Cancel(t) PROVE HubInv'
  OBVIOUS
<1>1. UNCHANGED <<post, current, track, failed, stage, cache, work>>
  BY DEF Cancel
<1>2. cancelled \subseteq cancelled' /\ cancelled' \subseteq JobId /\ cancels' \in 0..MaxCancels
  BY HubAssumption DEF Cancel, HubInv, HubTypeOK
<1> QED BY <1>1, <1>2 DEF HubInv, HubTypeOK, SlotStarted, OnlyCurrentWanted, SeparatingIsAlive, Live

LEMMA StartInv == ASSUME NEW c \in HttpClient PROVE HubInv /\ PostStart(c) => HubInv'
<1> SUFFICES ASSUME HubInv, PostStart(c) PROVE HubInv'
  OBVIOUS
<1>1. PICK j \in JobId :
         /\ stage[j] = "none"
         /\ cancelled' = IF current = NoJob THEN cancelled ELSE cancelled \cup {current}
         /\ current' = j
         /\ track' = [track EXCEPT ![j] = post[c].track]
         /\ stage' = [stage EXCEPT ![j] = "begin"]
  BY DEF PostStart, Supersede
<1>2. post[c].track \in HubTrack
  <2>1. /\ post[c].step = "looked"
        /\ post[c] \in {NoPost} \cup [step : {"missed", "looked"}, track : HubTrack]
    BY DEF PostStart, HubInv, HubTypeOK
  <2> QED BY <2>1 DEF NoPost
<1>3. HubTypeOK'
  BY <1>1, <1>2 DEF PostStart, HubInv, HubTypeOK, Stage
<1>4. stage'[j] = "begin" /\ \A k \in JobId : k # j => stage'[k] = stage[k]
  BY <1>1 DEF HubInv, HubTypeOK
<1>5. OnlyCurrentWanted'
  <2> SUFFICES ASSUME NEW k \in JobId, Live(k)', k # j PROVE k \in cancelled'
    BY <1>1 DEF OnlyCurrentWanted
  <2>1. Live(k)
    BY <1>4 DEF Live
  <2>2. k # NoJob
    BY DEF JobId, NoJob
  <2> QED BY <1>1, <2>1, <2>2 DEF HubInv, OnlyCurrentWanted
<1>6. SlotStarted' /\ SeparatingIsAlive'
  BY <1>1, <1>4 DEF SlotStarted, SeparatingIsAlive, Live
<1> QED BY <1>3, <1>5, <1>6 DEF HubInv

\* A thread that goes on does not touch the slot, and stays alive.
LEMMA WorkInv ==
    ASSUME NEW j \in JobId
    PROVE  HubInv /\ (\/ FoundCached(j) \/ StartEngine(j) \/ EngineOk(j) \/ EngineCancelled(j)
                  \/ JobFails(j) \/ Store(j) \/ RemoveWork(j)) => HubInv'
<1> SUFFICES ASSUME HubInv,
                    \/ FoundCached(j) \/ StartEngine(j) \/ EngineOk(j) \/ EngineCancelled(j)
                    \/ JobFails(j) \/ Store(j) \/ RemoveWork(j)
             PROVE  HubInv'
  OBVIOUS
<1>1. /\ UNCHANGED hub /\ cancelled' = cancelled
      /\ Live(j)
      /\ failed \subseteq failed' /\ failed' \subseteq JobId
      /\ work' \in {work, [work EXCEPT ![track[j]] = j], [work EXCEPT ![track[j]] = NoJob]}
  BY DEF FoundCached, StartEngine, EngineOk, EngineCancelled, JobFails, Store, RemoveWork,
         Goto, At, Live, HubInv, HubTypeOK
<1>2. cache' \subseteq HubTrack
  BY DEF FoundCached, StartEngine, EngineOk, EngineCancelled, JobFails, Store, RemoveWork,
         HubInv, HubTypeOK
<1>3. PICK s \in Stage \ {"none", "done"} : stage' = [stage EXCEPT ![j] = s]
  BY DEF FoundCached, StartEngine, EngineOk, EngineCancelled, JobFails, Store, RemoveWork,
         Goto, Stage
<1>4. HubTypeOK'
  BY <1>1, <1>2, <1>3 DEF HubInv, HubTypeOK, hub
<1>5. \A k \in JobId : Live(k)' <=> Live(k)
  BY <1>1, <1>3 DEF Live, HubInv, HubTypeOK
<1>6. SlotStarted' /\ OnlyCurrentWanted' /\ SeparatingIsAlive'
  BY <1>1, <1>3, <1>5 DEF HubInv, HubTypeOK, SlotStarted, OnlyCurrentWanted, SeparatingIsAlive, hub
<1> QED BY <1>4, <1>6 DEF HubInv

LEMMA ClearInv == ASSUME NEW j \in JobId PROVE HubInv /\ ClearJobIf(j) => HubInv'
<1> SUFFICES ASSUME HubInv, ClearJobIf(j) PROVE HubInv'
  OBVIOUS
<1>1. /\ stage[j] = "clear" /\ stage' = [stage EXCEPT ![j] = "done"]
      /\ current' = IF current = j /\ j \notin failed THEN NoJob ELSE current
      /\ UNCHANGED <<post, track, cancels, cancelled, failed, cache, work>>
  BY DEF ClearJobIf, Clears, At
<1>2. HubTypeOK'
  BY <1>1 DEF HubInv, HubTypeOK, Stage
<1>3. stage'[j] = "done" /\ \A k \in JobId : k # j => stage'[k] = stage[k]
  BY <1>1 DEF HubInv, HubTypeOK
<1>4. SlotStarted'
  BY <1>1, <1>3 DEF HubInv, HubTypeOK, SlotStarted
<1>5. OnlyCurrentWanted'
  BY <1>1, <1>3 DEF HubInv, OnlyCurrentWanted, Live
<1>6. SeparatingIsAlive'
  BY <1>1, <1>3 DEF HubInv, HubTypeOK, SeparatingIsAlive, Live
<1> QED BY <1>2, <1>4, <1>5, <1>6 DEF HubInv

LEMMA HubNextInv == HubInv /\ [HubNext]_hubVars => HubInv'
<1> SUFFICES ASSUME HubInv, [HubNext]_hubVars PROVE HubInv'
  OBVIOUS
<1>1. CASE Looks
  BY <1>1, LookInv
<1>2. ASSUME NEW c \in HttpClient, PostStart(c) PROVE HubInv'
  BY <1>2, StartInv
<1>3. ASSUME NEW t \in HubTrack, Cancel(t) PROVE HubInv'
  BY <1>3, CancelInv
<1>4. ASSUME NEW j \in JobId, JobNext(j) PROVE HubInv'
  BY <1>4, WorkInv, ClearInv DEF JobNext
<1>5. CASE UNCHANGED hubVars
  BY <1>5 DEF hubVars, hub, HubInv, HubTypeOK, SlotStarted, OnlyCurrentWanted, SeparatingIsAlive, Live
<1> QED BY <1>1, <1>2, <1>3, <1>4, <1>5 DEF HubNext, Looks

\* Every variable of the hub keeps its type.
THEOREM HubTypes == HubSpec => []HubTypeOK
<1>1. HubInv => HubTypeOK
  BY DEF HubInv
<1> QED BY <1>1, HubInitInv, HubNextInv, PTL DEF HubSpec

\* However POSTs and DELETEs race, every thread but the one in the slot has been
\* told to stop: supersede and clear_job_if never leave two splits running.
THEOREM OneSplitWanted == HubSpec => []OnlyCurrentWanted
<1>1. HubInv => OnlyCurrentWanted
  BY DEF HubInv
<1> QED BY <1>1, HubInitInv, HubNextInv, PTL DEF HubSpec

\* GET reports "separating" only of a job whose thread still runs: clear_job_if
\* empties the slot, or the error is there.
THEOREM SeparatingIsTrue == HubSpec => []SeparatingIsAlive
<1>1. HubInv => SeparatingIsAlive
  BY DEF HubInv
<1> QED BY <1>1, HubInitInv, HubNextInv, PTL DEF HubSpec

=============================================================================
