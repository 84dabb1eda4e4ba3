---------------------------- MODULE Player_proofs ---------------------------
(***************************************************************************)
(* Theorems about Player, for every library, every set of lists, any place *)
(* of the threshold and any number of keys, splits and faults.             *)
(***************************************************************************)
EXTENDS Player, SequenceTheorems, TLAPS

-----------------------------------------------------------------------------
(* The inductive invariant.  A panel and an audio thread that have not heard *)
(* each other out differ by what is under way: the last command that decides *)
(* a matter says what the thread will come to, and where there is none the   *)
(* thread has come to it, or an event that says it has not is on its way.    *)

\* The command at i is the last word in q on what the operations S decide.
LastWord(q, i, S) ==
    /\ i \in DOMAIN q /\ q[i].op \in S
    /\ \A k \in DOMAIN q : k > i => q[k].op \notin S

Silent(q, S) == \A i \in DOMAIN q : q[i].op \notin S

Reports(S) == \E i \in DOMAIN evs : evs[i].op \in S

\* What waits in the App is a swap, of the track that is shown.
PendingIsSwap ==
    /\ pending # << >> => at = "bg"
    /\ \A i \in DOMAIN pending : /\ pending[i].op = "SwapSource"
                                 /\ Shown /\ pending[i].track = Row

\* Stems are of the row, and so are those a separation will come back with.
StemsOfRow ==
    /\ stems.status = "Active" => Shown /\ stems.for_path = Row
    /\ \A j \in jobs : /\ j.gen <= stems.job_gen
                       /\ stems.status = "Separating" /\ j.gen = stems.job_gen =>
                              j.track = stems.for_path

DeadIsSilent == ~alive => player = None

\* Which track.
TrackRight ==
    Shown /\ alive =>
        /\ \A i \in DOMAIN cmds : LastWord(cmds, i, {"Play", "Stop"}) =>
               cmds[i].op = "Play" /\ cmds[i].track = Row
        /\ \A i \in DOMAIN cmds :
               /\ cmds[i].op = "SwapSource"
               /\ \A k \in DOMAIN cmds : k > i => cmds[k].op \notin {"Play", "Stop"}
               => cmds[i].track = Row
        /\ \A i \in DOMAIN cmds : cmds[i].op = "Stop" =>
               \E k \in DOMAIN cmds : k > i /\ cmds[k].op = "Play"
        /\ Silent(cmds, {"Play", "Stop"}) =>
               \/ player # None /\ current # None /\ current.track = Row
               \/ Reports({"PlaybackError"})

\* Playing, or paused.
Switches == {"Play", "Stop", "Pause", "Resume"}

StateRight ==
    Shown /\ alive =>
        /\ \A i \in DOMAIN cmds : LastWord(cmds, i, Switches) =>
               cmds[i].op # "Stop" /\ (cmds[i].op = "Pause" <=> now_playing.state = "Paused")
        /\ Silent(cmds, Switches) =>
               \/ playing <=> now_playing.state = "Playing"
               \/ Reports({"TrackEnded", "PlaybackError"})

\* File, or stems.
Denied == \E i \in DOMAIN evs : \/ evs[i].op = "PlaybackError"
                                \/ evs[i].op = "SwapFailed" /\ evs[i].to_stems

StemsRight ==
    stems.status = "Active" /\ alive =>
        /\ pending # << >> => pending[Len(pending)].to = "stems"
        /\ pending = << >> =>
               /\ \A i \in DOMAIN cmds : LastWord(cmds, i, {"Play", "SwapSource"}) =>
                      cmds[i].op = "SwapSource" /\ cmds[i].to = "stems" /\ cmds[i].track = Row
               /\ Silent(cmds, {"Play", "SwapSource"}) =>
                      \/ current = [track |-> Row, how |-> "stems"]
                      \/ Denied

\* The thread's own clock may fall behind its source, never run ahead of it.
ClockBehind == player # None => player >= clock

HeardRight ==
    Shown /\ ~Behind /\ player # None /\ player >= play_threshold => heard

\* An event that counts a play: of a listen that earned it, or of an earlier one, or
\* after an error that takes the panel away first.
Counts(e) == e.op = "TrackEnded" \/ (e.op = "Position" /\ e.elapsed >= play_threshold)

EvsHonest ==
    Shown => \A i \in DOMAIN evs :
                 Counts(evs[i]) /\ ~evs[i].old =>
                     heard \/ \E k \in 1..(i - 1) : evs[k].op = "PlaybackError"

Agree == /\ PendingIsSwap /\ StemsOfRow /\ DeadIsSilent
         /\ TrackRight /\ StateRight /\ StemsRight
         /\ ClockBehind /\ HeardRight /\ EvsHonest

Inv == TypeOK /\ Agree /\ PlaysHonest

-----------------------------------------------------------------------------
(* Records. *)

LEMMA NoneIsNone ==
    /\ \A p \in Panel : p # None
    /\ \A n \in Place : n # None
    /\ \A s \in Source : s # None
    /\ \A t \in Track : t # None
BY PlayerAssumption

LEMMA Bounds ==
    /\ play_threshold \in Nat /\ End \in Nat /\ 0 < play_threshold /\ play_threshold < End
    /\ Three \in Nat /\ MaxKeys \in Nat /\ MaxSplits \in Nat /\ MaxFaults \in Nat
BY PlayerAssumption

LEMMA ClampType == ASSUME NEW n \in Int PROVE Clamp(n) \in Place
BY Bounds DEF Clamp, Place

LEMMA CommandFields ==
    ASSUME NEW c \in Command
    PROVE  /\ c.op = "Play" => c.track \in Track
           /\ c.op = "Scrub" => c.delta \in Int
           /\ c.op = "SwapSource" => c.track \in Track /\ c.to \in {"file", "stems"}
BY DEF Command

LEMMA CommandIntro ==
    /\ \A t \in Track : [op |-> "Play", track |-> t] \in Command
    /\ \A d \in Int : [op |-> "Scrub", delta |-> d] \in Command
    /\ \A w \in {"file", "stems"}, t \in Track :
           [op |-> "SwapSource", to |-> w, track |-> t] \in Command
    /\ \A o \in {"Stop", "Pause", "Resume", "QueryPosition"} : [op |-> o] \in Command
BY DEF Command

LEMMA EventFields ==
    ASSUME NEW e \in AudioEvent
    PROVE  /\ e.old \in BOOLEAN
           /\ e.op = "Position" => e.elapsed \in Place
           /\ e.op = "SwapFailed" => e.to_stems \in BOOLEAN
BY DEF AudioEvent

\* Whatever its age, an event says the same.
LEMMA EventAges ==
    ASSUME NEW e \in AudioEvent, NEW b \in BOOLEAN
    PROVE  LET f == [e EXCEPT !.old = b] IN
           /\ f \in AudioEvent /\ f.op = e.op /\ f.old = b
           /\ e.op = "Position" => f.elapsed = e.elapsed
           /\ e.op = "SwapFailed" => f.to_stems = e.to_stems
<1>1. CASE e \in [op : {"TrackEnded", "PlaybackError", "SeekFailed"}, old : BOOLEAN]
  BY <1>1 DEF AudioEvent
<1>2. CASE e \in [op : {"Position"}, elapsed : Place, old : BOOLEAN]
  BY <1>2 DEF AudioEvent
<1>3. CASE e \in [op : {"SwapFailed"}, to_stems : BOOLEAN, old : BOOLEAN]
  BY <1>3 DEF AudioEvent
<1> QED BY <1>1, <1>2, <1>3 DEF AudioEvent

LEMMA EventIntro ==
    ASSUME NEW b \in BOOLEAN
    PROVE  /\ \A o \in {"TrackEnded", "PlaybackError", "SeekFailed"} :
                  [op |-> o, old |-> b] \in AudioEvent
           /\ \A n \in Place : [op |-> "Position", elapsed |-> n, old |-> b] \in AudioEvent
           /\ \A w \in BOOLEAN : [op |-> "SwapFailed", to_stems |-> w, old |-> b] \in AudioEvent
BY DEF AudioEvent

LEMMA AgedType ==
    ASSUME NEW q \in Seq(AudioEvent)
    PROVE  /\ Aged(q) \in Seq(AudioEvent)
           /\ \A i \in DOMAIN Aged(q) : Aged(q)[i].old = TRUE
<1>1. DOMAIN q = 1..Len(q) /\ Len(q) \in Nat /\ \A i \in DOMAIN q : q[i] \in AudioEvent
  OBVIOUS
<1>2. \A i \in DOMAIN q : /\ [q[i] EXCEPT !.old = TRUE] \in AudioEvent
                          /\ [q[i] EXCEPT !.old = TRUE].old = TRUE
  BY <1>1, EventAges
<1> DEFINE F(i) == [q[i] EXCEPT !.old = TRUE]
<1>3. Aged(q) = [i \in 1..Len(q) |-> F(i)]
  BY <1>1 DEF Aged
<1>4. \A i \in 1..Len(q) : F(i) \in AudioEvent /\ F(i).old = TRUE
  BY <1>1, <1>2
<1> HIDE DEF F
<1> QED BY <1>1, <1>3, <1>4

-----------------------------------------------------------------------------
(* Queues. *)

LEMMA AppendWord ==
    ASSUME NEW T, NEW q \in Seq(T), NEW c \in T
    PROVE  /\ Append(q, c) \in Seq(T)
           /\ DOMAIN Append(q, c) = DOMAIN q \cup {Len(q) + 1}
           /\ Append(q, c)[Len(q) + 1] = c
           /\ \A i \in DOMAIN q : Append(q, c)[i] = q[i] /\ i < Len(q) + 1
BY AppendProperties

\* The last word is the newest command, when that one decides.
LEMMA NewWord ==
    ASSUME NEW T, NEW q \in Seq(T), NEW c \in T, NEW S, c.op \in S
    PROVE  /\ ~Silent(Append(q, c), S)
           /\ \A i : LastWord(Append(q, c), i, S) => i = Len(q) + 1
<1>1. Len(q) \in Nat /\ DOMAIN q = 1..Len(q)
  OBVIOUS
<1> DEFINE a == Append(q, c)
<1>2. /\ DOMAIN a = DOMAIN q \cup {Len(q) + 1} /\ a[Len(q) + 1] = c
      /\ \A i \in DOMAIN q : i < Len(q) + 1
  BY AppendWord
<1> HIDE DEF a
<1>3. ~Silent(a, S)
  BY <1>2 DEF Silent
<1>4. ASSUME NEW i, LastWord(a, i, S) PROVE i = Len(q) + 1
  BY <1>2, <1>4 DEF LastWord
<1> QED BY <1>3, <1>4 DEF a

\* Another command changes nothing.
LEMMA SameWord ==
    ASSUME NEW T, NEW q \in Seq(T), NEW c \in T, NEW S, c.op \notin S
    PROVE  /\ Silent(Append(q, c), S) => Silent(q, S)
           /\ \A i : LastWord(Append(q, c), i, S) =>
                  LastWord(q, i, S) /\ Append(q, c)[i] = q[i]
<1> DEFINE a == Append(q, c)
<1>1. /\ DOMAIN a = DOMAIN q \cup {Len(q) + 1} /\ a[Len(q) + 1] = c
      /\ \A i \in DOMAIN q : a[i] = q[i]
  BY AppendWord
<1> HIDE DEF a
<1>2. Silent(a, S) => Silent(q, S)
  BY <1>1 DEF Silent
<1>3. ASSUME NEW i, LastWord(a, i, S) PROVE LastWord(q, i, S) /\ a[i] = q[i]
  BY <1>1, <1>3 DEF LastWord
<1> QED BY <1>2, <1>3 DEF a

\* Taking the first command.
LEMMA TailWord ==
    ASSUME NEW T, NEW q \in Seq(T), q # << >>
    PROVE  /\ Tail(q) \in Seq(T) /\ Head(q) = q[1] /\ 1 \in DOMAIN q /\ Head(q) \in T
           /\ \A i \in DOMAIN Tail(q) : i + 1 \in DOMAIN q /\ Tail(q)[i] = q[i + 1]
           /\ \A i \in DOMAIN q : i = 1 \/ (i - 1 \in DOMAIN Tail(q) /\ Tail(q)[i - 1] = q[i])
           /\ \A i \in DOMAIN Tail(q) : i \in Nat /\ i >= 1
           /\ \A i \in DOMAIN q : i \in Nat /\ i >= 1
BY HeadTailProperties

LEMMA LateWord ==
    ASSUME NEW T, NEW q \in Seq(T), q # << >>, NEW S
    PROVE  /\ \A i : LastWord(Tail(q), i, S) => LastWord(q, i + 1, S) /\ Tail(q)[i] = q[i + 1]
           /\ Silent(Tail(q), S) => \/ Head(q).op \in S /\ LastWord(q, 1, S)
                                    \/ Head(q).op \notin S /\ Silent(q, S)
<1> DEFINE t == Tail(q)
<1>1. /\ Head(q) = q[1] /\ 1 \in DOMAIN q
      /\ \A i \in DOMAIN t : i + 1 \in DOMAIN q /\ t[i] = q[i + 1]
      /\ \A i \in DOMAIN q : i = 1 \/ (i - 1 \in DOMAIN t /\ t[i - 1] = q[i])
      /\ \A i \in DOMAIN t : i \in Nat /\ i >= 1
      /\ \A i \in DOMAIN q : i \in Nat /\ i >= 1
  BY TailWord
<1> HIDE DEF t
<1>2. ASSUME NEW i, LastWord(t, i, S) PROVE LastWord(q, i + 1, S) /\ t[i] = q[i + 1]
  <2>1. i \in DOMAIN t /\ t[i].op \in S /\ \A k \in DOMAIN t : k > i => t[k].op \notin S
    BY <1>2 DEF LastWord
  <2>2. i + 1 \in DOMAIN q /\ q[i + 1].op \in S /\ t[i] = q[i + 1] /\ i \in Nat
    BY <1>1, <2>1
  <2>3. ASSUME NEW k \in DOMAIN q, k > i + 1 PROVE q[k].op \notin S
    <3>1. k # 1 /\ k \in Nat /\ k - 1 > i
      BY <1>1, <2>2, <2>3
    <3>2. k - 1 \in DOMAIN t /\ t[k - 1] = q[k]
      BY <1>1, <3>1
    <3> QED BY <2>1, <3>1, <3>2
  <2> QED BY <2>2, <2>3 DEF LastWord
<1>3. ASSUME Silent(t, S) PROVE \A k \in DOMAIN q : k > 1 => q[k].op \notin S
  <2> SUFFICES ASSUME NEW k \in DOMAIN q, k > 1 PROVE q[k].op \notin S
    OBVIOUS
  <2>1. k - 1 \in DOMAIN t /\ t[k - 1] = q[k]
    BY <1>1
  <2> QED BY <1>3, <2>1 DEF Silent
<1>4. ASSUME Silent(t, S) PROVE \/ Head(q).op \in S /\ LastWord(q, 1, S)
                                \/ Head(q).op \notin S /\ Silent(q, S)
  <2>1. CASE q[1].op \in S
    BY <1>1, <1>3, <1>4, <2>1 DEF LastWord
  <2>2. CASE q[1].op \notin S
    <3>1. \A k \in DOMAIN q : k = 1 \/ k > 1
      BY <1>1
    <3> QED BY <1>1, <1>3, <1>4, <2>2, <3>1 DEF Silent
  <2> QED BY <2>1, <2>2
<1> QED BY <1>2, <1>4 DEF t

-----------------------------------------------------------------------------
(* How the three agreements between panel and thread fare with a command sent *)
(* that does not decide them, and with one taken.                             *)

LEMMA TakenWord ==
    ASSUME cmds \in Seq(Command), cmds # << >>, cmds' = Tail(cmds), NEW S
    PROVE  /\ \A i : LastWord(cmds', i, S) => LastWord(cmds, i + 1, S) /\ cmds'[i] = cmds[i + 1]
           /\ Silent(cmds', S) => \/ Head(cmds).op \in S /\ LastWord(cmds, 1, S)
                                  \/ Head(cmds).op \notin S /\ Silent(cmds, S)
           /\ Head(cmds) = cmds[1]
<1> DEFINE t == Tail(cmds)
<1>1. \A i : LastWord(t, i, S) => LastWord(cmds, i + 1, S) /\ t[i] = cmds[i + 1]
  BY LateWord
<1>2. Silent(t, S) => \/ Head(cmds).op \in S /\ LastWord(cmds, 1, S)
                      \/ Head(cmds).op \notin S /\ Silent(cmds, S)
  BY LateWord
<1>3. Head(cmds) = cmds[1]
  BY TailWord
<1>4. cmds' = t
  OBVIOUS
<1> HIDE DEF t
<1> QED BY <1>1, <1>2, <1>3, <1>4

Kept(S) == Reports(S) => Reports(S)'

LEMMA TrackSent ==
    ASSUME TypeOK, TrackRight, alive' = alive, Shown' => Shown /\ Row' = Row,
           \/ cmds' = cmds
           \/ \E c \in Command : /\ c.op \notin {"Play", "Stop", "SwapSource"}
                                 /\ cmds' = Append(cmds, c),
           player # None => player' # None, current' = current,
           Kept({"PlaybackError"})
    PROVE  TrackRight'
<1> SUFFICES ASSUME Shown', alive' PROVE TrackRight'
  BY DEF TrackRight
<1> DEFINE S == {"Play", "Stop"}
<1>1. /\ Shown /\ alive /\ Row' = Row /\ cmds \in Seq(Command)
      /\ \A i \in DOMAIN cmds : i \in Nat /\ i < Len(cmds) + 1
  BY DEF TypeOK
<1>2. /\ \A i \in DOMAIN cmds : LastWord(cmds, i, S) => cmds[i].op = "Play" /\ cmds[i].track = Row
      /\ \A i \in DOMAIN cmds :
             /\ cmds[i].op = "SwapSource" /\ \A k \in DOMAIN cmds : k > i => cmds[k].op \notin S
             => cmds[i].track = Row
      /\ \A i \in DOMAIN cmds : cmds[i].op = "Stop" =>
             \E k \in DOMAIN cmds : k > i /\ cmds[k].op = "Play"
      /\ Silent(cmds, S) => \/ player # None /\ current # None /\ current.track = Row
                            \/ Reports({"PlaybackError"})
  BY <1>1 DEF TrackRight
<1>3. CASE cmds' = cmds
  BY <1>1, <1>2, <1>3 DEF TrackRight, Kept, LastWord, Silent
<1>4. ASSUME NEW c \in Command, c.op \notin {"Play", "Stop", "SwapSource"},
             cmds' = Append(cmds, c)
      PROVE  TrackRight'
  <2>1. /\ DOMAIN cmds' = DOMAIN cmds \cup {Len(cmds) + 1} /\ cmds'[Len(cmds) + 1] = c
        /\ \A i \in DOMAIN cmds : cmds'[i] = cmds[i]
    BY <1>1, <1>4, AppendWord
  <2>2. /\ Silent(cmds', S) => Silent(cmds, S)
        /\ \A i : LastWord(cmds', i, S) => LastWord(cmds, i, S) /\ cmds'[i] = cmds[i]
    <3>1. c.op \notin S
      BY <1>4
    <3> HIDE DEF S
    <3> QED BY <1>1, <1>4, <3>1, SameWord, ZenonT(30)
  <2>3. \A i \in DOMAIN cmds' : LastWord(cmds', i, S) => cmds'[i].op = "Play" /\ cmds'[i].track = Row'
    <3> HIDE DEF S
    <3> QED BY <1>1, <1>2, <2>2 DEF LastWord
  <2>4. ASSUME NEW i \in DOMAIN cmds', cmds'[i].op = "SwapSource",
               \A k \in DOMAIN cmds' : k > i => cmds'[k].op \notin S
        PROVE  cmds'[i].track = Row'
    <3>1. i \in DOMAIN cmds /\ cmds'[i] = cmds[i]
      BY <1>4, <2>1, <2>4
    <3>2. \A k \in DOMAIN cmds : k > i => cmds[k].op \notin S
      BY <2>1, <2>4
    <3> QED BY <1>1, <1>2, <2>4, <3>1, <3>2
  <2>5. Silent(cmds', S) => \/ player' # None /\ current' # None /\ current'.track = Row'
                            \/ Reports({"PlaybackError"})'
    BY <1>1, <1>2, <2>2 DEF Kept
  <2>6. \A i \in DOMAIN cmds' : cmds'[i].op = "Stop" =>
             \E k \in DOMAIN cmds' : k > i /\ cmds'[k].op = "Play"
    BY <1>2, <1>4, <2>1
  <2> QED BY <2>3, <2>4, <2>5, <2>6 DEF TrackRight
<1> QED BY <1>3, <1>4

LEMMA TrackTaken ==
    ASSUME TypeOK, TrackRight, alive' = alive, now_playing' = now_playing,
           cmds # << >>, cmds' = Tail(cmds),
           Shown /\ alive /\ (\/ Head(cmds).op = "Play" /\ Head(cmds).track = Row
                              \/ Head(cmds).op = "SwapSource" /\ Head(cmds).track = Row
                                 /\ Silent(cmds, {"Play", "Stop"})
                              \/ Head(cmds).op \notin {"Play", "Stop", "SwapSource"}
                                 /\ Silent(cmds, {"Play", "Stop"})) =>
               \/ player' # None /\ current' # None /\ current'.track = Row
               \/ Reports({"PlaybackError"})'
    PROVE  TrackRight'
<1> SUFFICES ASSUME Shown', alive' PROVE TrackRight'
  BY DEF TrackRight
<1> DEFINE S == {"Play", "Stop"}
<1>1. Shown /\ alive /\ Row' = Row /\ cmds \in Seq(Command)
  BY DEF TypeOK, Shown, Row
<1>2. /\ \A i \in DOMAIN cmds : LastWord(cmds, i, S) => cmds[i].op = "Play" /\ cmds[i].track = Row
      /\ \A i \in DOMAIN cmds :
             /\ cmds[i].op = "SwapSource" /\ \A k \in DOMAIN cmds : k > i => cmds[k].op \notin S
             => cmds[i].track = Row
      /\ \A i \in DOMAIN cmds : cmds[i].op = "Stop" =>
             \E k \in DOMAIN cmds : k > i /\ cmds[k].op = "Play"
  BY <1>1 DEF TrackRight
<1>3. /\ Head(cmds) = cmds[1] /\ 1 \in DOMAIN cmds
      /\ \A i \in DOMAIN cmds' : i + 1 \in DOMAIN cmds /\ cmds'[i] = cmds[i + 1]
      /\ \A i \in DOMAIN cmds : i = 1 \/ (i - 1 \in DOMAIN cmds' /\ cmds'[i - 1] = cmds[i])
      /\ \A i \in DOMAIN cmds' : i \in Nat /\ i >= 1
      /\ \A i \in DOMAIN cmds : i \in Nat /\ i >= 1
  BY <1>1, TailWord
<1>4. /\ \A i : LastWord(cmds', i, S) => LastWord(cmds, i + 1, S) /\ cmds'[i] = cmds[i + 1]
      /\ Silent(cmds', S) => \/ Head(cmds).op \in S /\ LastWord(cmds, 1, S)
                             \/ Head(cmds).op \notin S /\ Silent(cmds, S)
  <2> HIDE DEF S
  <2> QED BY <1>1, TakenWord
<1>5. \A i \in DOMAIN cmds' : LastWord(cmds', i, S) => cmds'[i].op = "Play" /\ cmds'[i].track = Row'
  <2> HIDE DEF S
  <2> QED BY <1>1, <1>2, <1>3, <1>4
<1>6. ASSUME NEW i \in DOMAIN cmds', cmds'[i].op = "SwapSource",
             \A k \in DOMAIN cmds' : k > i => cmds'[k].op \notin S
      PROVE  cmds'[i].track = Row'
  <2>1. i + 1 \in DOMAIN cmds /\ cmds'[i] = cmds[i + 1] /\ i \in Nat
    BY <1>3
  <2>2. ASSUME NEW k \in DOMAIN cmds, k > i + 1 PROVE cmds[k].op \notin S
    <3>1. k # 1 /\ k - 1 > i /\ k \in Nat
      BY <1>3, <2>1, <2>2
    <3>2. k - 1 \in DOMAIN cmds' /\ cmds'[k - 1] = cmds[k]
      BY <1>3, <3>1
    <3> QED BY <1>6, <3>1, <3>2
  <2> QED BY <1>1, <1>2, <1>6, <2>1, <2>2
<1>7. ASSUME Silent(cmds', S)
      PROVE  \/ player' # None /\ current' # None /\ current'.track = Row'
             \/ Reports({"PlaybackError"})'
  <2>1. CASE LastWord(cmds, 1, S)
    BY <1>1, <1>2, <1>3, <2>1
  <2>2. CASE Head(cmds).op \notin S /\ Silent(cmds, S)
    <3>1. Head(cmds).op = "SwapSource" => Head(cmds).track = Row
      BY <1>2, <1>3, <2>2 DEF Silent
    <3> QED BY <1>1, <2>2, <3>1
  <2> QED BY <1>4, <1>7, <2>1, <2>2
<1>8. ASSUME NEW i \in DOMAIN cmds', cmds'[i].op = "Stop"
      PROVE  \E k \in DOMAIN cmds' : k > i /\ cmds'[k].op = "Play"
  <2>1. i + 1 \in DOMAIN cmds /\ cmds'[i] = cmds[i + 1] /\ i \in Nat /\ i >= 1
    BY <1>3
  <2>2. PICK k \in DOMAIN cmds : k > i + 1 /\ cmds[k].op = "Play"
    BY <1>2, <1>8, <2>1
  <2>3. k \in Nat /\ k # 1 /\ k - 1 > i
    BY <1>3, <2>1, <2>2
  <2>4. k - 1 \in DOMAIN cmds' /\ cmds'[k - 1] = cmds[k]
    BY <1>3, <2>3
  <2> QED BY <2>2, <2>3, <2>4
<1> QED BY <1>5, <1>6, <1>7, <1>8 DEF TrackRight

LEMMA StateSent ==
    ASSUME TypeOK, StateRight, alive' = alive,
           Shown' => Shown /\ now_playing'.state = now_playing.state,
           \/ cmds' = cmds
           \/ \E c \in Command : c.op \notin Switches /\ cmds' = Append(cmds, c),
           playing' = playing,
           Kept({"TrackEnded", "PlaybackError"})
    PROVE  StateRight'
<1> SUFFICES ASSUME Shown', alive' PROVE StateRight'
  BY DEF StateRight
<1>1. Shown /\ alive /\ cmds \in Seq(Command)
  BY DEF TypeOK
<1>2. /\ Silent(cmds', Switches) => Silent(cmds, Switches)
      /\ \A i : LastWord(cmds', i, Switches) => LastWord(cmds, i, Switches) /\ cmds'[i] = cmds[i]
  <2>1. CASE cmds' = cmds
    BY <2>1
  <2>2. ASSUME NEW c \in Command, c.op \notin Switches, cmds' = Append(cmds, c)
        PROVE  /\ Silent(cmds', Switches) => Silent(cmds, Switches)
               /\ \A i : LastWord(cmds', i, Switches) =>
                      LastWord(cmds, i, Switches) /\ cmds'[i] = cmds[i]
    BY <1>1, <2>2, SameWord, ZenonT(30)
  <2> QED BY <2>1, <2>2
<1>3. \A i : LastWord(cmds, i, Switches) =>
               cmds[i].op # "Stop" /\ (cmds[i].op = "Pause" <=> now_playing.state = "Paused")
  BY <1>1 DEF StateRight, LastWord
<1> QED BY <1>1, <1>2, <1>3 DEF StateRight, Kept

LEMMA StateTaken ==
    ASSUME TypeOK, StateRight, alive' = alive, now_playing' = now_playing,
           cmds # << >>, cmds' = Tail(cmds),
           Shown /\ alive /\ (\/ Head(cmds).op \in {"Play", "Resume"} /\ now_playing.state = "Playing"
                              \/ Head(cmds).op = "Pause" /\ now_playing.state = "Paused"
                              \/ Head(cmds).op \notin Switches /\ Silent(cmds, Switches)) =>
               \/ playing' <=> now_playing.state = "Playing"
               \/ Reports({"TrackEnded", "PlaybackError"})'
    PROVE  StateRight'
<1> SUFFICES ASSUME Shown', alive' PROVE StateRight'
  BY DEF StateRight
<1>1. Shown /\ alive /\ cmds \in Seq(Command) /\ now_playing.state \in {"Playing", "Paused"}
  BY DEF TypeOK, Shown, Panel
<1>2. /\ \A i : LastWord(cmds', i, Switches) =>
                   LastWord(cmds, i + 1, Switches) /\ cmds'[i] = cmds[i + 1]
      /\ Silent(cmds', Switches) => \/ Head(cmds).op \in Switches /\ LastWord(cmds, 1, Switches)
                                    \/ Head(cmds).op \notin Switches /\ Silent(cmds, Switches)
      /\ Head(cmds) = cmds[1]
  BY <1>1, TakenWord
<1>3. \A i : LastWord(cmds, i, Switches) =>
               cmds[i].op # "Stop" /\ (cmds[i].op = "Pause" <=> now_playing.state = "Paused")
  BY <1>1 DEF StateRight, LastWord
<1>4. \A i : LastWord(cmds', i, Switches) =>
               cmds'[i].op # "Stop" /\ (cmds'[i].op = "Pause" <=> now_playing'.state = "Paused")
  BY <1>2, <1>3, ZenonT(30)
<1>5. ASSUME Silent(cmds', Switches)
      PROVE  \/ playing' <=> now_playing'.state = "Playing"
             \/ Reports({"TrackEnded", "PlaybackError"})'
  <2>1. CASE Head(cmds).op \in Switches /\ LastWord(cmds, 1, Switches)
    BY <1>1, <1>2, <1>3, <2>1 DEF Switches
  <2>2. CASE Head(cmds).op \notin Switches /\ Silent(cmds, Switches)
    BY <1>1, <2>2
  <2> QED BY <1>2, <1>5, <2>1, <2>2
<1> QED BY <1>4, <1>5 DEF StateRight

LEMMA StemsSent ==
    ASSUME TypeOK, StemsRight, alive' = alive,
           stems'.status = "Active" => stems.status = "Active" /\ Row' = Row,
           \/ cmds' = cmds
           \/ \E c \in Command : c.op \notin {"Play", "SwapSource"} /\ cmds' = Append(cmds, c),
           pending' = pending, current' = current,
           stems'.status = "Active" /\ Denied => Denied'
    PROVE  StemsRight'
<1> SUFFICES ASSUME stems'.status = "Active", alive' PROVE StemsRight'
  BY DEF StemsRight
<1> DEFINE S == {"Play", "SwapSource"}
<1>1. stems.status = "Active" /\ alive /\ Row' = Row /\ cmds \in Seq(Command)
  BY DEF TypeOK
<1>2. /\ Silent(cmds', S) => Silent(cmds, S)
      /\ \A i : LastWord(cmds', i, S) => LastWord(cmds, i, S) /\ cmds'[i] = cmds[i]
  <2>1. CASE cmds' = cmds
    BY <2>1
  <2>2. ASSUME NEW c \in Command, c.op \notin S, cmds' = Append(cmds, c)
        PROVE  /\ Silent(cmds', S) => Silent(cmds, S)
               /\ \A i : LastWord(cmds', i, S) => LastWord(cmds, i, S) /\ cmds'[i] = cmds[i]
    <3>1. c.op \notin S
      BY <2>2
    <3> HIDE DEF S
    <3> QED BY <1>1, <2>2, <3>1, SameWord, ZenonT(30)
  <2> QED BY <2>1, <2>2
<1>3. pending = << >> => \A i : LastWord(cmds, i, S) =>
          cmds[i].op = "SwapSource" /\ cmds[i].to = "stems" /\ cmds[i].track = Row
  BY <1>1 DEF StemsRight, LastWord
<1>4. pending' = << >> => \A i : LastWord(cmds', i, S) =>
          cmds'[i].op = "SwapSource" /\ cmds'[i].to = "stems" /\ cmds'[i].track = Row'
  <2> HIDE DEF S
  <2> QED BY <1>1, <1>2, <1>3
<1>5. pending' = << >> /\ Silent(cmds', S) =>
          current' = [track |-> Row', how |-> "stems"] \/ Denied'
  BY <1>1, <1>2 DEF StemsRight
<1>6. pending' # << >> => pending'[Len(pending')].to = "stems"
  BY <1>1 DEF StemsRight
<1> QED BY <1>4, <1>5, <1>6 DEF StemsRight

LEMMA StemsTaken ==
    ASSUME TypeOK, StemsRight, alive' = alive, now_playing' = now_playing, stems' = stems,
           pending' = pending, cmds # << >>, cmds' = Tail(cmds),
           stems.status = "Active" /\ alive /\
           (\/ Head(cmds).op = "SwapSource" /\ Head(cmds).to = "stems" /\ Head(cmds).track = Row
            \/ /\ Head(cmds).op \notin {"Play", "SwapSource"}
               /\ current = [track |-> Row, how |-> "stems"] \/ Denied) =>
               current' = [track |-> Row, how |-> "stems"] \/ Denied'
    PROVE  StemsRight'
<1> SUFFICES ASSUME stems'.status = "Active", alive' PROVE StemsRight'
  BY DEF StemsRight
<1> DEFINE S == {"Play", "SwapSource"}
<1>1. stems.status = "Active" /\ alive /\ Row' = Row /\ cmds \in Seq(Command)
  BY DEF TypeOK, Row
<1>2. /\ \A i : LastWord(cmds', i, S) => LastWord(cmds, i + 1, S) /\ cmds'[i] = cmds[i + 1]
      /\ Silent(cmds', S) => \/ Head(cmds).op \in S /\ LastWord(cmds, 1, S)
                             \/ Head(cmds).op \notin S /\ Silent(cmds, S)
      /\ Head(cmds) = cmds[1]
  <2> HIDE DEF S
  <2> QED BY <1>1, TakenWord
<1>3. pending = << >> => \A i : LastWord(cmds, i, S) =>
          cmds[i].op = "SwapSource" /\ cmds[i].to = "stems" /\ cmds[i].track = Row
  BY <1>1 DEF StemsRight, LastWord
<1>4. pending' = << >> => \A i : LastWord(cmds', i, S) =>
          cmds'[i].op = "SwapSource" /\ cmds'[i].to = "stems" /\ cmds'[i].track = Row'
  <2> HIDE DEF S
  <2> SUFFICES ASSUME pending = << >>, NEW i, LastWord(cmds', i, S)
               PROVE  cmds'[i].op = "SwapSource" /\ cmds'[i].to = "stems" /\ cmds'[i].track = Row
    BY <1>1
  <2>1. LastWord(cmds, i + 1, S) /\ cmds'[i] = cmds[i + 1]
    BY <1>2
  <2> QED BY <1>3, <2>1
<1>5. ASSUME pending' = << >>, Silent(cmds', S)
      PROVE  current' = [track |-> Row', how |-> "stems"] \/ Denied'
  <2>1. CASE LastWord(cmds, 1, S)
    <3>1. cmds[1].op = "SwapSource" /\ cmds[1].to = "stems" /\ cmds[1].track = Row
      BY <1>3, <1>5, <2>1
    <3> QED BY <1>1, <1>2, <3>1
  <2>2. CASE Head(cmds).op \notin S /\ Silent(cmds, S)
    <3>1. current = [track |-> Row, how |-> "stems"] \/ Denied
      BY <1>1, <1>5, <2>2 DEF StemsRight
    <3> QED BY <1>1, <2>2, <3>1
  <2> QED BY <1>2, <1>5, <2>1, <2>2
<1>6. pending' # << >> => pending'[Len(pending')].to = "stems"
  BY <1>1 DEF StemsRight
<1> QED BY <1>4, <1>5, <1>6 DEF StemsRight

-----------------------------------------------------------------------------
(* The App. *)

LEMMA SentType ==
    ASSUME TypeOK, NEW c \in Command
    PROVE  /\ Sent(c) \in Seq(Command)
           /\ \A i \in DOMAIN cmds : i \in DOMAIN Sent(c) /\ Sent(c)[i] = cmds[i]
           /\ Sent(c) = cmds \/ Sent(c) = Append(cmds, c)
BY AppendWord DEF Sent, TypeOK

LEMMA RowType == ASSUME TypeOK, Shown
                 PROVE  /\ Row \in Track /\ now_playing \in Panel
                        /\ now_playing.list \in Seq(Track) /\ now_playing.index \in Nat
                        /\ now_playing.index \in 1..Len(now_playing.list)
                        /\ now_playing.elapsed \in Place /\ now_playing.state \in {"Playing", "Paused"}
BY PlayerAssumption DEF TypeOK, Shown, Row, Panel

LEMMA ListType == ASSUME NEW l \in Lists, NEW i \in DOMAIN l
                  PROVE  l \in Seq(Track) /\ i \in Nat /\ i \in 1..Len(l) /\ l[i] \in Track
BY PlayerAssumption

StemsType == [status : {"Off", "Separating", "Active"}, for_path : Track \cup {None}, job_gen : Nat]

LEMMA OffType == ASSUME NEW n \in Nat
                 PROVE  /\ [Off EXCEPT !.job_gen = n] \in StemsType
                        /\ [Off EXCEPT !.job_gen = n].status = "Off"
                        /\ [Off EXCEPT !.job_gen = n].job_gen = n
BY DEF Off, StemsType

LEMMA ResetStems ==
    ASSUME TypeOK, reset_stems_for_track_change
    PROVE  stems' \in StemsType /\ stems'.status = "Off" /\ stems'.job_gen >= stems.job_gen
<1> DEFINE n == stems.job_gen + (IF stems.status = "Separating" THEN 1 ELSE 0)
<1>1. n \in Nat /\ n >= stems.job_gen
  BY DEF TypeOK
<1>2. stems' = [Off EXCEPT !.job_gen = n]
  BY DEF reset_stems_for_track_change
<1> HIDE DEF n
<1> QED BY <1>1, <1>2, OffType

LEMMA StemsTyped == TypeOK <=> TypeOK /\ stems \in StemsType
BY DEF TypeOK, StemsType

\* Without stems, what the jobs will come back with is of no use.
LEMMA OffOfRow ==
    ASSUME TypeOK, StemsOfRow, stems' \in StemsType, stems'.status = "Off",
           jobs' \subseteq jobs, stems'.job_gen >= stems.job_gen \/ jobs' = {}
    PROVE  StemsOfRow'
<1>1. \A j \in jobs : j.gen \in Nat /\ j.gen <= stems.job_gen /\ stems.job_gen \in Nat
  BY DEF TypeOK, StemsOfRow
<1>2. stems'.job_gen \in Nat
  BY DEF StemsType
<1> QED BY <1>1, <1>2 DEF StemsOfRow

\* The panel closes.
LEMMA ClosedAgrees ==
    ASSUME TypeOK, Agree, ~Shown', stems' \in StemsType, stems'.status = "Off",
           jobs' \subseteq jobs, stems'.job_gen >= stems.job_gen \/ jobs' = {},
           pending' = << >>, alive' = alive,
           \/ player' = player /\ clock' = clock
           \/ player' = None
    PROVE  Agree'
<1>1. PendingIsSwap'
  BY DEF PendingIsSwap
<1>2. StemsOfRow'
  BY OffOfRow DEF Agree
<1>3. DeadIsSilent' /\ ClockBehind'
  BY DEF Agree, DeadIsSilent, ClockBehind
<1> QED BY <1>1, <1>2, <1>3 DEF Agree, TrackRight, StateRight, StemsRight, HeardRight, EvsHonest

\* A new track.
LEMMA StartTypes ==
    ASSUME TypeOK, NEW l \in Lists, NEW i \in DOMAIN l, NEW q \in Seq(AudioEvent),
           play_from_playlist(l, i, q)
    PROVE  /\ now_playing' \in Panel /\ Shown' /\ now_playing'.index \in DOMAIN now_playing'.list
           /\ now_playing'.state = "Playing" /\ Row' = l[i]
           /\ stems' \in StemsType /\ stems'.status = "Off" /\ stems'.job_gen >= stems.job_gen
           /\ [op |-> "Play", track |-> l[i]] \in Command
           /\ cmds' \in Seq(Command) /\ evs' \in Seq(AudioEvent) /\ heard' \in BOOLEAN
           /\ \A k \in DOMAIN evs' : evs'[k].old = TRUE
<1>1. now_playing' = [list |-> l, index |-> i, elapsed |-> 0, state |-> "Playing", counted |-> FALSE]
  BY DEF play_from_playlist
<1>2. 0 \in Place /\ i \in Nat
  BY Bounds, ListType DEF Place
<1>3. now_playing' \in Panel /\ now_playing'.index \in DOMAIN now_playing'.list
      /\ now_playing'.state = "Playing" /\ Row' = l[i]
  BY <1>1, <1>2 DEF Panel, Row
<1>4. Shown'
  BY <1>3, NoneIsNone DEF Shown
<1>5. [op |-> "Play", track |-> l[i]] \in Command
  BY ListType, CommandIntro
<1>6. cmds' \in Seq(Command)
  BY <1>5, SentType DEF play_from_playlist
<1> QED BY <1>3, <1>4, <1>5, <1>6, AgedType, ResetStems DEF play_from_playlist

LEMMA StartAgrees ==
    ASSUME TypeOK, Agree, NEW l \in Lists, NEW i \in DOMAIN l, NEW q \in Seq(AudioEvent),
           play_from_playlist(l, i, q),
           pending = << >>, pending' = pending, jobs' = jobs, UNCHANGED <<alive, engine>>
    PROVE  Agree'
<1> DEFINE c == [op |-> "Play", track |-> l[i]]
<1>1. /\ Shown' /\ now_playing'.state = "Playing" /\ Row' = l[i]
      /\ stems' \in StemsType /\ stems'.status = "Off" /\ stems'.job_gen >= stems.job_gen
      /\ c \in Command /\ cmds \in Seq(Command)
      /\ \A k \in DOMAIN evs' : evs'[k].old = TRUE
  BY StartTypes DEF TypeOK
<1>2. alive => cmds' = Append(cmds, c)
  BY DEF play_from_playlist, Sent
<1>3. c.op = "Play" /\ c.track = l[i]
  OBVIOUS
<1> HIDE DEF c
<1>4. PendingIsSwap'
  BY DEF PendingIsSwap
<1>5. StemsOfRow'
  BY <1>1, OffOfRow DEF Agree
<1>6. DeadIsSilent' /\ ClockBehind'
  BY DEF Agree, DeadIsSilent, ClockBehind, engine
<1>7. ASSUME alive
      PROVE  /\ cmds'[Len(cmds) + 1] = c /\ Len(cmds) + 1 \in DOMAIN cmds'
             /\ \A k \in DOMAIN cmds' : k = Len(cmds) + 1 \/ k < Len(cmds) + 1
  BY <1>1, <1>2, <1>7, AppendWord
<1>8. TrackRight'
  <2> SUFFICES ASSUME alive PROVE TrackRight'
    BY DEF TrackRight
  <2> DEFINE S == {"Play", "Stop"}
  <2>1. c.op \in S
    BY <1>3
  <2>2. ~Silent(cmds', S) /\ \A k : LastWord(cmds', k, S) => k = Len(cmds) + 1
    <3> HIDE DEF S
    <3> QED BY <1>1, <1>2, <2>1, NewWord
  <2>3. ASSUME NEW k \in DOMAIN cmds', cmds'[k].op = "SwapSource",
               \A m \in DOMAIN cmds' : m > k => cmds'[m].op \notin S
        PROVE  FALSE
    <3>1. k # Len(cmds) + 1
      BY <1>3, <1>7, <2>3
    <3>2. k < Len(cmds) + 1
      BY <1>7, <3>1
    <3> QED BY <1>1, <1>7, <2>1, <2>3, <3>2
  <2>4. \A k \in DOMAIN cmds' : cmds'[k].op = "Stop" =>
             \E m \in DOMAIN cmds' : m > k /\ cmds'[m].op = "Play"
    BY <1>1, <1>3, <1>7
  <2> QED BY <1>1, <1>3, <1>7, <2>2, <2>3, <2>4 DEF TrackRight
<1>9. StateRight'
  <2> SUFFICES ASSUME alive PROVE StateRight'
    BY DEF StateRight
  <2>1. c.op \in Switches
    BY <1>3 DEF Switches
  <2>2. ~Silent(cmds', Switches) /\ \A k : LastWord(cmds', k, Switches) => k = Len(cmds) + 1
    BY <1>1, <1>2, <2>1, NewWord
  <2> QED BY <1>1, <1>3, <1>7, <2>2 DEF StateRight
<1>10. StemsRight'
  BY <1>1 DEF StemsRight
<1>11. HeardRight'
  <2>1. CASE alive
    <3>1. Behind'
      BY <1>3, <1>7, <2>1 DEF Behind, Starts
    <3> QED BY <3>1 DEF HeardRight
  <2>2. CASE ~alive
    BY <2>2, <1>6 DEF DeadIsSilent, HeardRight
  <2> QED BY <2>1, <2>2
<1>12. EvsHonest'
  BY <1>1 DEF EvsHonest
<1> QED BY <1>4, <1>5, <1>6, <1>8, <1>9, <1>10, <1>11, <1>12 DEF Agree

\* The end of the list, or of playback.
LEMMA StopTypes ==
    ASSUME TypeOK, NEW q \in Seq(AudioEvent), stop_playback(q)
    PROVE  /\ now_playing' = None /\ ~Shown'
           /\ stems' \in StemsType /\ stems'.status = "Off" /\ stems'.job_gen >= stems.job_gen
           /\ cmds' \in Seq(Command) /\ evs' \in Seq(AudioEvent) /\ heard' \in BOOLEAN
BY CommandIntro, SentType, AgedType, ResetStems DEF stop_playback, Shown

LEMMA NextTrack ==
    ASSUME TypeOK, Agree, Shown, NEW q \in Seq(AudioEvent), next_track(q),
           pending = << >>, pending' = pending, jobs' = jobs, UNCHANGED <<alive, engine>>
    PROVE  /\ now_playing' \in Panel \cup {None}
           /\ Shown' => now_playing'.index \in DOMAIN now_playing'.list
           /\ stems' \in StemsType /\ cmds' \in Seq(Command) /\ evs' \in Seq(AudioEvent)
           /\ heard' \in BOOLEAN
           /\ Agree'
<1> DEFINE n == now_playing.index + 1
           l == now_playing.list
<1>1. l \in Lists /\ l \in Seq(Track) /\ now_playing.index \in 1..Len(l)
  BY RowType DEF Panel
<1>2. CASE n <= Len(l)
  <2>1. n \in DOMAIN l /\ play_from_playlist(l, n, q)
    BY <1>1, <1>2 DEF next_track
  <2> HIDE DEF n, l
  <2> QED BY <1>1, <2>1, StartTypes, StartAgrees
<1>3. CASE ~(n <= Len(l))
  <2>1. stop_playback(q)
    BY <1>3 DEF next_track
  <2> QED BY <2>1, StopTypes, ClosedAgrees DEF engine
<1> QED BY <1>2, <1>3

\* The panel stays, and no start of a listen is sent.
LEMMA PanelKept ==
    ASSUME TypeOK, Agree, Shown' => Shown, alive' = alive, UNCHANGED engine, heard' = heard,
           \A i \in DOMAIN cmds : i \in DOMAIN cmds' /\ cmds'[i] = cmds[i],
           \/ evs' = evs
           \/ evs # << >> /\ evs' = Tail(evs) /\ Head(evs).op # "PlaybackError"
    PROVE  DeadIsSilent' /\ ClockBehind' /\ HeardRight' /\ EvsHonest'
<1>1. DeadIsSilent' /\ ClockBehind'
  BY DEF Agree, DeadIsSilent, ClockBehind, engine
<1>2. Behind => Behind'
  BY DEF Behind
<1>3. HeardRight'
  BY <1>2 DEF Agree, HeardRight, engine
<1>4. EvsHonest'
  <2>1. CASE evs' = evs
    BY <2>1 DEF Agree, EvsHonest
  <2>2. CASE evs # << >> /\ evs' = Tail(evs) /\ Head(evs).op # "PlaybackError"
    <3> SUFFICES ASSUME Shown', NEW i \in DOMAIN evs', Counts(evs'[i]), ~evs'[i].old, ~heard
                 PROVE  \E k \in 1..(i - 1) : evs'[k].op = "PlaybackError"
      BY DEF EvsHonest
    <3>1. /\ Head(evs) = evs[1]
          /\ \A k \in DOMAIN evs' : k + 1 \in DOMAIN evs /\ evs'[k] = evs[k + 1]
          /\ \A k \in DOMAIN evs : k = 1 \/ (k - 1 \in DOMAIN evs' /\ evs'[k - 1] = evs[k])
          /\ \A k \in DOMAIN evs' : k \in Nat /\ k >= 1
      BY <2>2, TailWord DEF TypeOK
    <3>2. i + 1 \in DOMAIN evs /\ evs'[i] = evs[i + 1] /\ i \in Nat
      BY <3>1
    <3>3. PICK k \in 1..(i + 1 - 1) : evs[k].op = "PlaybackError"
      BY <3>2 DEF Agree, EvsHonest
    <3>4. DOMAIN evs = 1..Len(evs) /\ Len(evs) \in Nat
      BY DEF TypeOK
    <3>5. k # 1 /\ k \in DOMAIN evs
      <4>1. k \in Nat /\ 1 <= k /\ k <= i
        BY <3>2
      <4>2. k \in DOMAIN evs
        BY <3>2, <3>4, <4>1
      <4> QED BY <2>2, <3>1, <3>3, <4>2
    <3>6. k - 1 \in 1..(i - 1) /\ evs'[k - 1] = evs[k]
      BY <3>1, <3>2, <3>3, <3>5
    <3> QED BY <3>3, <3>6
  <2> QED BY <2>1, <2>2
<1> QED BY <1>1, <1>3, <1>4

LEMMA KeptTail ==
    ASSUME TypeOK, NEW S,
           \/ evs' = evs
           \/ evs # << >> /\ evs' = Tail(evs) /\ Head(evs).op \notin S
    PROVE  Kept(S)
<1>1. CASE evs' = evs
  BY <1>1 DEF Kept, Reports
<1>2. CASE evs # << >> /\ evs' = Tail(evs) /\ Head(evs).op \notin S
  <2>1. /\ Head(evs) = evs[1]
        /\ \A k \in DOMAIN evs : k = 1 \/ (k - 1 \in DOMAIN evs' /\ evs'[k - 1] = evs[k])
    BY <1>2, TailWord DEF TypeOK
  <2> QED BY <1>2, <2>1 DEF Kept, Reports
<1> QED BY <1>1, <1>2

LEMMA DeniedTail ==
    ASSUME TypeOK, evs # << >>, evs' = Tail(evs), Head(evs).op # "PlaybackError",
           Head(evs).op = "SwapFailed" => ~Head(evs).to_stems
    PROVE  Denied => Denied'
<1>1. /\ Head(evs) = evs[1]
      /\ \A k \in DOMAIN evs : k = 1 \/ (k - 1 \in DOMAIN evs' /\ evs'[k - 1] = evs[k])
  BY TailWord DEF TypeOK
<1> QED BY <1>1 DEF Denied

LEMMA SkipHonest ==
    ASSUME TypeOK, PlaysHonest, log' = record_now_playing_skip
    PROVE  PlaysHonest' /\ log' \subseteq [kind : {"play", "skip"}, earned : BOOLEAN]
<1> DEFINE r == [kind |-> "skip", earned |-> TRUE]
<1>1. r \in [kind : {"play", "skip"}, earned : BOOLEAN] /\ r.kind # "play"
  OBVIOUS
<1>2. log' \subseteq log \cup {r}
  BY DEF record_now_playing_skip, Recorded
<1> HIDE DEF r
<1> QED BY <1>1, <1>2 DEF TypeOK, PlaysHonest

LEMMA PlayHonest ==
    ASSUME TypeOK, PlaysHonest, NEW e \in BOOLEAN, log' = Recorded("play", e), Shown => e = TRUE
    PROVE  PlaysHonest' /\ log' \subseteq [kind : {"play", "skip"}, earned : BOOLEAN]
BY DEF TypeOK, PlaysHonest, Recorded

LEMMA HeadEvent ==
    ASSUME TypeOK, evs # << >>
    PROVE  /\ Head(evs) \in AudioEvent /\ Tail(evs) \in Seq(AudioEvent)
           /\ Head(evs) = evs[1] /\ 1 \in DOMAIN evs
BY TailWord DEF TypeOK

\* The first event counts a play only of a listen that earned it.
LEMMA HeadHonest ==
    ASSUME TypeOK, EvsHonest, evs # << >>, Counts(Head(evs)), Shown
    PROVE  heard \/ Head(evs).old
BY HeadEvent DEF EvsHonest

-----------------------------------------------------------------------------
(* Stem jobs. *)

LEMMA ReadyInv == ASSUME NEW j \in jobs PROVE Inv /\ on_stems_ready(j) => Inv'
<1> SUFFICES ASSUME Inv, on_stems_ready(j) PROVE Inv'
  OBVIOUS
<1> DEFINE s == [op |-> "SwapSource", to |-> "stems", track |-> j.track]
           ready == Waiting(j) /\ StillPlaying(j)
<1> USE DEF Inv
<1>1. /\ at' = "bg" /\ jobs' = jobs \ {j}
      /\ UNCHANGED <<now_playing, cmds, evs, alive, engine, keys, faults, heard, log>>
  BY DEF on_stems_ready, StemsEvent
<1>2. j \in [gen : Nat, track : Track] /\ s \in Command
  BY CommandIntro DEF TypeOK
<1>3. ready => pending' = Append(pending, s) /\ stems' = [stems EXCEPT !.status = "Active"]
  BY DEF on_stems_ready
<1>4. ~ready => pending' = pending
                /\ (stems' = stems \/ stems' = [Off EXCEPT !.job_gen = stems.job_gen])
  BY DEF on_stems_ready
<1>5. /\ pending \in Seq(Command) /\ stems \in StemsType /\ stems.job_gen \in Nat
      /\ Row' = Row /\ Shown' = Shown
  BY <1>1 DEF TypeOK, StemsType, Row, Shown
<1>6. ready => /\ pending' \in Seq(Command)
               /\ DOMAIN pending' = DOMAIN pending \cup {Len(pending) + 1}
               /\ pending'[Len(pending) + 1] = s
               /\ \A i \in DOMAIN pending : pending'[i] = pending[i]
  BY <1>2, <1>3, <1>5, AppendWord, SMTT(30)
<1>7. /\ s.op = "SwapSource" /\ s.to = "stems" /\ s.track = j.track
      /\ ready => Shown /\ j.track = Row /\ j.gen = stems.job_gen /\ stems.status = "Separating"
  BY DEF Waiting, StillPlaying
<1>8. stems' \in StemsType /\ stems'.job_gen = stems.job_gen
      /\ (ready => stems'.status = "Active" /\ stems'.for_path = stems.for_path)
      /\ (~ready => stems' = stems \/ stems'.status = "Off")
  BY <1>3, <1>4, <1>5, OffType DEF StemsType
<1> HIDE DEF s, ready
<1>9. TypeOK'
  <2>1. pending' \in Seq(Command)
    BY <1>4, <1>5, <1>6
  <2> QED BY <1>1, <1>8, <2>1 DEF TypeOK, StemsType, engine, Shown
<1>10. PendingIsSwap'
  BY <1>1, <1>4, <1>5, <1>6, <1>7 DEF Agree, PendingIsSwap
<1>11. StemsOfRow'
  <2>1. CASE ready
    BY <1>1, <1>5, <1>7, <1>8, <2>1 DEF Agree, StemsOfRow
  <2>2. CASE ~ready
    BY <1>1, <1>5, <1>8, <2>2 DEF Agree, StemsOfRow
  <2> QED BY <2>1, <2>2
<1>12. DeadIsSilent' /\ ClockBehind' /\ HeardRight' /\ EvsHonest'
  BY <1>1, <1>5, PanelKept
<1>13. TrackRight'
  <2>1. Kept({"PlaybackError"})
    BY <1>1, KeptTail
  <2> QED BY <1>1, <1>5, <2>1, TrackSent DEF Agree, engine
<1>14. StateRight'
  <2>1. Kept({"TrackEnded", "PlaybackError"})
    BY <1>1, KeptTail
  <2> QED BY <1>1, <1>5, <2>1, StateSent DEF Agree, engine
<1>15. StemsRight'
  <2>1. CASE ready
    <3>1. Len(pending') = Len(pending) + 1 /\ pending' # << >>
      BY <1>2, <1>3, <1>5, <2>1, AppendProperties
    <3> QED BY <1>6, <1>7, <2>1, <3>1 DEF StemsRight
  <2>2. CASE ~ready
    <3>1. Denied => Denied'
      BY <1>1 DEF Denied
    <3> QED BY <1>1, <1>4, <1>5, <1>8, <2>2, <3>1, StemsSent DEF Agree, engine
  <2> QED BY <2>1, <2>2
<1> QED BY <1>1, <1>9, <1>10, <1>11, <1>12, <1>13, <1>14, <1>15 DEF Agree, PlaysHonest

LEMMA FailedInv == ASSUME NEW j \in jobs PROVE Inv /\ on_stems_failed(j) => Inv'
<1> SUFFICES ASSUME Inv, on_stems_failed(j) PROVE Inv'
  OBVIOUS
<1> USE DEF Inv
<1>1. /\ at' = "bg" /\ jobs' \subseteq jobs
      /\ UNCHANGED <<now_playing, pending, cmds, evs, alive, engine, keys, faults, heard, log>>
      /\ stems' = stems \/ stems' = [Off EXCEPT !.job_gen = stems.job_gen]
  BY DEF on_stems_failed, StemsEvent
<1>2. stems \in StemsType /\ stems.job_gen \in Nat /\ Row' = Row /\ Shown' = Shown
  BY <1>1 DEF TypeOK, StemsType, Row, Shown
<1>3. /\ stems' \in StemsType /\ stems'.job_gen = stems.job_gen
      /\ stems' = stems \/ stems'.status = "Off"
  BY <1>1, <1>2, OffType
<1>4. TypeOK'
  BY <1>1, <1>3 DEF TypeOK, StemsType, engine, Shown
<1>5. PendingIsSwap' /\ StemsOfRow'
  BY <1>1, <1>2, <1>3 DEF Agree, PendingIsSwap, StemsOfRow
<1>6. DeadIsSilent' /\ ClockBehind' /\ HeardRight' /\ EvsHonest'
  BY <1>1, <1>2, PanelKept
<1>7. TrackRight'
  <2>1. Kept({"PlaybackError"})
    BY <1>1, KeptTail
  <2> QED BY <1>1, <1>2, <2>1, TrackSent DEF Agree, engine
<1>8. StateRight'
  <2>1. Kept({"TrackEnded", "PlaybackError"})
    BY <1>1, KeptTail
  <2> QED BY <1>1, <1>2, <2>1, StateSent DEF Agree, engine
<1>9. StemsRight'
  <2>1. Denied => Denied'
    BY <1>1 DEF Denied
  <2> QED BY <1>1, <1>2, <1>3, <2>1, StemsSent DEF Agree, engine
<1> QED BY <1>1, <1>4, <1>5, <1>6, <1>7, <1>8, <1>9 DEF Agree, PlaysHonest

-----------------------------------------------------------------------------
(* The frame. *)

\* The panel goes on showing its track, the thread is not told to play another.
LEMMA PanelAgrees ==
    ASSUME TypeOK, Agree, Shown' <=> Shown, Shown => Row' = Row,
           pending = << >>, pending' = << >>, jobs' = jobs,
           stems' = stems \/ (stems' \in StemsType /\ stems'.status = "Off"
                                                   /\ stems'.job_gen >= stems.job_gen),
           alive' = alive, UNCHANGED engine, heard' = heard,
           \/ cmds' = cmds
           \/ \E c \in Command : /\ c.op \notin {"Play", "Stop", "SwapSource"}
                                 /\ cmds' = Append(cmds, c),
           \/ evs' = evs
           \/ evs # << >> /\ evs' = Tail(evs) /\ Head(evs).op # "PlaybackError",
           stems'.status = "Active" => (Denied => Denied')
    PROVE  /\ PendingIsSwap' /\ StemsOfRow' /\ DeadIsSilent' /\ TrackRight' /\ StemsRight'
           /\ ClockBehind' /\ HeardRight' /\ EvsHonest'
<1>1. PendingIsSwap'
  BY DEF PendingIsSwap
<1>2. StemsOfRow'
  <2>1. CASE stems' = stems
    BY <2>1 DEF Agree, StemsOfRow
  <2>2. CASE stems' \in StemsType /\ stems'.status = "Off" /\ stems'.job_gen >= stems.job_gen
    BY <2>2, OffOfRow DEF Agree
  <2> QED BY <2>1, <2>2
<1>3. DeadIsSilent' /\ ClockBehind' /\ HeardRight' /\ EvsHonest'
  <2>1. \A i \in DOMAIN cmds : i \in DOMAIN cmds' /\ cmds'[i] = cmds[i]
    BY AppendWord DEF TypeOK
  <2> QED BY <2>1, PanelKept
<1>4. TrackRight'
  <2>1. Kept({"PlaybackError"})
    BY KeptTail
  <2> QED BY <2>1, TrackSent DEF Agree, engine
<1>5. StemsRight'
  <2>1. CASE stems' = stems /\ stems.status = "Active"
    <3>1. Row' = Row /\ (Denied => Denied')
      BY <2>1 DEF Agree, StemsOfRow
    <3>2. \/ cmds' = cmds
          \/ \E c \in Command : /\ c.op \notin {"Play", "SwapSource"}
                                /\ cmds' = Append(cmds, c)
      OBVIOUS
    <3> QED BY <2>1, <3>1, <3>2, StemsSent DEF Agree, engine
  <2>2. CASE stems'.status # "Active"
    BY <2>2 DEF StemsRight
  <2> QED BY <2>1, <2>2
<1> QED BY <1>1, <1>2, <1>3, <1>4, <1>5

\* It is paused, or goes on, with the command that says so.
LEMMA StateNew ==
    ASSUME TypeOK, alive' = alive, NEW c \in Command, c.op \in {"Pause", "Resume"},
           cmds' = Sent(c), c.op = "Pause" <=> now_playing'.state = "Paused"
    PROVE  StateRight'
<1> SUFFICES ASSUME alive PROVE StateRight'
  BY DEF StateRight
<1>1. cmds \in Seq(Command) /\ cmds' = Append(cmds, c) /\ c.op \in Switches /\ c.op # "Stop"
  BY DEF Sent, TypeOK, Switches
<1>2. ~Silent(cmds', Switches) /\ \A k : LastWord(cmds', k, Switches) => k = Len(cmds) + 1
  BY <1>1, NewWord
<1>3. cmds'[Len(cmds) + 1] = c
  BY <1>1, AppendWord
<1> QED BY <1>1, <1>2, <1>3 DEF StateRight

LEMMA FlushInv == Inv /\ Flush => Inv'
<1> SUFFICES ASSUME Inv, Flush PROVE Inv'
  OBVIOUS
<1> USE DEF Inv
<1>1. /\ at' = "audio" /\ pending' = << >>
      /\ cmds' = IF alive THEN cmds \o pending ELSE cmds
      /\ UNCHANGED <<now_playing, stems, evs, alive, engine, jobs, keys, faults, heard, log>>
  BY DEF Flush
<1>2. /\ cmds \in Seq(Command) /\ pending \in Seq(Command) /\ Row' = Row /\ Shown' = Shown
  BY <1>1 DEF TypeOK, Row, Shown
<1> DEFINE m == Len(cmds)
           n == Len(pending)
           q == cmds \o pending
<1>3. /\ q \in Seq(Command) /\ m \in Nat /\ n \in Nat
      /\ DOMAIN cmds = 1..m /\ DOMAIN pending = 1..n /\ DOMAIN q = 1..(m + n)
      /\ \A i \in 1..m : q[i] = cmds[i]
      /\ \A i \in 1..n : q[m + i] = pending[i]
      /\ pending = << >> <=> n = 0
  BY <1>2, ConcatProperties
<1>4. /\ \A i \in DOMAIN cmds : i \in DOMAIN q /\ q[i] = cmds[i]
      /\ \A i \in DOMAIN q : i \in DOMAIN cmds \/ (i \in Nat /\ i > m /\ i - m \in 1..n /\ q[i] = pending[i - m])
  <2>1. ASSUME NEW i \in DOMAIN q
        PROVE  i \in DOMAIN cmds \/ (i \in Nat /\ i > m /\ i - m \in 1..n /\ q[i] = pending[i - m])
    <3>1. i \in 1..m \/ (i > m /\ i - m \in 1..n /\ m + (i - m) = i)
      BY <1>3
    <3> QED BY <1>3, <3>1
  <2> QED BY <1>3, <2>1
<1>5. \A i \in 1..n : /\ pending[i].op = "SwapSource" /\ Shown /\ pending[i].track = Row
  BY <1>3 DEF Agree, PendingIsSwap
<1>6. \A i \in DOMAIN q : /\ i \notin DOMAIN cmds => q[i].op = "SwapSource" /\ q[i].track = Row
                          /\ i \in DOMAIN cmds => q[i] = cmds[i]
  BY <1>4, <1>5
<1>7. TypeOK'
  BY <1>1, <1>3 DEF TypeOK, engine, Shown
<1>8. PendingIsSwap' /\ StemsOfRow'
  BY <1>1, <1>2 DEF Agree, PendingIsSwap, StemsOfRow
<1>9. DeadIsSilent' /\ ClockBehind' /\ HeardRight' /\ EvsHonest'
  BY <1>1, <1>2, <1>4, PanelKept
<1>10. ASSUME NEW S, "SwapSource" \notin S
       PROVE  /\ Silent(q, S) => Silent(cmds, S)
              /\ \A i : LastWord(q, i, S) => LastWord(cmds, i, S) /\ q[i] = cmds[i]
  <2> HIDE DEF q
  <2>1. Silent(q, S) => Silent(cmds, S)
    BY <1>4 DEF Silent
  <2>2. ASSUME NEW i, LastWord(q, i, S) PROVE LastWord(cmds, i, S) /\ q[i] = cmds[i]
    BY <1>4, <1>6, <1>10, <2>2 DEF LastWord
  <2> QED BY <2>1, <2>2
<1>11. TrackRight'
  <2> SUFFICES ASSUME Shown, alive PROVE TrackRight'
    BY <1>1, <1>2 DEF TrackRight
  <2>1. cmds' = q
    BY <1>1
  <2> DEFINE S == {"Play", "Stop"}
  <2>2. /\ Silent(q, S) => Silent(cmds, S)
        /\ \A i : LastWord(q, i, S) => LastWord(cmds, i, S) /\ q[i] = cmds[i]
    BY <1>10
  <2> HIDE DEF q
  <2>3. \A i \in DOMAIN q : LastWord(q, i, S) => q[i].op = "Play" /\ q[i].track = Row
    BY <2>2 DEF Agree, TrackRight, LastWord
  <2>4. ASSUME NEW i \in DOMAIN q, q[i].op = "SwapSource",
               \A k \in DOMAIN q : k > i => q[k].op \notin S
        PROVE  q[i].track = Row
    <3>1. CASE i \in DOMAIN cmds
      <4>1. \A k \in DOMAIN cmds : k > i => cmds[k].op \notin S
        BY <1>4, <2>4
      <4>2. cmds[i].op = "SwapSource" /\ q[i] = cmds[i]
        BY <1>4, <2>4, <3>1
      <4> QED BY <3>1, <4>1, <4>2 DEF Agree, TrackRight
    <3>2. CASE i \notin DOMAIN cmds
      BY <1>6, <3>2
    <3> QED BY <3>1, <3>2
  <2>5. Silent(q, S) => \/ player # None /\ current # None /\ current.track = Row
                        \/ Reports({"PlaybackError"})
    BY <2>2 DEF Agree, TrackRight
  <2>6. Reports({"PlaybackError"}) => Reports({"PlaybackError"})'
    BY <1>1 DEF Reports
  <2>7. ASSUME NEW i \in DOMAIN q, q[i].op = "Stop"
        PROVE  \E k \in DOMAIN q : k > i /\ q[k].op = "Play"
    <3>1. i \in DOMAIN cmds /\ cmds[i].op = "Stop"
      BY <1>6, <2>7
    <3> QED BY <1>4, <3>1 DEF Agree, TrackRight
  <2> QED BY <1>1, <1>2, <2>1, <2>3, <2>4, <2>5, <2>6, <2>7 DEF TrackRight, engine
<1>12. StateRight'
  <2> SUFFICES ASSUME Shown, alive PROVE StateRight'
    BY <1>1, <1>2 DEF StateRight
  <2>1. cmds' = q
    BY <1>1
  <2>2. /\ Silent(q, Switches) => Silent(cmds, Switches)
        /\ \A i : LastWord(q, i, Switches) => LastWord(cmds, i, Switches) /\ q[i] = cmds[i]
    <3>1. "SwapSource" \notin Switches
      BY DEF Switches
    <3> QED BY <1>10, <3>1
  <2> HIDE DEF q
  <2>3. Reports({"TrackEnded", "PlaybackError"}) => Reports({"TrackEnded", "PlaybackError"})'
    BY <1>1 DEF Reports
  <2>4. \A i : LastWord(cmds, i, Switches) =>
                   cmds[i].op # "Stop" /\ (cmds[i].op = "Pause" <=> now_playing.state = "Paused")
    BY DEF Agree, StateRight, LastWord
  <2> QED BY <1>1, <2>1, <2>2, <2>3, <2>4 DEF Agree, StateRight, engine
<1>13. StemsRight'
  <2> SUFFICES ASSUME stems.status = "Active", alive PROVE StemsRight'
    BY <1>1 DEF StemsRight
  <2>1. cmds' = q /\ stems' = stems
    BY <1>1
  <2>2. CASE n = 0
    <3>1. pending = << >> /\ cmds' = cmds
      BY <1>2, <1>3, <2>1, <2>2
    <3>2. Denied => Denied'
      BY <1>1 DEF Denied
    <3> QED BY <1>1, <1>2, <2>1, <3>1, <3>2, StemsSent DEF Agree, engine
  <2>3. CASE n # 0
    <3> DEFINE S == {"Play", "SwapSource"}
    <3>1. pending # << >> /\ pending[n].to = "stems" /\ n \in 1..n
      BY <1>3, <2>3 DEF Agree, StemsRight
    <3>2. m + n \in DOMAIN q /\ q[m + n] = pending[n] /\ \A i \in DOMAIN q : i = m + n \/ i < m + n
      BY <1>3, <3>1, SMTT(30)
    <3>3. q[m + n].op = "SwapSource" /\ q[m + n].to = "stems" /\ q[m + n].track = Row
      BY <1>5, <3>1, <3>2
    <3> HIDE DEF q, m, n
    <3>4. ~Silent(q, S) /\ \A i : LastWord(q, i, S) => i = m + n
      BY <3>2, <3>3 DEF Silent, LastWord
    <3> QED BY <1>1, <1>2, <2>1, <3>3, <3>4 DEF StemsRight
  <2> QED BY <2>2, <2>3
<1> QED BY <1>1, <1>7, <1>8, <1>9, <1>11, <1>12, <1>13 DEF Agree, PlaysHonest

\* The App reads events when it has flushed what was queued.
LEMMA AudioTime == ASSUME Inv, at # "bg" PROVE pending = << >>
BY DEF Inv, Agree, PendingIsSwap

LEMMA PositionInv == Inv /\ Position => Inv'
<1> SUFFICES ASSUME Inv, Position PROVE Inv'
  OBVIOUS
<1> USE DEF Inv
<1> DEFINE e == Head(evs)
           trip == e.elapsed >= play_threshold
<1>1. /\ at = "audio" /\ evs # << >> /\ e.op = "Position" /\ evs' = Tail(evs)
      /\ UNCHANGED <<stems, pending, at, cmds, alive, engine, jobs, keys, faults, heard>>
  BY DEF Position, Event
<1>2. pending = << >> /\ e \in AudioEvent /\ e.elapsed \in Place /\ e.old \in BOOLEAN
      /\ Tail(evs) \in Seq(AudioEvent)
  BY <1>1, AudioTime, HeadEvent, EventFields
<1>3. Shown => /\ now_playing' = [now_playing EXCEPT !.elapsed = e.elapsed, !.counted = @ \/ trip]
               /\ log' = IF trip THEN Recorded("play", heard \/ e.old) ELSE log
  BY DEF Position
<1>4. ~Shown => now_playing' = now_playing /\ log' = log
  BY DEF Position
<1> HIDE DEF e
<1>5. Shown => /\ now_playing' \in Panel /\ now_playing'.list = now_playing.list
               /\ now_playing'.index = now_playing.index /\ now_playing'.state = now_playing.state
  <2> SUFFICES ASSUME Shown PROVE /\ now_playing' \in Panel /\ now_playing'.list = now_playing.list
                      /\ now_playing'.index = now_playing.index
                      /\ now_playing'.state = now_playing.state
    OBVIOUS
  <2>1. now_playing \in Panel
    BY RowType
  <2>2. (now_playing.counted \/ trip) \in BOOLEAN
    OBVIOUS
  <2> HIDE DEF trip
  <2> QED BY <1>2, <1>3, <2>1, <2>2 DEF Panel
<1>6. Shown' <=> Shown
  BY <1>4, <1>5, NoneIsNone DEF Shown
<1>7. Shown => Row' = Row
  BY <1>5 DEF Row
<1>8. PlaysHonest' /\ log' \subseteq [kind : {"play", "skip"}, earned : BOOLEAN]
  <2>1. CASE Shown /\ trip
    <3>1. heard \/ e.old
      BY <1>1, <2>1, HeadHonest DEF Agree, Counts, e
    <3>2. (heard \/ e.old) = TRUE
      BY <3>1
    <3>3. log' = Recorded("play", TRUE)
      BY <1>3, <2>1, <3>2
    <3> QED BY <3>3, PlayHonest
  <2>2. CASE ~(Shown /\ trip)
    BY <1>3, <1>4, <2>2 DEF PlaysHonest, TypeOK
  <2> QED BY <2>1, <2>2
<1>9. TypeOK'
  <2>1. now_playing' \in Panel \cup {None}
        /\ (Shown' => now_playing'.index \in DOMAIN now_playing'.list)
    BY <1>4, <1>5, <1>6 DEF TypeOK
  <2> QED BY <1>1, <1>2, <1>8, <2>1 DEF TypeOK, engine
<1>10. Denied => Denied'
  BY <1>1, DeniedTail DEF e
<1>11. /\ PendingIsSwap' /\ StemsOfRow' /\ DeadIsSilent' /\ TrackRight' /\ StemsRight'
       /\ ClockBehind' /\ HeardRight' /\ EvsHonest'
  BY <1>1, <1>2, <1>6, <1>7, <1>10, PanelAgrees DEF e
<1>12. StateRight'
  <2>1. Kept({"TrackEnded", "PlaybackError"})
    BY <1>1, KeptTail DEF e
  <2> QED BY <1>1, <1>5, <1>6, <2>1, StateSent DEF Agree, engine
<1> QED BY <1>8, <1>9, <1>11, <1>12 DEF Agree

LEMMA TrackEndedInv == Inv /\ TrackEnded => Inv'
<1> SUFFICES ASSUME Inv, TrackEnded PROVE Inv'
  OBVIOUS
<1> USE DEF Inv
<1> DEFINE e == Head(evs)
<1>1. /\ at = "audio" /\ evs # << >> /\ e.op = "TrackEnded"
      /\ log' = Recorded("play", heard \/ e.old)
      /\ UNCHANGED <<pending, at, alive, engine, jobs, keys, faults>>
  BY DEF TrackEnded, Event
<1>2. pending = << >> /\ e \in AudioEvent /\ e.old \in BOOLEAN /\ Tail(evs) \in Seq(AudioEvent)
  BY <1>1, AudioTime, HeadEvent, EventFields
<1>3. PlaysHonest' /\ log' \subseteq [kind : {"play", "skip"}, earned : BOOLEAN]
  <2>1. CASE Shown
    <3>1. heard \/ e.old
      BY <1>1, <2>1, HeadHonest DEF Agree, Counts
    <3>2. (heard \/ e.old) = TRUE
      BY <3>1
    <3>3. log' = Recorded("play", TRUE)
      BY <1>1, <3>2
    <3> QED BY <3>3, PlayHonest
  <2>2. CASE ~Shown
    BY <1>1, <2>2 DEF PlaysHonest, TypeOK, Recorded
  <2> QED BY <2>1, <2>2
<1>4. CASE Shown
  <2>1. next_track(Tail(evs))
    BY <1>4 DEF TrackEnded
  <2>2. /\ now_playing' \in Panel \cup {None}
        /\ Shown' => now_playing'.index \in DOMAIN now_playing'.list
        /\ stems' \in StemsType /\ cmds' \in Seq(Command) /\ evs' \in Seq(AudioEvent)
        /\ heard' \in BOOLEAN
        /\ Agree'
    BY <1>1, <1>2, <1>4, <2>1, NextTrack
  <2>3. TypeOK'
    BY <1>1, <1>3, <2>2 DEF TypeOK, StemsType, engine
  <2> QED BY <1>3, <2>2, <2>3
<1>5. CASE ~Shown
  <2>1. evs' = Tail(evs) /\ UNCHANGED <<now_playing, stems, cmds, heard>> /\ ~Shown'
    BY <1>5 DEF TrackEnded, Shown
  <2>2. TypeOK'
    BY <1>1, <1>2, <1>3, <2>1 DEF TypeOK, engine
  <2>3. stems.status # "Active"
    BY <1>5 DEF Agree, StemsOfRow
  <2>4. PendingIsSwap' /\ StemsOfRow' /\ DeadIsSilent' /\ ClockBehind'
    BY <1>1, <1>2, <2>1, <2>3 DEF Agree, PendingIsSwap, StemsOfRow, DeadIsSilent, ClockBehind, engine
  <2> QED BY <1>3, <2>1, <2>2, <2>3, <2>4
          DEF Agree, TrackRight, StateRight, StemsRight, HeardRight, EvsHonest
<1> QED BY <1>4, <1>5

LEMMA PlaybackErrorInv == Inv /\ PlaybackError => Inv'
<1> SUFFICES ASSUME Inv, PlaybackError PROVE Inv'
  OBVIOUS
<1> USE DEF Inv
<1>1. /\ at = "audio" /\ evs # << >>
      /\ evs' = Aged(Tail(evs)) /\ now_playing' = None /\ heard' = FALSE
      /\ reset_stems_for_track_change
      /\ UNCHANGED <<pending, at, cmds, alive, engine, jobs, keys, faults, log>>
  BY DEF PlaybackError, Event
<1>2. pending = << >> /\ evs' \in Seq(AudioEvent)
  BY <1>1, AudioTime, HeadEvent, AgedType
<1>3. stems' \in StemsType /\ stems'.status = "Off" /\ stems'.job_gen >= stems.job_gen /\ ~Shown'
  BY <1>1, ResetStems DEF Shown
<1>4. TypeOK'
  BY <1>1, <1>2, <1>3 DEF TypeOK, StemsType, engine
<1>5. Agree'
  BY <1>1, <1>2, <1>3, ClosedAgrees DEF engine
<1> QED BY <1>1, <1>4, <1>5 DEF PlaysHonest

LEMMA SwapFailedInv == Inv /\ SwapFailed => Inv'
<1> SUFFICES ASSUME Inv, SwapFailed PROVE Inv'
  OBVIOUS
<1> USE DEF Inv
<1>1. /\ at = "audio" /\ evs # << >> /\ Head(evs).op = "SwapFailed" /\ evs' = Tail(evs)
      /\ stems' = IF Head(evs).to_stems THEN [Off EXCEPT !.job_gen = stems.job_gen] ELSE stems
      /\ UNCHANGED <<now_playing, pending, at, cmds, alive, engine, jobs, keys, faults, heard, log>>
  BY DEF SwapFailed, Event
<1>2. /\ pending = << >> /\ evs' \in Seq(AudioEvent) /\ Row' = Row /\ Shown' = Shown
      /\ stems \in StemsType /\ stems.job_gen \in Nat
  BY <1>1, AudioTime, HeadEvent DEF TypeOK, StemsType, Row, Shown
<1>3. \/ stems' = stems /\ ~Head(evs).to_stems
      \/ stems' \in StemsType /\ stems'.status = "Off" /\ stems'.job_gen = stems.job_gen
  BY <1>1, <1>2, OffType
<1>4. TypeOK'
  BY <1>1, <1>2, <1>3 DEF TypeOK, StemsType, engine
<1>5. stems'.status = "Active" => (Denied => Denied')
  BY <1>1, <1>3, DeniedTail
<1>6. /\ PendingIsSwap' /\ StemsOfRow' /\ DeadIsSilent' /\ TrackRight' /\ StemsRight'
      /\ ClockBehind' /\ HeardRight' /\ EvsHonest'
  <2>1. stems' = stems \/ (stems' \in StemsType /\ stems'.status = "Off"
                                                /\ stems'.job_gen >= stems.job_gen)
    BY <1>2, <1>3
  <2> QED BY <1>1, <1>2, <1>5, <2>1, PanelAgrees
<1>7. StateRight'
  <2>1. Kept({"TrackEnded", "PlaybackError"})
    BY <1>1, KeptTail
  <2> QED BY <1>1, <1>2, <2>1, StateSent DEF Agree, engine
<1> QED BY <1>1, <1>4, <1>6, <1>7 DEF Agree, PlaysHonest

LEMMA SeekFailedInv == Inv /\ SeekFailed => Inv'
<1> SUFFICES ASSUME Inv, SeekFailed PROVE Inv'
  OBVIOUS
<1> USE DEF Inv
<1>1. /\ at = "audio" /\ evs # << >> /\ Head(evs).op = "SeekFailed" /\ evs' = Tail(evs)
      /\ UNCHANGED <<app, at, cmds, alive, engine, jobs, keys, faults, heard, log>>
  BY DEF SeekFailed, Event
<1>2. /\ pending = << >> /\ evs' \in Seq(AudioEvent) /\ Row' = Row /\ Shown' = Shown
  BY <1>1, AudioTime, HeadEvent DEF Row, Shown, app
<1>3. TypeOK'
  BY <1>1, <1>2 DEF TypeOK, engine, app
<1>4. Denied => Denied'
  BY <1>1, DeniedTail
<1>5. /\ PendingIsSwap' /\ StemsOfRow' /\ DeadIsSilent' /\ TrackRight' /\ StemsRight'
      /\ ClockBehind' /\ HeardRight' /\ EvsHonest'
  BY <1>1, <1>2, <1>4, PanelAgrees DEF app
<1>6. StateRight'
  <2>1. Kept({"TrackEnded", "PlaybackError"})
    BY <1>1, KeptTail
  <2> QED BY <1>1, <1>2, <2>1, StateSent DEF Agree, engine, app
<1> QED BY <1>1, <1>3, <1>5, <1>6 DEF Agree, PlaysHonest

LEMMA EventsDoneInv == Inv /\ EventsDone => Inv'
<1> SUFFICES ASSUME Inv, EventsDone PROVE Inv'
  OBVIOUS
<1> USE DEF Inv
<1> DEFINE c == [op |-> "QueryPosition"]
<1>1. /\ at = "audio" /\ at' = "key" /\ (cmds' = cmds \/ cmds' = Sent(c))
      /\ UNCHANGED <<app, evs, alive, engine, jobs, keys, faults, heard, log>>
  BY DEF EventsDone
<1>2. c \in Command /\ c.op = "QueryPosition"
  BY CommandIntro
<1> HIDE DEF c
<1>3. /\ pending = << >> /\ Row' = Row /\ Shown' = Shown
      /\ cmds' \in Seq(Command) /\ (cmds' = cmds \/ cmds' = Append(cmds, c))
  BY <1>1, <1>2, AudioTime, SentType DEF TypeOK, Row, Shown, app
<1>4. TypeOK'
  BY <1>1, <1>3 DEF TypeOK, engine, app
<1>5. Denied => Denied'
  BY <1>1 DEF Denied
<1>6. /\ PendingIsSwap' /\ StemsOfRow' /\ DeadIsSilent' /\ TrackRight' /\ StemsRight'
      /\ ClockBehind' /\ HeardRight' /\ EvsHonest'
  BY <1>1, <1>2, <1>3, <1>5, PanelAgrees DEF app
<1>7. StateRight'
  <2>1. Kept({"TrackEnded", "PlaybackError"}) /\ c.op \notin Switches
    BY <1>1, <1>2, KeptTail DEF Switches
  <2> QED BY <1>1, <1>2, <1>3, <2>1, StateSent DEF Agree, engine, app
<1> QED BY <1>1, <1>4, <1>6, <1>7 DEF Agree, PlaysHonest

-----------------------------------------------------------------------------
(* Keys. *)

LEMMA KeyTypes ==
    ASSUME Inv, Key
    PROVE  /\ at' = "bg" /\ keys' \in 0..MaxKeys /\ pending = << >>
           /\ UNCHANGED <<alive, engine, faults>>
<1>1. at = "key" /\ keys \in 0..MaxKeys /\ keys < MaxKeys /\ keys' = keys + 1
  BY DEF Key, Inv, TypeOK
<1>2. keys' \in 0..MaxKeys
  BY <1>1, Bounds
<1>3. pending = << >>
  BY <1>1, AudioTime
<1> QED BY <1>2, <1>3 DEF Key

\* Age changes nothing of what an event reports.
LEMMA AgedKeeps ==
    ASSUME TypeOK, evs' = Aged(evs)
    PROVE  (\A S : Kept(S)) /\ (Denied => Denied')
<1>1. DOMAIN evs' = DOMAIN evs /\ \A i \in DOMAIN evs : evs[i] \in AudioEvent
  BY DEF Aged, TypeOK
<1>2. \A i \in DOMAIN evs : evs'[i] = [evs[i] EXCEPT !.old = TRUE]
  BY DEF Aged
<1>3. \A i \in DOMAIN evs : /\ evs'[i].op = evs[i].op
                            /\ evs[i].op = "SwapFailed" => evs'[i].to_stems = evs[i].to_stems
  <2> SUFFICES ASSUME NEW i \in DOMAIN evs
               PROVE  /\ evs'[i].op = evs[i].op
                      /\ evs[i].op = "SwapFailed" => evs'[i].to_stems = evs[i].to_stems
    OBVIOUS
  <2> DEFINE e == evs[i]
             f == [e EXCEPT !.old = TRUE]
  <2>1. e \in AudioEvent /\ evs'[i] = f
    BY <1>1, <1>2
  <2>2. f.op = e.op /\ (e.op = "SwapFailed" => f.to_stems = e.to_stems)
    <3> HIDE DEF e
    <3> QED BY <2>1, EventAges
  <2> QED BY <2>1, <2>2
<1> QED BY <1>1, <1>3 DEF Kept, Reports, Denied

LEMMA ResumeInv ==
    ASSUME Inv, Key, NEW l \in Lists, NEW i \in DOMAIN l,
           resume_or_restart_current(l, i), pending' = pending, jobs' = jobs
    PROVE  Inv'
<1> USE DEF Inv
<1> DEFINE p == now_playing
<1>1. /\ Shown /\ Row = l[i] /\ stems' = stems /\ log' = log
  BY DEF resume_or_restart_current
<1>2. /\ at' = "bg" /\ keys' \in 0..MaxKeys /\ pending = << >>
      /\ UNCHANGED <<alive, engine, faults>>
  BY KeyTypes
<1>3. p \in Panel /\ p.elapsed \in Place /\ i \in Nat
  BY <1>1, RowType, ListType
<1>4. CASE /\ p.state = "Paused" /\ cmds' = Sent([op |-> "Resume"])
           /\ p' = [p EXCEPT !.list = l, !.index = i, !.state = "Playing"]
           /\ UNCHANGED <<evs, heard>>
  <2> DEFINE c == [op |-> "Resume"]
  <2>1. c \in Command /\ c.op = "Resume" /\ cmds' = Sent(c)
    BY <1>4, CommandIntro
  <2> HIDE DEF c
  <2>2. p' \in Panel /\ p'.list = l /\ p'.index = i /\ p'.state = "Playing"
    BY <1>3, <1>4 DEF Panel
  <2>3. Shown' /\ Row' = Row
    BY <1>1, <2>2, NoneIsNone DEF Shown, Row
  <2>4. cmds' \in Seq(Command) /\ (cmds' = cmds \/ cmds' = Append(cmds, c))
    BY <2>1, SentType
  <2>5. TypeOK'
    BY <1>1, <1>2, <1>4, <2>2, <2>4 DEF TypeOK, engine
  <2>6. Denied => Denied'
    BY <1>4 DEF Denied
  <2>7. /\ PendingIsSwap' /\ StemsOfRow' /\ DeadIsSilent' /\ TrackRight' /\ StemsRight'
        /\ ClockBehind' /\ HeardRight' /\ EvsHonest'
    BY <1>1, <1>2, <1>4, <2>1, <2>3, <2>4, <2>6, PanelAgrees
  <2>8. StateRight'
    BY <1>2, <2>1, <2>2, StateNew
  <2> QED BY <1>1, <2>5, <2>7, <2>8 DEF Agree, PlaysHonest
<1>5. CASE /\ p.state = "Playing"
           /\ cmds' = Sent([op |-> "Scrub", delta |-> -now_playing.elapsed - End])
           /\ p' = [p EXCEPT !.list = l, !.index = i, !.elapsed = 0, !.counted = FALSE]
           /\ evs' = Aged(evs) /\ heard' = FALSE
  <2> DEFINE c == [op |-> "Scrub", delta |-> -p.elapsed - End]
  <2>1. -p.elapsed - End \in Int /\ -p.elapsed - End < -1
    BY <1>3, Bounds DEF Place
  <2>2. c \in Command /\ c.op = "Scrub" /\ c.delta < -1 /\ cmds' = Sent(c)
    BY <1>5, <2>1, CommandIntro
  <2> HIDE DEF c
  <2>3. p' \in Panel /\ p'.list = l /\ p'.index = i /\ p'.state = p.state
    <3>1. 0 \in Place
      BY Bounds DEF Place
    <3> QED BY <1>3, <1>5, <3>1 DEF Panel
  <2>4. Shown' /\ Row' = Row
    BY <1>1, <2>3, NoneIsNone DEF Shown, Row
  <2>5. cmds' \in Seq(Command) /\ (cmds' = cmds \/ cmds' = Append(cmds, c))
    BY <2>2, SentType
  <2>6. evs' \in Seq(AudioEvent) /\ \A k \in DOMAIN evs' : evs'[k].old = TRUE
    BY <1>5, AgedType DEF TypeOK
  <2>7. TypeOK'
    BY <1>1, <1>2, <1>5, <2>3, <2>5, <2>6 DEF TypeOK, engine
  <2>8. PendingIsSwap' /\ StemsOfRow' /\ DeadIsSilent' /\ ClockBehind' /\ EvsHonest'
    BY <1>1, <1>2, <2>4, <2>6
       DEF Agree, PendingIsSwap, StemsOfRow, DeadIsSilent, ClockBehind, EvsHonest, engine
  <2>9. HeardRight'
    <3>1. CASE alive
      <4>1. cmds' = Append(cmds, c) /\ cmds \in Seq(Command)
        BY <2>2, <3>1 DEF Sent, TypeOK
      <4>2. Len(cmds) + 1 \in DOMAIN cmds' /\ cmds'[Len(cmds) + 1] = c
        BY <2>2, <4>1, AppendWord
      <4>3. Behind'
        BY <2>2, <4>2 DEF Behind, Starts
      <4> QED BY <4>3 DEF HeardRight
    <3>2. CASE ~alive
      BY <1>2, <2>8, <3>2 DEF DeadIsSilent, HeardRight
    <3> QED BY <3>1, <3>2
  <2>10. (\A S : Kept(S)) /\ (Denied => Denied')
    BY <1>5, AgedKeeps
  <2>11. TrackRight'
    <3>1. \/ cmds' = cmds
          \/ \E d \in Command : /\ d.op \notin {"Play", "Stop", "SwapSource"}
                                /\ cmds' = Append(cmds, d)
      BY <2>2, <2>5
    <3>2. Kept({"PlaybackError"})
      BY <2>10
    <3> QED BY <1>1, <1>2, <2>4, <3>1, <3>2, TrackSent DEF Agree, engine
  <2>12. StateRight'
    <3>1. \/ cmds' = cmds
          \/ \E d \in Command : d.op \notin Switches /\ cmds' = Append(cmds, d)
      BY <2>2, <2>5 DEF Switches
    <3>2. Kept({"TrackEnded", "PlaybackError"})
      BY <2>10
    <3> QED BY <1>1, <1>2, <2>3, <3>1, <3>2, StateSent DEF Agree, engine
  <2>13. StemsRight'
    <3>1. \/ cmds' = cmds
          \/ \E d \in Command : d.op \notin {"Play", "SwapSource"} /\ cmds' = Append(cmds, d)
      BY <2>2, <2>5
    <3> QED BY <1>1, <1>2, <2>4, <2>10, <3>1, StemsSent DEF Agree, engine
  <2> QED BY <1>1, <2>7, <2>8, <2>9, <2>11, <2>12, <2>13 DEF Agree, PlaysHonest
<1> QED BY <1>4, <1>5 DEF resume_or_restart_current

\* A key that starts another track, after a skip or not.
LEMMA StartInv ==
    ASSUME Inv, Key, NEW l \in Lists, NEW i \in DOMAIN l, play_from_playlist(l, i, evs),
           log' = log \/ log' = record_now_playing_skip, pending' = pending, jobs' = jobs
    PROVE  Inv'
<1> USE DEF Inv
<1>1. /\ at' = "bg" /\ keys' \in 0..MaxKeys /\ pending = << >> /\ UNCHANGED <<alive, engine, faults>>
  BY KeyTypes
<1>2. evs \in Seq(AudioEvent)
  BY DEF TypeOK
<1>3. PlaysHonest' /\ log' \subseteq [kind : {"play", "skip"}, earned : BOOLEAN]
  BY SkipHonest DEF TypeOK, PlaysHonest
<1>4. Agree'
  BY <1>1, <1>2, StartAgrees
<1>5. /\ now_playing' \in Panel /\ now_playing'.index \in DOMAIN now_playing'.list
      /\ stems' \in StemsType /\ cmds' \in Seq(Command) /\ evs' \in Seq(AudioEvent)
      /\ heard' \in BOOLEAN
  BY <1>2, StartTypes
<1>6. TypeOK'
  BY <1>1, <1>3, <1>5 DEF TypeOK, StemsType, engine
<1> QED BY <1>3, <1>4, <1>6

LEMMA EnterInv == Inv /\ play_selected_track => Inv'
<1> SUFFICES ASSUME Inv, play_selected_track PROVE Inv'
  OBVIOUS
<1>1. Key /\ pending' = pending /\ jobs' = jobs
  BY DEF play_selected_track
<1>2. PICK r \in Rows : \/ resume_or_restart_current(r[1], r[2])
                        \/ /\ log' = record_now_playing_skip
                           /\ play_from_playlist(r[1], r[2], evs)
  BY DEF play_selected_track
<1>3. r[1] \in Lists /\ r[2] \in DOMAIN r[1]
  BY DEF Rows
<1> QED BY <1>1, <1>2, <1>3, ResumeInv, StartInv

LEMMA PrevInv == Inv /\ prev_track => Inv'
<1> SUFFICES ASSUME Inv, prev_track PROVE Inv'
  OBVIOUS
<1> DEFINE restart == now_playing.elapsed >= Three \/ now_playing.index = 1
           i == IF restart THEN now_playing.index ELSE now_playing.index - 1
<1>1. /\ Key /\ Shown /\ pending' = pending /\ jobs' = jobs
      /\ log' = IF restart THEN log ELSE record_now_playing_skip
      /\ play_from_playlist(now_playing.list, i, evs)
  BY DEF prev_track
<1>2. i \in DOMAIN now_playing.list /\ now_playing.list \in Lists
  BY <1>1, RowType DEF Inv, Panel
<1> HIDE DEF i
<1> QED BY <1>1, <1>2, StartInv

LEMMA NextKeyInv == Inv /\ NextKey => Inv'
<1> SUFFICES ASSUME Inv, NextKey PROVE Inv'
  OBVIOUS
<1> USE DEF Inv
<1>1. /\ Key /\ Shown /\ log' = record_now_playing_skip /\ next_track(evs)
      /\ pending' = pending /\ jobs' = jobs
  BY DEF NextKey
<1>2. /\ at' = "bg" /\ keys' \in 0..MaxKeys /\ pending = << >> /\ UNCHANGED <<alive, engine, faults>>
  BY <1>1, KeyTypes
<1>3. PlaysHonest' /\ log' \subseteq [kind : {"play", "skip"}, earned : BOOLEAN]
  BY <1>1, SkipHonest
<1>4. /\ now_playing' \in Panel \cup {None}
      /\ Shown' => now_playing'.index \in DOMAIN now_playing'.list
      /\ stems' \in StemsType /\ cmds' \in Seq(Command) /\ evs' \in Seq(AudioEvent)
      /\ heard' \in BOOLEAN
      /\ Agree'
  <2>1. evs \in Seq(AudioEvent)
    BY DEF TypeOK
  <2> QED BY <1>1, <1>2, <2>1, NextTrack
<1>5. TypeOK'
  BY <1>1, <1>2, <1>3, <1>4 DEF TypeOK, StemsType, engine
<1> QED BY <1>3, <1>4, <1>5

LEMMA DeviceRowInv == Inv /\ PlayDeviceRow => Inv'
<1> SUFFICES ASSUME Inv, PlayDeviceRow PROVE Inv'
  OBVIOUS
<1> USE DEF Inv
<1>1. /\ Key /\ Shown /\ log' = record_now_playing_skip
      /\ now_playing' = [now_playing EXCEPT !.counted = TRUE]
      /\ reset_stems_for_track_change
      /\ UNCHANGED <<pending, cmds, evs, jobs, heard>>
  BY DEF PlayDeviceRow
<1>2. /\ at' = "bg" /\ keys' \in 0..MaxKeys /\ pending = << >> /\ UNCHANGED <<alive, engine, faults>>
  BY <1>1, KeyTypes
<1>3. PlaysHonest' /\ log' \subseteq [kind : {"play", "skip"}, earned : BOOLEAN]
  BY <1>1, SkipHonest
<1>4. /\ now_playing' \in Panel /\ now_playing'.list = now_playing.list
      /\ now_playing'.index = now_playing.index /\ now_playing'.state = now_playing.state
  BY <1>1, RowType DEF Panel
<1>5. Shown' /\ Row' = Row /\ stems' \in StemsType /\ stems'.status = "Off"
      /\ stems'.job_gen >= stems.job_gen
  BY <1>1, <1>4, NoneIsNone, ResetStems DEF Shown, Row
<1>6. TypeOK'
  BY <1>1, <1>2, <1>3, <1>4, <1>5 DEF TypeOK, StemsType, engine
<1>7. /\ PendingIsSwap' /\ StemsOfRow' /\ DeadIsSilent' /\ TrackRight' /\ StemsRight'
      /\ ClockBehind' /\ HeardRight' /\ EvsHonest'
  BY <1>1, <1>2, <1>5, PanelAgrees
<1>8. StateRight'
  <2>1. Kept({"TrackEnded", "PlaybackError"})
    BY <1>1, KeptTail
  <2> QED BY <1>1, <1>2, <1>4, <1>5, <2>1, StateSent DEF Agree, engine
<1> QED BY <1>3, <1>6, <1>7, <1>8 DEF Agree

LEMMA ToggleInv == Inv /\ toggle_playback => Inv'
<1> SUFFICES ASSUME Inv, toggle_playback PROVE Inv'
  OBVIOUS
<1> USE DEF Inv
<1> DEFINE pause == now_playing.state = "Playing"
           c == [op |-> IF pause THEN "Pause" ELSE "Resume"]
           s == IF pause THEN "Paused" ELSE "Playing"
<1>1. /\ Key /\ Shown /\ cmds' = Sent(c)
      /\ now_playing' = [now_playing EXCEPT !.state = s]
      /\ UNCHANGED <<stems, pending, evs, jobs, heard, log>>
  BY DEF toggle_playback
<1>2. /\ at' = "bg" /\ keys' \in 0..MaxKeys /\ pending = << >> /\ UNCHANGED <<alive, engine, faults>>
  BY <1>1, KeyTypes
<1>3. /\ c \in Command /\ c.op \in {"Pause", "Resume"} /\ (c.op = "Pause" <=> s = "Paused")
      /\ s \in {"Playing", "Paused"}
  BY CommandIntro
<1> HIDE DEF c, s
<1>4. /\ now_playing' \in Panel /\ now_playing'.list = now_playing.list
      /\ now_playing'.index = now_playing.index /\ now_playing'.state = s
  BY <1>1, <1>3, RowType DEF Panel
<1>5. (Shown' <=> Shown) /\ Row' = Row
  BY <1>1, <1>4, NoneIsNone DEF Shown, Row
<1>6. cmds' \in Seq(Command) /\ (cmds' = cmds \/ cmds' = Append(cmds, c))
  BY <1>1, <1>3, SentType
<1>7. TypeOK'
  BY <1>1, <1>2, <1>4, <1>6 DEF TypeOK, engine
<1>8. Denied => Denied'
  BY <1>1 DEF Denied
<1>9. /\ PendingIsSwap' /\ StemsOfRow' /\ DeadIsSilent' /\ TrackRight' /\ StemsRight'
      /\ ClockBehind' /\ HeardRight' /\ EvsHonest'
  BY <1>1, <1>2, <1>3, <1>5, <1>6, <1>8, PanelAgrees
<1>10. StateRight'
  BY <1>1, <1>2, <1>3, <1>4, StateNew
<1> QED BY <1>1, <1>7, <1>9, <1>10 DEF Agree, PlaysHonest

LEMMA ScrubKeyInv == Inv /\ ScrubKey => Inv'
<1> SUFFICES ASSUME Inv, ScrubKey PROVE Inv'
  OBVIOUS
<1> USE DEF Inv
<1>1. PICK d \in {-1, 1} : cmds' = Sent([op |-> "Scrub", delta |-> d])
  BY DEF ScrubKey
<1>2. Key /\ UNCHANGED <<app, evs, jobs, heard, log>>
  BY DEF ScrubKey
<1>3. /\ at' = "bg" /\ keys' \in 0..MaxKeys /\ pending = << >> /\ UNCHANGED <<alive, engine, faults>>
  BY <1>2, KeyTypes
<1> DEFINE c == [op |-> "Scrub", delta |-> d]
<1>4. c \in Command /\ c.op = "Scrub" /\ cmds' = Sent(c)
  BY <1>1, CommandIntro
<1> HIDE DEF c
<1>5. cmds' \in Seq(Command) /\ (cmds' = cmds \/ cmds' = Append(cmds, c))
  BY <1>4, SentType
<1>6. Shown' = Shown /\ Row' = Row
  BY <1>2 DEF Shown, Row, app
<1>7. TypeOK'
  BY <1>2, <1>3, <1>5, <1>6 DEF TypeOK, engine, app
<1>8. Denied => Denied'
  BY <1>2 DEF Denied
<1>9. /\ PendingIsSwap' /\ StemsOfRow' /\ DeadIsSilent' /\ TrackRight' /\ StemsRight'
      /\ ClockBehind' /\ HeardRight' /\ EvsHonest'
  BY <1>2, <1>3, <1>4, <1>5, <1>6, <1>8, PanelAgrees DEF app
<1>10. StateRight'
  <2>1. Kept({"TrackEnded", "PlaybackError"}) /\ c.op \notin Switches
    BY <1>2, <1>4, KeptTail DEF Switches
  <2> QED BY <1>2, <1>3, <1>4, <1>5, <1>6, <2>1, StateSent DEF Agree, engine, app
<1> QED BY <1>2, <1>7, <1>9, <1>10 DEF Agree, PlaysHonest

LEMMA StemKeyInv == Inv /\ press_stem_mode => Inv'
<1> SUFFICES ASSUME Inv, press_stem_mode PROVE Inv'
  OBVIOUS
<1> USE DEF Inv
<1>1. Key /\ UNCHANGED <<now_playing, cmds, evs, heard, log>>
  BY DEF press_stem_mode
<1>2. /\ at' = "bg" /\ keys' \in 0..MaxKeys /\ pending = << >> /\ UNCHANGED <<alive, engine, faults>>
  BY <1>1, KeyTypes
<1>3. /\ stems \in StemsType /\ stems.job_gen \in Nat /\ Shown' = Shown /\ Row' = Row
      /\ jobs \subseteq [gen : Nat, track : Track]
      /\ \A j \in jobs : j.gen <= stems.job_gen
  BY <1>1 DEF TypeOK, StemsType, Shown, Row, Agree, StemsOfRow
<1>4. DeadIsSilent' /\ ClockBehind' /\ HeardRight' /\ EvsHonest'
  BY <1>1, <1>2, <1>3, PanelKept
<1>5. TrackRight'
  <2>1. Kept({"PlaybackError"})
    BY <1>1, KeptTail
  <2> QED BY <1>1, <1>2, <1>3, <2>1, TrackSent DEF Agree, engine
<1>6. StateRight'
  <2>1. Kept({"TrackEnded", "PlaybackError"})
    BY <1>1, KeptTail
  <2> QED BY <1>1, <1>2, <1>3, <2>1, StateSent DEF Agree, engine
<1>7. ASSUME stems' \in StemsType, stems'.status # "Active", StemsOfRow',
             jobs' \subseteq [gen : Nat, track : Track], pending' \in Seq(Command), PendingIsSwap'
      PROVE  Inv'
  <2>1. TypeOK'
    BY <1>1, <1>2, <1>7 DEF TypeOK, StemsType, engine, Shown
  <2>2. StemsRight'
    BY <1>7 DEF StemsRight
  <2> QED BY <1>1, <1>4, <1>5, <1>6, <1>7, <2>1, <2>2 DEF Agree, PlaysHonest
<1> DEFINE gen == stems.job_gen + 1
           n   == [gen |-> gen, track |-> Row]
           s   == [op |-> "SwapSource", to |-> "file", track |-> stems.for_path]
<1>8. CASE /\ stems.status = "Off" /\ Shown
           /\ stems' = [status |-> "Separating", for_path |-> Row, job_gen |-> gen]
           /\ jobs' = jobs \cup {n}
           /\ pending' = pending
  <2>1. Row \in Track /\ gen \in Nat /\ gen > stems.job_gen
    BY <1>3, <1>8, RowType
  <2>2. /\ stems' \in StemsType /\ stems'.status = "Separating" /\ stems'.for_path = Row
        /\ stems'.job_gen = gen
        /\ n \in [gen : Nat, track : Track] /\ n.gen = gen /\ n.track = Row
    BY <1>8, <2>1 DEF StemsType
  <2> HIDE DEF gen, n
  <2>3. StemsOfRow'
    <3>1. \A j \in jobs : j.gen \in Nat /\ j.gen < gen
      BY <1>3, <2>1
    <3> QED BY <1>8, <2>1, <2>2, <3>1 DEF StemsOfRow
  <2>4. jobs' \subseteq [gen : Nat, track : Track]
    BY <1>3, <1>8, <2>2
  <2> QED BY <1>2, <1>7, <1>8, <2>2, <2>3, <2>4 DEF PendingIsSwap
<1>9. CASE /\ stems.status = "Separating"
           /\ stems' = [Off EXCEPT !.job_gen = gen]
           /\ UNCHANGED <<jobs, pending>>
  <2>1. gen \in Nat /\ gen >= stems.job_gen
    BY <1>3
  <2> HIDE DEF gen
  <2>2. stems' \in StemsType /\ stems'.status = "Off" /\ stems'.job_gen >= stems.job_gen
    BY <1>9, <2>1, OffType
  <2>3. StemsOfRow'
    BY <1>9, <2>2, OffOfRow DEF Agree
  <2> QED BY <1>2, <1>3, <1>7, <1>9, <2>2, <2>3 DEF PendingIsSwap
<1>10. CASE /\ stems.status = "Active"
            /\ pending' = Append(pending, s)
            /\ stems' = [Off EXCEPT !.job_gen = stems.job_gen]
            /\ UNCHANGED jobs
  <2>1. Shown /\ stems.for_path = Row /\ Row \in Track
    BY <1>10, RowType DEF Agree, StemsOfRow
  <2>2. s \in Command /\ s.op = "SwapSource" /\ s.track = Row
    BY <2>1, CommandIntro
  <2> HIDE DEF s
  <2>3. stems' \in StemsType /\ stems'.status = "Off" /\ stems'.job_gen >= stems.job_gen
    BY <1>3, <1>10, OffType
  <2>4. StemsOfRow'
    BY <1>10, <2>3, OffOfRow DEF Agree
  <2>5. pending' \in Seq(Command) /\ \A k \in DOMAIN pending' : pending'[k] = s
    <3>1. pending \in Seq(Command) /\ DOMAIN pending = {} /\ pending' = Append(pending, s)
      BY <1>2, <1>10
    <3> QED BY <2>2, <3>1, AppendWord
  <2>6. PendingIsSwap'
    BY <1>2, <1>3, <2>1, <2>2, <2>5 DEF PendingIsSwap
  <2> QED BY <1>3, <1>7, <1>10, <2>3, <2>4, <2>5, <2>6
<1> QED BY <1>8, <1>9, <1>10 DEF press_stem_mode

LEMMA QuitInv == Inv /\ Quit => Inv'
<1> SUFFICES ASSUME Inv, Quit PROVE Inv'
  OBVIOUS
<1> USE DEF Inv
<1>1. /\ at' = "quit" /\ log' = record_now_playing_skip
      /\ now_playing' = None /\ stems' = Off /\ pending' = << >> /\ jobs' = {}
      /\ cmds' = << >> /\ evs' = << >> /\ heard' = FALSE
      /\ player' = None /\ current' = None /\ playing' = FALSE /\ clock' = 0
      /\ UNCHANGED <<alive, keys, faults>>
  BY DEF Quit
<1>2. PlaysHonest' /\ log' \subseteq [kind : {"play", "skip"}, earned : BOOLEAN]
  BY <1>1, SkipHonest
<1>3. stems' \in StemsType /\ stems'.status = "Off" /\ ~Shown' /\ 0 \in Place
  BY <1>1, Bounds DEF Off, StemsType, Shown, Place
<1>4. Agree'
  BY <1>1, <1>3, ClosedAgrees
<1>5. TypeOK'
  <2>1. cmds' \in Seq(Command) /\ evs' \in Seq(AudioEvent) /\ pending' \in Seq(Command)
    BY <1>1
  <2> QED BY <1>1, <1>2, <1>3, <2>1 DEF TypeOK, StemsType
<1> QED BY <1>2, <1>4, <1>5

-----------------------------------------------------------------------------
(* The audio thread. *)

\* It touches nothing of the App.
LEMMA AppKept ==
    ASSUME Agree, UNCHANGED <<app, at, jobs>>
    PROVE  /\ PendingIsSwap' /\ StemsOfRow' /\ Shown' = Shown /\ Row' = Row
           /\ now_playing' = now_playing /\ stems' = stems /\ pending' = pending
BY DEF Agree, PendingIsSwap, StemsOfRow, app, Shown, Row

LEMMA TakeTypes ==
    ASSUME TypeOK, NEW o, Take(o)
    PROVE  /\ alive /\ cmds # << >> /\ Cmd \in Command /\ Cmd.op = o
           /\ cmds' = Tail(cmds) /\ cmds' \in Seq(Command)
BY TailWord DEF Take, Cmd, TypeOK

LEMMA FailsType == TypeOK /\ Fails => faults' \in 0..MaxFaults
BY Bounds DEF TypeOK, Fails

\* A command that starts no listen: the thread is as far behind as before.
LEMMA BehindTaken ==
    ASSUME TypeOK, cmds # << >>, cmds' = Tail(cmds), ~Starts(Head(cmds))
    PROVE  Behind' <=> Behind
<1>1. /\ Head(cmds) = cmds[1]
      /\ \A k \in DOMAIN cmds' : k + 1 \in DOMAIN cmds /\ cmds'[k] = cmds[k + 1]
      /\ \A k \in DOMAIN cmds : k = 1 \/ (k - 1 \in DOMAIN cmds' /\ cmds'[k - 1] = cmds[k])
  BY TailWord DEF TypeOK
<1>2. Behind' <=> \E i \in DOMAIN cmds' : Starts(cmds'[i])
  BY DEF Behind, Starts
<1> QED BY <1>1, <1>2 DEF Behind

\* What the thread says is heard after what it said before.
LEMMA SaidKeeps ==
    ASSUME TypeOK, NEW e \in AudioEvent, evs' = evs \/ evs' = Append(evs, e)
    PROVE  /\ \A S : Kept(S)
           /\ Denied => Denied'
           /\ evs' \in Seq(AudioEvent)
           /\ evs' = Append(evs, e) =>
                  /\ Len(evs) + 1 \in DOMAIN evs' /\ evs'[Len(evs) + 1] = e
                  /\ DOMAIN evs' = DOMAIN evs \cup {Len(evs) + 1}
           /\ \A i \in DOMAIN evs : i \in DOMAIN evs' /\ evs'[i] = evs[i]
<1>1. /\ evs' \in Seq(AudioEvent)
      /\ evs' = Append(evs, e) =>
             /\ Len(evs) + 1 \in DOMAIN evs' /\ evs'[Len(evs) + 1] = e
             /\ DOMAIN evs' = DOMAIN evs \cup {Len(evs) + 1}
      /\ \A i \in DOMAIN evs : i \in DOMAIN evs' /\ evs'[i] = evs[i]
  <2>1. evs \in Seq(AudioEvent)
    BY DEF TypeOK
  <2>2. CASE evs' = Append(evs, e)
    BY <2>1, <2>2, AppendWord
  <2>3. CASE evs' = evs /\ evs' # Append(evs, e)
    BY <2>1, <2>3
  <2> QED BY <2>2, <2>3
<1>2. \A S : Kept(S)
  BY <1>1 DEF Kept, Reports
<1>3. Denied => Denied'
  BY <1>1 DEF Denied
<1> QED BY <1>1, <1>2, <1>3

LEMMA SaidHonest ==
    ASSUME TypeOK, EvsHonest, Shown' = Shown, heard => heard',
           NEW e \in AudioEvent, evs' = evs \/ evs' = Append(evs, e),
           evs' = Append(evs, e) =>
               (Shown /\ Counts(e) /\ ~e.old => heard' \/ Reports({"PlaybackError"}))
    PROVE  EvsHonest'
<1> SUFFICES ASSUME Shown, NEW i \in DOMAIN evs', Counts(evs'[i]), ~evs'[i].old, ~heard'
             PROVE  \E k \in 1..(i - 1) : evs'[k].op = "PlaybackError"
  BY DEF EvsHonest
<1>1. /\ \A k \in DOMAIN evs : k \in DOMAIN evs' /\ evs'[k] = evs[k]
      /\ evs' = Append(evs, e) => /\ evs'[Len(evs) + 1] = e
                                  /\ DOMAIN evs' = DOMAIN evs \cup {Len(evs) + 1}
  BY SaidKeeps
<1>2. DOMAIN evs = 1..Len(evs) /\ Len(evs) \in Nat
  BY DEF TypeOK
<1>3. CASE i \in DOMAIN evs
  <2>1. PICK k \in 1..(i - 1) : evs[k].op = "PlaybackError"
    BY <1>1, <1>3 DEF EvsHonest
  <2>2. k \in DOMAIN evs
    BY <1>2, <1>3
  <2> QED BY <1>1, <2>1, <2>2
<1>4. CASE i \notin DOMAIN evs
  <2>1. evs' = Append(evs, e) /\ i = Len(evs) + 1 /\ evs'[i] = e
    BY <1>1, <1>4
  <2>2. PICK k \in DOMAIN evs : evs[k].op \in {"PlaybackError"}
    BY <2>1 DEF Reports
  <2> QED BY <1>1, <1>2, <2>1, <2>2
<1> QED BY <1>3, <1>4

LEMMA SayType ==
    ASSUME NEW e \in AudioEvent, Say(e)
    PROVE  \E f \in AudioEvent :
               /\ evs' = Append(evs, f) /\ f.op = e.op /\ f.old = Behind
               /\ e.op = "Position" => f.elapsed = e.elapsed
               /\ e.op = "SwapFailed" => f.to_stems = e.to_stems
<1> DEFINE f == [e EXCEPT !.old = Behind]
<1>1. Behind \in BOOLEAN
  BY DEF Behind
<1>2. /\ f \in AudioEvent /\ f.op = e.op /\ f.old = Behind
      /\ e.op = "Position" => f.elapsed = e.elapsed
      /\ e.op = "SwapFailed" => f.to_stems = e.to_stems
  BY <1>1, EventAges
<1>3. evs' = Append(evs, f)
  BY DEF Say
<1> HIDE DEF f
<1> QED BY <1>2, <1>3

\* A thread that is behind nothing and has no source has said so.
LEMMA NoSource ==
    ASSUME TypeOK, TrackRight, alive, Shown, ~Behind, player = None
    PROVE  Reports({"PlaybackError"})
<1>1. \A i \in DOMAIN cmds : cmds[i].op # "Play"
  BY DEF Behind, Starts
<1>2. \A i \in DOMAIN cmds : cmds[i].op # "Stop"
  BY <1>1 DEF TrackRight
<1>3. Silent(cmds, {"Play", "Stop"})
  BY <1>1, <1>2 DEF Silent
<1> QED BY <1>3 DEF TrackRight

LEMMA PlayInv == Inv /\ Play => Inv'
<1> SUFFICES ASSUME Inv, Play PROVE Inv'
  OBVIOUS
<1> USE DEF Inv
<1>1. Take("Play") /\ UNCHANGED <<app, at, alive, jobs, keys, log>> /\ Hears
  BY DEF Play
<1>2. /\ alive /\ cmds # << >> /\ Cmd \in Command /\ Cmd.op = "Play" /\ Cmd.track \in Track
      /\ cmds' = Tail(cmds) /\ cmds' \in Seq(Command)
  BY <1>1, TakeTypes, CommandFields
<1>3. /\ PendingIsSwap' /\ StemsOfRow' /\ Shown' = Shown /\ Row' = Row
      /\ now_playing' = now_playing /\ stems' = stems /\ pending' = pending
  BY <1>1, AppKept
<1>4. heard' \in BOOLEAN /\ (heard => heard') /\ HeardRight'
  BY <1>1 DEF Hears, TypeOK, HeardRight
<1>5. PICK e \in AudioEvent :
        /\ e.op = "PlaybackError"
        /\ \/ /\ player' = 0 /\ clock' = 0 /\ playing' = TRUE
              /\ current' = [track |-> Cmd.track, how |-> "file"]
              /\ UNCHANGED <<evs, faults>>
           \/ /\ Fails /\ player' = None /\ UNCHANGED <<current, playing, clock>>
              /\ evs' = Append(evs, e)
  <2>1. Behind' \in BOOLEAN
    BY DEF Behind
  <2> DEFINE e == [op |-> "PlaybackError", old |-> Behind']
  <2>2. e \in AudioEvent /\ e.op = "PlaybackError"
    BY <2>1, EventIntro
  <2>3. \/ /\ player' = 0 /\ clock' = 0 /\ playing' = TRUE
           /\ current' = [track |-> Cmd.track, how |-> "file"]
           /\ UNCHANGED <<evs, faults>>
        \/ /\ Fails /\ player' = None /\ UNCHANGED <<current, playing, clock>>
           /\ evs' = Append(evs, e)
    BY DEF Play
  <2> HIDE DEF e
  <2> QED BY <2>2, <2>3
<1>6. 0 \in Place /\ 0 # None
  BY Bounds, NoneIsNone DEF Place
<1>7. TypeOK'
  <2>1. evs' \in Seq(AudioEvent)
    BY <1>5, SaidKeeps
  <2>2. faults' \in 0..MaxFaults
    BY <1>5, FailsType DEF TypeOK
  <2>3. player' \in Place \cup {None} /\ clock' \in Place /\ playing' \in BOOLEAN
        /\ current' \in Source \cup {None}
    <3>1. [track |-> Cmd.track, how |-> "file"] \in Source
      BY <1>2 DEF Source
    <3> QED BY <1>5, <1>6, <3>1 DEF TypeOK
  <2> QED BY <1>1, <1>2, <1>3, <1>4, <2>1, <2>2, <2>3 DEF TypeOK
<1>8. DeadIsSilent' /\ ClockBehind'
  BY <1>1, <1>2, <1>5 DEF DeadIsSilent, ClockBehind
<1>9. EvsHonest'
  <2>1. ~Counts(e)
    BY <1>5 DEF Counts
  <2> QED BY <1>3, <1>4, <1>5, <2>1, SaidHonest DEF Agree
<1>10. evs' = Append(evs, e) => \A S : e.op \in S => Reports(S)'
  BY SaidKeeps DEF Reports
<1>11. current' = [track |-> Cmd.track, how |-> "file"] =>
           current' # None /\ current'.track = Cmd.track
  <2>1. [track |-> Cmd.track, how |-> "file"] \in Source
    BY <1>2 DEF Source
  <2> QED BY <2>1, NoneIsNone
<1>12. TrackRight'
  <2>1. \/ Cmd.track = Row => player' # None /\ current' # None /\ current'.track = Row
        \/ Reports({"PlaybackError"})'
    BY <1>5, <1>6, <1>10, <1>11
  <2> QED BY <1>1, <1>2, <1>3, <2>1, TrackTaken DEF Agree, Cmd
<1>13. StateRight'
  <2>1. playing' = TRUE \/ Reports({"TrackEnded", "PlaybackError"})'
    BY <1>5, <1>10
  <2>2. Cmd.op \notin {"Pause", "Resume"} /\ Cmd.op \in Switches
    BY <1>2 DEF Switches
  <2> QED BY <1>1, <1>2, <1>3, <2>1, <2>2, StateTaken DEF Agree, Cmd
<1>14. StemsRight'
  BY <1>1, <1>2, <1>3, StemsTaken DEF Agree, Cmd
<1> QED BY <1>1, <1>3, <1>4, <1>7, <1>8, <1>9, <1>12, <1>13, <1>14 DEF Agree, PlaysHonest

LEMMA SwapInv == Inv /\ SwapSource => Inv'
<1> SUFFICES ASSUME Inv, SwapSource PROVE Inv'
  OBVIOUS
<1> USE DEF Inv
<1>1. Take("SwapSource") /\ UNCHANGED <<app, at, alive, playing, clock, jobs, keys, log>> /\ Hears
  BY DEF SwapSource
<1>2. /\ alive /\ cmds # << >> /\ Cmd \in Command /\ Cmd.op = "SwapSource"
      /\ Cmd.track \in Track /\ Cmd.to \in {"file", "stems"}
      /\ cmds' = Tail(cmds) /\ cmds' \in Seq(Command)
  BY <1>1, TakeTypes, CommandFields
<1>3. /\ PendingIsSwap' /\ StemsOfRow' /\ Shown' = Shown /\ Row' = Row
      /\ now_playing' = now_playing /\ stems' = stems /\ pending' = pending
  BY <1>1, AppKept
<1>4. heard' \in BOOLEAN /\ (heard => heard') /\ HeardRight'
  BY <1>1 DEF Hears, TypeOK, HeardRight
<1> DEFINE src == [track |-> Cmd.track, how |-> Cmd.to]
<1>5. PICK e \in AudioEvent :
        /\ e.op = "SwapFailed" /\ e.to_stems = (Cmd.to = "stems")
        /\ \/ /\ player' = clock /\ current' = src
              /\ UNCHANGED <<evs, faults>>
           \/ /\ Fails /\ UNCHANGED <<player, current>>
              /\ evs' = Append(evs, e)
  <2> DEFINE b == Cmd.to = "stems"
             f == [op |-> "SwapFailed", to_stems |-> b, old |-> FALSE]
  <2>1. b \in BOOLEAN
    OBVIOUS
  <2>2. f \in AudioEvent /\ f.op = "SwapFailed" /\ f.to_stems = b
    <3> HIDE DEF b
    <3> QED BY <2>1, EventIntro
  <2>3. \/ player' = clock /\ current' = src /\ UNCHANGED <<evs, faults>>
        \/ Fails /\ UNCHANGED <<player, current>> /\ Say(f)
    BY DEF SwapSource
  <2> HIDE DEF f, b
  <2>4. CASE player' = clock /\ current' = src /\ UNCHANGED <<evs, faults>>
    BY <2>2, <2>4 DEF b
  <2>5. CASE Fails /\ UNCHANGED <<player, current>> /\ Say(f)
    <3>1. PICK g \in AudioEvent : evs' = Append(evs, g) /\ g.op = "SwapFailed" /\ g.to_stems = b
      BY <2>2, <2>5, SayType
    <3> QED BY <2>5, <3>1 DEF b
  <2> QED BY <2>3, <2>4, <2>5
<1>6. /\ src \in Source /\ src # None /\ src.track = Cmd.track /\ src.how = Cmd.to
      /\ clock \in Place /\ clock # None
  BY <1>2, NoneIsNone DEF Source, TypeOK
<1>7. src.how = "stems" => src = [track |-> Cmd.track, how |-> "stems"]
  BY <1>6
<1> HIDE DEF src
<1>8. TypeOK'
  <2>1. evs' \in Seq(AudioEvent)
    BY <1>5, SaidKeeps
  <2>2. faults' \in 0..MaxFaults
    BY <1>5, FailsType DEF TypeOK
  <2>3. player' \in Place \cup {None} /\ current' \in Source \cup {None}
    BY <1>5, <1>6 DEF TypeOK
  <2> QED BY <1>1, <1>2, <1>3, <1>4, <2>1, <2>2, <2>3 DEF TypeOK
<1>9. DeadIsSilent' /\ ClockBehind'
  BY <1>1, <1>2, <1>5, <1>6 DEF Agree, DeadIsSilent, ClockBehind, Place
<1>10. EvsHonest'
  <2>1. ~Counts(e)
    BY <1>5 DEF Counts
  <2> QED BY <1>3, <1>4, <1>5, <2>1, SaidHonest DEF Agree
<1>11. (\A S : Kept(S)) /\ (Denied => Denied')
  BY <1>5, SaidKeeps
<1>12. TrackRight'
  <2>1. Shown /\ Cmd.track = Row /\ Silent(cmds, {"Play", "Stop"}) =>
            \/ player' # None /\ current' # None /\ current'.track = Row
            \/ Reports({"PlaybackError"})'
    <3>1. CASE player' = clock /\ current' = src
      BY <1>6, <3>1
    <3>2. CASE UNCHANGED <<player, current>>
      <4>1. Kept({"PlaybackError"})
        BY <1>11
      <4> QED BY <1>2, <3>2, <4>1 DEF Agree, TrackRight, Kept
    <3> QED BY <1>5, <3>1, <3>2
  <2> QED BY <1>1, <1>2, <1>3, <2>1, TrackTaken DEF Agree, Cmd
<1>13. StateRight'
  <2>1. Kept({"TrackEnded", "PlaybackError"})
    BY <1>11
  <2>2. Cmd.op \notin Switches /\ Cmd.op \notin {"Play", "Pause", "Resume"}
    BY <1>2 DEF Switches
  <2>3. Shown /\ Silent(cmds, Switches) =>
            \/ playing' <=> now_playing.state = "Playing"
            \/ Reports({"TrackEnded", "PlaybackError"})'
    BY <1>1, <1>2, <2>1 DEF Agree, StateRight, Kept
  <2> QED BY <1>1, <1>2, <1>3, <2>2, <2>3, StateTaken DEF Agree, Cmd
<1>14. StemsRight'
  <2>1. Cmd.to = "stems" /\ Cmd.track = Row =>
            current' = [track |-> Row, how |-> "stems"] \/ Denied'
    <3>1. evs' = Append(evs, e) /\ Cmd.to = "stems" => Denied'
      BY <1>5, SaidKeeps DEF Denied
    <3> QED BY <1>5, <1>6, <1>7, <3>1
  <2> QED BY <1>1, <1>2, <1>3, <2>1, StemsTaken DEF Agree, Cmd
<1> QED BY <1>1, <1>3, <1>4, <1>8, <1>9, <1>10, <1>12, <1>13, <1>14 DEF Agree, PlaysHonest

\* A command that is neither Play nor SwapSource: track and source stay, except that
\* Stop, which is not the last word on a track that is shown, silences it.
LEMMA TakenAgrees ==
    ASSUME TypeOK, Agree, NEW o, Take(o), o \notin {"Play", "SwapSource"},
           UNCHANGED <<app, at, alive, jobs>>, current' = current,
           o # "Stop" => (player # None => player' # None),
           NEW e \in AudioEvent, evs' = evs \/ evs' = Append(evs, e)
    PROVE  PendingIsSwap' /\ StemsOfRow' /\ TrackRight' /\ StemsRight'
<1>1. alive /\ cmds # << >> /\ Cmd.op = o /\ cmds' = Tail(cmds)
  BY TakeTypes
<1>2. /\ PendingIsSwap' /\ StemsOfRow' /\ Shown' = Shown /\ Row' = Row
      /\ now_playing' = now_playing /\ stems' = stems /\ pending' = pending
  BY AppKept
<1>3. (\A S : Kept(S)) /\ (Denied => Denied')
  BY SaidKeeps
<1>4. TrackRight'
  <2>1. Shown /\ o # "Stop" /\ Silent(cmds, {"Play", "Stop"}) =>
            \/ player' # None /\ current' # None /\ current'.track = Row
            \/ Reports({"PlaybackError"})'
    <3>1. Kept({"PlaybackError"})
      BY <1>3
    <3> QED BY <1>1, <3>1 DEF Agree, TrackRight, Kept
  <2> QED BY <1>1, <1>2, <2>1, TrackTaken DEF Agree, Cmd
<1>5. StemsRight'
  BY <1>1, <1>2, <1>3, StemsTaken DEF Agree, Cmd
<1> QED BY <1>2, <1>4, <1>5

\* One that does not decide between playing and paused, either.
LEMMA StateKept ==
    ASSUME TypeOK, Agree, NEW o, Take(o), o \notin Switches,
           UNCHANGED <<app, alive>>, playing' = playing,
           NEW e \in AudioEvent, evs' = evs \/ evs' = Append(evs, e)
    PROVE  StateRight'
<1>1. alive /\ cmds # << >> /\ Cmd.op = o /\ cmds' = Tail(cmds)
  BY TakeTypes
<1>2. Kept({"TrackEnded", "PlaybackError"})
  BY SaidKeeps
<1>3. Cmd.op \notin Switches /\ Cmd.op \notin {"Play", "Pause", "Resume"}
  BY <1>1 DEF Switches
<1>4. Shown /\ Silent(cmds, Switches) =>
          \/ playing' <=> now_playing.state = "Playing"
          \/ Reports({"TrackEnded", "PlaybackError"})'
  BY <1>1, <1>2 DEF Agree, StateRight, Kept
<1> QED BY <1>1, <1>3, <1>4, StateTaken DEF Agree, Cmd, app

LEMMA AnEvent == \E e \in AudioEvent : TRUE
BY EventIntro

LEMMA StopInv == Inv /\ Stop => Inv'
<1> SUFFICES ASSUME Inv, Stop PROVE Inv'
  OBVIOUS
<1> USE DEF Inv
<1>1. /\ Take("Stop") /\ player' = None /\ playing' = FALSE /\ clock' = 0
      /\ UNCHANGED <<app, at, evs, alive, current, jobs, keys, faults, heard, log>>
  BY DEF Stop
<1>2. alive /\ cmds # << >> /\ Cmd.op = "Stop" /\ cmds' = Tail(cmds) /\ cmds' \in Seq(Command)
  BY <1>1, TakeTypes
<1>3. /\ Shown' = Shown /\ now_playing' = now_playing /\ stems' = stems /\ pending' = pending
  BY <1>1, AppKept
<1>4. TypeOK'
  <2>1. 0 \in Place
    BY Bounds DEF Place
  <2> QED BY <1>1, <1>2, <1>3, <2>1 DEF TypeOK
<1>5. DeadIsSilent' /\ ClockBehind' /\ HeardRight' /\ EvsHonest'
  BY <1>1, <1>3 DEF Agree, DeadIsSilent, ClockBehind, HeardRight, EvsHonest
<1>6. PendingIsSwap' /\ StemsOfRow' /\ TrackRight' /\ StemsRight'
  BY <1>1, AnEvent, TakenAgrees
<1>7. StateRight'
  <2>1. Cmd.op \in Switches /\ Cmd.op \notin {"Play", "Pause", "Resume"}
    BY <1>2 DEF Switches
  <2> QED BY <1>1, <1>2, <1>3, <2>1, StateTaken DEF Agree, Cmd
<1> QED BY <1>1, <1>4, <1>5, <1>6, <1>7 DEF Agree, PlaysHonest

LEMMA PauseInv == ASSUME Inv, NEW o \in {"Pause", "Resume"}, Take(o), playing' = (o = "Resume"),
                         UNCHANGED <<app, at, evs, alive, player, current, clock, jobs, keys,
                                     faults, heard, log>>
                  PROVE  Inv'
<1> USE DEF Inv
<1>1. alive /\ cmds # << >> /\ Cmd.op = o /\ cmds' = Tail(cmds) /\ cmds' \in Seq(Command)
  BY TakeTypes
<1>2. /\ Shown' = Shown /\ now_playing' = now_playing /\ stems' = stems /\ pending' = pending
  BY AppKept
<1>3. TypeOK'
  BY <1>1, <1>2 DEF TypeOK
<1>4. DeadIsSilent' /\ ClockBehind' /\ HeardRight' /\ EvsHonest'
  <2>1. Behind' <=> Behind
    BY <1>1, BehindTaken DEF Starts, Cmd
  <2> QED BY <1>2, <2>1 DEF Agree, DeadIsSilent, ClockBehind, HeardRight, EvsHonest
<1>5. PendingIsSwap' /\ StemsOfRow' /\ TrackRight' /\ StemsRight'
  BY AnEvent, TakenAgrees
<1>6. StateRight'
  <2>1. Shown => now_playing.state \in {"Playing", "Paused"}
    BY RowType
  <2>2. o \in Switches
    BY DEF Switches
  <2> QED BY <1>1, <1>2, <2>1, <2>2, StateTaken DEF Agree, Cmd
<1> QED BY <1>3, <1>4, <1>5, <1>6 DEF Agree, PlaysHonest

LEMMA QueryInv == Inv /\ QueryPosition => Inv'
<1> SUFFICES ASSUME Inv, QueryPosition PROVE Inv'
  OBVIOUS
<1> USE DEF Inv
<1> DEFINE f == [op |-> "Position", elapsed |-> clock, old |-> FALSE]
<1>1. Take("QueryPosition") /\ Say(f)
      /\ UNCHANGED <<app, at, alive, engine, jobs, keys, faults, heard, log>>
  BY DEF QueryPosition
<1>2. f \in AudioEvent /\ f.op = "Position" /\ f.elapsed = clock
  BY EventIntro DEF TypeOK
<1> HIDE DEF f
<1>3. PICK e \in AudioEvent :
          evs' = Append(evs, e) /\ e.op = "Position" /\ e.elapsed = clock /\ e.old = Behind
  BY <1>1, <1>2, SayType
<1>4. /\ alive /\ cmds # << >> /\ Cmd.op = "QueryPosition" /\ cmds' = Tail(cmds)
      /\ cmds' \in Seq(Command)
  BY <1>1, TakeTypes
<1>5. /\ Shown' = Shown /\ now_playing' = now_playing /\ stems' = stems /\ pending' = pending
  BY <1>1, AppKept
<1>6. TypeOK'
  <2>1. evs' \in Seq(AudioEvent)
    BY <1>3, SaidKeeps
  <2> QED BY <1>1, <1>4, <1>5, <2>1 DEF TypeOK, engine
<1>7. DeadIsSilent' /\ ClockBehind' /\ HeardRight'
  <2>1. Behind' <=> Behind
    BY <1>4, BehindTaken DEF Starts, Cmd
  <2> QED BY <1>1, <1>5, <2>1 DEF Agree, DeadIsSilent, ClockBehind, HeardRight, engine
<1>8. EvsHonest'
  <2>1. ASSUME Shown, Counts(e), ~e.old PROVE heard' \/ Reports({"PlaybackError"})
    <3>1. clock >= play_threshold /\ ~Behind
      BY <1>3, <2>1 DEF Counts
    <3>2. CASE player = None
      BY <1>4, <2>1, <3>1, <3>2, NoSource DEF Agree
    <3>3. CASE player # None
      <4>1. player >= play_threshold
        BY <3>1, <3>3, Bounds DEF Agree, ClockBehind, TypeOK, Place
      <4> QED BY <1>1, <2>1, <3>1, <3>3, <4>1 DEF Agree, HeardRight
    <3> QED BY <3>2, <3>3
  <2> QED BY <1>1, <1>3, <1>5, <2>1, SaidHonest DEF Agree
<1>9. PendingIsSwap' /\ StemsOfRow' /\ TrackRight' /\ StemsRight'
  BY <1>1, <1>3, TakenAgrees DEF engine
<1>10. StateRight'
  <2>1. "QueryPosition" \notin Switches
    BY DEF Switches
  <2> QED BY <1>1, <1>3, <2>1, StateKept DEF engine
<1> QED BY <1>1, <1>6, <1>7, <1>8, <1>9, <1>10 DEF Agree, PlaysHonest

LEMMA ScrubInv == Inv /\ Scrub => Inv'
<1> SUFFICES ASSUME Inv, Scrub PROVE Inv'
  OBVIOUS
<1> USE DEF Inv
<1> DEFINE new_pos == Clamp(clock + Cmd.delta)
           f == [op |-> "SeekFailed", old |-> FALSE]
<1>1. Take("Scrub") /\ UNCHANGED <<app, at, alive, current, playing, jobs, keys, log>> /\ Hears
  BY DEF Scrub
<1>2. /\ alive /\ cmds # << >> /\ Cmd \in Command /\ Cmd.op = "Scrub" /\ Cmd.delta \in Int
      /\ cmds' = Tail(cmds) /\ cmds' \in Seq(Command)
  BY <1>1, TakeTypes, CommandFields
<1>3. new_pos \in Place /\ new_pos # None
  <2>1. clock + Cmd.delta \in Int
    BY <1>2 DEF TypeOK, Place
  <2>2. new_pos \in Place
    BY <2>1, ClampType
  <2> HIDE DEF new_pos
  <2> QED BY <2>2, NoneIsNone
<1>4. PICK e \in AudioEvent :
        /\ e.op = "SeekFailed"
        /\ \/ player' = new_pos /\ clock' = new_pos /\ UNCHANGED <<evs, faults>>
           \/ Fails /\ UNCHANGED <<player, clock>> /\ evs' = Append(evs, e)
           \/ UNCHANGED <<player, clock, evs, faults>>
  <2>1. f \in AudioEvent /\ f.op = "SeekFailed"
    BY EventIntro
  <2>2. \/ player' = new_pos /\ clock' = new_pos /\ UNCHANGED <<evs, faults>>
        \/ Fails /\ UNCHANGED <<player, clock>> /\ Say(f)
        \/ UNCHANGED <<player, clock, evs, faults>>
    BY DEF Scrub
  <2> HIDE DEF f, new_pos
  <2>3. CASE Fails /\ UNCHANGED <<player, clock>> /\ Say(f)
    <3>1. PICK g \in AudioEvent : evs' = Append(evs, g) /\ g.op = "SeekFailed"
      BY <2>1, <2>3, SayType
    <3> QED BY <2>3, <3>1
  <2> QED BY <2>1, <2>2, <2>3
<1> HIDE DEF new_pos, f
<1>5. /\ Shown' = Shown /\ now_playing' = now_playing /\ stems' = stems /\ pending' = pending
  BY <1>1, AppKept
<1>6. heard' \in BOOLEAN /\ (heard => heard') /\ HeardRight'
  BY <1>1 DEF Hears, TypeOK, HeardRight
<1>7. TypeOK'
  <2>1. evs' \in Seq(AudioEvent)
    BY <1>4, SaidKeeps
  <2>2. faults' \in 0..MaxFaults
    BY <1>4, FailsType DEF TypeOK
  <2>3. player' \in Place \cup {None} /\ clock' \in Place
    BY <1>3, <1>4 DEF TypeOK
  <2> QED BY <1>1, <1>2, <1>5, <1>6, <2>1, <2>2, <2>3 DEF TypeOK
<1>8. DeadIsSilent' /\ ClockBehind'
  BY <1>1, <1>2, <1>3, <1>4 DEF Agree, DeadIsSilent, ClockBehind, Place
<1>9. EvsHonest'
  <2>1. ~Counts(e)
    BY <1>4 DEF Counts
  <2> QED BY <1>4, <1>5, <1>6, <2>1, SaidHonest DEF Agree
<1>10. PendingIsSwap' /\ StemsOfRow' /\ TrackRight' /\ StemsRight'
  BY <1>1, <1>3, <1>4, TakenAgrees
<1>11. StateRight'
  <2>1. "Scrub" \notin Switches
    BY DEF Switches
  <2> QED BY <1>1, <1>4, <2>1, StateKept
<1> QED BY <1>1, <1>6, <1>7, <1>8, <1>9, <1>10, <1>11 DEF Agree, PlaysHonest

\* The end is told only of a source that was played to it.
LEMMA TimeoutInv == Inv /\ Timeout => Inv'
<1> SUFFICES ASSUME Inv, Timeout PROVE Inv'
  OBVIOUS
<1> USE DEF Inv
<1> DEFINE f == [op |-> "TrackEnded", old |-> FALSE]
<1>1. /\ alive /\ cmds = << >> /\ playing /\ player = End
      /\ playing' = FALSE /\ clock' = 0 /\ Say(f)
      /\ UNCHANGED <<app, at, cmds, alive, player, current, jobs, keys, faults, heard, log>>
  BY DEF Timeout
<1>2. f \in AudioEvent /\ f.op = "TrackEnded"
  BY EventIntro
<1> HIDE DEF f
<1>3. PICK e \in AudioEvent : evs' = Append(evs, e) /\ e.op = "TrackEnded"
  BY <1>1, <1>2, SayType
<1>4. /\ PendingIsSwap' /\ StemsOfRow' /\ Shown' = Shown /\ Row' = Row
      /\ now_playing' = now_playing /\ stems' = stems /\ pending' = pending
  BY <1>1, AppKept
<1>5. (\A S : Kept(S)) /\ (Denied => Denied') /\ evs' \in Seq(AudioEvent)
      /\ Len(evs) + 1 \in DOMAIN evs' /\ evs'[Len(evs) + 1] = e
  BY <1>3, SaidKeeps
<1>6. TypeOK'
  <2>1. 0 \in Place
    BY Bounds DEF Place
  <2> QED BY <1>1, <1>4, <1>5, <2>1 DEF TypeOK
<1>7. ~Behind /\ player # None /\ player >= play_threshold /\ player >= 0
  <2>1. ~Behind
    BY <1>1 DEF Behind
  <2>2. End \in Place
    BY Bounds DEF Place
  <2> QED BY <1>1, <2>1, <2>2, Bounds, NoneIsNone
<1>8. DeadIsSilent' /\ ClockBehind'
  BY <1>1, <1>7 DEF Agree, DeadIsSilent, ClockBehind
<1>9. HeardRight'
  <2>1. Behind' <=> Behind
    BY <1>1 DEF Behind, Starts
  <2> QED BY <1>1, <1>4, <2>1 DEF Agree, HeardRight
<1>10. EvsHonest'
  <2>1. Shown => heard
    BY <1>7 DEF Agree, HeardRight
  <2> QED BY <1>1, <1>3, <1>4, <2>1, SaidHonest DEF Agree
<1>11. TrackRight'
  <2>1. Kept({"PlaybackError"})
    BY <1>5
  <2> QED BY <1>1, <1>4, <2>1, TrackSent DEF Agree
<1>12. StateRight'
  <2>1. Reports({"TrackEnded", "PlaybackError"})'
    BY <1>3, <1>5 DEF Reports
  <2> QED BY <1>1, <2>1 DEF StateRight, LastWord
<1>13. StemsRight'
  BY <1>1, <1>4, <1>5, StemsSent DEF Agree
<1> QED BY <1>1, <1>4, <1>6, <1>8, <1>9, <1>10, <1>11, <1>12, <1>13 DEF Agree, PlaysHonest

LEMMA AdvanceInv == Inv /\ Advance => Inv'
<1> SUFFICES ASSUME Inv, Advance PROVE Inv'
  OBVIOUS
<1> USE DEF Inv
<1>1. /\ clock' = Clamp(clock + 1)
      /\ player' = IF player = None THEN None ELSE Clamp(player + 1)
      /\ UNCHANGED <<app, at, cmds, evs, alive, current, playing, jobs, keys, faults, log>>
      /\ Hears
  BY DEF Advance
<1>2. /\ clock \in Place /\ clock' \in Place
      /\ player # None => player \in Place /\ player' \in Place /\ player' # None
  <2>1. clock \in Place /\ (player # None => player \in Place)
    BY DEF TypeOK
  <2>2. clock + 1 \in Int /\ (player # None => player + 1 \in Int)
    BY <2>1 DEF Place
  <2>3. Clamp(clock + 1) \in Place /\ (player # None => Clamp(player + 1) \in Place)
    BY <2>2, ClampType
  <2> QED BY <1>1, <2>1, <2>3, NoneIsNone
<1>3. /\ PendingIsSwap' /\ StemsOfRow' /\ Shown' = Shown /\ Row' = Row
      /\ now_playing' = now_playing /\ stems' = stems /\ pending' = pending
  BY <1>1, AppKept
<1>4. heard' \in BOOLEAN /\ (heard => heard') /\ HeardRight'
  BY <1>1 DEF Hears, TypeOK, HeardRight
<1>5. player = None => player' = None
  BY <1>1
<1>6. TypeOK'
  BY <1>1, <1>2, <1>3, <1>4, <1>5 DEF TypeOK
<1>7. DeadIsSilent'
  BY <1>1, <1>5 DEF Agree, DeadIsSilent
<1>8. ClockBehind'
  BY <1>1, <1>2, <1>5, Bounds DEF Agree, ClockBehind, Clamp, Place
<1>9. EvsHonest'
  BY <1>1, <1>3, <1>4 DEF Agree, EvsHonest
<1>10. TrackRight'
  <2>1. Kept({"PlaybackError"})
    BY <1>1, KeptTail
  <2> QED BY <1>1, <1>2, <1>3, <2>1, TrackSent DEF Agree
<1>11. StateRight'
  <2>1. Kept({"TrackEnded", "PlaybackError"})
    BY <1>1, KeptTail
  <2> QED BY <1>1, <1>3, <2>1, StateSent DEF Agree
<1>12. StemsRight'
  <2>1. Denied => Denied'
    BY <1>1 DEF Denied
  <2> QED BY <1>1, <1>3, <2>1, StemsSent DEF Agree
<1> QED BY <1>1, <1>3, <1>4, <1>6, <1>7, <1>8, <1>9, <1>10, <1>11, <1>12 DEF Agree, PlaysHonest

-----------------------------------------------------------------------------
LEMMA InitInv == Init => Inv
<1> SUFFICES ASSUME Init PROVE Inv
  OBVIOUS
<1>1. /\ now_playing = None /\ stems = Off /\ pending = << >> /\ at = "bg"
      /\ cmds = << >> /\ alive \in BOOLEAN
      /\ player = None /\ current = None /\ playing = FALSE /\ clock = 0
      /\ jobs = {} /\ keys = 0 /\ faults = 0 /\ heard = FALSE /\ log = {}
      /\ evs = IF alive THEN << >> ELSE <<[op |-> "PlaybackError", old |-> FALSE]>>
  BY DEF Init
<1>2. evs \in Seq(AudioEvent)
  <2>1. [op |-> "PlaybackError", old |-> FALSE] \in AudioEvent
    BY EventIntro
  <2> QED BY <1>1, <2>1
<1>3. 0 \in Place /\ Off \in StemsType /\ 0 \in 0..MaxKeys /\ 0 \in 0..MaxFaults /\ ~Shown
  BY <1>1, Bounds DEF Place, Off, StemsType, Shown
<1>4. TypeOK
  <2>1. cmds \in Seq(Command) /\ pending \in Seq(Command)
    BY <1>1
  <2> QED BY <1>1, <1>2, <1>3, <2>1 DEF TypeOK, StemsType
<1>5. stems.status = "Off"
  BY <1>1 DEF Off
<1> QED BY <1>1, <1>3, <1>4, <1>5
        DEF Inv, Agree, PendingIsSwap, StemsOfRow, DeadIsSilent, TrackRight, StateRight, StemsRight,
            ClockBehind, HeardRight, EvsHonest, PlaysHonest

LEMMA NextInv == Inv /\ [Next]_vars => Inv'
<1> SUFFICES ASSUME Inv, [Next]_vars PROVE Inv'
  OBVIOUS
<1>1. CASE StemJob
  BY <1>1, ReadyInv, FailedInv DEF StemJob
<1>2. CASE Frame
  BY <1>2, FlushInv, PositionInv, TrackEndedInv, PlaybackErrorInv, SwapFailedInv, SeekFailedInv,
     EventsDoneInv DEF Frame
<1>3. CASE User
  BY <1>3, EnterInv, DeviceRowInv, ToggleInv, NextKeyInv, PrevInv, ScrubKeyInv, StemKeyInv, QuitInv
     DEF User
<1>4. CASE Thread
  <2>1. CASE Pause \/ Resume
    <3>1. PICK o \in {"Pause", "Resume"} :
            /\ Take(o) /\ playing' = (o = "Resume")
            /\ UNCHANGED <<app, at, evs, alive, player, current, clock, jobs, keys,
                           faults, heard, log>>
      <4>1. CASE Pause
        BY <4>1 DEF Pause
      <4>2. CASE Resume
        BY <4>2 DEF Resume
      <4> QED BY <2>1, <4>1, <4>2
    <3> QED BY <3>1, PauseInv
  <2> QED BY <1>4, <2>1, PlayInv, SwapInv, StopInv, QueryInv, ScrubInv DEF Thread
<1>5. CASE Timeout \/ Advance
  BY <1>5, TimeoutInv, AdvanceInv
<1>6. CASE UNCHANGED vars
  <2>1. /\ TypeOK' /\ PlaysHonest'
    BY <1>6 DEF vars, app, engine, Inv, TypeOK, PlaysHonest, Shown
  <2>2. /\ UNCHANGED <<app, at, cmds, evs, alive, engine, jobs, heard>> /\ Shown' = Shown /\ Row' = Row
    BY <1>6 DEF vars, app, engine, Shown, Row
  <2>3. (\A S : Kept(S)) /\ (Denied => Denied')
    BY <2>2 DEF Kept, Reports, Denied
  <2>4. PendingIsSwap' /\ StemsOfRow'
    BY <2>2, AppKept DEF Inv
  <2>5. DeadIsSilent' /\ ClockBehind' /\ HeardRight' /\ EvsHonest'
    BY <2>2, PanelKept DEF Inv
  <2>6. TrackRight' /\ StateRight' /\ StemsRight'
    <3>1. Kept({"PlaybackError"}) /\ Kept({"TrackEnded", "PlaybackError"})
      BY <2>3
    <3> QED BY <2>2, <2>3, <3>1, TrackSent, StateSent, StemsSent DEF Inv, Agree, engine, app
  <2> QED BY <2>1, <2>4, <2>5, <2>6 DEF Inv, Agree
<1> QED BY <1>1, <1>2, <1>3, <1>4, <1>5, <1>6 DEF Next

\* What the frame loop, the audio thread and their channels keep in every state.
THEOREM Invariance == Spec => []Inv
BY InitInv, NextInv, PTL DEF Spec

-----------------------------------------------------------------------------
\* The variables of the App, both channels, the audio thread and the stem jobs keep
\* their types.
THEOREM PlayerTypes == Spec => []TypeOK
<1>1. Inv => TypeOK
  BY DEF Inv
<1> QED BY <1>1, Invariance, PTL

\* When App and audio thread have heard each other out, the thread plays the track the
\* panel shows, and is paused when it says so, whatever keys, ends, failures and swaps
\* crossed on the two channels.
THEOREM PanelIsHeard == Spec => []ShownIsHeard
<1>1. Inv => ShownIsHeard
  <2> SUFFICES ASSUME Inv, Quiet, Shown, alive
               PROVE  /\ player # None /\ current # None /\ current.track = Row
                      /\ playing <=> now_playing.state = "Playing"
    BY DEF ShownIsHeard
  <2>1. /\ \A S : Silent(cmds, S)
        /\ \A S : ~Reports(S)
    BY DEF Quiet, Silent, Reports
  <2> QED BY <2>1 DEF Inv, Agree, TrackRight, StateRight
<1> QED BY <1>1, Invariance, PTL

\* A strip of stems shows, and plays, the stems of the track of the panel, however late
\* a split or a failed swap comes.
THEOREM StemsHeard == Spec => []StemsAreHeard
<1>1. Inv => StemsAreHeard
  <2> SUFFICES ASSUME Inv, Quiet, Shown, alive, stems.status = "Active"
               PROVE  stems.for_path = Row /\ current = [track |-> Row, how |-> "stems"]
    BY DEF StemsAreHeard
  <2>1. (\A S : Silent(cmds, S)) /\ ~Denied /\ pending = << >>
    BY DEF Quiet, Silent, Denied
  <2> QED BY <2>1 DEF Inv, Agree, StemsRight, StemsOfRow
<1> QED BY <1>1, Invariance, PTL

\* handle_audio_event records a play only for a listen that passed its threshold, or on
\* the word of an event sent before the listen began.
THEOREM HonestPlays == Spec => []PlaysHonest
<1>1. Inv => PlaysHonest
  BY DEF Inv
<1> QED BY <1>1, Invariance, PTL

=============================================================================
