----------------------------- MODULE PlayLedger -----------------------------
(***************************************************************************)
(* Play counts: the sidecar local-plays.json (local_plays.rs), which the   *)
(* TUI and zytunes-serve each read once and overwrite whole at every       *)
(* change, and what counts in it: tracks played in the TUI, counters read  *)
(* from devices, and listens a phone reports (serve.rs, record_play;       *)
(* session.dart, _recordListenFor).                                        *)
(*                                                                         *)
(* Time is counted in the phone's request time-outs (8 s).  Skips are      *)
(* counted as plays are, and are left out.                                 *)
(*                                                                         *)
(* An operator X_Y is X with a plausible mistake.  No specification uses it: *)
(* it is there to be put in the place of X, to see that a property notices.  *)
(***************************************************************************)
EXTENDS Integers, Sequences, FiniteSets, FiniteSetsExt

CONSTANTS Track, Device, None,
          Copied,     \* the tracks that are on the devices
          Cooldown,   \* PLAY_TRACK_COOLDOWN_MS, in time-outs
          WindowMax,  \* PLAY_WINDOW_MAX
          Budgets     \* bounds: acts of the TUI and devices, of phone and server, and faults

\* What is known of a track: the count, and per device the counter last seen.
\* History: the plays that were counted (own), and how many of each device (took).
\* The TUI: its copy, the device of the panel and its list.  The server: its copy, how
\* long ago it admitted a play of each track, and how many in this minute.  What the
\* worker tells the App, and the phone the server.
Entry  == [n : Nat, seen : [Device -> Nat], own : SUBSET Int, took : [Device -> Nat]]
Plays  == [Track -> Entry]
Lists  == [of : [Track -> Nat], real : [Track -> Nat]]
App    == [plays : Plays, key : Device \cup {None}, rows : Lists \cup {None},
           lib : BOOLEAN, up : BOOLEAN, ignore : BOOLEAN]
Notice == [ev : {"detected", "failed", "library"}, of : Device \cup {None}, rows : {None}]
             \cup [ev : {"tracks"}, of : Device, rows : Lists]
Server == [plays : Plays, since : [Track -> Nat], n : Nat]
Report == [listen : Nat \ {0}, track : Track, no : Nat, late : BOOLEAN, waits : BOOLEAN,
           at : {"sent", "admitted", "answered", "error"}]

ASSUME LedgerAssumption ==
    /\ Cooldown \in Nat \ {0} /\ WindowMax \in Nat \ {0}
    /\ Copied \subseteq Track /\ IsFiniteSet(Device)
    /\ IsFiniteSet(Budgets) /\ Budgets # {} /\ Budgets \subseteq [{"tui", "phone", "faults"} -> Nat]
    /\ None \notin Device \cup Track /\ None \notin App \cup Server \cup Lists

VARIABLES disk,     \* the sidecar
          tui,      \* the App, or None
          cmds, events, session,  \* its worker
          counter,  \* device -> track -> what the device says
          serve,    \* zytunes-serve, or None
          posts,    \* requests under way
          phone,    \* the client: listen, track, whether it plays and is past the
                    \* threshold, _countedPlayId
          left, faults,
          hist,     \* history: plays on each device, devices reset, a list that failed
          reported  \* history of listens: recorded, admitted and not answered,
                    \* in doubt, and dropped

app    == <<tui, cmds, events, session>>
remote == <<serve, posts, phone, reported>>
vars   == <<disk, app, counter, remote, left, faults, hist>>

Acts(who) == left[who] > 0 /\ left' = [left EXCEPT ![who] = @ - 1]
Fails == faults > 0 /\ faults' = faults - 1

-----------------------------------------------------------------------------
Zero     == [d \in Device |-> 0]
NoPlays  == [n |-> 0, seen |-> Zero, own |-> {}, took |-> Zero]

record_play(e, id) == [e EXCEPT !.n = @ + 1, !.own = @ \cup {id}]

Beyond(x, y) == IF x > y THEN x - y ELSE 0

\* The first sight of a device only sets the baseline.
merge_device_observation_Later(e, d, observed, real) ==
    [e EXCEPT !.n = IF e.seen[d] = 0 THEN @ ELSE @ + Beyond(observed, e.seen[d]),
              !.seen[d] = observed, !.took[d] = real]

\* Each reading counts in full.
merge_device_observation_Again(e, d, observed, real) ==
    [e EXCEPT !.n = @ + observed, !.seen[d] = observed, !.took[d] = real]

merge_device_observation(e, d, observed, real) ==
    [e EXCEPT !.n = @ + Beyond(observed, e.seen[d]), !.seen[d] = observed, !.took[d] = real]

\* merge_device_plays_into_local: under the key of the device of the panel, the
\* counters of the list of the panel.
Merged(a) ==
    IF a.key = None \/ a.rows = None \/ ~a.lib THEN a
    ELSE [a EXCEPT !.plays = [t \in Track |->
            IF t \in Copied THEN merge_device_observation(@[t], a.key, a.rows.of[t], a.rows.real[t])
                            ELSE @[t]]]

\* The App after a merge or a play, saved.
Saved(a) == tui' = a /\ disk' = a.plays

-----------------------------------------------------------------------------
NoPhone == [listen |-> 0, track |-> None, playing |-> FALSE, past |-> FALSE, counted |-> None]

Init ==
    /\ disk = [t \in Track |-> NoPlays]
    /\ tui = None /\ cmds = <<>> /\ events = <<>> /\ session = None
    /\ counter = [d \in Device |-> [t \in Track |-> 0]] /\ hist = [plays |-> counter, wiped |-> {}, misread |-> FALSE]
    /\ serve = None /\ posts = {} /\ phone = NoPhone
    /\ reported = [done |-> {}, open |-> {}, doubt |-> {}, dropped |-> {}]
    /\ \E b \in Budgets : left = [tui |-> b.tui, phone |-> b.phone] /\ faults = b.faults

-----------------------------------------------------------------------------
(* Devices, away from the computer. *)

PlayOnDevice(d, t) ==
    /\ Acts("tui") /\ session # d
    /\ counter' = [counter EXCEPT ![d][t] = @ + 1] /\ hist' = [hist EXCEPT !.plays[d][t] = @ + 1]
    /\ UNCHANGED <<disk, app, remote, faults>>

\* Restored, or the track deleted and copied again: counters start anew, and the
\* plays not yet read are gone.
ResetDevice(d) ==
    /\ Acts("tui") /\ session # d
    /\ counter' = [counter EXCEPT ![d] = [t \in Track |-> 0]]
    /\ hist' = [hist EXCEPT !.wiped = @ \cup {d}]
    /\ UNCHANGED <<disk, app, remote, faults>>

-----------------------------------------------------------------------------
(* The TUI and its worker, of CommandLoop what concerns the list of the panel. *)

StartTui ==
    /\ Acts("tui") /\ tui = None
    /\ tui' = [plays |-> disk, key |-> None, rows |-> None, lib |-> FALSE, up |-> FALSE, ignore |-> FALSE]
    /\ cmds' = <<"library">>
    /\ UNCHANGED <<disk, events, session, counter, remote, faults, hist>>

\* Also a crash: every change has been saved.
EndTui ==
    /\ tui # None
    /\ tui' = None /\ cmds' = <<>> /\ events' = <<>> /\ session' = None
    /\ UNCHANGED <<disk, counter, remote, left, faults, hist>>

\* record_now_playing_play
PlayHere(t) ==
    /\ Acts("tui") /\ tui # None
    /\ Saved([tui EXCEPT !.plays[t] = record_play(@, -left.tui)])
    /\ UNCHANGED <<cmds, events, session, counter, remote, faults, hist>>

\* c, d, and a reload of the library after a rip.
Press(cmd) ==
    /\ Acts("tui") /\ tui # None /\ cmds' = Append(cmds, cmd)
    /\ \/ cmd = "connect" /\ ~tui.up /\ tui' = [tui EXCEPT !.ignore = FALSE, !.up = TRUE]
       \/ cmd = "disconnect" /\ tui.up
          /\ tui' = [tui EXCEPT !.ignore = TRUE, !.up = FALSE, !.key = None, !.rows = None]
       \/ cmd = "library" /\ UNCHANGED tui
    /\ UNCHANGED <<disk, events, session, counter, remote, faults, hist>>

Emit(es) == events' = events \o es
Event(ev, d) == [ev |-> ev, of |-> d, rows |-> None]
Listing(d) == [ev |-> "tracks", of |-> d, rows |-> [of |-> counter[d], real |-> hist.plays[d]]]

Take(cmd) ==
    /\ cmds # <<>> /\ Head(cmds) = cmd /\ cmds' = Tail(cmds)
    /\ UNCHANGED <<disk, tui, counter, remote, left>>

\* One command from the detection to the list: no other event of the worker comes
\* between.  There may be no device, the open may fail, and so may the list.
Connect ==
    /\ Take("connect")
    /\ \/ Emit(<<Event("failed", None)>>) /\ UNCHANGED <<session, faults, hist>>
       \/ \E d \in Device :
         \/ session' = d /\ Emit(<<Event("detected", d), Listing(d)>>) /\ UNCHANGED <<faults, hist>>
         \/ session' = d /\ Emit(<<Event("detected", d)>>) /\ Fails /\ hist' = [hist EXCEPT !.misread = TRUE]
         \/ session' = None /\ Emit(<<Event("detected", d), Event("failed", d)>>) /\ Fails /\ UNCHANGED hist

Disconnect == Take("disconnect") /\ session' = None /\ UNCHANGED <<events, faults, hist>>
LoadLibrary == Take("library") /\ Emit(<<Event("library", None)>>) /\ UNCHANGED <<session, faults, hist>>

\* A sync or a removal finds the device gone.
DeviceGone ==
    /\ session # None /\ Fails
    /\ session' = None /\ Emit(<<Event("failed", session)>>)
    /\ UNCHANGED <<disk, tui, cmds, counter, remote, left, hist>>

Handle(ev) ==
    /\ events # <<>> /\ Head(events).ev = ev /\ events' = Tail(events)
    /\ UNCHANGED <<cmds, session, counter, remote, left, faults, hist>>

OnDetected ==
    /\ Handle("detected")
    /\ tui' = IF tui.ignore THEN tui ELSE [tui EXCEPT !.key = Head(events).of, !.up = TRUE]
    /\ UNCHANGED disk

\* The list stays.
OnFailed == Handle("failed") /\ tui' = [tui EXCEPT !.key = None, !.up = FALSE] /\ UNCHANGED disk

OnTracks ==
    /\ Handle("tracks")
    /\ IF tui.ignore THEN UNCHANGED <<tui, disk>>
       ELSE Saved(Merged([tui EXCEPT !.rows = Head(events).rows]))

OnLibrary == Handle("library") /\ Saved(Merged([tui EXCEPT !.lib = TRUE]))

-----------------------------------------------------------------------------
(* The phone. *)

Due               == phone.track # None /\ phone.counted # phone.track
Counted(t, p)     == [p EXCEPT !.counted = t]
\* A report; by the number (of the faults left) one given up differs from the next.
Post(l, t)        == [listen |-> l, track |-> t, no |-> faults, at |-> "sent",
                      late |-> FALSE, waits |-> TRUE]
Send(p)           == posts' = posts \cup {Post(p.listen, p.track)}
SendIfDue         == IF Due THEN Send(phone) ELSE UNCHANGED posts
Heard(t)          == [listen |-> left.phone, track |-> t, playing |-> TRUE, past |-> FALSE, counted |-> None]

\* A track is chosen: _playCurrent.
PlayOnPhone(t) ==
    /\ Acts("phone") /\ phone' = Heard(t)
    /\ UNCHANGED <<disk, app, counter, serve, posts, reported, faults, hist>>

\* Playing on, or a seek, across the threshold.
Threshold ==
    /\ phone.track # None /\ phone' = [phone EXCEPT !.past = ~@]
    /\ UNCHANGED <<disk, app, counter, serve, posts, reported, left, faults, hist>>

\* togglePause
TogglePause ==
    /\ phone.track # None /\ phone' = [phone EXCEPT !.playing = ~@]
    /\ UNCHANGED <<disk, app, counter, serve, posts, reported, left, faults, hist>>

\* _onPlaybackTick: an engine that plays goes on to call it; a pause or a seek may.
PlaybackTick ==
    /\ Due /\ phone.past /\ Send(phone) /\ phone' = Counted(phone.track, phone)
    /\ UNCHANGED <<disk, app, counter, serve, reported, left, faults, hist>>

\* _onTrackCompleted, _onHandoff: what is left was heard to its end.
TrackCompleted(t) ==
    /\ Acts("phone") /\ phone.playing /\ phone.past /\ SendIfDue
    /\ phone' = Heard(t)
    /\ UNCHANGED <<disk, app, counter, serve, reported, faults, hist>>

\* _onTrackCompleted of the last track of the queue: the player stays there.
QueueCompleted ==
    /\ phone.playing /\ phone.past /\ SendIfDue
    /\ phone' = [Counted(phone.track, phone) EXCEPT !.playing = FALSE]
    /\ UNCHANGED <<disk, app, counter, serve, reported, left, faults, hist>>

\* A failure leaves the listen counted.
Failed_Counted(p) == phone

\* The track is known by its name: the failure may be of an earlier listen.
Failed(p) == IF phone.counted = p.track THEN Counted(None, phone) ELSE phone

Mistaken(p) == IF phone.counted = p.track /\ phone.listen # p.listen THEN {phone.listen} ELSE {}
Fail(p) == phone' = Failed(p) /\ reported' = [reported EXCEPT !.doubt = @ \cup Mistaken(p)]

Refused(p) ==
    /\ p \in posts /\ p.waits /\ serve = None
    /\ posts' = posts \ {p} /\ Fail(p)
    /\ UNCHANGED <<disk, app, counter, serve, left, faults, hist>>

\* The time-out, or the connection is lost.  The request is not aborted: it may still
\* come to the server, which goes on with what it has begun.
GiveUp(p) ==
    /\ p \in posts /\ p.waits /\ Fails
    /\ posts' = (posts \ {p}) \cup
                   (IF p.at \in {"sent", "admitted"} THEN {[p EXCEPT !.waits = FALSE]} ELSE {})
    /\ Fail(p)
    /\ UNCHANGED <<disk, app, counter, serve, left, hist>>

\* A request given up never comes.
Lost(p) ==
    /\ p \in posts /\ ~p.waits /\ p.at = "sent" /\ posts' = posts \ {p}
    /\ UNCHANGED <<disk, app, counter, serve, phone, reported, left, faults, hist>>

Answer(p) ==
    /\ p \in posts /\ p.at \in {"answered", "error"}
    /\ posts' = posts \ {p}
    /\ \/ p.at = "error" /\ p.waits /\ Fail(p)
       \/ p.at = "answered" /\ p.waits /\ UNCHANGED phone
          /\ reported' = [reported EXCEPT !.open = @ \ {<<p.listen, p.track>>}]
    /\ UNCHANGED <<disk, app, counter, serve, left, faults, hist>>

-----------------------------------------------------------------------------
(* The server. *)

StartServe ==
    /\ Acts("phone") /\ serve = None
    /\ serve' = [plays |-> disk, since |-> [t \in Track |-> Cooldown], n |-> 0]
    /\ UNCHANGED <<disk, app, counter, posts, phone, reported, faults, hist>>

Listens(X) == {x[1] : x \in X}

\* It forgets whom it has admitted; what it admitted may come again, and what it has
\* not got yet may come to the next.
StopServe ==
    /\ serve # None /\ serve' = None
    /\ posts' = {p \in posts : p.at = "sent"}
                  \cup {[p EXCEPT !.at = "error"] : p \in {q \in posts : q.at # "sent" /\ q.waits}}
    /\ reported' = [reported EXCEPT !.doubt = @ \cup Listens(reported.open),
                       !.dropped = @ \cup {p.listen : p \in {q \in posts : q.at # "sent" /\ ~q.waits}}]
    /\ UNCHANGED <<disk, app, counter, phone, left, faults, hist>>

\* Every request is a new play.
Repeat_None(p) == FALSE

Repeat(p) == serve.since[p.track] < Cooldown

\* Reports that were given up, to come after another of the listen was admitted.
TooLate(p) ==
    IF ~p.waits /\ (p.listen \in reported.done \/ \E q \in posts : q.listen = p.listen /\ q.at = "admitted")
    THEN {p.listen} ELSE {}

\* PlayLimiter::admit, with the answers that need nothing more: a repeat is answered
\* although what it repeats may not be recorded yet.
Admit(p) ==
    /\ p \in posts /\ serve # None /\ p.at = "sent"
    /\ LET Reply(at) == posts' = (posts \ {p}) \cup (IF p.waits THEN {[p EXCEPT !.at = at]} ELSE {}) IN
       IF Repeat(p)
         THEN /\ Reply("answered") /\ UNCHANGED serve
              /\ reported' = IF ~p.waits \/ p.listen \in Listens(reported.open) THEN reported
                             ELSE [reported EXCEPT !.dropped = @ \cup {p.listen}]
       ELSE IF serve.n >= WindowMax
         THEN Reply("error") /\ UNCHANGED <<serve, reported>>
       ELSE /\ posts' = (posts \ {p}) \cup {[p EXCEPT !.at = "admitted"]}
            /\ serve' = [serve EXCEPT !.since[p.track] = 0, !.n = @ + 1]
            /\ reported' = [reported EXCEPT !.open = @ \cup {<<p.listen, p.track>>},
                                              !.doubt = @ \cup TooLate(p)]
    /\ UNCHANGED <<disk, app, counter, phone, left, faults, hist>>

\* record_play and save_to under the lock of the plays.
Record(p) ==
    /\ p \in posts /\ serve # None /\ p.at = "admitted"
    /\ serve' = [serve EXCEPT !.plays[p.track] = record_play(@, p.listen)]
    /\ disk' = serve'.plays
    /\ posts' = (posts \ {p}) \cup (IF p.waits THEN {[p EXCEPT !.at = "answered"]} ELSE {})
    /\ reported' = [reported EXCEPT !.done = @ \cup {p.listen}]
    /\ UNCHANGED <<app, counter, phone, left, faults, hist>>

\* A minute is over.
WindowOver ==
    /\ serve # None /\ serve.n > 0 /\ serve' = [serve EXCEPT !.n = 0]
    /\ UNCHANGED <<disk, app, counter, posts, phone, reported, left, faults, hist>>

-----------------------------------------------------------------------------
\* A time-out's time passes; requests that have waited so long have been given up.
Tick ==
    /\ \A p \in posts : p.waits => ~p.late
    /\ posts' = {[p EXCEPT !.late = TRUE] : p \in posts}
    /\ serve' = IF serve = None THEN None
                ELSE [serve EXCEPT !.since = [t \in Track |-> Min({@[t] + 1, Cooldown})]]
    /\ reported' = [reported EXCEPT !.doubt = @ \cup
                      IF serve = None THEN {}
                      ELSE Listens({x \in reported.open : serve.since[x[2]] = Cooldown - 1})]
    /\ UNCHANGED <<disk, app, counter, phone, left, faults, hist>>

Worker == Connect \/ Disconnect \/ LoadLibrary \/ DeviceGone
Panel  == OnDetected \/ OnFailed \/ OnTracks \/ OnLibrary
Tui    == StartTui \/ EndTui \/ (\E t \in Track : PlayHere(t))
          \/ (\E cmd \in {"connect", "disconnect", "library"} : Press(cmd))
Client == Threshold \/ TogglePause \/ PlaybackTick \/ QueueCompleted
          \/ (\E t \in Track : PlayOnPhone(t) \/ TrackCompleted(t))
Net    == \E p \in posts : Refused(p) \/ GiveUp(p) \/ Lost(p) \/ Answer(p)
Serving == StartServe \/ StopServe \/ WindowOver \/ (\E p \in posts : Admit(p) \/ Record(p))

Next ==
    \/ \E d \in Device : ResetDevice(d) \/ (\E t \in Copied : PlayOnDevice(d, t))
    \/ Tui \/ Worker \/ Panel \/ Client \/ Net \/ Serving \/ Tick

Spec == Init /\ [][Next]_vars

\* The ticks of an engine that plays, requests and time-outs, and the server's work,
\* go on.
FairSpec ==
    /\ Spec /\ WF_vars(phone.playing /\ PlaybackTick) /\ WF_vars(Tick) /\ WF_vars(WindowOver)
    /\ WF_vars(Net) /\ WF_vars(\E p \in posts : Admit(p) \/ Record(p))

-----------------------------------------------------------------------------
Copies == {disk} \cup (IF tui = None THEN {} ELSE {tui.plays}) \cup (IF serve = None THEN {} ELSE {serve.plays})

\* The plays of devices D that are in an entry, each of them once.
Taken(e, D) == UNION {{d} \X (1..e.took[d]) : d \in D}
Took(e, D)  == Cardinality(Taken(e, D))

TypeOK ==
    /\ disk \in Plays /\ tui \in App \cup {None} /\ serve \in Server \cup {None}
    /\ cmds \in Seq({"library", "connect", "disconnect"}) /\ session \in Device \cup {None}
    /\ events \in Seq(Notice)
    /\ tui = None => cmds = <<>> /\ events = <<>> /\ session = None
    /\ counter \in [Device -> [Track -> Nat]]
    /\ hist \in [plays : [Device -> [Track -> Nat]], wiped : SUBSET Device, misread : BOOLEAN]
    /\ posts \subseteq Report
    /\ \A p \in posts : ~p.waits => p.at \in {"sent", "admitted"}
    /\ phone \in [listen : Nat, track : Track \cup {None}, playing : BOOLEAN, past : BOOLEAN,
                  counted : Track \cup {None}]
    /\ phone.track # None => phone.listen > 0
    /\ reported \in [done : SUBSET Nat, open : SUBSET (Nat \X Track), doubt : SUBSET Nat, dropped : SUBSET Nat]
    /\ left \in [{"tui", "phone"} -> Nat] /\ faults \in Nat

\* The library's count is the plays in the TUI and of the devices (local_plays.rs:6),
\* and the listens of phones: in the file and in both memories no play is counted
\* twice, whoever overwrote whom, whenever devices and library came and went, and
\* however often a listen was reported.  Except: a listen whose report was not
\* answered for the cooldown, or by a server that stopped, or that was taken for an
\* earlier listen of the track whose report failed, or of which a report the phone
\* had given up came when the cooldown of another was over; and the list of another
\* device left in the panel because a list could not be read.
CountedOnce ==
    ~hist.misread => \A c \in Copies, t \in Track :
        c[t].own \cap reported.doubt = {} => c[t].n <= Cardinality(c[t].own) + Took(c[t], Device)

\* What was played on a device is in every copy that has heard of it, and when the
\* library and a list are there the TUI has heard of all of it: a lost update takes
\* the baseline with the count, and the plays are read again.
DevicePlaysKept ==
    ~hist.misread =>
      /\ \A c \in Copies, t \in Track : c[t].n >= Cardinality(c[t].own) + Took(c[t], Device \ hist.wiped)
      /\ tui # None /\ events = <<>> =>
           (tui.lib /\ tui.rows # None /\ tui.key # None /\ tui.key = session
            => \A t \in Copied : tui.plays[t].took[session] = hist.plays[session][t])

\* A listen past the threshold is recorded, also when requests or answers are lost
\* or the server has too many, unless the phone goes on to another track, the
\* server stops, or another listen of the track had just been recorded; a server
\* that stops may also have answered a retry of what it had not recorded yet.  And
\* unless the report fails and playback has stopped, at a pause or the end of the
\* queue, or gone back before the threshold: only an engine that plays tries again.
ListenCounted ==
    \A l \in 1..Max({b.phone : b \in Budgets}) : (phone.listen = l /\ phone.past) ~>
        (\/ l \in reported.done \cup reported.dropped \/ phone.listen # l \/ serve = None
         \/ Due /\ ~(phone.playing /\ phone.past))

=============================================================================
