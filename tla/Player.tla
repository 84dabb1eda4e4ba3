------------------------------- MODULE Player -------------------------------
(***************************************************************************)
(* Local playback in zytunes-tui: the frame loop (tui/main.rs) with the    *)
(* App's now-playing state (tui/app.rs), the audio thread that owns the    *)
(* output (tui/audio.rs), the two channels between them, and the stem      *)
(* jobs whose splits may take over from the file.  A track is cut into the *)
(* stretches the code tells apart: three seconds, the time to the play     *)
(* threshold, the rest, the end.                                           *)
(***************************************************************************)
EXTENDS Integers, Sequences

CONSTANTS
    Track,      \* library tracks; each has a file
    Lists,      \* the lists Enter is pressed in: sequences of tracks
    None,
    Three, play_threshold, End, \* places in a track: 3000 ms, its threshold, its end
    MaxKeys,    \* bound: keys pressed
    MaxSplits,  \* bound: stem jobs (job_gen)
    MaxFaults   \* bound: files that do not open or decode

Place  == 0..End
Panel  == [list : Lists, index : Nat, elapsed : Place,
           state : {"Playing", "Paused"}, counted : BOOLEAN]
Source == [track : Track, how : {"file", "stems"}]

\* A track counts as played at the latest when half of it is over.
ASSUME PlayerAssumption ==
    /\ Lists \subseteq Seq(Track) \ {<< >>}
    /\ {MaxKeys, MaxSplits, MaxFaults} \subseteq Nat
    /\ {Three, play_threshold, End} \subseteq Nat \ {0} /\ play_threshold < End
    /\ None \notin Track \cup Place \cup Panel \cup Source

Clamp(n) == IF n < 0 THEN 0 ELSE IF n > End THEN End ELSE n

VARIABLES
    now_playing, \* the panel: None, or list, index, elapsed, state, counted
    stems,       \* the App's stem state: status, for_path, job_gen
    pending,     \* pending_audio_commands
    at,          \* where the frame loop is
    cmds, evs,   \* AudioCommands and AudioEvents under way
    alive,       \* the output could be opened
    player,      \* rodio's player: None, or how far its source has come
    current,     \* NowSource: the track, and whether its file or its stems
    playing, clock, \* the audio thread's flag and its own count of the time
    jobs,        \* stem jobs at the worker
    keys, faults,
    heard,       \* this listen has come past the threshold
    log          \* what was written to the sidecar and the listen log

app    == <<now_playing, stems, pending>>
engine == <<player, current, playing, clock>>
vars   == <<app, at, cmds, evs, alive, engine, jobs, keys, faults, heard, log>>

(* An operator X_Y is X with a plausible mistake.  No specification uses it:  *)
(* it is there to be put in the place of X, to see that a property notices.   *)

Off      == [status |-> "Off", for_path |-> None, job_gen |-> 0]
Shown    == now_playing # None
Row      == now_playing.list[now_playing.index]
Rows     == UNION {{l} \X DOMAIN l : l \in Lists}
Quiet    == cmds = << >> /\ evs = << >> /\ pending = << >>

Init ==
    /\ now_playing = None /\ stems = Off /\ pending = << >> /\ at = "bg"
    /\ cmds = << >> /\ alive \in BOOLEAN
    /\ evs = IF alive THEN << >> ELSE <<[op |-> "PlaybackError", old |-> FALSE]>>
    /\ player = None /\ current = None /\ playing = FALSE /\ clock = 0
    /\ jobs = {} /\ keys = 0 /\ faults = 0
    /\ heard = FALSE /\ log = {}

-----------------------------------------------------------------------------
(* The channels.  A send to a thread that is gone is ignored. *)

Sent(c) == IF alive THEN Append(cmds, c) ELSE cmds

\* Behind: the thread has yet to come to the start of the listen the App shows;
\* what it says, and what it said before (Aged), is of an earlier one.
Starts(c) == c.op = "Play" \/ (c.op = "Scrub" /\ c.delta < -1)
Behind    == \E i \in DOMAIN cmds : Starts(cmds[i])
Say(e)    == evs' = Append(evs, [e EXCEPT !.old = Behind])
Aged(q)   == [i \in DOMAIN q |-> [q[i] EXCEPT !.old = TRUE]]

-----------------------------------------------------------------------------
(* The App: what a listen is worth, and the changes of track. *)

Recorded(kind, earned) ==
    IF Shown /\ ~now_playing.counted THEN log \cup {[kind |-> kind, earned |-> earned]} ELSE log

record_now_playing_skip == Recorded("skip", TRUE)

reset_stems_for_track_change_Active ==
    stems' = IF stems.status = "Separating"
             THEN [Off EXCEPT !.job_gen = stems.job_gen + 1] ELSE stems

\* A change of track drops stem playback and detaches a separation.
reset_stems_for_track_change ==
    stems' = [Off EXCEPT !.job_gen = stems.job_gen
                                     + (IF stems.status = "Separating" THEN 1 ELSE 0)]

\* q: the events left.
play_from_playlist(list, index, q) ==
    /\ reset_stems_for_track_change
    /\ cmds' = Sent([op |-> "Play", track |-> list[index]])
    /\ now_playing' = [list |-> list, index |-> index, elapsed |-> 0,
                       state |-> "Playing", counted |-> FALSE]
    /\ heard' = FALSE /\ evs' = Aged(q)

stop_playback(q) ==
    /\ reset_stems_for_track_change
    /\ cmds' = Sent([op |-> "Stop"])
    /\ now_playing' = None
    /\ heard' = FALSE /\ evs' = Aged(q)

next_track(q) ==
    LET next_idx == now_playing.index + 1 IN
    IF next_idx <= Len(now_playing.list)
    THEN play_from_playlist(now_playing.list, next_idx, q)
    ELSE stop_playback(q)

-----------------------------------------------------------------------------
(* The frame: events of the worker, what they queued, audio events, one key. *)

StemsEvent(j) == at \in {"key", "bg"} /\ at' = "bg" /\ j \in jobs /\ jobs' = jobs \ {j}

Waiting(j)    == j.gen = stems.job_gen /\ stems.status = "Separating"
StillPlaying(j) == Shown /\ Row = j.track

on_stems_ready(j) ==
    /\ StemsEvent(j)
    /\ IF Waiting(j) /\ StillPlaying(j)
       THEN /\ pending' = Append(pending, [op |-> "SwapSource", to |-> "stems", track |-> j.track])
            /\ stems' = [stems EXCEPT !.status = "Active"]
       ELSE /\ stems' = IF Waiting(j) THEN [Off EXCEPT !.job_gen = stems.job_gen] ELSE stems
            /\ UNCHANGED pending
    /\ UNCHANGED <<now_playing, cmds, evs, alive, engine, keys, faults, heard, log>>

on_stems_failed(j) ==
    /\ StemsEvent(j)
    /\ stems' = IF j.gen = stems.job_gen THEN [Off EXCEPT !.job_gen = stems.job_gen] ELSE stems
    /\ UNCHANGED <<now_playing, pending, cmds, evs, alive, engine, keys, faults, heard, log>>

Flush ==
    /\ at \in {"key", "bg"} /\ at' = "audio"
    /\ cmds' = IF alive THEN cmds \o pending ELSE cmds
    /\ pending' = << >>
    /\ UNCHANGED <<now_playing, stems, evs, alive, engine, jobs, keys, faults, heard, log>>

Event(op) == at = "audio" /\ evs # << >> /\ Head(evs).op = op

Position ==
    /\ Event("Position")
    /\ evs' = Tail(evs)
    /\ IF Shown
       THEN LET trip == Head(evs).elapsed >= play_threshold IN
            /\ now_playing' = [now_playing EXCEPT !.elapsed = Head(evs).elapsed,
                                                  !.counted = @ \/ trip]
            /\ log' = IF trip THEN Recorded("play", heard \/ Head(evs).old) ELSE log
       ELSE UNCHANGED <<now_playing, log>>
    /\ UNCHANGED <<stems, pending, at, cmds, alive, engine, jobs, keys, faults, heard>>

TrackEnded ==
    /\ Event("TrackEnded")
    /\ log' = Recorded("play", heard \/ Head(evs).old)
    /\ IF Shown THEN next_track(Tail(evs))
       ELSE evs' = Tail(evs) /\ UNCHANGED <<now_playing, stems, cmds, heard>>
    /\ UNCHANGED <<pending, at, alive, engine, jobs, keys, faults>>

PlaybackError_Ends ==
    /\ Event("PlaybackError")
    /\ log' = Recorded("play", heard \/ Head(evs).old)
    /\ evs' = Aged(Tail(evs)) /\ now_playing' = None /\ heard' = FALSE
    /\ reset_stems_for_track_change
    /\ UNCHANGED <<pending, at, cmds, alive, engine, jobs, keys, faults>>

\* Neither a play nor a skip.
PlaybackError ==
    /\ Event("PlaybackError")
    /\ evs' = Aged(Tail(evs)) /\ now_playing' = None /\ heard' = FALSE
    /\ reset_stems_for_track_change
    /\ UNCHANGED <<pending, at, cmds, alive, engine, jobs, keys, faults, log>>

SwapFailed ==
    /\ Event("SwapFailed")
    /\ evs' = Tail(evs)
    /\ stems' = IF Head(evs).to_stems THEN [Off EXCEPT !.job_gen = stems.job_gen] ELSE stems
    /\ UNCHANGED <<now_playing, pending, at, cmds, alive, engine, jobs, keys, faults, heard, log>>

SeekFailed ==
    /\ Event("SeekFailed")
    /\ evs' = Tail(evs)
    /\ UNCHANGED <<app, at, cmds, alive, engine, jobs, keys, faults, heard, log>>

\* The position is asked for in one frame of four; one question at a time is enough here.
Asked == \/ \E i \in DOMAIN cmds : cmds[i].op = "QueryPosition"
         \/ \E i \in DOMAIN evs : evs[i].op = "Position"

EventsDone ==
    /\ at = "audio" /\ evs = << >> /\ at' = "key"
    /\ \/ UNCHANGED cmds
       \/ Shown /\ ~Asked /\ cmds' = Sent([op |-> "QueryPosition"])
    /\ UNCHANGED <<app, evs, alive, engine, jobs, keys, faults, heard, log>>

Key ==
    /\ at = "key" /\ at' = "bg"
    /\ keys < MaxKeys /\ keys' = keys + 1
    /\ UNCHANGED <<alive, engine, faults>>

-----------------------------------------------------------------------------
(* Keys. *)

\* Enter on the track that plays resumes it, or starts a new listen without a Play;
\* either way next and previous follow the list it was pressed in.
resume_or_restart_current(l, i) ==
    /\ Shown /\ Row = l[i]
    /\ \/ /\ now_playing.state = "Paused"
          /\ cmds' = Sent([op |-> "Resume"])
          /\ now_playing' = [now_playing EXCEPT !.list = l, !.index = i, !.state = "Playing"]
          /\ UNCHANGED <<evs, heard>>
       \/ /\ now_playing.state = "Playing"
          /\ cmds' = Sent([op |-> "Scrub", delta |-> -now_playing.elapsed - End])
          /\ now_playing' = [now_playing EXCEPT !.list = l, !.index = i,
                                                !.elapsed = 0, !.counted = FALSE]
          /\ evs' = Aged(evs) /\ heard' = FALSE
    /\ UNCHANGED <<stems, log>>

\* (With nothing shown, Space does the same.)
play_selected_track ==
    /\ Key
    /\ \E r \in Rows : LET l == r[1] i == r[2] IN
          \/ resume_or_restart_current(l, i)
          \/ /\ ~(Shown /\ Row = l[i])
             /\ log' = record_now_playing_skip
             /\ play_from_playlist(l, i, evs)
    /\ UNCHANGED <<pending, jobs>>

\* Enter on a row of the device, which has no file: what plays goes on, but has
\* been told as a skip and has lost its stem state.
PlayDeviceRow ==
    /\ Key /\ Shown
    /\ log' = record_now_playing_skip
    /\ now_playing' = [now_playing EXCEPT !.counted = TRUE]
    /\ reset_stems_for_track_change
    /\ UNCHANGED <<pending, cmds, evs, jobs, heard>>

toggle_playback ==
    /\ Key /\ Shown
    /\ LET pause == now_playing.state = "Playing" IN
       /\ cmds' = Sent([op |-> IF pause THEN "Pause" ELSE "Resume"])
       /\ now_playing' = [now_playing EXCEPT !.state = IF pause THEN "Paused" ELSE "Playing"]
    /\ UNCHANGED <<stems, pending, evs, jobs, heard, log>>

NextKey ==
    /\ Key /\ Shown
    /\ log' = record_now_playing_skip
    /\ next_track(evs)
    /\ UNCHANGED <<pending, jobs>>

prev_track ==
    /\ Key /\ Shown
    /\ LET restart == now_playing.elapsed >= Three \/ now_playing.index = 1 IN
       /\ log' = IF restart THEN log ELSE record_now_playing_skip
       /\ play_from_playlist(now_playing.list,
                             IF restart THEN now_playing.index ELSE now_playing.index - 1, evs)
    /\ UNCHANGED <<pending, jobs>>

ScrubKey ==
    /\ Key /\ Shown
    /\ \E d \in {-1, 1} : cmds' = Sent([op |-> "Scrub", delta |-> d])
    /\ UNCHANGED <<app, evs, jobs, heard, log>>

press_stem_mode ==
    /\ Key
    /\ \/ /\ stems.status = "Off" /\ Shown /\ stems.job_gen < MaxSplits
          /\ LET gen == stems.job_gen + 1 IN
             /\ stems' = [status |-> "Separating", for_path |-> Row, job_gen |-> gen]
             /\ jobs' = jobs \cup {[gen |-> gen, track |-> Row]}
          /\ UNCHANGED pending
       \/ /\ stems.status = "Separating"
          /\ stems' = [Off EXCEPT !.job_gen = stems.job_gen + 1]
          /\ UNCHANGED <<jobs, pending>>
       \/ /\ stems.status = "Active"
          /\ pending' = Append(pending, [op |-> "SwapSource", to |-> "file",
                                         track |-> stems.for_path])
          /\ stems' = [Off EXCEPT !.job_gen = stems.job_gen]
          /\ UNCHANGED jobs
    /\ UNCHANGED <<now_playing, cmds, evs, heard, log>>

\* The loop is left with a last skip (stop_playback), and the process ends.
Quit ==
    /\ at = "key" /\ at' = "quit"
    /\ log' = record_now_playing_skip
    /\ now_playing' = None /\ stems' = Off /\ pending' = << >> /\ jobs' = {}
    /\ cmds' = << >> /\ evs' = << >> /\ heard' = FALSE
    /\ player' = None /\ current' = None /\ playing' = FALSE /\ clock' = 0
    /\ UNCHANGED <<alive, keys, faults>>

-----------------------------------------------------------------------------
(* The audio thread. *)

Take(op) == alive /\ cmds # << >> /\ Head(cmds).op = op /\ cmds' = Tail(cmds)
Cmd      == Head(cmds)

Fails == faults < MaxFaults /\ faults' = faults + 1

\* The place of the source is past the threshold in the listen the App shows.
Hears == heard' = (heard \/ (player' # None /\ player' >= play_threshold /\ ~Behind'))

Play_StillPaused ==
    /\ Take("Play")
    /\ player' = 0 /\ clock' = 0
    /\ current' = [track |-> Cmd.track, how |-> "file"]
    /\ UNCHANGED <<app, at, evs, alive, playing, jobs, keys, faults, log>>
    /\ Hears

Play ==
    /\ Take("Play")
    /\ \/ /\ player' = 0 /\ clock' = 0 /\ playing' = TRUE
          /\ current' = [track |-> Cmd.track, how |-> "file"]
          /\ UNCHANGED <<evs, faults>>
       \/ /\ Fails /\ player' = None /\ UNCHANGED <<current, playing, clock>>
          /\ evs' = Append(evs, [op |-> "PlaybackError", old |-> Behind'])
    /\ UNCHANGED <<app, at, alive, jobs, keys, log>>
    /\ Hears

\* The incoming source is built at the thread's own position before the old one is stopped.
SwapSource ==
    /\ Take("SwapSource")
    /\ \/ /\ player' = clock /\ current' = [track |-> Cmd.track, how |-> Cmd.to]
          /\ UNCHANGED <<evs, faults>>
       \/ /\ Fails /\ UNCHANGED <<player, current>>
          /\ Say([op |-> "SwapFailed", to_stems |-> Cmd.to = "stems", old |-> FALSE])
    /\ UNCHANGED <<app, at, alive, playing, clock, jobs, keys, log>>
    /\ Hears

Stop ==
    /\ Take("Stop")
    /\ player' = None /\ playing' = FALSE /\ clock' = 0
    /\ UNCHANGED <<app, at, evs, alive, current, jobs, keys, faults, heard, log>>

Pause ==
    /\ Take("Pause") /\ playing' = FALSE
    /\ UNCHANGED <<app, at, evs, alive, player, current, clock, jobs, keys, faults, heard, log>>

Resume ==
    /\ Take("Resume") /\ playing' = TRUE
    /\ UNCHANGED <<app, at, evs, alive, player, current, clock, jobs, keys, faults, heard, log>>

QueryPosition ==
    /\ Take("QueryPosition")
    /\ Say([op |-> "Position", elapsed |-> clock, old |-> FALSE])
    /\ UNCHANGED <<app, at, alive, engine, jobs, keys, faults, heard, log>>

Scrub_Swallow ==
    /\ Take("Scrub")
    /\ LET new_pos == Clamp(clock + Cmd.delta) IN
       \/ /\ current # None /\ player' = new_pos /\ clock' = new_pos
          /\ UNCHANGED <<evs, faults>>
       \/ /\ current # None /\ Fails /\ player' = None /\ clock' = new_pos
          /\ UNCHANGED evs
       \/ /\ current = None /\ UNCHANGED <<player, clock, evs, faults>>
    /\ UNCHANGED <<app, at, alive, current, playing, jobs, keys, log>>
    /\ Hears

Scrub ==
    /\ Take("Scrub")
    /\ LET new_pos == Clamp(clock + Cmd.delta) IN
       \/ /\ current # None /\ player' = new_pos /\ clock' = new_pos
          /\ UNCHANGED <<evs, faults>>
       \/ /\ current # None /\ Fails /\ UNCHANGED <<player, clock>>
          /\ Say([op |-> "SeekFailed", old |-> FALSE])
       \/ /\ current = None /\ UNCHANGED <<player, clock, evs, faults>>
    /\ UNCHANGED <<app, at, alive, current, playing, jobs, keys, log>>
    /\ Hears

\* No command for 100 ms.
Timeout ==
    /\ alive /\ cmds = << >>
    /\ playing /\ player = End
    /\ playing' = FALSE /\ clock' = 0
    /\ Say([op |-> "TrackEnded", old |-> FALSE])
    /\ UNCHANGED <<app, at, cmds, alive, player, current, jobs, keys, faults, heard, log>>

\* The music, and the thread's clock, which goes on whether there is any or not.
Advance ==
    /\ playing /\ (clock < End \/ player \in 0..(End - 1))
    /\ clock' = Clamp(clock + 1)
    /\ player' = IF player = None THEN None ELSE Clamp(player + 1)
    /\ UNCHANGED <<app, at, cmds, evs, alive, current, playing, jobs, keys, faults, log>>
    /\ Hears

-----------------------------------------------------------------------------
StemJob == \E j \in jobs : on_stems_ready(j) \/ on_stems_failed(j)

Frame == Flush \/ Position \/ TrackEnded \/ PlaybackError \/ SwapFailed \/ SeekFailed
         \/ EventsDone

User == play_selected_track \/ PlayDeviceRow \/ toggle_playback \/ NextKey \/ prev_track
        \/ ScrubKey \/ press_stem_mode \/ Quit

Thread == Play \/ SwapSource \/ Stop \/ Pause \/ Resume \/ QueryPosition \/ Scrub

Next == StemJob \/ Frame \/ User \/ Thread \/ Timeout \/ Advance

\* The loop and the thread go on, time passes; and since the position is asked for
\* every 200 ms, a thread with nothing else to do has its 100 ms of silence.
Fairness ==
    /\ WF_vars(Frame) /\ WF_vars(Thread) /\ WF_vars(Advance) /\ SF_vars(Timeout)

Spec == Init /\ [][Next]_vars /\ Fairness

-----------------------------------------------------------------------------
(* Properties. *)

Command ==
    [op : {"Play"}, track : Track] \cup [op : {"Scrub"}, delta : Int]
    \cup [op : {"SwapSource"}, to : {"file", "stems"}, track : Track]
    \cup [op : {"Stop", "Pause", "Resume", "QueryPosition"}]

AudioEvent ==
    [op : {"TrackEnded", "PlaybackError", "SeekFailed"}, old : BOOLEAN]
    \cup [op : {"Position"}, elapsed : Place, old : BOOLEAN]
    \cup [op : {"SwapFailed"}, to_stems : BOOLEAN, old : BOOLEAN]

\* Types of the App, the channels, the audio thread and the stem jobs.
TypeOK ==
    /\ now_playing \in Panel \cup {None}
    /\ Shown => now_playing.index \in DOMAIN now_playing.list
    /\ stems \in [status : {"Off", "Separating", "Active"},
                  for_path : Track \cup {None}, job_gen : Nat]
    /\ pending \in Seq(Command) /\ cmds \in Seq(Command) /\ evs \in Seq(AudioEvent)
    /\ at \in {"bg", "audio", "key", "quit"} /\ alive \in BOOLEAN
    /\ player \in Place \cup {None} /\ clock \in Place /\ playing \in BOOLEAN
    /\ current \in Source \cup {None}
    /\ jobs \subseteq [gen : Nat, track : Track]
    /\ keys \in 0..MaxKeys /\ faults \in 0..MaxFaults /\ heard \in BOOLEAN
    /\ log \subseteq [kind : {"play", "skip"}, earned : BOOLEAN]

\* Once the two threads have heard each other out, the track the panel shows is the
\* one the audio thread plays, and it is paused in the one when it is in the other:
\* no order of keys, ends, failures and swaps leaves a panel playing over silence
\* (the phantom Playing state of the comment in Scrub), or over another song.
ShownIsHeard ==
    Quiet /\ Shown /\ alive =>
        /\ player # None /\ current # None /\ current.track = Row
        /\ playing <=> now_playing.state = "Playing"

\* A strip of stems is a strip of this track's stems, and they are what is heard.
StemsAreHeard ==
    Quiet /\ Shown /\ alive /\ stems.status = "Active" =>
        /\ stems.for_path = Row
        /\ current = [track |-> Row, how |-> "stems"]

\* A play goes to the sidecar and the log for a track that has been heard past its
\* threshold in this listen, or on the word of an event sent before the listen began.
PlaysHonest == \A e \in log : e.kind = "play" => e.earned

\* Left alone, what plays comes to its end, and so does the list.
PlaysOut == <>[](alive /\ Shown => now_playing.state = "Paused")
=============================================================================
