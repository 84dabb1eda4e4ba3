----------------------------- MODULE TagManager -----------------------------
(***************************************************************************)
(* The tag manager of the TUI: the overlay that looks an album or a track  *)
(* up at MusicBrainz, shows the difference, and has the worker write tags  *)
(* and rename files; the worker, which answers requests one by one; and    *)
(* the music files, with the temporary copies tags are written to.         *)
(*                                                                         *)
(* A file is [song, tags, whole]; tags are the release they were written   *)
(* from.  The music may lie on several file systems.  What MusicBrainz and AcoustID answer is any answer they can give.*)
(***************************************************************************)
EXTENDS Integers, Sequences, FiniteSets

CONSTANTS Paths, Songs, Releases,
          Places,      \* the files to begin with: song -> path
          Volume,      \* path -> the file system it is on
          Named,       \* release -> (song -> the path its name gives it)
          Selections,  \* the albums and tracks an overlay can be opened on
          MaxTokens,   \* bound: requests of one run of the program
          MaxFaults    \* bound: ends of the process, failing writes

ASSUME TagAssumption ==
    /\ Places \in [Songs -> Paths]
    /\ \A s, t \in Songs : Places[s] = Places[t] => s = t
    /\ Named \in [Releases -> [Songs -> Paths]]
    /\ Selections \subseteq SUBSET Songs
    /\ "none" \notin Songs
    /\ MaxTokens \in Nat \ {0} /\ MaxFaults \in Nat

VARIABLES fs,       \* path -> music file
          tmp,      \* path -> its .tagtmp, if there is one
          known,    \* path -> what the cache has of the file
          lib,      \* the App's library
          ov,       \* the overlay
          token,    \* REQUEST_TOKEN_COUNTER
          requests, \* channel to the worker
          w,        \* the worker
          answers,  \* channel to the App
          dropped,  \* tokens of commands a running sync threw away
          halfway,  \* history: see Follow
          faults

tagVars == <<fs, tmp, known, lib, ov, token, requests, w, answers, dropped, halfway, faults>>
Disk == <<fs, tmp, known, halfway>>

NoFile == [song |-> "none", tags |-> "none", whole |-> TRUE]
NoRelease == "no release"
Closed == [phase |-> "Closed", token |-> 0, sel |-> {}, hits |-> {}, asked |-> NoRelease,
           of |-> NoRelease, diff |-> {}]
Idle == [pc |-> "idle", token |-> 0, of |-> NoRelease, tracks |-> {}, skipped |-> {},
         at |-> {}, todo |-> {}, moved |-> {}]

TagInit ==
    /\ fs = [p \in Paths |-> IF \E s \in Songs : Places[s] = p
                             THEN [song |-> CHOOSE s \in Songs : Places[s] = p,
                                   tags |-> "old", whole |-> TRUE]
                             ELSE NoFile]
    /\ tmp = [p \in Paths |-> FALSE]
    /\ known = fs
    /\ lib = fs
    /\ ov = Closed
    /\ token = 1
    /\ requests = <<>>
    /\ w = Idle
    /\ answers = <<>>
    /\ dropped = {}
    /\ halfway = {}
    /\ faults = [n |-> 0, litter |-> FALSE]

Pending == {"SearchPending", "LoadingRelease", "Applying"}

(* next_request_token and the command it is stamped on.                    *)
Request(o, cmd) ==
    /\ token < MaxTokens
    /\ token' = token + 1
    /\ ov' = [o EXCEPT !.token = token]
    /\ requests' = Append(requests, [cmd EXCEPT !.token = token])

Ask(kind) == [kind |-> kind, token |-> 0, of |-> NoRelease, tracks |-> {}]
AskRelease(r) == [Ask("details") EXCEPT !.of = r]

(***************************************************************************)
(* Keys.                                                                   *)
(***************************************************************************)
OpenTagManager ==
    /\ ov = Closed
    /\ \E sel \in Selections :
          LET fresh == [Closed EXCEPT !.phase = "SearchPending", !.sel = sel]
          IN \/ \E r \in Releases : Request([fresh EXCEPT !.phase = "LoadingRelease", !.asked = r],
                                            AskRelease(r))
             \/ Request(fresh, Ask("acoustid"))
             \/ Request(fresh, Ask("search"))
    /\ UNCHANGED <<Disk, lib, w, answers, dropped, faults>>

(* q closes, but not while files are being written; Esc closes what is     *)
(* pending; any key closes the end.                                        *)
MayClose(phase) == phase \notin {"Closed", "Applying"}

CloseTagManager ==
    /\ MayClose(ov.phase)
    /\ ov' = Closed
    /\ UNCHANGED <<Disk, lib, token, requests, w, answers, dropped, faults>>

(* Esc and s lead back; the diff and the token stay.                       *)
Back ==
    /\ \/ /\ ov.phase \in {"SearchResults", "DiffPreview", "Error"}
          /\ ov' = [ov EXCEPT !.phase = "SearchInput"]
       \/ /\ ov.phase = "DiffPreview"
          /\ ov.hits # {}
          /\ ov' = [ov EXCEPT !.phase = "SearchResults"]
    /\ UNCHANGED <<Disk, lib, token, requests, w, answers, dropped, faults>>

Search ==
    /\ ov.phase = "SearchInput"
    /\ Request([ov EXCEPT !.phase = "SearchPending", !.asked = NoRelease], Ask("search"))
    /\ UNCHANGED <<Disk, lib, w, answers, dropped, faults>>

Pick ==
    /\ ov.phase = "SearchResults"
    /\ \E r \in ov.hits :
          Request([ov EXCEPT !.phase = "LoadingRelease", !.asked = r], AskRelease(r))
    /\ UNCHANGED <<Disk, lib, w, answers, dropped, faults>>

(* Enter, with the fields the user has left enabled.                       *)
Confirm ==
    /\ ov.phase = "DiffPreview"
    /\ \E tag, ren \in SUBSET {e.src : e \in ov.diff} :
          LET chosen == {[e EXCEPT !.tag = e.src \in tag,
                                   !.ren = e.src \in ren /\ e.dest # e.src] : e \in ov.diff}
          IN IF \A e \in chosen : ~e.tag /\ ~e.ren
             THEN ov' = Closed /\ UNCHANGED <<token, requests>>
             ELSE Request([ov EXCEPT !.phase = "Applying", !.diff = chosen],
                          [Ask("apply") EXCEPT !.of = ov.of, !.tracks = chosen])
    /\ UNCHANGED <<Disk, lib, w, answers, dropped, faults>>

(***************************************************************************)
(* The worker.                                                             *)
(***************************************************************************)
Tell(ev) == answers' = Append(answers, ev)
Note(kind, t, r) == [kind |-> kind, token |-> t, of |-> r, hits |-> {}, ok |-> TRUE, lib |-> lib]
Answer(cmd) == Note(cmd.kind, cmd.token, cmd.of)

(* A request is answered with an error or with any of what the services    *)
(* can say; a recording without releases stands for hits that need a       *)
(* second question.                                                        *)
Respond ==
    /\ w.pc = "idle" /\ requests # <<>>
    /\ Head(requests).kind # "apply"
    /\ requests' = Tail(requests)
    /\ LET cmd == Head(requests)
       IN \/ Tell([Answer(cmd) EXCEPT !.ok = FALSE])
          \/ /\ cmd.kind = "details"
             /\ Tell(Answer(cmd))
          \/ /\ cmd.kind # "details"
             /\ \E hits \in {{}, Releases} : Tell([Answer(cmd) EXCEPT !.hits = hits])
          \/ /\ cmd.kind = "acoustid"
             /\ \E next \in {"recording", "search"} : Tell([Answer(cmd) EXCEPT !.of = next])
    /\ UNCHANGED <<Disk, lib, ov, token, w, dropped, faults>>

(* drain_sync_commands: a sync that runs reads the channel and throws away *)
(* what is not its own.                                                    *)
DropCommand ==
    /\ w.pc = "idle" /\ requests # <<>>
    /\ requests' = Tail(requests)
    /\ dropped' = dropped \cup {Head(requests).token}
    /\ UNCHANGED <<Disk, lib, ov, token, w, answers, faults>>

(* Phase 0: entries that would land on one path, or on a file that is not  *)
(* itself renamed in this batch, are left out.                             *)
Renaming(tracks) == {e \in tracks : e.ren}
Sources(tracks) == {e.src : e \in Renaming(tracks)}
Collides_Batch(e, tracks) == \E o \in Renaming(tracks) \ {e} : o.dest = e.dest

Collides(e, tracks) ==
    \/ \E o \in Renaming(tracks) \ {e} : o.dest = e.dest
    \/ fs[e.dest] # NoFile /\ e.dest \notin Sources(tracks)

Apply ==
    /\ w.pc = "idle" /\ requests # <<>>
    /\ Head(requests).kind = "apply"
    /\ requests' = Tail(requests)
    /\ LET tracks == Head(requests).tracks
           skipped == {e \in Renaming(tracks) : Collides(e, tracks)}
       IN w' = [Idle EXCEPT !.pc = "tags", !.token = Head(requests).token, !.of = Head(requests).of,
                            !.tracks = tracks, !.skipped = skipped,
                            !.todo = {e \in tracks \ skipped : e.tag}]
    /\ UNCHANGED <<Disk, lib, ov, token, answers, dropped, faults>>

Fault == faults.n < MaxFaults /\ faults' = [faults EXCEPT !.n = @ + 1]
Litter == faults.n < MaxFaults /\ faults' = [n |-> faults.n + 1, litter |-> TRUE]

(* Phase 1: a copy next to the file; the tags written there; then the copy *)
(* renamed over the file.  A failure after the copy removes it; a copy     *)
(* that breaks off stays.                                                  *)
Draft_InPlace(p) ==
    /\ tmp' = [tmp EXCEPT ![p] = TRUE]
    /\ fs' = [fs EXCEPT ![p].whole = FALSE]
Draft(p) == tmp' = [tmp EXCEPT ![p] = TRUE] /\ UNCHANGED fs

Discard(p) == tmp' = [tmp EXCEPT ![p] = FALSE]

CopyForTags ==
    /\ w.pc = "tags" /\ w.at = {}
    /\ \E e \in w.todo :
          \/ /\ fs[e.src] # NoFile
             /\ Draft(e.src)
             /\ w' = [w EXCEPT !.at = {e}, !.todo = @ \ {e}]
             /\ UNCHANGED faults
          \/ /\ \/ fs[e.src] = NoFile /\ UNCHANGED faults /\ Discard(e.src)
                \/ Fault /\ Discard(e.src)
                \/ Litter /\ tmp' = [tmp EXCEPT ![e.src] = TRUE]
             /\ w' = [w EXCEPT !.todo = @ \ {e}]
             /\ UNCHANGED fs
    /\ UNCHANGED <<known, lib, ov, token, requests, answers, dropped, halfway>>

WriteThenSwap ==
    /\ w.pc = "tags"
    /\ \E e \in w.at :
          \/ /\ fs' = [fs EXCEPT ![e.src].tags = w.of]
             /\ tmp' = [tmp EXCEPT ![e.src] = FALSE]
             /\ UNCHANGED faults
          \/ /\ Fault
             /\ Discard(e.src)
             /\ UNCHANGED fs
    /\ w' = [w EXCEPT !.at = {}]
    /\ UNCHANGED <<known, lib, ov, token, requests, answers, dropped, halfway>>

TagsWritten ==
    /\ w.pc = "tags" /\ w.at = {} /\ w.todo = {}
    /\ w' = [w EXCEPT !.pc = "renames", !.todo = Renaming(w.tracks) \ w.skipped]
    /\ UNCHANGED <<Disk, lib, ov, token, requests, answers, dropped, faults>>

(* Phase 2: the renames, in the order of the diff, which is any order.     *)
(* halfway: the paths a move between file systems was made to and not      *)
(* finished, and those such a file was renamed to later.                   *)
Across(e) == Volume[e.src] # Volume[e.dest]
Follow(e) == (halfway \ {e.src, e.dest}) \cup {p \in {e.dest} : e.src \in halfway}

Renamed(e) == [w EXCEPT !.at = {}, !.todo = @ \ {e}, !.moved = @ \cup {e.dest}]

Rename ==
    /\ w.pc = "renames" /\ w.at = {}
    /\ \E e \in w.todo :
          \/ /\ fs[e.src] # NoFile /\ ~Across(e)
             /\ fs' = [fs EXCEPT ![e.dest] = fs[e.src], ![e.src] = NoFile]
             /\ halfway' = Follow(e)
             /\ w' = Renamed(e)
             /\ UNCHANGED faults
          \/ /\ Fault \/ (fs[e.src] = NoFile /\ UNCHANGED faults)
             /\ w' = [w EXCEPT !.todo = @ \ {e}]
             /\ UNCHANGED <<fs, halfway>>
    /\ UNCHANGED <<tmp, known, lib, ov, token, requests, answers, dropped>>

(* Between file systems: the file is copied to its new path,               *)
CopyAcross ==
    /\ w.pc = "renames" /\ w.at = {}
    /\ \E e \in w.todo :
          /\ fs[e.src] # NoFile /\ Across(e)
          /\ fs' = [fs EXCEPT ![e.dest] = [fs[e.src] EXCEPT !.whole = FALSE]]
          /\ halfway' = halfway \cup {e.dest}
          /\ w' = [w EXCEPT !.at = {e}, !.todo = @ \ {e}]
    /\ UNCHANGED <<tmp, known, lib, ov, token, requests, answers, dropped, faults>>

(* which may break off,                                                    *)
EndCopy ==
    /\ w.pc = "renames"
    /\ \E e \in w.at :
          \/ /\ fs' = [fs EXCEPT ![e.dest] = fs[e.src]]
             /\ w' = [w EXCEPT !.pc = "removal"]
             /\ UNCHANGED faults
          \/ /\ Fault
             /\ w' = [w EXCEPT !.at = {}]
             /\ UNCHANGED fs
    /\ UNCHANGED <<tmp, known, lib, ov, token, requests, answers, dropped, halfway>>

(* and removed where it was, if that can be done.                          *)
RemoveSource ==
    /\ w.pc = "removal"
    /\ \E e \in w.at :
          \/ /\ fs' = [fs EXCEPT ![e.src] = NoFile]
             /\ halfway' = Follow(e)
             /\ w' = [Renamed(e) EXCEPT !.pc = "renames"]
             /\ UNCHANGED faults
          \/ /\ Fault
             /\ w' = [w EXCEPT !.pc = "renames", !.at = {}]
             /\ UNCHANGED <<fs, halfway>>
    /\ UNCHANGED <<tmp, known, lib, ov, token, requests, answers, dropped>>

TagsApplied ==
    /\ w.pc = "renames" /\ w.at = {} /\ w.todo = {}
    /\ w' = [w EXCEPT !.pc = "reread"]
    /\ Tell(Note("applied", w.token, w.of))
    /\ UNCHANGED <<Disk, lib, ov, token, requests, dropped, faults>>

Touched_Sources == {e.src : e \in w.tracks}

(* Every source, and every new path of a rename that succeeded.            *)
Touched == {e.src : e \in w.tracks} \cup w.moved

RereadPaths ==
    /\ w.pc = "reread"
    /\ known' = [p \in Paths |-> IF p \in Touched THEN fs[p] ELSE known[p]]
    /\ Tell([Note("reread", w.token, w.of) EXCEPT !.lib = known'])
    /\ w' = Idle
    /\ UNCHANGED <<fs, tmp, lib, ov, token, requests, dropped, halfway, faults>>

(***************************************************************************)
(* The App's handlers.                                                     *)
(***************************************************************************)
Next1 == Head(answers)
AcceptsToken(t) == ov # Closed /\ ov.token = t

Phase(to) == ov' = [ov EXCEPT !.phase = to]

(* The names of a release for the songs of the selection, where they are.  *)
Diff(r) ==
    {[src |-> p, dest |-> Named[r][lib[p].song], tag |-> TRUE, ren |-> TRUE] :
        p \in {q \in Paths : lib[q] # NoFile /\ lib[q].song \in ov.sel}}

Stale ==
    /\ answers # <<>>
    /\ Next1.kind \notin {"applied", "reread"}
    /\ ~AcceptsToken(Next1.token)
    /\ UNCHANGED <<ov, token, requests>>

Failed ==
    /\ ~Next1.ok
    /\ Phase("Error")
    /\ UNCHANGED <<token, requests>>

HitsShown ==
    /\ Next1.hits # {} \/ (Next1.kind = "search" /\ Next1.of = NoRelease)
    /\ ov' = [ov EXCEPT !.phase = "SearchResults", !.hits = Next1.hits]
    /\ UNCHANGED <<token, requests>>

NoHits ==
    /\ Next1.hits = {} /\ Next1.of = NoRelease /\ Next1.kind \in {"acoustid", "recording"}
    /\ Phase("Error")
    /\ UNCHANGED <<token, requests>>

(* A match without releases is asked for again, under a new token.         *)
FollowUp(kind) == Request(ov, Ask(kind))

AcoustIdFollowUp ==
    /\ Next1.kind = "acoustid" /\ Next1.of \in {"recording", "search"}
    /\ FollowUp(Next1.of)

ReleaseLoaded ==
    /\ Next1.kind = "details"
    /\ IF Diff(Next1.of) = {}
       THEN Phase("Error")
       ELSE ov' = [ov EXCEPT !.phase = "DiffPreview", !.of = Next1.of, !.diff = Diff(Next1.of)]
    /\ UNCHANGED <<token, requests>>

HandleAnswer ==
    /\ answers # <<>>
    /\ Next1.kind \notin {"applied", "reread"}
    /\ AcceptsToken(Next1.token)
    /\ IF Next1.ok THEN HitsShown \/ NoHits \/ AcoustIdFollowUp \/ ReleaseLoaded ELSE Failed

(* The library is swapped for whoever asked; the overlay moves on only if  *)
(* it is the one that did.                                                 *)
LibraryReread ==
    /\ answers # <<>>
    /\ Next1.kind \in {"applied", "reread"}
    /\ IF Next1.kind = "reread" /\ AcceptsToken(Next1.token) THEN Phase("Done") ELSE UNCHANGED ov
    /\ UNCHANGED <<token, requests>>

Handle ==
    /\ Stale \/ HandleAnswer \/ LibraryReread
    /\ lib' = IF Next1.kind = "reread" THEN Next1.lib ELSE lib
    /\ answers' = Tail(answers)
    /\ UNCHANGED <<Disk, w, dropped, faults>>

(* The process ends anywhere; the next one scans the files.                *)
Quit ==
    /\ Litter
    /\ known' = fs /\ lib' = fs
    /\ ov' = Closed /\ token' = 1 /\ requests' = <<>> /\ w' = Idle /\ answers' = <<>> /\ dropped' = {}
    /\ UNCHANGED <<fs, tmp, halfway>>

Worker ==
    \/ Respond \/ Apply \/ CopyForTags \/ WriteThenSwap \/ TagsWritten \/ Rename
    \/ CopyAcross \/ EndCopy \/ RemoveSource
    \/ TagsApplied \/ RereadPaths

TagNext ==
    \/ OpenTagManager \/ CloseTagManager \/ Back \/ Search \/ Pick \/ Confirm
    \/ Worker
    \/ DropCommand
    \/ Handle
    \/ Quit

TagSpec == TagInit /\ [][TagNext]_tagVars
-----------------------------------------------------------------------------
File == [song : Songs, tags : Releases \cup {"old"}, whole : BOOLEAN] \cup {NoFile}
AnyRelease == Releases \cup {NoRelease}
Entry == [src : Paths, dest : Paths, tag : BOOLEAN, ren : BOOLEAN]
Asked == {"details", "acoustid", "recording", "search"}

RequestRecord == [kind : Asked \cup {"apply"}, token : 0..MaxTokens, of : AnyRelease,
                  tracks : SUBSET Entry]
AnswerRecord == [kind : Asked \cup {"applied", "reread"}, token : 0..MaxTokens,
                 of : AnyRelease \cup {"recording", "search"}, hits : SUBSET Releases,
                 ok : BOOLEAN, lib : [Paths -> File]]

Overlay == [phase : Pending \cup {"Closed", "SearchInput", "SearchResults", "DiffPreview",
                                  "Done", "Error"},
            token : 0..MaxTokens, sel : SUBSET Songs, hits : SUBSET Releases,
            asked : AnyRelease, of : AnyRelease, diff : SUBSET Entry]
Writer == [pc : {"idle", "tags", "renames", "removal", "reread"}, token : 0..MaxTokens, of : AnyRelease,
           tracks : SUBSET Entry, skipped : SUBSET Entry, at : SUBSET Entry,
           todo : SUBSET Entry, moved : SUBSET Paths]

TagTypeOK ==
    /\ fs \in [Paths -> File] /\ known \in [Paths -> File] /\ lib \in [Paths -> File]
    /\ tmp \in [Paths -> BOOLEAN]
    /\ ov \in Overlay
    /\ token \in 1..MaxTokens
    /\ requests \in Seq(RequestRecord)
    /\ w \in Writer
    /\ answers \in Seq(AnswerRecord)
    /\ halfway \subseteq Paths
    /\ faults \in [n : 0..MaxFaults, litter : BOOLEAN]

(* At most the file being written has a temporary copy, but for those a    *)
(* process left behind when it ended, or a copy that broke off.            *)
DraftInHand ==
    ~faults.litter => \A p \in Paths : tmp[p] => w.pc = "tags" /\ \E e \in w.at : e.src = p

(* A music file is whole at every moment, the end of the process and a     *)
(* failing write included (tag_ops.rs:836), but for the new file of a move *)
(* between file systems that is under way or broke off; and as long as the *)
(* move goes on the song is still where it was.                            *)
WholeFiles ==
    /\ \A p \in Paths : fs[p].whole \/ p \in halfway
    /\ w.pc \in {"renames", "removal"} =>
           \A e \in w.at : fs[e.src] # NoFile /\ fs[e.src].song = fs[e.dest].song

(* Files are written only under an overlay that says so and cannot be      *)
(* closed (app.rs:3008).                                                   *)
InPlainSight ==
    w.pc # "idle" => ov.phase = "Applying" /\ ov.token = w.token

(* What is previewed is the release last asked for, for the tracks of this *)
(* overlay: an answer to an earlier overlay or question never shows.       *)
PreviewIsAsked ==
    ov.phase \in {"DiffPreview", "Applying"} =>
        /\ ov.of = ov.asked
        /\ \A e \in ov.diff : \E s \in ov.sel : e.dest \in {Named[ov.of][s], e.src}

(* An overlay that waits waits for something: its request is in a channel, *)
(* with the worker, or was thrown away by a sync.                          *)
InFlight(t) ==
    \/ \E i \in DOMAIN requests : requests[i].token = t
    \/ \E i \in DOMAIN answers : answers[i].token = t /\ answers[i].kind # "applied"
    \/ w.pc # "idle" /\ w.token = t
    \/ t \in dropped
WaitsForAnswer == ov.phase \in Pending => InFlight(ov.token)

(* When nothing is in flight the library, and the cache, are what is on    *)
(* disk, whatever was written, renamed or failed, but for what a move      *)
(* between file systems left where it was to go.                           *)
LibraryAgrees ==
    w.pc = "idle" /\ answers = <<>> =>
        \A p \in Paths \ halfway : lib[p] = fs[p] /\ known[p] = fs[p]

(* A song is lost only where a rename lands on a file that the same batch  *)
(* was to rename: nothing outside the batch is overwritten.                *)
There(files, s) == \E p \in Paths : files[p].song = s
OutsidersSafe ==
    [][\A p \in Paths : fs[p] # NoFile /\ ~There(fs', fs[p].song) => p \in Sources(w.tracks)]_tagVars

=============================================================================
