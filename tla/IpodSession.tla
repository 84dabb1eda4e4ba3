---------------------------- MODULE IpodSession ----------------------------
(***************************************************************************)
(* The iPod: its iTunesDB, artwork and Play Counts files as the session    *)
(* (mtp/ipod_session.rs) and the ipod-db crate read and write them, one    *)
(* file operation at a time, with failing writes and cables pulled, and    *)
(* its firmware, which plays what the iTunesDB lists.  A database is read  *)
(* and written by what it keeps: a track id is a position; of the mhit of  *)
(* a track the play count and the artwork flag are told apart.             *)
(***************************************************************************)
EXTENDS Integers, Sequences, FiniteSets, FiniteSetsExt, SequencesExt

CONSTANTS
    Song,       \* local files, each with its own artist, album and title
    Cover,      \* those with an embedded picture
    BadCover,   \* those whose picture does not decode
    Name,       \* playlists
    Wrap,       \* 2^32: what rm_by_id keeps of a dbid
    Old, Dbid,  \* what iTunes has put on the iPod at first: copies of a song, their dbids
    None,
    MaxOps, MaxFaults, MaxPlays, MaxOpens  \* bounds

\* What a track of the file and one of the session keep; an operation and where it is.
DbRow    == [dbid : Nat \ {0}, file : Nat, song : Song, plays : Nat, art : BOOLEAN]
Row      == [dbid : Nat \ {0}, file : Nat, song : Song, raw : Nat \cup {None}, plays : Nat]
Database == [rows : Seq(DbRow), lists : [Name -> SUBSET Nat]]
Op       == [kind : {"import", "remove", "list", "save"}, file : Nat, at : {"ithmb", "artdb", "db", "stale"}]

ASSUME IpodAssumption ==
    /\ {MaxOps, MaxFaults, MaxPlays, MaxOpens} \subseteq Nat
    /\ Cover \subseteq Song /\ BadCover \subseteq Cover /\ Old \in Song
    /\ Wrap \in Nat \ {0} /\ Dbid \in Seq(Nat \ {0}) /\ IsInjective(Dbid)
    /\ None \notin Nat /\ None \notin Database /\ None \notin Op

VARIABLES
    db,       \* iTunesDB: [rows, lists], or None when there is no such file
    files,    \* the files under Music, numbered
    artdb,    \* ArtworkDB: index into ithmb of the dbids it has
    ithmb,    \* the pictures in the .ithmb files
    sidecar,  \* the Play Counts file: a number per row, or None
    s,        \* the session, or None
    op,       \* what the session is doing, or None
    made,     \* files ever made
    asked,    \* files whose removal the user has asked for
    done,     \* files whose import has returned Ok
    played,   \* how often the firmware has played each file
    wanted,   \* songs ever asked for in each playlist
    ops, faults, plays, opens

device == <<db, files, artdb, ithmb, sidecar>>
ghosts == <<asked, done, wanted>>
bounds == <<ops, plays, opens>>
vars == <<device, s, op, made, ghosts, played, bounds, faults>>

(* An operator X_Y is X with a plausible mistake.  No specification uses it:  *)
(* it is there to be put in the place of X, to see that a property notices.   *)

Ids(rows)    == {rows[i].dbid : i \in DOMAIN rows}
NoLists      == [n \in Name |-> {}]
NoArt        == [d \in {} |-> 0]
MaxFile      == Len(Dbid) + MaxOps

Init ==
    LET n == Len(Dbid) IN
    /\ db = IF n = 0 THEN None
            ELSE [rows |-> [i \in 1..n |-> [dbid |-> Dbid[i], file |-> i, plays |-> 0, art |-> FALSE,
                                            song |-> Old]],
                  lists |-> NoLists]
    /\ files = 1..n /\ made = n /\ done = files /\ asked = {}
    /\ artdb = NoArt /\ ithmb = <<>> /\ sidecar = None
    /\ s = None /\ op = None
    /\ played = [f \in 1..MaxFile |-> 0] /\ wanted = [m \in Name |-> {}]
    /\ ops = 0 /\ faults = 0 /\ plays = 0 /\ opens = 0

-----------------------------------------------------------------------------
(* The firmware, between two connections. *)

Unplugged == s = None /\ op = None

\* It counts by position, and begins anew when the counts are of another database.
FirmwarePlays ==
    /\ Unplugged /\ db # None /\ plays < MaxPlays /\ plays' = plays + 1
    /\ \E i \in DOMAIN db.rows :
         /\ db.rows[i].file \in files
         /\ played' = [played EXCEPT ![db.rows[i].file] = @ + 1]
         /\ LET old == IF sidecar # None /\ Len(sidecar) = Len(db.rows) THEN sidecar
                       ELSE [j \in DOMAIN db.rows |-> 0]
            IN sidecar' = [old EXCEPT ![i] = @ + 1]
    /\ UNCHANGED <<db, files, artdb, ithmb, s, op, made, ghosts, ops, opens, faults>>

-----------------------------------------------------------------------------
(* A session. *)

\* Counts are added to whatever rows they come to lie on.
Folded_Any(rows, i) ==
    IF sidecar # None /\ i <= Len(sidecar) THEN rows[i].plays + sidecar[i] ELSE rows[i].plays

\* Play Counts are added to the rows at the same positions, unless their number differs.
Folded(rows, i) ==
    IF sidecar # None /\ Len(sidecar) = Len(rows) THEN rows[i].plays + sidecar[i] ELSE rows[i].plays

NextDbid(rows) == Max(Ids(rows) \cup {0}) + 1

\* The count of plays as it was read stays in the raw header of the row.
ParsedRow(row, folded) ==
    [dbid |-> row.dbid, file |-> row.file, song |-> row.song, raw |-> row.plays, plays |-> folded]

\* A playlist is of track ids in the file, of dbids in memory, each of them once; the
\* order does not matter here.
ParsedList(list) == {db.rows[k].dbid : k \in list}

Open ==
    /\ Unplugged /\ opens < MaxOpens /\ opens' = opens + 1
    /\ LET rows == IF db = None THEN <<>> ELSE db.rows IN
       s' = [rows  |-> [i \in DOMAIN rows |-> ParsedRow(rows[i], Folded(rows, i))],
             lists |-> IF db = None THEN NoLists ELSE [n \in Name |-> ParsedList(db.lists[n])],
             next  |-> NextDbid(rows),
             store |-> None]
    /\ UNCHANGED <<device, op, made, ghosts, played, ops, plays, faults>>

Close ==
    /\ s # None /\ op = None /\ s' = None
    /\ UNCHANGED <<device, op, made, ghosts, played, bounds, faults>>

\* In the middle of an operation: what is on the device stays as it is.
CablePulled ==
    /\ op # None /\ faults < MaxFaults /\ faults' = faults + 1
    /\ s' = None /\ op' = None
    /\ UNCHANGED <<device, made, ghosts, played, bounds>>

Ready == s # None /\ op = None /\ ops < MaxOps /\ ops' = ops + 1
Flush(kind, file) == op' = [kind |-> kind, file |-> file, at |-> IF s'.store = None THEN "db" ELSE "ithmb"]

\* set_track_artwork: the session's own store, made for its first picture.
WithPicture(store, dbid, song) ==
    IF song \notin Cover THEN store
    ELSE LET st == IF store = None THEN [pictures |-> <<>>, index |-> NoArt] ELSE store IN
         IF song \in BadCover THEN st
         ELSE [pictures |-> Append(st.pictures, song),
               index |-> [d \in {dbid} \cup DOMAIN st.index |->
                            IF d = dbid THEN Len(st.pictures) + 1 ELSE st.index[d]]]

\* A file gets a name of its own.
FreshFile == made + 1

\* import_track: the file is copied, then the row is added.
ImportTrack ==
    /\ Ready
    /\ \E song \in Song :
         /\ made' = FreshFile /\ files' = files \cup {FreshFile}
         /\ s' = [s EXCEPT !.rows = Append(@, [dbid |-> s.next, file |-> FreshFile, song |-> song,
                                               raw |-> None, plays |-> 0]),
                           !.next = @ + 1,
                           !.store = WithPicture(@, s.next, song)]
         /\ Flush("import", FreshFile)
    /\ UNCHANGED <<db, artdb, ithmb, sidecar, ghosts, played, plays, opens, faults>>

\* A row goes, from every playlist too.
Without(j) ==
    [s EXCEPT !.rows  = RemoveAt(@, j),
              !.lists = [n \in Name |-> @[n] \ {s.rows[j].dbid}]]

\* collect_all_tracks: a row of the track list.
Listed(r) == [object_id |-> r.dbid, plays |-> r.plays]

SameId(width, i, j) == Listed(s.rows[i]).object_id % width = Listed(s.rows[j]).object_id % width

\* The first row with the same low half.
Found(i) == CHOOSE j \in DOMAIN s.rows :
    SameId(Wrap, i, j) /\ \A k \in 1..(j - 1) : ~SameId(Wrap, i, k)

\* rm_by_id of a row the user picks: its file goes first.
RemoveTrack ==
    /\ Ready
    /\ \E i \in DOMAIN s.rows : LET r == s.rows[Found(i)] IN
         /\ asked' = asked \cup {s.rows[i].file}
         /\ files' = files \ {r.file}
         /\ s' = Without(Found(i))
         /\ Flush("remove", r.file)
    /\ UNCHANGED <<db, artdb, ithmb, sidecar, made, done, wanted, played, plays, opens, faults>>

\* The first row of a song; a song without one is skipped.
Resolve(song) == CHOOSE i \in DOMAIN s.rows :
    /\ s.rows[i].song = song
    /\ \A k \in 1..(i - 1) : s.rows[k].song # song

\* import_playlist: a list of that name is replaced.
ImportPlaylist ==
    /\ Ready
    /\ \E n \in Name, S \in SUBSET Song :
         LET here == {x \in S : \E i \in DOMAIN s.rows : s.rows[i].song = x} IN
         /\ s' = [s EXCEPT !.lists[n] = {s.rows[Resolve(x)].dbid : x \in here}]
         /\ wanted' = [wanted EXCEPT ![n] = @ \cup S]
    /\ Flush("list", 0)
    /\ UNCHANGED <<device, made, asked, done, played, plays, opens, faults>>

\* save_sync_progress.
SaveProgress ==
    /\ Ready /\ s' = s /\ Flush("save", 0)
    /\ UNCHANGED <<device, made, ghosts, played, plays, opens, faults>>

-----------------------------------------------------------------------------
(* flush, write_to_disk. *)

At(place)  == op # None /\ op.at = place
Go(place)  == op' = [op EXCEPT !.at = place]
Fails      == faults < MaxFaults /\ faults' = faults + 1 /\ op' = None

\* The pictures of the store are written, unless it has none, over the file.
WriteIthmb ==
    /\ At("ithmb")
    /\ \/ /\ ithmb' = IF s.store.pictures = <<>> THEN ithmb ELSE s.store.pictures
          /\ Go("artdb") /\ UNCHANGED faults
       \/ Fails /\ s.store.pictures # <<>> /\ ithmb' \in {<<>>, ithmb}
    /\ UNCHANGED <<db, files, artdb, sidecar, s, made, ghosts, played, bounds>>

\* The .ithmb files do not outlive an ArtworkDB that is not written.
WriteArtDb ==
    /\ At("artdb")
    /\ \/ artdb' = s.store.index /\ Go("db") /\ UNCHANGED <<ithmb, faults>>
       \/ Fails /\ ithmb' = <<>> /\ UNCHANGED artdb
    /\ UNCHANGED <<db, files, sidecar, s, made, ghosts, played, bounds>>

HasArt(dbid) == s.store # None /\ dbid \in DOMAIN s.store.index

\* A row that was read keeps its flag.
Flag_Raw(r) ==
    HasArt(r.dbid) \/ (db # None /\ \E i \in DOMAIN db.rows : db.rows[i].dbid = r.dbid /\ db.rows[i].art)

Flag(r) == HasArt(r.dbid)

Position(rows, dbid) == CHOOSE i \in DOMAIN rows : rows[i].dbid = dbid

\* A track that was read keeps the id it had.
TrackId_Read(dbid) ==
    IF db # None /\ dbid \in Ids(db.rows) THEN Position(db.rows, dbid) ELSE Position(s.rows, dbid)

\* reassign_track_ids: by position.
TrackId(dbid) == Position(s.rows, dbid)

\* A row that was read is written as it was read, save for the artwork flag.
WrittenRow(r) ==
    [dbid |-> r.dbid, file |-> r.file, song |-> r.song, art |-> Flag(r),
     plays |-> IF r.raw # None THEN r.raw ELSE r.plays]

WrittenList(list) == {TrackId(d) : d \in list \cap Ids(s.rows)}

Serialized ==
    [rows  |-> [i \in DOMAIN s.rows |-> WrittenRow(s.rows[i])],
     lists |-> [n \in Name |-> WrittenList(s.lists[n])]]

\* The file in place is overwritten: what fails leaves nothing to read.
WriteDb_InPlace ==
    /\ At("db")
    /\ \/ db' = Serialized /\ Go("stale") /\ UNCHANGED faults
       \/ Fails /\ db' = None
    /\ UNCHANGED <<files, artdb, ithmb, sidecar, s, made, ghosts, played, bounds>>

\* Written beside it and renamed.
WriteDb ==
    /\ At("db")
    /\ \/ db' = Serialized /\ Go("stale") /\ UNCHANGED faults
       \/ Fails /\ UNCHANGED db
    /\ UNCHANGED <<files, artdb, ithmb, sidecar, s, made, ghosts, played, bounds>>

Stale_Kept == sidecar

Stale == None

\* Play Counts go; the operation is done.
DropSidecar ==
    /\ At("stale") /\ sidecar' = Stale /\ op' = None
    /\ done' = IF op.kind = "import" THEN done \cup {op.file} ELSE done
    /\ UNCHANGED <<db, files, artdb, ithmb, s, made, asked, wanted, played, bounds, faults>>

Operation == ImportTrack \/ RemoveTrack \/ ImportPlaylist \/ SaveProgress
FlushStep == WriteIthmb \/ WriteArtDb \/ WriteDb \/ DropSidecar
Next == FirmwarePlays \/ Open \/ Close \/ CablePulled \/ Operation \/ FlushStep

Spec == Init /\ [][Next]_vars

-----------------------------------------------------------------------------
(* Properties. *)

Rows == IF db = None THEN <<>> ELSE db.rows

Distinct(rows) == \A i, j \in DOMAIN rows : rows[i].dbid = rows[j].dbid => i = j

DbOK ==
    db # None =>
        /\ db \in Database /\ Distinct(db.rows)
        /\ \A i \in DOMAIN db.rows : db.rows[i].file \in 1..made
        /\ \A n \in Name : db.lists[n] \subseteq DOMAIN db.rows

SessionOK ==
    s # None \/ op # None =>
        /\ s \in [rows : Seq(Row), lists : [Name -> SUBSET Nat], next : Nat \ {0}, store : {s.store}]
        /\ Distinct(s.rows)
        /\ \A i \in DOMAIN s.rows : s.rows[i].file \in 1..made /\ s.rows[i].dbid < s.next
        /\ s.store # None => s.store.pictures \in Seq(Song)

\* Types; the dbids of a database, and of a session, are distinct.
TypeOK ==
    /\ made \in Nat /\ made <= Len(Dbid) + ops /\ ops \in 0..MaxOps
    /\ files \subseteq 1..made /\ asked \subseteq 1..made /\ done \subseteq 1..made
    /\ DbOK /\ SessionOK
    /\ sidecar = None \/ sidecar \in Seq(Nat)
    /\ op # None =>
         /\ op \in Op /\ op.file \in 0..made
         /\ op.kind = "import" => op.file # 0
    /\ played \in [1..MaxFile -> Nat] /\ wanted \in [Name -> SUBSET Song]
    /\ faults \in Nat /\ plays \in Nat /\ opens \in Nat

\* Whatever the iTunesDB lists can be played, unless the user has asked for its
\* removal and the database could not be written since.
RowsHaveFiles == \A i \in DOMAIN Rows : Rows[i].file \in files \cup asked

\* An import that returned Ok is on the iPod for good: a later write that fails and
\* a cable that is pulled take nothing away that was there.
ImportedSurvives ==
    \A f \in done \ asked : f \in files /\ \E i \in DOMAIN Rows : Rows[i].file = f

\* A playlist lists songs that were asked for in it, also when a track was removed
\* and its dbid is given out again.
ListsRight ==
    \A n \in Name : db # None => \A k \in db.lists[n] :
        k \in DOMAIN Rows /\ Rows[k].song \in wanted[n]

\* A row with a cover shows the cover of its own song, though the artwork files
\* of every session replace those of the last one.
CoversRight ==
    op = None /\ faults = 0 => \A i \in DOMAIN Rows : Rows[i].art =>
        /\ Rows[i].dbid \in DOMAIN artdb
        /\ artdb[Rows[i].dbid] \in DOMAIN ithmb
        /\ ithmb[artdb[Rows[i].dbid]] = Rows[i].song

\* No track is shown with plays of another, or with a play counted twice.  A second
\* fault may break it: a flush that fails, then one that ends before the Play Counts
\* go, with as many rows as they count.
PlaysNotInvented ==
    s # None /\ faults <= 1 =>
        \A i \in DOMAIN s.rows : Listed(s.rows[i]).plays <= played[s.rows[i].file]

=============================================================================
