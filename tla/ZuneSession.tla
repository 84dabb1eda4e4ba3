----------------------------- MODULE ZuneSession -----------------------------
(***************************************************************************)
(* A Zune over MTP (mtp/native.rs): objects with handles on the device; on *)
(* the computer a cache of its tracks, trusted while the free space of the *)
(* device is the one noted in it, and a cache of the handles of its artist *)
(* and album folders, trusted as long as the first one is.  One action per *)
(* call to the device or write of a cache: the session may end between any *)
(* two, by a pulled cable or the death of the process.                     *)
(***************************************************************************)
EXTENDS Integers, FiniteSets, FiniteSetsExt

CONSTANTS Artist, Album, Song,
          ArtistOf, AlbumOf,  \* the tags of albums and songs
          Room,               \* free space, in megabytes, with so many copies of each song
          Garbled,            \* songs of whose names ZMDB, which is ASCII, drops letters
          Fits,               \* <<s, t>>: the file of s is taken for the one ZMDB's name of t asks for
          AlikeDir,           \* <<x, y>>: the folder of x, an artist or an album, is taken for that of y
          Taken,              \* <<form, s, t>>: a row that names s in that form is taken for a copy of t
          Stock,              \* what the device may hold at first
          None, MaxHandle, MaxOps, MaxFaults, MaxForeign

VARIABLES objs,     \* the device: handle -> what it is, of whom, in which folder (external)
          made,     \* the last handle given out (external)
          modern,   \* firmware 3.0 or later: there is a ZMDB (external)
          tc,       \* .zytunes-track-cache: free space and rows
          libfile,  \* .zytunes-library-cache
          lib,      \* the session's DeviceLibrary
          shown,    \* the rows of the App's index
          op,       \* what the worker is at
          ops, faults, foreign,  \* bounds
          twins,    \* history: songs the device has had two copies of
          cut,      \* history: songs sent that the session did not note, for it ended or was told of a failure
          marred,   \* history: songs the last reading left out, or removed by a call that failed after it
          bare      \* history: the library was trusted without a list to date it, or a folder removed
                    \* by a call that failed after it

zune      == <<objs, made, modern>>
caches    == <<tc, libfile>>
limits    == <<ops, foreign>>
annals    == <<twins, cut, marred, bare>>
zuneVars  == <<objs, made, modern, tc, libfile, lib, shown, op, ops, faults, foreign, twins, cut, marred, bare>>

Root    == 0
Nowhere == -1

\* An object of the device.
Thing == [kind : {"artist", "album", "alb", "track"}, of : Artist \cup Album \cup Song, in : Nat]

\* A row of a track list names a song by its title, by its file or by what ZMDB leaves of the title.
Form      == {"title", "file", "zmdb"}
Entry     == [id : Nat, song : Song, form : Form]
TrackList == [header : BOOLEAN, free : Nat, rows : SUBSET Entry]
Folders   == [artists : [Artist -> Int], albums : [Album -> Int]]

OneEach(S) == [t \in Song |-> IF t \in S THEN 1 ELSE 0]

\* The sizes are in general position: other songs leave other room, by more than
\* the megabyte that counts as no change.
ASSUME ZuneAssumption ==
    /\ {MaxOps, MaxFaults, MaxForeign} \subseteq Nat /\ MaxHandle \in Nat \ {0}
    /\ None \notin TrackList /\ None \notin Folders /\ None \notin Entry
    /\ ArtistOf \in [Album -> Artist] /\ AlbumOf \in [Song -> Album]
    /\ Room \in [[Song -> 0..MaxHandle] -> Nat]
    /\ \A S, T \in SUBSET Song : S # T => Room[OneEach(S)] - Room[OneEach(T)] \notin -1..1
    /\ Garbled \subseteq Song /\ Fits \subseteq Song \X Song /\ Taken \subseteq Form \X Song \X Song
    /\ AlikeDir \subseteq (Artist \X Artist) \cup (Album \X Album)
    /\ \A o \in Stock : \E n \in 0..MaxHandle : o \in [1..n -> Thing]

-----------------------------------------------------------------------------
(* The device. *)

Object(kind, x, d) == [kind |-> kind, of |-> x, in |-> d]
With(o)    == [h \in DOMAIN objs \cup {made + 1} |-> IF h = made + 1 THEN o ELSE objs[h]]
Deleted(H) == [h \in DOMAIN objs \ H |-> objs[h]]

Is(h, kind, x) == h \in DOMAIN objs /\ objs[h].kind = kind /\ objs[h].of = x
Children(d) == {h \in DOMAIN objs : objs[h].in = d}
Live(h)     == h = Root \/ h \in DOMAIN objs
Copies(t)   == {h \in DOMAIN objs : Is(h, "track", t)}
OnDevice    == {t \in Song : Copies(t) # {}}
Free        == Room[[t \in Song |-> Cardinality(Copies(t))]]

\* A path from Music leads to it: the folders above it are there.
Reached(h)  == LET d == objs[h].in IN Live(d) /\ (d # Root => Live(objs[d].in))

\* The first of the children of d; a device lists them in the order they were made.
First(H) == IF H = {} THEN Nowhere ELSE Min(H)
Named(d, kind, x)      == First({h \in Children(d) : Is(h, kind, x)})
Candidates(d, kind, x) ==
    {h \in Children(d) : objs[h].kind = kind /\ (objs[h].of = x \/ <<objs[h].of, x>> \in AlikeDir)}

\* A folder is looked for by its name, or else by the end of it.
Find(d, kind, x) == IF Named(d, kind, x) # Nowhere THEN Named(d, kind, x) ELSE First(Candidates(d, kind, x))

\* A file only by the end of its name, without the extension ZMDB does not tell.
Titled(d, t)    == {h \in Children(d) : objs[h].kind = "track" /\ <<objs[h].of, t>> \in Fits}
FindTitle(d, t) == First(Titled(d, t))

\* The path Music/Artist/Album/Title.
AlbumDir(b) == LET a == Find(Root, "artist", ArtistOf[b])
               IN  IF a = Nowhere THEN Nowhere ELSE Find(a, "album", b)
Resolve(t)  == LET b == AlbumDir(AlbumOf[t]) IN IF b = Nowhere THEN Nowhere ELSE FindTitle(b, t)

\* Where it may lead when some of the names cannot be read.
Leads(t) == UNION {UNION {Titled(b, t) : b \in Candidates(a, "album", AlbumOf[t])} :
                        a \in Candidates(Root, "artist", ArtistOf[AlbumOf[t]])}

\* What other programs leave: a folder for each name, and each song once and in its own.
Tidy == \A h \in DOMAIN objs : LET o == objs[h] IN
    /\ \A g \in DOMAIN objs : objs[g].kind = o.kind /\ objs[g].of = o.of => g = h
    /\ o.kind = "artist" => o.of \in Artist /\ o.in = Root
    /\ o.kind = "album"  => o.of \in Album /\ Is(o.in, "artist", ArtistOf[o.of]) /\ \E g \in DOMAIN objs : Is(g, "alb", o.of)
    /\ o.kind = "alb"    => o.of \in Album /\ o.in = Root /\ \E g \in DOMAIN objs : Is(g, "album", o.of)
    /\ o.kind = "track"  => o.of \in Song /\ Is(o.in, "album", AlbumOf[o.of])

-----------------------------------------------------------------------------
(* The caches. *)

NoLib == [artists |-> [a \in Artist |-> Nowhere], albums |-> [b \in Album |-> Nowhere]]

Row(id, t, form) == [id |-> id, song |-> t, form |-> form]
SameName(r, q) == r.song = q.song /\ r.form = q.form

Listed == IF tc = None THEN {} ELSE tc.rows

\* What TrackCache::load makes of the file: a list without rows is none.
Loadable == tc # None /\ tc.rows # {}
Trusted_Undated(free) == Loadable

Trusted(free) == Loadable /\ free - tc.free \in -1..1

\* refresh_storage_cache; a file begun by an append has no header to change.
Noted(free) == IF Loadable /\ tc.header THEN [tc EXCEPT !.free = free] ELSE tc

Appended(r) == IF tc = None THEN [header |-> FALSE, free |-> 0, rows |-> {r}]
                            ELSE [tc EXCEPT !.rows = @ \cup {r}]
Kept(rows) == IF tc = None THEN None ELSE [tc EXCEPT !.rows = rows]

\* scan_existing_artists, scan_existing_albums: the albums are those that have an
\* album object; one whose folder is not found is filed one level up.
ScannedArtist(a) == Named(Root, "artist", a)
HomeOf(b)        == LET a == ScannedArtist(ArtistOf[b]) IN IF a = Nowhere THEN Root ELSE a
DirOf(b)         == LET d == Find(HomeOf(b), "album", b) IN IF d = Nowhere THEN HomeOf(b) ELSE d
Scanned == [artists |-> [a \in Artist |-> ScannedArtist(a)],
            albums  |-> [b \in Album |-> IF Named(Root, "alb", b) = Nowhere THEN Nowhere ELSE DirOf(b)]]

\* A scan that reads some of the artists, albums and folders only.
PartlyScanned(A, B, D) ==
    [artists |-> [a \in Artist |-> IF a \in A THEN ScannedArtist(a) ELSE Nowhere],
     albums  |-> [b \in Album |-> IF b \notin B \/ Scanned.albums[b] = Nowhere THEN Nowhere
                                  ELSE IF ArtistOf[b] \notin A THEN Root
                                  ELSE IF b \in D THEN DirOf(b) ELSE HomeOf(b)]]

\* invalidate_device_library
WithoutArtist_Only(l, a) == [l EXCEPT !.artists[a] = Nowhere]

WithoutArtist(l, a) == [artists |-> [l.artists EXCEPT ![a] = Nowhere],
                        albums |-> [b \in Album |-> IF ArtistOf[b] = a THEN Nowhere ELSE l.albums[b]]]
WithoutAlbum(l, b)  == [l EXCEPT !.albums[b] = Nowhere]
WithoutDir(l, kind, x) == IF kind = "album" THEN WithoutAlbum(l, x) ELSE WithoutArtist(l, x)

\* invalidate_library_for_path: whatever is loaded, or else what is on the disk.
Invalidate(kind, x) ==
    LET l == IF lib # None THEN lib ELSE libfile IN
    IF l = None THEN UNCHANGED <<lib, libfile>>
    ELSE /\ lib' = WithoutDir(l, kind, x)
         /\ libfile' = IF WithoutDir(l, kind, x) # l THEN WithoutDir(l, kind, x) ELSE libfile

-----------------------------------------------------------------------------
(* The session. *)

At(l) == op.at = l
Go(l) == op' = [op EXCEPT !.at = l]
Fails == faults < MaxFaults /\ faults' = faults + 1

\* todo, song: the songs of a sync that are left, and the one it is at; rows, row: the
\* rows to remove and the one being removed; back: where to go on after it.
NoOp == [at |-> "idle", todo |-> {}, song |-> None, rows |-> {}, row |-> None, back |-> "idle",
         id |-> 0, ok |-> FALSE, free |-> 0, look |-> {}, gone |-> None]
Off  == [NoOp EXCEPT !.at = "off"]

ZuneInit ==
    /\ objs \in Stock /\ Tidy /\ made = Cardinality(DOMAIN objs) /\ modern \in BOOLEAN
    /\ tc = None /\ libfile = None /\ lib = None
    /\ shown = {} /\ op = Off
    /\ ops = 0 /\ faults = 0 /\ foreign = 0 /\ twins = {} /\ cut = {} /\ marred = {} /\ bare = FALSE

\* A new session; the worker lists the device, then loads the library.
Open ==
    /\ At("off") /\ ops < MaxOps /\ ops' = ops + 1
    /\ op' = [NoOp EXCEPT !.at = "collect", !.back = "warm"]
    /\ lib' = None /\ shown' = {}
    /\ UNCHANGED <<zune, caches, faults, foreign, annals>>

\* LoadDeviceTracks
Reload ==
    /\ At("idle") /\ ops < MaxOps /\ ops' = ops + 1
    /\ op' = [NoOp EXCEPT !.at = "collect"]
    /\ UNCHANGED <<zune, caches, lib, shown, faults, foreign, annals>>

\* collect_all_tracks: the free space first; a query that fails is no room at all.
Asked(free) == (free = Free /\ UNCHANGED faults) \/ (free = 0 /\ Fails)

\* The cache if the free space is what it was; otherwise both caches go.
Collect ==
    /\ At("collect")
    /\ \E free \in {Free, 0} :
         /\ Asked(free)
         /\ \/ /\ Trusted(free)
               /\ tc' = [tc EXCEPT !.header = TRUE, !.free = free]
               /\ shown' = tc.rows /\ Go(op.back)
               /\ UNCHANGED <<libfile, lib>>
            \/ /\ ~Trusted(free)
               /\ IF Loadable THEN tc' = None /\ libfile' = None /\ lib' = None
                              ELSE UNCHANGED <<tc, libfile, lib>>
               /\ op' = [op EXCEPT !.at = "load", !.free = free]
               /\ UNCHANGED shown
    /\ bare' = (bare \/ (~Loadable /\ (lib # None \/ libfile # None)))
    /\ UNCHANGED <<zune, limits, twins, cut, marred>>

\* One call for the ZMDB, which knows no handles and may or may not know of songs whose
\* folder is gone; or a walk over the handles.
ZmdbForm(t) == IF t \in Garbled THEN "zmdb" ELSE "title"
ByTitle(S)  == {Row(0, t, ZmdbForm(t)) : t \in S}
ByFile(H)   == {Row(h, objs[h].of, "file") : h \in H}
Walked      == {h \in UNION {Copies(t) : t \in Song} : Reached(h)}
Listable    == {objs[h].of : h \in Walked}

Missing(rows) == {t \in OnDevice : \A r \in rows : r.song # t}

\* An object that cannot be read is skipped, and the list is kept without it.
Load ==
    /\ At("load")
    /\ \/ \E rows \in {ByTitle(S) : S \in SUBSET OnDevice} \cup {ByFile(H) : H \in SUBSET Walked} :
            /\ \/ /\ modern /\ UNCHANGED faults
                  /\ \E S \in SUBSET OnDevice : Listable \subseteq S /\ rows = ByTitle(S)
               \/ ~modern /\ rows = ByFile(Walked) /\ UNCHANGED faults
               \/ Fails /\ \E H \in SUBSET Walked : rows = ByFile(H)
            /\ tc' = [header |-> TRUE, free |-> op.free, rows |-> rows]
            /\ shown' = rows /\ marred' = Missing(rows)
       \/ Fails /\ shown' \in {shown, {}} /\ UNCHANGED tc /\ marred' = marred \cup Missing(Listed)
    /\ Go(op.back)
    /\ UNCHANGED <<zune, libfile, lib, limits, twins, cut, bare>>

\* ensure_library: what is loaded, or cached, or found on the device.
Library == IF lib # None THEN lib ELSE IF libfile # None THEN libfile ELSE Scanned
EnsureLibrary ==
    \/ /\ lib' = Library /\ UNCHANGED faults
       /\ libfile' = IF lib = None /\ libfile = None THEN Scanned ELSE libfile
    \/ /\ lib = None /\ libfile = None /\ Fails
       /\ \E A \in SUBSET Artist, B, D \in SUBSET Album :
            lib' = PartlyScanned(A, B, D) /\ libfile' = PartlyScanned(A, B, D)
NoLibrary == lib = None /\ libfile = None /\ Fails /\ UNCHANGED <<lib, libfile>>

Warm ==
    /\ At("warm") /\ (EnsureLibrary \/ NoLibrary) /\ op' = NoOp
    /\ UNCHANGED <<zune, tc, shown, limits, annals>>

\* The session ends: the user leaves, the cable is pulled, the process dies.
Close ==
    /\ ~At("off") /\ op' = Off /\ lib' = None /\ shown' = {}
    /\ IF At("idle") THEN UNCHANGED faults ELSE Fails
    /\ cut' = IF At("record") THEN cut \cup {op.song} ELSE cut
    /\ UNCHANGED <<zune, caches, limits, twins, marred, bare>>

-----------------------------------------------------------------------------
(* Removal. *)

\* Rows the user marks, one by one.
StartRemoval ==
    /\ At("idle") /\ ops < MaxOps /\ ops' = ops + 1
    /\ \E R \in SUBSET shown \ {{}} : op' = [NoOp EXCEPT !.at = "rows", !.rows = R, !.back = "rows"]
    /\ UNCHANGED <<zune, caches, lib, shown, faults, foreign, annals>>

\* The next of the rows to remove, or of the copies to overwrite.
NextRow(l) ==
    /\ At(l)
    /\ \E r \in op.rows : op' = [op EXCEPT !.at = "delete", !.row = r, !.rows = @ \ {r}]
    /\ UNCHANGED <<zune, caches, lib, shown, limits, faults, annals>>

\* By handle if the row has one, else by path.
Target(r)  == IF r.id > 0 THEN r.id ELSE Resolve(r.song)
Targets(r) == (IF r.id > 0 THEN {r.id} ELSE Leads(r.song)) \cap DOMAIN objs

\* rm and rm_by_id: the device first.  A call that fails may have done its work.
Delete ==
    /\ At("delete")
    /\ \/ /\ Target(op.row) \in DOMAIN objs /\ objs' = Deleted({Target(op.row)})
          /\ Go("forget") /\ UNCHANGED <<faults, marred>>
       \/ Target(op.row) \notin DOMAIN objs /\ Go(op.back) /\ UNCHANGED <<objs, faults, marred>>
       \/ Go(op.back) /\ Fails /\ UNCHANGED <<objs, marred>>
       \/ \E h \in Targets(op.row) :
            /\ Fails /\ objs' = Deleted({h})
            /\ \/ Go("forget") /\ UNCHANGED marred
               \/ Go(op.back) /\ marred' = marred \cup {objs[h].of}
    /\ UNCHANGED <<made, modern, caches, lib, shown, limits, twins, cut, bare>>

\* Then the cache and the App, by what the row was known by; a removal by path
\* also drops the album from the library.
Gone(r, q) == IF q.id > 0 THEN r.id = q.id ELSE SameName(r, q)
Forget ==
    /\ At("forget")
    /\ tc' = IF tc = None THEN None ELSE Kept({r \in tc.rows : ~Gone(r, op.row)})
    /\ IF op.row.id > 0 THEN UNCHANGED <<lib, libfile>> ELSE Invalidate("album", AlbumOf[op.row.song])
    /\ shown' = {r \in shown : ~SameName(r, op.row)}
    /\ op' = [op EXCEPT !.at = op.back, !.ok = (@ \/ op.back = "rows")]
    /\ UNCHANGED <<zune, limits, faults, annals>>

\* After the last row, or a cancel between two, cleanup_empty_folders if anything was removed.
RowsDone ==
    /\ At("rows")
    /\ op' = [op EXCEPT !.at = IF op.ok THEN "look" ELSE "refresh", !.rows = {},
                        !.look = {h \in DOMAIN objs : objs[h].kind \in {"artist", "album"} /\ Reached(h)}]
    /\ UNCHANGED <<zune, caches, lib, shown, limits, faults, annals>>

\* An artist's folder after the folders in it.  A folder that cannot be listed is taken
\* for an empty one and goes; the device keeps what is in it.
LookAt(h) ==
    /\ At("look") /\ h \in op.look /\ Children(h) \cap op.look = {}
    /\ \/ /\ objs' = Deleted({h}) /\ UNCHANGED bare
          /\ (Children(h) = {} /\ UNCHANGED faults) \/ (Children(h) # {} /\ Fails)
          /\ op' = [op EXCEPT !.at = "unlink", !.look = @ \ {h}, !.gone = objs[h]]
       \/ /\ Fails /\ op' = [op EXCEPT !.look = @ \ {h}]
          /\ objs' = Deleted({h}) /\ bare' = TRUE
       \/ /\ Children(h) # {}
          /\ op' = [op EXCEPT !.look = @ \ {h}] /\ UNCHANGED <<objs, faults, bare>>
    /\ UNCHANGED <<made, modern, caches, lib, shown, limits, twins, cut, marred>>

\* Folders that cannot be read are passed over.
Overlook ==
    /\ At("look") /\ Fails
    /\ \E L \in SUBSET op.look : op' = [op EXCEPT !.look = L]
    /\ UNCHANGED <<zune, caches, lib, shown, limits, annals>>

\* A folder that is gone takes its entries of the library with it.
Unlink ==
    /\ At("unlink") /\ Go("look") /\ Invalidate(op.gone.kind, op.gone.of)
    /\ UNCHANGED <<zune, tc, shown, limits, faults, annals>>

Cleaned ==
    /\ At("look") /\ op.look = {} /\ Go("refresh")
    /\ UNCHANGED <<zune, caches, lib, shown, limits, faults, annals>>

\* refresh_storage_cache, when the device says how much room there is.
Refresh ==
    /\ At("refresh") /\ op' = NoOp
    /\ \/ tc' = Noted(Free) /\ UNCHANGED faults
       \/ Fails /\ UNCHANGED tc
    /\ UNCHANGED <<zune, libfile, lib, shown, limits, annals>>

-----------------------------------------------------------------------------
(* Sync. *)

\* The user picks songs; their order is any order.
StartSync ==
    /\ At("idle") /\ ops < MaxOps /\ ops' = ops + 1
    /\ \E T \in SUBSET Song \ {{}} : op' = [NoOp EXCEPT !.at = "next", !.todo = T, !.back = "copies"]
    /\ UNCHANGED <<zune, caches, lib, shown, faults, foreign, annals>>

\* find_device_copies: by artist and title.
CopiesShown_ByHandle(t) == {r \in shown : <<r.form, r.song, t>> \in Taken /\ r.id > 0}

CopiesShown(t) == {r \in shown : <<r.form, r.song, t>> \in Taken}

NextSong ==
    /\ At("next")
    /\ \E t \in op.todo : op' = [op EXCEPT !.at = "copies", !.todo = @ \ {t}, !.song = t,
                                           !.rows = CopiesShown(t)]
    /\ UNCHANGED <<zune, caches, lib, shown, limits, faults, annals>>

ImportTrack ==
    /\ At("copies") /\ op.rows = {}
    /\ (Go("artist") /\ EnsureLibrary) \/ (Go("next") /\ NoLibrary)
    /\ UNCHANGED <<zune, tc, shown, limits, annals>>

Send(o) == made < MaxHandle /\ made' = made + 1 /\ objs' = With(o)
Keep    == UNCHANGED <<objs, made>>

\* find_or_create_folder in d; a folder that is not there any more cannot be looked into, one
\* whose name cannot be read is not found, and one may be made by a call that fails.
Folder(kind, x, d, next) ==
    \/ ~Live(d) /\ Go("wedged") /\ Keep /\ UNCHANGED faults
    \/ /\ Live(d) /\ Keep
       /\ \E h \in Candidates(d, kind, x) :
            op' = [op EXCEPT !.at = next, !.id = h] /\ ((h = Find(d, kind, x) /\ UNCHANGED faults) \/ Fails)
    \/ /\ Live(d) /\ Send(Object(kind, x, d)) /\ op' = [op EXCEPT !.at = next, !.id = made']
       /\ (Find(d, kind, x) = Nowhere /\ UNCHANGED faults) \/ Fails
    \/ Live(d) /\ Fails /\ Go("next") /\ (Keep \/ Send(Object(kind, x, d)))

\* save_library_cache, with the folder that was found or made.
File(l, next) == lib' = l /\ libfile' = l /\ Go(next)

\* find_or_create_artist_native
PlaceArtist ==
    /\ At("artist")
    /\ LET a == ArtistOf[AlbumOf[op.song]] IN
       \/ lib.artists[a] # Nowhere /\ Go("album") /\ Keep /\ UNCHANGED faults
       \/ lib.artists[a] = Nowhere /\ Folder("artist", a, Root, "file artist")
    /\ UNCHANGED <<modern, caches, lib, shown, limits, annals>>

FileArtist ==
    /\ At("file artist") /\ File([lib EXCEPT !.artists[ArtistOf[AlbumOf[op.song]]] = op.id], "album")
    /\ UNCHANGED <<zune, tc, shown, limits, faults, annals>>

\* find_or_create_album_native: a folder, then the album object.
PlaceAlbum ==
    /\ At("album")
    /\ LET b == AlbumOf[op.song] IN
       \/ lib.albums[b] # Nowhere /\ Go("upload") /\ Keep /\ UNCHANGED faults
       \/ lib.albums[b] = Nowhere /\ Folder("album", b, lib.artists[ArtistOf[b]], "object")
    /\ UNCHANGED <<modern, caches, lib, shown, limits, annals>>

AlbumObject ==
    /\ At("object") /\ Go("file album")
    /\ \/ Send(Object("alb", AlbumOf[op.song], Root)) /\ (UNCHANGED faults \/ Fails)
       \/ Fails /\ Keep
    /\ UNCHANGED <<modern, caches, lib, shown, limits, annals>>

FileAlbum ==
    /\ At("file album") /\ File([lib EXCEPT !.albums[AlbumOf[op.song]] = op.id], "upload")
    /\ UNCHANGED <<zune, tc, shown, limits, faults, annals>>

\* SendObjectPropList and SendObject; the device keeps no object whose data did not come.
Upload ==
    /\ At("upload")
    /\ LET d == lib.albums[AlbumOf[op.song]] IN
       \/ ~Live(d) /\ Go("wedged") /\ Keep /\ UNCHANGED <<faults, twins, cut>>
       \/ /\ Live(d) /\ Send(Object("track", op.song, d))
          /\ twins' = IF Copies(op.song) # {} THEN twins \cup {op.song} ELSE twins
          /\ \/ op' = [op EXCEPT !.at = "record", !.id = made'] /\ UNCHANGED <<faults, cut>>
             \/ Go("next") /\ Fails /\ cut' = cut \cup {op.song}
       \/ Live(d) /\ Fails /\ Go("next") /\ Keep /\ UNCHANGED <<twins, cut>>
    /\ UNCHANGED <<modern, caches, lib, shown, limits, marred, bare>>

Shown(r) == IF \E q \in shown : SameName(q, r) THEN shown ELSE shown \cup {r}

Record_Album ==
    /\ At("record")
    /\ LET h == lib.albums[AlbumOf[op.song]] IN
       tc' = Appended(Row(h, op.song, "file")) /\ shown' = Shown(Row(h, op.song, "title"))
    /\ op' = [op EXCEPT !.at = "next", !.ok = TRUE]
    /\ UNCHANGED <<zune, libfile, lib, limits, faults, annals>>

\* The row of the cache names the file; the App's names the title, and stays as it is
\* if the App has that name.
Record ==
    /\ At("record")
    /\ tc' = Appended(Row(op.id, op.song, "file")) /\ shown' = Shown(Row(op.id, op.song, "title"))
    /\ op' = [op EXCEPT !.at = "next", !.ok = TRUE]
    /\ UNCHANGED <<zune, libfile, lib, limits, faults, annals>>

\* After the last song, or a cancel between two.
SyncDone ==
    /\ At("next")
    /\ op' = IF op.ok THEN [op EXCEPT !.at = "refresh"] ELSE NoOp
    /\ UNCHANGED <<zune, caches, lib, shown, limits, faults, annals>>

-----------------------------------------------------------------------------
(* Another computer, or the Zune itself, while it is away from this one (external). *)

Elsewhere == At("off") /\ foreign < MaxForeign /\ foreign' = foreign + 1

\* Folders that get empty may go too, with the album object.
Emptied(h) ==
    LET d == objs[h].in
    IN  IF d \notin DOMAIN objs \/ Children(d) # {h} THEN {}
        ELSE {d} \cup {g \in DOMAIN objs : objs[g].kind = "alb" /\ objs[g].of = objs[d].of}
                 \cup {g \in DOMAIN objs : g = objs[d].in /\ Children(g) = {d}}
DeletedElsewhere ==
    /\ Elsewhere
    /\ \E h \in UNION {Copies(t) : t \in Song} :
         \E also \in {{}, Emptied(h)} : objs' = Deleted({h} \cup also)
    /\ UNCHANGED <<made, modern, caches, lib, shown, op, ops, faults, annals>>

\* A song into the folders it belongs in.
AddedElsewhere ==
    /\ Elsewhere
    /\ \E t \in Song \ OnDevice :
         /\ AlbumDir(AlbumOf[t]) # Nowhere /\ made < MaxHandle
         /\ made' = made + 1 /\ objs' = With(Object("track", t, AlbumDir(AlbumOf[t])))
    /\ UNCHANGED <<modern, caches, lib, shown, op, ops, faults, annals>>

-----------------------------------------------------------------------------

Listing == Open \/ Reload \/ Collect \/ Load \/ Warm \/ Close
Removal == StartRemoval \/ NextRow("rows") \/ Delete \/ Forget \/ RowsDone \/ (\E h \in op.look : LookAt(h))
              \/ Overlook \/ Unlink \/ Cleaned \/ Refresh
Syncing == StartSync \/ NextSong \/ NextRow("copies") \/ ImportTrack \/ PlaceArtist \/ FileArtist \/ PlaceAlbum
              \/ AlbumObject \/ FileAlbum \/ Upload \/ Record \/ SyncDone
ZuneNext == Listing \/ Removal \/ Syncing \/ DeletedElsewhere \/ AddedElsewhere

ZuneSpec == ZuneInit /\ [][ZuneNext]_zuneVars

-----------------------------------------------------------------------------
(* Properties. *)

\* Calls that failed, sessions cut short, changes made by others.  Two of them can
\* cancel out in the free space the caches are dated by.
Mishaps == faults + foreign

\* A title that leads to the song's file and to no other, and by which the App knows the
\* song again and takes it for no other.
OwnName(t) ==
    /\ t \notin Garbled
    /\ \A s \in Song : (<<s, t>> \in Fits <=> s = t) /\ (<<t, s>> \in Fits <=> s = t)
    /\ \A s \in Song, form \in {"title", "file"} : <<form, t, s>> \in Taken <=> s = t

\* Folders no other is taken for.
OwnFolder(b) == \A p \in AlikeDir : p[2] # b
OwnPath(t)   == OwnName(t) /\ OwnFolder(AlbumOf[t]) /\ OwnFolder(ArtistOf[AlbumOf[t]])

\* The list that is kept of the device is the list of the device after any one mishap; a
\* song that was sent but not noted may be missing from it.  What a reading left out, or a
\* call removed that failed, stays wrong until the next reading.
ListTrue ==
    At("idle") /\ Mishaps <= 1 => \A t \in Song \ (twins \cup marred) : OwnPath(t) =>
        /\ t \in OnDevice \ cut => \E r \in Listed : r.song = t
        /\ \A r \in Listed : r.song = t => t \in OnDevice /\ (r.id > 0 => r.id \in Copies(t))

\* Nothing is sent into a folder that is gone, unless the library cache was believed without
\* a track list that would date it, or a folder went by a call that failed; or the folder
\* was another's, taken for the song's.
NoDeadParent == At("wedged") /\ Mishaps <= 1 /\ OwnPath(op.song) => faults > 0 /\ bare

\* Removing a row of the list removes the song the row names, never another: by handle that
\* very song, by path one whose file that name fits.
RemovalHits == At("delete") =>
    \A h \in Targets(op.row) \cup ({Target(op.row)} \cap DOMAIN objs) :
        /\ objs[h].kind = "track"
        /\ IF op.row.id > 0 THEN objs[h].of = op.row.song ELSE <<objs[h].of, op.row.song>> \in Fits

\* As long as nothing fails and others make one change at most, syncing a song that is on
\* the device replaces it, if its name and its folders are its own.
OneCopy == faults = 0 /\ foreign <= 1 => \A t \in twins : ~OwnPath(t)

=============================================================================
