----------------------------- MODULE StemStore -----------------------------
(***************************************************************************)
(* The stem cache on disk (app stems.rs) as the processes that share it    *)
(* use it: zytunes-tui and zytunes-serve look a track up, split it into a  *)
(* work directory and store the result, one file-system call at a time,    *)
(* with nothing but the file system between them.  A process may crash     *)
(* between two calls, and the user may edit a source or clear the cache.   *)
(***************************************************************************)
EXTENDS Integers, Sequences, FiniteSets

CONSTANTS
    Key,         \* a source track and a recipe: what names a cache entry
    Proc,        \* processes with the cache open
    Stem, Inter, \* files a split ends with, and files only its passes use
    Passes,      \* the recipe: a sequence of [input, outputs]
    Source,      \* the input of a pass that reads the track itself
    Meta,        \* the meta sidecar
    None,
    Cap,         \* cache_max_bytes, in stem files
    MaxStarts,   \* bound: lookups
    MaxEdits,    \* bound: versions of a source
    MaxFaults    \* bound: crashes and clears

ASSUME StoreAssumption ==
    /\ {Cap, MaxStarts, MaxEdits, MaxFaults} \subseteq Nat
    /\ Passes \in Seq([input : {Source} \cup Stem \cup Inter, outputs : SUBSET (Stem \cup Inter)])
    /\ Len(Passes) > 0
    /\ Meta \notin Stem \cup Inter /\ Source \notin Stem \cup Inter
    /\ None \notin Stem \cup Inter \cup {Meta} /\ None \notin Nat
    /\ IsFiniteSet(Key) /\ IsFiniteSet(Stem) /\ IsFiniteSet(Inter) /\ Stem # {}

Version == 0..MaxEdits
File    == Stem \cup Inter \cup {Meta}

\* A directory: its files, each with the version of the source it was made from
\* (the meta sidecar: with the fingerprint it holds).
Empty == [f \in {} |-> 0]
Gone  == [f \in {None} |-> 0]
Dir   == {Gone} \cup UNION {[F -> Version] : F \in SUBSET File}

Has(d, f)    == f \in DOMAIN d
Whole(d)     == Stem \subseteq DOMAIN d
With(d, f, v) == [g \in (DOMAIN d \ {None}) \cup {f} |-> IF g = f THEN v ELSE d[g]]
Only(d, F)   == [g \in DOMAIN d \cap F |-> d[g]]
Size(d)      == Cardinality(DOMAIN d \cap (Stem \cup Inter))

VARIABLES
    src,     \* the version of each source file
    entry,   \* cache_dir/{key}
    stage,   \* cache_dir/{key}.tmp
    legacy,  \* cache_dir/{path hash}, from before keys had a recipe
    work,    \* cache_dir/work/{key}
    lru,     \* pairs of keys, the first used before the second: the mtimes of the sidecars
    job,     \* what each process is doing
    starts, faults,
    raced,    \* keys whose source changed while one of their splits was under way
    unpruned, \* entries no prune has counted yet
    alone     \* processes at work with no step of anyone else since they began

disk == <<src, entry, stage, legacy, work, lru>>
ghost == <<raced, unpruned, alone>>
vars == <<disk, job, starts, faults, ghost>>

(* An operator X_Y is X with a plausible mistake.  No specification uses it:  *)
(* it is there to be put in the place of X, to see that a property notices.   *)

Idle == [at |-> "idle"]

\* A cache of earlier runs: splits, and splits from before keys had a recipe.
Split0 == [f \in Stem \cup {Meta} |-> 0]

\* What a prune counts, and what the order of use is of: the entries with a sidecar.
Listed == {k \in Key : Has(entry[k], Meta)}

\* The orders in which they may have been used.
Orders == {R \in SUBSET (Listed \X Listed) :
             /\ \A a, b \in Listed : a # b => (<<a, b>> \in R <=> <<b, a>> \notin R)
             /\ \A a \in Listed : <<a, a>> \notin R
             /\ \A a, b, c \in Listed : <<a, b>> \in R /\ <<b, c>> \in R => <<a, c>> \in R}

Init ==
    /\ src = [k \in Key |-> 0]
    /\ entry \in [Key -> {Gone, Split0}]
    /\ legacy \in [Key -> {Gone, Split0}]
    /\ Cardinality({k \in Key : legacy[k] # Gone}) <= 1
    /\ stage = [k \in Key |-> Gone] /\ work = stage
    /\ lru \in Orders
    /\ job = [p \in Proc |-> Idle]
    /\ starts = 0 /\ faults = 0
    /\ raced = {} /\ unpruned = {k \in Key : entry[k] # Gone} /\ alone = {}

-----------------------------------------------------------------------------
At(p, s) == job[p].at = s
K(p)     == job[p].key

\* A step of p is a step of somebody else to every other process.
Acts(p)    == alone' = alone \cap {p} /\ UNCHANGED <<starts, faults>>
Goto(p, s) == Acts(p) /\ job' = [job EXCEPT ![p].at = s]

\* A fresh set of local variables.
Local(s, k, todo, end) == [at |-> s, key |-> k, todo |-> todo, pick |-> k, pass |-> 1, fp |-> 0,
                         left |-> {}, files |-> {}, order |-> {}, total |-> 0, end |-> end]

Ends(p, how) == Acts(p) /\ job' = [job EXCEPT ![p] = Local("cleanup", K(p), {}, how)]

Without(k) == lru \cap ((Listed \ {k}) \X (Listed \ {k}))
Recent(k)  == Without(k) \cup {<<c, k>> : c \in Listed \ {k}}
Oldest(k)  == Without(k) \cup {<<k, c>> : c \in Listed \ {k}}

\* run_separation, or a request to the server, for track k.
Start(p, k) ==
    /\ At(p, "idle") /\ starts < MaxStarts /\ starts' = starts + 1
    /\ LET old == {c \in Key : legacy[c] # Gone} IN
       job' = [job EXCEPT ![p] = Local(IF old = {} THEN "lookup" ELSE "migrate", k, old, "stored")]
    /\ alone' = IF \A q \in Proc : At(q, "idle") THEN {p} ELSE {}
    /\ UNCHANGED <<disk, faults, raced, unpruned>>

\* migrate_legacy_stem_entries: is the twin of a legacy entry there?
MigrateLook(p) ==
    /\ At(p, "migrate")
    /\ Acts(p) /\ UNCHANGED <<disk, raced, unpruned>>
    /\ IF job[p].todo = {} THEN job' = [job EXCEPT ![p] = Local("lookup", K(p), {}, "stored")]
       ELSE \E c \in job[p].todo :
              job' = [job EXCEPT ![p].todo = @ \ {c}, ![p].pick = c,
                                 ![p].at = IF ~Has(legacy[c], Meta) THEN "migrate"
                                           ELSE IF entry[c] # Gone THEN "drop" ELSE "adopt"]

\* It is: the legacy entry is removed.
MigrateDrop(p) ==
    /\ At(p, "drop")
    /\ legacy' = [legacy EXCEPT ![job[p].pick] = Gone]
    /\ Goto(p, "migrate") /\ UNCHANGED <<src, entry, stage, work, lru, raced, unpruned>>

\* rename(2) takes the place of an empty directory, and of no other.
Free(d) == d \in {Gone, Empty}

\* It is not: the legacy entry gets its name.  Another sweep may have been faster.
MigrateAdopt(p) ==
    LET c == job[p].pick IN
    /\ At(p, "adopt")
    /\ IF legacy[c] # Gone /\ Free(entry[c])
       THEN /\ entry' = [entry EXCEPT ![c] = legacy[c]]
            /\ legacy' = [legacy EXCEPT ![c] = Gone]
            /\ lru' = Oldest(c)
            /\ unpruned' = unpruned \cup {c}
       ELSE UNCHANGED <<entry, legacy, lru, unpruned>>
    /\ Goto(p, "migrate") /\ UNCHANGED <<src, stage, work, raced>>

-----------------------------------------------------------------------------
(* Looking up and splitting. *)

\* The files are not looked for.
Fresh_NoFiles(k) == Has(entry[k], Meta) /\ entry[k][Meta] = src[k]

\* What cached_stems calls a hit.
Fresh(k) == Has(entry[k], Meta) /\ entry[k][Meta] = src[k] /\ Whole(entry[k])

Lookup(p) ==
    /\ At(p, "lookup")
    /\ Acts(p) /\ UNCHANGED <<disk, raced, unpruned>>
    /\ job' = [job EXCEPT ![p].at = IF Fresh(K(p)) THEN "touch" ELSE "clear",
                          ![p].fp = IF Fresh(K(p)) THEN src[K(p)] ELSE 0]

\* A hit: write_meta puts back the sidecar it read, into a new directory if the
\* entry was evicted meanwhile.
Touch(p) ==
    /\ At(p, "touch")
    /\ entry' = [entry EXCEPT ![K(p)] = With(@, Meta, job[p].fp)]
    /\ lru' = Recent(K(p))
    /\ Acts(p) /\ job' = [job EXCEPT ![p] = Idle]
    /\ UNCHANGED <<src, stage, legacy, work, raced, unpruned>>

ClearWork(p) ==
    /\ At(p, "clear")
    /\ work' = [work EXCEPT ![K(p)] = Empty]
    /\ Goto(p, "pass") /\ UNCHANGED <<src, entry, stage, legacy, lru, raced, unpruned>>

NextPass(n) == IF n = Len(Passes) THEN 1 ELSE n + 1

\* One model pass.  The engine may leave an output out; the next pass, or the
\* look at the whole set in the end, finds it missing.
Pass(p) ==
    LET k == K(p)
        pass == Passes[job[p].pass]
        made == IF pass.input = Source THEN src[k] ELSE work[k][pass.input]
    IN /\ At(p, "pass") /\ (pass.input = Source \/ Has(work[k], pass.input))
       /\ \E out \in SUBSET pass.outputs :
            work' = [work EXCEPT ![k] = [f \in (DOMAIN @ \ {None}) \cup out |->
                                           IF f \in out THEN made ELSE @[f]]]
       /\ Acts(p)
       /\ job' = [job EXCEPT ![p].at = IF job[p].pass = Len(Passes) THEN "store" ELSE "pass",
                             ![p].pass = NextPass(@)]
       /\ UNCHANGED <<src, entry, stage, legacy, lru, raced, unpruned>>

\* The engine fails, is cancelled, or finds no input; moving a file fails.
Fail(p) ==
    /\ job[p].at \in {"pass", "move"}
    /\ Ends(p, "failed") /\ UNCHANGED <<disk, raced, unpruned>>

-----------------------------------------------------------------------------
(* store_stems. *)

\* MissingOutput, or the fingerprint of the source and a new stage.
Stage(p) ==
    LET k == K(p) IN
    /\ At(p, "store")
    /\ IF Whole(work[k])
       THEN /\ stage' = [stage EXCEPT ![k] = Empty]
            /\ Acts(p)
            /\ job' = [job EXCEPT ![p].at = "move", ![p].fp = src[k], ![p].todo = Stem]
       ELSE Ends(p, "failed") /\ UNCHANGED stage
    /\ UNCHANGED <<src, entry, legacy, work, lru, raced, unpruned>>

Move(p) ==
    LET k == K(p) IN
    /\ At(p, "move") /\ job[p].todo # {}
    /\ \E f \in job[p].todo :
         IF Has(work[k], f) /\ stage[k] # Gone
         THEN /\ stage' = [stage EXCEPT ![k] = With(@, f, work[k][f])]
              /\ work' = [work EXCEPT ![k] = Only(@, File \ {f})]
              /\ Acts(p) /\ job' = [job EXCEPT ![p].todo = @ \ {f}]
         ELSE Ends(p, "lost") /\ UNCHANGED <<stage, work>>
    /\ UNCHANGED <<src, entry, legacy, lru, raced, unpruned>>

\* The sidecar goes straight into the entry.
WriteMeta_Entry(p) ==
    /\ At(p, "move") /\ job[p].todo = {}
    /\ entry' = [entry EXCEPT ![K(p)] = With(stage[K(p)], Meta, job[p].fp)]
    /\ Goto(p, "swap") /\ UNCHANGED <<src, stage, legacy, work, lru, raced, unpruned>>

\* The sidecar last; a stage another process swept is made again.
WriteMeta(p) ==
    /\ At(p, "move") /\ job[p].todo = {}
    /\ stage' = [stage EXCEPT ![K(p)] = With(@, Meta, job[p].fp)]
    /\ Goto(p, "swap") /\ UNCHANGED <<src, entry, legacy, work, lru, raced, unpruned>>

RemoveOld(p) ==
    /\ At(p, "swap")
    /\ entry' = [entry EXCEPT ![K(p)] = Gone]
    /\ Goto(p, "rename") /\ UNCHANGED <<src, stage, legacy, work, lru, raced, unpruned>>

Rename(p) ==
    LET k == K(p) IN
    /\ At(p, "rename")
    /\ IF stage[k] # Gone /\ Free(entry[k])
       THEN /\ entry' = [entry EXCEPT ![k] = stage[k]]
            /\ stage' = [stage EXCEPT ![k] = Gone]
            /\ lru' = Recent(k)
            /\ unpruned' = unpruned \cup {k}
            /\ Acts(p) /\ job' = [job EXCEPT ![p] = Local("prune", k, {}, "stored")]
       ELSE Ends(p, "lost") /\ UNCHANGED <<entry, stage, lru, unpruned>>
    /\ UNCHANGED <<src, legacy, work, raced>>

\* The files of some entries, which stand for their bytes.
Files(ks) == {kf \in ks \X (Stem \cup Inter) : Has(entry[kf[1]], kf[2])}
Total(ks) == Cardinality(Files(ks))

\* prune_stem_cache: stages are swept, whoever is filling them, entries counted.
List(p) ==
    /\ At(p, "prune")
    /\ stage' = [k \in Key |-> Gone]
    /\ Acts(p)
    /\ job' = [job EXCEPT ![p].at = "evict",
                          ![p].todo = Listed, ![p].left = Listed, ![p].order = lru \cap (Listed \X Listed),
                          ![p].files = Files(Listed), ![p].total = Total(Listed)]
    /\ unpruned' = unpruned \ Listed
    /\ UNCHANGED <<src, entry, legacy, work, lru, raced>>

\* The entry just stored stays.
Spared(p, k) == k = K(p)

\* One file too many is let pass.
Over_Slack(p) == job[p].total > Cap + 1

Over(p) == job[p].total > Cap

\* The oldest of the listed entries that are left.
IsNext(p, c) == c \in job[p].left /\ \A d \in job[p].left : <<d, c>> \notin job[p].order

\* An entry somebody else removed meanwhile is not counted as evicted.
Evict(p) ==
    /\ At(p, "evict") /\ Over(p)
    /\ \E c \in Key :
         /\ IsNext(p, c)
         /\ entry' = IF Spared(p, c) THEN entry ELSE [entry EXCEPT ![c] = Gone]
         /\ job' = [job EXCEPT ![p].left = @ \ {c},
                       ![p].total = IF entry[c] = Gone \/ Spared(p, c) THEN @
                                    ELSE @ - Cardinality({kf \in job[p].files : kf[1] = c})]
    /\ Acts(p)
    /\ UNCHANGED <<src, stage, legacy, work, lru, raced, unpruned>>

Pruned(p) ==
    /\ At(p, "evict") /\ (~Over(p) \/ job[p].left = {})
    /\ Ends(p, "stored") /\ UNCHANGED <<disk, raced, unpruned>>

\* The work directory is removed whatever the outcome; the caller hears of it.
Cleanup(p) ==
    /\ At(p, "cleanup")
    /\ work' = [work EXCEPT ![K(p)] = Gone]
    /\ Acts(p) /\ job' = [job EXCEPT ![p] = Idle]
    /\ UNCHANGED <<src, entry, stage, legacy, lru, raced, unpruned>>

-----------------------------------------------------------------------------
(* The environment. *)

Splitting == {"clear", "pass", "store", "move", "swap", "rename"}

\* A tag edit or a replaced file changes mtime and size.
Edit(k) ==
    /\ src[k] < MaxEdits
    /\ src' = [src EXCEPT ![k] = @ + 1]
    /\ raced' = IF \E p \in Proc : job[p].at \in Splitting /\ K(p) = k
                THEN raced \cup {k} ELSE raced
    /\ alone' = {}
    /\ UNCHANGED <<entry, stage, legacy, work, lru, job, starts, faults, unpruned>>

\* The process dies; a directory it was removing may have lost any of its files.
Crash(p) ==
    LET gone == IF At(p, "swap") THEN {K(p)}
                ELSE IF At(p, "evict") /\ job[p].total > Cap
                THEN {c \in Key : IsNext(p, c)} \ {K(p)} ELSE {}
    IN /\ faults < MaxFaults /\ faults' = faults + 1
       /\ ~At(p, "idle")
       /\ \E F \in SUBSET File :
            entry' = [k \in Key |-> IF k \in gone /\ entry[k] # Gone
                                    THEN Only(entry[k], F) ELSE entry[k]]
       /\ job' = [job EXCEPT ![p] = Idle]
       /\ alone' = {}
       /\ unpruned' = unpruned \cup gone \cup (IF At(p, "evict") THEN job[p].todo ELSE {})
       /\ UNCHANGED <<src, stage, legacy, work, lru, starts, raced>>

\* ClearStemCache: the cache directory is removed, under whoever uses it.
Clear ==
    /\ faults < MaxFaults /\ faults' = faults + 1
    /\ entry' = [k \in Key |-> Gone]
    /\ stage' = entry' /\ legacy' = entry' /\ work' = entry'
    /\ alone' = {}
    /\ UNCHANGED <<src, lru, job, starts, raced, unpruned>>

ProcNext(p) ==
    \/ MigrateLook(p) \/ MigrateDrop(p) \/ MigrateAdopt(p)
    \/ Lookup(p) \/ Touch(p) \/ ClearWork(p) \/ Pass(p) \/ Fail(p)
    \/ Stage(p) \/ Move(p) \/ WriteMeta(p) \/ RemoveOld(p) \/ Rename(p)
    \/ List(p) \/ Evict(p) \/ Pruned(p) \/ Cleanup(p)

Next ==
    \/ \E p \in Proc : ProcNext(p) \/ Crash(p) \/ \E k \in Key : Start(p, k)
    \/ \E k \in Key : Edit(k)
    \/ Clear

Spec == Init /\ [][Next]_vars

\* A process that is not stopped runs on.
FairSpec == Spec /\ \A p \in Proc : WF_vars(ProcNext(p))

-----------------------------------------------------------------------------
(* Properties. *)

Steps == {"migrate", "drop", "adopt", "lookup", "touch", "clear", "pass", "store", "move",
          "swap", "rename", "prune", "evict", "cleanup"}

Job == [at : Steps, key : Key, todo : SUBSET (Key \cup Stem), pick : Key, pass : 1..Len(Passes),
        fp : Version, left : SUBSET Key, files : SUBSET (Key \X (Stem \cup Inter)),
        order : SUBSET (Key \X Key), total : Int, end : {"stored", "failed", "lost"}]

\* What a job has left to do: files to move, or entries.
Todo(p) == /\ At(p, "move") => job[p].todo \subseteq Stem
           /\ job[p].at \in {"migrate", "drop", "adopt", "evict"} => job[p].todo \subseteq Key

\* Types of the directories and of what each process has in hand.
TypeOK ==
    /\ src \in [Key -> Version]
    /\ {entry, stage, legacy, work} \subseteq [Key -> Dir]
    /\ lru \subseteq Key \X Key
    /\ job \in [Proc -> {Idle} \cup Job]
    /\ starts \in 0..MaxStarts /\ faults \in 0..MaxFaults
    /\ raced \subseteq Key /\ unpruned \subseteq Key /\ alone \subseteq Proc
    /\ \A p \in Proc : Todo(p)

\* A lookup never serves half a split, nor one of another version of the
\* track: what counts as a hit was made from the source as it is, whoever
\* stored, pruned, touched or crashed meanwhile.  The one exception is a source
\* edited during its own split: store_stems takes the fingerprint afterwards.
ServedIsCurrent ==
    \A k \in Key : Fresh(k) => k \in raced \/ \A f \in Stem : Has(entry[k], f) /\ entry[k][f] = src[k]

\* Once its entries have all been counted by a prune, a cache nobody is working on
\* fits its cap or holds one entry, the one its last store was for.
CapHolds ==
    (unpruned = {} /\ \A p \in Proc : At(p, "idle"))
       => LET ks == {k \in Listed : Size(entry[k]) > 0}
          IN Total(ks) <= Cap \/ Cardinality(ks) = 1

\* A store nobody interfered with succeeds into a whole entry, whatever stages,
\* half-removed entries or work files an earlier crash has left.
StoredPlays ==
    \A p \in alone : At(p, "cleanup") =>
        job[p].end # "lost" /\ (job[p].end = "stored" => Fresh(K(p)))

\* Left alone, a prune evicts only while the cache is over its cap, and never
\* an entry used after one it keeps, other than the one just stored.
EvictsOldest ==
    [][\A p \in alone, k \in Key :
          (Evict(p) /\ entry'[k] # entry[k]) =>
             /\ Total({c \in Key : Has(entry[c], Meta)}) > Cap
             /\ \A c \in Key : <<c, k>> \in lru => (~Has(entry[c], Meta) \/ c = K(p))]_vars

\* The version a whole entry was made from.
Shelf == [k \in Key |-> IF Has(entry[k], Meta) /\ Whole(entry[k])
                        THEN entry[k][CHOOSE f \in Stem : TRUE] ELSE None]

\* Processes, crashes and clears together behave as a shelf of whole splits.
Cache == INSTANCE StemCache WITH shelf <- Shelf
ShelfSpec == Cache!Spec

=============================================================================
