-------------------------- MODULE StemStore_proofs --------------------------
(***************************************************************************)
(* Theorems about StemStore, for every set of tracks and processes, every  *)
(* recipe and every cap.                                                   *)
(***************************************************************************)
EXTENDS StemStore, FiniteSetTheorems, SequenceTheorems, TLAPS

-----------------------------------------------------------------------------
(* Directories. *)

\* A directory is Gone, or gives a version to some of the files.
LEMMA DirElim ==
    ASSUME NEW d \in Dir
    PROVE  /\ d = [g \in DOMAIN d |-> d[g]]
           /\ d = Gone \/ (DOMAIN d \subseteq File /\ \A f \in DOMAIN d : d[f] \in Version)
           /\ DOMAIN d \ {None} \subseteq File
           /\ \A f \in File : Has(d, f) => d # Gone /\ d[f] \in Version
<1>1. None \notin File
  BY StoreAssumption DEF File
<1>2. CASE d = Gone
  BY <1>1, <1>2 DEF Gone, Has
<1>3. CASE d # Gone
  <2>1. PICK F \in SUBSET File : d \in [F -> Version]
    BY <1>3 DEF Dir
  <2> QED BY <2>1, <1>3 DEF Has
<1> QED BY <1>2, <1>3

LEMMA DirIntro ==
    ASSUME NEW F \in SUBSET File, NEW d \in [F -> Version]
    PROVE  d \in Dir
BY DEF Dir

LEMMA ConstDirs == Gone \in Dir /\ Empty \in Dir /\ Split0 \in Dir
<1>1. 0 \in Version
  BY StoreAssumption DEF Version
<1>2. Empty \in [{} -> Version]
  BY DEF Empty
<1>3. Split0 \in [Stem \cup {Meta} -> Version]
  BY <1>1 DEF Split0
<1>4. Stem \cup {Meta} \in SUBSET File /\ {} \in SUBSET File
  BY DEF File
<1> QED BY <1>2, <1>3, <1>4, DirIntro DEF Dir

\* What With adds and Only keeps.
LEMMA WithIs ==
    ASSUME NEW d \in Dir, NEW f \in File, NEW v \in Version
    PROVE  /\ With(d, f, v) \in Dir
           /\ \A g \in File : Has(With(d, f, v), g) <=> g = f \/ Has(d, g)
           /\ \A g \in File : Has(d, g) /\ g # f => With(d, f, v)[g] = d[g]
           /\ With(d, f, v)[f] = v
<1> DEFINE F == (DOMAIN d \ {None}) \cup {f}
<1>1. F \in SUBSET File /\ None \notin File
  BY DirElim, StoreAssumption DEF File
<1>2. \A g \in F : g # f => d[g] \in Version
  BY <1>1, DirElim DEF Has
<1>3. With(d, f, v) \in [F -> Version]
  BY <1>2 DEF With
<1>4. With(d, f, v) \in Dir
  BY <1>1, <1>3, DirIntro
<1> QED BY <1>1, <1>4 DEF With, Has

LEMMA OnlyIs ==
    ASSUME NEW d \in Dir, NEW F \in SUBSET File
    PROVE  /\ Only(d, F) \in Dir
           /\ \A g \in File : Has(Only(d, F), g) <=> g \in F /\ Has(d, g)
           /\ \A g \in File : Has(Only(d, F), g) => Only(d, F)[g] = d[g]
<1>1. DOMAIN d \cap F \in SUBSET File
  OBVIOUS
<1>2. Only(d, F) \in [DOMAIN d \cap F -> Version]
  BY DirElim DEF Only, Has
<1> QED BY <1>1, <1>2, DirIntro DEF Only, Has

-----------------------------------------------------------------------------
(* The inductive invariant.                                                  *)

\* Files are made from versions the source has had.
UpTo(d, v) == \A f \in File : Has(d, f) => d[f] <= v
Aged ==
    /\ \A k \in Key : UpTo(entry[k], src[k]) /\ UpTo(stage[k], src[k]) /\ UpTo(work[k], src[k])
    /\ \A p \in Proc : ~At(p, "idle") => job[p].fp <= src[K(p)]

\* Legacy entries are there until the first process has been through them, and
\* what it has found no twin of has none.
Migrating == {"migrate", "drop", "adopt"}
Migrated ==
    /\ \A k \in Key : legacy[k] \in {Gone, Split0}
    /\ \A p \in Proc, k \in Key : legacy[k] # Gone /\ ~At(p, "idle") =>
          /\ job[p].at \in Migrating
          /\ k \in job[p].todo \/ (~At(p, "migrate") /\ k = job[p].pick)
    /\ \A p \in Proc : At(p, "adopt") /\ legacy[job[p].pick] # Gone => entry[job[p].pick] = Gone

\* All stems and intermediate files of a directory are of one version.
MadeFrom(d, v) == \A f \in Stem \cup Inter : Has(d, f) => d[f] = v

\* An entry with the fingerprint of its source was made from it.
HitTrue ==
    \A k \in Key \ raced :
        Has(entry[k], Meta) /\ entry[k][Meta] = src[k] => MadeFrom(entry[k], src[k])

\* So is what a split has made so far, unless the source has changed; and the
\* sidecar a hit is about to write back has the fingerprint of what is there.
SplitTrue ==
    \A p \in Proc : ~At(p, "idle") /\ K(p) \notin raced =>
        /\ job[p].at \in Splitting \ {"clear"} => MadeFrom(work[K(p)], src[K(p)])
        /\ job[p].at \in {"move", "swap", "rename"} =>
              MadeFrom(stage[K(p)], src[K(p)]) /\ job[p].fp = src[K(p)]
        /\ At(p, "touch") /\ job[p].fp = src[K(p)] => MadeFrom(entry[K(p)], src[K(p)])

\* The entries with stems that some prune has counted.
Counted == {k \in Listed \ unpruned : Size(entry[k]) > 0}

\* An entry without a sidecar, which no prune would count, is not among those
\* that have been counted.
Noticed == \A k \in Key \ unpruned : Size(entry[k]) > 0 => Has(entry[k], Meta)

\* Prune p has all of them on its list: its total is the size of what it has not
\* evicted, and it will come to them all, but for the one just stored.
Charge(p, R) == {kf \in job[p].files : kf[1] \in R}
Covers(p) ==
    /\ At(p, "evict")
    /\ Counted \subseteq job[p].left \cup {K(p)}
    /\ Files(Counted) \subseteq job[p].files
    /\ \E R \in SUBSET Key :
          /\ job[p].left \cup Counted \subseteq R
          /\ job[p].total = Cardinality(Charge(p, R))

\* What a prune has left to do was on its list.
OnList == \A p \in Proc : At(p, "evict") => job[p].left \subseteq job[p].todo

Fits == Total(Counted) <= Cap \/ Cardinality(Counted) <= 1
CapInv == Noticed /\ OnList /\ (Fits \/ \E p \in Proc : Covers(p))

Inv == TypeOK /\ Aged /\ Migrated /\ HitTrue /\ SplitTrue

-----------------------------------------------------------------------------
(* Types. *)

\* A process that is not idle has a job, with all its parts.
LEMMA JobIs ==
    ASSUME TypeOK, NEW p \in Proc, ~At(p, "idle")
    PROVE  /\ job[p] \in Job
           /\ K(p) \in Key /\ job[p].pick \in Key /\ job[p].fp \in Version
           /\ job[p].left \subseteq Key /\ job[p].files \subseteq Key \X (Stem \cup Inter)
           /\ job[p].total \in Int /\ job[p].pass \in 1..Len(Passes)
BY DEF TypeOK, At, K, Idle, Job

LEMMA LocalIs ==
    ASSUME NEW k \in Key, NEW s \in Steps, NEW T \in SUBSET (Key \cup Stem),
           NEW e \in {"stored", "failed", "lost"}
    PROVE  Local(s, k, T, e) \in Job
<1>1. 0 \in Version /\ 1 \in 1..Len(Passes)
  BY StoreAssumption, LenProperties DEF Version
<1> QED BY <1>1 DEF Local, Job

LEMMA MetaIsFile == Meta \in File /\ Stem \subseteq File /\ Inter \subseteq File
BY DEF File

LEMMA DirsAre ==
    ASSUME TypeOK, NEW k \in Key
    PROVE  entry[k] \in Dir /\ stage[k] \in Dir /\ legacy[k] \in Dir /\ work[k] \in Dir
BY DEF TypeOK

LEMMA LruType ==
    ASSUME TypeOK, NEW k \in Key
    PROVE  Recent(k) \subseteq Key \X Key /\ Oldest(k) \subseteq Key \X Key
<1>1. Listed \subseteq Key /\ lru \subseteq Key \X Key
  BY DEF Listed, TypeOK
<1> HIDE DEF Listed
<1> QED BY <1>1 DEF Recent, Oldest, Without

\* What the files of some entries are.
LEMMA FilesAre ==
    ASSUME NEW ks \in SUBSET Key
    PROVE  /\ Files(ks) \subseteq Key \X (Stem \cup Inter) /\ IsFiniteSet(Files(ks))
           /\ Total(ks) \in Nat
<1>1. IsFiniteSet(ks) /\ IsFiniteSet(Stem \cup Inter)
  BY StoreAssumption, FS_Subset, FS_Union
<1>2. IsFiniteSet(ks \X (Stem \cup Inter))
  BY <1>1, FS_Product
<1>3. Files(ks) \subseteq ks \X (Stem \cup Inter)
  BY DEF Files
<1>4. IsFiniteSet(Files(ks))
  BY <1>2, <1>3, FS_Subset
<1> QED BY <1>3, <1>4, FS_CardinalityType DEF Total

\* What the steps of the model do to a job.
LEMMA GotoIs ==
    ASSUME TypeOK, NEW p \in Proc, ~At(p, "idle"), NEW s \in Steps,
           job' = [job EXCEPT ![p].at = s]
    PROVE  /\ job' \in [Proc -> {Idle} \cup Job]
           /\ job'[p] \in Job /\ job'[p].at = s
           /\ job'[p].key = job[p].key /\ job'[p].todo = job[p].todo /\ job'[p].pick = job[p].pick
           /\ job'[p].fp = job[p].fp /\ job'[p].left = job[p].left
           /\ job'[p].files = job[p].files /\ job'[p].total = job[p].total
           /\ \A q \in Proc : q # p => job'[q] = job[q]
<1>1. job[p] \in Job
  BY JobIs
<1> QED BY <1>1 DEF TypeOK, Job

LEMMA NewJobIs ==
    ASSUME TypeOK, NEW p \in Proc, NEW j \in {Idle} \cup Job, job' = [job EXCEPT ![p] = j]
    PROVE  /\ job' \in [Proc -> {Idle} \cup Job]
           /\ job'[p] = j /\ \A q \in Proc : q # p => job'[q] = job[q]
BY DEF TypeOK

LEMMA LocalFields ==
    ASSUME NEW k, NEW s, NEW T, NEW e
    PROVE  /\ Local(s, k, T, e).at = s /\ Local(s, k, T, e).key = k /\ Local(s, k, T, e).todo = T
           /\ Local(s, k, T, e).fp = 0 /\ Local(s, k, T, e).pick = k
BY DEF Local

LEMMA TypeInit == Init => TypeOK
<1> SUFFICES ASSUME Init PROVE TypeOK
  OBVIOUS
<1>1. 0 \in Version
  BY StoreAssumption DEF Version
<1>2. src \in [Key -> Version]
  BY <1>1 DEF Init
<1>3. entry \in [Key -> Dir] /\ legacy \in [Key -> Dir]
  BY ConstDirs DEF Init
<1>4. stage \in [Key -> Dir] /\ work \in [Key -> Dir]
  BY ConstDirs DEF Init
<1>5. lru \subseteq Key \X Key
  BY DEF Init, Orders, Listed
<1>6. starts \in 0..MaxStarts /\ faults \in 0..MaxFaults
  BY StoreAssumption DEF Init
<1>7. \A p \in Proc : job[p] = Idle
  BY DEF Init
<1>8. \A p \in Proc : job[p].at = "idle"
  BY <1>7 DEF Idle
<1> QED BY <1>2, <1>3, <1>4, <1>5, <1>6, <1>8 DEF Init, TypeOK, At, Todo

\* What a step of process p leaves alone.
LEMMA TypeFrame ==
    ASSUME TypeOK, NEW p \in Proc, Acts(p), UNCHANGED <<src, raced>>,
           \A q \in Proc : q # p => job'[q] = job[q],
           job' \in [Proc -> {Idle} \cup Job], Todo(p)',
           {entry', stage', legacy', work'} \subseteq [Key -> Dir],
           lru' \subseteq Key \X Key, unpruned' \subseteq Key
    PROVE  TypeOK'
<1>1. \A q \in Proc : Todo(q)'
  BY DEF TypeOK, Todo, At
<1> QED BY <1>1 DEF TypeOK, Acts, Todo

\* The migration, a lookup and the touch of a hit keep the types.
LEMMA TypeLookup ==
    ASSUME TypeOK, NEW p \in Proc,
           MigrateLook(p) \/ MigrateDrop(p) \/ MigrateAdopt(p) \/ Lookup(p) \/ Touch(p)
    PROVE  TypeOK'
<1>1. ~At(p, "idle")
  BY DEF MigrateLook, MigrateDrop, MigrateAdopt, Lookup, Touch, At
<1>2. /\ job[p] \in Job /\ K(p) \in Key /\ job[p].pick \in Key /\ job[p].fp \in Version
  BY <1>1, JobIs
<1>3. UNCHANGED <<src, stage, work, raced>> /\ Acts(p)
  BY DEF MigrateLook, MigrateDrop, MigrateAdopt, Lookup, Touch, disk, Goto
<1>4. /\ job' \in [Proc -> {Idle} \cup Job] /\ Todo(p)'
      /\ \A q \in Proc : q # p => job'[q] = job[q]
  <2>1. CASE MigrateLook(p)
    <3>0. job[p].todo \subseteq Key
      BY <2>1 DEF MigrateLook, TypeOK, Todo, At
    <3>1. CASE job[p].todo = {}
      <4> DEFINE j == Local("lookup", K(p), {}, "stored")
      <4>1. j \in Job /\ job' = [job EXCEPT ![p] = j]
        BY <1>2, <2>1, <3>1, LocalIs DEF MigrateLook, Steps
      <4>2. j.at = "lookup"
        BY LocalFields
      <4> HIDE DEF j
      <4> QED BY <4>1, <4>2, NewJobIs DEF Todo, At
    <3>2. CASE job[p].todo # {}
      <4>1. PICK c \in job[p].todo :
              job' = [job EXCEPT ![p].todo = @ \ {c}, ![p].pick = c,
                                 ![p].at = IF ~Has(legacy[c], Meta) THEN "migrate"
                                           ELSE IF entry[c] # Gone THEN "drop" ELSE "adopt"]
        BY <2>1, <3>2 DEF MigrateLook
      <4> DEFINE s == IF ~Has(legacy[c], Meta) THEN "migrate"
                      ELSE IF entry[c] # Gone THEN "drop" ELSE "adopt"
      <4>2. s \in Steps /\ s # "move" /\ s # "evict"
        BY DEF Steps
      <4> HIDE DEF s
      <4>3. job' = [job EXCEPT ![p].todo = @ \ {c}, ![p].pick = c, ![p].at = s]
        BY <4>1 DEF s
      <4> QED BY <1>2, <3>0, <4>2, <4>3 DEF TypeOK, Job, Todo, At
    <3> QED BY <3>1, <3>2
  <2>2. CASE MigrateDrop(p) \/ MigrateAdopt(p)
    <3>1. job' = [job EXCEPT ![p].at = "migrate"] /\ job[p].at \in {"drop", "adopt"}
      BY <2>2 DEF MigrateDrop, MigrateAdopt, Goto, At
    <3>2. job[p].todo \subseteq Key
      BY <3>1 DEF TypeOK, Todo
    <3> QED BY <1>1, <3>1, <3>2, GotoIs DEF Steps, Todo, At
  <2>3. CASE Lookup(p)
    <3> DEFINE s == IF Fresh(K(p)) THEN "touch" ELSE "clear"
               v == IF Fresh(K(p)) THEN src[K(p)] ELSE 0
    <3>1. job' = [job EXCEPT ![p].at = s, ![p].fp = v]
      BY <2>3 DEF Lookup
    <3>2. s \in Steps \ {"move", "migrate", "drop", "adopt", "evict"} /\ v \in Version
      BY <1>2, StoreAssumption DEF Steps, TypeOK, Version
    <3> HIDE DEF s, v
    <3> QED BY <1>2, <3>1, <3>2 DEF TypeOK, Job, Todo, At
  <2>4. CASE Touch(p)
    <3>1. job' = [job EXCEPT ![p] = Idle] /\ Idle.at = "idle"
      BY <2>4 DEF Touch, Idle
    <3> QED BY <3>1, NewJobIs DEF Todo, At
  <2> QED BY <2>1, <2>2, <2>3, <2>4
<1>5. legacy' \in [Key -> Dir] /\ entry' \in [Key -> Dir]
  <2>1. CASE Touch(p)
    <3>1. With(entry[K(p)], Meta, job[p].fp) \in Dir
      BY <1>2, DirsAre, MetaIsFile, WithIs
    <3> QED BY <1>2, <2>1, <3>1 DEF Touch, TypeOK
  <2>2. CASE MigrateDrop(p) \/ MigrateAdopt(p)
    BY <1>2, <2>2, ConstDirs DEF MigrateDrop, MigrateAdopt, TypeOK
  <2>3. CASE MigrateLook(p) \/ Lookup(p)
    BY <2>3 DEF MigrateLook, Lookup, disk, TypeOK
  <2> QED BY <2>1, <2>2, <2>3
<1>6. lru' \subseteq Key \X Key /\ unpruned' \subseteq Key
  <2>1. lru' = lru \/ lru' = Oldest(job[p].pick) \/ lru' = Recent(K(p))
    BY DEF MigrateLook, MigrateDrop, MigrateAdopt, Lookup, Touch, disk
  <2>2. unpruned' = unpruned \/ unpruned' = unpruned \cup {job[p].pick}
    BY DEF MigrateLook, MigrateDrop, MigrateAdopt, Lookup, Touch
  <2> QED BY <1>2, <2>1, <2>2, LruType DEF TypeOK
<1>7. {entry', stage', legacy', work'} \subseteq [Key -> Dir]
  BY <1>3, <1>5 DEF TypeOK
<1> QED BY <1>3, <1>4, <1>6, <1>7, TypeFrame

\* A work directory with the outputs of a pass, made of version v.
Made(d, out, v) == [f \in (DOMAIN d \ {None}) \cup out |-> IF f \in out THEN v ELSE d[f]]

\* A pass that has its input makes files of a version.
LEMMA PassWork ==
    ASSUME TypeOK, NEW p \in Proc, Pass(p)
    PROVE  \E out \in SUBSET (Stem \cup Inter), v \in Version :
              /\ v = src[K(p)] \/ \E f \in Stem \cup Inter : Has(work[K(p)], f) /\ v = work[K(p)][f]
              /\ work' = [work EXCEPT ![K(p)] = Made(work[K(p)], out, v)]
<1> DEFINE pass == Passes[job[p].pass]
           made == IF pass.input = Source THEN src[K(p)] ELSE work[K(p)][pass.input]
<1>1. ~At(p, "idle")
  BY DEF Pass, At
<1>2. K(p) \in Key /\ job[p].pass \in 1..Len(Passes)
  BY <1>1, JobIs
<1>3. pass \in [input : {Source} \cup Stem \cup Inter, outputs : SUBSET (Stem \cup Inter)]
  BY <1>2, StoreAssumption, ElementOfSeq
<1>4. pass.input \in {Source} \cup Stem \cup Inter /\ pass.outputs \subseteq Stem \cup Inter
  BY <1>3
<1>5. pass.input = Source \/ Has(work[K(p)], pass.input)
  BY DEF Pass
<1>6. PICK out \in SUBSET pass.outputs :
         work' = [work EXCEPT ![K(p)] = [f \in (DOMAIN @ \ {None}) \cup out |->
                                           IF f \in out THEN made ELSE @[f]]]
  BY DEF Pass
<1>7. src[K(p)] \in Version /\ work[K(p)] \in Dir
  BY <1>2 DEF TypeOK
<1>8. made \in Version /\ (made = src[K(p)] \/ \E f \in Stem \cup Inter : Has(work[K(p)], f) /\ made = work[K(p)][f])
  <2>1. CASE pass.input = Source
    BY <2>1, <1>7
  <2>2. CASE pass.input # Source
    <3>1. pass.input \in Stem \cup Inter /\ pass.input \in File /\ Has(work[K(p)], pass.input)
      BY <2>2, <1>4, <1>5 DEF File
    <3> QED BY <2>2, <3>1, <1>7, DirElim
  <2> QED BY <2>1, <2>2
<1> HIDE DEF made, pass
<1> QED BY <1>4, <1>6, <1>8 DEF Made

\* What a pass leaves in the work directory.
LEMMA MadeIs ==
    ASSUME NEW d \in Dir, NEW out \in SUBSET (Stem \cup Inter), NEW v \in Version
    PROVE  /\ Made(d, out, v) \in Dir
           /\ \A f \in File : Has(Made(d, out, v), f) <=> Has(d, f) \/ f \in out
           /\ \A f \in File : Has(Made(d, out, v), f) =>
                 Made(d, out, v)[f] = v \/ (Has(d, f) /\ Made(d, out, v)[f] = d[f])
<1> DEFINE F == (DOMAIN d \ {None}) \cup out
<1>1. F \in SUBSET File /\ None \notin File
  BY DirElim, StoreAssumption DEF File
<1>2. \A f \in F : f \notin out => d[f] \in Version
  BY <1>1, DirElim DEF Has
<1>3. Made(d, out, v) \in [F -> Version]
  BY <1>2 DEF Made
<1>4. Made(d, out, v) \in Dir
  BY <1>1, <1>3, DirIntro
<1> QED BY <1>1, <1>4 DEF Has, Made

\* What a process that ends hands on.
LEMMA EndsIs ==
    ASSUME TypeOK, NEW p \in Proc, ~At(p, "idle"), NEW e \in {"stored", "failed", "lost"}, Ends(p, e)
    PROVE  /\ job' \in [Proc -> {Idle} \cup Job] /\ Todo(p)'
           /\ job'[p].at = "cleanup" /\ job'[p].key = job[p].key /\ job'[p].fp = 0
           /\ \A q \in Proc : q # p => job'[q] = job[q]
<1> DEFINE j == Local("cleanup", K(p), {}, e)
<1>1. j \in Job /\ job' = [job EXCEPT ![p] = j]
  BY JobIs, LocalIs DEF Ends, Steps
<1>2. j.at = "cleanup" /\ j.key = job[p].key /\ j.fp = 0
  BY LocalFields DEF K
<1> HIDE DEF j
<1> QED BY <1>1, <1>2, NewJobIs DEF Todo, At

\* Splitting keeps the types.
LEMMA TypeSplit ==
    ASSUME TypeOK, NEW p \in Proc, ClearWork(p) \/ Pass(p) \/ Fail(p) \/ Cleanup(p)
    PROVE  TypeOK'
<1>1. ~At(p, "idle")
  BY DEF ClearWork, Pass, Fail, Cleanup, At
<1>2. /\ job[p] \in Job /\ K(p) \in Key /\ job[p].fp \in Version /\ job[p].pass \in 1..Len(Passes)
  BY <1>1, JobIs
<1>3. UNCHANGED <<src, stage, entry, legacy, lru, raced, unpruned>> /\ Acts(p)
  BY DEF ClearWork, Pass, Fail, Cleanup, Ends, Goto, disk
<1>4. /\ job' \in [Proc -> {Idle} \cup Job] /\ Todo(p)'
      /\ \A q \in Proc : q # p => job'[q] = job[q]
  <2>1. CASE ClearWork(p)
    <3>1. job' = [job EXCEPT ![p].at = "pass"]
      BY <2>1 DEF ClearWork, Goto
    <3> QED BY <1>1, <3>1, GotoIs DEF Steps, Todo, At
  <2>2. CASE Pass(p)
    <3> DEFINE s == IF job[p].pass = Len(Passes) THEN "store" ELSE "pass"
               n == NextPass(job[p].pass)
    <3>1. n \in 1..Len(Passes)
      BY <1>2, StoreAssumption, LenProperties DEF NextPass
    <3>2. job' = [job EXCEPT ![p].at = s, ![p].pass = n]
      BY <2>2 DEF Pass
    <3>3. s \in {"store", "pass"} /\ s \in Steps
      BY DEF Steps
    <3> HIDE DEF s, n
    <3> QED BY <1>2, <3>1, <3>2, <3>3 DEF TypeOK, Job, Todo, At
  <2>3. CASE Fail(p)
    BY <1>1, <2>3, EndsIs DEF Fail
  <2>4. CASE Cleanup(p)
    <3>1. job' = [job EXCEPT ![p] = Idle] /\ Idle.at = "idle"
      BY <2>4 DEF Cleanup, Idle
    <3> QED BY <3>1, NewJobIs DEF Todo, At
  <2> QED BY <2>1, <2>2, <2>3, <2>4
<1>5. work' \in [Key -> Dir]
  <2>1. CASE Pass(p)
    <3>1. PICK out \in SUBSET (Stem \cup Inter), v \in Version :
              work' = [work EXCEPT ![K(p)] = Made(work[K(p)], out, v)]
      BY <2>1, PassWork
    <3>2. Made(work[K(p)], out, v) \in Dir
      BY <1>2, DirsAre, MadeIs
    <3> QED BY <1>2, <3>1, <3>2 DEF TypeOK
  <2>2. CASE ~Pass(p)
    BY <2>2, <1>2, ConstDirs DEF ClearWork, Fail, Cleanup, disk, TypeOK
  <2> QED BY <2>1, <2>2
<1>6. {entry', stage', legacy', work'} \subseteq [Key -> Dir]
  BY <1>3, <1>5 DEF TypeOK
<1>7. lru' \subseteq Key \X Key /\ unpruned' \subseteq Key
  BY <1>3 DEF TypeOK
<1> QED BY <1>3, <1>4, <1>6, <1>7, TypeFrame

\* A file that is moved is one of a work directory, and goes to a stage.
LEMMA MoveIs ==
    ASSUME TypeOK, NEW p \in Proc, Move(p)
    PROVE  \/ /\ Ends(p, "lost") /\ UNCHANGED <<stage, work>>
           \/ \E f \in Stem :
                /\ f \in job[p].todo
                /\ Has(work[K(p)], f) /\ work[K(p)][f] \in Version
                /\ stage' = [stage EXCEPT ![K(p)] = With(stage[K(p)], f, work[K(p)][f])]
                /\ work' = [work EXCEPT ![K(p)] = Only(work[K(p)], File \ {f})]
                /\ Acts(p) /\ job' = [job EXCEPT ![p].todo = @ \ {f}]
<1>1. At(p, "move") /\ ~At(p, "idle")
  BY DEF Move, At
<1>2. job[p].todo \subseteq Stem
  BY <1>1 DEF TypeOK, Todo
<1>3. K(p) \in Key
  BY <1>1, JobIs
<1>4. work[K(p)] \in Dir
  BY <1>3, DirsAre
<1>5. PICK f \in job[p].todo :
         IF Has(work[K(p)], f) /\ stage[K(p)] # Gone
         THEN /\ stage' = [stage EXCEPT ![K(p)] = With(@, f, work[K(p)][f])]
              /\ work' = [work EXCEPT ![K(p)] = Only(@, File \ {f})]
              /\ Acts(p) /\ job' = [job EXCEPT ![p].todo = @ \ {f}]
         ELSE Ends(p, "lost") /\ UNCHANGED <<stage, work>>
  BY DEF Move
<1>6. f \in Stem /\ f \in File
  BY <1>2, <1>5, MetaIsFile
<1>7. Has(work[K(p)], f) => work[K(p)][f] \in Version
  BY <1>4, <1>6, DirElim
<1> QED BY <1>5, <1>6, <1>7

LEMMA TypeStore ==
    ASSUME TypeOK, NEW p \in Proc,
           Stage(p) \/ Move(p) \/ WriteMeta(p) \/ RemoveOld(p) \/ Rename(p)
    PROVE  TypeOK'
<1>1. ~At(p, "idle")
  BY DEF Stage, Move, WriteMeta, RemoveOld, Rename, At
<1>2. /\ job[p] \in Job /\ K(p) \in Key /\ job[p].fp \in Version /\ src[K(p)] \in Version
  BY <1>1, JobIs DEF TypeOK
<1>3. UNCHANGED <<src, legacy, raced>> /\ Acts(p)
  <2>1. CASE Move(p)
    BY <2>1, MoveIs DEF Move, Ends
  <2>2. CASE ~Move(p)
    BY <2>2 DEF Stage, WriteMeta, RemoveOld, Rename, Ends, Goto
  <2> QED BY <2>1, <2>2
<1>4. /\ job' \in [Proc -> {Idle} \cup Job] /\ Todo(p)'
      /\ \A q \in Proc : q # p => job'[q] = job[q]
  <2>1. CASE Stage(p)
    <3>1. CASE Ends(p, "failed")
      BY <1>1, <3>1, EndsIs
    <3>2. CASE ~Ends(p, "failed")
      <4>1. job' = [job EXCEPT ![p].at = "move", ![p].fp = src[K(p)], ![p].todo = Stem]
        BY <2>1, <3>2 DEF Stage
      <4> QED BY <1>2, <4>1 DEF TypeOK, Job, Steps, Todo, At
    <3> QED BY <3>1, <3>2
  <2>2. CASE Move(p)
    <3>1. CASE Ends(p, "lost")
      BY <1>1, <3>1, EndsIs
    <3>2. CASE ~Ends(p, "lost")
      <4>1. PICK f \in Stem : job' = [job EXCEPT ![p].todo = @ \ {f}]
        BY <2>2, <3>2, MoveIs
      <4>2. job[p].todo \subseteq Stem /\ job[p].at = "move"
        BY <2>2 DEF Move, TypeOK, Todo, At
      <4> QED BY <1>2, <4>1, <4>2 DEF TypeOK, Job, Todo, At
    <3> QED BY <3>1, <3>2
  <2>3. CASE WriteMeta(p) \/ RemoveOld(p)
    <3>1. PICK s \in {"swap", "rename"} : job' = [job EXCEPT ![p].at = s]
      BY <2>3 DEF WriteMeta, RemoveOld, Goto
    <3> QED BY <1>1, <3>1, GotoIs DEF Steps, Todo, At
  <2>4. CASE Rename(p)
    <3>1. CASE Ends(p, "lost")
      BY <1>1, <3>1, EndsIs
    <3>2. CASE ~Ends(p, "lost")
      <4> DEFINE j == Local("prune", K(p), {}, "stored")
      <4>1. j \in Job /\ job' = [job EXCEPT ![p] = j] /\ j.at = "prune"
        BY <1>2, <2>4, <3>2, LocalIs, LocalFields DEF Rename, Steps
      <4> HIDE DEF j
      <4> QED BY <4>1, NewJobIs DEF Todo, At
    <3> QED BY <3>1, <3>2
  <2> QED BY <2>1, <2>2, <2>3, <2>4
<1>5. entry' \in [Key -> Dir]
  BY <1>2, DirsAre, ConstDirs DEF Stage, Move, WriteMeta, RemoveOld, Rename, TypeOK
<1>6. stage' \in [Key -> Dir] /\ work' \in [Key -> Dir]
  <2>1. CASE Move(p)
    <3>1. CASE UNCHANGED <<stage, work>>
      BY <3>1 DEF TypeOK
    <3>2. CASE ~UNCHANGED <<stage, work>>
      <4>1. PICK f \in Stem :
                /\ work[K(p)][f] \in Version
                /\ stage' = [stage EXCEPT ![K(p)] = With(stage[K(p)], f, work[K(p)][f])]
                /\ work' = [work EXCEPT ![K(p)] = Only(work[K(p)], File \ {f})]
        BY <2>1, <3>2, MoveIs
      <4>2. f \in File /\ work[K(p)] \in Dir /\ stage[K(p)] \in Dir
        BY <1>2, MetaIsFile, DirsAre
      <4>3. With(stage[K(p)], f, work[K(p)][f]) \in Dir /\ Only(work[K(p)], File \ {f}) \in Dir
        BY <4>1, <4>2, WithIs, OnlyIs
      <4> QED BY <1>2, <4>1, <4>3 DEF TypeOK
    <3> QED BY <3>1, <3>2
  <2>2. CASE WriteMeta(p)
    <3>1. With(stage[K(p)], Meta, job[p].fp) \in Dir
      BY <1>2, DirsAre, MetaIsFile, WithIs
    <3> QED BY <1>2, <2>2, <3>1 DEF WriteMeta, TypeOK
  <2>3. CASE Stage(p) \/ RemoveOld(p) \/ Rename(p)
    BY <1>2, <2>3, ConstDirs DEF Stage, RemoveOld, Rename, TypeOK
  <2> QED BY <2>1, <2>2, <2>3
<1>7. {entry', stage', legacy', work'} \subseteq [Key -> Dir]
  BY <1>3, <1>5, <1>6 DEF TypeOK
<1>8. lru' \subseteq Key \X Key /\ unpruned' \subseteq Key
  <2>1. (lru' = lru \/ lru' = Recent(K(p))) /\ (unpruned' = unpruned \/ unpruned' = unpruned \cup {K(p)})
    BY DEF Stage, Move, WriteMeta, RemoveOld, Rename
  <2> QED BY <1>2, <2>1, LruType DEF TypeOK
<1> QED BY <1>3, <1>4, <1>7, <1>8, TypeFrame

\* Pruning keeps the types.
LEMMA TypePrune ==
    ASSUME TypeOK, NEW p \in Proc, List(p) \/ Evict(p) \/ Pruned(p)
    PROVE  TypeOK'
<1>1. ~At(p, "idle")
  BY DEF List, Evict, Pruned, At
<1>2. /\ job[p] \in Job /\ K(p) \in Key /\ job[p].total \in Int
  BY <1>1, JobIs
<1>3. UNCHANGED <<src, legacy, work, lru, raced>> /\ Acts(p)
  BY DEF List, Evict, Pruned, Ends, disk
<1>4. /\ job' \in [Proc -> {Idle} \cup Job] /\ Todo(p)'
      /\ \A q \in Proc : q # p => job'[q] = job[q]
  <2>1. CASE List(p)
    <3> DEFINE fs == Files(Listed)
               n == Total(Listed)
               R == lru \cap (Listed \X Listed)
    <3>1. Listed \in SUBSET Key
      BY DEF Listed
    <3>2. fs \subseteq Key \X (Stem \cup Inter) /\ n \in Int /\ R \subseteq Key \X Key
      BY <3>1, FilesAre
    <3>3. job' = [job EXCEPT ![p].at = "evict", ![p].todo = Listed, ![p].left = Listed,
                             ![p].order = R, ![p].files = fs, ![p].total = n]
      BY <2>1 DEF List
    <3> HIDE DEF fs, n, R
    <3> DEFINE j == [job[p] EXCEPT !.at = "evict", !.todo = Listed, !.left = Listed,
                                   !.order = R, !.files = fs, !.total = n]
    <3>4. j \in Job /\ j.at = "evict" /\ j.todo = Listed
      BY <1>2, <3>1, <3>2 DEF Job, Steps
    <3>5. job' = [job EXCEPT ![p] = j]
      BY <3>3
    <3> HIDE DEF j
    <3> QED BY <3>1, <3>4, <3>5, NewJobIs DEF Todo, At
  <2>2. CASE Evict(p)
    <3>1. PICK c \in Key : IsNext(p, c) /\
             job' = [job EXCEPT ![p].left = @ \ {c},
                       ![p].total = IF entry[c] = Gone \/ Spared(p, c) THEN @
                                    ELSE @ - Cardinality({kf \in job[p].files : kf[1] = c})]
      BY <2>2 DEF Evict
    <3> DEFINE own == {kf \in job[p].files : kf[1] = c}
               n == IF entry[c] = Gone \/ Spared(p, c) THEN job[p].total
                    ELSE job[p].total - Cardinality(own)
    <3>2. Cardinality(own) \in Nat
      <4>1. own \subseteq Key \X (Stem \cup Inter)
        BY <1>1, JobIs
      <4>2. IsFiniteSet(Key \X (Stem \cup Inter))
        BY StoreAssumption, FS_Union, FS_Product
      <4> QED BY <4>1, <4>2, FS_Subset, FS_CardinalityType
    <3>3. n \in Int
      BY <1>2, <3>2
    <3>4. job' = [job EXCEPT ![p].left = @ \ {c}, ![p].total = n]
      BY <3>1
    <3>5. job[p].at = "evict" /\ job[p].todo \subseteq Key
      BY <2>2 DEF Evict, TypeOK, Todo, At
    <3> HIDE DEF own, n
    <3> DEFINE j == [job[p] EXCEPT !.left = @ \ {c}, !.total = n]
    <3>6. j \in Job /\ j.at = "evict" /\ j.todo = job[p].todo
      BY <1>2, <3>3, <3>5 DEF Job
    <3>7. job' = [job EXCEPT ![p] = j]
      BY <3>4
    <3> HIDE DEF j
    <3> QED BY <3>5, <3>6, <3>7, NewJobIs DEF Todo, At
  <2>3. CASE Pruned(p)
    BY <1>1, <2>3, EndsIs DEF Pruned
  <2> QED BY <2>1, <2>2, <2>3
<1>5. entry' \in [Key -> Dir] /\ stage' \in [Key -> Dir]
  <2>1. CASE List(p)
    BY <2>1, ConstDirs DEF List, TypeOK
  <2>2. CASE Evict(p)
    <3>1. PICK c \in Key : entry' = entry \/ entry' = [entry EXCEPT ![c] = Gone]
      BY <2>2 DEF Evict
    <3>2. stage' = stage
      BY <2>2 DEF Evict
    <3> QED BY <3>1, <3>2, ConstDirs DEF TypeOK
  <2>3. CASE Pruned(p)
    BY <2>3 DEF Pruned, disk, TypeOK
  <2> QED BY <2>1, <2>2, <2>3
<1>6. {entry', stage', legacy', work'} \subseteq [Key -> Dir] /\ lru' \subseteq Key \X Key
  BY <1>3, <1>5 DEF TypeOK
<1>7. unpruned' \subseteq Key
  BY DEF List, Evict, Pruned, TypeOK
<1> QED BY <1>3, <1>4, <1>6, <1>7, TypeFrame

\* So do the environment and new requests.
LEMMA TypeStart ==
    ASSUME TypeOK, NEW p \in Proc, NEW k \in Key, Start(p, k)
    PROVE  TypeOK'
<1> DEFINE old == {c \in Key : legacy[c] # Gone}
           s == IF old = {} THEN "lookup" ELSE "migrate"
           j == Local(s, k, old, "stored")
<1>1. s \in Steps /\ s # "move" /\ old \in SUBSET (Key \cup Stem) /\ old \subseteq Key
  BY DEF Steps
<1>2. j \in Job /\ j.at = s /\ j.todo = old
  BY <1>1, LocalIs, LocalFields
<1>3. job' = [job EXCEPT ![p] = j]
  BY DEF Start
<1> HIDE DEF j, s
<1>4. /\ job' \in [Proc -> {Idle} \cup Job] /\ job'[p] = j
      /\ \A q \in Proc : q # p => job'[q] = job[q]
  BY <1>2, <1>3, NewJobIs
<1>5. \A q \in Proc : Todo(q)'
  BY <1>1, <1>2, <1>4 DEF TypeOK, Todo, At
<1>6. starts' \in 0..MaxStarts /\ alone' \subseteq Proc
  BY StoreAssumption DEF Start, TypeOK
<1> QED BY <1>4, <1>5, <1>6 DEF Start, TypeOK, disk

LEMMA TypeEnv ==
    ASSUME TypeOK,
           Clear \/ (\E k \in Key : Edit(k)) \/ (\E p \in Proc : Crash(p))
    PROVE  TypeOK'
<1>1. CASE Clear
  <2>1. entry' \in [Key -> Dir] /\ UNCHANGED <<src, lru, job, starts, raced, unpruned>>
    BY <1>1, ConstDirs DEF Clear
  <2>2. stage' = entry' /\ legacy' = entry' /\ work' = entry' /\ alone' = {}
    BY <1>1 DEF Clear
  <2>3. faults' \in 0..MaxFaults
    BY <1>1, StoreAssumption DEF Clear, TypeOK
  <2> QED BY <2>1, <2>2, <2>3 DEF TypeOK, Todo, At
<1>2. ASSUME NEW k \in Key, Edit(k) PROVE TypeOK'
  <2>1. src' \in [Key -> Version]
    BY <1>2, StoreAssumption DEF Edit, TypeOK, Version
  <2>2. raced' \subseteq Key /\ alone' = {}
    BY <1>2 DEF Edit, TypeOK
  <2> QED BY <1>2, <2>1, <2>2 DEF Edit, TypeOK, Todo, At
<1>3. ASSUME NEW p \in Proc, Crash(p) PROVE TypeOK'
  <2>1. job' = [job EXCEPT ![p] = Idle] /\ Idle.at = "idle" /\ ~At(p, "idle")
    BY <1>3 DEF Crash, Idle
  <2>2. job' \in [Proc -> {Idle} \cup Job] /\ job'[p] = Idle /\ \A q \in Proc : q # p => job'[q] = job[q]
    BY <2>1, NewJobIs
  <2>3. \A q \in Proc : Todo(q)'
    BY <2>1, <2>2 DEF TypeOK, Todo, At
  <2>4. entry' \in [Key -> Dir]
    <3>1. \A k \in Key, F \in SUBSET File : Only(entry[k], F) \in Dir /\ entry[k] \in Dir
      BY DirsAre, OnlyIs
    <3> QED BY <1>3, <3>1 DEF Crash
  <2>5. unpruned' \subseteq Key
    <3>1. K(p) \in Key /\ (At(p, "evict") => job[p].todo \subseteq Key)
      BY <2>1, JobIs DEF TypeOK, Todo, At
    <3> QED BY <1>3, <3>1 DEF Crash, TypeOK
  <2>6. faults' \in 0..MaxFaults
    BY <1>3, StoreAssumption DEF Crash, TypeOK
  <2> QED BY <1>3, <2>2, <2>3, <2>4, <2>5, <2>6 DEF Crash, TypeOK
<1> QED BY <1>1, <1>2, <1>3

\* A process at work takes a step, one starts, or the environment does.
LEMMA TypeStep == TypeOK /\ [Next]_vars => TypeOK'
<1> SUFFICES ASSUME TypeOK, [Next]_vars PROVE TypeOK'
  OBVIOUS
<1>1. CASE UNCHANGED vars
  BY <1>1 DEF vars, disk, ghost, TypeOK, Todo, At
<1>2. ASSUME NEW p \in Proc, ProcNext(p) PROVE TypeOK'
  BY <1>2, TypeLookup, TypeSplit, TypeStore, TypePrune DEF ProcNext
<1>3. CASE Next /\ ~\E p \in Proc : ProcNext(p)
  BY <1>3, TypeStart, TypeEnv DEF Next
<1> QED BY <1>1, <1>2, <1>3 DEF Next

\* The types of the directories and of what each process has in hand hold.
THEOREM TypesHold == Spec => []TypeOK
<1>1. Init => TypeOK
  BY TypeInit
<1>2. TypeOK /\ [Next]_vars => TypeOK'
  BY TypeStep
<1> QED BY <1>1, <1>2, PTL DEF Spec

-----------------------------------------------------------------------------
(* What a step may do to a directory, and to a job. *)

LEMMA EntryStep ==
    ASSUME TypeOK, Next, NEW k \in Key
    PROVE  \/ entry'[k] = entry[k]
           \/ entry'[k] = Gone
           \/ \E p \in Proc, F \in SUBSET File : Crash(p) /\ k \in unpruned' /\ entry'[k] = Only(entry[k], F)
           \/ \E p \in Proc : Touch(p) /\ K(p) = k /\ entry'[k] = With(entry[k], Meta, job[p].fp)
           \/ \E p \in Proc : Rename(p) /\ K(p) = k /\ stage[k] # Gone /\ entry'[k] = stage[k]
           \/ \E p \in Proc : MigrateAdopt(p) /\ job[p].pick = k /\ legacy[k] # Gone /\ entry'[k] = legacy[k]
<1>1. CASE Clear
  BY <1>1 DEF Clear
<1>2. ASSUME NEW c \in Key, Edit(c) PROVE entry' = entry
  BY <1>2 DEF Edit
<1>3. ASSUME NEW p \in Proc, NEW c \in Key, Start(p, c) PROVE entry' = entry
  BY <1>3 DEF Start, disk
<1>4. ASSUME NEW p \in Proc, Crash(p)
      PROVE  entry'[k] = entry[k] \/ \E F \in SUBSET File : k \in unpruned' /\ entry'[k] = Only(entry[k], F)
  BY <1>4 DEF Crash
<1>5. ASSUME NEW p \in Proc,
             \/ MigrateLook(p) \/ MigrateDrop(p) \/ Lookup(p) \/ ClearWork(p) \/ Pass(p) \/ Fail(p)
             \/ Stage(p) \/ Move(p) \/ WriteMeta(p) \/ List(p) \/ Pruned(p) \/ Cleanup(p)
      PROVE  entry' = entry
  BY <1>5 DEF MigrateLook, MigrateDrop, Lookup, ClearWork, Pass, Fail, Stage, Move, WriteMeta, List,
              Pruned, Cleanup, disk
<1>6. ASSUME NEW p \in Proc, Touch(p) \/ RemoveOld(p) \/ Rename(p) \/ Evict(p) \/ MigrateAdopt(p)
      PROVE  \/ entry'[k] = entry[k]
             \/ entry'[k] = Gone
             \/ Touch(p) /\ K(p) = k /\ entry'[k] = With(entry[k], Meta, job[p].fp)
             \/ Rename(p) /\ K(p) = k /\ stage[k] # Gone /\ entry'[k] = stage[k]
             \/ MigrateAdopt(p) /\ job[p].pick = k /\ legacy[k] # Gone /\ entry'[k] = legacy[k]
  <2>1. CASE Touch(p)
    BY <2>1 DEF Touch, TypeOK
  <2>2. CASE RemoveOld(p)
    BY <2>2 DEF RemoveOld, TypeOK
  <2>3. CASE Rename(p)
    BY <2>3 DEF Rename, TypeOK
  <2>4. CASE Evict(p)
    <3>1. PICK c \in Key : entry' = entry \/ entry' = [entry EXCEPT ![c] = Gone]
      BY <2>4 DEF Evict
    <3> QED BY <3>1 DEF TypeOK
  <2>5. CASE MigrateAdopt(p)
    BY <2>5 DEF MigrateAdopt, TypeOK
  <2> QED BY <1>6, <2>1, <2>2, <2>3, <2>4, <2>5
<1> QED BY <1>1, <1>2, <1>3, <1>4, <1>5, <1>6 DEF Next, ProcNext

LEMMA StageStep ==
    ASSUME TypeOK, Next, NEW k \in Key
    PROVE  \/ stage'[k] \in {stage[k], Gone, Empty}
           \/ \E p \in Proc, f \in Stem : 
                /\ Move(p) /\ K(p) = k /\ Has(work[k], f) /\ work[k][f] \in Version
                /\ stage'[k] = With(stage[k], f, work[k][f])
           \/ \E p \in Proc : WriteMeta(p) /\ K(p) = k /\ stage'[k] = With(stage[k], Meta, job[p].fp)
<1>1. CASE Clear
  BY <1>1 DEF Clear
<1>2. ASSUME NEW c \in Key, Edit(c) PROVE stage' = stage
  BY <1>2 DEF Edit
<1>3. ASSUME NEW p \in Proc, NEW c \in Key, Start(p, c) PROVE stage' = stage
  BY <1>3 DEF Start, disk
<1>4. ASSUME NEW p \in Proc, Crash(p) PROVE stage' = stage
  BY <1>4 DEF Crash
<1>5. ASSUME NEW p \in Proc,
             \/ MigrateLook(p) \/ MigrateDrop(p) \/ MigrateAdopt(p) \/ Lookup(p) \/ Touch(p)
             \/ ClearWork(p) \/ Pass(p) \/ Fail(p) \/ RemoveOld(p) \/ Evict(p) \/ Pruned(p) \/ Cleanup(p)
      PROVE  stage' = stage
  BY <1>5 DEF MigrateLook, MigrateDrop, MigrateAdopt, Lookup, Touch, ClearWork, Pass, Fail, RemoveOld,
              Evict, Pruned, Cleanup, disk
<1>6. ASSUME NEW p \in Proc, Stage(p) \/ Rename(p) \/ List(p)
      PROVE  stage'[k] \in {stage[k], Gone, Empty}
  BY <1>6 DEF Stage, Rename, List, TypeOK
<1>7. ASSUME NEW p \in Proc, Move(p)
      PROVE  \/ stage'[k] = stage[k]
             \/ \E f \in Stem :
                   /\ K(p) = k /\ Has(work[k], f) /\ work[k][f] \in Version
                   /\ stage'[k] = With(stage[k], f, work[k][f])
  <2>1. CASE stage' = stage
    BY <2>1
  <2>2. CASE stage' # stage
    <3>1. PICK f \in Stem :
             /\ Has(work[K(p)], f) /\ work[K(p)][f] \in Version
             /\ stage' = [stage EXCEPT ![K(p)] = With(stage[K(p)], f, work[K(p)][f])]
      BY <1>7, <2>2, MoveIs
    <3>2. k = K(p) => stage'[k] = With(stage[k], f, work[k][f])
      BY <3>1 DEF TypeOK
    <3>3. k # K(p) => stage'[k] = stage[k]
      BY <3>1 DEF TypeOK
    <3> QED BY <3>1, <3>2, <3>3
  <2> QED BY <2>1, <2>2
<1>8. ASSUME NEW p \in Proc, WriteMeta(p)
      PROVE  stage'[k] = stage[k] \/ (K(p) = k /\ stage'[k] = With(stage[k], Meta, job[p].fp))
  BY <1>8 DEF WriteMeta, TypeOK
<1> QED BY <1>1, <1>2, <1>3, <1>4, <1>5, <1>6, <1>7, <1>8 DEF Next, ProcNext

LEMMA WorkStep ==
    ASSUME TypeOK, Next, NEW k \in Key
    PROVE  \/ work'[k] \in {work[k], Gone, Empty}
           \/ \E F \in SUBSET File : work'[k] = Only(work[k], F)
           \/ \E p \in Proc, out \in SUBSET (Stem \cup Inter), v \in Version :
                /\ Pass(p) /\ K(p) = k
                /\ v = src[k] \/ \E f \in Stem \cup Inter : Has(work[k], f) /\ v = work[k][f]
                /\ work'[k] = Made(work[k], out, v)
<1>1. CASE Clear
  BY <1>1 DEF Clear
<1>2. ASSUME NEW c \in Key, Edit(c) PROVE work' = work
  BY <1>2 DEF Edit
<1>3. ASSUME NEW p \in Proc, NEW c \in Key, Start(p, c) PROVE work' = work
  BY <1>3 DEF Start, disk
<1>4. ASSUME NEW p \in Proc, Crash(p) PROVE work' = work
  BY <1>4 DEF Crash
<1>5. ASSUME NEW p \in Proc,
             \/ MigrateLook(p) \/ MigrateDrop(p) \/ MigrateAdopt(p) \/ Lookup(p) \/ Touch(p) \/ Fail(p)
             \/ Stage(p) \/ WriteMeta(p) \/ RemoveOld(p) \/ Rename(p) \/ List(p) \/ Evict(p) \/ Pruned(p)
      PROVE  work' = work
  BY <1>5 DEF MigrateLook, MigrateDrop, MigrateAdopt, Lookup, Touch, Fail, Stage, WriteMeta, RemoveOld,
              Rename, List, Evict, Pruned, disk
<1>6. ASSUME NEW p \in Proc, ClearWork(p) \/ Cleanup(p)
      PROVE  work'[k] \in {work[k], Gone, Empty}
  BY <1>6 DEF ClearWork, Cleanup, TypeOK
<1>7. ASSUME NEW p \in Proc, Move(p)
      PROVE  work'[k] = work[k] \/ \E F \in SUBSET File : work'[k] = Only(work[k], F)
  <2>1. CASE work' = work
    BY <2>1
  <2>2. CASE work' # work
    <3>1. PICK f \in Stem : work' = [work EXCEPT ![K(p)] = Only(work[K(p)], File \ {f})]
      BY <1>7, <2>2, MoveIs
    <3>2. k = K(p) => work'[k] = Only(work[k], File \ {f})
      BY <3>1 DEF TypeOK
    <3>3. k # K(p) => work'[k] = work[k]
      BY <3>1 DEF TypeOK
    <3>4. File \ {f} \in SUBSET File
      OBVIOUS
    <3> QED BY <3>2, <3>3, <3>4
  <2> QED BY <2>1, <2>2
<1>8. ASSUME NEW p \in Proc, Pass(p)
      PROVE  \/ work'[k] = work[k]
             \/ \E out \in SUBSET (Stem \cup Inter), v \in Version :
                   /\ K(p) = k
                   /\ v = src[k] \/ \E f \in Stem \cup Inter : Has(work[k], f) /\ v = work[k][f]
                   /\ work'[k] = Made(work[k], out, v)
  <2>1. PICK out \in SUBSET (Stem \cup Inter), v \in Version :
           /\ v = src[K(p)] \/ \E f \in Stem \cup Inter : Has(work[K(p)], f) /\ v = work[K(p)][f]
           /\ work' = [work EXCEPT ![K(p)] = Made(work[K(p)], out, v)]
    BY <1>8, PassWork
  <2>2. k = K(p) => work'[k] = Made(work[k], out, v)
    BY <2>1 DEF TypeOK
  <2>3. k # K(p) => work'[k] = work[k]
    BY <2>1 DEF TypeOK
  <2> QED BY <2>1, <2>2, <2>3
<1> QED BY <1>1, <1>2, <1>3, <1>4, <1>5, <1>6, <1>7, <1>8 DEF Next, ProcNext

\* Legacy entries only disappear, and sources are only edited.
LEMMA LegacyStep ==
    ASSUME TypeOK, Next, NEW k \in Key
    PROVE  /\ legacy'[k] \in {legacy[k], Gone}
           /\ src'[k] = src[k] \/ (Edit(k) /\ src'[k] = src[k] + 1)
           /\ k \in raced => k \in raced'
<1>1. CASE Clear
  BY <1>1 DEF Clear
<1>2. ASSUME NEW c \in Key, Edit(c)
      PROVE  /\ legacy' = legacy
             /\ src'[k] = src[k] \/ (Edit(k) /\ src'[k] = src[k] + 1)
             /\ k \in raced => k \in raced'
  BY <1>2 DEF Edit, TypeOK
<1>3. ASSUME NEW p \in Proc, NEW c \in Key, Start(p, c) PROVE UNCHANGED <<legacy, src, raced>>
  BY <1>3 DEF Start, disk
<1>4. ASSUME NEW p \in Proc, Crash(p) PROVE UNCHANGED <<legacy, src, raced>>
  BY <1>4 DEF Crash
<1>5. ASSUME NEW p \in Proc,
             \/ MigrateLook(p) \/ Lookup(p) \/ Touch(p) \/ ClearWork(p) \/ Pass(p) \/ Fail(p) \/ Cleanup(p)
             \/ Stage(p) \/ Move(p) \/ WriteMeta(p) \/ RemoveOld(p) \/ Rename(p)
             \/ List(p) \/ Evict(p) \/ Pruned(p)
      PROVE  UNCHANGED <<legacy, src, raced>>
  BY <1>5 DEF MigrateLook, Lookup, Touch, ClearWork, Pass, Fail, Cleanup, Stage, Move, WriteMeta, RemoveOld,
              Rename, List, Evict, Pruned, disk
<1>6. ASSUME NEW p \in Proc, MigrateDrop(p) \/ MigrateAdopt(p)
      PROVE  legacy'[k] \in {legacy[k], Gone} /\ UNCHANGED <<src, raced>>
  BY <1>6 DEF MigrateDrop, MigrateAdopt, TypeOK
<1>7. ASSUME NEW p \in Proc, ProcNext(p)
      PROVE  legacy'[k] \in {legacy[k], Gone} /\ UNCHANGED <<src, raced>>
  <2>1. CASE MigrateDrop(p) \/ MigrateAdopt(p)
    BY <2>1, <1>6
  <2>2. CASE ~(MigrateDrop(p) \/ MigrateAdopt(p))
    BY <1>7, <2>2, <1>5 DEF ProcNext
  <2> QED BY <2>1, <2>2
<1>8. CASE \E c \in Key : Edit(c)
  BY <1>8, <1>2
<1>9. CASE ~\E c \in Key : Edit(c)
  BY <1>1, <1>3, <1>4, <1>7, <1>9 DEF Next
<1> QED BY <1>8, <1>9

\* Only a step of a process, a crash of it or a new request changes its job.
LEMMA JobStep ==
    ASSUME TypeOK, Next, NEW q \in Proc
    PROVE  \/ job'[q] = job[q]
           \/ Crash(q) /\ job'[q] = Idle
           \/ ProcNext(q)
           \/ \E k \in Key : Start(q, k)
<1>1. ASSUME NEW p \in Proc, p # q, NEW k \in Key, Start(p, k) PROVE job'[q] = job[q]
  BY <1>1 DEF Start, TypeOK
<1>2. ASSUME NEW p \in Proc, Crash(p) PROVE job'[q] = job[q] \/ (p = q /\ job'[q] = Idle)
  BY <1>2 DEF Crash, TypeOK
<1>3. ASSUME NEW p \in Proc, p # q,
             \/ MigrateDrop(p) \/ MigrateAdopt(p) \/ Lookup(p) \/ Touch(p) \/ ClearWork(p) \/ Pass(p)
             \/ Fail(p) \/ WriteMeta(p) \/ RemoveOld(p) \/ List(p) \/ Pruned(p) \/ Cleanup(p)
      PROVE  job'[q] = job[q]
  BY <1>3 DEF MigrateDrop, MigrateAdopt, Lookup, Touch, ClearWork, Pass, Fail, WriteMeta, RemoveOld, List,
              Pruned, Cleanup, Ends, Goto, TypeOK
<1>4. ASSUME NEW p \in Proc, p # q, MigrateLook(p) \/ Stage(p) \/ Move(p) \/ Rename(p) \/ Evict(p)
      PROVE  job'[q] = job[q]
  BY <1>4 DEF MigrateLook, Stage, Move, Rename, Evict, Ends, TypeOK
<1>5. ASSUME NEW p \in Proc, p # q, ProcNext(p) PROVE job'[q] = job[q]
  BY <1>3, <1>4, <1>5 DEF ProcNext
<1>6. CASE Clear \/ \E k \in Key : Edit(k)
  BY <1>6 DEF Clear, Edit
<1>7. CASE ~(Clear \/ \E k \in Key : Edit(k))
  BY <1>1, <1>2, <1>5, <1>7 DEF Next
<1> QED BY <1>6, <1>7

\* Where a process that takes a step is afterwards, and with which fingerprint.
After(p) ==
    \/ job'[p].at \in {"migrate", "drop", "adopt", "lookup", "clear", "prune", "cleanup"}
    \/ (List(p) \/ Evict(p)) /\ job'[p].at = "evict"
    \/ Lookup(p) /\ job'[p].at = "touch" /\ Fresh(K(p)) /\ job'[p].fp = src[K(p)]
    \/ ClearWork(p) /\ job'[p].at = "pass"
    \/ Pass(p) /\ job'[p].at \in {"pass", "store"}
    \/ Stage(p) /\ job'[p].at = "move" /\ stage'[K(p)] = Empty /\ job'[p].fp = src[K(p)]
    \/ Move(p) /\ job'[p].at = "move" /\ job'[p].fp = job[p].fp
    \/ WriteMeta(p) /\ job'[p].at = "swap" /\ job'[p].fp = job[p].fp
    \/ RemoveOld(p) /\ job'[p].at = "rename" /\ job'[p].fp = job[p].fp

LEMMA AfterIs ==
    ASSUME TypeOK, NEW p \in Proc, ProcNext(p), job'[p] # Idle
    PROVE  /\ ~At(p, "idle") /\ job'[p].key = job[p].key
           /\ job'[p].fp \in {0, job[p].fp, src[K(p)]}
           /\ After(p)
<1>1. CASE Touch(p) \/ Cleanup(p)
  BY <1>1 DEF Touch, Cleanup, TypeOK
<1>2. CASE MigrateLook(p)
  <2>1. job[p] \in Job /\ ~At(p, "idle")
    BY <1>2, JobIs DEF MigrateLook, At
  <2>2. CASE job[p].todo = {}
    BY <1>2, <2>1, <2>2, LocalFields DEF MigrateLook, TypeOK, After, K
  <2>3. CASE job[p].todo # {}
    <3>1. PICK c \in job[p].todo :
            job' = [job EXCEPT ![p].todo = @ \ {c}, ![p].pick = c,
                               ![p].at = IF ~Has(legacy[c], Meta) THEN "migrate"
                                         ELSE IF entry[c] # Gone THEN "drop" ELSE "adopt"]
      BY <1>2, <2>3 DEF MigrateLook
    <3> QED BY <2>1, <3>1 DEF TypeOK, Job, After
  <2> QED BY <2>2, <2>3
<1>3. CASE MigrateDrop(p) \/ MigrateAdopt(p) \/ ClearWork(p) \/ WriteMeta(p) \/ RemoveOld(p)
  <2>1. ~At(p, "idle")
    BY <1>3 DEF MigrateDrop, MigrateAdopt, ClearWork, WriteMeta, RemoveOld, At
  <2>2. CASE MigrateDrop(p) \/ MigrateAdopt(p)
    <3>1. job' = [job EXCEPT ![p].at = "migrate"]
      BY <2>2 DEF MigrateDrop, MigrateAdopt, Goto
    <3> QED BY <2>1, <3>1, GotoIs DEF After, Steps
  <2>3. CASE ClearWork(p)
    <3>1. job' = [job EXCEPT ![p].at = "pass"]
      BY <2>3 DEF ClearWork, Goto
    <3> QED BY <2>1, <2>3, <3>1, GotoIs DEF After, Steps
  <2>4. CASE WriteMeta(p)
    <3>1. job' = [job EXCEPT ![p].at = "swap"]
      BY <2>4 DEF WriteMeta, Goto
    <3> QED BY <2>1, <2>4, <3>1, GotoIs DEF After, Steps
  <2>5. CASE RemoveOld(p)
    <3>1. job' = [job EXCEPT ![p].at = "rename"]
      BY <2>5 DEF RemoveOld, Goto
    <3> QED BY <2>1, <2>5, <3>1, GotoIs DEF After, Steps
  <2> QED BY <1>3, <2>2, <2>3, <2>4, <2>5
<1>4. ASSUME NEW e \in {"stored", "failed", "lost"}, Ends(p, e), ~At(p, "idle")
      PROVE  job'[p].key = job[p].key /\ job'[p].fp = 0 /\ After(p)
  BY <1>4, EndsIs DEF After
<1>5. CASE Lookup(p)
  <2>1. job[p] \in Job /\ ~At(p, "idle")
    BY <1>5, JobIs DEF Lookup, At
  <2>2. CASE Fresh(K(p))
    <3>1. job' = [job EXCEPT ![p].at = "touch", ![p].fp = src[K(p)]]
      BY <1>5, <2>2 DEF Lookup
    <3> QED BY <1>5, <2>1, <2>2, <3>1 DEF TypeOK, Job, After
  <2>3. CASE ~Fresh(K(p))
    <3>1. job' = [job EXCEPT ![p].at = "clear", ![p].fp = 0]
      BY <1>5, <2>3 DEF Lookup
    <3> QED BY <2>1, <3>1 DEF TypeOK, Job, After
  <2> QED BY <2>2, <2>3
<1>6. CASE Pass(p)
  <2>1. job[p] \in Job /\ ~At(p, "idle")
    BY <1>6, JobIs DEF Pass, At
  <2> DEFINE s == IF job[p].pass = Len(Passes) THEN "store" ELSE "pass"
             n == NextPass(job[p].pass)
  <2>2. job' = [job EXCEPT ![p].at = s, ![p].pass = n] /\ s \in {"pass", "store"}
    BY <1>6 DEF Pass
  <2> HIDE DEF s, n
  <2> QED BY <1>6, <2>1, <2>2 DEF TypeOK, Job, After
<1>7. CASE Fail(p) \/ Pruned(p)
  BY <1>4, <1>7 DEF Fail, Pruned, At
<1>8. CASE Stage(p)
  <2>1. job[p] \in Job /\ ~At(p, "idle")
    BY <1>8, JobIs DEF Stage, At
  <2>2. CASE ~Ends(p, "failed")
    <3>1. /\ job' = [job EXCEPT ![p].at = "move", ![p].fp = src[K(p)], ![p].todo = Stem]
          /\ stage' = [stage EXCEPT ![K(p)] = Empty]
      BY <1>8, <2>2 DEF Stage
    <3>2. stage'[K(p)] = Empty
      BY <2>1, <3>1, JobIs DEF TypeOK
    <3> QED BY <1>8, <2>1, <3>1, <3>2 DEF TypeOK, Job, After
  <2> QED BY <1>4, <2>1, <2>2
<1>9. CASE Move(p)
  <2>1. job[p] \in Job /\ ~At(p, "idle") /\ At(p, "move")
    BY <1>9, JobIs DEF Move, At
  <2>2. CASE ~Ends(p, "lost")
    <3>1. PICK f \in Stem : job' = [job EXCEPT ![p].todo = @ \ {f}]
      BY <1>9, <2>2, MoveIs
    <3> QED BY <1>9, <2>1, <3>1 DEF TypeOK, Job, After, At
  <2> QED BY <1>4, <2>1, <2>2
<1>10. CASE Rename(p)
  <2>1. job[p] \in Job /\ ~At(p, "idle")
    BY <1>10, JobIs DEF Rename, At
  <2>2. CASE ~Ends(p, "lost")
    <3>1. job' = [job EXCEPT ![p] = Local("prune", K(p), {}, "stored")]
      BY <1>10, <2>2 DEF Rename
    <3> QED BY <2>1, <3>1, LocalFields DEF TypeOK, After, K
  <2> QED BY <1>4, <2>1, <2>2
<1>11. CASE List(p)
  <2>1. job[p] \in Job /\ ~At(p, "idle")
    BY <1>11, JobIs DEF List, At
  <2> DEFINE fs == Files(Listed)
             n == Total(Listed)
             R == lru \cap (Listed \X Listed)
  <2>2. job' = [job EXCEPT ![p].at = "evict", ![p].todo = Listed, ![p].left = Listed,
                           ![p].order = R, ![p].files = fs, ![p].total = n]
    BY <1>11 DEF List
  <2> HIDE DEF fs, n, R
  <2> DEFINE j == [job[p] EXCEPT !.at = "evict", !.todo = Listed, !.left = Listed,
                                   !.order = R, !.files = fs, !.total = n]
  <2>3. j.at = "evict" /\ j.key = job[p].key /\ j.fp = job[p].fp
    BY <2>1 DEF Job
  <2>4. job' = [job EXCEPT ![p] = j]
    BY <2>2
  <2> HIDE DEF j
  <2>5. job'[p] = j
    BY <2>4 DEF TypeOK
  <2> QED BY <1>11, <2>1, <2>3, <2>5 DEF After
<1>12. CASE Evict(p)
  <2>1. job[p] \in Job /\ ~At(p, "idle") /\ At(p, "evict")
    BY <1>12, JobIs DEF Evict, At
  <2>2. \E c, n : job' = [job EXCEPT ![p].left = @ \ {c}, ![p].total = n]
    BY <1>12 DEF Evict
  <2> PICK c, n : job' = [job EXCEPT ![p].left = @ \ {c}, ![p].total = n]
    BY <2>2
  <2> DEFINE j == [job[p] EXCEPT !.left = @ \ {c}, !.total = n]
  <2>3. j.at = "evict" /\ j.key = job[p].key /\ j.fp = job[p].fp
    BY <2>1 DEF Job, At
  <2>4. job' = [job EXCEPT ![p] = j]
    OBVIOUS
  <2> HIDE DEF j
  <2>5. job'[p] = j
    BY <2>4 DEF TypeOK
  <2> QED BY <1>12, <2>1, <2>3, <2>5 DEF After
<1> QED BY <1>1, <1>2, <1>3, <1>5, <1>6, <1>7, <1>8, <1>9, <1>10, <1>11, <1>12 DEF ProcNext

\* A new request begins with an empty hand.
LEMMA StartIs ==
    ASSUME TypeOK, NEW p \in Proc, NEW k \in Key, Start(p, k)
    PROVE  /\ job'[p].key = k /\ job'[p].fp = 0
           /\ job'[p].todo = {c \in Key : legacy[c] # Gone}
           /\ job'[p].at = IF {c \in Key : legacy[c] # Gone} = {} THEN "lookup" ELSE "migrate"
BY LocalFields DEF Start, TypeOK

-----------------------------------------------------------------------------
(* No directory holds a file from the future. *)

LEMMA ConstUpTo ==
    ASSUME NEW v \in Version
    PROVE  UpTo(Gone, v) /\ UpTo(Empty, v) /\ UpTo(Split0, v)
<1>1. None \notin File /\ v >= 0
  BY StoreAssumption DEF File, Version
<1> QED BY <1>1, StoreAssumption DEF UpTo, Gone, Empty, Split0, Has, Version

LEMMA AgedStep ==
    ASSUME TypeOK, TypeOK', Aged, Migrated, Next PROVE Aged'
<1>1. ASSUME NEW k \in Key
      PROVE  /\ src[k] \in Version /\ src'[k] \in Version /\ src[k] <= src'[k]
             /\ entry[k] \in Dir /\ stage[k] \in Dir /\ work[k] \in Dir /\ legacy[k] \in {Gone, Split0}
             /\ UpTo(entry[k], src'[k]) /\ UpTo(stage[k], src'[k]) /\ UpTo(work[k], src'[k])
  <2>1. src[k] \in Version /\ src'[k] \in Version /\ src[k] <= src'[k]
    BY LegacyStep DEF TypeOK, Version
  <2>2. entry[k] \in Dir /\ stage[k] \in Dir /\ work[k] \in Dir
    BY DirsAre
  <2>3. \A d \in Dir : UpTo(d, src[k]) => UpTo(d, src'[k])
    <3>1. \A d \in Dir, f \in File : Has(d, f) => d[f] \in Version
      BY DirElim
    <3> QED BY <3>1, <2>1 DEF UpTo, Version
  <2> QED BY <2>1, <2>2, <2>3 DEF Aged, Migrated
<1>2. ASSUME NEW d \in Dir, NEW f \in File, NEW v \in Version, NEW n \in Version, UpTo(d, n), v <= n
      PROVE  UpTo(With(d, f, v), n)
  BY <1>2, WithIs DEF UpTo
<1>3. ASSUME NEW d \in Dir, NEW F \in SUBSET File, NEW n \in Version, UpTo(d, n)
      PROVE  UpTo(Only(d, F), n)
  BY <1>3, OnlyIs DEF UpTo
<1>4. \A p \in Proc : ~At(p, "idle") => K(p) \in Key /\ job[p].fp \in Version /\ job[p].fp <= src'[K(p)]
  <2> SUFFICES ASSUME NEW p \in Proc, ~At(p, "idle")
               PROVE  K(p) \in Key /\ job[p].fp \in Version /\ job[p].fp <= src'[K(p)]
    OBVIOUS
  <2>1. K(p) \in Key /\ job[p].fp \in Version /\ job[p].fp <= src[K(p)]
    BY JobIs DEF Aged
  <2> QED BY <2>1, <1>1 DEF Version
<1>5. ASSUME NEW k \in Key PROVE UpTo(entry'[k], src'[k])
  <2>1. ASSUME NEW p \in Proc, Touch(p), K(p) = k PROVE UpTo(With(entry[k], Meta, job[p].fp), src'[k])
    <3>1. ~At(p, "idle")
      BY <2>1 DEF Touch, At
    <3> QED BY <1>1, <1>2, <1>4, <2>1, <3>1, MetaIsFile
  <2>2. UpTo(Gone, src'[k]) /\ UpTo(legacy[k], src'[k])
    BY <1>1, ConstUpTo
  <2> QED BY <1>1, <1>3, <2>1, <2>2, EntryStep
<1>6. ASSUME NEW k \in Key PROVE UpTo(stage'[k], src'[k])
  <2>1. ASSUME NEW p \in Proc, WriteMeta(p), K(p) = k PROVE UpTo(With(stage[k], Meta, job[p].fp), src'[k])
    <3>1. ~At(p, "idle")
      BY <2>1 DEF WriteMeta, At
    <3> QED BY <1>1, <1>2, <1>4, <2>1, <3>1, MetaIsFile
  <2>2. ASSUME NEW f \in Stem, Has(work[k], f), work[k][f] \in Version
        PROVE  UpTo(With(stage[k], f, work[k][f]), src'[k])
    <3>1. f \in File /\ work[k][f] <= src'[k]
      BY <1>1, <2>2, MetaIsFile DEF UpTo
    <3> QED BY <1>1, <1>2, <2>2, <3>1
  <2>3. UpTo(Gone, src'[k]) /\ UpTo(Empty, src'[k])
    BY <1>1, ConstUpTo
  <2> QED BY <1>1, <2>1, <2>2, <2>3, StageStep
<1>7. ASSUME NEW k \in Key PROVE UpTo(work'[k], src'[k])
  <2>1. ASSUME NEW out \in SUBSET (Stem \cup Inter), NEW v \in Version,
               v = src[k] \/ \E f \in Stem \cup Inter : Has(work[k], f) /\ v = work[k][f]
        PROVE  UpTo(Made(work[k], out, v), src'[k])
    <3>1. v <= src'[k]
      BY <1>1, <2>1, MetaIsFile DEF UpTo
    <3>2. \A d \in Dir, n \in Version : UpTo(d, n) /\ v <= n => UpTo(Made(d, out, v), n)
      <4> SUFFICES ASSUME NEW d \in Dir, NEW n \in Version, UpTo(d, n), v <= n
                   PROVE  UpTo(Made(d, out, v), n)
        OBVIOUS
      <4>1. \A f \in File : Has(Made(d, out, v), f) =>
               Made(d, out, v)[f] = v \/ (Has(d, f) /\ Made(d, out, v)[f] = d[f])
        BY MadeIs
      <4> QED BY <4>1 DEF UpTo
    <3> QED BY <1>1, <3>1, <3>2
  <2>2. UpTo(Gone, src'[k]) /\ UpTo(Empty, src'[k])
    BY <1>1, ConstUpTo
  <2>3. ASSUME NEW F \in SUBSET File PROVE UpTo(Only(work[k], F), src'[k])
    BY <1>1, <1>3
  <2>4. CASE work'[k] \in {work[k], Gone, Empty}
    BY <1>1, <2>2, <2>4
  <2>5. CASE work'[k] \notin {work[k], Gone, Empty}
    BY <2>1, <2>3, <2>5, WorkStep
  <2> QED BY <2>4, <2>5
<1>8. ASSUME NEW p \in Proc, ~At(p, "idle")' PROVE job'[p].fp <= src'[job'[p].key]
  <2>0. job'[p] # Idle
    BY <1>8 DEF At, Idle
  <2>1. CASE job'[p] = job[p]
    BY <1>4, <1>8, <2>1 DEF At, K
  <2>2. CASE ProcNext(p)
    <3>1. ~At(p, "idle") /\ job'[p].key = K(p) /\ job'[p].fp \in {0, job[p].fp, src[K(p)]}
      BY <2>0, <2>2, AfterIs DEF K
    <3>2. K(p) \in Key /\ job[p].fp <= src'[K(p)]
      BY <3>1, <1>4
    <3>3. src[K(p)] <= src'[K(p)] /\ 0 <= src'[K(p)]
      BY <3>2, <1>1 DEF Version
    <3> QED BY <3>1, <3>2, <3>3
  <2>3. ASSUME NEW k \in Key, Start(p, k) PROVE job'[p].fp <= src'[job'[p].key]
    <3>1. job'[p].fp = 0 /\ job'[p].key = k
      BY <2>3, StartIs
    <3>2. src'[k] \in Version
      BY <1>1
    <3> QED BY <3>1, <3>2 DEF Version
  <2> QED BY <2>0, <2>1, <2>2, <2>3, JobStep
<1> QED BY <1>5, <1>6, <1>7, <1>8 DEF Aged, At, K

-----------------------------------------------------------------------------
(* The migration comes before everything else. *)

LEMMA NoLegacyAtWork ==
    ASSUME Migrated, NEW p \in Proc, ~At(p, "idle"), job[p].at \notin Migrating, NEW k \in Key
    PROVE  legacy[k] = Gone
BY DEF Migrated

\* What a step of the migration leaves a process with.
LEMMA MigratedStep ==
    ASSUME TypeOK, TypeOK', Migrated, Next PROVE Migrated'
<1>1. \A k \in Key : legacy'[k] \in {Gone, Split0} /\ (legacy'[k] # Gone => legacy'[k] = legacy[k])
  BY LegacyStep DEF Migrated
<1>2. ASSUME NEW p \in Proc, NEW k \in Key, legacy'[k] # Gone, ~At(p, "idle")'
      PROVE  /\ job'[p].at \in Migrating
             /\ k \in job'[p].todo \/ (job'[p].at # "migrate" /\ k = job'[p].pick)
             /\ job'[p].at = "adopt" /\ k = job'[p].pick => entry'[k] = Gone
  <2>0. legacy[k] = Split0 /\ Split0 # Gone /\ Has(Split0, Meta) /\ legacy'[k] = legacy[k]
    BY <1>1, <1>2, StoreAssumption DEF Migrated, Split0, Gone, Has
  <2>1. \A q \in Proc : ~At(q, "idle") =>
           /\ job[q].at \in Migrating
           /\ k \in job[q].todo \/ (~At(q, "migrate") /\ k = job[q].pick)
    BY <2>0 DEF Migrated
  <2>2. entry[k] = Gone => entry'[k] = Gone
    <3> SUFFICES ASSUME entry[k] = Gone PROVE entry'[k] = Gone
      OBVIOUS
    <3>1. ASSUME NEW q \in Proc, Touch(q) \/ Rename(q) PROVE FALSE
      BY <2>1, <3>1 DEF Touch, Rename, At, Migrating
    <3>2. ASSUME NEW q \in Proc, MigrateAdopt(q), job[q].pick = k PROVE FALSE
      <4>1. legacy' = [legacy EXCEPT ![k] = Gone]
        BY <2>0, <3>2 DEF MigrateAdopt, Free
      <4> QED BY <4>1, <2>0 DEF TypeOK
    <3>3. ASSUME NEW q \in Proc, NEW F \in SUBSET File, Crash(q) PROVE entry'[k] = entry[k]
      BY <3>3 DEF Crash
    <3> QED BY <3>1, <3>2, <3>3, EntryStep
  <2>3. CASE job'[p] = job[p]
    <3>1. At(p, "adopt") /\ k = job[p].pick => entry[k] = Gone
      BY <2>0 DEF Migrated
    <3> QED BY <1>2, <2>1, <2>2, <2>3, <3>1 DEF At
  <2>4. CASE \E c \in Key : Start(p, c)
    <3>1. k \in {c \in Key : legacy[c] # Gone}
      BY <2>0
    <3>2. job'[p].todo = {c \in Key : legacy[c] # Gone} /\ job'[p].at = "migrate"
      BY <2>4, <3>1, StartIs
    <3> QED BY <3>1, <3>2 DEF Migrating
  <2>5. CASE ProcNext(p)
    <3>0. ~At(p, "idle") /\ job'[p] # Idle
      BY <1>2, <2>5, AfterIs DEF At, Idle
    <3>1. job[p].at \in Migrating
      BY <2>1, <3>0
    <3>2. MigrateLook(p) \/ MigrateDrop(p) \/ MigrateAdopt(p)
      BY <2>5, <3>1 DEF ProcNext, Migrating, At, Lookup, Touch, ClearWork, Pass, Fail, Stage, Move, WriteMeta,
            RemoveOld, Rename, List, Evict, Pruned, Cleanup
    <3>3. CASE MigrateLook(p)
      <4>1. k \in job[p].todo /\ At(p, "migrate")
        BY <2>1, <3>0, <3>3 DEF MigrateLook
      <4>2. entry' = entry
        BY <3>3 DEF MigrateLook, disk
      <4>3. PICK c \in job[p].todo :
              job' = [job EXCEPT ![p].todo = @ \ {c}, ![p].pick = c,
                                 ![p].at = IF ~Has(legacy[c], Meta) THEN "migrate"
                                           ELSE IF entry[c] # Gone THEN "drop" ELSE "adopt"]
        BY <4>1, <3>3 DEF MigrateLook
      <4> DEFINE s == IF ~Has(legacy[c], Meta) THEN "migrate"
                      ELSE IF entry[c] # Gone THEN "drop" ELSE "adopt"
      <4>4. s \in Migrating /\ (c = k => s # "migrate") /\ (s = "adopt" => entry[c] = Gone)
        BY <2>0 DEF Migrating
      <4>5. job' = [job EXCEPT ![p].todo = @ \ {c}, ![p].pick = c, ![p].at = s]
        BY <4>3
      <4> HIDE DEF s
      <4>6. job[p] \in Job
        BY <3>0, JobIs
      <4>7. job'[p].todo = job[p].todo \ {c} /\ job'[p].pick = c /\ job'[p].at = s
        BY <4>5, <4>6 DEF TypeOK, Job
      <4> QED BY <4>1, <4>2, <4>4, <4>7
    <3>4. CASE MigrateDrop(p) \/ MigrateAdopt(p)
      <4>1. job' = [job EXCEPT ![p].at = "migrate"]
        BY <3>4 DEF MigrateDrop, MigrateAdopt, Goto
      <4>2. job'[p].todo = job[p].todo /\ job'[p].at = "migrate"
        BY <3>0, <4>1, GotoIs DEF Steps
      <4>3. k # job[p].pick
        <5>1. job[p].pick \in Key
          BY <3>0, JobIs
        <5>2. CASE k = job[p].pick
          <6>1. CASE MigrateDrop(p)
            BY <2>0, <5>2, <6>1 DEF MigrateDrop, TypeOK
          <6>2. CASE MigrateAdopt(p)
            <7>1. entry[k] = Gone
              BY <2>0, <5>2, <6>2 DEF MigrateAdopt, Migrated
            <7>2. legacy' = [legacy EXCEPT ![k] = Gone]
              BY <2>0, <5>2, <6>2, <7>1 DEF MigrateAdopt, Free
            <7> QED BY <2>0, <7>2 DEF TypeOK
          <6> QED BY <3>4, <6>1, <6>2
        <5> QED BY <5>2
      <4> QED BY <2>1, <3>0, <4>2, <4>3 DEF Migrating
    <3> QED BY <3>2, <3>3, <3>4
  <2> QED BY <1>2, <2>3, <2>4, <2>5, JobStep DEF At, Idle
<1>3. \A p \in Proc : At(p, "adopt")' /\ legacy'[job'[p].pick] # Gone => entry'[job'[p].pick] = Gone
  <2> SUFFICES ASSUME NEW p \in Proc, At(p, "adopt")', legacy'[job'[p].pick] # Gone
               PROVE  entry'[job'[p].pick] = Gone
    OBVIOUS
  <2>1. job'[p].pick \in Key /\ job'[p].at = "adopt"
    BY DEF TypeOK, At, Idle, Job
  <2> QED BY <1>2, <2>1 DEF At
<1> QED BY <1>1, <1>2, <1>3 DEF Migrated, At

-----------------------------------------------------------------------------
(* What counts as a hit was made from the source as it is. *)

LEMMA ConstMade ==
    ASSUME NEW v \in Version
    PROVE  MadeFrom(Gone, v) /\ MadeFrom(Empty, v) /\ (v = 0 => MadeFrom(Split0, v))
<1>1. None \notin Stem \cup Inter
  BY StoreAssumption
<1> QED BY <1>1 DEF MadeFrom, Gone, Empty, Split0, Has

LEMMA WithMade ==
    ASSUME NEW d \in Dir, NEW v \in Version, MadeFrom(d, v)
    PROVE  /\ \A w \in Version : MadeFrom(With(d, Meta, w), v)
           /\ \A f \in Stem : MadeFrom(With(d, f, v), v)
           /\ \A F \in SUBSET File : MadeFrom(Only(d, F), v)
           /\ \A out \in SUBSET (Stem \cup Inter) : MadeFrom(Made(d, out, v), v)
<1>1. Stem \cup Inter \subseteq File /\ Meta \notin Stem \cup Inter
  BY StoreAssumption DEF File
<1>2. ASSUME NEW w \in Version PROVE MadeFrom(With(d, Meta, w), v)
  BY <1>1, MetaIsFile, WithIs DEF MadeFrom
<1>3. ASSUME NEW f \in Stem PROVE MadeFrom(With(d, f, v), v)
  <2>1. f \in File
    BY MetaIsFile
  <2> QED BY <1>1, <2>1, WithIs DEF MadeFrom
<1>4. ASSUME NEW F \in SUBSET File PROVE MadeFrom(Only(d, F), v)
  BY <1>1, OnlyIs DEF MadeFrom
<1>5. ASSUME NEW out \in SUBSET (Stem \cup Inter) PROVE MadeFrom(Made(d, out, v), v)
  <2>1. \A f \in File : Has(Made(d, out, v), f) =>
            Made(d, out, v)[f] = v \/ (Has(d, f) /\ Made(d, out, v)[f] = d[f])
    BY MadeIs
  <2> QED BY <1>1, <2>1 DEF MadeFrom
<1> QED BY <1>2, <1>3, <1>4, <1>5

\* What was made from the source stays so, in the work directory, the stage and
\* the entry, whoever takes the step.
LEMMA KeepWork ==
    ASSUME TypeOK, Next, NEW k \in Key, MadeFrom(work[k], src[k])
    PROVE  MadeFrom(work'[k], src[k])
<1>1. work[k] \in Dir /\ src[k] \in Version
  BY DirsAre DEF TypeOK
<1>2. CASE work'[k] \in {work[k], Gone, Empty}
  BY <1>1, <1>2, ConstMade
<1>3. ASSUME NEW F \in SUBSET File PROVE MadeFrom(Only(work[k], F), src[k])
  BY <1>1, WithMade
<1>4. ASSUME NEW out \in SUBSET (Stem \cup Inter), NEW v \in Version,
             v = src[k] \/ \E f \in Stem \cup Inter : Has(work[k], f) /\ v = work[k][f]
      PROVE  MadeFrom(Made(work[k], out, v), src[k])
  <2>1. v = src[k]
    BY <1>4 DEF MadeFrom
  <2> QED BY <1>1, <2>1, WithMade
<1> QED BY <1>2, <1>3, <1>4, WorkStep

LEMMA KeepStage ==
    ASSUME TypeOK, SplitTrue, Next, NEW k \in Key \ raced, MadeFrom(stage[k], src[k])
    PROVE  MadeFrom(stage'[k], src[k])
<1>1. stage[k] \in Dir /\ src[k] \in Version
  BY DirsAre DEF TypeOK
<1>2. CASE stage'[k] \in {stage[k], Gone, Empty}
  BY <1>1, <1>2, ConstMade
<1>3. ASSUME NEW p \in Proc, NEW f \in Stem, Move(p), K(p) = k, Has(work[k], f)
      PROVE  MadeFrom(With(stage[k], f, work[k][f]), src[k])
  <2>1. At(p, "move") /\ ~At(p, "idle")
    BY <1>3 DEF Move, At
  <2>2. MadeFrom(work[k], src[k])
    BY <1>3, <2>1 DEF SplitTrue, At, Splitting
  <2>3. work[k][f] = src[k]
    BY <1>3, <2>2 DEF MadeFrom
  <2> QED BY <1>1, <2>3, WithMade
<1>4. ASSUME NEW p \in Proc, WriteMeta(p) PROVE MadeFrom(With(stage[k], Meta, job[p].fp), src[k])
  <2>1. job[p].fp \in Version
    BY <1>4, JobIs DEF WriteMeta, At
  <2> QED BY <1>1, <2>1, WithMade
<1> QED BY <1>2, <1>3, <1>4, StageStep

LEMMA KeepEntry ==
    ASSUME TypeOK, SplitTrue, Next, NEW k \in Key \ raced, MadeFrom(entry[k], src[k]), legacy[k] = Gone
    PROVE  MadeFrom(entry'[k], src[k])
<1>1. entry[k] \in Dir /\ src[k] \in Version
  BY DirsAre DEF TypeOK
<1>2. ASSUME NEW F \in SUBSET File PROVE MadeFrom(Only(entry[k], F), src[k])
  BY <1>1, WithMade
<1>3. ASSUME NEW p \in Proc, Touch(p) PROVE MadeFrom(With(entry[k], Meta, job[p].fp), src[k])
  <2>1. job[p].fp \in Version
    BY <1>3, JobIs DEF Touch, At
  <2> QED BY <1>1, <2>1, WithMade
<1>4. ASSUME NEW p \in Proc, Rename(p), K(p) = k PROVE MadeFrom(stage[k], src[k])
  BY <1>4 DEF Rename, At, SplitTrue
<1>5. MadeFrom(Gone, src[k])
  BY <1>1, ConstMade
<1> QED BY <1>2, <1>3, <1>4, <1>5, EntryStep

LEMMA HitStep ==
    ASSUME TypeOK, TypeOK', Aged, Migrated, HitTrue, SplitTrue, Next PROVE HitTrue'
<1> SUFFICES ASSUME NEW k \in Key, k \notin raced', Has(entry'[k], Meta), entry'[k][Meta] = src'[k]
             PROVE  MadeFrom(entry'[k], src'[k])
  BY DEF HitTrue
<1>1. k \notin raced /\ src[k] \in Version /\ entry[k] \in Dir
  BY LegacyStep, DirsAre DEF TypeOK
<1>2. CASE Edit(k)
  <2>1. entry'[k] = entry[k] /\ src'[k] = src[k] + 1
    BY <1>2 DEF Edit, TypeOK
  <2>2. entry[k][Meta] <= src[k]
    BY <2>1, MetaIsFile DEF Aged, UpTo
  <2> QED BY <1>1, <2>1, <2>2 DEF Version
<1>3. CASE ~Edit(k)
  <2>1. src'[k] = src[k]
    BY <1>3, LegacyStep
  <2>2. CASE entry'[k] = entry[k]
    BY <1>1, <2>1, <2>2 DEF HitTrue
  <2>3. CASE entry'[k] = Gone
    <3>1. Meta # None
      BY StoreAssumption
    <3> QED BY <2>3, <3>1 DEF Gone, Has
  <2>4. ASSUME NEW F \in SUBSET File, entry'[k] = Only(entry[k], F) PROVE MadeFrom(entry'[k], src'[k])
    <3>1. Has(entry[k], Meta) /\ entry[k][Meta] = src[k]
      BY <1>1, <2>1, <2>4, MetaIsFile, OnlyIs
    <3>2. MadeFrom(entry[k], src[k])
      BY <1>1, <3>1 DEF HitTrue
    <3> QED BY <1>1, <2>1, <2>4, <3>2, WithMade
  <2>5. ASSUME NEW p \in Proc, Touch(p), K(p) = k, entry'[k] = With(entry[k], Meta, job[p].fp)
        PROVE  MadeFrom(entry'[k], src'[k])
    <3>1. At(p, "touch") /\ ~At(p, "idle") /\ job[p].fp \in Version
      BY <2>5, JobIs DEF Touch, At
    <3>2. job[p].fp = src[k]
      BY <1>1, <2>1, <2>5, <3>1, MetaIsFile, WithIs
    <3>3. MadeFrom(entry[k], src[k])
      BY <1>1, <2>5, <3>1, <3>2 DEF SplitTrue
    <3> QED BY <1>1, <2>1, <2>5, <3>1, <3>3, WithMade
  <2>6. ASSUME NEW p \in Proc, Rename(p), K(p) = k, entry'[k] = stage[k]
        PROVE  MadeFrom(entry'[k], src'[k])
    <3>1. At(p, "rename") /\ ~At(p, "idle")
      BY <2>6 DEF Rename, At
    <3> QED BY <1>1, <2>1, <2>6, <3>1 DEF SplitTrue, At
  <2>7. ASSUME legacy[k] # Gone, entry'[k] = legacy[k] PROVE MadeFrom(entry'[k], src'[k])
    <3>1. legacy[k] = Split0 /\ Split0[Meta] = 0
      BY <2>7 DEF Migrated, Split0
    <3>2. src'[k] = 0
      BY <2>7, <3>1
    <3> QED BY <1>1, <2>1, <2>7, <3>1, <3>2, ConstMade
  <2> QED BY <2>2, <2>3, <2>4, <2>5, <2>6, <2>7, EntryStep
<1> QED BY <1>2, <1>3

LEMMA SplitStep ==
    ASSUME TypeOK, TypeOK', Aged, Migrated, HitTrue, SplitTrue, Next PROVE SplitTrue'
<1> SUFFICES ASSUME NEW q \in Proc, ~At(q, "idle")', job'[q].key \notin raced'
             PROVE  /\ job'[q].at \in Splitting \ {"clear"} => MadeFrom(work'[job'[q].key], src'[job'[q].key])
                    /\ job'[q].at \in {"move", "swap", "rename"} =>
                          MadeFrom(stage'[job'[q].key], src'[job'[q].key]) /\ job'[q].fp = src'[job'[q].key]
                    /\ job'[q].at = "touch" /\ job'[q].fp = src'[job'[q].key] =>
                          MadeFrom(entry'[job'[q].key], src'[job'[q].key])
  BY DEF SplitTrue, At, K
<1> DEFINE k == job'[q].key
<1>1. job'[q] # Idle /\ k \in Key
  BY DEF TypeOK, At, Idle, Job
<1>2. k \notin raced /\ src[k] \in Version
  BY <1>1, LegacyStep DEF TypeOK
<1>3. CASE Edit(k)
  <2>1. job'[q] = job[q] /\ src'[k] = src[k] + 1
    BY <1>1, <1>3 DEF Edit, TypeOK
  <2>2. job[q].at \notin Splitting
    BY <1>3, <2>1 DEF Edit, K
  <2>3. job[q].fp <= src[k] /\ job[q].fp \in Version
    BY <2>1, JobIs DEF Aged, At, K
  <2> QED BY <1>2, <2>1, <2>2, <2>3 DEF Splitting, Version
<1>4. CASE ~Edit(k)
  <2>1. src'[k] = src[k]
    BY <1>1, <1>4, LegacyStep
  <2>2. CASE job'[q] = job[q]
    <3>1. ~At(q, "idle") /\ K(q) = k
      BY <2>2 DEF At, K
    <3>2. job[q].at \in Splitting \ {"clear"} => MadeFrom(work'[k], src'[k])
      BY <1>1, <1>2, <2>1, <3>1, KeepWork DEF SplitTrue
    <3>3. job[q].at \in {"move", "swap", "rename"} => MadeFrom(stage'[k], src'[k]) /\ job[q].fp = src'[k]
      BY <1>1, <1>2, <2>1, <3>1, KeepStage DEF SplitTrue
    <3>4. job[q].at = "touch" /\ job[q].fp = src'[k] => MadeFrom(entry'[k], src'[k])
      <4> SUFFICES ASSUME job[q].at = "touch", job[q].fp = src'[k] PROVE MadeFrom(entry'[k], src'[k])
        OBVIOUS
      <4>1. legacy[k] = Gone
        BY <1>1, <3>1, NoLegacyAtWork DEF Migrating
      <4>2. MadeFrom(entry[k], src[k])
        BY <1>2, <2>1, <3>1 DEF SplitTrue, At
      <4> QED BY <1>1, <1>2, <2>1, <4>1, <4>2, KeepEntry
    <3> QED BY <2>2, <3>2, <3>3, <3>4
  <2>3. CASE \E c \in Key : Start(q, c)
    <3>1. job'[q].at \in {"lookup", "migrate"}
      BY <2>3, StartIs
    <3> QED BY <3>1 DEF Splitting
  <2>4. CASE ProcNext(q)
    <3>1. ~At(q, "idle") /\ K(q) = k /\ After(q)
      BY <1>1, <2>4, AfterIs DEF K
    <3> HIDE DEF k
    <3>2. CASE job'[q].at \in {"migrate", "drop", "adopt", "lookup", "clear", "prune", "evict", "cleanup"}
      BY <3>2 DEF Splitting, k
    <3>3. CASE Lookup(q) /\ job'[q].at = "touch" /\ Fresh(K(q))
      <4>1. entry' = entry /\ MadeFrom(entry[k], src[k])
        BY <1>1, <1>2, <3>1, <3>3 DEF Lookup, disk, Fresh, HitTrue, k
      <4> QED BY <2>1, <3>3, <4>1 DEF Splitting, k
    <3>4. CASE ClearWork(q) /\ job'[q].at = "pass"
      <4>1. work'[k] = Empty
        BY <1>1, <3>1, <3>4 DEF ClearWork, TypeOK, k
      <4> QED BY <1>2, <2>1, <3>4, <4>1, ConstMade DEF Splitting, k
    <3>5. CASE Pass(q) /\ job'[q].at \in {"pass", "store"}
      <4>1. MadeFrom(work[k], src[k])
        BY <1>2, <3>1, <3>5 DEF SplitTrue, Pass, At, Splitting
      <4>2. MadeFrom(work'[k], src'[k])
        BY <1>1, <2>1, <4>1, KeepWork DEF k
      <4> QED BY <3>5, <4>2 DEF k
    <3>6. CASE Stage(q) /\ job'[q].at = "move" /\ stage'[K(q)] = Empty /\ job'[q].fp = src[K(q)]
      <4>1. MadeFrom(work[k], src[k])
        BY <1>2, <3>1, <3>6 DEF SplitTrue, Stage, At, Splitting
      <4>2. MadeFrom(work'[k], src'[k])
        BY <1>1, <2>1, <4>1, KeepWork DEF k
      <4> QED BY <1>2, <2>1, <3>1, <3>6, <4>2, ConstMade DEF k
    <3>7. CASE (Move(q) \/ WriteMeta(q) \/ RemoveOld(q)) /\ job'[q].fp = job[q].fp /\ job'[q].at # "touch"
      <4>1. MadeFrom(work[k], src[k]) /\ MadeFrom(stage[k], src[k]) /\ job[q].fp = src[k]
        BY <1>2, <3>1, <3>7 DEF SplitTrue, Move, WriteMeta, RemoveOld, At, Splitting
      <4>2. MadeFrom(work'[k], src'[k]) /\ MadeFrom(stage'[k], src'[k])
        BY <1>1, <1>2, <2>1, <4>1, KeepWork, KeepStage DEF k
      <4> QED BY <2>1, <3>7, <4>1, <4>2 DEF k
    <3> QED BY <3>1, <3>2, <3>3, <3>4, <3>5, <3>6, <3>7 DEF After
  <2> QED BY <1>1, <2>2, <2>3, <2>4, JobStep
<1> QED BY <1>3, <1>4

LEMMA InvInit == Init => Inv
<1> SUFFICES ASSUME Init PROVE Inv
  OBVIOUS
<1>1. TypeOK
  BY TypeInit
<1>2. \A p \in Proc : At(p, "idle")
  BY DEF Init, At, Idle
<1>3. \A k \in Key : src[k] = 0 /\ entry[k] \in {Gone, Split0} /\ legacy[k] \in {Gone, Split0}
                     /\ stage[k] = Gone /\ work[k] = Gone
  BY DEF Init
<1>4. 0 \in Version
  BY StoreAssumption DEF Version
<1>5. Aged
  BY <1>2, <1>3, <1>4, ConstUpTo DEF Aged
<1>6. HitTrue
  BY <1>3, <1>4, ConstMade DEF HitTrue
<1>7. Migrated /\ SplitTrue
  BY <1>2, <1>3 DEF Migrated, SplitTrue, At
<1> QED BY <1>1, <1>5, <1>6, <1>7 DEF Inv

LEMMA InvStep == Inv /\ [Next]_vars => Inv'
<1> SUFFICES ASSUME Inv, [Next]_vars PROVE Inv'
  OBVIOUS
<1>1. TypeOK'
  BY TypeStep DEF Inv
<1>2. CASE Next
  BY <1>1, <1>2, AgedStep, MigratedStep, HitStep, SplitStep DEF Inv
<1>3. CASE UNCHANGED vars
  BY <1>1, <1>3 DEF vars, disk, ghost, Inv, Aged, Migrated, HitTrue, SplitTrue, At, K
<1> QED BY <1>2, <1>3

\* What the processes, the shelf and its pins keep in every state.
THEOREM InvHolds == Spec => []Inv
BY InvInit, InvStep, PTL DEF Spec

\* What a lookup serves was made from the source as it is, whoever stored,
\* pruned, touched or crashed meanwhile, unless the source was edited during
\* its own split.
THEOREM ServedRight == Spec => []ServedIsCurrent
<1>1. Inv => ServedIsCurrent
  <2> SUFFICES ASSUME Inv, NEW k \in Key, Fresh(k), k \notin raced
               PROVE  \A f \in Stem : Has(entry[k], f) /\ entry[k][f] = src[k]
    BY DEF ServedIsCurrent
  <2>1. MadeFrom(entry[k], src[k])
    BY DEF Inv, HitTrue, Fresh
  <2> QED BY <2>1 DEF Fresh, Whole, Has, MadeFrom
<1> QED BY <1>1, InvHolds, PTL

-----------------------------------------------------------------------------
(* The cache behaves as a shelf of whole splits. *)

\* The version a directory shows to a lookup.
Val(d) == IF Has(d, Meta) /\ Whole(d) THEN d[CHOOSE f \in Stem : TRUE] ELSE None

LEMMA ShelfIs == Shelf = [k \in Key |-> Val(entry[k])]
BY DEF Shelf, Val

LEMMA ValIs ==
    ASSUME NEW d \in Dir
    PROVE  /\ Val(Gone) = None /\ Val(Empty) = None /\ Val(Split0) = 0
           /\ \A v \in Version : UpTo(d, v) => Val(d) = None \/ Val(d) \in 0..v
           /\ \A F \in SUBSET File : Val(Only(d, F)) \in {Val(d), None}
           /\ \A w \in Version : Val(d) = None \/ Val(With(d, Meta, w)) = Val(d)
<1> DEFINE s == CHOOSE f \in Stem : TRUE
<1>1. s \in Stem
  BY StoreAssumption
<1> HIDE DEF s
<1>2. s \in File /\ Meta \in File /\ s # Meta /\ Stem \subseteq File /\ Meta \notin Stem
  BY <1>1, StoreAssumption DEF File
<1>3. \A e : Val(e) = IF Has(e, Meta) /\ Whole(e) THEN e[s] ELSE None
  BY DEF Val, s
<1>4. Val(Gone) = None /\ Val(Empty) = None
  BY <1>3, StoreAssumption DEF Gone, Empty, Has
<1>5. Val(Split0) = 0
  <2>1. Has(Split0, Meta) /\ Whole(Split0) /\ Split0[s] = 0
    BY <1>1 DEF Split0, Has, Whole
  <2> QED BY <2>1, <1>3
<1>6. ASSUME NEW v \in Version, UpTo(d, v) PROVE Val(d) = None \/ Val(d) \in 0..v
  <2>1. CASE Has(d, Meta) /\ Whole(d)
    <3>1. Has(d, s)
      BY <1>1, <2>1 DEF Whole, Has
    <3>2. d[s] \in Version /\ d[s] <= v
      BY <1>2, <1>6, <3>1, DirElim DEF UpTo
    <3> QED BY <1>3, <2>1, <3>2 DEF Version
  <2> QED BY <1>3, <2>1
<1>7. ASSUME NEW F \in SUBSET File PROVE Val(Only(d, F)) \in {Val(d), None}
  <2>1. CASE Has(Only(d, F), Meta) /\ Whole(Only(d, F))
    <3>1. \A f \in Stem \cup {Meta} : Has(d, f) /\ Only(d, F)[f] = d[f]
      BY <1>2, <2>1, OnlyIs DEF Whole, Has
    <3>2. Has(d, Meta) /\ Whole(d) /\ Only(d, F)[s] = d[s]
      BY <1>1, <3>1 DEF Whole, Has
    <3> QED BY <1>3, <2>1, <3>2
  <2> QED BY <1>3, <2>1
<1>8. ASSUME NEW w \in Version, Val(d) # None PROVE Val(With(d, Meta, w)) = Val(d)
  <2>1. Has(d, Meta) /\ Whole(d) /\ Val(d) = d[s]
    BY <1>3, <1>8
  <2>2. \A f \in Stem : Has(With(d, Meta, w), f) /\ With(d, Meta, w)[f] = d[f]
    BY <1>2, <2>1, WithIs DEF Whole, Has
  <2>3. Has(With(d, Meta, w), Meta) /\ Whole(With(d, Meta, w))
    BY <1>2, <2>2, WithIs DEF Whole, Has
  <2> QED BY <1>1, <1>3, <2>1, <2>2, <2>3
<1> QED BY <1>4, <1>5, <1>6, <1>7, <1>8

LEMMA ShelfInit == Init => Cache!Init
<1> SUFFICES ASSUME Init PROVE Cache!Init
  OBVIOUS
<1>1. \A k \in Key : entry[k] \in {Gone, Split0}
  BY DEF Init
<1>2. \A k \in Key : Val(entry[k]) \in {0, None}
  BY <1>1, ConstDirs, ValIs
<1> QED BY <1>2, ShelfIs DEF Init, Cache!Init

\* One process puts an entry there.
LEMMA ShelfPut ==
    ASSUME Inv, Inv', Next, NEW p \in Proc, Touch(p) \/ Rename(p) \/ MigrateAdopt(p)
    PROVE  [Cache!Next]_(Cache!vars)
<1>1. ~At(p, "idle") /\ src' = src
  BY DEF Touch, Rename, MigrateAdopt, At
<1> DEFINE c == IF MigrateAdopt(p) THEN job[p].pick ELSE K(p)
<1>2. c \in Key
  BY <1>1, JobIs DEF Inv
<1> HIDE DEF c
<1>3. \A k \in Key : k # c => entry'[k] = entry[k]
  <2>1. CASE MigrateAdopt(p)
    <3>1. c = job[p].pick
      BY <2>1 DEF c
    <3>2. entry' = entry \/ \E d : entry' = [entry EXCEPT ![c] = d]
      BY <2>1, <3>1 DEF MigrateAdopt
    <3> QED BY <3>2 DEF Inv, TypeOK
  <2>2. CASE ~MigrateAdopt(p)
    <3>1. c = K(p)
      BY <2>2 DEF c
    <3>2. entry' = entry \/ \E d : entry' = [entry EXCEPT ![c] = d]
      BY <2>2, <3>1 DEF Touch, Rename
    <3> QED BY <3>2 DEF Inv, TypeOK
  <2> QED BY <2>1, <2>2
<1>4. Val(entry'[c]) = Val(entry[c]) \/ Val(entry[c]) = None
  <2>1. CASE Touch(p)
    <3>1. c = K(p) /\ job[p].fp \in Version /\ entry[c] \in Dir
      BY <1>1, <1>2, <2>1, JobIs, DirsAre DEF c, Touch, MigrateAdopt, At, Inv
    <3>2. entry'[c] = With(entry[c], Meta, job[p].fp)
      BY <1>2, <2>1, <3>1 DEF Touch, Inv, TypeOK
    <3> QED BY <3>1, <3>2, ValIs
  <2>2. CASE ~Touch(p)
    <3>1. entry' = entry \/ Free(entry[c])
      <4>1. CASE MigrateAdopt(p)
        BY <4>1 DEF MigrateAdopt, c
      <4>2. CASE ~MigrateAdopt(p)
        BY <2>2, <4>2 DEF Rename, c
      <4> QED BY <4>1, <4>2
    <3> QED BY <3>1, ConstDirs, ValIs DEF Free
  <2> QED BY <2>1, <2>2
<1>5. entry'[c] \in Dir /\ src[c] \in Version /\ UpTo(entry'[c], src[c])
  BY <1>1, <1>2 DEF Inv, TypeOK, Aged
<1>6. Val(entry'[c]) = None \/ Val(entry'[c]) \in 0..src[c]
  BY <1>5, ValIs
<1>7. Shelf' = [k \in Key |-> Val(entry'[k])] /\ Shelf = [k \in Key |-> Val(entry[k])]
  BY DEF Shelf, Val
<1>8. Shelf' = [Shelf EXCEPT ![c] = Val(entry'[c])]
  BY <1>2, <1>3, <1>7
<1>9. CASE Val(entry'[c]) = Val(entry[c])
  BY <1>1, <1>2, <1>7, <1>8, <1>9 DEF Cache!vars
<1>10. CASE Val(entry'[c]) # Val(entry[c])
  <2>1. Shelf[c] = None
    BY <1>2, <1>4, <1>7, <1>10
  <2>2. Val(entry'[c]) \in 0..src[c]
    BY <1>4, <1>6, <1>10
  <2> QED BY <1>1, <1>2, <1>8, <2>1, <2>2 DEF Cache!Next, Cache!Put
<1> QED BY <1>9, <1>10

LEMMA ShelfStep == Inv /\ Inv' /\ [Next]_vars => [Cache!Next]_(Cache!vars)
<1> SUFFICES ASSUME Inv, Inv', [Next]_vars PROVE [Cache!Next]_(Cache!vars)
  OBVIOUS
<1>0. Shelf' = [k \in Key |-> Val(entry'[k])] /\ Shelf = [k \in Key |-> Val(entry[k])]
  BY DEF Shelf, Val
<1>1. CASE UNCHANGED vars
  BY <1>0, <1>1 DEF vars, disk, Cache!vars
<1>2. CASE \E k \in Key : Edit(k)
  <2>1. PICK k \in Key : Edit(k)
    BY <1>2
  <2>2. entry' = entry /\ src' = [src EXCEPT ![k] = @ + 1]
    BY <2>1 DEF Edit
  <2> QED BY <1>0, <2>2 DEF Cache!Next, Cache!Edit
<1>3. CASE Next /\ \E p \in Proc : Touch(p) \/ Rename(p) \/ MigrateAdopt(p)
  BY <1>3, ShelfPut
<1>4. CASE /\ Next
           /\ ~\E p \in Proc : Touch(p) \/ Rename(p) \/ MigrateAdopt(p)
           /\ ~\E k \in Key : Edit(k)
  <2>1. src' = src
    <3>1. \A k \in Key : src'[k] = src[k]
      BY <1>4, LegacyStep DEF Inv
    <3> QED BY <3>1 DEF Inv, TypeOK
  <2>2. \A k \in Key : Val(entry'[k]) \in {Val(entry[k]), None}
    <3> SUFFICES ASSUME NEW k \in Key PROVE Val(entry'[k]) \in {Val(entry[k]), None}
      OBVIOUS
    <3>1. entry[k] \in Dir
      BY DirsAre DEF Inv
    <3>2. entry'[k] \in {entry[k], Gone} \/ \E F \in SUBSET File : entry'[k] = Only(entry[k], F)
      BY <1>4, EntryStep DEF Inv
    <3> QED BY <3>1, <3>2, ValIs
  <2> DEFINE lost == {k \in Key : Val(entry'[k]) = None}
  <2>3. Shelf' = [k \in Key |-> IF k \in lost THEN None ELSE Shelf[k]]
    BY <1>0, <2>2
  <2> QED BY <2>1, <2>3 DEF Cache!Next, Cache!Lose
<1> QED BY <1>1, <1>2, <1>3, <1>4

\* Processes, crashes and clears together behave as the shelf of StemCache: an
\* entry is put there whole, in one step, and never changes while it is there.
THEOREM ImplementsShelf == Spec => ShelfSpec
<1>1. Init => Cache!Init
  BY ShelfInit
<1>2. Inv /\ Inv' /\ [Next]_vars => [Cache!Next]_(Cache!vars)
  BY ShelfStep
<1> QED BY <1>1, <1>2, InvHolds, PTL DEF Spec, ShelfSpec, Cache!Spec

-----------------------------------------------------------------------------
(* A pruned cache fits. *)

LEMMA SizeIs ==
    ASSUME NEW d \in Dir
    PROVE  Size(d) > 0 <=> \E f \in Stem \cup Inter : Has(d, f)
<1> DEFINE fs == DOMAIN d \cap (Stem \cup Inter)
<1>1. IsFiniteSet(fs)
  BY StoreAssumption, FS_Union, FS_Intersection
<1>2. Cardinality(fs) \in Nat /\ (Cardinality(fs) = 0 <=> fs = {})
  BY <1>1, FS_CardinalityType, FS_EmptySet
<1>3. Size(d) = Cardinality(fs)
  BY DEF Size
<1> QED BY <1>2, <1>3 DEF Has

LEMMA CountedIs ==
    ASSUME TypeOK
    PROVE  /\ Counted \in SUBSET Key /\ IsFiniteSet(Counted)
           /\ Counted = {k \in Key \ unpruned : Has(entry[k], Meta) /\ \E f \in Stem \cup Inter : Has(entry[k], f)}
<1>1. \A k \in Key : Size(entry[k]) > 0 <=> \E f \in Stem \cup Inter : Has(entry[k], f)
  BY DirsAre, SizeIs
<1>2. Counted \in SUBSET Key
  BY DEF Counted, Listed
<1>3. IsFiniteSet(Counted)
  BY <1>2, StoreAssumption, FS_Subset
<1> QED BY <1>1, <1>2, <1>3 DEF Counted, Listed

\* Only a prune counts entries.
LEMMA UnprunedStep ==
    ASSUME Next, \A p \in Proc : ~List(p)
    PROVE  unpruned \subseteq unpruned'
<1>1. ASSUME NEW p \in Proc, NEW k \in Key, Start(p, k) PROVE unpruned' = unpruned
  BY <1>1 DEF Start
<1>2. ASSUME NEW p \in Proc, Crash(p) PROVE unpruned \subseteq unpruned'
  BY <1>2 DEF Crash
<1>3. ASSUME NEW p \in Proc,
             \/ MigrateLook(p) \/ MigrateDrop(p) \/ MigrateAdopt(p) \/ Lookup(p) \/ Touch(p) \/ ClearWork(p)
             \/ Pass(p) \/ Fail(p) \/ Stage(p) \/ Move(p) \/ WriteMeta(p) \/ RemoveOld(p) \/ Rename(p)
             \/ Evict(p) \/ Pruned(p) \/ Cleanup(p)
      PROVE  unpruned \subseteq unpruned'
  BY <1>3 DEF MigrateLook, MigrateDrop, MigrateAdopt, Lookup, Touch, ClearWork, Pass, Fail, Stage, Move,
              WriteMeta, RemoveOld, Rename, Evict, Pruned, Cleanup
<1>4. ASSUME NEW p \in Proc, ProcNext(p) PROVE unpruned \subseteq unpruned'
  BY <1>3, <1>4 DEF ProcNext
<1>5. CASE Clear \/ \E k \in Key : Edit(k)
  BY <1>5 DEF Clear, Edit
<1> QED BY <1>1, <1>2, <1>4, <1>5 DEF Next

\* A step that counts no entries adds no file to those that are counted.
LEMMA CountedStep ==
    ASSUME TypeOK, TypeOK', Noticed, Next, \A p \in Proc : ~List(p)
    PROVE  Counted' \subseteq Counted /\ Files(Counted)' \subseteq Files(Counted)
<1>1. ASSUME NEW k \in Counted'
      PROVE  k \in Counted /\ \A f \in Stem \cup Inter : Has(entry'[k], f) => Has(entry[k], f)
  <2>1. Counted' = {c \in Key \ unpruned' : Has(entry'[c], Meta) /\ \E f \in Stem \cup Inter : Has(entry'[c], f)}
    <3>1. \A c \in Key : Size(entry'[c]) > 0 <=> \E f \in Stem \cup Inter : Has(entry'[c], f)
      BY SizeIs DEF TypeOK
    <3> QED BY <3>1 DEF Counted, Listed
  <2>2. k \in Key /\ k \notin unpruned' /\ k \notin unpruned /\ Has(entry'[k], Meta)
    BY <2>1, UnprunedStep
  <2>3. \E f \in Stem \cup Inter : Has(entry'[k], f)
    BY <2>1
  <2>4. entry'[k] # Gone
    <3>1. None # Meta
      BY StoreAssumption
    <3> QED BY <2>2, <3>1 DEF Gone, Has
  <2>5. ASSUME NEW p \in Proc, Rename(p) \/ MigrateAdopt(p) PROVE entry'[k] = entry[k]
    <3>1. CASE Rename(p)
      <4>1. entry' = entry \/ (entry' = [entry EXCEPT ![K(p)] = stage[K(p)]] /\ K(p) \in unpruned')
        BY <3>1 DEF Rename
      <4> QED BY <2>2, <4>1 DEF TypeOK
    <3>2. CASE MigrateAdopt(p)
      <4>1. \/ entry' = entry
            \/ entry' = [entry EXCEPT ![job[p].pick] = legacy[job[p].pick]] /\ job[p].pick \in unpruned'
        BY <3>2 DEF MigrateAdopt
      <4> QED BY <2>2, <4>1 DEF TypeOK
    <3> QED BY <2>5, <3>1, <3>2
  <2>6. CASE entry'[k] = entry[k]
    BY <2>2, <2>3, <2>6, CountedIs
  <2>7. ASSUME NEW p \in Proc, Touch(p), entry'[k] = With(entry[k], Meta, job[p].fp)
        PROVE  k \in Counted /\ \A f \in Stem \cup Inter : Has(entry'[k], f) => Has(entry[k], f)
    <3>1. entry[k] \in Dir /\ job[p].fp \in Version /\ Stem \cup Inter \subseteq File /\ Meta \notin Stem \cup Inter
      BY <2>2, <2>7, JobIs, DirsAre, StoreAssumption DEF Touch, At, File
    <3>2. \A f \in Stem \cup Inter : Has(entry'[k], f) => Has(entry[k], f)
      BY <2>7, <3>1, MetaIsFile, WithIs
    <3>3. Has(entry[k], Meta)
      BY <2>2, <2>3, <3>1, <3>2, SizeIs DEF Noticed
    <3> QED BY <2>2, <2>3, <3>2, <3>3, CountedIs
  <2> QED BY <2>2, <2>4, <2>5, <2>6, <2>7, EntryStep
<1> QED BY <1>1 DEF Files

LEMMA NoticedStep ==
    ASSUME TypeOK, TypeOK', Noticed, Next PROVE Noticed'
<1> SUFFICES ASSUME NEW k \in Key, k \notin unpruned', Size(entry'[k]) > 0 PROVE Has(entry'[k], Meta)
  BY DEF Noticed
<1>0. entry[k] \in Dir /\ entry'[k] \in Dir
  BY DirsAre DEF TypeOK
<1>1. CASE entry'[k] = entry[k]
  <2>1. CASE \E p \in Proc : List(p)
    BY <1>1, <2>1 DEF Noticed, List, Listed
  <2>2. CASE ~\E p \in Proc : List(p)
    BY <1>1, <2>2, UnprunedStep DEF Noticed
  <2> QED BY <2>1, <2>2
<1>2. CASE entry'[k] = Gone
  <2>1. None \notin Stem \cup Inter
    BY StoreAssumption
  <2> QED BY <1>0, <1>2, <2>1, SizeIs DEF Gone, Has
<1>3. ASSUME NEW p \in Proc, Touch(p), entry'[k] = With(entry[k], Meta, job[p].fp) PROVE Has(entry'[k], Meta)
  <2>1. job[p].fp \in Version
    BY <1>3, JobIs DEF Touch, At
  <2> QED BY <1>0, <1>3, <2>1, MetaIsFile, WithIs
<1>4. ASSUME NEW p \in Proc, Rename(p), K(p) = k PROVE entry'[k] = entry[k]
  BY <1>4 DEF Rename, TypeOK
<1>5. ASSUME NEW p \in Proc, MigrateAdopt(p), job[p].pick = k PROVE entry'[k] = entry[k]
  BY <1>5 DEF MigrateAdopt, TypeOK
<1> QED BY <1>1, <1>2, <1>3, <1>4, <1>5, EntryStep

\* What a prune has on its list.
LEMMA ListIs ==
    ASSUME TypeOK, NEW p \in Proc, List(p)
    PROVE  /\ job'[p].at = "evict" /\ job'[p].key = job[p].key
           /\ job'[p].left = Listed /\ job'[p].todo = Listed
           /\ job'[p].files = Files(Listed) /\ job'[p].total = Total(Listed)
<1>1. job[p] \in Job
  BY JobIs DEF List, At
<1> DEFINE fs == Files(Listed)
           n == Total(Listed)
           R == lru \cap (Listed \X Listed)
<1>2. job' = [job EXCEPT ![p].at = "evict", ![p].todo = Listed, ![p].left = Listed,
                         ![p].order = R, ![p].files = fs, ![p].total = n]
  BY DEF List
<1> HIDE DEF fs, n, R
<1> DEFINE j == [job[p] EXCEPT !.at = "evict", !.todo = Listed, !.left = Listed,
                               !.order = R, !.files = fs, !.total = n]
<1>3. job' = [job EXCEPT ![p] = j]
  BY <1>2
<1>4. job'[p] = j
  <2> HIDE DEF j
  <2> QED BY <1>3 DEF TypeOK
<1>5. j.at = "evict" /\ j.key = job[p].key /\ j.left = Listed /\ j.todo = Listed /\ j.files = fs /\ j.total = n
  BY <1>1 DEF Job
<1> QED BY <1>4, <1>5 DEF fs, n

\* What a prune does to its own list and total.
LEMMA PruneIs ==
    ASSUME TypeOK, NEW p \in Proc, ProcNext(p), At(p, "evict")'
    PROVE  \/ List(p)
           \/ /\ Evict(p) /\ At(p, "evict")
              /\ \E c \in job[p].left :
                    /\ entry' = IF Spared(p, c) THEN entry ELSE [entry EXCEPT ![c] = Gone]
                    /\ job'[p].left = job[p].left \ {c}
                    /\ job'[p].total = IF entry[c] = Gone \/ Spared(p, c) THEN job[p].total
                                       ELSE job[p].total - Cardinality({kf \in job[p].files : kf[1] = c})
                    /\ job'[p].todo = job[p].todo /\ job'[p].files = job[p].files /\ job'[p].key = job[p].key
<1>1. List(p) \/ Evict(p)
  <2>1. job'[p] # Idle
    BY DEF At, Idle
  <2> QED BY <2>1, AfterIs DEF After, At
<1>2. CASE Evict(p)
  <2>1. job[p] \in Job /\ At(p, "evict")
    BY <1>2, JobIs DEF Evict, At
  <2>2. PICK c \in Key :
         /\ IsNext(p, c)
         /\ entry' = IF Spared(p, c) THEN entry ELSE [entry EXCEPT ![c] = Gone]
         /\ job' = [job EXCEPT ![p].left = @ \ {c},
                       ![p].total = IF entry[c] = Gone \/ Spared(p, c) THEN @
                                    ELSE @ - Cardinality({kf \in job[p].files : kf[1] = c})]
    BY <1>2 DEF Evict
  <2> DEFINE n == IF entry[c] = Gone \/ Spared(p, c) THEN job[p].total
                  ELSE job[p].total - Cardinality({kf \in job[p].files : kf[1] = c})
             j == [job[p] EXCEPT !.left = @ \ {c}, !.total = n]
  <2>3. c \in job[p].left
    BY <2>2 DEF IsNext
  <2>4. job' = [job EXCEPT ![p] = j]
    BY <2>2
  <2>5. job'[p] = j
    <3> HIDE DEF j
    <3> QED BY <2>4 DEF TypeOK
  <2> HIDE DEF n
  <2>6. /\ job'[p].left = job[p].left \ {c} /\ job'[p].total = n
        /\ job'[p].todo = job[p].todo /\ job'[p].files = job[p].files /\ job'[p].key = job[p].key
    BY <2>1, <2>5 DEF Job
  <2> QED BY <1>2, <2>1, <2>2, <2>3, <2>6 DEF n
<1> QED BY <1>1, <1>2

LEMMA OnListStep ==
    ASSUME TypeOK, OnList, Next PROVE OnList'
<1> SUFFICES ASSUME NEW p \in Proc, At(p, "evict")' PROVE job'[p].left \subseteq job'[p].todo
  BY DEF OnList, At
<1>1. job'[p] # Idle
  BY DEF At, Idle
<1>2. CASE job'[p] = job[p]
  BY <1>2 DEF OnList, At
<1>3. CASE \E k \in Key : Start(p, k)
  BY <1>3, StartIs DEF At
<1>4. CASE ProcNext(p)
  <2>1. CASE List(p)
    <3>1. job'[p].left = Listed /\ job'[p].todo = Listed
      <4>1. ~At(p, "idle") /\ job[p] \in Job
        BY <2>1, JobIs DEF List, At
      <4> QED BY <2>1, <4>1, ListIs
    <3> QED BY <3>1
  <2>2. CASE ~List(p)
    <3>1. At(p, "evict") /\ \E c : job'[p].left = job[p].left \ {c} /\ job'[p].todo = job[p].todo
      BY <1>4, <2>2, PruneIs
    <3> QED BY <3>1 DEF OnList
  <2> QED BY <2>1, <2>2
<1> QED BY <1>1, <1>2, <1>3, <1>4, JobStep

\* A prune that counts the entries has them all on its list.
LEMMA ListCovers ==
    ASSUME TypeOK, TypeOK', NEW p \in Proc, List(p)
    PROVE  Covers(p)'
<1>1. /\ job'[p].at = "evict" /\ job'[p].left = Listed /\ job'[p].key = job[p].key
      /\ job'[p].files = Files(Listed) /\ job'[p].total = Total(Listed)
  BY ListIs
<1>2. entry' = entry /\ Listed' = Listed /\ Listed \in SUBSET Key
  BY DEF List, Listed
<1>3. Counted' \subseteq Listed
  BY <1>2 DEF Counted
<1>4. Files(Counted)' \subseteq Files(Listed)
  BY <1>2, <1>3 DEF Files
<1>5. {kf \in Files(Listed) : kf[1] \in Listed} = Files(Listed)
  BY DEF Files
<1> QED BY <1>1, <1>2, <1>3, <1>4, <1>5 DEF Covers, Charge, Total, At

\* A prune that evicts keeps its total.
LEMMA EvictCovers ==
    ASSUME TypeOK, TypeOK', Noticed, NEW p \in Proc, Covers(p), Next, ProcNext(p),
           \A q \in Proc : ~List(q), At(p, "evict")'
    PROVE  Covers(p)'
<1>1. PICK R \in SUBSET Key : job[p].left \cup Counted \subseteq R /\ job[p].total = Cardinality(Charge(p, R))
  BY DEF Covers
<1>2. PICK c \in job[p].left :
        /\ entry' = IF Spared(p, c) THEN entry ELSE [entry EXCEPT ![c] = Gone]
        /\ job'[p].left = job[p].left \ {c}
        /\ job'[p].total = IF entry[c] = Gone \/ Spared(p, c) THEN job[p].total
                           ELSE job[p].total - Cardinality({kf \in job[p].files : kf[1] = c})
        /\ job'[p].todo = job[p].todo /\ job'[p].files = job[p].files /\ job'[p].key = job[p].key
  BY PruneIs
<1>3. Counted' \subseteq Counted /\ Files(Counted)' \subseteq Files(Counted)
  BY CountedStep
<1>4. c \in Key /\ c \in R /\ job[p].files \subseteq Key \X (Stem \cup Inter)
  <2>1. ~At(p, "idle")
    BY DEF Covers, At
  <2> QED BY <1>1, <1>2, <2>1, JobIs
<1>5. c # K(p) => c \notin Counted'
  <2>1. CASE ~Spared(p, c)
    <3>1. entry'[c] = Gone
      BY <1>2, <1>4, <2>1 DEF TypeOK
    <3>2. None # Meta
      BY StoreAssumption
    <3>3. ~Has(entry'[c], Meta)
      BY <3>1, <3>2 DEF Gone, Has
    <3> QED BY <3>3 DEF Counted, Listed
  <2> QED BY <2>1 DEF Spared
<1>6. Counted' \subseteq job'[p].left \cup {K(p)}
  BY <1>2, <1>3, <1>5 DEF Covers
<1>7. Files(Counted)' \subseteq job'[p].files
  BY <1>2, <1>3 DEF Covers
<1>8. \E S \in SUBSET Key :
         job'[p].left \cup Counted' \subseteq S /\ job'[p].total = Cardinality({kf \in job'[p].files : kf[1] \in S})
  <2>1. CASE entry[c] = Gone \/ Spared(p, c)
    BY <1>1, <1>2, <1>3, <2>1 DEF Charge
  <2>2. CASE ~(entry[c] = Gone \/ Spared(p, c))
    <3> DEFINE own == {kf \in job[p].files : kf[1] = c}
               S == R \ {c}
    <3>1. IsFiniteSet(Charge(p, R))
      <4>1. IsFiniteSet(Key \X (Stem \cup Inter))
        BY StoreAssumption, FS_Union, FS_Product
      <4> QED BY <1>4, <4>1, FS_Subset DEF Charge
    <3>2. own \subseteq Charge(p, R) /\ Charge(p, R) \ own = {kf \in job[p].files : kf[1] \in S}
      BY <1>4 DEF Charge
    <3>3. Charge(p, R) \cap own = own
      BY <3>2
    <3>4. Cardinality(Charge(p, R) \ own) = Cardinality(Charge(p, R)) - Cardinality(own)
      BY <3>1, <3>3, FS_Difference
    <3>5. job'[p].total = Cardinality({kf \in job'[p].files : kf[1] \in S})
      BY <1>1, <1>2, <2>2, <3>2, <3>4
    <3>6. c # K(p)
      BY <2>2 DEF Spared
    <3>7. job'[p].left \cup Counted' \subseteq S
      BY <1>1, <1>2, <1>3, <1>5, <3>6
    <3> QED BY <3>5, <3>7
  <2> QED BY <2>1, <2>2
<1> QED BY <1>2, <1>6, <1>7, <1>8 DEF Covers, Charge, At, K

\* A prune that is done leaves a cache that fits; one that dies, entries no
\* prune has counted.
LEMMA EndFits ==
    ASSUME TypeOK, TypeOK', Noticed, OnList, NEW p \in Proc, Covers(p), Next, 
           \A q \in Proc : ~List(q), Pruned(p) \/ Crash(p)
    PROVE  Fits'
<1>0. PICK R \in SUBSET Key : job[p].left \cup Counted \subseteq R /\ job[p].total = Cardinality(Charge(p, R))
  BY DEF Covers
<1>1. Counted' \subseteq Counted /\ Files(Counted)' \subseteq Files(Counted)
  BY CountedStep
<1>2. K(p) \in Key /\ job[p].files \subseteq Key \X (Stem \cup Inter) /\ At(p, "evict")
  BY JobIs DEF Covers, At
<1>3. Counted \in SUBSET Key /\ Counted' \in SUBSET Key
  BY DEF Counted, Listed
<1>4. ASSUME Counted' \subseteq {K(p)} PROVE Fits'
  <2>1. Cardinality({K(p)}) = 1 /\ IsFiniteSet({K(p)})
    BY FS_Singleton
  <2>2. Cardinality(Counted') <= 1
    BY <1>4, <2>1, FS_Subset
  <2> QED BY <2>2 DEF Fits
<1>5. CASE Crash(p)
  <2>1. job[p].todo \subseteq unpruned'
    BY <1>2, <1>5 DEF Crash
  <2>2. Counted' \cap unpruned' = {}
    BY DEF Counted
  <2>3. Counted' \subseteq {K(p)}
    BY <1>1, <1>2, <2>1, <2>2 DEF Covers, OnList
  <2> QED BY <1>4, <2>3
<1>6. CASE Pruned(p) /\ job[p].left = {}
  BY <1>1, <1>4, <1>6 DEF Covers
<1>7. CASE Pruned(p) /\ ~Over(p)
  <2>1. Cardinality(Charge(p, R)) <= Cap
    <3>1. job[p].total \in Int /\ job[p].total <= Cap
      BY <1>2, <1>7, JobIs, StoreAssumption DEF Over, At
    <3> QED BY <1>0, <3>1
  <2>2. IsFiniteSet(Charge(p, R))
    <3>1. IsFiniteSet(Key \X (Stem \cup Inter))
      BY StoreAssumption, FS_Union, FS_Product
    <3> QED BY <1>2, <3>1, FS_Subset DEF Charge
  <2>3. Files(Counted) \subseteq Charge(p, R)
    BY <1>0 DEF Covers, Charge, Files
  <2>4. Files(Counted)' \subseteq Charge(p, R)
    BY <1>1, <2>3
  <2>5. Cardinality(Files(Counted)') <= Cardinality(Charge(p, R))
        /\ Cardinality(Files(Counted)') \in Nat /\ Cardinality(Charge(p, R)) \in Nat
    BY <2>2, <2>4, FS_Subset, FS_CardinalityType
  <2>6. Total(Counted)' <= Cap
    BY <2>1, <2>5, StoreAssumption DEF Total
  <2> QED BY <2>6 DEF Fits
<1> QED BY <1>5, <1>6, <1>7 DEF Pruned

LEMMA CapStep ==
    ASSUME TypeOK, TypeOK', CapInv, Next PROVE CapInv'
<1>1. Noticed' /\ OnList'
  BY NoticedStep, OnListStep DEF CapInv
<1>2. CASE \E p \in Proc : List(p)
  BY <1>1, <1>2, ListCovers DEF CapInv
<1>3. CASE (\A p \in Proc : ~List(p)) /\ Fits
  <2>1. Counted' \subseteq Counted /\ Files(Counted)' \subseteq Files(Counted)
    BY <1>3, CountedStep DEF CapInv
  <2>2. IsFiniteSet(Counted) /\ IsFiniteSet(Files(Counted))
    BY CountedIs, FilesAre
  <2>3. Cardinality(Counted') <= Cardinality(Counted) /\ Cardinality(Counted') \in Nat /\ Cardinality(Counted) \in Nat
    BY <2>1, <2>2, FS_Subset, FS_CardinalityType
  <2>4. /\ Cardinality(Files(Counted)') <= Cardinality(Files(Counted))
        /\ Cardinality(Files(Counted)') \in Nat /\ Cardinality(Files(Counted)) \in Nat
    BY <2>1, <2>2, FS_Subset, FS_CardinalityType
  <2>5. Fits'
    BY <1>3, <2>3, <2>4, StoreAssumption DEF Fits, Total
  <2> QED BY <1>1, <2>5 DEF CapInv
<1>4. ASSUME \A p \in Proc : ~List(p), NEW p \in Proc, Covers(p) PROVE CapInv'
  <2>0. Noticed /\ OnList /\ At(p, "evict")
    BY <1>4 DEF CapInv, Covers
  <2>1. CASE Pruned(p) \/ Crash(p)
    BY <1>1, <1>4, <2>0, <2>1, EndFits DEF CapInv
  <2>2. CASE ProcNext(p) /\ ~Pruned(p)
    <3>1. Evict(p)
      BY <1>4, <2>0, <2>2 DEF ProcNext, At, MigrateLook, MigrateDrop, MigrateAdopt, Lookup, Touch, ClearWork,
         Pass, Fail, Stage, Move, WriteMeta, RemoveOld, Rename, Cleanup
    <3>2. \E c, n : job' = [job EXCEPT ![p].left = @ \ {c}, ![p].total = n]
      BY <3>1 DEF Evict
    <3>3. job[p] \in Job
      BY <2>0, JobIs DEF At
    <3>4. At(p, "evict")'
      BY <2>0, <3>2, <3>3 DEF TypeOK, Job, At
    <3> QED BY <1>1, <1>4, <2>0, <2>2, <3>4, EvictCovers DEF CapInv
  <2>3. CASE job'[p] = job[p]
    <3>1. Counted' \subseteq Counted /\ Files(Counted)' \subseteq Files(Counted)
      BY <1>4, <2>0, CountedStep
    <3>2. Covers(p)'
      BY <1>4, <2>3, <3>1 DEF Covers, Charge, At, K
    <3> QED BY <1>1, <3>2 DEF CapInv
  <2>4. CASE \E k \in Key : Start(p, k)
    BY <2>0, <2>4 DEF Start, At
  <2> QED BY <2>1, <2>2, <2>3, <2>4, JobStep
<1> QED BY <1>2, <1>3, <1>4 DEF CapInv

LEMMA CapInit == Init => CapInv
<1> SUFFICES ASSUME Init PROVE CapInv
  OBVIOUS
<1>1. \A k \in Key \ unpruned : entry[k] = Gone
  BY DEF Init
<1>2. None \notin Stem \cup Inter \cup {Meta}
  BY StoreAssumption
<1>3. \A k \in Key \ unpruned : ~(Size(entry[k]) > 0)
  BY <1>1, <1>2, ConstDirs, SizeIs DEF Gone, Has
<1>4. Noticed /\ Counted = {}
  BY <1>3 DEF Noticed, Counted, Listed
<1>5. OnList
  BY DEF Init, OnList, At, Idle
<1>6. Fits
  BY <1>4, FS_EmptySet DEF Fits
<1> QED BY <1>4, <1>5, <1>6 DEF CapInv

\* Once a prune has counted all entries, a cache nobody is working on fits its
\* cap or holds one entry, whatever was evicted, stored, touched, cleared or
\* lost in a crash while the prune ran.
THEOREM CapKept == Spec => []CapHolds
<1>1. Init => CapInv
  BY CapInit
<1>2. TypeOK /\ TypeOK' /\ CapInv /\ [Next]_vars => CapInv'
  <2> SUFFICES ASSUME TypeOK, TypeOK', CapInv, [Next]_vars PROVE CapInv'
    OBVIOUS
  <2>1. CASE UNCHANGED vars
    BY <2>1 DEF vars, disk, ghost, CapInv, Noticed, OnList, Fits, Covers, Charge, Counted, Listed, Files, Total, At, K
  <2> QED BY <2>1, CapStep
<1>3. TypeOK /\ CapInv => CapHolds
  <2> SUFFICES ASSUME TypeOK, CapInv, unpruned = {}, \A p \in Proc : At(p, "idle"),
                      NEW ks, ks = {k \in Listed : Size(entry[k]) > 0}
               PROVE  Total(ks) <= Cap \/ Cardinality(ks) = 1
    BY DEF CapHolds
  <2>1. ks = Counted
    BY DEF Counted
  <2>2. Fits
    BY DEF CapInv, Covers, At
  <2>3. Counted \in SUBSET Key /\ IsFiniteSet(Counted)
    BY CountedIs
  <2>4. Cardinality(Counted) \in Nat /\ (Cardinality(Counted) = 0 <=> Counted = {})
    BY <2>3, FS_CardinalityType, FS_EmptySet
  <2>5. Counted = {} => Total(Counted) = 0
    BY FS_EmptySet DEF Total, Files
  <2>6. Cap \in Nat
    BY StoreAssumption
  <2>7. CASE Cardinality(Counted) <= 1
    <3>1. Cardinality(Counted) = 0 \/ Cardinality(Counted) = 1
      BY <2>4, <2>7
    <3> QED BY <2>1, <2>4, <2>5, <2>6, <3>1
  <2> QED BY <2>1, <2>2, <2>7 DEF Fits
<1> QED BY <1>1, <1>2, <1>3, TypesHold, PTL DEF Spec

=============================================================================
