------------------------- MODULE IpodSession_proofs -------------------------
(***************************************************************************)
(* What holds of an iPod session for any iPod, any songs and any number of *)
(* sessions, operations, failing writes and pulled cables: its types, with *)
(* the dbids it gives out; that a playlist lists the songs asked for in    *)
(* it; that a row with a cover has the cover of its song; that no plays    *)
(* are invented; and that an import which returned Ok stays, as long as no *)
(* two rows have the same low half of a dbid.                              *)
(***************************************************************************)
EXTENDS IpodSession, SequenceTheorems, WellFoundedInduction, TLAPS

-----------------------------------------------------------------------------
(* The invariants. *)

InUse == s # None \/ op # None

\* Whatever a playlist of the session lists is a row of a song asked for in it.
Asked ==
    InUse => \A n \in Name : \A d \in s.lists[n] :
        \E i \in DOMAIN s.rows : s.rows[i].dbid = d /\ s.rows[i].song \in wanted[n]

\* The store of a session indexes pictures of its own, of the rows they are for.
StoreTrue ==
    InUse /\ s.store # None =>
        /\ \A d \in DOMAIN s.store.index :
             d \in Nat /\ d < s.next /\ s.store.index[d] \in DOMAIN s.store.pictures
        /\ \A i \in DOMAIN s.rows : s.rows[i].dbid \in DOMAIN s.store.index =>
             s.store.pictures[s.store.index[s.rows[i].dbid]] = s.rows[i].song

\* How much of the store is on the device at each place of the flush.
Pictured ==
    op # None /\ s.store # None /\ faults = 0 =>
        /\ op.at \in {"artdb", "db"} => s.store.pictures = <<>> \/ ithmb = s.store.pictures
        /\ op.at = "db" => artdb = s.store.index

CoversOfRows ==
    \A i \in DOMAIN Rows : Rows[i].art =>
        /\ Rows[i].dbid \in DOMAIN artdb
        /\ artdb[Rows[i].dbid] \in DOMAIN ithmb
        /\ ithmb[artdb[Rows[i].dbid]] = Rows[i].song

CoverInv ==
    /\ StoreTrue /\ Pictured
    /\ faults = 0 /\ (op = None \/ op.at = "stale") => CoversOfRows

\* The counts of rows, as they were read and as they were folded.
Counted ==
    /\ \A i \in DOMAIN Rows : Rows[i].plays <= played[Rows[i].file]
    /\ InUse => \A i \in DOMAIN s.rows :
         /\ s.rows[i].raw # None => s.rows[i].raw <= played[s.rows[i].file]
         /\ s.rows[i].raw = None => s.rows[i].plays = 0
         /\ faults <= 1 => s.rows[i].plays <= played[s.rows[i].file]

\* A Play Counts file added to the rows of the session would be true.
FitsSession ==
    \/ Len(s.rows) # Len(sidecar)
    \/ \A i \in DOMAIN s.rows : s.rows[i].raw # None /\ s.rows[i].raw + sidecar[i] <= played[s.rows[i].file]

FitsDb ==
    /\ Len(sidecar) = Len(Rows)
    /\ s # None => Len(s.rows) = Len(sidecar) /\ FitsSession

\* A second fault may leave a Play Counts file beside rows it does not count.
Foldable ==
    /\ faults = 0 \/ (faults = 1 /\ (op = None \/ op.at # "stale")) =>
         \A i \in DOMAIN Rows : Folded(Rows, i) <= played[Rows[i].file]
    /\ faults = 0 /\ sidecar # None =>
         /\ op = None => FitsDb
         /\ op # None /\ op.at # "stale" => FitsSession

PlaysInv == Counted /\ Foldable

\* No two rows of the session have the same low half of a dbid.
NoClash == s # None => \A i, j \in DOMAIN s.rows : SameId(Wrap, i, j) => i = j

InRows(f)    == \E i \in DOMAIN Rows : Rows[i].file = f
InSession(f) == \E i \in DOMAIN s.rows : s.rows[i].file = f

KeptInv ==
    /\ \A f \in done \ asked : f \in files /\ InRows(f) /\ (InUse => InSession(f))
    /\ op # None /\ op.kind = "import" =>
         /\ op.file \in files /\ InSession(op.file)
         /\ op.at = "stale" => InRows(op.file)
    /\ RowsHaveFiles
    /\ InUse => \A i \in DOMAIN s.rows : s.rows[i].file \in files \cup asked

-----------------------------------------------------------------------------
(* Least members, and the operators of the module that choose a row. *)

LEMMA LeastOf ==
    ASSUME NEW T \in SUBSET Nat, T # {}
    PROVE  \E x \in T : \A y \in T : x <= y
<1>1. PICK x \in T : \A y \in T : ~(<<y, x>> \in OpToRel(<, Nat))
      BY NatLessThanWellFounded, WFMin, Zenon
<1>2. ASSUME NEW y \in T PROVE x <= y
  <2>1. <<y, x>> \in Nat \X Nat
        OBVIOUS
  <2>2. ~(y < x)
        BY <1>1, <2>1 DEF OpToRel
  <2> QED BY <2>2
<1> QED BY <1>2

LEMMA Bounded ==
    ASSUME NEW n \in Nat, NEW v \in [1..n -> Nat]
    PROVE  \E b \in Nat : \A i \in 1..n : v[i] <= b
<1> DEFINE Bound(k) == \E b \in Nat : \A i \in 1..k : v[i] <= b
           T == {k \in 0..n : ~Bound(k)}
<1>1. Bound(0)
      BY 0 \in Nat, 1..0 = {}
<1>2. ASSUME NEW k \in 1..n, Bound(k - 1) PROVE Bound(k)
  <2>1. PICK b \in Nat : \A i \in 1..(k - 1) : v[i] <= b
        BY <1>2
  <2>2. v[k] \in Nat /\ b + v[k] \in Nat
        BY <2>1
  <2>3. \A i \in 1..k : v[i] <= b + v[k]
        BY <2>1, <2>2
  <2> QED BY <2>2, <2>3
<1> HIDE DEF Bound
<1>3. ASSUME T # {} PROVE FALSE
  <2>0. T \subseteq Nat
        OBVIOUS
  <2>1. PICK k \in T : \A y \in T : k <= y
        BY <2>0, <1>3, LeastOf
  <2>2. k \in 1..n /\ ~Bound(k)
        BY <2>1, <1>1
  <2>3. k - 1 \in 0..n /\ k - 1 \notin T
        BY <2>1, <2>2
  <2> QED BY <2>2, <2>3, <1>2
<1>4. Bound(n)
      BY <1>3
<1> QED BY <1>4 DEF Bound

\* next_dbid is above every dbid there is.
LEMMA NextIsAbove ==
    ASSUME NEW rows \in Seq(DbRow)
    PROVE  /\ NextDbid(rows) \in Nat \ {0}
           /\ \A i \in DOMAIN rows : rows[i].dbid < NextDbid(rows)
<1> DEFINE S == Ids(rows) \cup {0}
           U == {u \in Nat : \A x \in S : x <= u}
<1>0. DOMAIN rows = 1..Len(rows) /\ Len(rows) \in Nat /\ \A i \in DOMAIN rows : rows[i].dbid \in Nat
  <2>1. DOMAIN rows = 1..Len(rows) /\ Len(rows) \in Nat /\ \A i \in DOMAIN rows : rows[i] \in DbRow
        OBVIOUS
  <2> QED BY <2>1 DEF DbRow
<1>1. S \subseteq Nat /\ \A i \in DOMAIN rows : rows[i].dbid \in S
      BY <1>0 DEF Ids
<1>2. U # {}
  <2>1. PICK b \in Nat : \A i \in DOMAIN rows : rows[i].dbid <= b
    <3> DEFINE v == [i \in 1..Len(rows) |-> rows[i].dbid]
    <3>1. v \in [1..Len(rows) -> Nat]
          BY <1>0
    <3>2. PICK b \in Nat : \A i \in 1..Len(rows) : v[i] <= b
          BY <3>1, <1>0, Bounded
    <3> QED BY <3>2, <1>0
  <2>2. b \in U
        BY <2>1, <1>1 DEF Ids
  <2> QED BY <2>2
<1>3. PICK u \in U : \A y \in U : u <= y
      BY <1>2, LeastOf
<1>4. u \in S
  <2>1. SUFFICES ASSUME u \notin S PROVE FALSE
        OBVIOUS
  <2>2. u # 0 /\ u \in Nat
        BY <2>1
  <2>3. u - 1 \in U
        BY <2>1, <2>2, <1>1
  <2> QED BY <2>3, <2>2, <1>3
<1>5. Max(S) \in S /\ \A y \in S : Max(S) >= y
  <2>1. \E x \in S : \A y \in S : x >= y
        BY <1>4, <1>1
  <2> HIDE DEF S
  <2> QED BY <2>1 DEF Max
<1>6. NextDbid(rows) = Max(S) + 1
      BY DEF NextDbid
<1>7. Max(S) \in Nat
      BY <1>1, <1>5
<1> HIDE DEF S
<1>8. ASSUME NEW i \in DOMAIN rows PROVE rows[i].dbid < Max(S) + 1
  <2>1. rows[i].dbid \in Nat /\ Max(S) >= rows[i].dbid
        BY <1>0, <1>1, <1>5
  <2> QED BY <2>1, <1>7
<1> QED BY <1>6, <1>7, <1>8

LEMMA ResolveFirst ==
    ASSUME s.rows \in Seq(Row), NEW x, \E i \in DOMAIN s.rows : s.rows[i].song = x
    PROVE  Resolve(x) \in DOMAIN s.rows /\ s.rows[Resolve(x)].song = x
<1> DEFINE T == {i \in DOMAIN s.rows : s.rows[i].song = x}
<1>0. DOMAIN s.rows = 1..Len(s.rows) /\ Len(s.rows) \in Nat
      OBVIOUS
<1>1. PICK i \in T : \A k \in T : i <= k
  <2>1. T \subseteq Nat /\ T # {}
        BY <1>0
  <2> QED BY <2>1, LeastOf
<1>2. \A k \in 1..(i - 1) : s.rows[k].song # x
      BY <1>0, <1>1
<1>3. \E j \in DOMAIN s.rows : s.rows[j].song = x /\ \A k \in 1..(j - 1) : s.rows[k].song # x
      BY <1>1, <1>2
<1> QED BY <1>3 DEF Resolve

LEMMA FoundFirst ==
    ASSUME s.rows \in Seq(Row), NEW i \in DOMAIN s.rows
    PROVE  Found(i) \in DOMAIN s.rows /\ SameId(Wrap, i, Found(i))
<1> DEFINE T == {j \in DOMAIN s.rows : SameId(Wrap, i, j)}
<1>0. DOMAIN s.rows = 1..Len(s.rows) /\ Len(s.rows) \in Nat
      OBVIOUS
<1>1. PICK j \in T : \A k \in T : j <= k
  <2>1. i \in T
        BY DEF SameId
  <2>2. T \subseteq Nat
        BY <1>0
  <2> QED BY <2>1, <2>2, LeastOf
<1>2. \A k \in 1..(j - 1) : ~SameId(Wrap, i, k)
      BY <1>0, <1>1
<1>3. \E m \in DOMAIN s.rows : SameId(Wrap, i, m) /\ \A k \in 1..(m - 1) : ~SameId(Wrap, i, k)
      BY <1>1, <1>2
<1> QED BY <1>3 DEF Found

LEMMA PositionIs ==
    ASSUME NEW rows, NEW d \in Ids(rows)
    PROVE  Position(rows, d) \in DOMAIN rows /\ rows[Position(rows, d)].dbid = d
BY DEF Position, Ids

\* What a removal leaves of the rows, in their order.
LEMMA Removed ==
    ASSUME NEW S, NEW q \in Seq(S), NEW j \in DOMAIN q
    PROVE  /\ RemoveAt(q, j) \in Seq(S) /\ Len(RemoveAt(q, j)) = Len(q) - 1
           /\ \A i \in DOMAIN RemoveAt(q, j) :
                /\ i \in DOMAIN q /\ i + 1 \in DOMAIN q
                /\ RemoveAt(q, j)[i] = IF i < j THEN q[i] ELSE q[i + 1]
           /\ \A i \in DOMAIN q : i # j =>
                \E k \in DOMAIN RemoveAt(q, j) : RemoveAt(q, j)[k] = q[i]
<1> DEFINE r == RemoveAt(q, j)
           a == SubSeq(q, 1, j - 1)
           b == SubSeq(q, j + 1, Len(q))
<1>1. Len(q) \in Nat /\ DOMAIN q = 1..Len(q) /\ j \in 1..Len(q)
      OBVIOUS
<1>2. a \in Seq(S) /\ Len(a) = j - 1 /\ \A i \in 1..(j - 1) : a[i] = q[i]
      BY <1>1
<1>3. b \in Seq(S) /\ Len(b) = Len(q) - j /\ \A i \in 1..(Len(q) - j) : b[i] = q[j + i]
      BY <1>1
<1>4. r = a \o b
      BY DEF RemoveAt
<1> HIDE DEF a, b, r
<1>5. /\ r \in Seq(S) /\ Len(r) = Len(a) + Len(b)
      /\ \A i \in 1..(Len(a) + Len(b)) : r[i] = IF i <= Len(a) THEN a[i] ELSE b[i - Len(a)]
  <2>1. /\ a \o b \in Seq(S) /\ Len(a \o b) = Len(a) + Len(b)
        /\ \A i \in 1..(Len(a) + Len(b)) : (a \o b)[i] = IF i <= Len(a) THEN a[i] ELSE b[i - Len(a)]
        BY <1>2, <1>3, ConcatProperties
  <2> QED BY <2>1, <1>4
<1>6. Len(r) = Len(q) - 1 /\ DOMAIN r = 1..Len(r)
      BY <1>1, <1>2, <1>3, <1>5
<1>7. ASSUME NEW i \in DOMAIN r PROVE r[i] = IF i < j THEN q[i] ELSE q[i + 1]
  <2>1. i \in 1..(Len(a) + Len(b))
        BY <1>2, <1>3, <1>5, <1>6
  <2>2. CASE i < j
        BY <2>1, <2>2, <1>1, <1>2, <1>5
  <2>3. CASE ~(i < j)
    <3>1. i - Len(a) \in 1..(Len(q) - j) /\ j + (i - Len(a)) = i + 1 /\ ~(i <= Len(a))
          BY <2>1, <2>3, <1>1, <1>2, <1>3
    <3> QED BY <3>1, <2>1, <2>3, <1>3, <1>5
  <2> QED BY <2>2, <2>3
<1>8. ASSUME NEW i \in DOMAIN q, i # j PROVE \E k \in DOMAIN r : r[k] = q[i]
  <2>1. CASE i < j
        BY <2>1, <1>1, <1>6, <1>7
  <2>2. CASE ~(i < j)
    <3>1. i - 1 \in DOMAIN r /\ ~(i - 1 < j) /\ (i - 1) + 1 = i
          BY <2>2, <1>1, <1>6, <1>8
    <3> QED BY <3>1, <1>7
  <2> QED BY <2>1, <2>2
<1>9. \A i \in DOMAIN r : i \in DOMAIN q /\ i + 1 \in DOMAIN q
      BY <1>1, <1>6
<1>10. r = RemoveAt(q, j)
      BY DEF r
<1> QED BY <1>5, <1>6, <1>7, <1>8, <1>9, <1>10

-----------------------------------------------------------------------------
(* What a session is, and what each operation makes of it. *)

LEMMA SessionOf ==
    ASSUME TypeOK, InUse
    PROVE  /\ s = [rows |-> s.rows, lists |-> s.lists, next |-> s.next, store |-> s.store]
           /\ s.rows \in Seq(Row) /\ s.lists \in [Name -> SUBSET Nat] /\ s.next \in Nat \ {0}
           /\ DOMAIN s.rows = 1..Len(s.rows) /\ Len(s.rows) \in Nat
           /\ \A i \in DOMAIN s.rows : /\ s.rows[i] \in Row /\ s.rows[i].dbid \in Nat \ {0}
                                       /\ s.rows[i].file \in 1..made /\ s.rows[i].song \in Song
                                       /\ s.rows[i].raw \in Nat \cup {None} /\ s.rows[i].plays \in Nat
                                       /\ s.rows[i].dbid < s.next
           /\ Distinct(s.rows)
           /\ s.store # None => s.store.pictures \in Seq(Song)
<1>1. /\ s \in [rows : Seq(Row), lists : [Name -> SUBSET Nat], next : Nat \ {0}, store : {s.store}]
      /\ Distinct(s.rows)
      /\ \A i \in DOMAIN s.rows : s.rows[i].file \in 1..made /\ s.rows[i].dbid < s.next
      /\ s.store # None => s.store.pictures \in Seq(Song)
      BY DEF TypeOK, SessionOK, InUse
<1>2. /\ s = [rows |-> s.rows, lists |-> s.lists, next |-> s.next, store |-> s.store]
      /\ s.rows \in Seq(Row) /\ s.lists \in [Name -> SUBSET Nat] /\ s.next \in Nat \ {0}
      BY <1>1
<1>3. DOMAIN s.rows = 1..Len(s.rows) /\ Len(s.rows) \in Nat /\ \A i \in DOMAIN s.rows : s.rows[i] \in Row
      BY <1>2
<1>4. \A i \in DOMAIN s.rows : /\ s.rows[i].dbid \in Nat \ {0} /\ s.rows[i].song \in Song
                               /\ s.rows[i].raw \in Nat \cup {None} /\ s.rows[i].plays \in Nat
      BY <1>3 DEF Row
<1> QED BY <1>1, <1>2, <1>3, <1>4

LEMMA DatabaseOf ==
    ASSUME TypeOK, db # None
    PROVE  /\ db = [rows |-> db.rows, lists |-> db.lists]
           /\ db.rows \in Seq(DbRow) /\ db.lists \in [Name -> SUBSET Nat]
           /\ DOMAIN db.rows = 1..Len(db.rows) /\ Len(db.rows) \in Nat
           /\ \A i \in DOMAIN db.rows : /\ db.rows[i] \in DbRow /\ db.rows[i].dbid \in Nat \ {0}
                                        /\ db.rows[i].file \in 1..made /\ db.rows[i].song \in Song
                                        /\ db.rows[i].plays \in Nat /\ db.rows[i].art \in BOOLEAN
           /\ Distinct(db.rows) /\ \A n \in Name : db.lists[n] \subseteq DOMAIN db.rows
<1>1. /\ db \in Database /\ Distinct(db.rows) /\ \A n \in Name : db.lists[n] \subseteq DOMAIN db.rows
      /\ \A i \in DOMAIN db.rows : db.rows[i].file \in 1..made
      BY DEF TypeOK, DbOK
<1>2. /\ db = [rows |-> db.rows, lists |-> db.lists]
      /\ db.rows \in Seq(DbRow) /\ db.lists \in [Name -> SUBSET Nat]
      BY <1>1 DEF Database
<1>3. /\ DOMAIN db.rows = 1..Len(db.rows) /\ Len(db.rows) \in Nat
      /\ \A i \in DOMAIN db.rows : db.rows[i] \in DbRow
      BY <1>2
<1>4. \A i \in DOMAIN db.rows : /\ db.rows[i].dbid \in Nat \ {0} /\ db.rows[i].song \in Song
                                /\ db.rows[i].plays \in Nat /\ db.rows[i].art \in BOOLEAN
      BY <1>3 DEF DbRow
<1> QED BY <1>1, <1>2, <1>3, <1>4

\* The row of an import, of whose song the session has a picture or not.
NewRow(song) == [dbid |-> s.next, file |-> made + 1, song |-> song, raw |-> None, plays |-> 0]

LEMMA Imported ==
    ASSUME TypeOK, ImportTrack
    PROVE  /\ s # None /\ op = None /\ ops < MaxOps /\ ops' = ops + 1
           /\ made' = made + 1 /\ files' = files \cup {made + 1}
           /\ op' = [kind |-> "import", file |-> made + 1,
                     at |-> IF s'.store = None THEN "db" ELSE "ithmb"]
           /\ \E song \in Song :
                /\ s' = [rows |-> Append(s.rows, NewRow(song)), lists |-> s.lists, next |-> s.next + 1,
                         store |-> WithPicture(s.store, s.next, song)]
                /\ s'.rows \in Seq(Row) /\ Len(s'.rows) = Len(s.rows) + 1
                /\ \A i \in DOMAIN s.rows : s'.rows[i] = s.rows[i]
                /\ s'.rows[Len(s.rows) + 1] = NewRow(song)
<1>1. s # None /\ op = None /\ ops < MaxOps /\ ops' = ops + 1
      BY DEF ImportTrack, Ready
<1>2. PICK song \in Song :
        /\ made' = made + 1 /\ files' = files \cup {made + 1}
        /\ s' = [s EXCEPT !.rows = Append(@, NewRow(song)),
                          !.next = @ + 1,
                          !.store = WithPicture(@, s.next, song)]
        /\ op' = [kind |-> "import", file |-> made + 1, at |-> IF s'.store = None THEN "db" ELSE "ithmb"]
      BY DEF ImportTrack, FreshFile, Flush, NewRow
<1>3. /\ s = [rows |-> s.rows, lists |-> s.lists, next |-> s.next, store |-> s.store]
      /\ s.rows \in Seq(Row) /\ s.next \in Nat \ {0} /\ made \in Nat
      BY <1>1, SessionOf DEF InUse, TypeOK
<1>4. s' = [rows |-> Append(s.rows, NewRow(song)), lists |-> s.lists, next |-> s.next + 1,
            store |-> WithPicture(s.store, s.next, song)]
      BY <1>2, <1>3
<1>5. NewRow(song) \in Row
      BY <1>3 DEF NewRow, Row
<1>6. /\ s'.rows \in Seq(Row) /\ Len(s'.rows) = Len(s.rows) + 1
      /\ \A i \in 1..Len(s.rows) : s'.rows[i] = s.rows[i]
      /\ s'.rows[Len(s.rows) + 1] = NewRow(song)
      BY <1>3, <1>4, <1>5, AppendProperties
<1>7. \A i \in DOMAIN s.rows : s'.rows[i] = s.rows[i]
      BY <1>3, <1>6
<1> QED BY <1>1, <1>2, <1>4, <1>6, <1>7

LEMMA RemovedRow ==
    ASSUME TypeOK, RemoveTrack
    PROVE  /\ s # None /\ op = None /\ ops < MaxOps /\ ops' = ops + 1
           /\ \E i, j \in DOMAIN s.rows :
                /\ SameId(Wrap, i, j)
                /\ asked' = asked \cup {s.rows[i].file} /\ files' = files \ {s.rows[j].file}
                /\ op' = [kind |-> "remove", file |-> s.rows[j].file,
                          at |-> IF s.store = None THEN "db" ELSE "ithmb"]
                /\ s' = [rows |-> s'.rows, lists |-> [n \in Name |-> s.lists[n] \ {s.rows[j].dbid}],
                         next |-> s.next, store |-> s.store]
                /\ s'.rows \in Seq(Row) /\ Len(s'.rows) = Len(s.rows) - 1
                /\ \A k \in DOMAIN s'.rows :
                     /\ k \in DOMAIN s.rows /\ k + 1 \in DOMAIN s.rows
                     /\ s'.rows[k] = IF k < j THEN s.rows[k] ELSE s.rows[k + 1]
                /\ \A m \in DOMAIN s.rows : m # j => \E k \in DOMAIN s'.rows : s'.rows[k] = s.rows[m]
<1>1. s # None /\ op = None /\ ops < MaxOps /\ ops' = ops + 1
      BY DEF RemoveTrack, Ready
<1>2. PICK i \in DOMAIN s.rows :
        /\ asked' = asked \cup {s.rows[i].file} /\ files' = files \ {s.rows[Found(i)].file}
        /\ s' = Without(Found(i)) /\ Flush("remove", s.rows[Found(i)].file)
      BY DEF RemoveTrack
<1>3. /\ s = [rows |-> s.rows, lists |-> s.lists, next |-> s.next, store |-> s.store]
      /\ s.rows \in Seq(Row)
      BY <1>1, SessionOf DEF InUse
<1>4. PICK j \in DOMAIN s.rows : j = Found(i) /\ SameId(Wrap, i, j)
      BY <1>3, FoundFirst
<1>5. s' = [rows |-> RemoveAt(s.rows, j), lists |-> [n \in Name |-> s.lists[n] \ {s.rows[j].dbid}],
            next |-> s.next, store |-> s.store]
      BY <1>2, <1>3, <1>4 DEF Without
<1>6. s'.rows = RemoveAt(s.rows, j) /\ s'.store = s.store
      BY <1>5
<1>7. op' = [kind |-> "remove", file |-> s.rows[j].file, at |-> IF s.store = None THEN "db" ELSE "ithmb"]
      BY <1>2, <1>4, <1>6 DEF Flush
<1>8. /\ s'.rows \in Seq(Row) /\ Len(s'.rows) = Len(s.rows) - 1
      /\ \A k \in DOMAIN s'.rows :
           /\ k \in DOMAIN s.rows /\ k + 1 \in DOMAIN s.rows
           /\ s'.rows[k] = IF k < j THEN s.rows[k] ELSE s.rows[k + 1]
      /\ \A m \in DOMAIN s.rows : m # j => \E k \in DOMAIN s'.rows : s'.rows[k] = s.rows[m]
      BY <1>3, <1>6, Removed
<1>9. asked' = asked \cup {s.rows[i].file} /\ files' = files \ {s.rows[j].file}
      BY <1>2, <1>4
<1> QED BY <1>1, <1>4, <1>5, <1>6, <1>7, <1>8, <1>9

LEMMA ListImported ==
    ASSUME TypeOK, ImportPlaylist
    PROVE  /\ s # None /\ op = None /\ ops < MaxOps /\ ops' = ops + 1
           /\ op' = [kind |-> "list", file |-> 0, at |-> IF s.store = None THEN "db" ELSE "ithmb"]
           /\ s' = [rows |-> s.rows, lists |-> s'.lists, next |-> s.next, store |-> s.store]
           /\ s'.lists \in [Name -> SUBSET Nat]
           /\ \E n \in Name, S \in SUBSET Song :
                /\ wanted' = [wanted EXCEPT ![n] = @ \cup S]
                /\ \A m \in Name \ {n} : s'.lists[m] = s.lists[m]
                /\ \A d \in s'.lists[n] : \E i \in DOMAIN s.rows :
                     s.rows[i].dbid = d /\ s.rows[i].song \in S
<1>1. s # None /\ op = None /\ ops < MaxOps /\ ops' = ops + 1
      BY DEF ImportPlaylist, Ready
<1>2. PICK n \in Name, S \in SUBSET Song :
        /\ s' = [s EXCEPT !.lists[n] = {s.rows[Resolve(x)].dbid :
                     x \in {x \in S : \E i \in DOMAIN s.rows : s.rows[i].song = x}}]
        /\ wanted' = [wanted EXCEPT ![n] = @ \cup S]
      BY DEF ImportPlaylist
<1> DEFINE L == {s.rows[Resolve(x)].dbid : x \in {x \in S : \E i \in DOMAIN s.rows : s.rows[i].song = x}}
<1>3. /\ s = [rows |-> s.rows, lists |-> s.lists, next |-> s.next, store |-> s.store]
      /\ s.rows \in Seq(Row) /\ s.lists \in [Name -> SUBSET Nat]
      /\ \A i \in DOMAIN s.rows : s.rows[i].dbid \in Nat
      BY <1>1, SessionOf DEF InUse
<1>4. \A d \in L : \E i \in DOMAIN s.rows : s.rows[i].dbid = d /\ s.rows[i].song \in S
      BY <1>3, ResolveFirst
<1>5. L \subseteq Nat
      BY <1>3, <1>4
<1> HIDE DEF L
<1>6. s' = [rows |-> s.rows, lists |-> [s.lists EXCEPT ![n] = L], next |-> s.next, store |-> s.store]
      BY <1>2, <1>3 DEF L
<1>7. s'.lists = [s.lists EXCEPT ![n] = L] /\ s'.store = s.store
      BY <1>6
<1>8. s'.lists \in [Name -> SUBSET Nat] /\ s'.lists[n] = L /\ \A m \in Name \ {n} : s'.lists[m] = s.lists[m]
      BY <1>3, <1>5, <1>7
<1>9. op' = [kind |-> "list", file |-> 0, at |-> IF s.store = None THEN "db" ELSE "ithmb"]
      BY <1>7 DEF ImportPlaylist, Flush
<1>10. s' = [rows |-> s.rows, lists |-> s'.lists, next |-> s.next, store |-> s.store]
      BY <1>6, <1>7
<1> QED BY <1>1, <1>2, <1>4, <1>8, <1>9, <1>10

LEMMA Saved ==
    ASSUME SaveProgress
    PROVE  /\ s # None /\ op = None /\ ops < MaxOps /\ ops' = ops + 1 /\ s' = s
           /\ op' = [kind |-> "save", file |-> 0, at |-> IF s.store = None THEN "db" ELSE "ithmb"]
BY DEF SaveProgress, Ready, Flush

LEMMA ParsedFields ==
    ASSUME NEW r, NEW folded
    PROVE  /\ ParsedRow(r, folded).dbid = r.dbid /\ ParsedRow(r, folded).file = r.file
           /\ ParsedRow(r, folded).song = r.song /\ ParsedRow(r, folded).raw = r.plays
           /\ ParsedRow(r, folded).plays = folded
BY DEF ParsedRow

LEMMA WrittenFields ==
    ASSUME NEW r
    PROVE  /\ WrittenRow(r).dbid = r.dbid /\ WrittenRow(r).file = r.file /\ WrittenRow(r).song = r.song
           /\ WrittenRow(r).art = Flag(r) /\ WrittenRow(r).plays = IF r.raw # None THEN r.raw ELSE r.plays
BY DEF WrittenRow

LEMMA Opened ==
    ASSUME TypeOK, Open
    PROVE  /\ s = None /\ op = None
           /\ s' = [rows |-> s'.rows, lists |-> s'.lists, next |-> s'.next, store |-> None]
           /\ s'.next = NextDbid(Rows) /\ s'.next \in Nat \ {0}
           /\ s'.rows \in Seq(Row) /\ DOMAIN s'.rows = DOMAIN Rows
           /\ \A i \in DOMAIN Rows : s'.rows[i] = ParsedRow(Rows[i], Folded(Rows, i))
           /\ s'.lists \in [Name -> SUBSET Nat]
           /\ \A n \in Name : \A d \in s'.lists[n] : db # None /\ \E k \in db.lists[n] : db.rows[k].dbid = d
<1>1. s = None /\ op = None
      BY DEF Open, Unplugged
<1>2. Rows \in Seq(DbRow) /\ DOMAIN Rows = 1..Len(Rows) /\ Len(Rows) \in Nat
      BY DatabaseOf DEF Rows
<1>3. s' = [rows  |-> [i \in DOMAIN Rows |-> ParsedRow(Rows[i], Folded(Rows, i))],
            lists |-> IF db = None THEN NoLists ELSE [n \in Name |-> ParsedList(db.lists[n])],
            next  |-> NextDbid(Rows),
            store |-> None]
      BY DEF Open, Rows
<1>4. ASSUME NEW i \in DOMAIN Rows PROVE ParsedRow(Rows[i], Folded(Rows, i)) \in Row
  <2>1. db # None /\ Rows = db.rows
        BY DEF Rows
  <2>2. /\ Rows[i].dbid \in Nat \ {0} /\ Rows[i].file \in 1..made
        /\ Rows[i].song \in Song /\ Rows[i].plays \in Nat
        BY <2>1, DatabaseOf
  <2>3. Folded(Rows, i) \in Nat
    <3>1. sidecar # None => sidecar \in Seq(Nat)
          BY DEF TypeOK
    <3>2. sidecar # None /\ Len(sidecar) = Len(Rows) => sidecar[i] \in Nat
          BY <3>1, <1>2
    <3> QED BY <3>2, <2>2 DEF Folded
  <2>4. Rows[i].file \in Nat
        BY <2>2 DEF TypeOK
  <2> QED BY <2>2, <2>3, <2>4 DEF ParsedRow, Row
<1>5. s'.rows = [i \in 1..Len(Rows) |-> ParsedRow(Rows[i], Folded(Rows, i))]
      BY <1>2, <1>3
<1>6. s'.rows \in Seq(Row) /\ DOMAIN s'.rows = DOMAIN Rows
      BY <1>2, <1>4, <1>5
<1>7. \A n \in Name : s'.lists[n] = IF db = None THEN {} ELSE {db.rows[k].dbid : k \in db.lists[n]}
      BY <1>3 DEF NoLists, ParsedList
<1>8. \A n \in Name : \A d \in s'.lists[n] :
        db # None /\ \E k \in db.lists[n] : db.rows[k].dbid = d
  <2>1. ASSUME NEW n \in Name, NEW d \in s'.lists[n]
        PROVE  db # None /\ \E k \in db.lists[n] : db.rows[k].dbid = d
    <3>1. db # None /\ s'.lists[n] = {db.rows[k].dbid : k \in db.lists[n]}
          BY <1>7, <2>1
    <3> QED BY <3>1, <2>1
  <2> QED BY <2>1
<1>9. s'.lists \in [Name -> SUBSET Nat]
  <2>1. \A n \in Name : s'.lists[n] \subseteq Nat
        BY <1>8, DatabaseOf
  <2>2. s'.lists = IF db = None THEN NoLists ELSE [n \in Name |-> ParsedList(db.lists[n])]
        BY <1>3
  <2> QED BY <2>1, <2>2 DEF NoLists
<1>10. s'.next \in Nat \ {0}
      BY <1>2, <1>3, NextIsAbove
<1> QED BY <1>1, <1>3, <1>5, <1>6, <1>8, <1>9, <1>10

LEMMA Written ==
    ASSUME TypeOK, op # None
    PROVE  /\ Serialized \in Database
           /\ DOMAIN Serialized.rows = DOMAIN s.rows
           /\ \A i \in DOMAIN s.rows : Serialized.rows[i] = WrittenRow(s.rows[i])
           /\ \A n \in Name : \A k \in Serialized.lists[n] :
                k \in DOMAIN s.rows /\ s.rows[k].dbid \in s.lists[n]
<1>1. /\ s.rows \in Seq(Row) /\ DOMAIN s.rows = 1..Len(s.rows) /\ Len(s.rows) \in Nat
      /\ \A i \in DOMAIN s.rows : /\ s.rows[i].dbid \in Nat \ {0} /\ s.rows[i].file \in 1..made
                                  /\ s.rows[i].song \in Song /\ s.rows[i].raw \in Nat \cup {None}
                                  /\ s.rows[i].plays \in Nat
      BY SessionOf DEF InUse
<1>2. ASSUME NEW i \in DOMAIN s.rows PROVE WrittenRow(s.rows[i]) \in DbRow
  <2>1. s.rows[i].file \in Nat
        BY <1>1 DEF TypeOK
  <2>2. Flag(s.rows[i]) \in BOOLEAN
        BY DEF Flag, HasArt
  <2> QED BY <1>1, <2>1, <2>2 DEF WrittenRow, DbRow
<1>3. ASSUME NEW n \in Name, NEW k \in WrittenList(s.lists[n])
      PROVE  k \in DOMAIN s.rows /\ s.rows[k].dbid \in s.lists[n]
      BY PositionIs DEF WrittenList, TrackId
<1> DEFINE R == [i \in 1..Len(s.rows) |-> WrittenRow(s.rows[i])]
           L == [n \in Name |-> WrittenList(s.lists[n])]
<1>4. R \in Seq(DbRow)
      BY <1>1, <1>2
<1>5. L \in [Name -> SUBSET Nat]
      BY <1>1, <1>3
<1>6. Serialized = [rows |-> R, lists |-> L]
      BY <1>1 DEF Serialized
<1>7. /\ DOMAIN R = DOMAIN s.rows /\ \A i \in DOMAIN s.rows : R[i] = WrittenRow(s.rows[i])
      /\ \A n \in Name : L[n] = WrittenList(s.lists[n])
      BY <1>1
<1> HIDE DEF R, L
<1> QED BY <1>3, <1>4, <1>5, <1>6, <1>7 DEF Database

-----------------------------------------------------------------------------
(* Types. *)

LEMMA DbStep ==
    ASSUME TypeOK, [Next]_vars PROVE DbOK'
<1>1. made \in Nat /\ (made' = made \/ made' = made + 1)
      BY DEF TypeOK, Next, Operation, FlushStep, vars, device, ghosts, bounds, FirmwarePlays, Open, Close,
             CablePulled, ImportTrack, FreshFile, RemoveTrack, ImportPlaylist, SaveProgress, WriteIthmb,
             WriteArtDb, WriteDb, DropSidecar
<1>2. db' = db \/ (op # None /\ db' = Serialized)
      BY DEF Next, Operation, FlushStep, vars, device, FirmwarePlays, Open, Close,
             CablePulled, ImportTrack, RemoveTrack, ImportPlaylist, SaveProgress, WriteIthmb,
             WriteArtDb, WriteDb, At, DropSidecar
<1>3. CASE db' = db
      BY <1>1, <1>3 DEF TypeOK, DbOK, Distinct
<1>4. CASE op # None /\ db' = Serialized
  <2>1. /\ db' \in Database /\ DOMAIN db'.rows = DOMAIN s.rows
        /\ \A i \in DOMAIN s.rows : db'.rows[i] = WrittenRow(s.rows[i])
        /\ \A n \in Name : db'.lists[n] \subseteq DOMAIN s.rows
        BY <1>4, Written
  <2>2. Distinct(s.rows) /\ \A i \in DOMAIN s.rows : s.rows[i].file \in 1..made
        BY <1>4, SessionOf DEF InUse
  <2>3. Distinct(db'.rows) /\ \A i \in DOMAIN s.rows : db'.rows[i].file \in 1..made
    <3>1. \A i \in DOMAIN s.rows : /\ db'.rows[i].dbid = s.rows[i].dbid
                                   /\ db'.rows[i].file = s.rows[i].file
          BY <2>1, WrittenFields
    <3> QED BY <3>1, <2>1, <2>2 DEF Distinct
  <2>4. \A i \in DOMAIN s.rows : db'.rows[i].file \in 1..made'
        BY <1>1, <2>3
  <2> QED BY <2>1, <2>3, <2>4 DEF DbOK
<1> QED BY <1>2, <1>3, <1>4

\* The steps of a session that leave it as it is, or leave no session.
LEMMA SessionStays ==
    ASSUME TypeOK, made' = made,
           (s' = s /\ (s # None \/ op # None)) \/ (s' = None /\ op' = None) \/ (s' = s /\ op' = op)
    PROVE  SessionOK'
BY DEF TypeOK, SessionOK, Distinct

LEMMA PicturesOf ==
    ASSUME NEW st, NEW d, NEW song \in Song, st # None => st.pictures \in Seq(Song)
    PROVE  WithPicture(st, d, song) # None => WithPicture(st, d, song).pictures \in Seq(Song)
<1> DEFINE base == IF st = None THEN [pictures |-> <<>>, index |-> NoArt] ELSE st
           index == [x \in {d} \cup DOMAIN base.index |->
                       IF x = d THEN Len(base.pictures) + 1 ELSE base.index[x]]
           with == [pictures |-> Append(base.pictures, song), index |-> index]
<1>1. base.pictures \in Seq(Song)
      OBVIOUS
<1>2. WithPicture(st, d, song) \in {st, base, with}
      BY DEF WithPicture
<1> HIDE DEF index
<1>3. with.pictures = Append(base.pictures, song)
      OBVIOUS
<1> HIDE DEF base, with
<1>4. with.pictures \in Seq(Song)
      BY <1>1, <1>3, AppendProperties
<1> QED BY <1>1, <1>2, <1>4

LEMMA SessionStep ==
    ASSUME TypeOK, [Next]_vars PROVE SessionOK'
<1>0. made \in Nat
      BY DEF TypeOK
<1>1. CASE Open
  <2>1. /\ s' \in [rows : Seq(Row), lists : [Name -> SUBSET Nat], next : Nat \ {0}, store : {s'.store}]
        /\ s'.store = None
        BY <1>1, Opened
  <2>2. \A i \in DOMAIN Rows : s'.rows[i].dbid = Rows[i].dbid /\ s'.rows[i].file = Rows[i].file
        BY <1>1, Opened, ParsedFields
  <2>3. Distinct(Rows) /\ \A i \in DOMAIN Rows : Rows[i].file \in 1..made
        BY DatabaseOf DEF Rows, Distinct
  <2>4. \A i \in DOMAIN Rows : Rows[i].dbid < NextDbid(Rows)
    <3>1. Rows \in Seq(DbRow)
          BY DatabaseOf DEF Rows
    <3> QED BY <3>1, NextIsAbove
  <2>5. DOMAIN s'.rows = DOMAIN Rows /\ s'.next = NextDbid(Rows) /\ made' = made
        BY <1>1, Opened DEF Open
  <2> QED BY <2>1, <2>2, <2>3, <2>4, <2>5 DEF SessionOK, Distinct
<1>2. CASE ImportTrack
  <2>1. PICK song \in Song :
          /\ s' = [rows |-> Append(s.rows, NewRow(song)), lists |-> s.lists, next |-> s.next + 1,
                   store |-> WithPicture(s.store, s.next, song)]
          /\ s'.rows \in Seq(Row) /\ Len(s'.rows) = Len(s.rows) + 1
          /\ \A i \in DOMAIN s.rows : s'.rows[i] = s.rows[i]
          /\ s'.rows[Len(s.rows) + 1] = NewRow(song)
        BY <1>2, Imported
  <2>2. s # None /\ made' = made + 1
        BY <1>2, Imported
  <2>3. /\ s.lists \in [Name -> SUBSET Nat] /\ s.next \in Nat \ {0}
        /\ DOMAIN s.rows = 1..Len(s.rows) /\ Len(s.rows) \in Nat
        /\ \A i \in DOMAIN s.rows : /\ s.rows[i].dbid \in Nat \ {0} /\ s.rows[i].dbid < s.next
                                    /\ s.rows[i].file \in 1..made
        /\ Distinct(s.rows)
        /\ s.store # None => s.store.pictures \in Seq(Song)
        BY <2>2, SessionOf DEF InUse
  <2>4. /\ DOMAIN s'.rows = 1..(Len(s.rows) + 1)
        /\ s'.next = s.next + 1 /\ s'.store = WithPicture(s.store, s.next, song) /\ s'.lists = s.lists
        BY <2>1
  <2>5. ASSUME NEW i \in DOMAIN s'.rows PROVE s'.rows[i].file \in 1..made' /\ s'.rows[i].dbid < s'.next
    <3>1. CASE i \in DOMAIN s.rows
          BY <3>1, <2>1, <2>2, <2>3, <2>4, <1>0
    <3>2. CASE i = Len(s.rows) + 1
          BY <3>2, <2>1, <2>2, <2>3, <2>4, <1>0 DEF NewRow
    <3> QED BY <3>1, <3>2, <2>3, <2>4
  <2>6. Distinct(s'.rows)
    <3>1. ASSUME NEW i \in DOMAIN s.rows PROVE s'.rows[i].dbid # s'.rows[Len(s.rows) + 1].dbid
          BY <2>1, <2>3 DEF NewRow
    <3> QED BY <3>1, <2>1, <2>3, <2>4 DEF Distinct
  <2>7. s'.store # None => s'.store.pictures \in Seq(Song)
        BY <2>3, <2>4, PicturesOf
  <2>8. s' \in [rows : Seq(Row), lists : [Name -> SUBSET Nat], next : Nat \ {0}, store : {s'.store}]
    <3>1. s' = [rows |-> s'.rows, lists |-> s'.lists, next |-> s'.next, store |-> s'.store]
          BY <2>1
    <3>2. s'.rows \in Seq(Row) /\ s'.lists \in [Name -> SUBSET Nat] /\ s'.next \in Nat \ {0}
          BY <2>1, <2>3, <2>4
    <3> QED BY <3>1, <3>2
  <2> QED BY <2>5, <2>6, <2>7, <2>8 DEF SessionOK
<1>3. CASE RemoveTrack
  <2>1. PICK j \in DOMAIN s.rows :
          /\ s' = [rows |-> s'.rows, lists |-> [n \in Name |-> s.lists[n] \ {s.rows[j].dbid}],
                   next |-> s.next, store |-> s.store]
          /\ s'.rows \in Seq(Row)
          /\ \A k \in DOMAIN s'.rows :
               /\ k \in DOMAIN s.rows /\ k + 1 \in DOMAIN s.rows
               /\ s'.rows[k] = IF k < j THEN s.rows[k] ELSE s.rows[k + 1]
        BY <1>3, RemovedRow
  <2>2. s # None /\ made' = made
        BY <1>3, RemovedRow DEF RemoveTrack
  <2>3. /\ s.lists \in [Name -> SUBSET Nat] /\ s.next \in Nat \ {0}
        /\ DOMAIN s.rows = 1..Len(s.rows) /\ Len(s.rows) \in Nat
        /\ \A i \in DOMAIN s.rows : s.rows[i].dbid < s.next /\ s.rows[i].file \in 1..made
        /\ Distinct(s.rows)
        /\ s.store # None => s.store.pictures \in Seq(Song)
        BY <2>2, SessionOf DEF InUse
  <2>4. /\ s'.lists = [n \in Name |-> s.lists[n] \ {s.rows[j].dbid}]
        /\ s'.next = s.next /\ s'.store = s.store
        BY <2>1
  <2>5. \A k \in DOMAIN s'.rows : s'.rows[k].file \in 1..made' /\ s'.rows[k].dbid < s'.next
        BY <2>1, <2>2, <2>3, <2>4
  <2>6. Distinct(s'.rows)
    <3>1. ASSUME NEW k \in DOMAIN s'.rows, NEW m \in DOMAIN s'.rows, s'.rows[k].dbid = s'.rows[m].dbid
          PROVE  k = m
      <4> DEFINE From(x) == IF x < j THEN x ELSE x + 1
      <4>1. /\ From(k) \in DOMAIN s.rows /\ From(m) \in DOMAIN s.rows
            /\ s'.rows[k] = s.rows[From(k)] /\ s'.rows[m] = s.rows[From(m)]
            BY <2>1
      <4>2. From(k) = From(m)
        <5> HIDE DEF From
        <5>1. s.rows[From(k)].dbid = s.rows[From(m)].dbid
              BY <4>1, <3>1
        <5> QED BY <5>1, <4>1, <2>3 DEF Distinct
      <4>3. k \in Nat /\ m \in Nat /\ j \in Nat
            BY <2>1, <2>3
      <4> QED BY <4>2, <4>3
    <3> QED BY <3>1 DEF Distinct
  <2>7. s' \in [rows : Seq(Row), lists : [Name -> SUBSET Nat], next : Nat \ {0}, store : {s'.store}]
    <3>1. s' = [rows |-> s'.rows, lists |-> s'.lists, next |-> s'.next, store |-> s'.store]
          BY <2>1
    <3>2. s'.lists \in [Name -> SUBSET Nat]
          BY <2>3, <2>4
    <3> QED BY <3>1, <3>2, <2>1, <2>3, <2>4
  <2> QED BY <2>3, <2>4, <2>5, <2>6, <2>7 DEF SessionOK
<1>4. CASE ImportPlaylist
  <2>1. /\ s' = [rows |-> s.rows, lists |-> s'.lists, next |-> s.next, store |-> s.store]
        /\ s'.lists \in [Name -> SUBSET Nat] /\ s # None /\ made' = made
        BY <1>4, ListImported DEF ImportPlaylist
  <2>2. s'.rows = s.rows /\ s'.next = s.next /\ s'.store = s.store
        BY <2>1
  <2>3. /\ s.rows \in Seq(Row) /\ s.next \in Nat \ {0} /\ Distinct(s.rows)
        /\ \A i \in DOMAIN s.rows : s.rows[i].dbid < s.next /\ s.rows[i].file \in 1..made
        /\ s.store # None => s.store.pictures \in Seq(Song)
        BY <2>1, SessionOf DEF InUse
  <2>4. s' \in [rows : Seq(Row), lists : [Name -> SUBSET Nat], next : Nat \ {0}, store : {s'.store}]
        BY <2>1, <2>2, <2>3
  <2> QED BY <2>1, <2>2, <2>3, <2>4 DEF SessionOK
<1>5. CASE SaveProgress
      BY <1>5, Saved, SessionStays DEF SaveProgress
<1>6. CASE FirmwarePlays
      BY <1>6, SessionStays DEF FirmwarePlays
<1>7. CASE Close
      BY <1>7, SessionStays DEF Close
<1>8. CASE CablePulled
      BY <1>8, SessionStays DEF CablePulled
<1>9. CASE WriteIthmb
      BY <1>9, SessionStays DEF WriteIthmb, At
<1>10. CASE WriteArtDb
      BY <1>10, SessionStays DEF WriteArtDb, At
<1>11. CASE WriteDb
      BY <1>11, SessionStays DEF WriteDb, At
<1>12. CASE DropSidecar
      BY <1>12, SessionStays DEF DropSidecar, At
<1>13. CASE UNCHANGED vars
      BY <1>13, SessionStays DEF vars
<1> QED BY <1>1, <1>2, <1>3, <1>4, <1>5, <1>6, <1>7, <1>8, <1>9, <1>10, <1>11, <1>12, <1>13
       DEF Next, Operation, FlushStep

\* Len(Dbid) is a number; the numbers of the files are.
LEMMA Bounds ==
    TypeOK => /\ Len(Dbid) \in Nat /\ MaxOps \in Nat /\ MaxFile \in Nat
              /\ \A f \in 1..made : f \in 1..MaxFile
<1>1. Len(Dbid) \in Nat /\ MaxOps \in Nat
      BY IpodAssumption
<1> QED BY <1>1 DEF TypeOK, MaxFile

\* A write goes on to the next, or fails and ends the operation.
LEMMA FlushMoves ==
    ASSUME TypeOK, WriteIthmb \/ WriteArtDb \/ WriteDb
    PROVE  /\ op # None /\ faults' \in Nat
           /\ \/ op' = None /\ faults' = faults + 1
              \/ /\ op' \in Op /\ op'.file \in 0..made
                 /\ op'.kind = op.kind /\ op'.file = op.file /\ faults' = faults
                 /\ \/ WriteIthmb /\ op.at = "ithmb" /\ op'.at = "artdb"
                    \/ WriteArtDb /\ op.at = "artdb" /\ op'.at = "db"
                    \/ WriteDb /\ op.at = "db" /\ op'.at = "stale"
<1>1. op # None /\ faults \in Nat
      BY DEF TypeOK, WriteIthmb, WriteArtDb, WriteDb, At
<1>2. op \in Op /\ op.file \in 0..made
      BY <1>1 DEF TypeOK
<1>3. CASE op' = None /\ faults' = faults + 1
      BY <1>1, <1>3
<1>4. CASE WriteIthmb /\ Go("artdb") /\ faults' = faults /\ op.at = "ithmb"
      BY <1>1, <1>2, <1>4 DEF Go, Op
<1>5. CASE WriteArtDb /\ Go("db") /\ faults' = faults /\ op.at = "artdb"
      BY <1>1, <1>2, <1>5 DEF Go, Op
<1>6. CASE WriteDb /\ Go("stale") /\ faults' = faults /\ op.at = "db"
      BY <1>1, <1>2, <1>6 DEF Go, Op
<1> QED BY <1>3, <1>4, <1>5, <1>6 DEF WriteIthmb, WriteArtDb, WriteDb, At, Fails

LEMMA TypeStep ==
    ASSUME TypeOK, [Next]_vars PROVE TypeOK'
<1>0. /\ made \in Nat /\ made <= Len(Dbid) + ops /\ ops \in 0..MaxOps
      /\ files \subseteq 1..made /\ asked \subseteq 1..made /\ done \subseteq 1..made
      /\ sidecar = None \/ sidecar \in Seq(Nat)
      /\ op # None =>
           /\ op \in Op /\ op.file \in 0..made
           /\ op.kind = "import" => op.file # 0
      /\ played \in [1..MaxFile -> Nat] /\ wanted \in [Name -> SUBSET Song]
      /\ faults \in Nat /\ plays \in Nat /\ opens \in Nat
      /\ Len(Dbid) \in Nat /\ MaxOps \in Nat /\ MaxFile \in Nat
      /\ \A f \in 1..made : f \in 1..MaxFile
      BY Bounds DEF TypeOK
<1>1. DbOK' /\ SessionOK'
      BY DbStep, SessionStep
<1>2. CASE FirmwarePlays
  <2>1. PICK i \in DOMAIN db.rows :
          /\ played' = [played EXCEPT ![db.rows[i].file] = @ + 1]
          /\ LET old == IF sidecar # None /\ Len(sidecar) = Len(db.rows) THEN sidecar
                        ELSE [j \in DOMAIN db.rows |-> 0]
             IN sidecar' = [old EXCEPT ![i] = @ + 1]
        BY <1>2 DEF FirmwarePlays
  <2>2. /\ DOMAIN db.rows = 1..Len(db.rows) /\ Len(db.rows) \in Nat
        /\ db.rows[i].file \in 1..MaxFile
        BY <1>2, <1>0, DatabaseOf DEF FirmwarePlays
  <2>3. sidecar' \in Seq(Nat)
    <3> DEFINE old == IF sidecar # None /\ Len(sidecar) = Len(db.rows) THEN sidecar
                      ELSE [j \in 1..Len(db.rows) |-> 0]
    <3>1. old \in Seq(Nat) /\ Len(old) = Len(db.rows) /\ sidecar' = [old EXCEPT ![i] = @ + 1]
          BY <2>1, <2>2, <1>0
    <3> HIDE DEF old
    <3>2. i \in 1..Len(old) /\ old[i] + 1 \in Nat
          BY <3>1, <2>2
    <3> QED BY <3>1, <3>2, ExceptSeq
  <2>4. played' \in [1..MaxFile -> Nat]
    <3>1. played[db.rows[i].file] + 1 \in Nat
          BY <2>2, <1>0
    <3> QED BY <3>1, <2>1, <2>2, <1>0
  <2>5. /\ UNCHANGED <<files, op, made, asked, done, wanted, ops, opens, faults>>
        /\ plays' \in Nat
        BY <1>0, <1>2 DEF FirmwarePlays, ghosts
  <2> QED BY <1>0, <1>1, <2>3, <2>4, <2>5 DEF TypeOK
<1>3. CASE Open
      BY <1>0, <1>1, <1>3 DEF Open, TypeOK, device, ghosts, Unplugged
<1>4. CASE Close
      BY <1>0, <1>1, <1>4 DEF Close, TypeOK, device, ghosts, bounds
<1>5. CASE CablePulled
      BY <1>0, <1>1, <1>5 DEF CablePulled, TypeOK, device, ghosts, bounds
<1>6. CASE ImportTrack
  <2>1. /\ made' = made + 1 /\ files' = files \cup {made + 1} /\ ops < MaxOps /\ ops' = ops + 1
        /\ op' = [kind |-> "import", file |-> made + 1, at |-> IF s'.store = None THEN "db" ELSE "ithmb"]
        BY <1>6, Imported
  <2>2. /\ made' \in Nat /\ made' <= Len(Dbid) + ops' /\ ops' \in 0..MaxOps
        /\ 1..made \subseteq 1..made' /\ made + 1 \in 1..made'
        BY <1>0, <2>1
  <2>3. /\ op' \in Op /\ op'.file \in 0..made'
        /\ op'.kind = "import" => op'.file # 0
        BY <1>0, <2>1, <2>2 DEF Op
  <2> QED BY <1>0, <1>1, <1>6, <2>1, <2>2, <2>3 DEF ImportTrack, TypeOK, ghosts
<1>7. CASE RemoveTrack
  <2>1. PICK i \in DOMAIN s.rows, j \in DOMAIN s.rows :
          /\ asked' = asked \cup {s.rows[i].file} /\ files' = files \ {s.rows[j].file}
          /\ op' = [kind |-> "remove", file |-> s.rows[j].file,
                    at |-> IF s.store = None THEN "db" ELSE "ithmb"]
        BY <1>7, RemovedRow
  <2>2. ops' \in 0..MaxOps /\ ops < ops'
        BY <1>0, <1>7, RemovedRow
  <2>3. s.rows[i].file \in 1..made /\ s.rows[j].file \in 1..made
        BY <1>7, RemovedRow, SessionOf DEF InUse
  <2>4. /\ op' \in Op /\ op'.file \in 0..made
        /\ op'.kind # "import"
        BY <1>0, <2>1, <2>3 DEF Op
  <2>5. made <= Len(Dbid) + ops'
        BY <1>0, <2>2
  <2> QED BY <1>0, <1>1, <1>7, <2>1, <2>2, <2>3, <2>4, <2>5 DEF RemoveTrack, TypeOK
<1>8. CASE ImportPlaylist
  <2>1. /\ ops' \in 0..MaxOps /\ made <= Len(Dbid) + ops'
        /\ op' \in Op /\ op'.file \in 0..made
        /\ op'.kind # "import"
    <3>1. ops < MaxOps /\ ops' = ops + 1
          BY <1>8, ListImported
    <3>2. op' = [kind |-> "list", file |-> 0, at |-> IF s.store = None THEN "db" ELSE "ithmb"]
          BY <1>8, ListImported
    <3> QED BY <3>1, <3>2, <1>0 DEF Op
  <2>2. wanted' \in [Name -> SUBSET Song]
        BY <1>0, <1>8, ListImported
  <2> QED BY <1>0, <1>1, <1>8, <2>1, <2>2 DEF ImportPlaylist, TypeOK, device
<1>9. CASE SaveProgress
  <2>1. /\ ops' \in 0..MaxOps /\ made <= Len(Dbid) + ops'
        /\ op' \in Op /\ op'.file \in 0..made
        /\ op'.kind # "import"
    <3>1. ops < MaxOps /\ ops' = ops + 1
          BY <1>9, Saved
    <3>2. op' = [kind |-> "save", file |-> 0, at |-> IF s.store = None THEN "db" ELSE "ithmb"]
          BY <1>9, Saved
    <3> QED BY <3>1, <3>2, <1>0 DEF Op
  <2> QED BY <1>0, <1>1, <1>9, <2>1 DEF SaveProgress, TypeOK, device, ghosts
<1>10. CASE WriteIthmb
  <2>1. UNCHANGED <<files, sidecar, made, asked, done, wanted, played, ops, plays, opens>>
        BY <1>10 DEF WriteIthmb, ghosts, bounds
  <2> QED BY <1>0, <1>1, <1>10, <2>1, FlushMoves DEF TypeOK
<1>11. CASE WriteArtDb
  <2>1. UNCHANGED <<files, sidecar, made, asked, done, wanted, played, ops, plays, opens>>
        BY <1>11 DEF WriteArtDb, ghosts, bounds
  <2> QED BY <1>0, <1>1, <1>11, <2>1, FlushMoves DEF TypeOK
<1>12. CASE WriteDb
  <2>1. UNCHANGED <<files, sidecar, made, asked, done, wanted, played, ops, plays, opens>>
        BY <1>12 DEF WriteDb, ghosts, bounds
  <2> QED BY <1>0, <1>1, <1>12, <2>1, FlushMoves DEF TypeOK
<1>13. CASE DropSidecar
  <2>1. op.kind = "import" => op.file \in 1..made
        BY <1>0, <1>13 DEF DropSidecar, At
  <2> QED BY <1>0, <1>1, <1>13, <2>1 DEF DropSidecar, At, Stale, TypeOK, bounds
<1>14. CASE UNCHANGED vars
      BY <1>0, <1>1, <1>14 DEF vars, device, ghosts, bounds, TypeOK
<1> QED BY <1>2, <1>3, <1>4, <1>5, <1>6, <1>7, <1>8, <1>9, <1>10, <1>11, <1>12, <1>13, <1>14
       DEF Next, Operation, FlushStep

\* What iTunes has put on the iPod.
LEMMA FirstDb ==
    ASSUME Init
    PROVE  /\ Len(Dbid) = 0 => db = None
           /\ Len(Dbid) # 0 =>
                /\ db # None /\ db \in Database /\ Distinct(db.rows)
                /\ DOMAIN db.rows = 1..Len(Dbid) /\ \A i \in 1..Len(Dbid) : db.rows[i].file = i
                /\ \A m \in Name : db.lists[m] = {}
<1> DEFINE n == Len(Dbid)
           R == [i \in 1..n |-> [dbid |-> Dbid[i], file |-> i, plays |-> 0, art |-> FALSE, song |-> Old]]
<1>1. /\ n \in Nat /\ Old \in Song
      /\ \A i \in 1..n : Dbid[i] \in Nat \ {0}
      /\ \A i, j \in 1..n : Dbid[i] = Dbid[j] => i = j
  <2>1. Dbid \in Seq(Nat \ {0}) /\ IsInjective(Dbid)
        BY IpodAssumption
  <2>2. DOMAIN Dbid = 1..n
        BY <2>1
  <2> QED BY <2>1, <2>2, IpodAssumption DEF IsInjective
<1>2. db = IF n = 0 THEN None ELSE [rows |-> R, lists |-> NoLists]
      BY DEF Init
<1>3. R \in Seq(DbRow) /\ DOMAIN R = 1..n /\ \A i \in 1..n : R[i].file = i /\ R[i].dbid = Dbid[i]
  <2>1. \A i \in 1..n : [dbid |-> Dbid[i], file |-> i, plays |-> 0, art |-> FALSE, song |-> Old] \in DbRow
        BY <1>1 DEF DbRow
  <2> QED BY <1>1, <2>1
<1>4. NoLists \in [Name -> SUBSET Nat] /\ \A m \in Name : NoLists[m] = {}
      BY DEF NoLists
<1> HIDE DEF R
<1>5. CASE n = 0
      BY <1>2, <1>5
<1>6. CASE n # 0
  <2>1. db = [rows |-> R, lists |-> NoLists]
        BY <1>2, <1>6
  <2>2. db.rows = R /\ db.lists = NoLists
        BY <2>1
  <2>3. db \in Database
        BY <2>1, <1>3, <1>4 DEF Database
  <2>4. Distinct(R)
        BY <1>1, <1>3 DEF Distinct
  <2> QED BY <1>3, <1>4, <1>6, <2>2, <2>3, <2>4, IpodAssumption
<1> QED BY <1>5, <1>6

LEMMA TypeInit == Init => TypeOK
<1> SUFFICES ASSUME Init PROVE TypeOK
    OBVIOUS
<1> DEFINE n == Len(Dbid)
<1>1. n \in Nat /\ MaxOps \in Nat
      BY IpodAssumption
<1>4. made = n
      BY DEF Init
<1>5. DbOK
  <2>1. CASE n = 0
        BY <2>1, FirstDb DEF DbOK
  <2>2. CASE n # 0
        BY <1>1, <1>4, <2>2, FirstDb DEF DbOK
  <2> QED BY <2>1, <2>2
<1>6. SessionOK
      BY DEF Init, SessionOK
<1>7. MaxFile \in Nat /\ played \in [1..MaxFile -> Nat] /\ wanted \in [Name -> SUBSET Song]
      BY <1>1 DEF Init, MaxFile
<1>8. /\ files = 1..n /\ done = 1..n /\ asked = {} /\ made = n /\ sidecar = None /\ op = None
      /\ ops = 0 /\ faults = 0 /\ plays = 0 /\ opens = 0
      BY DEF Init
<1> HIDE DEF n
<1>9. made <= n + ops /\ ops \in 0..MaxOps
      BY <1>1, <1>8
<1> QED BY <1>1, <1>5, <1>6, <1>7, <1>8, <1>9 DEF TypeOK, n

\* The variables keep their types, and no two rows of the iTunesDB, or of a session, have
\* the same dbid: next_dbid is above them all.
THEOREM TypesHold == Spec => []TypeOK
BY TypeInit, TypeStep, PTL DEF Spec

-----------------------------------------------------------------------------
(* Playlists. *)

\* The steps that make another session of it.
LEMMA SessionSteps ==
    ASSUME [Next]_vars
    PROVE  Open \/ ImportTrack \/ RemoveTrack \/ ImportPlaylist \/ (InUse' => InUse /\ s' = s)
BY DEF Next, Operation, FlushStep, InUse, vars, FirmwarePlays, Close, CablePulled, SaveProgress, Ready,
       WriteIthmb, WriteArtDb, WriteDb, DropSidecar, At

LEMMA DbSteps ==
    ASSUME [Next]_vars
    PROVE  \/ db' = db
           \/ /\ WriteDb /\ op # None /\ op.at = "db" /\ db' = Serialized
              /\ Go("stale") /\ faults' = faults /\ s' = s /\ made' = made
BY DEF Next, Operation, FlushStep, vars, device, FirmwarePlays, Open, Close, CablePulled, ImportTrack,
       RemoveTrack, ImportPlaylist, SaveProgress, WriteIthmb, WriteArtDb, WriteDb, At, DropSidecar

LEMMA WantedSteps ==
    ASSUME [Next]_vars
    PROVE  wanted' = wanted \/ ImportPlaylist
BY DEF Next, Operation, FlushStep, vars, ghosts, FirmwarePlays, Open, Close, CablePulled, ImportTrack,
       RemoveTrack, SaveProgress, WriteIthmb, WriteArtDb, WriteDb, DropSidecar

LEMMA WantedGrows ==
    ASSUME TypeOK, [Next]_vars, NEW n \in Name
    PROVE  wanted[n] \subseteq wanted'[n]
<1>1. wanted \in [Name -> SUBSET Song]
      BY DEF TypeOK
<1>2. CASE ImportPlaylist
      BY <1>1, <1>2, ListImported
<1> QED BY <1>2, WantedSteps

LEMMA AskedStep ==
    ASSUME TypeOK, Asked, ListsRight, [Next]_vars PROVE Asked'
<1> SUFFICES ASSUME InUse', NEW n \in Name, NEW d \in s'.lists[n]
             PROVE  \E i \in DOMAIN s'.rows : s'.rows[i].dbid = d /\ s'.rows[i].song \in wanted'[n]
    BY DEF Asked
<1>0. wanted[n] \subseteq wanted'[n]
      BY WantedGrows
<1>1. CASE Open
  <2>1. PICK k \in db.lists[n] : db # None /\ db.rows[k].dbid = d
        BY <1>1, Opened
  <2>2. k \in DOMAIN Rows /\ Rows[k].song \in wanted[n] /\ Rows = db.rows
        BY <2>1 DEF ListsRight, Rows
  <2>3. k \in DOMAIN s'.rows /\ s'.rows[k].dbid = d /\ s'.rows[k].song = Rows[k].song
        BY <1>1, <2>1, <2>2, Opened, ParsedFields
  <2> QED BY <1>0, <2>2, <2>3
<1>2. CASE ImportTrack
  <2>1. /\ s # None /\ s'.lists = s.lists /\ Len(s'.rows) = Len(s.rows) + 1
        /\ s'.rows \in Seq(Row) /\ \A i \in DOMAIN s.rows : s'.rows[i] = s.rows[i]
        BY <1>2, Imported
  <2>2. DOMAIN s.rows = 1..Len(s.rows) /\ Len(s.rows) \in Nat
        BY <2>1, SessionOf DEF InUse
  <2>3. PICK i \in DOMAIN s.rows : s.rows[i].dbid = d /\ s.rows[i].song \in wanted[n]
        BY <2>1 DEF Asked, InUse
  <2>4. i \in DOMAIN s'.rows
        BY <2>1, <2>2
  <2> QED BY <1>0, <2>1, <2>3, <2>4
<1>3. CASE RemoveTrack
  <2>1. PICK j \in DOMAIN s.rows :
          /\ s' = [rows |-> s'.rows, lists |-> [m \in Name |-> s.lists[m] \ {s.rows[j].dbid}],
                   next |-> s.next, store |-> s.store]
          /\ \A m \in DOMAIN s.rows : m # j => \E k \in DOMAIN s'.rows : s'.rows[k] = s.rows[m]
        BY <1>3, RemovedRow
  <2>2. d \in s.lists[n] /\ d # s.rows[j].dbid
    <3>1. s'.lists = [m \in Name |-> s.lists[m] \ {s.rows[j].dbid}]
          BY <2>1
    <3> QED BY <3>1
  <2>3. PICK i \in DOMAIN s.rows : s.rows[i].dbid = d /\ s.rows[i].song \in wanted[n]
        BY <1>3, <2>2, RemovedRow DEF Asked, InUse
  <2>4. PICK k \in DOMAIN s'.rows : s'.rows[k] = s.rows[i]
        BY <2>1, <2>2, <2>3
  <2> QED BY <1>0, <2>3, <2>4
<1>4. CASE ImportPlaylist
  <2>1. PICK m \in Name, S \in SUBSET Song :
          /\ wanted' = [wanted EXCEPT ![m] = @ \cup S]
          /\ \A x \in Name \ {m} : s'.lists[x] = s.lists[x]
          /\ \A x \in s'.lists[m] : \E i \in DOMAIN s.rows : s.rows[i].dbid = x /\ s.rows[i].song \in S
        BY <1>4, ListImported
  <2>2. s # None /\ s'.rows = s.rows
        BY <1>4, ListImported
  <2>3. CASE n = m
    <3>1. S \subseteq wanted'[n]
          BY <2>1, <2>3 DEF TypeOK
    <3> QED BY <3>1, <2>1, <2>2, <2>3
  <2>4. CASE n # m
        BY <1>0, <2>1, <2>2, <2>4 DEF Asked, InUse
  <2> QED BY <2>3, <2>4
<1>5. CASE InUse /\ s' = s
      BY <1>0, <1>5 DEF Asked
<1> QED BY <1>1, <1>2, <1>3, <1>4, <1>5, SessionSteps

LEMMA ListsStep ==
    ASSUME TypeOK, Asked, ListsRight, [Next]_vars PROVE ListsRight'
<1> SUFFICES ASSUME NEW n \in Name, db' # None, NEW k \in db'.lists[n]
             PROVE  k \in DOMAIN Rows' /\ Rows'[k].song \in wanted'[n]
    BY DEF ListsRight
<1>0. wanted[n] \subseteq wanted'[n]
      BY WantedGrows
<1>1. CASE db' = db
      BY <1>0, <1>1 DEF ListsRight, Rows
<1>2. CASE op # None /\ db' = Serialized
  <2>1. /\ k \in DOMAIN s.rows /\ s.rows[k].dbid \in s.lists[n]
        /\ DOMAIN db'.rows = DOMAIN s.rows /\ db'.rows[k] = WrittenRow(s.rows[k])
        BY <1>2, Written
  <2>2. PICK i \in DOMAIN s.rows : s.rows[i].dbid = s.rows[k].dbid /\ s.rows[i].song \in wanted[n]
        BY <1>2, <2>1 DEF Asked, InUse
  <2>3. i = k
        BY <1>2, <2>1, <2>2, SessionOf DEF InUse, Distinct
  <2>4. db'.rows[k].song = s.rows[k].song
        BY <2>1, WrittenFields
  <2>5. Rows' = db'.rows
        BY DEF Rows
  <2> QED BY <1>0, <2>1, <2>2, <2>3, <2>4, <2>5
<1> QED BY <1>1, <1>2, DbSteps

\* A playlist lists songs that were asked for in it.  What is needed of a session is that each
\* dbid of a list is of a row; as dbids are distinct the position written is of that row.
THEOREM ListsAreRight == Spec => []ListsRight
<1> DEFINE Inv == TypeOK /\ Asked /\ ListsRight
<1>1. Init => Inv
  <2>1. Init => Asked
        BY DEF Init, Asked, InUse
  <2>2. Init => ListsRight
        BY DEF Init, ListsRight, NoLists
  <2> QED BY <2>1, <2>2, TypeInit
<1>2. Inv /\ [Next]_vars => Inv'
      BY TypeStep, AskedStep, ListsStep
<1>3. Inv => ListsRight
      OBVIOUS
<1> QED BY <1>1, <1>2, <1>3, PTL DEF Spec

-----------------------------------------------------------------------------
(* Play counts. *)

LEMMA PlayedSteps ==
    ASSUME [Next]_vars
    PROVE  FirmwarePlays \/ (played' = played /\ (sidecar' = sidecar \/ DropSidecar))
BY DEF Next, Operation, FlushStep, vars, device, Open, Close, CablePulled, ImportTrack,
       RemoveTrack, ImportPlaylist, SaveProgress, WriteIthmb, WriteArtDb, WriteDb, DropSidecar

LEMMA Played ==
    ASSUME TypeOK, FirmwarePlays
    PROVE  /\ s' = s /\ op' = op /\ db' = db /\ made' = made /\ faults' = faults
           /\ s = None /\ op = None /\ db # None
           /\ \E i \in DOMAIN db.rows : \E old \in Seq(Nat) :
                /\ played' = [played EXCEPT ![db.rows[i].file] = @ + 1]
                /\ sidecar' = [old EXCEPT ![i] = @ + 1] /\ Len(old) = Len(db.rows)
                /\ \/ sidecar # None /\ Len(sidecar) = Len(db.rows) /\ old = sidecar
                   \/ \A j \in DOMAIN db.rows : old[j] = 0
<1>1. PICK i \in DOMAIN db.rows :
        /\ played' = [played EXCEPT ![db.rows[i].file] = @ + 1]
        /\ LET old == IF sidecar # None /\ Len(sidecar) = Len(db.rows) THEN sidecar
                      ELSE [j \in DOMAIN db.rows |-> 0]
           IN sidecar' = [old EXCEPT ![i] = @ + 1]
      BY DEF FirmwarePlays
<1> DEFINE zero == [j \in 1..Len(db.rows) |-> 0]
           old == IF sidecar # None /\ Len(sidecar) = Len(db.rows) THEN sidecar ELSE zero
<1>2. db # None /\ DOMAIN db.rows = 1..Len(db.rows) /\ Len(db.rows) \in Nat
      BY DatabaseOf DEF FirmwarePlays
<1>3. zero \in Seq(Nat) /\ Len(zero) = Len(db.rows) /\ \A j \in DOMAIN db.rows : zero[j] = 0
      BY <1>2
<1>4. sidecar' = [old EXCEPT ![i] = @ + 1]
      BY <1>1, <1>2
<1>5. sidecar # None => sidecar \in Seq(Nat)
      BY DEF TypeOK
<1> HIDE DEF zero
<1>6. /\ old \in Seq(Nat) /\ Len(old) = Len(db.rows)
      /\ \/ sidecar # None /\ Len(sidecar) = Len(db.rows) /\ old = sidecar
         \/ \A j \in DOMAIN db.rows : old[j] = 0
      BY <1>3, <1>5
<1> HIDE DEF old
<1>7. /\ s' = s /\ op' = op /\ db' = db /\ made' = made /\ faults' = faults
      /\ s = None /\ op = None
      BY DEF FirmwarePlays, Unplugged
<1> QED BY <1>1, <1>2, <1>4, <1>6, <1>7

LEMMA PlayedGrows ==
    ASSUME TypeOK, [Next]_vars, NEW f \in 1..made
    PROVE  played[f] \in Nat /\ played'[f] \in Nat /\ played[f] <= played'[f]
<1>1. played \in [1..MaxFile -> Nat] /\ f \in 1..MaxFile
      BY Bounds DEF TypeOK
<1>2. CASE FirmwarePlays
  <2>1. PICK i \in DOMAIN db.rows : played' = [played EXCEPT ![db.rows[i].file] = @ + 1]
        BY <1>2, Played
  <2>2. played'[f] \in {played[f], played[f] + 1}
        BY <2>1, <1>1
  <2>3. played[f] \in Nat
        BY <1>1
  <2> QED BY <2>2, <2>3
<1>3. CASE played' = played
  <2>1. played[f] \in Nat
        BY <1>1
  <2> QED BY <1>3, <2>1
<1> QED BY <1>2, <1>3, PlayedSteps

LEMMA FaultsGrow ==
    ASSUME TypeOK, [Next]_vars
    PROVE  /\ faults \in Nat /\ faults' \in {faults, faults + 1}
           /\ faults' = faults \/ (op' = None /\ op # None /\ db' = db /\ sidecar' = sidecar /\ played' = played)
           /\ faults' = faults \/ s' = s \/ s' = None
<1>1. faults \in Nat
      BY DEF TypeOK
<1> QED BY <1>1 DEF Next, Operation, FlushStep, vars, device, FirmwarePlays, Open, Close, CablePulled, ImportTrack,
       RemoveTrack, ImportPlaylist, SaveProgress, WriteIthmb, WriteArtDb, WriteDb, DropSidecar, At, Go, Fails

\* What is told of the rows of the session, as read and as folded.
LEMMA CountedSession ==
    ASSUME TypeOK, Counted, Foldable, [Next]_vars, InUse', NEW i \in DOMAIN s'.rows
    PROVE  /\ s'.rows[i].raw # None => s'.rows[i].raw <= played'[s'.rows[i].file]
           /\ s'.rows[i].raw = None => s'.rows[i].plays = 0
           /\ faults' <= 1 => s'.rows[i].plays <= played'[s'.rows[i].file]
<1>0. faults \in Nat /\ faults' \in {faults, faults + 1}
      BY FaultsGrow
<1>1. CASE InUse /\ ~FirmwarePlays /\ \E j \in DOMAIN s.rows : s'.rows[i] = s.rows[j]
  <2>1. PICK j \in DOMAIN s.rows : s'.rows[i] = s.rows[j]
        BY <1>1
  <2>2. played' = played
        BY <1>1, PlayedSteps
  <2>3. /\ s.rows[j].raw # None => s.rows[j].raw <= played[s.rows[j].file]
        /\ s.rows[j].raw = None => s.rows[j].plays = 0
        /\ faults <= 1 => s.rows[j].plays <= played[s.rows[j].file]
        BY <1>1 DEF Counted
  <2>4. faults' <= 1 => faults <= 1
        BY <1>0
  <2> QED BY <2>1, <2>2, <2>3, <2>4
<1>2. CASE Open
  <2>1. /\ i \in DOMAIN Rows /\ s'.rows[i] = ParsedRow(Rows[i], Folded(Rows, i))
        /\ op = None
        BY <1>2, Opened
  <2>2. /\ s'.rows[i].raw = Rows[i].plays /\ s'.rows[i].plays = Folded(Rows, i)
        /\ s'.rows[i].file = Rows[i].file
        BY <2>1, ParsedFields
  <2>3. Rows[i].plays \in Nat /\ Rows[i].plays # None
        BY <2>1, DatabaseOf, IpodAssumption DEF Rows
  <2>4. played' = played /\ faults' = faults
        BY <1>2 DEF Open
  <2>5. Rows[i].plays <= played[Rows[i].file]
        BY <2>1 DEF Counted
  <2>6. faults <= 1 => Folded(Rows, i) <= played[Rows[i].file]
        BY <2>1, <1>0 DEF Foldable
  <2> QED BY <2>2, <2>3, <2>4, <2>5, <2>6
<1>3. CASE ImportTrack
  <2>1. PICK song \in Song :
          /\ s'.rows \in Seq(Row) /\ Len(s'.rows) = Len(s.rows) + 1
          /\ \A j \in DOMAIN s.rows : s'.rows[j] = s.rows[j]
          /\ s'.rows[Len(s.rows) + 1] = NewRow(song)
        BY <1>3, Imported
  <2>2. InUse /\ ~FirmwarePlays /\ DOMAIN s.rows = 1..Len(s.rows) /\ Len(s.rows) \in Nat
        BY <1>3, Imported, SessionOf, Played DEF InUse
  <2>3. CASE i \in DOMAIN s.rows
        BY <2>1, <2>2, <2>3, <1>1
  <2>4. CASE i = Len(s.rows) + 1
    <3>1. s'.rows[i].raw = None /\ s'.rows[i].plays = 0
          BY <2>1, <2>4 DEF NewRow
    <3>2. s'.rows[i].file = made' /\ made' = made + 1 /\ ops < MaxOps /\ played' = played
      <4>1. s'.rows[i].file = made + 1
            BY <2>1, <2>4 DEF NewRow
      <4>2. made' = made + 1 /\ ops < MaxOps
            BY <1>3, Imported
      <4>3. played' = played
            BY <1>3 DEF ImportTrack
      <4> QED BY <4>1, <4>2, <4>3
    <3>3. made' \in 1..MaxFile
          BY <3>2, Bounds DEF TypeOK, MaxFile
    <3>4. played'[s'.rows[i].file] \in Nat
          BY <3>2, <3>3 DEF TypeOK
    <3> QED BY <3>1, <3>4
  <2>5. i \in 1..(Len(s.rows) + 1)
        BY <2>1
  <2> QED BY <2>2, <2>3, <2>4, <2>5
<1>4. CASE RemoveTrack
  <2>1. InUse /\ ~FirmwarePlays
        BY <1>4, RemovedRow, Played DEF InUse
  <2>2. \E j \in DOMAIN s.rows : s'.rows[i] = s.rows[j]
        BY <1>4, RemovedRow
  <2> QED BY <2>1, <2>2, <1>1
<1>5. CASE ImportPlaylist
  <2>1. InUse /\ ~FirmwarePlays /\ s'.rows = s.rows
        BY <1>5, ListImported, Played DEF InUse
  <2> QED BY <2>1, <1>1
<1>6. CASE InUse /\ s' = s
  <2>1. ~FirmwarePlays
        BY <1>6, Played DEF InUse
  <2> QED BY <2>1, <1>6, <1>1
<1> QED BY <1>2, <1>3, <1>4, <1>5, <1>6, SessionSteps

\* What the iTunesDB says was played is no more than was played.
LEMMA CountedRows ==
    ASSUME TypeOK, Counted, [Next]_vars, NEW i \in DOMAIN Rows'
    PROVE  Rows'[i].plays <= played'[Rows'[i].file]
<1>1. CASE db' = db
  <2>1. Rows' = Rows /\ db # None /\ Rows = db.rows
        BY <1>1 DEF Rows
  <2>2. Rows[i].file \in 1..made /\ Rows[i].plays \in Nat
        BY <2>1, DatabaseOf
  <2>3. Rows[i].plays <= played[Rows[i].file]
        BY <2>1 DEF Counted
  <2> QED BY <2>1, <2>2, <2>3, PlayedGrows
<1>2. CASE op # None /\ op.at = "db" /\ db' = Serialized /\ WriteDb
  <2>1. /\ Rows' = db'.rows /\ i \in DOMAIN s.rows /\ db'.rows[i] = WrittenRow(s.rows[i])
        BY <1>2, Written DEF Rows
  <2>2. /\ Rows'[i].file = s.rows[i].file
        /\ Rows'[i].plays = IF s.rows[i].raw # None THEN s.rows[i].raw ELSE s.rows[i].plays
        BY <2>1, WrittenFields
  <2>3. played' = played /\ played[s.rows[i].file] \in Nat
    <3>1. s.rows[i].file \in 1..made
          BY <1>2, <2>1, SessionOf DEF InUse
    <3> QED BY <1>2, <3>1, PlayedGrows DEF WriteDb
  <2>4. /\ s.rows[i].raw # None => s.rows[i].raw <= played[s.rows[i].file]
        /\ s.rows[i].raw = None => s.rows[i].plays = 0
        BY <1>2, <2>1 DEF Counted, InUse
  <2> QED BY <2>2, <2>3, <2>4
<1> QED BY <1>1, <1>2, DbSteps

\* Where the Play Counts are true of the rows they lie on.
FoldsTruly == \A i \in DOMAIN Rows : Folded(Rows, i) <= played[Rows[i].file]

LEMMA FoldedPlayed ==
    ASSUME TypeOK, Counted, FoldsTruly, FirmwarePlays
    PROVE  FoldsTruly'
<1>1. /\ s = None /\ op = None /\ db' = db /\ db # None /\ Rows' = Rows /\ Rows = db.rows
      BY Played DEF Rows
<1>2. PICK i \in DOMAIN Rows, old \in Seq(Nat) :
        /\ played' = [played EXCEPT ![Rows[i].file] = @ + 1]
        /\ sidecar' = [old EXCEPT ![i] = @ + 1] /\ Len(old) = Len(Rows)
        /\ \/ sidecar # None /\ Len(sidecar) = Len(Rows) /\ old = sidecar
           \/ \A j \in DOMAIN Rows : old[j] = 0
      BY <1>1, Played
<1>3. /\ DOMAIN Rows = 1..Len(Rows) /\ Len(Rows) \in Nat /\ played \in [1..MaxFile -> Nat]
      /\ \A k \in DOMAIN Rows : Rows[k].file \in 1..MaxFile /\ Rows[k].plays \in Nat
      BY <1>1, DatabaseOf, Bounds DEF TypeOK
<1>4. ASSUME NEW k \in DOMAIN Rows PROVE Folded(Rows, k)' <= played'[Rows[k].file]
  <2>1. old[k] \in Nat
        BY <1>2, <1>3
  <2>2. Rows[k].plays + old[k] <= played[Rows[k].file]
    <3>1. CASE sidecar # None /\ Len(sidecar) = Len(Rows) /\ old = sidecar
          BY <3>1 DEF FoldsTruly, Folded
    <3>2. CASE \A j \in DOMAIN Rows : old[j] = 0
          BY <3>2, <1>3 DEF Counted
    <3> QED BY <3>1, <3>2, <1>2
  <2>3. /\ played[Rows[k].file] \in Nat
        /\ played'[Rows[k].file] \in {played[Rows[k].file], played[Rows[k].file] + 1}
        /\ k = i => played'[Rows[k].file] = played[Rows[k].file] + 1
        BY <1>2, <1>3
  <2>4. sidecar'[k] = IF k = i THEN old[k] + 1 ELSE old[k]
        BY <1>2, <1>3
  <2>5. Folded(Rows, k)' \in {Rows[k].plays + sidecar'[k], Rows[k].plays}
        BY <1>1 DEF Folded
  <2>6. Rows[k].plays \in Nat
        BY <1>3
  <2>7. CASE k = i
        BY <2>1, <2>2, <2>3, <2>4, <2>5, <2>6, <2>7
  <2>8. CASE k # i
        BY <2>1, <2>2, <2>3, <2>4, <2>5, <2>6, <2>8
  <2> QED BY <2>7, <2>8
<1> QED BY <1>1, <1>4 DEF FoldsTruly

LEMMA FoldedWritten ==
    ASSUME TypeOK, Counted, [Next]_vars, WriteDb, op # None, db' = Serialized, s' = s,
           sidecar # None => FitsSession
    PROVE  FoldsTruly'
<1>1. Rows' = db'.rows /\ DOMAIN Rows' = DOMAIN s.rows /\ Rows' \in Seq(DbRow) /\ s.rows \in Seq(Row)
  <2>1. db' \in Database /\ DOMAIN db'.rows = DOMAIN s.rows
        BY Written
  <2>2. db' # None
        BY <2>1, IpodAssumption
  <2> QED BY <2>1, <2>2, SessionOf DEF Rows, InUse, Database
<1>2. played' = played /\ sidecar' = sidecar /\ Len(Rows') = Len(s.rows)
      BY <1>1 DEF WriteDb
<1>3. ASSUME NEW i \in DOMAIN Rows' PROVE Folded(Rows, i)' <= played'[Rows'[i].file]
  <2>1. /\ Rows'[i].file = s.rows[i].file
        /\ Rows'[i].plays = IF s.rows[i].raw # None THEN s.rows[i].raw ELSE s.rows[i].plays
        BY <1>1, Written, WrittenFields
  <2>2. CASE sidecar # None /\ Len(sidecar) = Len(Rows')
    <3>1. s.rows[i].raw # None /\ s.rows[i].raw + sidecar[i] <= played[s.rows[i].file]
          BY <1>1, <1>2, <1>3, <2>2 DEF FitsSession
    <3>2. Folded(Rows, i)' = Rows'[i].plays + sidecar[i]
          BY <1>2, <2>2 DEF Folded
    <3> QED BY <3>1, <3>2, <2>1, <1>2
  <2>3. CASE ~(sidecar # None /\ Len(sidecar) = Len(Rows'))
    <3>1. Folded(Rows, i)' = Rows'[i].plays
          BY <1>2, <2>3 DEF Folded
    <3> QED BY <3>1, CountedRows
  <2> QED BY <2>2, <2>3
<1> QED BY <1>3 DEF FoldsTruly

\* What is left to do where the database is written.
LEMMA StaleSteps ==
    ASSUME [Next]_vars, op # None, op.at = "stale"
    PROVE  DropSidecar \/ faults' = faults + 1 \/ op' = op
BY DEF Next, Operation, FlushStep, vars, FirmwarePlays, Unplugged, Open, Close, CablePulled, ImportTrack,
       RemoveTrack, ImportPlaylist, SaveProgress, Ready, WriteIthmb, WriteArtDb, WriteDb, At

LEMMA FoldedStep ==
    ASSUME TypeOK, Counted, Foldable, [Next]_vars,
           faults' = 0 \/ (faults' = 1 /\ (op' = None \/ op'.at # "stale"))
    PROVE  FoldsTruly'
<1>0. faults \in Nat /\ faults' \in {faults, faults + 1}
      BY FaultsGrow
<1>1. CASE FirmwarePlays
  <2>1. op = None /\ faults' = faults
        BY <1>1, Played
  <2>2. FoldsTruly
        BY <2>1 DEF Foldable, FoldsTruly
  <2> QED BY <1>1, <2>2, FoldedPlayed
<1>2. CASE DropSidecar
  <2>1. sidecar' = None /\ played' = played
        BY <1>2 DEF DropSidecar, Stale
  <2>2. \A i \in DOMAIN Rows' : Folded(Rows, i)' = Rows'[i].plays
        BY <2>1 DEF Folded
  <2> QED BY <2>2, CountedRows DEF FoldsTruly
<1>3. CASE /\ WriteDb /\ op # None /\ op.at = "db" /\ db' = Serialized
           /\ Go("stale") /\ faults' = faults /\ s' = s
  <2>1. op \in Op
        BY <1>3 DEF TypeOK
  <2>2. op' \in Op /\ op'.at = "stale"
        BY <2>1, <1>3 DEF Go, Op
  <2>3. faults = 0
        BY <2>2, <1>3, IpodAssumption
  <2>4. sidecar # None => FitsSession
        BY <2>3, <1>3 DEF Foldable
  <2> QED BY <1>3, <2>4, FoldedWritten
<1>4. CASE db' = db /\ sidecar' = sidecar /\ played' = played /\ ~DropSidecar
  <2>1. faults = 0 \/ (faults = 1 /\ (op = None \/ op.at # "stale"))
        BY <1>0, <1>4, StaleSteps
  <2>2. FoldsTruly
        BY <2>1 DEF Foldable, FoldsTruly
  <2> QED BY <1>4, <2>2 DEF FoldsTruly, Folded, Rows
<1> QED BY <1>1, <1>2, <1>3, <1>4, PlayedSteps, DbSteps

LEMMA Begins ==
    ASSUME TypeOK, Operation
    PROVE  /\ s # None /\ op = None /\ op' \in Op /\ op' # None
           /\ op'.at = IF s'.store = None THEN "db" ELSE "ithmb"
           /\ op'.kind = "import" => ImportTrack
<1>1. CASE ImportTrack
  <2>1. made + 1 \in Nat
        BY DEF TypeOK
  <2> QED BY <1>1, <2>1, Imported, IpodAssumption DEF Op
<1>2. CASE RemoveTrack
  <2>1. PICK j \in DOMAIN s.rows :
          /\ op' = [kind |-> "remove", file |-> s.rows[j].file,
                    at |-> IF s.store = None THEN "db" ELSE "ithmb"]
          /\ s' = [rows |-> s'.rows, lists |-> [n \in Name |-> s.lists[n] \ {s.rows[j].dbid}],
                   next |-> s.next, store |-> s.store]
        BY <1>2, RemovedRow
  <2>2. s # None /\ op = None /\ s.rows[j].file \in Nat
    <3>1. s # None /\ op = None
          BY <1>2, RemovedRow
    <3>2. s.rows[j].file \in 1..made
          BY <3>1, SessionOf DEF InUse
    <3> QED BY <3>1, <3>2 DEF TypeOK
  <2>3. s'.store = s.store
        BY <2>1
  <2> QED BY <2>1, <2>2, <2>3, IpodAssumption DEF Op
<1>3. CASE ImportPlaylist
  <2>1. s'.store = s.store
        BY <1>3, ListImported
  <2> QED BY <1>3, <2>1, ListImported, IpodAssumption DEF Op
<1>4. CASE SaveProgress
      BY <1>4, Saved, IpodAssumption DEF Op
<1> QED BY <1>1, <1>2, <1>3, <1>4 DEF Operation

LEMMA FitsStep ==
    ASSUME TypeOK, Counted, Foldable, [Next]_vars, faults' = 0, sidecar' # None
    PROVE  /\ op' = None => FitsDb'
           /\ op' # None /\ op'.at # "stale" => FitsSession'
<1>0. faults = 0 /\ faults' = faults
      BY FaultsGrow
<1>1. CASE FirmwarePlays
  <2>1. /\ s' = None /\ op' = None /\ db' = db /\ db # None
        /\ \E i \in DOMAIN db.rows, old \in Seq(Nat) :
             sidecar' = [old EXCEPT ![i] = @ + 1] /\ Len(old) = Len(db.rows)
        BY <1>1, Played
  <2>2. Len(sidecar') = Len(Rows')
        BY <2>1 DEF Rows
  <2> QED BY <2>1, <2>2 DEF FitsDb
<1>2. CASE sidecar' = sidecar /\ ~FirmwarePlays
  <2>0. played' = played
        BY <1>2, PlayedSteps
  <2>1. CASE Open
    <3>1. s = None /\ op = None /\ op' = None /\ db' = db /\ Rows' = Rows
          BY <2>1, Opened DEF Open, device, Rows
    <3>2. Len(sidecar) = Len(Rows) /\ FoldsTruly
          BY <3>1, <1>0, <1>2 DEF Foldable, FitsDb, FoldsTruly
    <3>3. DOMAIN s'.rows = DOMAIN Rows /\ Len(s'.rows) = Len(Rows)
      <4>1. s'.rows \in Seq(Row) /\ DOMAIN s'.rows = DOMAIN Rows /\ Rows \in Seq(DbRow)
            BY <2>1, Opened, DatabaseOf DEF Rows
      <4> QED BY <4>1
    <3>4. ASSUME NEW i \in DOMAIN s'.rows
          PROVE  s'.rows[i].raw # None /\ s'.rows[i].raw + sidecar'[i] <= played'[s'.rows[i].file]
      <4>1. /\ s'.rows[i].raw = Rows[i].plays /\ s'.rows[i].file = Rows[i].file
            BY <2>1, <3>3, Opened, ParsedFields
      <4>2. Rows[i].plays \in Nat
            BY <3>3, DatabaseOf DEF Rows
      <4>3. Rows[i].plays + sidecar[i] <= played[Rows[i].file]
            BY <1>2, <3>2, <3>3 DEF FoldsTruly, Folded
      <4> QED BY <1>2, <2>0, <4>1, <4>2, <4>3, IpodAssumption
    <3>5. FitsSession'
          BY <3>4 DEF FitsSession
    <3> QED BY <1>2, <3>1, <3>2, <3>3, <3>5 DEF FitsDb
  <2>2. CASE ImportTrack
    <3>1. s # None /\ op = None /\ Len(s'.rows) = Len(s.rows) + 1 /\ op' # None
          BY <2>2, Imported, Begins DEF Operation
    <3>2. Len(s.rows) = Len(sidecar) /\ Len(s.rows) \in Nat
          BY <3>1, <1>0, <1>2, SessionOf DEF Foldable, FitsDb, InUse
    <3> QED BY <3>1, <3>2, <1>2 DEF FitsSession
  <2>3. CASE RemoveTrack
    <3>1. s # None /\ op = None /\ Len(s'.rows) = Len(s.rows) - 1 /\ op' # None
          BY <2>3, RemovedRow, Begins DEF Operation
    <3>2. Len(s.rows) = Len(sidecar) /\ Len(s.rows) \in Nat
          BY <3>1, <1>0, <1>2, SessionOf DEF Foldable, FitsDb, InUse
    <3> QED BY <3>1, <3>2, <1>2 DEF FitsSession
  <2>4. CASE ImportPlaylist \/ SaveProgress
    <3>1. s # None /\ op = None /\ s'.rows = s.rows /\ op' # None
          BY <2>4, ListImported, Saved, Begins DEF Operation
    <3>2. FitsSession
          BY <3>1, <1>0, <1>2 DEF Foldable, FitsDb
    <3> QED BY <3>1, <3>2, <1>2, <2>0 DEF FitsSession
  <2>5. CASE Close
    <3>1. op = None /\ op' = None /\ s' = None /\ Rows' = Rows
          BY <2>5 DEF Close, device, Rows
    <3> QED BY <3>1, <1>0, <1>2 DEF Foldable, FitsDb
  <2>6. CASE WriteIthmb \/ WriteArtDb \/ WriteDb
    <3>1. op # None /\ op' # None /\ s' = s
      <4>1. op # None /\ op' \in Op
            BY <2>6, <1>0, FlushMoves
      <4>2. s' = s
            BY <2>6 DEF WriteIthmb, WriteArtDb, WriteDb
      <4> QED BY <4>1, <4>2, IpodAssumption
    <3>2. op'.at # "stale" => op.at # "stale"
          BY <2>6, <1>0, FlushMoves
    <3> QED BY <3>1, <3>2, <1>0, <1>2, <2>0 DEF Foldable, FitsSession
  <2>7. CASE UNCHANGED vars
    <3>1. op' = op /\ s' = s /\ Rows' = Rows
          BY <2>7 DEF vars, device, Rows
    <3> QED BY <3>1, <1>0, <1>2, <2>0 DEF Foldable, FitsDb, FitsSession
  <2>8. ~CablePulled
        BY <1>0 DEF CablePulled
  <2>9. ~DropSidecar
        BY <1>2 DEF DropSidecar, Stale
  <2> QED BY <1>2, <2>1, <2>2, <2>3, <2>4, <2>5, <2>6, <2>7, <2>8, <2>9 DEF Next, Operation, FlushStep
<1>3. ~DropSidecar
      BY DEF DropSidecar, Stale
<1> QED BY <1>1, <1>2, <1>3, PlayedSteps

\* No plays are invented, unless two faults come together.  What is needed: the count in the
\* raw header of a row is no more than was played, and a Play Counts file has as many numbers
\* as the database has rows until a flush has failed.
THEOREM NoPlaysInvented == Spec => []PlaysNotInvented
<1> DEFINE Inv == TypeOK /\ Counted /\ Foldable
<1>1. Init => Inv
  <2> SUFFICES ASSUME Init PROVE Counted /\ Foldable
      BY TypeInit
  <2>1. s = None /\ op = None /\ sidecar = None
        BY DEF Init
  <2>2. ASSUME NEW i \in DOMAIN Rows
        PROVE  Rows[i].plays = 0 /\ 0 <= played[Rows[i].file]
    <3>1. db # None /\ Rows = db.rows
          BY DEF Rows
    <3>2. Rows[i].file \in 1..made /\ made \in Nat
          BY <3>1, TypeInit, DatabaseOf DEF TypeOK
    <3>3. played[Rows[i].file] \in Nat
          BY <3>2, TypeInit, Bounds DEF TypeOK
    <3>4. Rows[i].plays = 0
          BY <3>1 DEF Init
    <3> QED BY <3>3, <3>4
  <2> QED BY <2>1, <2>2 DEF Counted, Foldable, Folded, InUse
<1>2. Inv /\ [Next]_vars => Inv'
  <2> SUFFICES ASSUME TypeOK, Counted, Foldable, [Next]_vars PROVE Counted' /\ Foldable'
      BY TypeStep
  <2>1. Counted'
        BY CountedRows, CountedSession DEF Counted
  <2>2. Foldable'
        BY FoldedStep, FitsStep DEF Foldable, FoldsTruly
  <2> QED BY <2>1, <2>2
<1>3. Inv => PlaysNotInvented
      BY DEF Counted, InUse, PlaysNotInvented, Listed
<1> QED BY <1>1, <1>2, <1>3, PTL DEF Spec

-----------------------------------------------------------------------------
(* Covers. *)

\* The store a picture is added to, and its index with one more.
Base(st)       == IF st = None THEN [pictures |-> <<>>, index |-> NoArt] ELSE st
Widened(st, d) ==
    [x \in {d} \cup DOMAIN st.index |-> IF x = d THEN Len(st.pictures) + 1 ELSE st.index[x]]

\* What a store is after an import: as it was, or with a picture of the song.
LEMMA StoreOf ==
    ASSUME NEW st, NEW d, NEW song \in Song
    PROVE  \/ WithPicture(st, d, song) \in {st, Base(st)}
           \/ /\ WithPicture(st, d, song).pictures = Append(Base(st).pictures, song)
              /\ WithPicture(st, d, song).index = Widened(Base(st), d)
BY DEF WithPicture, Base, Widened

\* An index and pictures are of the rows.
Indexes(pictures, index, rows, next) ==
    /\ \A d \in DOMAIN index : d \in Nat /\ d < next /\ index[d] \in DOMAIN pictures
    /\ \A i \in DOMAIN rows : rows[i].dbid \in DOMAIN index => pictures[index[rows[i].dbid]] = rows[i].song

LEMMA IndexedImport ==
    ASSUME NEW pictures \in Seq(Song), NEW index, NEW song \in Song,
           TypeOK, InUse, Indexes(pictures, index, s.rows, s.next), s'.rows \in Seq(Row),
           Len(s'.rows) = Len(s.rows) + 1, s'.rows[Len(s.rows) + 1] = NewRow(song),
           \A i \in DOMAIN s.rows : s'.rows[i] = s.rows[i]
    PROVE  /\ Indexes(pictures, index, s'.rows, s.next + 1)
           /\ Indexes(Append(pictures, song),
                      [x \in {s.next} \cup DOMAIN index |->
                          IF x = s.next THEN Len(pictures) + 1 ELSE index[x]],
                      s'.rows, s.next + 1)
<1> DEFINE n == Len(s.rows) + 1
           more == Append(pictures, song)
           wide == [x \in {s.next} \cup DOMAIN index |-> IF x = s.next THEN Len(pictures) + 1 ELSE index[x]]
<1>1. /\ s.next \in Nat /\ DOMAIN s.rows = 1..Len(s.rows) /\ Len(s.rows) \in Nat
      /\ \A i \in DOMAIN s.rows : s.rows[i].dbid \in Nat /\ s.rows[i].dbid < s.next
      BY SessionOf
<1>2. /\ DOMAIN s'.rows = DOMAIN s.rows \cup {n}
      /\ s'.rows[n].dbid = s.next /\ s'.rows[n].song = song
      BY <1>1 DEF NewRow
<1>3. /\ \A d \in DOMAIN index : d \in Nat /\ d < s.next /\ index[d] \in DOMAIN pictures
      /\ \A i \in DOMAIN s.rows : s.rows[i].dbid \in DOMAIN index =>
            pictures[index[s.rows[i].dbid]] = s.rows[i].song
      BY DEF Indexes
<1>4. s.next \notin DOMAIN index
      BY <1>1, <1>3
<1>5. \A d \in DOMAIN index : d < s.next + 1
      BY <1>1, <1>3
<1>6. Indexes(pictures, index, s'.rows, s.next + 1)
      BY <1>2, <1>3, <1>4, <1>5 DEF Indexes
<1>7. /\ DOMAIN pictures = 1..Len(pictures) /\ Len(pictures) \in Nat
      /\ DOMAIN more = 1..(Len(pictures) + 1) /\ more[Len(pictures) + 1] = song
      /\ \A k \in DOMAIN pictures : more[k] = pictures[k]
      BY AppendProperties
<1>8. /\ DOMAIN wide = {s.next} \cup DOMAIN index
      /\ wide[s.next] = Len(pictures) + 1 /\ \A d \in DOMAIN index : wide[d] = index[d]
      BY <1>4
<1> HIDE DEF more, wide, n
<1>9. ASSUME NEW d \in DOMAIN wide PROVE d \in Nat /\ d < s.next + 1 /\ wide[d] \in DOMAIN more
  <2>1. CASE d = s.next
        BY <2>1, <1>1, <1>7, <1>8
  <2>2. CASE d \in DOMAIN index
    <3>1. index[d] \in 1..Len(pictures) /\ wide[d] = index[d]
          BY <2>2, <1>3, <1>7, <1>8
    <3> QED BY <2>2, <3>1, <1>3, <1>5, <1>7
  <2> QED BY <2>1, <2>2, <1>8
<1>10. ASSUME NEW i \in DOMAIN s'.rows, s'.rows[i].dbid \in DOMAIN wide
       PROVE  more[wide[s'.rows[i].dbid]] = s'.rows[i].song
  <2>1. CASE i = n
        BY <2>1, <1>2, <1>7, <1>8
  <2>2. CASE i \in DOMAIN s.rows
    <3>1. s'.rows[i] = s.rows[i] /\ s.rows[i].dbid # s.next
          BY <2>2, <1>1
    <3>2. s.rows[i].dbid \in DOMAIN index
          BY <3>1, <1>8, <1>10
    <3> QED BY <2>2, <3>1, <3>2, <1>3, <1>7, <1>8
  <2> QED BY <2>1, <2>2, <1>2
<1>11. Indexes(more, wide, s'.rows, s.next + 1)
       BY <1>9, <1>10 DEF Indexes
<1> QED BY <1>6, <1>11 DEF more, wide

LEMMA StoreStep ==
    ASSUME TypeOK, StoreTrue, [Next]_vars PROVE StoreTrue'
<1> SUFFICES ASSUME InUse', s'.store # None
             PROVE  Indexes(s'.store.pictures, s'.store.index, s'.rows, s'.next)
    BY DEF StoreTrue, Indexes
<1>0. InUse /\ s.store # None => Indexes(s.store.pictures, s.store.index, s.rows, s.next)
      BY DEF StoreTrue, Indexes
<1>1. CASE Open
      BY <1>1, Opened
<1>2. CASE ImportTrack
  <2>1. PICK song \in Song :
          /\ s' = [rows |-> Append(s.rows, NewRow(song)), lists |-> s.lists, next |-> s.next + 1,
                   store |-> WithPicture(s.store, s.next, song)]
          /\ s'.rows \in Seq(Row) /\ Len(s'.rows) = Len(s.rows) + 1
          /\ \A i \in DOMAIN s.rows : s'.rows[i] = s.rows[i]
          /\ s'.rows[Len(s.rows) + 1] = NewRow(song)
        BY <1>2, Imported
  <2>2. s # None /\ InUse
        BY <1>2, Imported DEF InUse
  <2>3. s'.store = WithPicture(s.store, s.next, song) /\ s'.next = s.next + 1
        BY <2>1
  <2> DEFINE base == Base(s.store)
             wide == Widened(base, s.next)
  <2>4. base.pictures \in Seq(Song) /\ Indexes(base.pictures, base.index, s.rows, s.next)
    <3>1. CASE s.store = None
          BY <3>1 DEF NoArt, Indexes, Base
    <3>2. CASE s.store # None
          BY <3>2, <1>0, <2>2, SessionOf DEF Base
    <3> QED BY <3>1, <3>2
  <2>5. \/ s'.store = base
        \/ s'.store.pictures = Append(base.pictures, song) /\ s'.store.index = wide
    <3>1. s.store = None \/ s.store = base
          BY DEF Base
    <3>2. \/ s'.store \in {s.store, base}
          \/ s'.store.pictures = Append(base.pictures, song) /\ s'.store.index = wide
          BY <2>3, StoreOf
    <3> QED BY <3>1, <3>2
  <2>6. /\ Indexes(base.pictures, base.index, s'.rows, s.next + 1)
        /\ Indexes(Append(base.pictures, song), wide, s'.rows, s.next + 1)
    <3> HIDE DEF base
    <3> QED BY <2>1, <2>2, <2>4, IndexedImport DEF Widened
  <2> HIDE DEF base, wide
  <2> QED BY <2>3, <2>5, <2>6
<1>3. CASE RemoveTrack
  <2>1. PICK j \in DOMAIN s.rows :
          /\ s' = [rows |-> s'.rows, lists |-> [n \in Name |-> s.lists[n] \ {s.rows[j].dbid}],
                   next |-> s.next, store |-> s.store]
          /\ \A k \in DOMAIN s'.rows :
               /\ k \in DOMAIN s.rows /\ k + 1 \in DOMAIN s.rows
               /\ s'.rows[k] = IF k < j THEN s.rows[k] ELSE s.rows[k + 1]
        BY <1>3, RemovedRow
  <2>2. s'.next = s.next /\ s'.store = s.store /\ InUse
        BY <1>3, <2>1, RemovedRow DEF InUse
  <2>3. \A k \in DOMAIN s'.rows : \E m \in DOMAIN s.rows : s'.rows[k] = s.rows[m]
        BY <2>1
  <2>4. Indexes(s.store.pictures, s.store.index, s.rows, s.next)
        BY <1>0, <2>2
  <2> QED BY <2>2, <2>3, <2>4 DEF Indexes
<1>4. CASE ImportPlaylist
  <2>1. s'.rows = s.rows /\ s'.next = s.next /\ s'.store = s.store /\ InUse
        BY <1>4, ListImported DEF InUse
  <2> QED BY <1>0, <2>1
<1>5. CASE InUse /\ s' = s
      BY <1>0, <1>5
<1> QED BY <1>1, <1>2, <1>3, <1>4, <1>5, SessionSteps

LEMMA ArtSteps ==
    ASSUME [Next]_vars
    PROVE  \/ WriteIthmb /\ db' = db
           \/ WriteArtDb /\ db' = db
           \/ UNCHANGED <<artdb, ithmb>> /\ WriteDb
           \/ /\ UNCHANGED <<artdb, ithmb, db>>
              /\ \/ op = None /\ op' = None
                 \/ op' = op /\ s' = s /\ faults' = faults
                 \/ faults' = faults + 1
                 \/ Operation
                 \/ DropSidecar
BY DEF Next, Operation, FlushStep, vars, device, FirmwarePlays, Unplugged, Open, Close, CablePulled,
       ImportTrack, RemoveTrack, ImportPlaylist, SaveProgress, WriteIthmb, WriteArtDb, WriteDb, DropSidecar

LEMMA PicturedStep ==
    ASSUME TypeOK, Pictured, [Next]_vars PROVE Pictured'
<1> SUFFICES ASSUME op' # None, s'.store # None, faults' = 0
             PROVE  /\ op'.at \in {"artdb", "db"} => s'.store.pictures = <<>> \/ ithmb' = s'.store.pictures
                    /\ op'.at = "db" => artdb' = s'.store.index
    BY DEF Pictured
<1>0. faults = 0 /\ faults' # faults + 1
      BY FaultsGrow
<1>1. CASE WriteIthmb
  <2>1. s' = s /\ op'.at = "artdb"
        BY <1>0, <1>1, FlushMoves DEF WriteIthmb, WriteArtDb, WriteDb, At
  <2>2. ithmb' = IF s.store.pictures = <<>> THEN ithmb ELSE s.store.pictures
        BY <1>0, <1>1 DEF WriteIthmb, Fails
  <2> QED BY <2>1, <2>2
<1>2. CASE WriteArtDb
  <2>1. s' = s /\ op'.at = "db" /\ op.at = "artdb" /\ op # None
        BY <1>0, <1>2, FlushMoves DEF WriteIthmb, WriteArtDb, WriteDb, At
  <2>2. artdb' = s.store.index /\ ithmb' = ithmb
        BY <1>0, <1>2 DEF WriteArtDb, Fails
  <2> QED BY <1>0, <2>1, <2>2 DEF Pictured
<1>3. CASE WriteDb
  <2>1. op'.at = "stale"
        BY <1>0, <1>3, FlushMoves DEF WriteIthmb, WriteArtDb, WriteDb, At
  <2> QED BY <2>1
<1>4. CASE Operation
      BY <1>4, Begins
<1>5. CASE op' = op /\ s' = s /\ faults' = faults /\ UNCHANGED <<artdb, ithmb>>
      BY <1>5 DEF Pictured
<1>6. CASE DropSidecar
      BY <1>6 DEF DropSidecar
<1> QED BY <1>0, <1>1, <1>2, <1>3, <1>4, <1>5, <1>6, ArtSteps

LEMMA CoversStep ==
    ASSUME TypeOK, CoverInv, [Next]_vars, faults' = 0, op' = None \/ op'.at = "stale"
    PROVE  CoversOfRows'
<1>0. faults = 0 /\ faults' # faults + 1
      BY FaultsGrow
<1>1. CASE WriteDb
  <2>1. op # None /\ op.at = "db" /\ db' = Serialized /\ artdb' = artdb /\ ithmb' = ithmb
        BY <1>0, <1>1 DEF WriteDb, At, Fails
  <2>2. ASSUME NEW i \in DOMAIN Rows', Rows'[i].art
        PROVE  /\ Rows'[i].dbid \in DOMAIN artdb /\ artdb[Rows'[i].dbid] \in DOMAIN ithmb
               /\ ithmb[artdb[Rows'[i].dbid]] = Rows'[i].song
    <3>1. Rows' = db'.rows /\ i \in DOMAIN s.rows /\ db'.rows[i] = WrittenRow(s.rows[i])
          BY <2>1, <2>2, Written DEF Rows
    <3>2. /\ Rows'[i].dbid = s.rows[i].dbid /\ Rows'[i].song = s.rows[i].song
          /\ Rows'[i].art = Flag(s.rows[i])
          BY <3>1, WrittenFields
    <3>3. s.store # None /\ s.rows[i].dbid \in DOMAIN s.store.index
          BY <2>2, <3>2 DEF Flag, HasArt
    <3>4. /\ s.store.index[s.rows[i].dbid] \in DOMAIN s.store.pictures
          /\ s.store.pictures[s.store.index[s.rows[i].dbid]] = s.rows[i].song
          BY <2>1, <3>1, <3>3 DEF CoverInv, StoreTrue, InUse
    <3>5. s.store.pictures # <<>>
          BY <3>4
    <3>6. artdb = s.store.index /\ ithmb = s.store.pictures
          BY <1>0, <2>1, <3>3, <3>5 DEF CoverInv, Pictured
    <3> QED BY <3>2, <3>3, <3>4, <3>6
  <2> QED BY <2>1, <2>2 DEF CoversOfRows
<1>2. ASSUME WriteIthmb \/ WriteArtDb PROVE FALSE
  <2>1. op' \in Op /\ op'.at # "stale"
        BY <1>0, <1>2, FlushMoves DEF WriteIthmb, WriteArtDb, WriteDb, At
  <2> QED BY <2>1, IpodAssumption
<1>3. ASSUME Operation PROVE FALSE
      BY <1>3, Begins
<1>4. CASE UNCHANGED <<artdb, ithmb, db>> /\ (op = None \/ op.at = "stale")
      BY <1>0, <1>4 DEF CoverInv, CoversOfRows, Rows
<1>5. DropSidecar => op.at = "stale"
      BY DEF DropSidecar, At
<1> QED BY <1>0, <1>1, <1>2, <1>3, <1>4, <1>5, ArtSteps

\* While nothing has failed a row that shows a cover shows the one of its song.  What is needed
\* of a session is that its store indexes pictures by dbids of its own rows, or of no row, and
\* that a flush has put the pictures and the index of that very store on the device.
THEOREM CoversAreRight == Spec => []CoversRight
<1> DEFINE Inv == TypeOK /\ CoverInv
<1>1. Init => Inv
  <2>1. Init => CoversOfRows
        BY DEF Init, CoversOfRows, Rows
  <2>2. Init => StoreTrue /\ Pictured
        BY DEF Init, StoreTrue, Pictured, InUse
  <2> QED BY <2>1, <2>2, TypeInit DEF CoverInv
<1>2. Inv /\ [Next]_vars => Inv'
  <2> SUFFICES ASSUME TypeOK, CoverInv, [Next]_vars PROVE CoverInv'
      BY TypeStep
  <2>1. StoreTrue' /\ Pictured'
        BY StoreStep, PicturedStep DEF CoverInv
  <2> QED BY <2>1, CoversStep DEF CoverInv
<1>3. Inv => CoversRight
      BY DEF CoverInv, CoversOfRows, CoversRight
<1> QED BY <1>1, <1>2, <1>3, PTL DEF Spec

-----------------------------------------------------------------------------
(* Files. *)

\* With distinct low halves the row that is removed is the one the user has picked.
LEMMA RemovedFile ==
    ASSUME TypeOK, NoClash, RemoveTrack
    PROVE  \E g \in 1..made :
             /\ asked' = asked \cup {g} /\ files' = files \ {g}
             /\ \A i \in DOMAIN s'.rows : \E m \in DOMAIN s.rows : s'.rows[i] = s.rows[m]
             /\ \A m \in DOMAIN s.rows : s.rows[m].file # g => \E k \in DOMAIN s'.rows : s'.rows[k] = s.rows[m]
<1>1. s # None
      BY RemovedRow
<1>2. PICK i \in DOMAIN s.rows, j \in DOMAIN s.rows :
        /\ SameId(Wrap, i, j)
        /\ asked' = asked \cup {s.rows[i].file} /\ files' = files \ {s.rows[j].file}
        /\ \A k \in DOMAIN s'.rows :
             /\ k \in DOMAIN s.rows /\ k + 1 \in DOMAIN s.rows
             /\ s'.rows[k] = IF k < j THEN s.rows[k] ELSE s.rows[k + 1]
        /\ \A m \in DOMAIN s.rows : m # j => \E k \in DOMAIN s'.rows : s'.rows[k] = s.rows[m]
      BY RemovedRow
<1>3. i = j
      BY <1>1, <1>2 DEF NoClash
<1>4. s.rows[j].file \in 1..made
      BY <1>1, SessionOf DEF InUse
<1>5. \A m \in DOMAIN s.rows : s.rows[m].file # s.rows[j].file => \E k \in DOMAIN s'.rows : s'.rows[k] = s.rows[m]
      BY <1>2
<1>6. \A k \in DOMAIN s'.rows : \E m \in DOMAIN s.rows : s'.rows[k] = s.rows[m]
      BY <1>2
<1> QED BY <1>2, <1>3, <1>4, <1>5, <1>6

LEMMA FileSteps ==
    ASSUME [Next]_vars
    PROVE  \/ ImportTrack /\ asked' = asked /\ done' = done
           \/ RemoveTrack /\ done' = done
           \/ DropSidecar /\ files' = files /\ asked' = asked
           \/ UNCHANGED <<files, asked, done>>
BY DEF Next, Operation, FlushStep, vars, device, ghosts, FirmwarePlays, Open, Close, CablePulled,
       ImportTrack, RemoveTrack, ImportPlaylist, SaveProgress, WriteIthmb, WriteArtDb, WriteDb, DropSidecar

LEMMA FilesKept ==
    ASSUME TypeOK, NoClash, [Next]_vars
    PROVE  /\ asked \subseteq asked' /\ files \ asked' \subseteq files'
           /\ files \cup asked \subseteq files' \cup asked'
<1>1. CASE ImportTrack /\ asked' = asked
      BY <1>1, Imported
<1>2. CASE RemoveTrack
  <2>1. PICK g \in 1..made : asked' = asked \cup {g} /\ files' = files \ {g}
        BY <1>2, RemovedFile
  <2> QED BY <2>1
<1> QED BY <1>1, <1>2, FileSteps

LEMMA SessionKeeps ==
    ASSUME TypeOK, NoClash, [Next]_vars, InUse, InUse', NEW f, InSession(f), f \notin asked'
    PROVE  InSession(f)'
<1>1. PICK i \in DOMAIN s.rows : s.rows[i].file = f
      BY DEF InSession
<1>2. ~Open
      BY DEF Open, Unplugged, InUse
<1>3. CASE ImportTrack
  <2>1. /\ s'.rows \in Seq(Row) /\ Len(s'.rows) = Len(s.rows) + 1
        /\ \A j \in DOMAIN s.rows : s'.rows[j] = s.rows[j]
        BY <1>3, Imported
  <2>2. DOMAIN s.rows = 1..Len(s.rows) /\ Len(s.rows) \in Nat
        BY SessionOf
  <2>3. i \in DOMAIN s'.rows
        BY <2>1, <2>2
  <2> QED BY <1>1, <2>1, <2>3 DEF InSession
<1>4. CASE RemoveTrack
  <2>1. PICK g \in 1..made :
          /\ asked' = asked \cup {g}
          /\ \A m \in DOMAIN s.rows : s.rows[m].file # g => \E k \in DOMAIN s'.rows : s'.rows[k] = s.rows[m]
        BY <1>4, RemovedFile
  <2>2. f # g
        BY <2>1
  <2> QED BY <1>1, <2>1, <2>2 DEF InSession
<1>5. CASE ImportPlaylist
      BY <1>1, <1>5, ListImported DEF InSession
<1>6. CASE s' = s
      BY <1>1, <1>6 DEF InSession
<1> QED BY <1>2, <1>3, <1>4, <1>5, <1>6, SessionSteps

LEMMA OpenedRows ==
    ASSUME TypeOK, Open
    PROVE  /\ DOMAIN s'.rows = DOMAIN Rows /\ \A i \in DOMAIN Rows : s'.rows[i].file = Rows[i].file
BY Opened, ParsedFields

LEMMA WrittenRows ==
    ASSUME TypeOK, op # None, db' = Serialized
    PROVE  DOMAIN Rows' = DOMAIN s.rows /\ \A i \in DOMAIN s.rows : Rows'[i].file = s.rows[i].file
<1>1. Serialized \in Database /\ DOMAIN Serialized.rows = DOMAIN s.rows
      BY Written
<1>2. Rows' = db'.rows
      BY <1>1, IpodAssumption DEF Rows
<1> QED BY <1>1, <1>2, Written, WrittenFields

LEMMA KeptFiles ==
    ASSUME TypeOK, KeptInv, NoClash, [Next]_vars, NEW f \in done' \ asked'
    PROVE  f \in files' /\ InRows(f)' /\ (InUse' => InSession(f)')
<1>0. asked \subseteq asked' /\ files \ asked' \subseteq files'
      BY FilesKept
<1>1. CASE f \in done
  <2>1. f \in files /\ InRows(f) /\ (InUse => InSession(f))
        BY <1>0, <1>1 DEF KeptInv
  <2>2. f \in files'
        BY <1>0, <2>1
  <2>3. InRows(f)'
    <3>1. CASE db' = db
          BY <3>1, <2>1 DEF InRows, Rows
    <3>2. CASE op # None /\ db' = Serialized
          BY <3>2, <2>1, WrittenRows DEF InRows, InSession, InUse
    <3> QED BY <3>1, <3>2, DbSteps
  <2>4. ASSUME InUse' PROVE InSession(f)'
    <3>1. CASE Open
          BY <3>1, <2>1, OpenedRows DEF InRows, InSession
    <3>2. CASE InUse
          BY <3>2, <2>1, <2>4, SessionKeeps
    <3>3. Open \/ InUse
          BY <2>4, SessionSteps, Imported, RemovedRow, ListImported DEF InUse
    <3> QED BY <3>1, <3>2, <3>3
  <2> QED BY <2>2, <2>3, <2>4
<1>2. CASE f \notin done
  <2>1. DropSidecar /\ op # None /\ op.at = "stale" /\ op.kind = "import" /\ f = op.file
        BY <1>2, FileSteps DEF DropSidecar, At
  <2>2. UNCHANGED <<db, files, s>>
        BY <2>1 DEF DropSidecar
  <2> QED BY <2>1, <2>2 DEF KeptInv, InRows, InSession, Rows
<1> QED BY <1>1, <1>2

LEMMA OpSteps ==
    ASSUME [Next]_vars, op' # None
    PROVE  Operation \/ WriteIthmb \/ WriteArtDb \/ WriteDb \/ UNCHANGED vars
BY DEF Next, FlushStep, FirmwarePlays, Unplugged, Open, Close, CablePulled, DropSidecar

LEMMA KeptImport ==
    ASSUME TypeOK, KeptInv, NoClash, [Next]_vars, op' # None, op'.kind = "import"
    PROVE  /\ op'.file \in files' /\ InSession(op.file)'
           /\ op'.at = "stale" => InRows(op.file)'
<1>1. CASE Operation
  <2>1. ImportTrack /\ op'.at # "stale"
        BY <1>1, Begins
  <2>2. op'.file = made + 1 /\ made + 1 \in files'
        BY <2>1, Imported
  <2>3. \E i \in DOMAIN s'.rows : s'.rows[i].file = made + 1
    <3>1. PICK song \in Song :
            /\ s'.rows \in Seq(Row) /\ Len(s'.rows) = Len(s.rows) + 1
            /\ s'.rows[Len(s.rows) + 1] = NewRow(song)
          BY <2>1, Imported
    <3>2. Len(s.rows) \in Nat
          BY <2>1, Imported, SessionOf DEF InUse
    <3>3. Len(s.rows) + 1 \in DOMAIN s'.rows
          BY <3>1, <3>2
    <3> QED BY <3>1, <3>3 DEF NewRow
  <2> QED BY <2>1, <2>2, <2>3 DEF InSession
<1>2. CASE WriteIthmb \/ WriteArtDb \/ WriteDb
  <2>1. s' = s /\ files' = files /\ op # None
        BY <1>2 DEF WriteIthmb, WriteArtDb, WriteDb, At
  <2>2. op'.kind = op.kind /\ op'.file = op.file
        BY <1>2, FlushMoves
  <2>3. op.file \in files /\ InSession(op.file)
        BY <2>1, <2>2 DEF KeptInv
  <2>4. CASE op'.at = "stale"
    <3>1. db' = Serialized
      <4>1. WriteDb /\ faults' # faults + 1
            BY <1>2, <2>4, FlushMoves DEF TypeOK
      <4> QED BY <4>1 DEF WriteDb, Fails
    <3> QED BY <2>1, <2>2, <2>3, <3>1, WrittenRows DEF InRows, InSession
  <2> QED BY <2>1, <2>2, <2>3, <2>4 DEF InSession
<1>3. CASE UNCHANGED vars
      BY <1>3 DEF vars, device, KeptInv, InSession, InRows, Rows
<1> QED BY <1>1, <1>2, <1>3, OpSteps

LEMMA KeptRows ==
    ASSUME TypeOK, KeptInv, NoClash, [Next]_vars
    PROVE  RowsHaveFiles' /\ (InUse' => \A i \in DOMAIN s'.rows : s'.rows[i].file \in files' \cup asked')
<1>0. files \cup asked \subseteq files' \cup asked'
      BY FilesKept
<1>1. /\ \A i \in DOMAIN Rows : Rows[i].file \in files \cup asked
      /\ InUse => \A i \in DOMAIN s.rows : s.rows[i].file \in files \cup asked
      BY DEF KeptInv, RowsHaveFiles
<1>2. RowsHaveFiles'
  <2>1. CASE db' = db
        BY <2>1, <1>0, <1>1 DEF RowsHaveFiles, Rows
  <2>2. CASE op # None /\ db' = Serialized
        BY <2>2, <1>0, <1>1, WrittenRows DEF RowsHaveFiles, InUse
  <2> QED BY <2>1, <2>2, DbSteps
<1>3. ASSUME InUse', NEW i \in DOMAIN s'.rows PROVE s'.rows[i].file \in files' \cup asked'
  <2>1. CASE Open
        BY <2>1, <1>0, <1>1, <1>3, OpenedRows
  <2>2. CASE ImportTrack
    <3>1. PICK song \in Song :
            /\ s'.rows \in Seq(Row) /\ Len(s'.rows) = Len(s.rows) + 1
            /\ \A j \in DOMAIN s.rows : s'.rows[j] = s.rows[j]
            /\ s'.rows[Len(s.rows) + 1] = NewRow(song)
          BY <2>2, Imported
    <3>2. /\ DOMAIN s.rows = 1..Len(s.rows) /\ Len(s.rows) \in Nat
          /\ InUse /\ files' = files \cup {made + 1}
          BY <2>2, Imported, SessionOf DEF InUse
    <3>3. i \in DOMAIN s.rows \/ i = Len(s.rows) + 1
          BY <1>3, <3>1, <3>2
    <3>4. CASE i \in DOMAIN s.rows
          BY <3>1, <3>2, <3>4, <1>0, <1>1
    <3>5. CASE i = Len(s.rows) + 1
          BY <3>1, <3>2, <3>5 DEF NewRow
    <3> QED BY <3>3, <3>4, <3>5
  <2>3. CASE RemoveTrack
    <3>1. PICK m \in DOMAIN s.rows : s'.rows[i] = s.rows[m]
          BY <1>3, <2>3, RemovedFile
    <3> QED BY <2>3, <3>1, <1>0, <1>1, RemovedRow DEF InUse
  <2>4. CASE ImportPlaylist
        BY <2>4, <1>0, <1>1, <1>3, ListImported DEF InUse
  <2>5. CASE InUse /\ s' = s
        BY <2>5, <1>0, <1>1, <1>3
  <2> QED BY <1>3, <2>1, <2>2, <2>3, <2>4, <2>5, SessionSteps
<1> QED BY <1>2, <1>3

\* An import that returned Ok stays on the iPod, and the iTunesDB lists no file that is gone
\* unless its removal was asked for, whatever fails: the iTunesDB in place is never opened for
\* writing, and a session that goes on after a failed flush still has the row.  rm_by_id looks
\* for a row by the low half of its dbid: that no two rows share one is a hypothesis.
THEOREM ImportsSurvive == Spec /\ []NoClash => [](ImportedSurvives /\ RowsHaveFiles)
<1> DEFINE Inv == TypeOK /\ KeptInv
<1>1. Init => Inv
  <2> SUFFICES ASSUME Init PROVE KeptInv
      BY TypeInit
  <2>1. s = None /\ op = None /\ asked = {} /\ files = 1..Len(Dbid) /\ done = files
        BY DEF Init
  <2>2. DOMAIN Rows = 1..Len(Dbid) /\ \A i \in 1..Len(Dbid) : Rows[i].file = i
    <3>1. Len(Dbid) \in Nat
          BY TypeInit, Bounds
    <3>2. CASE Len(Dbid) = 0
      <4>1. Rows = <<>>
            BY <3>2 DEF Init, Rows
      <4> QED BY <3>2, <4>1
    <3>3. CASE Len(Dbid) # 0
          BY <3>3, FirstDb DEF Rows
    <3> QED BY <3>2, <3>3
  <2> QED BY <2>1, <2>2 DEF KeptInv, InUse, InRows, RowsHaveFiles
<1>2. Inv /\ NoClash /\ [Next]_vars => Inv'
  <2> SUFFICES ASSUME TypeOK, KeptInv, NoClash, [Next]_vars PROVE KeptInv'
      BY TypeStep
  <2> QED BY KeptFiles, KeptImport, KeptRows DEF KeptInv
<1>3. Inv => ImportedSurvives /\ RowsHaveFiles
      BY DEF KeptInv, InRows, ImportedSurvives
<1> QED BY <1>1, <1>2, <1>3, PTL DEF Spec

\* Of an iPod whose dbids are small, as those are that next_dbid gives out from an empty
\* database, no hypothesis on low halves is needed.
LEMMA SmallDbids ==
    ASSUME TypeOK, s # None => s.next <= Wrap
    PROVE  NoClash
<1> SUFFICES ASSUME s # None, NEW i \in DOMAIN s.rows, NEW j \in DOMAIN s.rows, SameId(Wrap, i, j)
             PROVE  i = j
    BY DEF NoClash
<1>1. /\ s.next \in Nat /\ s.next <= Wrap /\ Wrap \in Nat /\ Distinct(s.rows)
      /\ s.rows[i].dbid \in Nat /\ s.rows[i].dbid < s.next
      /\ s.rows[j].dbid \in Nat /\ s.rows[j].dbid < s.next
      BY SessionOf, IpodAssumption DEF InUse
<1>2. \A x \in Nat : x < Wrap => x % Wrap = x
      BY <1>1
<1>3. s.rows[i].dbid < Wrap /\ s.rows[j].dbid < Wrap
      BY <1>1
<1>4. s.rows[i].dbid = s.rows[j].dbid
      BY <1>1, <1>2, <1>3 DEF SameId, Listed
<1> QED BY <1>1, <1>4 DEF Distinct

\* An import that returned Ok stays on such an iPod.
COROLLARY SmallImportsSurvive ==
    Spec /\ [](s # None => s.next <= Wrap) => []ImportedSurvives
BY TypesHold, ImportsSurvive, SmallDbids, PTL

=============================================================================
