-------------------------- MODULE ProducerHashProofs --------------------------
(***************************************************************************)
(* For every number of threads, every hash function and every capacity: a  *)
(* sub-queue of a shard's queue has one writer.                            *)
(*                                                                         *)
(* A thread finds its id in every table that has it, as no slot becomes    *)
(* free again; so one that finds none is in no table, and one that ends is *)
(* in none when it gives up its producer.                                  *)
(***************************************************************************)
EXTENDS ProducerHash, FiniteSetTheorems, WellFoundedInduction, TLAPS

\* What a slot may hold.
Value == {Free, Reusable} \cup [id : Enqueuer, producer : Nat \ {0}]

\* A table has at least one slot.
Tables == UNION {[0 .. n - 1 -> Value] : n \in Nat \ {0}}

Label == {"idle", "copy", "fit", "grow", "room", "insert", "uncount", "exit"}
HashLocal == [count : Nat, main : Nat, slot : Nat, producer : Nat]

HashTypes ==
  /\ tables \in Seq(Tables) /\ Len(tables) > 0
  /\ count \in Int /\ resizing \in {0, 1}
  /\ inactive \in Seq({0, 1})
  /\ hpc \in [Enqueuer -> Label]
  /\ hmy \in [Enqueuer -> HashLocal]
  /\ exits \in 0 .. MaxExits

\* t has a slot of table h.
In(t, h) == \E i \in DOMAIN tables[h] : tables[h][i].id = t

\* The table and the producer that a label works on.
LocalOK(t) ==
  /\ hmy[t].main \in 0 .. Len(tables)
  /\ hpc[t] \notin {"idle", "uncount", "exit"} => hmy[t].main > 0
  /\ hpc[t] \in {"fit", "grow", "room"} => hmy[t].slot = 0
  /\ hmy[t].producer \in 0 .. Len(inactive)
  /\ hmy[t].producer = 0 <=> hpc[t] \notin {"copy", "insert", "exit"}

\* A thread finds its id wherever it is, as no slot becomes free again.
FoundOK(t) == \A h \in DOMAIN tables : In(t, h) => Found(t, h)

\* The slots that an insertion has passed.
ProbedOK(t) ==
  hpc[t] \in {"copy", "insert"} =>
    \A j \in 0 .. hmy[t].slot - 1 : tables[hmy[t].main][Probe(t, hmy[t].main, j)] # Free

\* A thread that is new is in no table, one that exits in none that it has been to.
AbsentOK(t) ==
  \A h \in DOMAIN tables :
    /\ hpc[t] \in {"fit", "grow", "room", "insert"} => ~ In(t, h)
    /\ hpc[t] = "exit" /\ h > hmy[t].main => ~ In(t, h)

ThreadOK(t) == LocalOK(t) /\ FoundOK(t) /\ ProbedOK(t) /\ AbsentOK(t)

\* A thread has one producer, which is active and its own alone.
Alone ==
  \A t \in Enqueuer :
    /\ \A p, q \in Own(t) : p = q
    /\ \A p \in Own(t) : p \in DOMAIN inactive /\ inactive[p] = 0
    /\ \A u \in Enqueuer \ {t} : Own(t) \cap Own(u) = {}

\* Every thread that is about to add itself is counted.
Newcomers == {t \in Enqueuer : hpc[t] \in {"fit", "grow", "room", "insert", "uncount"}}
Counted == count >= Cardinality(Newcomers)

\* The inductive invariant of the table of producers.
HashIInv == HashTypes /\ (\A t \in Enqueuer : ThreadOK(t)) /\ Alone /\ Counted

-----------------------------------------------------------------------------
\* A table has its size as its number of slots.
LEMMA TableFacts ==
  ASSUME NEW T \in Tables
  PROVE  \E n \in Nat \ {0} : T \in [0 .. n - 1 -> Value] /\ Cardinality(DOMAIN T) = n
<1>1. PICK n \in Nat \ {0} : T \in [0 .. n - 1 -> Value]
  BY ZenonT(30) DEF Tables
<1>2. Cardinality(0 .. n - 1) = n
  BY FS_Interval
<1> QED BY <1>1, <1>2, ZenonT(30)

\* A remainder is the only one.
LEMMA Remainder ==
  ASSUME NEW n \in Nat \ {0}, NEW q \in Int, NEW r \in 0 .. n - 1
  PROVE  (n * q + r) % n = r
OBVIOUS

\* The remainder of a sum depends on those of its parts.
LEMMA RemainderOfSum ==
  ASSUME NEW n \in Nat \ {0}, NEW a \in Nat, NEW i \in Nat
  PROVE  (a + (i % n)) % n = (a + i) % n
<1>1. PICK q, b : q = i \div n /\ b = i % n
  BY ZenonT(30)
<1>2. q \in Int /\ b \in Nat /\ i = n * q + b
  BY <1>1
<1>3. PICK r, s : r = (a + b) \div n /\ s = (a + b) % n
  BY ZenonT(30)
<1>4. r \in Int /\ s \in 0 .. n - 1 /\ a + b = n * r + s
  BY <1>2, <1>3
<1>5. PICK x : x = q + r
  BY ZenonT(30)
<1>6. x \in Int /\ n * x = n * q + n * r
  BY <1>2, <1>4, <1>5
<1>7. a + i = n * x + s
  BY <1>2, <1>4, <1>6
<1>8. (n * x + s) % n = s
  BY <1>4, <1>6, Remainder, ZenonT(30)
<1> QED BY <1>1, <1>3, <1>7, <1>8, ZenonT(30)

\* Slots are numbered from 0 on.
LEMMA SizeFacts ==
  ASSUME HashTypes, NEW h \in DOMAIN tables
  PROVE  /\ Size(h) \in Nat \ {0}
         /\ tables[h] \in [0 .. Size(h) - 1 -> Value]
<1>1. tables[h] \in Tables
  BY DEF HashTypes
<1> QED BY <1>1, TableFacts, ZenonT(30) DEF Size

\* A probe sequence stays in the table and begins again at its end.
LEMMA ProbeFacts ==
  ASSUME HashTypes, NEW h \in DOMAIN tables, NEW t \in Enqueuer, NEW i \in Nat
  PROVE  /\ Probe(t, h, i) \in 0 .. Size(h) - 1
         /\ i % Size(h) \in 0 .. Size(h) - 1 /\ i % Size(h) <= i
         /\ Probe(t, h, i % Size(h)) = Probe(t, h, i)
<1>1. PICK n : n = Size(h)
  BY ZenonT(30)
<1>2. PICK a : a = Hash[t]
  BY ZenonT(30)
<1>3. n \in Nat \ {0} /\ a \in Nat
  BY <1>1, <1>2, SizeFacts, HashAssumption, ZenonT(30)
<1>4. (a + i) % n \in 0 .. n - 1
  BY <1>3
<1>5. i % n \in 0 .. n - 1 /\ i % n <= i
  BY <1>3
<1>6. (a + (i % n)) % n = (a + i) % n
  BY <1>3, RemainderOfSum, ZenonT(30)
<1> QED BY <1>1, <1>2, <1>4, <1>5, <1>6, ZenonT(30) DEF Probe

\* What a thread has is in its hands or in a slot.
LEMMA OwnFacts ==
  ASSUME NEW t, NEW p
  PROVE  p \in Own(t) <=> \/ p = hmy[t].producer /\ p # 0
                          \/ \E h \in DOMAIN tables : \E i \in DOMAIN tables[h] :
                               tables[h][i].id = t /\ tables[h][i].producer = p
BY DEF Own, Slots

\* A step that keeps the ids of u in table h and frees no slot.
LEMMA FoundKept ==
  ASSUME HashTypes, HashTypes', NEW h \in DOMAIN tables, NEW u \in Enqueuer,
         h \in DOMAIN tables',
         DOMAIN tables'[h] = DOMAIN tables[h],
         \A j \in DOMAIN tables[h] : /\ tables[h][j].id = u => tables'[h][j].id = u
                                     /\ tables[h][j] # Free => tables'[h][j] # Free,
         Found(u, h)
  PROVE  Found(u, h)'
<1>1. Size(h)' = Size(h) /\ \A i : Probe(u, h, i)' = Probe(u, h, i)
  BY ZenonT(30) DEF Size, Probe
<1>2. \A i \in Nat : Probe(u, h, i) \in DOMAIN tables[h]
  BY SizeFacts, ProbeFacts, ZenonT(30)
<1>3. Size(h) \in Nat
  BY SizeFacts, ZenonT(30)
<1>4. PICK i \in 0 .. Size(h) - 1 : /\ tables[h][Probe(u, h, i)].id = u
                                    /\ \A j \in 0 .. i - 1 : tables[h][Probe(u, h, j)] # Free
  BY ZenonT(30) DEF Found
<1>5. tables'[h][Probe(u, h, i)].id = u
  BY <1>2, <1>3, <1>4
<1>6. \A j \in 0 .. i - 1 : tables'[h][Probe(u, h, j)] # Free
  BY <1>2, <1>3, <1>4
<1> QED BY <1>1, <1>4, <1>5, <1>6, ZenonT(30) DEF Found

-----------------------------------------------------------------------------
\* A step of t leaves the others' locals and slots alone, and frees no slot.
Others(t) == \A u \in Enqueuer \ {t} : hpc'[u] = hpc[u] /\ hmy'[u] = hmy[u]

Framed(t) ==
  /\ Others(t)
  /\ Len(tables) <= Len(tables') /\ Len(inactive) <= Len(inactive')
  /\ \A h \in DOMAIN tables :
       /\ DOMAIN tables'[h] = DOMAIN tables[h]
       /\ \A j \in DOMAIN tables[h] :
            /\ tables[h][j] # Free => tables'[h][j] # Free
            /\ \A u \in Enqueuer \ {t} :
                 tables[h][j].id = u \/ tables'[h][j].id = u => tables'[h][j] = tables[h][j]
  /\ \A h \in DOMAIN tables' \ DOMAIN tables :
       \A j \in DOMAIN tables'[h] : tables'[h][j] = Free

\* A step of t by HashGoto.
LEMMA GotoHash ==
  ASSUME HashTypes, NEW t \in Enqueuer, NEW l \in Label, NEW m \in HashLocal,
         HashGoto(t, l, m)
  PROVE  /\ hpc'[t] = l /\ hmy'[t] = m /\ Others(t)
         /\ hpc' \in [Enqueuer -> Label] /\ hmy' \in [Enqueuer -> HashLocal]
BY ZenonT(30) DEF HashTypes, HashGoto, Others

\* A step that leaves the tables alone.
LEMMA SameFramed ==
  ASSUME HashTypes, NEW t \in Enqueuer, Others(t), tables' = tables,
         Len(inactive) <= Len(inactive')
  PROVE  Framed(t)
BY DEF Framed, HashTypes

\* The other threads.
LEMMA OtherEnqueuer ==
  ASSUME HashIInv, HashTypes', NEW t \in Enqueuer, Framed(t), NEW u \in Enqueuer \ {t}
  PROVE  ThreadOK(u)' /\ Own(u)' \subseteq Own(u)
<1>0. HashTypes /\ ThreadOK(u)
  BY ZenonT(30) DEF HashIInv
<1>1. hpc'[u] = hpc[u] /\ hmy'[u] = hmy[u]
  BY ZenonT(30) DEF Framed, Others
<1>2. /\ Len(tables) \in Nat /\ Len(tables') \in Nat /\ Len(tables) <= Len(tables')
      /\ DOMAIN tables = 1 .. Len(tables) /\ DOMAIN tables' = 1 .. Len(tables')
      /\ Len(inactive) \in Nat /\ Len(inactive') \in Nat /\ Len(inactive) <= Len(inactive')
  BY <1>0 DEF HashTypes, Framed
<1>3. ASSUME NEW h \in DOMAIN tables', In(u, h)'
      PROVE  h \in DOMAIN tables /\ In(u, h)
  <2>1. PICK j \in DOMAIN tables'[h] : tables'[h][j].id = u
    BY <1>3, ZenonT(30) DEF In
  <2>2. Free.id # u
    BY HashAssumption, ZenonT(30) DEF Free
  <2>3. h \in DOMAIN tables
    BY <2>1, <2>2, ZenonT(30) DEF Framed
  <2>4. j \in DOMAIN tables[h] /\ tables'[h][j] = tables[h][j]
    BY <2>1, <2>3, ZenonT(30) DEF Framed
  <2> QED BY <2>1, <2>3, <2>4, ZenonT(30) DEF In
<1>4. LocalOK(u)'
  BY <1>0, <1>1, <1>2, SMTT(30) DEF ThreadOK, LocalOK
<1>5. FoundOK(u)'
  <2> SUFFICES ASSUME NEW h \in DOMAIN tables', In(u, h)' PROVE Found(u, h)'
    BY ZenonT(30) DEF FoundOK
  <2>1. h \in DOMAIN tables /\ Found(u, h)
    BY <1>0, <1>3, ZenonT(30) DEF ThreadOK, FoundOK
  <2>2. DOMAIN tables'[h] = DOMAIN tables[h]
    BY <2>1, ZenonT(30) DEF Framed
  <2>3. \A j \in DOMAIN tables[h] : /\ tables[h][j].id = u => tables'[h][j].id = u
                                    /\ tables[h][j] # Free => tables'[h][j] # Free
    BY <2>1, ZenonT(30) DEF Framed
  <2> QED BY <1>0, <2>1, <2>2, <2>3, FoundKept, ZenonT(30)
<1>6. ProbedOK(u)'
  <2> SUFFICES ASSUME hpc[u] \in {"copy", "insert"}, NEW j \in 0 .. hmy[u].slot - 1
               PROVE  tables'[hmy[u].main][Probe(u, hmy[u].main, j)'] # Free
    BY <1>1, ZenonT(30) DEF ProbedOK
  <2>1. PICK h : h = hmy[u].main
    BY ZenonT(30)
  <2>2. h \in DOMAIN tables /\ j \in Nat
    <3>1. h \in DOMAIN tables
      BY <1>0, <1>2, <2>1, SMTT(30) DEF ThreadOK, LocalOK
    <3>2. hmy[u].slot \in Nat
      BY <1>0, ZenonT(30) DEF HashTypes, HashLocal
    <3> QED BY <3>1, <3>2
  <2>3. tables[h][Probe(u, h, j)] # Free
    BY <1>0, <2>1, ZenonT(30) DEF ThreadOK, ProbedOK
  <2>4. Probe(u, h, j) \in DOMAIN tables[h]
    BY <1>0, <2>2, ProbeFacts, SizeFacts, ZenonT(30)
  <2>5. Probe(u, h, j)' = Probe(u, h, j)
    BY <2>2, ZenonT(30) DEF Probe, Size, Framed
  <2>6. tables'[h][Probe(u, h, j)] # Free
    BY <2>2, <2>3, <2>4, ZenonT(30) DEF Framed
  <2> QED BY <1>1, <2>1, <2>5, <2>6, ZenonT(30)
<1>7. AbsentOK(u)'
  BY <1>0, <1>1, <1>3, ZenonT(30) DEF ThreadOK, AbsentOK
<1>8. ASSUME NEW p \in Own(u)' PROVE p \in Own(u)
  <2>1. CASE p = hmy[u].producer /\ p # 0
    BY <2>1, OwnFacts, ZenonT(30)
  <2>2. CASE \E h \in DOMAIN tables' : \E i \in DOMAIN tables'[h] :
               tables'[h][i].id = u /\ tables'[h][i].producer = p
    <3>0. PICK h \in DOMAIN tables' : \E i \in DOMAIN tables'[h] :
                 tables'[h][i].id = u /\ tables'[h][i].producer = p
      BY <2>2, ZenonT(30)
    <3>1. PICK i \in DOMAIN tables'[h] : tables'[h][i].id = u /\ tables'[h][i].producer = p
      BY <3>0, ZenonT(30)
    <3>2. h \in DOMAIN tables
      BY <3>1, <1>3, ZenonT(30) DEF In
    <3>3. i \in DOMAIN tables[h] /\ tables'[h][i] = tables[h][i]
      BY <3>1, <3>2, ZenonT(30) DEF Framed
    <3> QED BY <3>1, <3>2, <3>3, OwnFacts, ZenonT(30)
  <2>3. \/ p = hmy'[u].producer /\ p # 0
        \/ \E h \in DOMAIN tables' : \E i \in DOMAIN tables'[h] :
             tables'[h][i].id = u /\ tables'[h][i].producer = p
    BY DEF Own, Slots
  <2> QED BY <1>1, <2>1, <2>2, <2>3, ZenonT(30)
<1> QED BY <1>4, <1>5, <1>6, <1>7, <1>8, ZenonT(30) DEF ThreadOK

\* Whatever t does, the others keep what the invariant says of them.
LEMMA EnqueuerStep ==
  ASSUME HashIInv, HashTypes', NEW t \in Enqueuer, Framed(t), ThreadOK(t)',
         Own(t)' \subseteq Own(t), inactive' = inactive, Counted'
  PROVE  HashIInv'
<1>1. \A u \in Enqueuer : ThreadOK(u)' /\ Own(u)' \subseteq Own(u)
  BY OtherEnqueuer, ZenonT(30)
<1>2. Alone'
  BY <1>1 DEF HashIInv, Alone
<1> QED BY <1>1, <1>2, ZenonT(30) DEF HashIInv

-----------------------------------------------------------------------------
\* The threads that are counted

\* There are finitely many newcomers.
LEMMA NewcomersFinite == IsFiniteSet(Newcomers) /\ Cardinality(Newcomers) \in Nat
<1>1. Newcomers \subseteq Enqueuer
  BY ZenonT(30) DEF Newcomers
<1> QED BY <1>1, HashAssumption, FS_Subset, FS_CardinalityType, ZenonT(30)

\* count stays and there is no newcomer more.
LEMMA CountSame ==
  ASSUME HashIInv, NEW t \in Enqueuer, Others(t), count' = count,
         hpc'[t] \in {"fit", "grow", "room", "insert", "uncount"} =>
           hpc[t] \in {"fit", "grow", "room", "insert", "uncount"}
  PROVE  Counted'
<1>1. Newcomers' \subseteq Newcomers
  BY ZenonT(30) DEF Newcomers, Others
<1>2. Cardinality(Newcomers') <= Cardinality(Newcomers) /\ Cardinality(Newcomers') \in Nat
  BY <1>1, NewcomersFinite, FS_Subset, FS_CardinalityType, ZenonT(30)
<1> QED BY <1>2, NewcomersFinite DEF HashIInv, HashTypes, Counted

\* count and the newcomers are one more.
LEMMA CountMore ==
  ASSUME HashIInv, NEW t \in Enqueuer, Others(t), count' = count + 1, hpc[t] = "idle"
  PROVE  Counted'
<1>1. Newcomers' \subseteq Newcomers \cup {t}
  BY ZenonT(30) DEF Newcomers, Others
<1>2a. /\ IsFiniteSet(Newcomers \cup {t})
       /\ Cardinality(Newcomers \cup {t}) =
            IF t \in Newcomers THEN Cardinality(Newcomers) ELSE Cardinality(Newcomers) + 1
  BY NewcomersFinite, FS_AddElement, ZenonT(30)
<1>2b. Cardinality(Newcomers) \in Nat
  BY NewcomersFinite, FS_CardinalityType, ZenonT(30)
<1>2. /\ IsFiniteSet(Newcomers \cup {t})
      /\ Cardinality(Newcomers \cup {t}) <= Cardinality(Newcomers) + 1
  BY <1>2a, <1>2b
<1>3. /\ Cardinality(Newcomers') <= Cardinality(Newcomers \cup {t})
      /\ Cardinality(Newcomers') \in Nat
  BY <1>1, <1>2, FS_Subset, FS_CardinalityType, ZenonT(30)
<1>4. Cardinality(Newcomers \cup {t}) \in Nat
  BY <1>2, FS_CardinalityType, ZenonT(30)
<1> QED BY <1>2, <1>3, <1>4, NewcomersFinite, SMTT(30) DEF HashIInv, HashTypes, Counted

\* count and the newcomers are one less.
LEMMA CountLess ==
  ASSUME HashIInv, NEW t \in Enqueuer, Others(t), count' = count - 1,
         hpc[t] \in {"fit", "grow", "room", "insert", "uncount"}, hpc'[t] = "idle"
  PROVE  Counted' /\ count' \in Int
<1>1. Newcomers' = Newcomers \ {t} /\ t \in Newcomers
  BY ZenonT(30) DEF Newcomers, Others
<1>2. Cardinality(Newcomers') = Cardinality(Newcomers) - 1
  BY <1>1, NewcomersFinite, FS_RemoveElement, ZenonT(30)
<1> QED BY <1>2, NewcomersFinite, SMTT(30) DEF HashIInv, HashTypes, Counted

-----------------------------------------------------------------------------
\* Looking up

\* A set of numbers has a least one.
LEMMA Least ==
  ASSUME NEW T \in SUBSET Nat, T # {}
  PROVE  \E x \in T : \A y \in T : x <= y
<1> DEFINE R == {p \in Nat \X Nat : p[1] < p[2]}
<1>1. IsWellFoundedOn(R, Nat)
  BY NatLessThanWellFounded, ZenonT(30) DEF OpToRel
<1> HIDE DEF R
<1>2. PICK x \in T : \A y \in T : ~(<<y, x>> \in R)
  BY <1>1, WFMin, ZenonT(30)
<1>3. \A y \in T : y < x => <<y, x>> \in R
  BY ZenonT(30) DEF R
<1>4. \A y \in T : ~(y < x)
  BY <1>2, <1>3, ZenonT(30)
<1> QED BY <1>4

\* A bounded one has a greatest.
LEMMA Greatest ==
  ASSUME NEW n \in Nat, NEW T \in SUBSET (1 .. n), T # {}
  PROVE  \E x \in T : \A y \in T : y <= x
<1> DEFINE U == {n - x : x \in T}
<1>0. \A x \in T : n - x \in Nat
  OBVIOUS
<1>1. U \in SUBSET Nat /\ U # {}
  BY <1>0, ZenonT(30)
<1>2. PICK z \in U : \A y \in U : z <= y
  <2> HIDE DEF U
  <2> QED BY <1>1, Least, ZenonT(30)
<1>3. PICK x \in T : z = n - x
  BY ZenonT(30)
<1>4. \A y \in T : n - y \in U
  BY ZenonT(30)
<1>5. \A y \in T : y <= x
  BY <1>2, <1>3, <1>4, SMTT(30)
<1> QED BY <1>5, ZenonT(30)

\* A thread that is found in a table has a slot there.
LEMMA FoundIn ==
  ASSUME HashTypes, NEW t \in Enqueuer, NEW h \in DOMAIN tables, Found(t, h)
  PROVE  In(t, h)
<1>1. PICK i \in 0 .. Size(h) - 1 : tables[h][Probe(t, h, i)].id = t
  BY ZenonT(30) DEF Found
<1>2. i \in Nat
  BY SizeFacts
<1>3. Probe(t, h, i) \in DOMAIN tables[h]
  BY <1>2, ProbeFacts, SizeFacts, ZenonT(30)
<1> QED BY <1>1, <1>3, ZenonT(30) DEF In

\* The producer of the newest slot is its own.
LEMMA KnownFacts ==
  ASSUME HashIInv, NEW t \in Enqueuer, Known(t) # {}
  PROVE  /\ ProducerIn(t, Newest(t)) \in Own(t)
         /\ ProducerIn(t, Newest(t)) \in 1 .. Len(inactive)
<1>0. HashTypes
  BY ZenonT(30) DEF HashIInv
<1>1. Known(t) \in SUBSET (1 .. Len(tables)) /\ Len(tables) \in Nat
  BY <1>0 DEF Known, HashTypes
<1>2. \E h \in Known(t) : \A g \in Known(t) : g <= h
  BY <1>1, Greatest, ZenonT(30)
<1>3. PICK h : h = Newest(t)
  BY ZenonT(30)
<1>4. h \in Known(t)
  BY <1>2, <1>3, ZenonT(30) DEF Newest
<1>5. h \in DOMAIN tables /\ Found(t, h)
  BY <1>4, ZenonT(30) DEF Known
<1>6. \E s \in Slots(h) : s.id = t
  BY <1>0, <1>5, FoundIn DEF In, Slots
<1>7. PICK s \in Slots(h) : s.id = t /\ s.producer = ProducerIn(t, h)
  BY <1>6, ZenonT(30) DEF ProducerIn
<1>8. ProducerIn(t, h) \in Own(t)
  <2>1. PICK i \in DOMAIN tables[h] : s = tables[h][i]
    BY ZenonT(30) DEF Slots
  <2> QED BY <1>5, <1>7, <2>1, OwnFacts
<1>9. ProducerIn(t, h) \in DOMAIN inactive
  BY <1>8, ZenonT(30) DEF HashIInv, Alone
<1> QED BY <1>0, <1>3, <1>8, <1>9 DEF HashTypes

-----------------------------------------------------------------------------
\* Steps that leave the tables alone

\* What is said of slots is as before.
LEMMA SameSlots ==
  ASSUME tables' = tables, NEW t, NEW h
  PROVE  /\ In(t, h)' <=> In(t, h)
         /\ Found(t, h)' <=> Found(t, h)
         /\ \A j : Probe(t, h, j)' = Probe(t, h, j)
<1>1. Size(h)' = Size(h) /\ \A j : Probe(t, h, j)' = Probe(t, h, j)
  BY ZenonT(30) DEF Size, Probe
<1> QED BY <1>1, ZenonT(30) DEF In, Found

\* A step of t that writes no table and no producer.
LEMMA QuietEnqueuer ==
  ASSUME HashIInv, HashTypes', NEW t \in Enqueuer, Others(t), tables' = tables,
         inactive' = inactive, LocalOK(t)', ProbedOK(t)', AbsentOK(t)',
         hmy'[t].producer \in Own(t) \cup {0}, Counted'
  PROVE  HashIInv'
<1>1. HashTypes /\ ThreadOK(t)
  BY ZenonT(30) DEF HashIInv
<1>2. Framed(t)
  BY <1>1, SameFramed DEF HashTypes
<1>3. FoundOK(t)'
  BY <1>1, SameSlots, ZenonT(30) DEF ThreadOK, FoundOK
<1>4. ASSUME NEW p \in Own(t)' PROVE p \in Own(t)
  <2>1. \/ p = hmy'[t].producer /\ p # 0
        \/ \E h \in DOMAIN tables : \E i \in DOMAIN tables[h] :
             tables[h][i].id = t /\ tables[h][i].producer = p
    BY DEF Own, Slots
  <2> QED BY <2>1, OwnFacts, ZenonT(30)
<1>5. ThreadOK(t)'
  BY <1>3, ZenonT(30) DEF ThreadOK
<1> QED BY <1>2, <1>4, <1>5, EnqueuerStep, ZenonT(30)

\* An id in an older table.
LEMMA LookupOldStep ==
  ASSUME HashIInv, NEW t \in Enqueuer, LookupOld(t)
  PROVE  HashIInv'
<1>0. HashTypes /\ ThreadOK(t)
  BY ZenonT(30) DEF HashIInv
<1>1. /\ hpc[t] = "idle" /\ Known(t) # {} /\ tables' = tables /\ count' = count
      /\ resizing' = resizing /\ inactive' = inactive /\ exits' = exits
  BY ZenonT(30) DEF LookupOld
<1>2. PICK p : p = ProducerIn(t, Newest(t))
  BY ZenonT(30)
<1>3. p \in Own(t) /\ p \in 1 .. Len(inactive) /\ Len(inactive) \in Nat
  BY <1>0, <1>1, <1>2, KnownFacts DEF HashTypes
<1>4. Len(tables) \in Nat /\ Len(tables) > 0
  BY <1>0 DEF HashTypes
<1>5. PICK m : m = [NoHashLocals EXCEPT !.main = Len(tables), !.producer = p]
  BY ZenonT(30)
<1>6. m \in HashLocal /\ m.main = Len(tables) /\ m.producer = p /\ m.slot = 0
  <2>1. m = [count |-> 0, main |-> Len(tables), slot |-> 0, producer |-> p]
    BY <1>5, ZenonT(30) DEF NoHashLocals
  <2> QED BY <1>3, <1>4, <2>1 DEF HashLocal
<1>7. HashGoto(t, "copy", m)
  BY <1>2, <1>5, ZenonT(30) DEF LookupOld
<1>8. /\ hpc'[t] = "copy" /\ hmy'[t] = m /\ Others(t)
      /\ hpc' \in [Enqueuer -> Label] /\ hmy' \in [Enqueuer -> HashLocal]
  BY <1>0, <1>6, <1>7, GotoHash, ZenonT(30) DEF Label
<1>9. HashTypes'
  BY <1>0, <1>1, <1>8, ZenonT(30) DEF HashTypes
<1>10. LocalOK(t)'
  BY <1>1, <1>3, <1>4, <1>6, <1>8 DEF LocalOK
<1>11. ProbedOK(t)'
  BY <1>6, <1>8 DEF ProbedOK
<1>12. AbsentOK(t)'
  BY <1>8, ZenonT(30) DEF AbsentOK
<1>13. Counted'
  BY <1>1, <1>8, CountSame, ZenonT(30)
<1>14. hmy'[t].producer \in Own(t) \cup {0}
  BY <1>3, <1>6, <1>8, ZenonT(30)
<1> QED BY <1>1, <1>8, <1>9, <1>10, <1>11, <1>12, <1>13, <1>14, QuietEnqueuer, ZenonT(30)

\* A thread that leaves.
LEMMA ExitStep ==
  ASSUME HashIInv, NEW t \in Enqueuer, Exit(t)
  PROVE  HashIInv'
<1>0. HashTypes /\ ThreadOK(t)
  BY ZenonT(30) DEF HashIInv
<1>1. /\ hpc[t] = "idle" /\ Known(t) # {} /\ tables' = tables /\ count' = count
      /\ resizing' = resizing /\ inactive' = inactive
      /\ exits < MaxExits /\ exits' = exits + 1
  BY ZenonT(30) DEF Exit
<1>2. PICK p : p = ProducerIn(t, Newest(t))
  BY ZenonT(30)
<1>3. p \in Own(t) /\ p \in 1 .. Len(inactive) /\ Len(inactive) \in Nat
  BY <1>0, <1>1, <1>2, KnownFacts DEF HashTypes
<1>4. Len(tables) \in Nat /\ Len(tables) > 0
  BY <1>0 DEF HashTypes
<1>5. PICK m : m = [NoHashLocals EXCEPT !.main = Len(tables), !.producer = p]
  BY ZenonT(30)
<1>6. m \in HashLocal /\ m.main = Len(tables) /\ m.producer = p
  <2>1. m = [count |-> 0, main |-> Len(tables), slot |-> 0, producer |-> p]
    BY <1>5, ZenonT(30) DEF NoHashLocals
  <2> QED BY <1>3, <1>4, <2>1 DEF HashLocal
<1>7. HashGoto(t, "exit", m)
  BY <1>2, <1>5, ZenonT(30) DEF Exit
<1>8. /\ hpc'[t] = "exit" /\ hmy'[t] = m /\ Others(t)
      /\ hpc' \in [Enqueuer -> Label] /\ hmy' \in [Enqueuer -> HashLocal]
  BY <1>0, <1>6, <1>7, GotoHash, ZenonT(30) DEF Label
<1>9. HashTypes'
  <2>1. exits' \in 0 .. MaxExits
    BY <1>0, <1>1, HashAssumption DEF HashTypes
  <2> QED BY <1>0, <1>1, <1>8, <2>1, ZenonT(30) DEF HashTypes
<1>10. LocalOK(t)'
  BY <1>1, <1>3, <1>4, <1>6, <1>8 DEF LocalOK
<1>11. ProbedOK(t)'
  BY <1>8, ZenonT(30) DEF ProbedOK
<1>12. AbsentOK(t)'
  <2>1. \A h \in DOMAIN tables : ~(h > m.main)
    BY <1>0, <1>4, <1>6 DEF HashTypes
  <2> QED BY <1>1, <1>8, <2>1, ZenonT(30) DEF AbsentOK
<1>13. Counted'
  BY <1>1, <1>8, CountSame, ZenonT(30)
<1>14. hmy'[t].producer \in Own(t) \cup {0}
  BY <1>3, <1>6, <1>8, ZenonT(30)
<1> QED BY <1>1, <1>8, <1>9, <1>10, <1>11, <1>12, <1>13, <1>14, QuietEnqueuer, ZenonT(30)

\* A thread that has no producer at hand goes on.
LEMMA MoveStep ==
  ASSUME HashIInv, NEW t \in Enqueuer, NEW l \in {"idle", "fit", "grow", "room"},
         NEW m \in HashLocal, HashGoto(t, l, m),
         m.producer = 0, m.main <= Len(tables), l # "idle" => m.main > 0 /\ m.slot = 0,
         l # "idle" => \A h \in DOMAIN tables : ~ In(t, h),
         tables' = tables, inactive' = inactive, resizing' \in {0, 1}, exits' = exits,
         count' \in Int, Counted'
  PROVE  HashIInv'
<1>0. HashTypes
  BY ZenonT(30) DEF HashIInv
<1>1. /\ hpc'[t] = l /\ hmy'[t] = m /\ Others(t)
      /\ hpc' \in [Enqueuer -> Label] /\ hmy' \in [Enqueuer -> HashLocal]
  BY <1>0, GotoHash DEF Label
<1>2. HashTypes'
  BY <1>0, <1>1, ZenonT(30) DEF HashTypes
<1>3. LocalOK(t)'
  <2>1. Len(inactive) \in Nat /\ m.main \in 0 .. Len(tables)
    BY <1>0 DEF HashTypes, HashLocal
  <2> QED BY <1>1, <2>1 DEF LocalOK
<1>4. ProbedOK(t)'
  BY <1>1, ZenonT(30) DEF ProbedOK
<1>5. AbsentOK(t)'
  BY <1>1, SameSlots, ZenonT(30) DEF AbsentOK
<1>6. hmy'[t].producer \in Own(t) \cup {0}
  BY <1>1, ZenonT(30)
<1> QED BY <1>1, <1>2, <1>3, <1>4, <1>5, <1>6, QuietEnqueuer, ZenonT(30)

\* The locals of a thread that is adding itself.
LEMMA NewcomerFacts ==
  ASSUME HashIInv, NEW t \in Enqueuer
  PROVE  /\ hmy[t] \in HashLocal /\ hmy[t].main \in Nat /\ hmy[t].main <= Len(tables)
         /\ Len(tables) \in Nat /\ Len(tables) > 0
         /\ count \in Int /\ resizing \in {0, 1}
         /\ NoHashLocals \in HashLocal /\ NoHashLocals.producer = 0 /\ NoHashLocals.main = 0
         /\ hpc[t] \in {"fit", "grow", "room"} =>
              /\ hmy[t].producer = 0 /\ hmy[t].main > 0 /\ hmy[t].slot = 0
              /\ \A h \in DOMAIN tables : ~ In(t, h)
<1>1. HashTypes /\ LocalOK(t) /\ AbsentOK(t)
  BY ZenonT(30) DEF HashIInv, ThreadOK
<1>2. NoHashLocals \in HashLocal /\ NoHashLocals.producer = 0 /\ NoHashLocals.main = 0
  BY ZenonT(30) DEF NoHashLocals, HashLocal
<1>3. hmy[t] \in HashLocal /\ count \in Int /\ resizing \in {0, 1}
  BY <1>1, ZenonT(30) DEF HashTypes
<1>4. Len(tables) \in Nat /\ Len(tables) > 0
  BY <1>1 DEF HashTypes
<1>5. hmy[t].main \in Nat /\ hmy[t].main <= Len(tables)
  BY <1>1, <1>4 DEF LocalOK
<1> QED BY <1>1, <1>2, <1>3, <1>4, <1>5, ZenonT(30) DEF LocalOK, AbsentOK

\* An id that is in no table is in none of the slots.
LEMMA LookupNoneStep ==
  ASSUME HashIInv, NEW t \in Enqueuer, LookupNone(t)
  PROVE  HashIInv'
<1>0. HashTypes /\ ThreadOK(t)
  BY ZenonT(30) DEF HashIInv
<1>1. /\ hpc[t] = "idle" /\ Known(t) = {} /\ tables' = tables /\ count' = count + 1
      /\ resizing' = resizing /\ inactive' = inactive /\ exits' = exits
  BY ZenonT(30) DEF LookupNone
<1>2. PICK m : m = [NoHashLocals EXCEPT !.count = count', !.main = Len(tables)]
  BY ZenonT(30)
<1>3. count' \in Nat
  BY <1>0, <1>1, NewcomersFinite DEF HashIInv, HashTypes, Counted
<1>4. m \in HashLocal /\ m.main = Len(tables) /\ m.producer = 0 /\ m.slot = 0
  <2>1. m = [count |-> count', main |-> Len(tables), slot |-> 0, producer |-> 0]
    BY <1>2, ZenonT(30) DEF NoHashLocals
  <2> QED BY <1>3, <2>1, NewcomerFacts, ZenonT(30) DEF HashLocal
<1>5. HashGoto(t, "fit", m)
  BY <1>2, ZenonT(30) DEF LookupNone
<1>6. \A h \in DOMAIN tables : ~ In(t, h)
  BY <1>0, <1>1, ZenonT(30) DEF ThreadOK, FoundOK, Known
<1>7. Counted'
  BY <1>0, <1>1, <1>4, <1>5, GotoHash, CountMore, ZenonT(30) DEF Label
<1>8. m.main <= Len(tables) /\ m.main > 0 /\ count' \in Int /\ resizing' \in {0, 1}
  BY <1>1, <1>3, <1>4, NewcomerFacts
<1> QED BY <1>1, <1>4, <1>5, <1>6, <1>7, <1>8, MoveStep, ZenonT(30)

\* The flag is taken.
LEMMA GrabStep ==
  ASSUME HashIInv, NEW t \in Enqueuer, Grab(t)
  PROVE  HashIInv'
<1>0. HashTypes
  BY ZenonT(30) DEF HashIInv
<1>1. /\ hpc[t] = "fit" /\ tables' = tables /\ count' = count /\ resizing' = 1
      /\ inactive' = inactive /\ exits' = exits
  BY ZenonT(30) DEF Grab
<1>2. PICK m : m = [hmy[t] EXCEPT !.main = Len(tables)]
  BY ZenonT(30)
<1>3. m \in HashLocal /\ m.main = Len(tables) /\ m.producer = 0 /\ m.slot = 0
  BY <1>1, <1>2, NewcomerFacts, ZenonT(30) DEF HashLocal
<1>4. HashGoto(t, "grow", m)
  BY <1>2, ZenonT(30) DEF Grab
<1>5. Counted'
  BY <1>0, <1>1, <1>3, <1>4, GotoHash, CountSame, ZenonT(30) DEF Label
<1> QED BY <1>1, <1>3, <1>4, <1>5, NewcomerFacts, MoveStep

\* The table is read again.
LEMMA FullStep ==
  ASSUME HashIInv, NEW t \in Enqueuer, Full(t)
  PROVE  HashIInv'
<1>0. HashTypes
  BY ZenonT(30) DEF HashIInv
<1>1. /\ hpc[t] = "room" /\ tables' = tables /\ count' = count /\ resizing' = resizing
      /\ inactive' = inactive /\ exits' = exits
  BY ZenonT(30) DEF Full
<1>2. PICK m : m = [hmy[t] EXCEPT !.main = Len(tables)]
  BY ZenonT(30)
<1>3. m \in HashLocal /\ m.main = Len(tables) /\ m.producer = 0 /\ m.slot = 0
  BY <1>1, <1>2, NewcomerFacts, ZenonT(30) DEF HashLocal
<1>4. HashGoto(t, "fit", m)
  BY <1>2, ZenonT(30) DEF Full
<1>5. Counted'
  BY <1>0, <1>1, <1>3, <1>4, GotoHash, CountSame, ZenonT(30) DEF Label
<1> QED BY <1>1, <1>3, <1>4, <1>5, NewcomerFacts, MoveStep

\* The old table is kept.
LEMMA NoGrowStep ==
  ASSUME HashIInv, NEW t \in Enqueuer, NoGrow(t)
  PROVE  HashIInv'
<1>0. HashTypes
  BY ZenonT(30) DEF HashIInv
<1>1. /\ hpc[t] = "fit" /\ tables' = tables /\ count' = count /\ resizing' = resizing
      /\ inactive' = inactive /\ exits' = exits /\ HashGoto(t, "room", hmy[t])
  BY ZenonT(30) DEF NoGrow
<1>2. Counted'
  BY <1>0, <1>1, GotoHash, CountSame, NewcomerFacts, ZenonT(30) DEF Label
<1> QED BY <1>1, <1>2, NewcomerFacts, MoveStep, ZenonT(30)

\* A failed allocation takes the thread out of the count.
LEMMA FailStep ==
  ASSUME HashIInv, NEW t \in Enqueuer, Fail(t)
  PROVE  HashIInv'
<1>0. HashTypes
  BY ZenonT(30) DEF HashIInv
<1>1. /\ hpc[t] \in {"grow", "room"} /\ tables' = tables /\ count' = count - 1
      /\ inactive' = inactive /\ exits' = exits /\ HashGoto(t, "idle", NoHashLocals)
      /\ resizing' \in {0, resizing}
  BY ZenonT(30) DEF Fail
<1>2. Counted' /\ count' \in Int
  BY <1>0, <1>1, GotoHash, CountLess, NewcomerFacts, ZenonT(30) DEF Label
<1>3. resizing' \in {0, 1} /\ NoHashLocals.main <= Len(tables)
  BY <1>1, NewcomerFacts
<1> QED BY <1>1, <1>2, <1>3, NewcomerFacts, MoveStep, ZenonT(30)

\* A reused slot does so too.
LEMMA UncountStep ==
  ASSUME HashIInv, NEW t \in Enqueuer, Uncount(t)
  PROVE  HashIInv'
<1>0. HashTypes
  BY ZenonT(30) DEF HashIInv
<1>1. /\ hpc[t] = "uncount" /\ tables' = tables /\ count' = count - 1
      /\ inactive' = inactive /\ exits' = exits /\ HashGoto(t, "idle", NoHashLocals)
      /\ resizing' = resizing
  BY ZenonT(30) DEF Uncount
<1>2. Counted' /\ count' \in Int
  BY <1>0, <1>1, GotoHash, CountLess, NewcomerFacts, ZenonT(30) DEF Label
<1>3. resizing' \in {0, 1} /\ NoHashLocals.main <= Len(tables)
  BY <1>1, NewcomerFacts
<1> QED BY <1>1, <1>2, <1>3, NewcomerFacts, MoveStep, ZenonT(30)

-----------------------------------------------------------------------------
\* Insertions

\* The slot that t tries.
LEMMA SlotFacts ==
  ASSUME HashIInv, NEW t \in Enqueuer, hpc[t] \in {"copy", "insert"}
  PROVE  /\ hmy[t].main \in DOMAIN tables /\ hmy[t].slot \in Nat
         /\ Slot(t) \in DOMAIN tables[hmy[t].main]
         /\ hmy[t].producer \in Own(t) /\ hmy[t].producer \in Nat \ {0}
<1>1. HashTypes /\ LocalOK(t)
  BY ZenonT(30) DEF HashIInv, ThreadOK
<1>2. /\ hmy[t].main \in DOMAIN tables /\ hmy[t].slot \in Nat
      /\ hmy[t].producer \in Nat \ {0}
  BY <1>1 DEF HashTypes, LocalOK, HashLocal
<1>3. Slot(t) \in DOMAIN tables[hmy[t].main]
  BY <1>1, <1>2, ProbeFacts, SizeFacts, ZenonT(30) DEF Slot
<1>4. hmy[t].producer \in Own(t)
  BY <1>2, OwnFacts, ZenonT(30)
<1> QED BY <1>2, <1>3, <1>4, ZenonT(30)

\* It is taken: the next one.
LEMMA PassStep ==
  ASSUME HashIInv, NEW t \in Enqueuer, hpc[t] \in {"copy", "insert"},
         tables[hmy[t].main][Slot(t)] # Free,
         HashGoto(t, hpc[t], [hmy[t] EXCEPT !.slot = @ + 1]),
         tables' = tables, count' = count, resizing' = resizing, inactive' = inactive,
         exits' = exits
  PROVE  HashIInv'
<1>0. HashTypes /\ ThreadOK(t)
  BY ZenonT(30) DEF HashIInv
<1>1. PICK m : m = [hmy[t] EXCEPT !.slot = @ + 1]
  BY ZenonT(30)
<1>2. /\ m \in HashLocal /\ m.main = hmy[t].main /\ m.slot = hmy[t].slot + 1
      /\ m.producer = hmy[t].producer
  <2>1. PICK r : r = hmy[t]
    BY ZenonT(30)
  <2>2. r \in HashLocal
    BY <1>0, <2>1, ZenonT(30) DEF HashTypes
  <2>3. m = [r EXCEPT !.slot = @ + 1]
    BY <1>1, <2>1, ZenonT(30)
  <2>4. /\ m \in HashLocal /\ m.main = r.main /\ m.slot = r.slot + 1
        /\ m.producer = r.producer
    BY <2>2, <2>3 DEF HashLocal
  <2> QED BY <2>1, <2>4, ZenonT(30)
<1>3. hpc[t] \in Label
  BY ZenonT(30) DEF Label
<1>4. /\ hpc'[t] = hpc[t] /\ hmy'[t] = m /\ Others(t)
      /\ hpc' \in [Enqueuer -> Label] /\ hmy' \in [Enqueuer -> HashLocal]
  BY <1>0, <1>1, <1>2, <1>3, GotoHash
<1>5. HashTypes'
  BY <1>0, <1>4, ZenonT(30) DEF HashTypes
<1>6. LocalOK(t)'
  BY <1>0, <1>2, <1>4, ZenonT(30) DEF ThreadOK, LocalOK
<1>7. ProbedOK(t)'
  <2> SUFFICES ASSUME NEW j \in 0 .. m.slot - 1
               PROVE  tables[m.main][Probe(t, m.main, j)'] # Free
    BY <1>4, ZenonT(30) DEF ProbedOK
  <2>1. Probe(t, m.main, j)' = Probe(t, hmy[t].main, j)
    BY <1>2, SameSlots, ZenonT(30)
  <2>2. hmy[t].slot \in Nat
    BY SlotFacts, ZenonT(30)
  <2>3. CASE j = hmy[t].slot
    BY <1>2, <2>1, <2>3, ZenonT(30) DEF Slot
  <2>4. CASE j \in 0 .. hmy[t].slot - 1
    BY <1>0, <1>2, <2>1, <2>4, ZenonT(30) DEF ThreadOK, ProbedOK
  <2> QED BY <1>2, <2>2, <2>3, <2>4
<1>8. AbsentOK(t)'
  BY <1>0, <1>4, SameSlots, ZenonT(30) DEF ThreadOK, AbsentOK
<1>9. Counted'
  BY <1>4, CountSame, ZenonT(30)
<1>10. hmy'[t].producer \in Own(t) \cup {0}
  BY <1>2, <1>4, SlotFacts, ZenonT(30)
<1> QED BY <1>4, <1>5, <1>6, <1>7, <1>8, <1>9, <1>10, QuietEnqueuer, ZenonT(30)

\* The tables after a slot was given to t.
LEMMA Written ==
  ASSUME HashTypes, NEW t \in Enqueuer, NEW h \in DOMAIN tables, NEW i \in DOMAIN tables[h],
         NEW p \in Nat \ {0}, tables' = [tables EXCEPT ![h][i] = [id |-> t, producer |-> p]]
  PROVE  /\ tables' \in Seq(Tables) /\ Len(tables') = Len(tables)
         /\ \A g \in DOMAIN tables :
              /\ DOMAIN tables'[g] = DOMAIN tables[g]
              /\ \A j \in DOMAIN tables[g] :
                   tables'[g][j] = IF g = h /\ j = i THEN [id |-> t, producer |-> p]
                                   ELSE tables[g][j]
<1>1. PICK v : v = [id |-> t, producer |-> p]
  BY ZenonT(30)
<1>2. v \in Value
  BY <1>1, ZenonT(30) DEF Value
<1>3. PICK T : T = [tables[h] EXCEPT ![i] = v]
  BY ZenonT(30)
<1>4. T \in Tables
  <2>1. PICK n \in Nat \ {0} : tables[h] \in [0 .. n - 1 -> Value]
    BY TableFacts, SMTT(30) DEF HashTypes
  <2>2. T \in [0 .. n - 1 -> Value]
    BY <1>2, <1>3, <2>1, ZenonT(30)
  <2> QED BY <2>2, ZenonT(30) DEF Tables
<1>5. tables' = [tables EXCEPT ![h] = T]
  BY <1>1, <1>3, ZenonT(30)
<1>6. tables' \in Seq(Tables) /\ Len(tables') = Len(tables)
  <2>1. Len(tables) \in Nat /\ tables \in [1 .. Len(tables) -> Tables]
    BY DEF HashTypes
  <2>2. tables' \in [1 .. Len(tables) -> Tables]
    BY <1>4, <1>5, <2>1, ZenonT(30)
  <2> QED BY <2>1, <2>2
<1>7. /\ DOMAIN T = DOMAIN tables[h]
      /\ \A j \in DOMAIN tables[h] : T[j] = IF j = i THEN v ELSE tables[h][j]
  BY <1>3, ZenonT(30)
<1>8. \A g \in DOMAIN tables : tables'[g] = IF g = h THEN T ELSE tables[g]
  BY <1>5, ZenonT(30) DEF HashTypes
<1> QED BY <1>1, <1>6, <1>7, <1>8, ZenonT(30)

\* A slot that was free or given up becomes t's.
LEMMA TakeStep ==
  ASSUME HashIInv, NEW t \in Enqueuer, hpc[t] \in {"copy", "insert"},
         tables[hmy[t].main][Slot(t)] \in {Free, Reusable},
         tables' = [tables EXCEPT ![hmy[t].main][Slot(t)] =
                      [id |-> t, producer |-> hmy[t].producer]],
         NEW l \in {"idle", "uncount"}, HashGoto(t, l, NoHashLocals),
         l = "uncount" => hpc[t] = "insert",
         count' = count, resizing' = resizing, inactive' = inactive, exits' = exits
  PROVE  HashIInv'
<1>0. HashTypes /\ ThreadOK(t)
  BY ZenonT(30) DEF HashIInv
<1>1. PICK h, i, p : h = hmy[t].main /\ i = Slot(t) /\ p = hmy[t].producer
  BY ZenonT(30)
<1>2. /\ h \in DOMAIN tables /\ i \in DOMAIN tables[h] /\ p \in Nat \ {0} /\ p \in Own(t)
      /\ hmy[t].slot \in Nat
  BY <1>1, SlotFacts, ZenonT(30)
<1>3. /\ tables' \in Seq(Tables) /\ Len(tables') = Len(tables)
      /\ \A g \in DOMAIN tables :
           /\ DOMAIN tables'[g] = DOMAIN tables[g]
           /\ \A j \in DOMAIN tables[g] :
                tables'[g][j] = IF g = h /\ j = i THEN [id |-> t, producer |-> p]
                                ELSE tables[g][j]
  BY <1>0, <1>1, <1>2, Written, ZenonT(30)
<1>4. /\ hpc'[t] = l /\ hmy'[t] = NoHashLocals /\ Others(t)
      /\ hpc' \in [Enqueuer -> Label] /\ hmy' \in [Enqueuer -> HashLocal]
  BY <1>0, GotoHash, NewcomerFacts DEF Label
<1>5. HashTypes'
  BY <1>0, <1>3, <1>4, ZenonT(30) DEF HashTypes
<1>6. DOMAIN tables' = DOMAIN tables
  BY <1>0, <1>3, ZenonT(30) DEF HashTypes
<1>7. tables[h][i] \in {Free, Reusable}
  BY <1>1, ZenonT(30)
<1>8. \A u \in Enqueuer : Free.id # u /\ Reusable.id # u
  BY HashAssumption, ZenonT(30) DEF Free, Reusable
<1>9. [id |-> t, producer |-> p] # Free
  BY HashAssumption, ZenonT(30) DEF Free
<1>10. Framed(t)
  <2>1. ASSUME NEW g \in DOMAIN tables, NEW j \in DOMAIN tables[g]
        PROVE  /\ tables[g][j] # Free => tables'[g][j] # Free
               /\ \A u \in Enqueuer \ {t} :
                    tables[g][j].id = u \/ tables'[g][j].id = u => tables'[g][j] = tables[g][j]
    <3>1. CASE g = h /\ j = i
      <4>1. tables'[g][j] = [id |-> t, producer |-> p]
        BY <1>3, <3>1, ZenonT(30)
      <4> QED BY <1>7, <1>8, <1>9, <3>1, <4>1, ZenonT(30)
    <3>2. CASE ~(g = h /\ j = i)
      <4>1. tables'[g][j] = tables[g][j]
        BY <1>3, <3>2, ZenonT(30)
      <4> QED BY <4>1, ZenonT(30)
    <3> QED BY <3>1, <3>2, ZenonT(30)
  <2>2. Len(tables) <= Len(tables') /\ Len(inactive) <= Len(inactive')
    BY <1>0, <1>3 DEF HashTypes
  <2> QED BY <1>3, <1>4, <1>6, <2>1, <2>2, ZenonT(30) DEF Framed
<1>11. LocalOK(t)'
  BY <1>0, <1>3, <1>4, NewcomerFacts DEF LocalOK, HashTypes
<1>12. FoundOK(t)'
  <2> SUFFICES ASSUME NEW g \in DOMAIN tables, In(t, g)' PROVE Found(t, g)'
    BY <1>6, ZenonT(30) DEF FoundOK
  <2>1. CASE g = h
    <3>1. Size(h)' = Size(h) /\ \A j : Probe(t, h, j)' = Probe(t, h, j)
      BY <1>2, <1>3, ZenonT(30) DEF Size, Probe
    <3>2. PICK k : k = hmy[t].slot % Size(h)
      BY ZenonT(30)
    <3>3. k \in 0 .. Size(h) - 1 /\ k <= hmy[t].slot /\ Probe(t, h, k) = i /\ Size(h) \in Nat
      BY <1>0, <1>1, <1>2, <3>2, ProbeFacts, SizeFacts DEF Slot
    <3>4. tables'[h][i].id = t
      <4>1. tables'[h][i] = [id |-> t, producer |-> p]
        BY <1>2, <1>3, ZenonT(30)
      <4> QED BY <4>1
    <3>5. ASSUME NEW j \in 0 .. k - 1 PROVE tables'[h][Probe(t, h, j)] # Free
      <4>1. j \in Nat /\ j \in 0 .. hmy[t].slot - 1
        BY <1>2, <3>3
      <4>2. Probe(t, h, j) \in DOMAIN tables[h]
        BY <1>0, <1>2, <4>1, ProbeFacts, SizeFacts, ZenonT(30)
      <4>3. tables[h][Probe(t, h, j)] # Free
        BY <1>0, <1>1, <4>1, ZenonT(30) DEF ThreadOK, ProbedOK
      <4> QED BY <1>2, <4>2, <4>3, <1>10, ZenonT(30) DEF Framed
    <3>6. Found(t, h)'
      BY <3>1, <3>3, <3>4, <3>5, ZenonT(30) DEF Found
    <3> QED BY <2>1, <3>6, ZenonT(30)
  <2>2. CASE g # h
    <3>1. /\ DOMAIN tables'[g] = DOMAIN tables[g]
          /\ \A j \in DOMAIN tables[g] : tables'[g][j] = tables[g][j]
      BY <1>3, <2>2, ZenonT(30)
    <3>2. In(t, g)
      BY <3>1, ZenonT(30) DEF In
    <3>3. Found(t, g)
      BY <1>0, <3>2, ZenonT(30) DEF ThreadOK, FoundOK
    <3> QED BY <1>0, <1>5, <1>6, <3>1, <3>3, FoundKept, ZenonT(30)
  <2> QED BY <2>1, <2>2, ZenonT(30)
<1>13. ProbedOK(t)' /\ AbsentOK(t)'
  BY <1>4, ZenonT(30) DEF ProbedOK, AbsentOK
<1>14. ASSUME NEW q \in Own(t)' PROVE q \in Own(t)
  <2>1. \/ q = hmy'[t].producer /\ q # 0
        \/ \E g \in DOMAIN tables' : \E j \in DOMAIN tables'[g] :
             tables'[g][j].id = t /\ tables'[g][j].producer = q
    <3>1. \/ q = hmy'[t].producer /\ q # 0
          \/ \E g \in DOMAIN tables' : \E s \in Slots(g)' : s.id = t /\ s.producer = q
      BY ZenonT(30) DEF Own
    <3>2. \A g : \A s \in Slots(g)' : \E j \in DOMAIN tables'[g] : tables'[g][j] = s
      BY ZenonT(30) DEF Slots
    <3>3. ASSUME NEW g \in DOMAIN tables', NEW s \in Slots(g)', s.id = t, s.producer = q
          PROVE  \E j \in DOMAIN tables'[g] :
                   tables'[g][j].id = t /\ tables'[g][j].producer = q
      <4>1. PICK j \in DOMAIN tables'[g] : tables'[g][j] = s
        BY <3>2, ZenonT(30)
      <4> QED BY <3>3, <4>1, ZenonT(30)
    <3> QED BY <3>1, <3>3, ZenonT(30)
  <2>2. PICK g \in DOMAIN tables : \E j \in DOMAIN tables[g] :
          tables'[g][j].id = t /\ tables'[g][j].producer = q
    BY <1>3, <1>4, <1>6, <2>1, NewcomerFacts, ZenonT(30)
  <2>3. PICK j \in DOMAIN tables[g] : tables'[g][j].id = t /\ tables'[g][j].producer = q
    BY <2>2, ZenonT(30)
  <2>4. CASE g = h /\ j = i
    <3>1. tables'[g][j] = [id |-> t, producer |-> p]
      BY <1>3, <2>4, ZenonT(30)
    <3>2. q = p
      BY <2>3, <3>1
    <3> QED BY <1>2, <3>2, ZenonT(30)
  <2>5. CASE ~(g = h /\ j = i)
    <3>1. tables'[g][j] = tables[g][j]
      BY <1>3, <2>5, ZenonT(30)
    <3> QED BY <2>3, <3>1, OwnFacts, ZenonT(30)
  <2> QED BY <2>4, <2>5, ZenonT(30)
<1>15. Counted'
  BY <1>4, CountSame, ZenonT(30)
<1>16. ThreadOK(t)'
  BY <1>11, <1>12, <1>13, ZenonT(30) DEF ThreadOK
<1> QED BY <1>5, <1>10, <1>14, <1>15, <1>16, EnqueuerStep, ZenonT(30)

\* The copy passes a slot or takes it.
LEMMA CopyStep ==
  ASSUME HashIInv, NEW t \in Enqueuer, Copy(t)
  PROVE  HashIInv'
<1>1. /\ hpc[t] = "copy" /\ count' = count /\ resizing' = resizing /\ inactive' = inactive
      /\ exits' = exits
  BY ZenonT(30) DEF Copy
<1>2. CASE tables[hmy[t].main][Slot(t)] \in {Free, Reusable}
  BY <1>1, <1>2, TakeStep, ZenonT(30) DEF Copy
<1>3. CASE tables[hmy[t].main][Slot(t)] \notin {Free, Reusable}
  BY <1>1, <1>3, PassStep, ZenonT(30) DEF Copy
<1> QED BY <1>2, <1>3, ZenonT(30)

\* So does the insertion.
LEMMA InsertStep ==
  ASSUME HashIInv, NEW t \in Enqueuer, Insert(t)
  PROVE  HashIInv'
<1>1. /\ hpc[t] = "insert" /\ count' = count /\ resizing' = resizing /\ inactive' = inactive
      /\ exits' = exits
  BY ZenonT(30) DEF Insert
<1>2. CASE tables[hmy[t].main][Slot(t)] \in {Free, Reusable}
  <2>1. PICK l \in {"idle", "uncount"} :
          l = IF tables[hmy[t].main][Slot(t)] = Free THEN "idle" ELSE "uncount"
    BY ZenonT(30)
  <2>2. HashGoto(t, l, NoHashLocals)
    BY <1>2, <2>1, ZenonT(30) DEF Insert
  <2> QED BY <1>1, <1>2, <2>2, TakeStep, ZenonT(30) DEF Insert
<1>3. CASE tables[hmy[t].main][Slot(t)] \notin {Free, Reusable}
  BY <1>1, <1>3, PassStep, ZenonT(30) DEF Insert
<1> QED BY <1>2, <1>3, ZenonT(30)

-----------------------------------------------------------------------------
\* A thread that exits

\* The tables after the slots of t in one were given up.
LEMMA Cleared ==
  ASSUME HashTypes, NEW t \in Enqueuer, NEW h \in DOMAIN tables,
         tables' = [tables EXCEPT ![h] = [i \in DOMAIN @ |->
                      IF @[i].id = t THEN Reusable ELSE @[i]]]
  PROVE  /\ tables' \in Seq(Tables) /\ Len(tables') = Len(tables)
         /\ \A g \in DOMAIN tables :
              /\ DOMAIN tables'[g] = DOMAIN tables[g]
              /\ \A j \in DOMAIN tables[g] :
                   tables'[g][j] = IF g = h /\ tables[g][j].id = t THEN Reusable
                                   ELSE tables[g][j]
<1>1. PICK T : T = [i \in DOMAIN tables[h] |->
                      IF tables[h][i].id = t THEN Reusable ELSE tables[h][i]]
  BY ZenonT(30)
<1>2. T \in Tables
  <2>1. PICK n \in Nat \ {0} : tables[h] \in [0 .. n - 1 -> Value]
    BY TableFacts DEF HashTypes
  <2>2. T \in [0 .. n - 1 -> Value]
    BY <1>1, <2>1, ZenonT(30) DEF Value
  <2> QED BY <2>2, ZenonT(30) DEF Tables
<1>3. tables' = [tables EXCEPT ![h] = T]
  BY <1>1, ZenonT(30)
<1>4. tables' \in Seq(Tables) /\ Len(tables') = Len(tables)
  <2>1. Len(tables) \in Nat /\ tables \in [1 .. Len(tables) -> Tables]
    BY DEF HashTypes
  <2>2. tables' \in [1 .. Len(tables) -> Tables]
    BY <1>2, <1>3, <2>1, ZenonT(30)
  <2> QED BY <2>1, <2>2
<1>5. /\ DOMAIN T = DOMAIN tables[h]
      /\ \A j \in DOMAIN tables[h] :
           T[j] = IF tables[h][j].id = t THEN Reusable ELSE tables[h][j]
  BY <1>1, ZenonT(30)
<1>6. \A g \in DOMAIN tables : tables'[g] = IF g = h THEN T ELSE tables[g]
  BY <1>3, ZenonT(30) DEF HashTypes
<1> QED BY <1>4, <1>5, <1>6, ZenonT(30)

\* The id of a thread that ends leaves a table, found or not there at all.
LEMMA ExitTableStep ==
  ASSUME HashIInv, NEW t \in Enqueuer, ExitTable(t)
  PROVE  HashIInv'
<1>0. HashTypes /\ ThreadOK(t)
  BY ZenonT(30) DEF HashIInv
<1>1. PICK h : h = hmy[t].main
  BY ZenonT(30)
<1>2. /\ hpc[t] = "exit" /\ h > 0 /\ count' = count /\ resizing' = resizing
      /\ inactive' = inactive /\ exits' = exits
  BY <1>1, ZenonT(30) DEF ExitTable
<1>3. /\ h \in DOMAIN tables /\ h \in Nat /\ Len(tables) \in Nat
      /\ DOMAIN tables = 1 .. Len(tables)
  BY <1>0, <1>1, <1>2 DEF ThreadOK, LocalOK, HashTypes
<1>4. PICK m : m = [hmy[t] EXCEPT !.main = h - 1]
  BY ZenonT(30)
<1>5. m \in HashLocal /\ m.main = h - 1 /\ m.producer = hmy[t].producer
  <2>1. PICK r : r = hmy[t]
    BY ZenonT(30)
  <2>2. r \in HashLocal /\ h - 1 \in Nat
    BY <1>0, <1>2, <1>3, <2>1 DEF HashTypes
  <2>3. m = [r EXCEPT !.main = h - 1]
    BY <1>4, <2>1, ZenonT(30)
  <2> QED BY <2>1, <2>2, <2>3, ZenonT(30) DEF HashLocal
<1>6. HashGoto(t, "exit", m)
  BY <1>1, <1>4, ZenonT(30) DEF ExitTable
<1>7. /\ hpc'[t] = "exit" /\ hmy'[t] = m /\ Others(t)
      /\ hpc' \in [Enqueuer -> Label] /\ hmy' \in [Enqueuer -> HashLocal]
  BY <1>0, <1>5, <1>6, GotoHash, ZenonT(30) DEF Label
<1>8. /\ tables' \in Seq(Tables) /\ Len(tables') = Len(tables)
      /\ \A g \in DOMAIN tables :
           /\ DOMAIN tables'[g] = DOMAIN tables[g]
           /\ \A j \in DOMAIN tables[g] :
                tables'[g][j] = IF g = h /\ tables[g][j].id = t THEN Reusable
                                ELSE tables[g][j]
  <2>1. CASE Found(t, h)
    <3>1. tables' = [tables EXCEPT ![h] = [i \in DOMAIN @ |->
                       IF @[i].id = t THEN Reusable ELSE @[i]]]
      BY <1>1, <2>1, ZenonT(30) DEF ExitTable
    <3> QED BY <1>0, <1>3, <3>1, Cleared, ZenonT(30)
  <2>2. CASE ~ Found(t, h)
    <3>1. tables' = tables
      BY <1>1, <2>2, ZenonT(30) DEF ExitTable
    <3>2. \A j \in DOMAIN tables[h] : tables[h][j].id # t
      BY <1>0, <1>3, <2>2, ZenonT(30) DEF ThreadOK, FoundOK, In
    <3> QED BY <1>0, <3>1, <3>2, ZenonT(30) DEF HashTypes
  <2> QED BY <2>1, <2>2, ZenonT(30)
<1>9. DOMAIN tables' = DOMAIN tables
  BY <1>0, <1>8 DEF HashTypes
<1>10. \A u \in Enqueuer : Reusable.id # u /\ Free # Reusable
  BY HashAssumption, ZenonT(30) DEF Reusable, Free
<1>11. HashTypes'
  BY <1>0, <1>2, <1>7, <1>8, ZenonT(30) DEF HashTypes
<1>12. Framed(t)
  <2>1. ASSUME NEW g \in DOMAIN tables, NEW j \in DOMAIN tables[g]
        PROVE  /\ tables[g][j] # Free => tables'[g][j] # Free
               /\ \A u \in Enqueuer \ {t} :
                    tables[g][j].id = u \/ tables'[g][j].id = u => tables'[g][j] = tables[g][j]
    <3>1. tables'[g][j] = tables[g][j] \/ (tables'[g][j] = Reusable /\ tables[g][j].id = t)
      BY <1>8, ZenonT(30)
    <3> QED BY <1>10, <3>1, ZenonT(30)
  <2>2. Len(tables) <= Len(tables') /\ Len(inactive) <= Len(inactive')
    BY <1>0, <1>2, <1>8 DEF HashTypes
  <2> QED BY <1>7, <1>8, <1>9, <2>1, <2>2, ZenonT(30) DEF Framed
<1>13. LocalOK(t)'
  BY <1>0, <1>2, <1>3, <1>5, <1>7, <1>8 DEF ThreadOK, LocalOK
<1>14. ~ In(t, h)'
  BY <1>3, <1>8, <1>10, ZenonT(30) DEF In
<1>15. ASSUME NEW g \in DOMAIN tables, g # h
       PROVE  /\ In(t, g)' => In(t, g)
              /\ Found(t, g) => Found(t, g)'
  <2>1. /\ DOMAIN tables'[g] = DOMAIN tables[g]
        /\ \A j \in DOMAIN tables[g] : tables'[g][j] = tables[g][j]
    BY <1>8, <1>15, ZenonT(30)
  <2>2. In(t, g)' => In(t, g)
    BY <2>1, ZenonT(30) DEF In
  <2>3. Found(t, g) => Found(t, g)'
    BY <1>0, <1>9, <1>11, <2>1, FoundKept, ZenonT(30)
  <2> QED BY <2>2, <2>3, ZenonT(30)
<1>16. FoundOK(t)'
  BY <1>0, <1>9, <1>14, <1>15, ZenonT(30) DEF ThreadOK, FoundOK
<1>17. ProbedOK(t)'
  BY <1>7, ZenonT(30) DEF ProbedOK
<1>18. AbsentOK(t)'
  <2> SUFFICES ASSUME NEW g \in DOMAIN tables, g > h - 1 PROVE ~ In(t, g)'
    BY <1>5, <1>7, <1>9, ZenonT(30) DEF AbsentOK
  <2>1. CASE g = h
    BY <1>14, <2>1, ZenonT(30)
  <2>2. CASE g # h
    <3>1. g > h
      BY <1>3, <2>2
    <3>2. ~ In(t, g)
      BY <1>0, <1>1, <1>2, <3>1, ZenonT(30) DEF ThreadOK, AbsentOK
    <3> QED BY <1>15, <2>2, <3>2, ZenonT(30)
  <2> QED BY <2>1, <2>2, ZenonT(30)
<1>19. ASSUME NEW q \in Own(t)' PROVE q \in Own(t)
  <2>1. \/ q = hmy'[t].producer /\ q # 0
        \/ \E g \in DOMAIN tables' : \E j \in DOMAIN tables'[g] :
             tables'[g][j].id = t /\ tables'[g][j].producer = q
    BY DEF Own, Slots
  <2>2. CASE q = hmy[t].producer /\ q # 0
    BY <2>2, OwnFacts, ZenonT(30)
  <2>3. CASE \E g \in DOMAIN tables : \E j \in DOMAIN tables[g] :
               tables'[g][j].id = t /\ tables'[g][j].producer = q
    <3>1. \E g \in DOMAIN tables : \E j \in DOMAIN tables[g] :
               tables[g][j].id = t /\ tables[g][j].producer = q
      BY <1>8, <1>10, <2>3
    <3> QED BY <3>1, OwnFacts, ZenonT(30)
  <2> QED BY <1>5, <1>7, <1>8, <1>9, <2>1, <2>2, <2>3, ZenonT(30)
<1>20. Counted'
  BY <1>2, <1>7, CountSame, ZenonT(30)
<1>21. ThreadOK(t)'
  BY <1>13, <1>16, <1>17, <1>18, ZenonT(30) DEF ThreadOK
<1> QED BY <1>2, <1>11, <1>12, <1>19, <1>20, <1>21, EnqueuerStep, ZenonT(30)

\* A thread in no table has what is in its hands.
LEMMA OwnAbsent ==
  ASSUME NEW t, \A h \in DOMAIN tables : ~ In(t, h), NEW p \in Own(t)
  PROVE  p = hmy[t].producer /\ p # 0
BY OwnFacts DEF In

\* Steps that make a producer active or inactive: the others have other producers.
LEMMA ProducerStep ==
  ASSUME HashIInv, HashTypes', NEW t \in Enqueuer, Others(t), tables' = tables,
         Len(inactive) <= Len(inactive'), LocalOK(t)', ProbedOK(t)', AbsentOK(t)',
         \A q \in DOMAIN inactive : inactive[q] = 0 /\ q \notin Own(t) => inactive'[q] = 0,
         \A p, q \in Own(t)' : p = q,
         \A p \in Own(t)' : p \in DOMAIN inactive' /\ inactive'[p] = 0,
         \A u \in Enqueuer \ {t} : Own(t)' \cap Own(u) = {},
         Counted'
  PROVE  HashIInv'
<1>1. HashTypes /\ ThreadOK(t) /\ Alone
  BY ZenonT(30) DEF HashIInv
<1>2. Framed(t)
  BY <1>1, SameFramed, ZenonT(30)
<1>3. FoundOK(t)'
  BY <1>1, SameSlots, ZenonT(30) DEF ThreadOK, FoundOK
<1>4. ThreadOK(t)'
  BY <1>3, ZenonT(30) DEF ThreadOK
<1>5. \A u \in Enqueuer \ {t} : ThreadOK(u)' /\ Own(u)' \subseteq Own(u)
  BY <1>2, OtherEnqueuer, ZenonT(30)
<1>6. ASSUME NEW u \in Enqueuer \ {t}, NEW q \in Own(u)
      PROVE  q \in DOMAIN inactive' /\ inactive'[q] = 0
  <2>1. q \in DOMAIN inactive /\ inactive[q] = 0 /\ q \notin Own(t)
    BY <1>1, ZenonT(30) DEF Alone
  <2>2. DOMAIN inactive = 1 .. Len(inactive) /\ DOMAIN inactive' = 1 .. Len(inactive')
    BY <1>1 DEF HashTypes
  <2>3. Len(inactive) \in Nat /\ Len(inactive') \in Nat
    BY <1>1 DEF HashTypes
  <2>4. q \in DOMAIN inactive'
    BY <2>1, <2>2, <2>3
  <2> QED BY <2>1, <2>4, ZenonT(30)
<1>7. Alone'
  <2> SUFFICES ASSUME NEW u \in Enqueuer
               PROVE  /\ \A p, q \in Own(u)' : p = q
                      /\ \A p \in Own(u)' : p \in DOMAIN inactive' /\ inactive'[p] = 0
                      /\ \A v \in Enqueuer \ {u} : Own(u)' \cap Own(v)' = {}
    BY ZenonT(30) DEF Alone
  <2>1. CASE u = t
    BY <1>5, <2>1, ZenonT(30)
  <2>2. CASE u # t
    <3>1. \A p, q \in Own(u)' : p = q
      BY <1>1, <1>5, <2>2 DEF Alone
    <3>2. \A p \in Own(u)' : p \in DOMAIN inactive' /\ inactive'[p] = 0
      BY <1>5, <1>6, <2>2, ZenonT(30)
    <3>3. ASSUME NEW v \in Enqueuer \ {u} PROVE Own(u)' \cap Own(v)' = {}
      <4>1. CASE v = t
        BY <1>5, <2>2, <4>1, ZenonT(30)
      <4>2. CASE v # t
        <5>1. Own(u) \cap Own(v) = {}
          BY <1>1, ZenonT(30) DEF Alone
        <5> QED BY <1>5, <2>2, <4>2, <5>1, ZenonT(30)
      <4> QED BY <4>1, <4>2, ZenonT(30)
    <3> QED BY <3>1, <3>2, <3>3, ZenonT(30)
  <2> QED BY <2>1, <2>2, ZenonT(30)
<1> QED BY <1>4, <1>5, <1>7, ZenonT(30) DEF HashIInv

\* The producer of a thread that is in no table any more is given up: it was its alone.
LEMMA RetireStep ==
  ASSUME HashIInv, NEW t \in Enqueuer, Retire(t)
  PROVE  HashIInv'
<1>0. HashTypes /\ ThreadOK(t) /\ Alone
  BY ZenonT(30) DEF HashIInv
<1>1. PICK r : r = hmy[t].producer
  BY ZenonT(30)
<1>2. /\ hpc[t] = "exit" /\ hmy[t].main = 0 /\ inactive' = [inactive EXCEPT ![r] = 1]
      /\ HashGoto(t, "idle", NoHashLocals) /\ tables' = tables /\ count' = count
      /\ resizing' = resizing /\ exits' = exits
  BY <1>1, ZenonT(30) DEF Retire
<1>3. /\ hpc'[t] = "idle" /\ hmy'[t] = NoHashLocals /\ Others(t)
      /\ hpc' \in [Enqueuer -> Label] /\ hmy' \in [Enqueuer -> HashLocal]
  BY <1>0, <1>2, GotoHash, NewcomerFacts, ZenonT(30) DEF Label
<1>4. r \in DOMAIN inactive /\ r # 0
  BY <1>0, <1>1, <1>2 DEF ThreadOK, LocalOK, HashTypes
<1>5. /\ inactive' \in Seq({0, 1}) /\ Len(inactive') = Len(inactive)
      /\ \A q \in DOMAIN inactive : q # r => inactive'[q] = inactive[q]
  <2>1. Len(inactive) \in Nat /\ inactive \in [1 .. Len(inactive) -> {0, 1}]
    BY <1>0 DEF HashTypes
  <2>2. inactive' \in [1 .. Len(inactive) -> {0, 1}]
    BY <1>2, <1>4, <2>1, ZenonT(30)
  <2>3. \A q \in DOMAIN inactive : q # r => inactive'[q] = inactive[q]
    BY <1>2, <2>1, ZenonT(30)
  <2> QED BY <2>1, <2>2, <2>3
<1>6. HashTypes'
  BY <1>0, <1>2, <1>3, <1>5, ZenonT(30) DEF HashTypes
<1>7. \A h \in DOMAIN tables : ~ In(t, h)
  <2>1. \A h \in DOMAIN tables : h > hmy[t].main
    BY <1>0, <1>2 DEF HashTypes
  <2> QED BY <1>0, <1>2, <2>1, ZenonT(30) DEF ThreadOK, AbsentOK
<1>8. Own(t)' = {}
  <2> SUFFICES ASSUME NEW p \in Own(t)' PROVE FALSE
    BY ZenonT(30)
  <2>1. \/ p = hmy'[t].producer /\ p # 0
        \/ \E g \in DOMAIN tables : \E j \in DOMAIN tables[g] :
             tables[g][j].id = t /\ tables[g][j].producer = p
    BY <1>2 DEF Own, Slots
  <2> QED BY <1>3, <1>7, <2>1, NewcomerFacts, ZenonT(30) DEF In
<1>9. r \in Own(t)
  BY <1>1, <1>4, OwnFacts, ZenonT(30)
<1>10. LocalOK(t)'
  <2>1. Len(tables) \in Nat /\ Len(inactive') \in Nat
    BY <1>0, <1>6 DEF HashTypes
  <2> QED BY <1>2, <1>3, <2>1, NewcomerFacts DEF LocalOK
<1>11. ProbedOK(t)' /\ AbsentOK(t)'
  BY <1>3, ZenonT(30) DEF ProbedOK, AbsentOK
<1>12. Counted'
  BY <1>2, <1>3, CountSame, ZenonT(30)
<1>13. \A q \in DOMAIN inactive : inactive[q] = 0 /\ q \notin Own(t) => inactive'[q] = 0
  BY <1>5, <1>9, ZenonT(30)
<1>14. Len(inactive) <= Len(inactive')
  BY <1>0, <1>5 DEF HashTypes
<1> QED BY <1>2, <1>3, <1>6, <1>8, <1>10, <1>11, <1>12, <1>13, <1>14, ProducerStep, ZenonT(30)

-----------------------------------------------------------------------------
\* A producer for a thread

\* A new producer, or a spare one, is no one's yet.
LEMMA AcquireStep ==
  ASSUME HashIInv, NEW t \in Enqueuer, Acquire(t)
  PROVE  HashIInv'
<1>0. HashTypes /\ ThreadOK(t) /\ Alone
  BY ZenonT(30) DEF HashIInv
<1>1. PICK p : p = IF Spare = {} THEN Len(inactive) + 1
                   ELSE CHOOSE x \in Spare : \A y \in Spare : y <= x
  BY SMTT(30)
<1>2. /\ hpc[t] = "room" /\ tables' = tables /\ count' = count /\ resizing' = resizing
      /\ exits' = exits
      /\ inactive' = IF Spare = {} THEN Append(inactive, 0) ELSE [inactive EXCEPT ![p] = 0]
      /\ HashGoto(t, "insert", [hmy[t] EXCEPT !.count = 0, !.producer = p])
  BY <1>1, ZenonT(30) DEF Acquire
<1>3. Len(inactive) \in Nat /\ inactive \in [1 .. Len(inactive) -> {0, 1}]
  BY <1>0 DEF HashTypes
<1>4. /\ inactive' \in Seq({0, 1}) /\ Len(inactive) <= Len(inactive')
      /\ p \in 1 .. Len(inactive') /\ inactive'[p] = 0
      /\ p \in DOMAIN inactive => inactive[p] = 1
      /\ \A q \in DOMAIN inactive : q # p => inactive'[q] = inactive[q]
  <2>1. CASE Spare = {}
    <3>1. p = Len(inactive) + 1 /\ inactive' = Append(inactive, 0)
      BY <1>1, <1>2, <2>1, ZenonT(30)
    <3> QED BY <1>0, <1>3, <3>1 DEF HashTypes
  <2>2. CASE Spare # {}
    <3>1. Spare \in SUBSET (1 .. Len(inactive))
      BY <1>3, ZenonT(30) DEF Spare
    <3>2. \E x \in Spare : \A y \in Spare : y <= x
      BY <1>3, <2>2, <3>1, Greatest, ZenonT(30)
    <3>3. p \in Spare
      BY <1>1, <2>2, <3>2, ZenonT(30)
    <3>4. p \in 1 .. Len(inactive) /\ inactive[p] = 1
      BY <1>3, <3>3, ZenonT(30) DEF Spare
    <3>5. inactive' = [inactive EXCEPT ![p] = 0]
      BY <1>2, <2>2, ZenonT(30)
    <3>6. inactive' \in [1 .. Len(inactive) -> {0, 1}]
      BY <1>3, <3>4, <3>5, ZenonT(30)
    <3>7. inactive' \in Seq({0, 1}) /\ Len(inactive') = Len(inactive)
      BY <1>3, <3>6
    <3> QED BY <1>3, <3>4, <3>5, <3>7
  <2> QED BY <2>1, <2>2, ZenonT(30)
<1>5. PICK m : m = [hmy[t] EXCEPT !.count = 0, !.producer = p]
  BY ZenonT(30)
<1>6. m \in HashLocal /\ m.producer = p /\ m.main = hmy[t].main /\ m.slot = hmy[t].slot
  <2>1. PICK r : r = hmy[t]
    BY ZenonT(30)
  <2>2. r \in HashLocal /\ p \in Nat
    BY <1>3, <1>4, <2>1, NewcomerFacts
  <2>3. m = [r EXCEPT !.count = 0, !.producer = p]
    BY <1>5, <2>1, ZenonT(30)
  <2> QED BY <2>1, <2>2, <2>3, ZenonT(30) DEF HashLocal
<1>7. /\ hpc'[t] = "insert" /\ hmy'[t] = m /\ Others(t)
      /\ hpc' \in [Enqueuer -> Label] /\ hmy' \in [Enqueuer -> HashLocal]
  BY <1>0, <1>2, <1>5, <1>6, GotoHash, ZenonT(30) DEF Label
<1>8. HashTypes'
  BY <1>0, <1>2, <1>4, <1>7, ZenonT(30) DEF HashTypes
<1>9. \A h \in DOMAIN tables : ~ In(t, h)
  BY <1>2, NewcomerFacts, ZenonT(30)
<1>10. \A q \in Own(t)' : q = p
  <2> SUFFICES ASSUME NEW q \in Own(t)' PROVE q = p
    BY ZenonT(30)
  <2>1. \/ q = hmy'[t].producer /\ q # 0
        \/ \E g \in DOMAIN tables : \E j \in DOMAIN tables[g] :
             tables[g][j].id = t /\ tables[g][j].producer = q
    BY <1>2 DEF Own, Slots
  <2> QED BY <1>6, <1>7, <1>9, <2>1, ZenonT(30) DEF In
<1>11. \A u \in Enqueuer : p \notin Own(u)
  BY <1>0, <1>4 DEF Alone
<1>12. LocalOK(t)'
  <2>1. p # 0 /\ p \in 0 .. Len(inactive')
    BY <1>4, <1>8 DEF HashTypes
  <2> QED BY <1>0, <1>2, <1>6, <1>7, <2>1, NewcomerFacts, ZenonT(30) DEF ThreadOK, LocalOK
<1>13. ProbedOK(t)'
  <2>1. hmy'[t].slot = 0
    BY <1>2, <1>6, <1>7, NewcomerFacts, ZenonT(30)
  <2> QED BY <2>1 DEF ProbedOK
<1>14. AbsentOK(t)'
  BY <1>2, <1>7, <1>9, SameSlots, ZenonT(30) DEF AbsentOK
<1>15. Counted'
  BY <1>2, <1>7, CountSame, ZenonT(30)
<1>16. DOMAIN inactive' = 1 .. Len(inactive')
  BY <1>4
<1>17. \A q \in DOMAIN inactive : inactive[q] = 0 /\ q \notin Own(t) => inactive'[q] = 0
  BY <1>4, ZenonT(30)
<1>18. /\ \A q, r \in Own(t)' : q = r
       /\ \A q \in Own(t)' : q \in DOMAIN inactive' /\ inactive'[q] = 0
       /\ \A u \in Enqueuer \ {t} : Own(t)' \cap Own(u) = {}
  BY <1>4, <1>10, <1>11, <1>16, ZenonT(30)
<1> QED BY <1>2, <1>4, <1>7, <1>8, <1>12, <1>13, <1>14, <1>15, <1>17, <1>18, ProducerStep, ZenonT(30)

-----------------------------------------------------------------------------
\* A larger table

\* The doublings of n up to the c-th.
Doubles(n, c, f) ==
  /\ f = [i \in 0 .. c |-> f[i]]
  /\ \A i \in 0 .. c : f[i] = IF i = 0 THEN n ELSE 2 * f[i - 1]

\* There are such doublings.
LEMMA DoublesExist ==
  ASSUME NEW n, NEW c \in Nat
  PROVE  \E f : Doubles(n, c, f)
<1> DEFINE Bad == {k \in Nat : ~ \E f : Doubles(n, k, f)}
<1> SUFFICES ASSUME Bad # {} PROVE FALSE
  BY ZenonT(30)
<1>1. PICK k \in Bad : \A y \in Bad : k <= y
  <2>1. Bad \in SUBSET Nat
    BY ZenonT(30)
  <2> HIDE DEF Bad
  <2> QED BY <2>1, Least, ZenonT(30)
<1>2. k # 0
  <2> SUFFICES ASSUME k = 0 PROVE FALSE
    BY ZenonT(30)
  <2>1. PICK g : g = [i \in 0 .. 0 |-> n]
    BY ZenonT(30)
  <2>2. Doubles(n, 0, g)
    BY <2>1 DEF Doubles
  <2> QED BY <2>2, ZenonT(30)
<1>3. k - 1 \in Nat /\ k - 1 \notin Bad
  BY <1>1, <1>2
<1>4. PICK g : Doubles(n, k - 1, g)
  BY <1>3, ZenonT(30)
<1>5. PICK f : f = [i \in 0 .. k |-> IF i = k THEN 2 * g[k - 1] ELSE g[i]]
  BY ZenonT(30)
<1>6. \A i \in 0 .. k : f[i] = IF i = k THEN 2 * g[k - 1] ELSE g[i]
  BY <1>5, ZenonT(30)
<1>7. f = [i \in 0 .. k |-> f[i]]
  BY <1>5, <1>6, ZenonT(30)
<1>8. ASSUME NEW i \in 0 .. k PROVE f[i] = IF i = 0 THEN n ELSE 2 * f[i - 1]
  <2>1. CASE i = k
    BY <1>2, <1>6, <2>1
  <2>2. CASE i # k
    <3>1. i \in 0 .. k - 1 /\ f[i] = g[i] /\ (i # 0 => f[i - 1] = g[i - 1])
      BY <1>6, <2>2
    <3>2. g[i] = IF i = 0 THEN n ELSE 2 * g[i - 1]
      BY <1>4, <3>1, ZenonT(30) DEF Doubles
    <3> QED BY <3>1, <3>2, ZenonT(30)
  <2> QED BY <2>1, <2>2, ZenonT(30)
<1>9. Doubles(n, k, f)
  BY <1>7, <1>8, ZenonT(30) DEF Doubles
<1> QED BY <1>1, <1>9, ZenonT(30)

\* They grow.
LEMMA DoublesGrow ==
  ASSUME NEW n \in Nat \ {0}, NEW c \in Nat, NEW f, Doubles(n, c, f)
  PROVE  \A i \in 0 .. c : f[i] \in Nat \ {0} /\ f[i] >= 2 * i
<1> DEFINE Bad == {i \in 0 .. c : ~(f[i] \in Nat \ {0} /\ f[i] >= 2 * i)}
<1> SUFFICES ASSUME Bad # {} PROVE FALSE
  BY ZenonT(30)
<1>1. PICK k \in Bad : \A y \in Bad : k <= y
  <2>1. Bad \in SUBSET Nat
    OBVIOUS
  <2> HIDE DEF Bad
  <2> QED BY <2>1, Least, ZenonT(30)
<1>2. f[k] = IF k = 0 THEN n ELSE 2 * f[k - 1]
  BY ZenonT(30) DEF Doubles
<1>3. k # 0
  BY <1>2
<1>4. k - 1 \in 0 .. c /\ k - 1 \notin Bad
  BY <1>1, <1>3
<1>5. f[k - 1] \in Nat \ {0} /\ f[k - 1] >= 2 * (k - 1)
  BY <1>4, ZenonT(30)
<1> QED BY <1>2, <1>3, <1>5

\* The new capacity is a number of slots.
LEMMA NewCapacityFacts ==
  ASSUME NEW n \in Nat \ {0}, NEW c \in Nat
  PROVE  NewCapacity(n, c) \in Nat \ {0}
<1> DEFINE Twice(x) == [i \in 0 .. c + 1 |-> IF i = 0 THEN n ELSE 2 * x[i - 1]]
           f == CHOOSE x : x = Twice(x)
           Fits(i) == c < f[i] \div 2 /\ \A j \in 1 .. i - 1 : c >= f[j] \div 2
<1>0. NewCapacity(n, c) = f[CHOOSE i \in 1 .. c + 1 : Fits(i)]
  BY ZenonT(30) DEF NewCapacity
<1>1. PICK g : Doubles(n, c + 1, g)
  BY DoublesExist
<1>2. g = Twice(g)
  BY <1>1, ZenonT(30) DEF Doubles
<1>3. f = Twice(f)
  <2> HIDE DEF Twice
  <2> QED BY <1>2, ZenonT(30)
<1>4. Doubles(n, c + 1, f)
  <2> HIDE DEF f
  <2> QED BY <1>3, ZenonT(30) DEF Doubles
<1> HIDE DEF f
<1>5. \A i \in 0 .. c + 1 : f[i] \in Nat \ {0} /\ f[i] >= 2 * i
  <2>1. c + 1 \in Nat
    OBVIOUS
  <2> QED BY <1>4, <2>1, DoublesGrow, ZenonT(30)
<1> DEFINE Enough == {i \in 1 .. c + 1 : c < f[i] \div 2}
<1>6. c + 1 \in Enough
  BY <1>5
<1>7. PICK k \in Enough : \A y \in Enough : k <= y
  <2>1. Enough \in SUBSET Nat /\ Enough # {}
    BY <1>6
  <2> HIDE DEF Enough
  <2> QED BY <2>1, Least, ZenonT(30)
<1>8. k \in 1 .. c + 1 /\ Fits(k)
  <2>1. ASSUME NEW j \in 1 .. k - 1 PROVE c >= f[j] \div 2
    <3>1. j \in 1 .. c + 1 /\ j \notin Enough
      BY <1>7
    <3>2. f[j] \div 2 \in Int
      BY <1>5, <3>1
    <3> QED BY <3>1, <3>2
  <2> QED BY <2>1, ZenonT(30)
<1> HIDE DEF Fits, Enough
<1>9. (CHOOSE i \in 1 .. c + 1 : Fits(i)) \in 1 .. c + 1
  BY <1>8, ZenonT(30)
<1> QED BY <1>0, <1>5, <1>9

\* A larger table of free slots is chained in front of the others.
LEMMA Chained ==
  ASSUME HashTypes, NEW n \in Nat \ {0}, tables' = Append(tables, Table(n))
  PROVE  /\ tables' \in Seq(Tables) /\ Len(tables') = Len(tables) + 1
         /\ \A h \in DOMAIN tables : tables'[h] = tables[h]
         /\ \A h \in DOMAIN tables' \ DOMAIN tables :
              \A i \in DOMAIN tables'[h] : tables'[h][i] = Free
<1>1. PICK T : T = Table(n)
  BY ZenonT(30)
<1>2. T \in [0 .. n - 1 -> Value] /\ \A i \in DOMAIN T : T[i] = Free
  BY <1>1, ZenonT(30) DEF Table, Value
<1>3. T \in Tables
  BY <1>2, ZenonT(30) DEF Tables
<1>4. tables \in Seq(Tables) /\ tables' = Append(tables, T)
  BY <1>1, ZenonT(30) DEF HashTypes
<1>5. /\ tables' \in Seq(Tables) /\ Len(tables') = Len(tables) + 1
      /\ \A h \in DOMAIN tables : tables'[h] = tables[h]
      /\ tables'[Len(tables) + 1] = T
  BY <1>3, <1>4
<1>6. ASSUME NEW h \in DOMAIN tables' \ DOMAIN tables PROVE h = Len(tables) + 1
  BY <1>4, <1>5
<1> QED BY <1>2, <1>5, <1>6, ZenonT(30)

\* The new table has no ids.
LEMMA GrowStep ==
  ASSUME HashIInv, NEW t \in Enqueuer, Grow(t)
  PROVE  HashIInv'
<1>0. HashTypes /\ ThreadOK(t)
  BY ZenonT(30) DEF HashIInv
<1>1. /\ hpc[t] = "grow" /\ resizing' = 0 /\ count' = count
      /\ inactive' = inactive /\ exits' = exits
  BY ZenonT(30) DEF Grow
<1>2. PICK m : m = [hmy[t] EXCEPT !.main = Len(tables')]
  BY ZenonT(30)
<1>3. HashGoto(t, "room", m)
  BY <1>2, ZenonT(30) DEF Grow
<1>4. /\ hmy[t] \in HashLocal /\ hmy[t].producer = 0 /\ hmy[t].main \in DOMAIN tables
      /\ hmy[t].slot = 0 /\ \A h \in DOMAIN tables : ~ In(t, h)
  <2>1. hmy[t].main \in DOMAIN tables
    <3>1. hmy[t].main \in Nat /\ hmy[t].main <= Len(tables) /\ hmy[t].main > 0
      BY <1>1, NewcomerFacts, ZenonT(30)
    <3>2. tables \in Seq(Tables)
      BY <1>0, ZenonT(30) DEF HashTypes
    <3> QED BY <3>1, <3>2
  <2> QED BY <1>1, <2>1, NewcomerFacts, ZenonT(30)
<1>5. ASSUME Len(tables') \in Nat
      PROVE  /\ m \in HashLocal /\ m.main = Len(tables') /\ m.producer = 0 /\ m.slot = 0
             /\ hpc'[t] = "room" /\ hmy'[t] = m /\ Others(t)
             /\ hpc' \in [Enqueuer -> Label] /\ hmy' \in [Enqueuer -> HashLocal]
  <2>1. PICK r, k : r = hmy[t] /\ k = Len(tables')
    BY ZenonT(30)
  <2>2. r \in HashLocal /\ k \in Nat /\ m = [r EXCEPT !.main = k]
    BY <1>2, <1>4, <1>5, <2>1, ZenonT(30)
  <2>3. m \in HashLocal /\ m.main = k /\ m.producer = r.producer /\ m.slot = r.slot
    BY <2>2, ZenonT(30) DEF HashLocal
  <2>4. m \in HashLocal /\ m.main = Len(tables') /\ m.producer = 0 /\ m.slot = 0
    BY <1>4, <2>1, <2>3, ZenonT(30)
  <2> QED BY <1>0, <1>3, <2>4, GotoHash, ZenonT(30) DEF Label
<1>6. CASE ~ MustGrow(t, hmy[t].main)
  <2>1. tables' = tables
    BY <1>6, ZenonT(30) DEF Grow
  <2>2. m.main <= Len(tables) /\ m.main > 0 /\ Len(tables') \in Nat
    BY <1>5, <2>1, NewcomerFacts
  <2>3. Counted'
    BY <1>1, <1>5, <2>2, CountSame, ZenonT(30)
  <2> QED BY <1>1, <1>3, <1>4, <1>5, <2>1, <2>2, <2>3, NewcomerFacts, MoveStep, ZenonT(30)
<1>7. CASE MustGrow(t, hmy[t].main)
  <2>1. PICK n \in Nat \ {0} : tables' = Append(tables, Table(n))
    <3>1. Size(hmy[t].main) \in Nat \ {0}
      BY <1>0, <1>4, SizeFacts, ZenonT(30)
    <3>2. hmy[t].count \in Nat
      BY <1>4, ZenonT(30) DEF HashLocal
    <3>3. NewCapacity(Size(hmy[t].main), hmy[t].count) \in Nat \ {0}
      BY <3>1, <3>2, NewCapacityFacts, ZenonT(30)
    <3> QED BY <1>7, <3>3, ZenonT(30) DEF Grow
  <2>2. /\ tables' \in Seq(Tables) /\ Len(tables') = Len(tables) + 1
        /\ \A h \in DOMAIN tables : tables'[h] = tables[h]
        /\ \A h \in DOMAIN tables' \ DOMAIN tables :
             \A i \in DOMAIN tables'[h] : tables'[h][i] = Free
    BY <1>0, <2>1, Chained, ZenonT(30)
  <2>3. Len(tables) \in Nat /\ Len(inactive) \in Nat /\ tables \in Seq(Tables)
    BY <1>0 DEF HashTypes
  <2>4. Len(tables') \in Nat
    BY <2>2, <2>3
  <2>5. HashTypes'
    BY <1>0, <1>1, <1>5, <2>2, <2>3, <2>4 DEF HashTypes
  <2>6. Framed(t)
    BY <1>1, <1>5, <2>2, <2>3, <2>4 DEF Framed
  <2>7. LocalOK(t)'
    BY <1>1, <1>5, <2>2, <2>3, <2>4 DEF LocalOK
  <2>8. ASSUME NEW h \in DOMAIN tables' PROVE ~ In(t, h)'
    <3>1. CASE h \in DOMAIN tables
      BY <1>4, <2>2, <3>1, ZenonT(30) DEF In
    <3>2. CASE h \notin DOMAIN tables
      <4>1. Free.id # t
        BY HashAssumption, ZenonT(30) DEF Free
      <4> QED BY <2>2, <3>2, <4>1, ZenonT(30) DEF In
    <3> QED BY <3>1, <3>2, ZenonT(30)
  <2>9. ThreadOK(t)'
    <3>1. FoundOK(t)'
      BY <2>8, ZenonT(30) DEF FoundOK
    <3>2. ProbedOK(t)'
      BY <1>5, <2>4, ZenonT(30) DEF ProbedOK
    <3>3. AbsentOK(t)'
      BY <2>8, ZenonT(30) DEF AbsentOK
    <3> QED BY <2>7, <3>1, <3>2, <3>3, ZenonT(30) DEF ThreadOK
  <2>10. Own(t)' \subseteq Own(t)
    <3> SUFFICES ASSUME NEW p \in Own(t)' PROVE FALSE
      BY ZenonT(30)
    <3>1. hmy'[t].producer = 0
      BY <1>5, <2>4, ZenonT(30)
    <3>2. \E h \in DOMAIN tables' : \E i \in DOMAIN tables'[h] : tables'[h][i].id = t
      BY <3>1 DEF Own, Slots
    <3> QED BY <2>8, <3>2, ZenonT(30) DEF In
  <2>11. Counted'
    BY <1>1, <1>5, <2>4, CountSame, ZenonT(30)
  <2> QED BY <1>1, <2>5, <2>6, <2>9, <2>10, <2>11, EnqueuerStep, ZenonT(30)
<1> QED BY <1>6, <1>7, ZenonT(30)

-----------------------------------------------------------------------------
\* The invariant

\* It holds initially,
LEMMA InitHash ==
  ASSUME HashInit
  PROVE  HashIInv
<1>1. PICK T : T = Table(Capacity)
  BY ZenonT(30)
<1>2. T \in [0 .. Capacity - 1 -> Value] /\ \A i \in DOMAIN T : T[i] = Free
  BY <1>1, ZenonT(30) DEF Table, Value
<1>3. T \in Tables
  BY <1>2, HashAssumption, ZenonT(30) DEF Tables
<1>4. tables = <<T>> /\ inactive = <<>>
  BY <1>1, ZenonT(30) DEF HashInit
<1>5. /\ tables \in Seq(Tables) /\ Len(tables) = 1 /\ DOMAIN tables = {1} /\ tables[1] = T
      /\ inactive \in Seq({0, 1}) /\ Len(inactive) = 0
  BY <1>3, <1>4
<1>6. HashTypes
  BY <1>5, HashAssumption DEF HashInit, HashTypes, NoHashLocals, HashLocal, Label
<1>7. ASSUME NEW t \in Enqueuer
      PROVE  hpc[t] = "idle" /\ hmy[t].main = 0 /\ hmy[t].slot = 0 /\ hmy[t].producer = 0
  BY ZenonT(30) DEF HashInit, NoHashLocals
<1>8. ASSUME NEW t \in Enqueuer, NEW h \in DOMAIN tables PROVE ~ In(t, h)
  <2>1. Free.id # t
    BY HashAssumption, ZenonT(30) DEF Free
  <2> QED BY <1>2, <1>5, <2>1, ZenonT(30) DEF In
<1>9. ASSUME NEW t \in Enqueuer PROVE ThreadOK(t)
  <2>1. LocalOK(t)
    BY <1>5, <1>7 DEF LocalOK
  <2>2. FoundOK(t)
    BY <1>8, ZenonT(30) DEF FoundOK
  <2>3. ProbedOK(t)
    BY <1>7, ZenonT(30) DEF ProbedOK
  <2>4. AbsentOK(t)
    BY <1>8, ZenonT(30) DEF AbsentOK
  <2> QED BY <2>1, <2>2, <2>3, <2>4, ZenonT(30) DEF ThreadOK
<1>10. \A t \in Enqueuer : Own(t) = {}
  BY <1>7, <1>8 DEF Own, Slots, In
<1>11. Alone
  BY <1>10, ZenonT(30) DEF Alone
<1>12. Counted
  <2>1. Newcomers = {}
    BY <1>7, ZenonT(30) DEF Newcomers
  <2>2. count = 0
    BY ZenonT(30) DEF HashInit
  <2> QED BY <2>1, <2>2, FS_EmptySet DEF Counted
<1> QED BY <1>6, <1>9, <1>11, <1>12, ZenonT(30) DEF HashIInv

\* in a step that changes nothing,
LEMMA SameHash ==
  ASSUME HashIInv, UNCHANGED hashVars
  PROVE  HashIInv'
<1>1. /\ tables' = tables /\ count' = count /\ resizing' = resizing
      /\ inactive' = inactive /\ hpc' = hpc /\ hmy' = hmy /\ exits' = exits
  BY ZenonT(30) DEF hashVars
<1>2. HashTypes'
  BY <1>1, ZenonT(30) DEF HashIInv, HashTypes
<1>3. ASSUME NEW t \in Enqueuer PROVE ThreadOK(t)' /\ Own(t)' = Own(t)
  <2>0. ThreadOK(t)
    BY ZenonT(30) DEF HashIInv
  <2>1. LocalOK(t)'
    BY <1>1, <2>0, ZenonT(30) DEF ThreadOK, LocalOK
  <2>2. FoundOK(t)'
    BY <1>1, <2>0, SameSlots, ZenonT(30) DEF ThreadOK, FoundOK
  <2>3. ProbedOK(t)'
    BY <1>1, <2>0, SameSlots, ZenonT(30) DEF ThreadOK, ProbedOK
  <2>4. AbsentOK(t)'
    BY <1>1, <2>0, SameSlots, ZenonT(30) DEF ThreadOK, AbsentOK
  <2>5. Own(t)' = Own(t)
    BY <1>1 DEF Own, Slots
  <2> QED BY <2>1, <2>2, <2>3, <2>4, <2>5, ZenonT(30) DEF ThreadOK
<1>4. Alone'
  BY <1>1, <1>3, ZenonT(30) DEF HashIInv, Alone
<1>5. Counted'
  BY <1>1, ZenonT(30) DEF HashIInv, Counted, Newcomers
<1> QED BY <1>2, <1>3, <1>4, <1>5, ZenonT(30) DEF HashIInv

\* and after every step.
LEMMA NextHash ==
  ASSUME HashIInv, [HashNext]_hashVars
  PROVE  HashIInv'
<1>1. CASE UNCHANGED hashVars
  BY <1>1, SameHash, ZenonT(30)
<1>2. ASSUME NEW t \in Enqueuer, Lookup(t) PROVE HashIInv'
  BY <1>2, SameHash, ZenonT(30) DEF Lookup
<1>3. ASSUME NEW t \in Enqueuer, Step(t) PROVE HashIInv'
  BY <1>3, CopyStep, GrabStep, GrowStep, FailStep, NoGrowStep, FullStep, AcquireStep,
     InsertStep, UncountStep, ExitTableStep, RetireStep, ZenonT(30) DEF Step
<1>4. CASE HashNext
  <2>1. PICK t \in Enqueuer :
          Lookup(t) \/ LookupOld(t) \/ LookupNone(t) \/ Exit(t) \/ Step(t)
    BY <1>4, ZenonT(30) DEF HashNext
  <2> QED BY <1>2, <1>3, <2>1, LookupOldStep, LookupNoneStep, ExitStep, ZenonT(30)
<1> QED BY <1>1, <1>4, ZenonT(30)

\* The table of producers keeps its invariant, however many threads come and go.
THEOREM HashInvariant == HashSpec => []HashIInv
<1>1. HashInit => HashIInv
  BY InitHash, ZenonT(30)
<1>2. HashIInv /\ [HashNext]_hashVars => HashIInv'
  BY NextHash, ZenonT(30)
<1> QED BY <1>1, <1>2, PTL DEF HashSpec

\* A set of at most one element.
LEMMA AtMostOne ==
  ASSUME NEW T, \A p, q \in T : p = q
  PROVE  Cardinality(T) <= 1
<1>1. CASE T = {}
  BY <1>1, FS_EmptySet
<1>2. CASE T # {}
  <2>1. PICK p \in T : TRUE
    BY <1>2, ZenonT(30)
  <2>2. T = {p}
    BY <2>1, ZenonT(30)
  <2>3. Cardinality({p}) = 1
    BY FS_Singleton, ZenonT(30)
  <2> QED BY <2>2, <2>3
<1> QED BY <1>1, <1>2, ZenonT(30)

\* A sub-queue has one writer: for every number of threads, every hash function and
\* every initial capacity, a thread has one producer and shares it with none, though
\* tables grow, slots are reused and producers recycled under them.
THEOREM OneWriterHolds == HashSpec => []OneWriter
<1>1. HashIInv => OneWriter
  <2> SUFFICES ASSUME HashIInv, NEW t \in Enqueuer
               PROVE  /\ Cardinality(Own(t)) <= 1
                      /\ \A p \in Own(t) : inactive[p] = 0
                      /\ \A u \in Enqueuer \ {t} : Own(t) \cap Own(u) = {}
    BY ZenonT(30) DEF OneWriter
  <2>1. /\ \A p, q \in Own(t) : p = q
        /\ \A p \in Own(t) : p \in DOMAIN inactive /\ inactive[p] = 0
        /\ \A u \in Enqueuer \ {t} : Own(t) \cap Own(u) = {}
    BY ZenonT(30) DEF HashIInv, Alone
  <2>2. Cardinality(Own(t)) <= 1
    BY <2>1, AtMostOne, ZenonT(30)
  <2> QED BY <2>1, <2>2, ZenonT(30)
<1> QED BY <1>1, HashInvariant, PTL

\* The count never falls below zero, and locals and slots name tables and producers
\* that there are.
THEOREM HashTypesHold == HashSpec => []HashTypeOK
<1>1. HashIInv => HashTypeOK
  <2> SUFFICES ASSUME HashIInv PROVE HashTypeOK
    BY ZenonT(30)
  <2>1. HashTypes /\ Alone /\ Counted
    BY ZenonT(30) DEF HashIInv
  <2>2. count \in Nat
    BY <2>1, NewcomersFinite DEF HashTypes, Counted
  <2>3. ASSUME NEW h \in DOMAIN tables
        PROVE  Slots(h) \subseteq
                 {Free, Reusable} \cup [id : Enqueuer, producer : DOMAIN inactive]
    <3> SUFFICES ASSUME NEW i \in DOMAIN tables[h], tables[h][i] \notin {Free, Reusable}
                 PROVE  tables[h][i] \in [id : Enqueuer, producer : DOMAIN inactive]
      BY ZenonT(30) DEF Slots
    <3>1. PICK v : v = tables[h][i]
      BY ZenonT(30)
    <3>2. v \in Value
      BY <2>1, <3>1, SizeFacts, ZenonT(30)
    <3>3. v \in [id : Enqueuer, producer : Nat \ {0}]
      BY <3>1, <3>2, ZenonT(30) DEF Value
    <3>4. v.producer \in Own(v.id)
      BY <3>1, OwnFacts, ZenonT(30)
    <3>5. v.producer \in DOMAIN inactive
      BY <2>1, <3>3, <3>4, ZenonT(30) DEF Alone
    <3> QED BY <3>1, <3>3, <3>5, ZenonT(30)
  <2>4. hmy \in [Enqueuer -> [count : Nat, main : 0 .. Len(tables), slot : Nat,
                              producer : 0 .. Len(inactive)]]
    <3>1. ASSUME NEW t \in Enqueuer
          PROVE  hmy[t] \in [count : Nat, main : 0 .. Len(tables), slot : Nat,
                             producer : 0 .. Len(inactive)]
      <4>1. hmy[t] \in HashLocal
        BY <2>1, ZenonT(30) DEF HashTypes
      <4>2. hmy[t].main \in 0 .. Len(tables) /\ hmy[t].producer \in 0 .. Len(inactive)
        BY ZenonT(30) DEF HashIInv, ThreadOK, LocalOK
      <4> QED BY <4>1, <4>2, ZenonT(30) DEF HashLocal
    <3> QED BY <2>1, <3>1, ZenonT(30) DEF HashTypes
  <2> QED BY <2>1, <2>2, <2>3, <2>4, ZenonT(30) DEF HashTypes, HashTypeOK, Label
<1> QED BY <1>1, HashInvariant, PTL
=============================================================================
