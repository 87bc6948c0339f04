---------------------------- MODULE StoreProofs ----------------------------
(***************************************************************************)
(* What a store keeps: its documents, its log and its tree of hashes.      *)
(*                                                                         *)
(* For every number of threads, keys, shards and samples: compression does *)
(* not show, Documents implements PlainStore.                              *)
(*                                                                         *)
(* For every number of records and every combination of faults: what the   *)
(* log acknowledged is replayed, and the file implements DurableLog.       *)
(*                                                                         *)
(* For every tree, every hash function and every interleaving of writers   *)
(* with a rehash: no stale hash of the Merkle tree goes unflagged, and the *)
(* root returned covers every delta applied before the call.               *)
(***************************************************************************)
EXTENDS Documents, WAL, Merkle, FiniteSetTheorems, WellFoundedInduction, TLAPS

Doc == [body : Body \cup {""}, field : {0, 1}]
Blob == [zip : Nat, doc : Doc]
Shards == {ShardOf[k] : k \in Key}
Training == {"train", "trained", "activate"}
PC == {"idle", "sample", "sampling", "compress", "store", "clear"} \cup Training

Types ==
  /\ active \in {0, 1} /\ cdict \in Nat /\ ddict \in Nat /\ trained \in Nat
  /\ pc \in [Thread -> PC]
  /\ key \in [Thread -> Key \cup {None}]
  /\ new \in [Thread -> Blob] /\ blob \in [Key -> Blob]
  /\ lock \in [Shards -> Thread \cup {None}]

\* A thread in a write has the lock of the shard, so no two write the same key.
Exclusive ==
  \A t \in Thread : pc[t] # "idle" => key[t] \in Key /\ lock[ShardOf[key[t]]] = t

\* A thread inside add_sample has the mutex, the one that trains finds no dictionary
\* in use, and the two halves of a dictionary differ only while it trains.
Mutex ==
  /\ \A t \in Thread :
       /\ pc[t] \in Training \cup {"sampling", "clear"} => mx = t
       /\ pc[t] \in Training => active = 0
  /\ ddict = cdict \/ \E t \in Thread : pc[t] = "trained"

\* Whatever is compressed can be decompressed with the dictionary there is.
Fits(b) == b.zip = 0 \/ (active = 1 /\ b.zip = cdict)
Decodable ==
  /\ active = 1 => ddict = cdict
  /\ \A k \in Key : Fits(blob[k])
  /\ \A t \in Thread : Fits(new[t])

\* What a thread is about to store is what its put, del or patch makes of the
\* document that is there.
Result(d) ==
  {Nothing} \cup {[body |-> b, field |-> 0] : b \in Body} \cup {[d EXCEPT !.field = 1]}
Intended == \A t \in Thread : pc[t] # "idle" => new[t].doc \in Result(blob[key[t]].doc)

\* The inductive invariant.
IInv == Types /\ Exclusive /\ Mutex /\ Decodable /\ Intended

\* What a reader gets of a blob is its document.
LEMMA ReadsDocument == ASSUME IInv, NEW b, Fits(b) PROVE Document(b) = b.doc
BY ZenonT(30) DEF IInv, Decodable, Fits, Document

\* The initial state satisfies the invariant.
LEMMA InitIInv == Init => IInv
<1> SUFFICES ASSUME Init PROVE IInv
  BY ZenonT(30)
<1>1. Raw(Nothing) \in Blob /\ Raw(Nothing).zip = 0
  BY ZenonT(30) DEF Raw, Nothing, Blob, Doc
<1>2. Types
  BY <1>1, ZenonT(30) DEF Init, Types, PC, Training, Shards
<1>3. Exclusive /\ Mutex /\ Intended
  BY ZenonT(30) DEF Init, Exclusive, Mutex, Intended, Training
<1>4. Decodable
  BY <1>1, ZenonT(30) DEF Init, Decodable, Fits
<1> QED BY <1>2, <1>3, <1>4, ZenonT(30) DEF IInv

\* A write that takes the lock of its shard, with what it is going to store.
LEMMA LockStep ==
  ASSUME IInv, NEW t \in Thread, NEW k \in Key, Lock(t, k),
         NEW d \in Result(blob[k].doc), new' = [new EXCEPT ![t] = Raw(d)],
         NEW l \in {"sample", "compress", "store"}, Goto(t, l)
  PROVE  IInv'
<1> USE DEF IInv
<1>1. blob[k].doc \in Doc
  BY ZenonT(30) DEF Types, Blob
<1>2. d \in Doc
  <2>1. Nothing \in Doc /\ \A b \in Body : [body |-> b, field |-> 0] \in Doc
    BY ZenonT(30) DEF Nothing, Doc
  <2>2. [blob[k].doc EXCEPT !.field = 1] \in Doc
    BY <1>1, ZenonT(30) DEF Doc
  <2> QED BY <2>1, <2>2, ZenonT(30) DEF Result
<1>3. Raw(d) \in Blob /\ Raw(d).zip = 0 /\ Raw(d).doc = d
  BY <1>2, ZenonT(30) DEF Raw, Blob
<1>4. new' \in [Thread -> Blob] /\ new'[t] = Raw(d) /\ \A u \in Thread \ {t} : new'[u] = new[u]
  BY <1>3, ZenonT(30) DEF Types
<1>5. pc' \in [Thread -> PC] /\ pc'[t] = l /\ \A u \in Thread \ {t} : pc'[u] = pc[u]
  BY ZenonT(30) DEF Types, Goto, PC
<1>6. key' \in [Thread -> Key \cup {None}] /\ key'[t] = k /\ \A u \in Thread \ {t} : key'[u] = key[u]
  BY ZenonT(30) DEF Types, Lock
<1>7. ShardOf[k] \in Shards
  BY ZenonT(30) DEF Shards
<1>8. /\ lock' \in [Shards -> Thread \cup {None}] /\ lock'[ShardOf[k]] = t
      /\ \A s \in Shards : s # ShardOf[k] => lock'[s] = lock[s]
  BY <1>7, ZenonT(30) DEF Types, Lock
<1>9. Types'
  BY <1>4, <1>5, <1>6, <1>8, ZenonT(30) DEF Types, Lock, zVars
<1>10. Exclusive'
  <2> SUFFICES ASSUME NEW u \in Thread, pc'[u] # "idle"
               PROVE  key'[u] \in Key /\ lock'[ShardOf[key'[u]]] = u
    BY ZenonT(30) DEF Exclusive
  <2>1. CASE u = t
    BY <2>1, <1>6, <1>8, ZenonT(30)
  <2>2. CASE u # t
    <3>1. key[u] \in Key /\ lock[ShardOf[key[u]]] = u
      BY <2>2, <1>5, ZenonT(30) DEF Exclusive
    <3>2. ShardOf[key[u]] # ShardOf[k]
      BY <3>1, DocumentsAssumption, ZenonT(30) DEF Lock
    <3>3. ShardOf[key[u]] \in Shards
      BY <3>1, ZenonT(30) DEF Shards
    <3> QED BY <2>2, <3>1, <3>2, <3>3, <1>6, <1>8, ZenonT(30)
  <2> QED BY <2>1, <2>2, ZenonT(30)
<1>11. Mutex'
  BY <1>5, ZenonT(30) DEF Mutex, Lock, zVars, Training
<1>12. Decodable'
  BY <1>3, <1>4, ZenonT(30) DEF Decodable, Fits, Lock, zVars
<1>13. Intended'
  <2> SUFFICES ASSUME NEW u \in Thread, pc'[u] # "idle"
               PROVE  new'[u].doc \in Result(blob'[key'[u]].doc)
    BY ZenonT(30) DEF Intended
  <2>1. blob' = blob
    BY ZenonT(30) DEF Lock
  <2>2. CASE u = t
    BY <2>1, <2>2, <1>3, <1>4, <1>6, ZenonT(30)
  <2>3. CASE u # t
    BY <2>1, <2>3, <1>4, <1>5, <1>6, ZenonT(30) DEF Intended
  <2> QED BY <2>2, <2>3, ZenonT(30)
<1> QED BY <1>9, <1>10, <1>11, <1>12, <1>13, ZenonT(30)

\* The steps that begin a write.
LEMMA BeginSteps ==
  ASSUME IInv, NEW t \in Thread, NEW k \in Key,
         Patch(t, k) \/ Del(t, k) \/ \E b \in Body : Put(t, k, b)
  PROVE  IInv'
<1>1. CASE Patch(t, k)
  <2>1. Document(blob[k]) = blob[k].doc
    BY ReadsDocument, ZenonT(30) DEF IInv, Decodable
  <2> DEFINE d == [blob[k].doc EXCEPT !.field = 1]
  <2>2. d \in Result(blob[k].doc)
    BY ZenonT(30) DEF Result
  <2>3. Lock(t, k) /\ new' = [new EXCEPT ![t] = Raw(d)] /\ Goto(t, "compress")
    BY <1>1, <2>1, ZenonT(30) DEF Patch
  <2> QED BY <2>2, <2>3, LockStep, ZenonT(30)
<1>2. CASE Del(t, k)
  <2>1. Nothing \in Result(blob[k].doc)
    BY ZenonT(30) DEF Result
  <2>2. Lock(t, k) /\ new' = [new EXCEPT ![t] = Raw(Nothing)] /\ Goto(t, "store")
    BY <1>2, ZenonT(30) DEF Del
  <2> QED BY <2>1, <2>2, LockStep, ZenonT(30)
<1>3. ASSUME NEW b \in Body, Put(t, k, b) PROVE IInv'
  <2> DEFINE d == [body |-> b, field |-> 0]
             l == IF active = 0 THEN "sample" ELSE "compress"
  <2>1. d \in Result(blob[k].doc)
    BY ZenonT(30) DEF Result
  <2>2. Lock(t, k) /\ new' = [new EXCEPT ![t] = Raw(d)] /\ Goto(t, l)
    BY <1>3, ZenonT(30) DEF Put
  <2>3. l \in {"sample", "compress", "store"}
    BY ZenonT(30)
  <2> HIDE DEF d, l
  <2> QED BY <2>1, <2>2, <2>3, LockStep, ZenonT(30)
<1> QED BY <1>1, <1>2, <1>3, ZenonT(30)

\* The steps inside add_sample and train_dictionary: the thread that takes one has
\* the mutex or gets it, and goes on in the same write.
LEMMA SampleSteps ==
  ASSUME IInv, NEW t \in Thread,
         AddSample(t) \/ Sample(t) \/ Train(t) \/ TrainFails(t)
           \/ TrainDecompress(t) \/ Activate(t) \/ Clear(t)
  PROVE  IInv'
<1> USE DEF IInv
<1> DEFINE A == AddSample(t) \/ Sample(t) \/ Train(t) \/ TrainFails(t)
                 \/ TrainDecompress(t) \/ Activate(t) \/ Clear(t)
<1>1. /\ key' = key /\ new' = new /\ blob' = blob /\ lock' = lock
      /\ pc[t] # "idle"
      /\ \E l \in PC \ {"idle"} : pc' = [pc EXCEPT ![t] = l]
  BY ZenonT(30) DEF AddSample, Sample, Train, TrainFails, TrainDecompress, Activate, Clear, Goto,
         PC, Training, zVars
<1>2. pc' \in [Thread -> PC] /\ pc'[t] # "idle" /\ \A u \in Thread \ {t} : pc'[u] = pc[u]
  BY <1>1, ZenonT(30) DEF Types
<1>3. active' \in {0, 1} /\ cdict' \in Nat /\ ddict' \in Nat /\ trained' \in Nat
  <2>1. CASE Train(t)
    BY <2>1 DEF Train, Types
  <2>2. CASE ~ Train(t)
    BY <2>2, ZenonT(30) DEF AddSample, Sample, TrainFails, TrainDecompress, Activate, Clear, zVars,
           Types
  <2> QED BY <2>1, <2>2, ZenonT(30)
<1>4. Types'
  BY <1>1, <1>2, <1>3, ZenonT(30) DEF Types
<1>5. Exclusive'
  BY <1>1, <1>2, ZenonT(30) DEF Exclusive
<1>6. Intended'
  BY <1>1, <1>2, ZenonT(30) DEF Intended
<1>7. /\ active = 1 => active' = 1 /\ cdict' = cdict
      /\ active' = 1 => ddict' = cdict'
  <2>1. CASE AddSample(t) \/ Sample(t) \/ TrainFails(t) \/ Clear(t)
    <3>1. active' = active /\ cdict' = cdict /\ ddict' = ddict
      BY <2>1, ZenonT(30) DEF AddSample, Sample, TrainFails, Clear, zVars
    <3> QED BY <3>1, ZenonT(30) DEF Decodable
  <2>2. CASE Train(t) \/ TrainDecompress(t)
    <3>1. active' = active /\ pc[t] \in Training
      BY <2>2, ZenonT(30) DEF Train, TrainDecompress, Training
    <3> QED BY <3>1 DEF Mutex
  <2>3. CASE Activate(t)
    <3>1. pc[t] = "activate" /\ cdict' = cdict /\ ddict' = ddict
      BY <2>3, ZenonT(30) DEF Activate
    <3> QED BY <3>1 DEF Mutex, Training
  <2> QED BY <2>1, <2>2, <2>3, ZenonT(30)
<1>8. Decodable'
  BY <1>1, <1>7, ZenonT(30) DEF Decodable, Fits
<1>9. Mutex'
  <2> SUFFICES ASSUME NEW u \in Thread
               PROVE  /\ pc'[u] \in Training \cup {"sampling", "clear"} => mx' = u
                      /\ pc'[u] \in Training => active' = 0
                      /\ ddict' = cdict' \/ \E v \in Thread : pc'[v] = "trained"
    BY DocumentsAssumption, ZenonT(30) DEF Mutex
  <2>1. CASE AddSample(t)
    BY <2>1, DocumentsAssumption, ZenonT(30) DEF AddSample, Goto, Types, Mutex, Training
  <2>2. CASE Sample(t)
    BY <2>2, DocumentsAssumption, ZenonT(30) DEF Sample, Goto, Types, Mutex, Training
  <2>3. CASE Train(t)
    BY <2>3, DocumentsAssumption, ZenonT(30) DEF Train, Goto, Types, Mutex, Training
  <2>4. CASE TrainFails(t)
    BY <2>4, ZenonT(30) DEF TrainFails, Goto, Types, Mutex, Training, zVars
  <2>5. CASE TrainDecompress(t)
    BY <2>5, DocumentsAssumption, ZenonT(30) DEF TrainDecompress, Goto, Types, Mutex, Training
  <2>6. CASE Activate(t)
    BY <2>6, DocumentsAssumption, ZenonT(30) DEF Activate, Goto, Types, Mutex, Training
  <2>7. CASE Clear(t)
    BY <2>7, DocumentsAssumption, ZenonT(30) DEF Clear, Goto, Types, Mutex, Training
  <2> QED BY <2>1, <2>2, <2>3, <2>4, <2>5, <2>6, <2>7, ZenonT(30)
<1> QED BY <1>4, <1>5, <1>6, <1>8, <1>9, ZenonT(30)

\* A blob is compressed with the dictionary in use.
LEMMA CompressStep == ASSUME IInv, NEW t \in Thread, Compress(t) PROVE IInv'
<1> USE DEF IInv
<1> DEFINE b == Compressed(new[t].doc)
<1>1. new[t].doc \in Doc
  BY ZenonT(30) DEF Types, Blob
<1>2. b \in Blob /\ b.doc = new[t].doc /\ Fits(b)
  BY <1>1, ZenonT(30) DEF Compressed, Blob, Fits, Types
<1> HIDE DEF b
<1>3. new' \in [Thread -> Blob] /\ new'[t] = b /\ \A u \in Thread \ {t} : new'[u] = new[u]
  BY <1>2, ZenonT(30) DEF Compress, Types, b
<1>4. pc' \in [Thread -> PC] /\ pc'[t] = "store" /\ \A u \in Thread \ {t} : pc'[u] = pc[u]
  BY ZenonT(30) DEF Compress, Goto, Types, PC
<1>5. UNCHANGED <<zVars, lock, key, blob>> /\ pc[t] = "compress"
  BY ZenonT(30) DEF Compress
<1>6. Types' /\ Exclusive'
  BY <1>3, <1>4, <1>5, ZenonT(30) DEF Types, Exclusive, zVars
<1>7. Mutex'
  BY <1>4, <1>5, ZenonT(30) DEF Mutex, Training, zVars
<1>8. Decodable'
  <2>1. b.zip = 0 \/ (active' = 1 /\ b.zip = cdict')
    BY <1>2, <1>5, ZenonT(30) DEF Fits, zVars
  <2> QED BY <2>1, <1>3, <1>5, ZenonT(30) DEF Decodable, Fits, zVars
<1>9. Intended'
  BY <1>2, <1>3, <1>4, <1>5, ZenonT(30) DEF Intended
<1> QED BY <1>6, <1>7, <1>8, <1>9, ZenonT(30)

\* A blob is stored and the lock of its shard released.
LEMMA StoreStep == ASSUME IInv, NEW t \in Thread, Store(t) PROVE IInv'
<1> USE DEF IInv
<1> DEFINE k == key[t]
<1>1. k \in Key /\ lock[ShardOf[k]] = t /\ ShardOf[k] \in Shards /\ pc[t] = "store"
  BY ZenonT(30) DEF Store, Exclusive, Shards
<1>2. Raw(Nothing) \in Blob /\ Raw(Nothing).zip = 0
  BY ZenonT(30) DEF Raw, Nothing, Blob, Doc
<1>3. /\ blob' \in [Key -> Blob] /\ blob'[k] = new[t]
      /\ \A j \in Key \ {k} : blob'[j] = blob[j]
  BY <1>1, ZenonT(30) DEF Store, Types
<1>4. /\ new' \in [Thread -> Blob] /\ new'[t] = Raw(Nothing)
      /\ \A u \in Thread \ {t} : new'[u] = new[u]
  BY <1>2, ZenonT(30) DEF Store, Types
<1>5. pc' \in [Thread -> PC] /\ pc'[t] = "idle" /\ \A u \in Thread \ {t} : pc'[u] = pc[u]
  BY ZenonT(30) DEF Store, Goto, Types, PC
<1>6. key' \in [Thread -> Key \cup {None}] /\ \A u \in Thread \ {t} : key'[u] = key[u]
  BY ZenonT(30) DEF Store, Types
<1>7. /\ lock' \in [Shards -> Thread \cup {None}]
      /\ \A s \in Shards : s # ShardOf[k] => lock'[s] = lock[s]
  BY <1>1, ZenonT(30) DEF Store, Types
<1>8. UNCHANGED zVars
  BY ZenonT(30) DEF Store
<1> HIDE DEF k
<1>9. Types'
  BY <1>3, <1>4, <1>5, <1>6, <1>7, <1>8, ZenonT(30) DEF Types, zVars
<1>10. ASSUME NEW u \in Thread, pc'[u] # "idle"
       PROVE  /\ u # t /\ key'[u] = key[u] /\ key[u] \in Key
              /\ ShardOf[key[u]] \in Shards \ {ShardOf[k]} /\ lock[ShardOf[key[u]]] = u
  <2>1. u # t /\ pc[u] # "idle" /\ key'[u] = key[u]
    BY <1>5, <1>6, <1>10, ZenonT(30)
  <2>2. key[u] \in Key /\ lock[ShardOf[key[u]]] = u
    BY <2>1, ZenonT(30) DEF Exclusive
  <2> QED BY <2>1, <2>2, <1>1, ZenonT(30) DEF Shards
<1>11. Exclusive'
  BY <1>7, <1>10 DEF Exclusive
<1>12. Mutex'
  BY <1>1, <1>5, <1>8, ZenonT(30) DEF Mutex, Training, zVars
<1>13. Decodable'
  BY <1>2, <1>3, <1>4, <1>8, ZenonT(30) DEF Decodable, Fits, zVars
<1>14. Intended'
  <2> SUFFICES ASSUME NEW u \in Thread, pc'[u] # "idle"
               PROVE  new'[u].doc \in Result(blob'[key'[u]].doc)
    BY ZenonT(30) DEF Intended
  <2>1. u # t /\ key'[u] = key[u] /\ key[u] \in Key /\ key[u] # k
    BY <1>10, ZenonT(30)
  <2>2. new'[u] = new[u] /\ blob'[key[u]] = blob[key[u]] /\ pc[u] # "idle"
    BY <2>1, <1>3, <1>4, <1>5, ZenonT(30)
  <2> QED BY <2>1, <2>2, ZenonT(30) DEF Intended
<1> QED BY <1>9, <1>11, <1>12, <1>13, <1>14, ZenonT(30)

\* Every step preserves the invariant.
LEMMA NextIInv == IInv /\ [Next]_vars => IInv'
<1> SUFFICES ASSUME IInv, [Next]_vars PROVE IInv'
  BY ZenonT(30)
<1>1. ASSUME NEW t \in Thread, Step(t) PROVE IInv'
  BY <1>1, SampleSteps, CompressStep, StoreStep, ZenonT(30) DEF Step
<1>2. ASSUME NEW t \in Thread, NEW k \in Key,
             Patch(t, k) \/ Del(t, k) \/ \E b \in Body : Put(t, k, b)
      PROVE  IInv'
  BY <1>2, BeginSteps, ZenonT(30)
<1>3. CASE UNCHANGED vars
  BY <1>3, ZenonT(30) DEF vars, zVars, IInv, Types, Exclusive, Mutex, Decodable, Fits, Intended
<1> QED BY <1>1, <1>2, <1>3, ZenonT(30) DEF Next, Quiet

\* In every state whatever is compressed can be decompressed, and what a write is
\* about to store is what it makes of the document that is there (Blob::compress and
\* Blob::decompress against add_sample and train_dictionary on another thread).
THEOREM DocumentsInvariant == Spec => []IInv
BY InitIInv, NextIInv, PTL DEF Spec

-----------------------------------------------------------------------------
\* With MaxSamples samples there is a thread that trains or clears them, there is a
\* dictionary only where one was made known or is about to be, and who does not write
\* has no key.
Ranges ==
  /\ samples \in 0 .. MaxSamples /\ mx \in Thread \cup {None}
  /\ cdict \in 0 .. trained /\ ddict \in {0, cdict} /\ writes \in 0 .. MaxWrites
  /\ samples = MaxSamples => \E t \in Thread : pc[t] \in Training \cup {"clear"}
  /\ active = 0 => cdict = 0 \/ \E t \in Thread : pc[t] \in {"trained", "activate"}
  /\ \A t \in Thread : pc[t] = "idle" => key[t] = None

\* A thread of add_sample is the only one of its kind.
LEMMA OneInside ==
  ASSUME IInv, NEW t \in Thread, pc[t] \in Training \cup {"sampling", "clear"},
         NEW u \in Thread, u # t
  PROVE  pc[u] \notin Training \cup {"sampling", "clear"}
BY ZenonT(30) DEF IInv, Mutex

\* Every step of a write keeps the ranges.
LEMMA StepRanges ==
  ASSUME IInv, Ranges, NEW t \in Thread, Step(t)
  PROVE  Ranges'
<1> USE DEF Ranges
<1>0. MaxSamples \in Nat \ {0} /\ trained \in Nat /\ cdict \in Nat /\ active \in {0, 1}
  BY DocumentsAssumption, ZenonT(30) DEF IInv, Types
<1>1. \A l : Goto(t, l) => pc'[t] = l /\ \A u \in Thread : u # t => pc'[u] = pc[u]
  BY ZenonT(30) DEF Goto, IInv, Types
<1>2. CASE AddSample(t)
  BY <1>1, <1>2 DEF AddSample, Training
<1>3. CASE Sample(t)
  <2>0. /\ pc[t] = "sampling" /\ samples' = (IF active = 1 THEN samples ELSE samples + 1)
        /\ key' = key /\ active' = active /\ cdict' = cdict /\ ddict' = ddict
        /\ trained' = trained /\ writes' = writes
    BY <1>3, ZenonT(30) DEF Sample
  <2>1. \A u \in Thread : pc[u] \notin Training \cup {"clear"}
    BY <2>0, OneInside, ZenonT(30) DEF Training
  <2>2. samples < MaxSamples
    BY <1>0, <2>1
  <2>3. samples' \in 0 .. MaxSamples
    BY <1>0, <2>0, <2>2
  <2>4. active = 0 => cdict = 0
    BY <2>1, ZenonT(30) DEF Training
  <2>5. CASE active = 0 /\ samples' >= MaxSamples
    BY <1>1, <1>3, <2>0, <2>3, <2>4, <2>5, ZenonT(30) DEF Sample, Training
  <2>6. CASE ~ (active = 0 /\ samples' >= MaxSamples)
    <3>1. Goto(t, "compress") /\ mx' = None
      BY <1>3, <2>6, ZenonT(30) DEF Sample
    <3>2. samples' # MaxSamples
      BY <1>0, <2>0, <2>2, <2>6
    <3> QED BY <1>1, <2>0, <2>3, <2>4, <3>1, <3>2
  <2> QED BY <2>5, <2>6, ZenonT(30)
<1>4. CASE Train(t)
  <2>1. /\ pc[t] = "train" /\ trained' = trained + 1 /\ cdict' = trained + 1
        /\ Goto(t, "trained") /\ key' = key /\ active' = active /\ ddict' = ddict
        /\ samples' = samples /\ mx' = mx /\ writes' = writes
    BY <1>4, ZenonT(30) DEF Train
  <2>2. active = 0 /\ \A u \in Thread : pc[u] \notin {"trained", "activate"}
    BY <2>1, OneInside, ZenonT(30) DEF IInv, Mutex, Training
  <2>3. ddict = 0
    BY <2>2, ZenonT(30)
  <2>4. pc'[t] = "trained" /\ \A u \in Thread : u # t => pc'[u] = pc[u]
    BY <1>1, <2>1, ZenonT(30)
  <2> QED BY <1>0, <2>1, <2>3, <2>4 DEF Training
<1>5. CASE TrainFails(t)
  BY <1>1, <1>5, ZenonT(30) DEF TrainFails, zVars, Training
<1>6. CASE TrainDecompress(t)
  BY <1>1, <1>6, ZenonT(30) DEF TrainDecompress, Training
<1>7. CASE Activate(t)
  <2>1. /\ active' = 1 /\ Goto(t, "clear") /\ cdict' = cdict /\ ddict' = ddict /\ key' = key
        /\ samples' = samples /\ mx' = mx /\ trained' = trained /\ writes' = writes
    BY <1>7, ZenonT(30) DEF Activate
  <2>2. pc'[t] = "clear" /\ \A u \in Thread : u # t => pc'[u] = pc[u]
    BY <1>1, <2>1, ZenonT(30)
  <2> QED BY <2>1, <2>2 DEF Training
<1>8. CASE Clear(t)
  <2>1. /\ pc[t] = "clear" /\ samples' = 0 /\ mx' = None /\ Goto(t, "compress")
        /\ active' = active /\ cdict' = cdict /\ ddict' = ddict /\ key' = key
        /\ trained' = trained /\ writes' = writes
    BY <1>8, ZenonT(30) DEF Clear
  <2>2. pc'[t] = "compress" /\ \A u \in Thread : u # t => pc'[u] = pc[u]
    BY <1>1, <2>1, ZenonT(30)
  <2> QED BY <1>0, <2>1, <2>2
<1>9. CASE Compress(t)
  BY <1>1, <1>9 DEF Compress, zVars, Training
<1>10. CASE Store(t)
  <2>1. /\ pc[t] = "store" /\ key' = [key EXCEPT ![t] = None] /\ Goto(t, "idle")
        /\ active' = active /\ cdict' = cdict /\ ddict' = ddict /\ samples' = samples
        /\ mx' = mx /\ trained' = trained /\ writes' = writes
    BY <1>10, ZenonT(30) DEF Store, zVars
  <2>2. pc'[t] = "idle" /\ \A u \in Thread : u # t => pc'[u] = pc[u]
    BY <1>1, <2>1, ZenonT(30)
  <2>3. key'[t] = None /\ \A u \in Thread : u # t => key'[u] = key[u]
    BY <2>1, ZenonT(30) DEF IInv, Types
  <2> QED BY <2>1, <2>2, <2>3, ZenonT(30) DEF Training
<1> QED BY <1>2, <1>3, <1>4, <1>5, <1>6, <1>7, <1>8, <1>9, <1>10, ZenonT(30) DEF Step

\* The ranges hold in every state.
LEMMA RangesHold == Spec => []Ranges
<1>0. MaxSamples \in Nat \ {0} /\ MaxWrites \in Nat
  BY DocumentsAssumption, ZenonT(30)
<1>1. Init => Ranges
  <2>1. Init => /\ samples = 0 /\ mx = None /\ cdict = 0 /\ ddict = 0 /\ trained = 0
                /\ writes = 0 /\ \A t \in Thread : key[t] = None
    BY ZenonT(30) DEF Init
  <2>2. 0 \in 0 .. MaxSamples /\ 0 \in 0 .. MaxWrites /\ 0 \in 0 .. 0 /\ 0 # MaxSamples
    BY <1>0
  <2> QED BY <2>1, <2>2, ZenonT(30) DEF Ranges
<1>2. IInv /\ Ranges /\ [Next]_vars => Ranges'
  <2> SUFFICES ASSUME IInv, Ranges, [Next]_vars PROVE Ranges'
    BY ZenonT(30)
  <2>1. ASSUME NEW t \in Thread, NEW k \in Key,
               Patch(t, k) \/ Del(t, k) \/ \E b \in Body : Put(t, k, b)
        PROVE  Ranges'
    <3>1. PICK l : Lock(t, k) /\ Goto(t, l) /\ l \in {"sample", "compress", "store"}
      BY <2>1, ZenonT(30) DEF Patch, Del, Put
    <3>2. /\ pc[t] = "idle" /\ writes < MaxWrites /\ writes' = writes + 1
          /\ key' = [key EXCEPT ![t] = k] /\ active' = active /\ cdict' = cdict
          /\ ddict' = ddict /\ samples' = samples /\ mx' = mx /\ trained' = trained
      BY <3>1, ZenonT(30) DEF Lock, zVars
    <3>3. pc'[t] = l /\ \A u \in Thread : u # t => pc'[u] = pc[u] /\ key'[u] = key[u]
      BY <3>1, <3>2, ZenonT(30) DEF Goto, IInv, Types
    <3>4. writes' \in 0 .. MaxWrites
      <4>1. writes \in 0 .. MaxWrites
        BY ZenonT(30) DEF Ranges
      <4> QED BY <1>0, <3>2, <4>1
    <3> QED BY <3>1, <3>2, <3>3, <3>4, ZenonT(30) DEF Ranges, Training
  <2>2. CASE UNCHANGED vars
    BY <2>2, ZenonT(30) DEF vars, zVars, Ranges
  <2> QED BY <2>1, <2>2, StepRanges, ZenonT(30) DEF Next, Quiet
<1> QED BY <1>1, <1>2, DocumentsInvariant, PTL DEF Spec

\* The fields of ZstdManager keep their ranges, who is inside add_sample holds mx_ and
\* who writes the lock of its shard.
THEOREM DocumentsTypeOK == Spec => []TypeOK
<1>1. IInv /\ Ranges => TypeOK
  <2> SUFFICES ASSUME IInv, Ranges PROVE TypeOK
    BY ZenonT(30)
  <2>1. \A t \in Thread : pc[t] \in {"sampling", "train", "trained", "activate", "clear"}
                            => mx = t
    BY ZenonT(30) DEF IInv, Mutex, Training
  <2>2. ASSUME NEW t \in Thread
        PROVE  pc[t] # "idle" <=> key[t] # None /\ lock[ShardOf[key[t]]] = t
    <3>1. None \notin Key
      BY DocumentsAssumption, ZenonT(30)
    <3> QED BY <3>1, ZenonT(30) DEF IInv, Exclusive, Ranges
  <2> QED BY <2>1, <2>2, ZenonT(30) DEF TypeOK, Ranges, IInv, Types
<1> QED BY <1>1, DocumentsInvariant, RangesHold, PTL

-----------------------------------------------------------------------------
Docs == [k \in Key |-> blob[k].doc]

\* What readers get of all keys are the documents stored.
LEMMA ReadableAll == IInv => [k \in Key |-> Document(blob[k])] = Docs
BY ReadsDocument, ZenonT(30) DEF IInv, Decodable, Docs

\* A step stores what a put, a patch or a del makes of one document, or no document
\* changes.
LEMMA PlainStep ==
  ASSUME IInv, IInv', [Next]_vars
  PROVE  \/ Docs' = Docs
         \/ \E k \in Key : \E d \in Result(Docs[k]) : Docs' = [Docs EXCEPT ![k] = d]
<1>1. CASE \E t \in Thread : Store(t)
  <2> PICK t \in Thread : Store(t)
    BY <1>1, ZenonT(30)
  <2>1. key[t] \in Key /\ new[t].doc \in Result(blob[key[t]].doc) /\ blob \in [Key -> Blob]
    BY ZenonT(30) DEF Store, IInv, Exclusive, Intended, Types
  <2>2. new[t].doc \in Result(Docs[key[t]])
    BY <2>1, ZenonT(30) DEF Docs
  <2>3. blob' = [blob EXCEPT ![key[t]] = new[t]]
    BY ZenonT(30) DEF Store
  <2>4. Docs' = [Docs EXCEPT ![key[t]] = new[t].doc]
    BY <2>1, <2>3, ZenonT(30) DEF Docs
  <2> QED BY <2>1, <2>2, <2>4, ZenonT(30)
<1>2. CASE ~ \E t \in Thread : Store(t)
  <2>1. blob' = blob
    BY <1>2, ZenonT(30) DEF Next, Step, vars, Quiet, AddSample, Sample, Train, TrainFails,
                TrainDecompress, Activate, Clear, Compress, Patch, Del, Put, Lock
  <2> QED BY <2>1, ZenonT(30) DEF Docs
<1> QED BY <1>1, <1>2, ZenonT(30)

\* Compression never shows, for any number of threads, keys and shards and any number
\* of samples a dictionary is trained from: Documents implements PlainStore.
THEOREM DocumentsImplementsPlain == Spec => ImplementsPlain
<1>1. Init => Plain!Init
  <2> SUFFICES ASSUME Init PROVE [k \in Key |-> Document(blob[k])] = [k \in Key |-> Nothing]
    BY ZenonT(30) DEF Plain!Init, Plain!Nothing, Nothing
  <2> QED BY ZenonT(30) DEF Init, Document, Raw
<1>2. IInv /\ IInv' /\ [Next]_vars => [Plain!Next]_([k \in Key |-> Document(blob[k])])
  <2> SUFFICES ASSUME IInv, IInv', [Next]_vars
               PROVE  [Plain!Next]_([k \in Key |-> Document(blob[k])])
    BY ZenonT(30)
  <2>1. /\ [k \in Key |-> Document(blob[k])] = Docs
        /\ [k \in Key |-> Document(blob[k])]' = Docs'
    BY ReadableAll, ZenonT(30) DEF IInv, Decodable, Fits, Document, Docs
  <2>2. CASE Docs' = Docs
    BY <2>1, <2>2, ZenonT(30)
  <2>3. ASSUME NEW k \in Key, NEW d \in Result(Docs[k]), Docs' = [Docs EXCEPT ![k] = d]
        PROVE  Plain!Next
    <3>1. CASE d = Nothing
      BY <2>1, <2>3, <3>1, ZenonT(30) DEF Plain!Next, Plain!Del, Plain!Nothing, Nothing
    <3>2. CASE d = [Docs[k] EXCEPT !.field = 1]
      BY <2>1, <2>3, <3>2, ZenonT(30) DEF Plain!Next, Plain!Patch, Docs
    <3>3. CASE \E b \in Body : d = [body |-> b, field |-> 0]
      BY <2>1, <2>3, <3>3 DEF Plain!Next, Plain!Put
    <3> QED BY <3>1, <3>2, <3>3, ZenonT(30) DEF Result
  <2> QED BY <2>2, <2>3, PlainStep, ZenonT(30)
<1> QED BY <1>1, <1>2, DocumentsInvariant, PTL DEF Spec, ImplementsPlain, Plain!Spec

-----------------------------------------------------------------------------
\* The log

Cell == [id : 1 .. MaxRecords, ok : {0, 1}]

\* While a record is written it is the last cell, torn and not yet synced.
Busy ==
  mode = "busy" =>
    /\ synced < Len(file)
    /\ file[Len(file)].id = next - 1
    /\ file[Len(file)].ok = 0
    /\ next > 1

\* Unless a write failed in this run, every cell that is not being written is
\* whole, so a new record lands where recovery reaches it.
Clean ==
  /\ mode = "down" => torn = 0
  /\ mode = "up" /\ torn = 0 => Readable(Len(file))
  /\ mode = "busy" /\ torn = 0 => Readable(Len(file) - 1)

\* The inductive invariant.
LogIInv == LogTypeOK /\ Busy /\ Clean /\ AckedKept

\* The type of a cell of a file.
LEMMA CellType ==
  ASSUME NEW s \in Seq(Cell)
  PROVE  /\ Len(s) \in Nat
         /\ \A i \in 1 .. Len(s) : s[i].id \in 1 .. MaxRecords /\ s[i].ok \in {0, 1}
<1>1. Len(s) \in Nat /\ \A i \in 1 .. Len(s) : s[i] \in Cell
  OBVIOUS
<1>2. \A c \in Cell : c.id \in 1 .. MaxRecords /\ c.ok \in {0, 1}
  BY ZenonT(30) DEF Cell
<1> QED BY <1>1, <1>2, ZenonT(30)

\* The last bytes of a record make its cell whole and touch no other cell.
LEMMA MarkWhole ==
  ASSUME NEW s \in Seq(Cell), Len(s) > 0,
         NEW t, t = [s EXCEPT ![Len(s)].ok = 1]
  PROVE  /\ t \in Seq(Cell) /\ Len(t) = Len(s)
         /\ \A i \in 1 .. Len(s) : t[i].id = s[i].id
         /\ \A i \in 1 .. Len(s) - 1 : t[i].ok = s[i].ok
         /\ t[Len(s)].ok = 1
<1>1. Len(s) \in 1 .. Len(s) /\ \A i \in 1 .. Len(s) : s[i] \in Cell
  OBVIOUS
<1>2. [s[Len(s)] EXCEPT !.ok = 1] \in Cell
  BY <1>1, ZenonT(30) DEF Cell
<1>3. [s[Len(s)] EXCEPT !.ok = 1].id = s[Len(s)].id
  BY <1>1, ZenonT(30) DEF Cell
<1>4. [s[Len(s)] EXCEPT !.ok = 1].ok = 1
  BY <1>1, ZenonT(30) DEF Cell
<1> DEFINE w == [s[Len(s)] EXCEPT !.ok = 1]
<1>5. t = [s EXCEPT ![Len(s)] = w]
  BY ZenonT(30)
<1> HIDE DEF w
<1>6. t \in Seq(Cell) /\ Len(t) = Len(s)
  BY <1>1, <1>2, <1>5 DEF w
<1>7. \A i \in 1 .. Len(s) : t[i] = IF i = Len(s) THEN w ELSE s[i]
  BY <1>1, <1>5
<1> QED BY <1>1, <1>3, <1>4, <1>6, <1>7 DEF w

\* What a prefix of a file is.
LEMMA Prefix ==
  ASSUME NEW s \in Seq(Cell), NEW k \in 0 .. Len(s)
  PROVE  /\ SubSeq(s, 1, k) \in Seq(Cell) /\ Len(SubSeq(s, 1, k)) = k
         /\ \A i \in 1 .. k : SubSeq(s, 1, k)[i] = s[i]
PROOF OBVIOUS

\* The initial state satisfies the invariant: the file is empty.
LEMMA InitLog == LogInit => LogIInv
<1> SUFFICES ASSUME LogInit PROVE LogIInv
  BY ZenonT(30)
<1>1. LogTypeOK
  BY WALAssumption DEF LogInit, LogTypeOK
<1>2. Busy /\ Clean
  BY ZenonT(30) DEF LogInit, Busy, Clean
<1>3. AckedKept
  BY ZenonT(30) DEF LogInit, AckedKept
<1> QED BY <1>1, <1>2, <1>3, ZenonT(30) DEF LogIInv

\* Starting a write adds a torn cell and takes nothing from the readable ones.
LEMMA WriteStartStep == LogIInv /\ WriteStart => LogIInv'
<1> SUFFICES ASSUME LogIInv, WriteStart PROVE LogIInv'
  BY ZenonT(30)
<1> DEFINE c == [id |-> next, ok |-> 0]
<1>0. /\ file \in Seq(Cell) /\ synced \in 0 .. Len(file)
      /\ next \in 1 .. MaxRecords /\ MaxRecords \in Nat
  BY WALAssumption DEF LogIInv, LogTypeOK, WriteStart, Cell
<1>c. c \in Cell /\ c.id = next /\ c.ok = 0
  BY <1>0, ZenonT(30) DEF Cell
<1>f. file' = Append(file, c)
  BY ZenonT(30) DEF WriteStart
<1> HIDE DEF c
<1>1. /\ file' \in Seq(Cell) /\ Len(file') = Len(file) + 1
      /\ file'[Len(file')] = c
      /\ \A i \in 1 .. Len(file) : file'[i] = file[i]
  BY <1>0, <1>c, <1>f
<1>2. LogTypeOK'
  BY <1>0, <1>1 DEF LogIInv, LogTypeOK, WriteStart, Cell
<1>3. Busy'
  BY <1>0, <1>1, <1>c DEF WriteStart, Busy
<1>4. \A i \in 1 .. Len(file) : Readable(i) => Readable(i)'
  BY <1>0, <1>1 DEF Readable
<1>5. Clean'
  <2>1. ASSUME torn = 0 PROVE \A i \in 1 .. Len(file) : file'[i].ok = 1
    BY <2>1, <1>1, ZenonT(30) DEF LogIInv, Clean, Readable, WriteStart
  <2> QED BY <2>1, <1>0, <1>1 DEF Clean, Readable, WriteStart
<1>6. AckedKept'
  <2>1. Kept \subseteq Kept'
    BY <1>0, <1>1, <1>4 DEF Kept, KeptTo
  <2> QED BY <2>1, ZenonT(30) DEF LogIInv, AckedKept, WriteStart
<1> QED BY <1>2, <1>3, <1>5, <1>6, ZenonT(30) DEF LogIInv

\* A finished write makes the last cell whole; if no write failed before, every
\* cell before it is whole too and the record is readable.
LEMMA WriteDoneStep == LogIInv /\ WriteDone => LogIInv'
<1> SUFFICES ASSUME LogIInv, WriteDone PROVE LogIInv'
  BY ZenonT(30)
<1>0. /\ file \in Seq(Cell) /\ synced \in 0 .. Len(file) /\ Len(file) \in Nat
      /\ synced < Len(file)
      /\ next \in 2 .. MaxRecords + 1 /\ MaxRecords \in Nat
      /\ file[Len(file)].id = next - 1
  BY WALAssumption DEF LogIInv, LogTypeOK, Busy, WriteDone, Cell
<1>1. /\ file' \in Seq(Cell) /\ Len(file') = Len(file)
      /\ \A i \in 1 .. Len(file) : file'[i].id = file[i].id
      /\ \A i \in 1 .. Len(file) - 1 : file'[i].ok = file[i].ok
      /\ file'[Len(file)].ok = 1
  <2>1. file' = [file EXCEPT ![Len(file)].ok = 1] /\ Len(file) > 0
    BY <1>0 DEF WriteDone
  <2> QED BY <1>0, <2>1, MarkWhole, ZenonT(30)
<1>2. LogTypeOK'
  BY <1>0, <1>1, SMTT(30) DEF LogIInv, LogTypeOK, WriteDone, Cell
<1>3. Busy'
  BY ZenonT(30) DEF WriteDone, Busy
<1>4. \A i \in 1 .. Len(file) : Readable(i) => Readable(i)'
  BY <1>0, <1>1 DEF Readable
<1>5. torn = 0 => Readable(Len(file))'
  BY <1>0, <1>1 DEF LogIInv, Clean, Readable, WriteDone
<1>6. Clean'
  BY <1>0, <1>1, <1>5, ZenonT(30) DEF Clean, WriteDone, Readable
<1>7. AckedKept'
  <2>1. Kept \subseteq Kept'
    BY <1>0, <1>1, <1>4, ZenonT(30) DEF Kept, KeptTo
  <2>2. torn = 0 => next - 1 \in Kept'
    BY <1>0, <1>1, <1>5 DEF Kept, KeptTo
  <2>3. torn = 0 \/ torn = 1
    BY ZenonT(30) DEF LogIInv, LogTypeOK
  <2> QED BY <2>1, <2>2, <2>3, ZenonT(30) DEF LogIInv, AckedKept, WriteDone
<1> QED BY <1>2, <1>3, <1>6, <1>7, ZenonT(30) DEF LogIInv

\* A failed write leaves the readable cells alone, whether or not part of the
\* record stays in the file.
LEMMA WriteFailStep == LogIInv /\ WriteFail => LogIInv'
<1> SUFFICES ASSUME LogIInv, WriteFail PROVE LogIInv'
  BY ZenonT(30)
<1>0. /\ file \in Seq(Cell) /\ synced \in 0 .. Len(file) /\ Len(file) \in Nat
      /\ synced < Len(file)
      /\ next \in 2 .. MaxRecords + 1 /\ MaxRecords \in Nat
      /\ file[Len(file)].ok = 0
      /\ torn \in {0, 1} /\ mode = "busy"
  BY WALAssumption DEF LogIInv, LogTypeOK, Busy, WriteFail, Cell
<1>1. \/ file' = file /\ torn' = 1
      \/ /\ file' = SubSeq(file, 1, Len(file) - 1) /\ torn' = torn
         /\ file' \in Seq(Cell) /\ Len(file') = Len(file) - 1
         /\ \A i \in 1 .. Len(file) - 1 : file'[i] = file[i]
  <2>1. \/ file' = file /\ torn' = 1
        \/ file' = SubSeq(file, 1, Len(file) - 1) /\ torn' = torn
    BY ZenonT(30) DEF WriteFail
  <2>2. PICK k, f : k = Len(file) - 1 /\ f = SubSeq(file, 1, k)
    BY ZenonT(30)
  <2>3. k \in 0 .. Len(file)
    BY <1>0, <2>2
  <2>4. f \in Seq(Cell) /\ Len(f) = k /\ \A i \in 1 .. k : f[i] = file[i]
    BY <1>0, <2>2, <2>3, Prefix, ZenonT(30)
  <2> QED BY <2>1, <2>2, <2>4, ZenonT(30)
<1>2. LogTypeOK'
  BY <1>0, <1>1, SMTT(30) DEF LogIInv, LogTypeOK, WriteFail, Cell
<1>3. Busy'
  BY ZenonT(30) DEF WriteFail, Busy
<1>4. Clean'
  BY <1>0, <1>1, SMTT(30) DEF LogIInv, Clean, Readable, WriteFail
<1>5. AckedKept'
  <2>1. \A i \in 1 .. Len(file) : Readable(i) => i \in 1 .. Len(file) - 1
    BY <1>0 DEF Readable
  <2>2. Kept \subseteq Kept'
    <3>1. \A i \in 1 .. Len(file) - 1 :
            /\ i \in 1 .. Len(file')
            /\ file'[i] = file[i]
      BY <1>0, <1>1
    <3>2. \A i \in 1 .. Len(file) - 1 : Readable(i) => Readable(i)'
      BY <1>0, <3>1, SMTT(30) DEF Readable
    <3> QED BY <2>1, <3>1, <3>2, ZenonT(30) DEF Kept, KeptTo
  <2> QED BY <2>2, ZenonT(30) DEF LogIInv, AckedKept, WriteFail
<1> QED BY <1>2, <1>3, <1>4, <1>5, ZenonT(30) DEF LogIInv

\* A flush moves no cell.
LEMMA FlushStep == LogIInv /\ Flush => LogIInv'
<1> SUFFICES ASSUME LogIInv, Flush PROVE LogIInv'
  BY ZenonT(30)
<1>1. LogTypeOK'
  <2>1. Len(file) \in 0 .. Len(file)
    BY DEF LogIInv, LogTypeOK
  <2> QED BY <2>1, ZenonT(30) DEF LogIInv, LogTypeOK, Flush
<1>2. Busy' /\ Clean'
  BY ZenonT(30) DEF LogIInv, Flush, Busy, Clean, Readable
<1>3. AckedKept'
  <2>1. Kept' = Kept
    BY ZenonT(30) DEF Flush, Kept, KeptTo, Readable
  <2> QED BY <2>1, ZenonT(30) DEF LogIInv, AckedKept, Flush
<1> QED BY <1>1, <1>2, <1>3, ZenonT(30) DEF LogIInv

\* A kill may at most make the cell being written whole.
LEMMA KillStep == LogIInv /\ Kill => LogIInv'
<1> SUFFICES ASSUME LogIInv, Kill PROVE LogIInv'
  BY ZenonT(30)
<1>0. /\ file \in Seq(Cell) /\ synced \in 0 .. Len(file) /\ Len(file) \in Nat
  BY DEF LogIInv, LogTypeOK, Cell
<1>1. /\ file' \in Seq(Cell) /\ Len(file') = Len(file)
      /\ \A i \in 1 .. Len(file) : file'[i].id = file[i].id
      /\ \A i \in 1 .. Len(file) : file[i].ok = 1 => file'[i].ok = 1
  <2>1. CASE file' = file
    BY <1>0, <2>1, ZenonT(30)
  <2>2. CASE mode = "busy" /\ file' = [file EXCEPT ![Len(file)].ok = 1]
    <3>1. Len(file) > 0
      BY <1>0, <2>2 DEF LogIInv, Busy
    <3>2. /\ file' \in Seq(Cell) /\ Len(file') = Len(file)
          /\ \A i \in 1 .. Len(file) : file'[i].id = file[i].id
          /\ \A i \in 1 .. Len(file) - 1 : file'[i].ok = file[i].ok
          /\ file'[Len(file)].ok = 1
      <4>1. file' = [file EXCEPT ![Len(file)].ok = 1]
        BY <2>2, ZenonT(30)
      <4> QED BY <1>0, <3>1, <4>1, MarkWhole, SMTT(30)
    <3> QED BY <1>0, <3>2
  <2> QED BY <2>1, <2>2, ZenonT(30) DEF Kill
<1>2. LogTypeOK'
  BY <1>0, <1>1, ZenonT(30) DEF LogIInv, LogTypeOK, Kill, Cell
<1>3. Busy' /\ Clean'
  BY ZenonT(30) DEF Kill, Busy, Clean
<1>4. AckedKept'
  <2>1. \A i \in 1 .. Len(file) : Readable(i) => Readable(i)'
    BY <1>0, <1>1 DEF Readable
  <2>2. Kept \subseteq Kept'
    BY <1>0, <1>1, <2>1, ZenonT(30) DEF Kept, KeptTo
  <2> QED BY <2>2, ZenonT(30) DEF LogIInv, AckedKept, Kill
<1> QED BY <1>2, <1>3, <1>4, ZenonT(30) DEF LogIInv

\* A power failure keeps the synced cells as they are.
LEMMA PowerFailStep == LogIInv /\ PowerFail => LogIInv'
<1> SUFFICES ASSUME LogIInv, PowerFail PROVE LogIInv'
  BY ZenonT(30)
<1>0. /\ file \in Seq(Cell) /\ synced \in 0 .. Len(file) /\ Len(file) \in Nat
  BY DEF LogIInv, LogTypeOK, Cell
<1>1. /\ file' \in Seq(Cell) /\ synced <= Len(file')
      /\ \A i \in 1 .. synced : file'[i] = file[i]
  <2>1. PICK k \in synced .. Len(file) :
          \/ file' = SubSeq(file, 1, k)
          \/ /\ k < Len(file)
             /\ file' = Append(SubSeq(file, 1, k), [id |-> file[k + 1].id, ok |-> 0])
    BY ZenonT(30) DEF PowerFail
  <2>2. /\ SubSeq(file, 1, k) \in Seq(Cell) /\ Len(SubSeq(file, 1, k)) = k
        /\ \A i \in 1 .. k : SubSeq(file, 1, k)[i] = file[i]
    BY <1>0, Prefix
  <2>3. CASE file' = SubSeq(file, 1, k)
    BY <1>0, <2>2, <2>3
  <2>4. CASE /\ k < Len(file)
             /\ file' = Append(SubSeq(file, 1, k), [id |-> file[k + 1].id, ok |-> 0])
    <3>1. file[k + 1].id \in 1 .. MaxRecords
      BY <1>0, <2>4, CellType
    <3> DEFINE c == [id |-> file[k + 1].id, ok |-> 0]
               p == SubSeq(file, 1, k)
    <3>2. c \in Cell
      BY <3>1, ZenonT(30) DEF Cell
    <3>3. file' = Append(p, c) /\ p \in Seq(Cell) /\ Len(p) = k
          /\ \A i \in 1 .. k : p[i] = file[i]
      BY <2>2, <2>4, ZenonT(30)
    <3> HIDE DEF c, p
    <3> QED BY <1>0, <3>2, <3>3
  <2> QED BY <2>1, <2>3, <2>4, ZenonT(30)
<1>2. LogTypeOK'
  <2>1. exposed' \subseteq 1 .. MaxRecords
    BY ZenonT(30) DEF LogIInv, LogTypeOK, PowerFail
  <2>2. Len(file') \in Nat
    BY <1>1
  <2> QED BY <1>0, <1>1, <2>1, <2>2, SMTT(30) DEF LogIInv, LogTypeOK, PowerFail, Cell
<1>3. Busy' /\ Clean'
  BY ZenonT(30) DEF PowerFail, Busy, Clean
<1>4. AckedKept'
  <2>1. \A i \in 1 .. synced : Readable(i) => Readable(i)'
    BY <1>0, <1>1 DEF Readable
  <2>2. Len(file') \in Nat
    BY <1>1
  <2>3. KeptTo(synced) \subseteq Kept'
    BY <1>0, <1>1, <2>1, <2>2 DEF Kept, KeptTo
  <2> QED BY <2>3, ZenonT(30) DEF LogIInv, AckedKept, PowerFail
<1> QED BY <1>2, <1>3, <1>4, ZenonT(30) DEF LogIInv

\* What cutting the file after n readable cells leaves.
LEMMA TruncateFacts ==
  ASSUME LogTypeOK, NEW n \in 0 .. Len(file), TruncateAt(n)
  PROVE  /\ file' \in Seq(Cell) /\ Len(file') = n
         /\ \A i \in 1 .. n : file'[i] = file[i]
         /\ synced' \in 0 .. n
<1>1. file \in Seq(Cell) /\ synced \in 0 .. Len(file)
  BY ZenonT(30) DEF LogTypeOK, Cell
<1>2. file' = SubSeq(file, 1, n)
  BY ZenonT(30) DEF TruncateAt
<1>3. synced' \in 0 .. n
  BY <1>1 DEF TruncateAt
<1> QED BY <1>1, <1>2, <1>3, Prefix, ZenonT(30)

\* Recovery cuts at the first torn cell: it loses no readable one.
LEMMA RecoverStep == LogIInv /\ Recover => LogIInv'
<1> SUFFICES ASSUME LogIInv, Recover PROVE LogIInv'
  BY ZenonT(30)
<1>0. LogTypeOK /\ file \in Seq(Cell) /\ Len(file) \in Nat
  BY DEF LogIInv, LogTypeOK, Cell
<1>1. PICK n \in 0 .. Len(file) :
        /\ Readable(n)
        /\ n < Len(file) => file[n + 1].ok = 0
        /\ TruncateAt(n)
  BY ZenonT(30) DEF Recover
<1>2. /\ file' \in Seq(Cell) /\ Len(file') = n
      /\ \A i \in 1 .. n : file'[i] = file[i]
      /\ synced' \in 0 .. n
  BY <1>0, <1>1, TruncateFacts, ZenonT(30)
<1>3. LogTypeOK'
  BY <1>2, ZenonT(30) DEF LogIInv, LogTypeOK, Recover, Cell
<1>4. Busy' /\ Clean'
  BY <1>0, <1>1, <1>2, ZenonT(30) DEF Recover, Busy, Clean, Readable
<1>5. AckedKept'
  <2>1. \A i \in 1 .. Len(file) : Readable(i) => i \in 1 .. n
    BY <1>0, <1>1 DEF Readable
  <2>2. \A i \in 1 .. n : Readable(i) => Readable(i)'
    BY <1>0, <1>2 DEF Readable
  <2>3. Kept \subseteq Kept'
    BY <1>0, <1>2, <2>1, <2>2, ZenonT(30) DEF Kept, KeptTo
  <2> QED BY <2>3, ZenonT(30) DEF LogIInv, AckedKept, Recover
<1> QED BY <1>3, <1>4, <1>5, ZenonT(30) DEF LogIInv

\* A failed read loses the cells from there on, and only those.
LEMMA ReadErrorStep == LogIInv /\ RecoverReadError => LogIInv'
<1> SUFFICES ASSUME LogIInv, RecoverReadError PROVE LogIInv'
  BY ZenonT(30)
<1>0. LogTypeOK /\ file \in Seq(Cell) /\ Len(file) \in Nat
  BY DEF LogIInv, LogTypeOK, Cell
<1>1. PICK n \in 0 .. Len(file) - 1 :
        /\ Readable(n + 1)
        /\ TruncateAt(n)
        /\ suspect' = suspect \cup {file[i].id : i \in n + 1 .. Len(file)}
  BY ZenonT(30) DEF RecoverReadError
<1>2. /\ file' \in Seq(Cell) /\ Len(file') = n
      /\ \A i \in 1 .. n : file'[i] = file[i]
      /\ synced' \in 0 .. n
  BY <1>0, <1>1, TruncateFacts
<1>3. LogTypeOK'
  <2>1. suspect' \subseteq 1 .. MaxRecords
    <3>1. \A i \in n + 1 .. Len(file) : file[i].id \in 1 .. MaxRecords
      BY <1>0, CellType
    <3>2. suspect \subseteq 1 .. MaxRecords
      BY <1>0, ZenonT(30) DEF LogTypeOK
    <3> QED BY <1>1, <3>1, <3>2, ZenonT(30)
  <2> QED BY <1>2, <2>1, ZenonT(30) DEF LogIInv, LogTypeOK, RecoverReadError, Cell
<1>4. Busy' /\ Clean'
  <2>1. \A i \in 1 .. n : file[i].ok = 1
    BY <1>0, <1>1 DEF Readable
  <2>2. Readable(Len(file))'
    BY <1>2, <2>1 DEF Readable
  <2> QED BY <2>2, ZenonT(30) DEF RecoverReadError, Busy, Clean
<1>5. AckedKept'
  <2>1. \A i \in 1 .. n : Readable(i) => Readable(i)'
    BY <1>0, <1>2 DEF Readable
  <2>2. Kept \subseteq Kept' \cup {file[i].id : i \in n + 1 .. Len(file)}
    BY <1>0, <1>2, <2>1 DEF Kept, KeptTo
  <2> QED BY <1>1, <2>2, ZenonT(30) DEF LogIInv, AckedKept, RecoverReadError
<1> QED BY <1>3, <1>4, <1>5, ZenonT(30) DEF LogIInv

\* A recovery that could not look at the file leaves it alone, and knows by
\* torn whether a part of a record stays in the way.
LEMMA StatErrorStep == LogIInv /\ RecoverStatError => LogIInv'
<1> SUFFICES ASSUME LogIInv, RecoverStatError PROVE LogIInv'
  BY ZenonT(30)
<1>1. LogTypeOK'
  BY ZenonT(30) DEF LogIInv, LogTypeOK, RecoverStatError
<1>2. Busy' /\ Clean'
  BY DEF RecoverStatError, Busy, Clean, Readable
<1>3. AckedKept'
  BY ZenonT(30) DEF LogIInv, AckedKept, Kept, KeptTo, Readable, RecoverStatError
<1> QED BY <1>1, <1>2, <1>3, ZenonT(30) DEF LogIInv

\* A step that changes nothing preserves the invariant.
LEMMA StutterStep == LogIInv /\ UNCHANGED logVars => LogIInv'
PROOF BY DEF LogIInv, LogTypeOK, Busy, Clean, AckedKept, Kept, KeptTo, Readable, logVars

\* Every step of the log preserves the invariant.
LEMMA NextLog == LogIInv /\ [LogNext]_logVars => LogIInv'
PROOF BY WriteStartStep, WriteDoneStep, WriteFailStep, FlushStep, KillStep,
         PowerFailStep, RecoverStep, ReadErrorStep, StatErrorStep,
         StutterStep, ZenonT(30) DEF LogNext

\* The invariant of the log holds throughout.
THEOREM LogInvariant == LogSpec => []LogIInv
PROOF BY InitLog, NextLog, PTL DEF LogSpec

\* The file, the synced length and the histories keep their types.
THEOREM LogTypeCorrect == LogSpec => []LogTypeOK
<1>1. LogIInv => LogTypeOK
  BY ZenonT(30) DEF LogIInv
<1> QED BY <1>1, LogInvariant, PTL

\* A record whose append returned is replayed by every later recovery, but for
\* the exceptions AckedKept names: a failed write, an unsynced power failure, a
\* failed read.
THEOREM AckedSurvive == LogSpec => []AckedKept
<1>1. LogIInv => AckedKept
  BY ZenonT(30) DEF LogIInv
<1> QED BY <1>1, LogInvariant, PTL

-----------------------------------------------------------------------------
\* The file as a DurableLog

\* The readable prefix of a file ends after its first n cells.
Ends(f, n) ==
  /\ n \in 0 .. Len(f) /\ \A i \in 1 .. n : f[i].ok = 1
  /\ n < Len(f) => f[n + 1].ok = 0
Upto(f) == Cardinality({n \in 1 .. Len(f) : \A i \in 1 .. n : f[i].ok = 1})
Ids(f, n) == [i \in 1 .. n |-> f[i].id]
Lower(m, n) == IF m < n THEN m ELSE n

\* The log and its durable part that the file stands for.
Log == Ids(file, KeptLen)
Durable == Lower(synced, KeptLen)

\* A set of natural numbers has a least element.
LEMMA Least ==
  ASSUME NEW T \in SUBSET Nat, T # {}
  PROVE  \E x \in T : \A y \in T : x <= y
<1> DEFINE R == {p \in Nat \X Nat : p[1] < p[2]}
<1>1. IsWellFoundedOn(R, Nat)
  BY NatLessThanWellFounded, ZenonT(30) DEF OpToRel
<1> HIDE DEF R
<1>2. PICK x \in T : \A y \in T : ~(<<y, x>> \in R)
  BY <1>1, WFMin, ZenonT(30)
<1>3. \A y \in T : y < x => <<y, x>> \in R
  BY ZenonT(30) DEF R
<1>4. \A y \in T : ~(y < x)
  BY <1>2, <1>3, ZenonT(30)
<1> QED
  BY <1>4

\* recover() stops somewhere: at the end of the file or at its first torn cell.
LEMMA EndExists ==
  ASSUME NEW f \in Seq(Cell)
  PROVE  \E n \in 0 .. Len(f) : Ends(f, n)
<1>1. Len(f) \in Nat /\ \A i \in 1 .. Len(f) : f[i].ok \in {0, 1}
  BY CellType, ZenonT(30)
<1> DEFINE T == {m \in 1 .. Len(f) : f[m].ok = 0}
<1>2. CASE T = {}
  <2>1. \A i \in 1 .. Len(f) : f[i].ok = 1
    BY <1>1, <1>2, ZenonT(30)
  <2>2. Ends(f, Len(f))
    BY <1>1, <2>1 DEF Ends
  <2> QED
    BY <1>1, <2>2
<1>3. CASE T # {}
  <2>1. T \in SUBSET Nat
    BY <1>1
  <2>2. PICK m \in T : \A y \in T : m <= y
    <3> HIDE DEF T
    <3> QED
      BY <1>3, <2>1, Least, ZenonT(30)
  <2>3. m \in 1 .. Len(f) /\ f[m].ok = 0 /\ m - 1 \in 0 .. Len(f) /\ (m - 1) + 1 = m
    BY <1>1, <2>2
  <2>4. \A i \in 1 .. m - 1 : f[i].ok = 1
    BY <1>1, <2>2, <2>3
  <2>5. Ends(f, m - 1)
    BY <2>3, <2>4, ZenonT(30) DEF Ends
  <2> QED
    BY <2>3, <2>5, ZenonT(30)
<1> QED
  BY <1>2, <1>3, ZenonT(30)

\* That many cells are counted.
LEMMA EndCounts ==
  ASSUME NEW f \in Seq(Cell), NEW n \in 0 .. Len(f), Ends(f, n)
  PROVE  Upto(f) = n
<1>1. Len(f) \in Nat /\ n \in Nat
  OBVIOUS
<1>2. {m \in 1 .. Len(f) : \A i \in 1 .. m : f[i].ok = 1} = 1 .. n
  <2>1. ASSUME NEW m \in 1 .. Len(f), \A i \in 1 .. m : f[i].ok = 1 PROVE m \in 1 .. n
    <3>1. CASE m > n
      <4>1. n + 1 \in 1 .. m /\ n < Len(f)
        BY <1>1, <3>1
      <4> QED
        BY <2>1, <4>1 DEF Ends
    <3> QED
      BY <1>1, <3>1
  <2>2. ASSUME NEW m \in 1 .. n PROVE m \in 1 .. Len(f) /\ \A i \in 1 .. m : f[i].ok = 1
    BY <1>1 DEF Ends
  <2> QED
    BY <2>1, <2>2, ZenonT(30)
<1>3. Cardinality(1 .. n) = n
  <2>1. Cardinality(1 .. n) = IF 1 > n THEN 0 ELSE n - 1 + 1
    BY <1>1, FS_Interval
  <2> QED
    BY <1>1, <2>1
<1> QED
  BY <1>2, <1>3, ZenonT(30) DEF Upto

\* A function on 1 .. n is a sequence.
LEMMA FunctionSeq ==
  ASSUME NEW S, NEW n \in Nat, NEW g \in [1 .. n -> S]
  PROVE  g \in Seq(S) /\ Len(g) = n
<1>1. [i \in 1 .. n |-> g[i]] \in Seq(S) /\ Len([i \in 1 .. n |-> g[i]]) = n
  OBVIOUS
<1>2. g = [i \in 1 .. n |-> g[i]]
  BY ZenonT(30)
<1> QED
  BY <1>1, <1>2, ZenonT(30)

\* The numbers of the first records of a file.
LEMMA IdsFacts ==
  ASSUME NEW f \in Seq(Cell), NEW n \in 0 .. Len(f)
  PROVE  /\ Ids(f, n) \in Seq(1 .. MaxRecords) /\ Len(Ids(f, n)) = n
         /\ \A k \in 0 .. n : SubSeq(Ids(f, n), 1, k) = Ids(f, k)
         /\ n < Len(f) => Append(Ids(f, n), f[n + 1].id) = Ids(f, n + 1)
<1>1. Len(f) \in Nat /\ n \in Nat /\ \A i \in 1 .. Len(f) : f[i].id \in 1 .. MaxRecords
  BY CellType
<1>2. Ids(f, n) \in Seq(1 .. MaxRecords) /\ Len(Ids(f, n)) = n
  <2>1. \A i \in 1 .. n : f[i].id \in 1 .. MaxRecords
    BY <1>1
  <2>2. Ids(f, n) \in [1 .. n -> 1 .. MaxRecords]
    BY <2>1, ZenonT(30) DEF Ids
  <2> QED
    BY <1>1, <2>2, FunctionSeq, ZenonT(30)
<1>3. ASSUME NEW k \in 0 .. n PROVE SubSeq(Ids(f, n), 1, k) = Ids(f, k)
  <2>1. k \in Nat /\ k <= n
    BY <1>1
  <2>2. SubSeq(Ids(f, n), 1, k) = [i \in 1 .. k |-> Ids(f, n)[i]]
    BY <1>2, <2>1
  <2>3. \A i \in 1 .. k : Ids(f, n)[i] = f[i].id
    BY <1>1, <2>1 DEF Ids
  <2> QED
    BY <2>2, <2>3, ZenonT(30) DEF Ids
<1>4. ASSUME n < Len(f) PROVE Append(Ids(f, n), f[n + 1].id) = Ids(f, n + 1)
  <2>1. Append(Ids(f, n), f[n + 1].id)
          = [i \in 1 .. n + 1 |-> IF i = n + 1 THEN f[n + 1].id ELSE Ids(f, n)[i]]
    BY <1>1, <1>2
  <2>2. \A i \in 1 .. n + 1 : i # n + 1 => Ids(f, n)[i] = f[i].id
    BY <1>1 DEF Ids
  <2> QED
    BY <2>1, <2>2, ZenonT(30) DEF Ids
<1> QED
  BY <1>2, <1>3, <1>4, ZenonT(30)

\* What the file stands for, before and after a step.
LEMMA Mapped ==
  ASSUME file \in Seq(Cell), NEW n \in 0 .. Len(file), Ends(file, n)
  PROVE  Log = Ids(file, n) /\ Durable = Lower(synced, n) /\ Len(Log) = n
<1>1. KeptLen = Upto(file)
  BY ZenonT(30) DEF KeptLen, Upto, Readable
<1>2. Upto(file) = n
  BY EndCounts, ZenonT(30)
<1>3. Len(Ids(file, n)) = n
  BY IdsFacts, ZenonT(30)
<1> QED
  BY <1>1, <1>2, <1>3, ZenonT(30) DEF Log, Durable

\* The same after a step.
LEMMA MappedNext ==
  ASSUME file' \in Seq(Cell), NEW n \in 0 .. Len(file'), Ends(file', n)
  PROVE  Log' = Ids(file', n) /\ Durable' = Lower(synced', n)
<1>1. KeptLen' = Upto(file')
  BY ZenonT(30) DEF KeptLen, Upto, Readable
<1>2. Upto(file') = n
  BY EndCounts, ZenonT(30)
<1> QED
  BY <1>1, <1>2, ZenonT(30) DEF Log, Durable

\* The steps of a DurableLog.
Same == Log' = Log /\ Durable' = Durable /\ acked' = acked
Adds ==
  \E r \in 1 .. MaxRecords :
    Log' = Append(Log, r) /\ acked' \in {acked, acked \cup {r}} /\ Durable' = Durable
Syncs == Durable' = Len(Log) /\ Log' = Log /\ acked' = acked
Loses ==
  /\ \E k \in Durable .. Len(Log) : Log' = SubSeq(Log, 1, k)
  /\ Durable' = Durable /\ acked' = acked

\* The torn cell of a record that is begun is not read.
LEMMA WriteStartSame ==
  ASSUME LogIInv, WriteStart, NEW n \in 0 .. Len(file), Ends(file, n)
  PROVE  Same
<1> DEFINE c == [id |-> next, ok |-> 0]
<1>1. /\ file \in Seq(Cell) /\ Len(file) \in Nat /\ c \in Cell /\ c.ok = 0
      /\ synced \in 0 .. Len(file) /\ file' = Append(file, c)
      /\ synced' = synced /\ acked' = acked
  BY WALAssumption DEF LogIInv, LogTypeOK, WriteStart, Cell
<1> HIDE DEF c
<1>2. /\ file' \in Seq(Cell) /\ Len(file') = Len(file) + 1
      /\ \A i \in 1 .. Len(file) : file'[i] = file[i]
      /\ file'[Len(file) + 1] = c
  BY <1>1
<1>3. n \in 0 .. Len(file') /\ Ends(file', n)
  <2>1. n \in 0 .. Len(file') /\ \A i \in 1 .. n : file'[i].ok = 1
    BY <1>1, <1>2 DEF Ends
  <2>2. file'[n + 1].ok = 0
    <3>1. CASE n = Len(file)
      BY <3>1, <1>1, <1>2, ZenonT(30)
    <3>2. CASE n < Len(file)
      BY <3>2, <1>1, <1>2 DEF Ends
    <3> QED
      BY <1>1, <3>1, <3>2
  <2> QED
    BY <2>1, <2>2, ZenonT(30) DEF Ends
<1>4. Ids(file', n) = Ids(file, n)
  BY <1>1, <1>2 DEF Ids
<1> QED
  BY <1>1, <1>2, <1>3, <1>4, Mapped, MappedNext, ZenonT(30) DEF Same

\* The last cell becomes whole: the log gets its record if it is read up to there.
LEMMA WholeAdds ==
  ASSUME LogIInv, mode = "busy", NEW n \in 0 .. Len(file), Ends(file, n),
         file' = [file EXCEPT ![Len(file)].ok = 1], synced' = synced
  PROVE  /\ Durable' = Durable
         /\ IF n = Len(file) - 1 THEN Log' = Append(Log, next - 1) ELSE Log' = Log
<1>1. /\ file \in Seq(Cell) /\ Len(file) \in Nat /\ synced \in 0 .. Len(file)
      /\ synced < Len(file) /\ file[Len(file)].id = next - 1 /\ file[Len(file)].ok = 0
  BY DEF LogIInv, LogTypeOK, Busy, Cell
<1>2. /\ file' \in Seq(Cell) /\ Len(file') = Len(file)
      /\ \A i \in 1 .. Len(file) : file'[i].id = file[i].id
      /\ \A i \in 1 .. Len(file) - 1 : file'[i].ok = file[i].ok
      /\ file'[Len(file)].ok = 1
  BY <1>1, MarkWhole, SMTT(30)
<1>3. n <= Len(file) - 1
  BY <1>1 DEF Ends
<1>4. CASE n = Len(file) - 1
  <2>1. n + 1 = Len(file) /\ n + 1 \in 0 .. Len(file')
    BY <1>1, <1>2, <1>4
  <2>2. Ends(file', n + 1)
    <3>1. \A i \in 1 .. n + 1 : file'[i].ok = 1
      BY <1>1, <1>2, <2>1 DEF Ends
    <3> QED
      BY <1>1, <1>2, <2>1, <3>1 DEF Ends
  <2>3. Log' = Ids(file', n + 1) /\ Durable' = Lower(synced, n + 1)
    BY <1>2, <2>1, <2>2, MappedNext, ZenonT(30)
  <2>4. Ids(file', n + 1) = Ids(file, n + 1)
    BY <1>1, <1>2, <2>1, ZenonT(30) DEF Ids
  <2>5. Append(Ids(file, n), file[n + 1].id) = Ids(file, n + 1)
    <3>1. n < Len(file)
      BY <1>1, <2>1
    <3> QED
      BY <1>1, <3>1, IdsFacts, ZenonT(30)
  <2>6. Lower(synced, n + 1) = synced /\ Lower(synced, n) = synced
    BY <1>1, <2>1 DEF Lower
  <2>7. Log = Ids(file, n) /\ Durable = Lower(synced, n)
    BY <1>1, Mapped, ZenonT(30)
  <2>8. Log' = Append(Log, next - 1)
    BY <1>1, <2>1, <2>3, <2>4, <2>5, <2>7, ZenonT(30)
  <2>9. Durable' = Durable
    BY <2>3, <2>6, <2>7, ZenonT(30)
  <2> QED
    BY <1>4, <2>8, <2>9, ZenonT(30)
<1>5. CASE n < Len(file) - 1
  <2>1. Ends(file', n) /\ n \in 0 .. Len(file')
    BY <1>1, <1>2, <1>5 DEF Ends
  <2>2. Ids(file', n) = Ids(file, n)
    BY <1>1, <1>2 DEF Ids
  <2>3. Log = Ids(file, n) /\ Durable = Lower(synced, n)
    BY <1>1, Mapped, ZenonT(30)
  <2>4. Log' = Ids(file', n) /\ Durable' = Lower(synced', n)
    BY <1>2, <2>1, MappedNext, ZenonT(30)
  <2>5. Log' = Log /\ Durable' = Durable /\ n # Len(file) - 1
    BY <1>1, <1>5, <2>2, <2>3, <2>4
  <2> QED
    BY <2>5, ZenonT(30)
<1> QED
  BY <1>1, <1>3, <1>4, <1>5

\* An append that returns has added its record, unless it follows a torn one.
LEMMA WriteDoneAdds ==
  ASSUME LogIInv, WriteDone, suspect' = {}, NEW n \in 0 .. Len(file), Ends(file, n)
  PROVE  Adds
<1>1. /\ mode = "busy" /\ torn = 0 /\ file' = [file EXCEPT ![Len(file)].ok = 1]
      /\ synced' = synced /\ acked' = acked \cup {next - 1}
  BY ZenonT(30) DEF WriteDone, LogIInv, LogTypeOK
<1>2. /\ file \in Seq(Cell) /\ Len(file) \in Nat /\ Len(file) > 0 /\ file[Len(file)].ok = 0
      /\ next - 1 \in 1 .. MaxRecords
  BY <1>1, WALAssumption DEF LogIInv, LogTypeOK, Busy, Cell
<1>3. Readable(Len(file) - 1)
  BY <1>1, ZenonT(30) DEF LogIInv, Clean
<1>4. n = Len(file) - 1
  <2>1. CASE n < Len(file) - 1
    <3>1. n + 1 \in 1 .. Len(file) - 1
      BY <1>2, <2>1
    <3> QED
      BY <1>2, <1>3, <2>1, <3>1 DEF Ends, Readable
  <2>2. CASE n = Len(file)
    BY <1>2, <2>2 DEF Ends
  <2> QED
    BY <1>2, <2>1, <2>2
<1>5. Durable' = Durable /\ Log' = Append(Log, next - 1)
  BY <1>1, <1>4, WholeAdds, ZenonT(30)
<1> QED
  BY <1>1, <1>2, <1>5, ZenonT(30) DEF Adds

\* After a kill the kernel may still write all of the last record.
LEMMA KillAdds ==
  ASSUME LogIInv, Kill, NEW n \in 0 .. Len(file), Ends(file, n)
  PROVE  Same \/ Adds
<1>1. synced' = synced /\ acked' = acked
  BY ZenonT(30) DEF Kill
<1>2. CASE UNCHANGED file
  BY <1>1, <1>2, ZenonT(30) DEF Same, Log, Durable, KeptLen, Readable
<1>3. CASE mode = "busy" /\ file' = [file EXCEPT ![Len(file)].ok = 1]
  <2>1. /\ Durable' = Durable
        /\ IF n = Len(file) - 1 THEN Log' = Append(Log, next - 1) ELSE Log' = Log
    BY <1>1, <1>3, WholeAdds, ZenonT(30)
  <2>2. next - 1 \in 1 .. MaxRecords
    BY <1>3, WALAssumption DEF LogIInv, LogTypeOK, Busy
  <2> QED
    BY <1>1, <2>1, <2>2, ZenonT(30) DEF Same, Adds
<1> QED
  BY <1>2, <1>3, ZenonT(30) DEF Kill

\* fdatasync covers all that is read.
LEMMA FlushSyncs ==
  ASSUME LogIInv, Flush, NEW n \in 0 .. Len(file), Ends(file, n)
  PROVE  Syncs
<1>1. /\ file \in Seq(Cell) /\ Len(file) \in Nat /\ file' = file
      /\ synced' = Len(file) /\ acked' = acked
  BY DEF LogIInv, LogTypeOK, Flush, Cell
<1>2. Log' = Ids(file, n) /\ Durable' = Lower(Len(file), n)
  BY <1>1, MappedNext, ZenonT(30)
<1>3. Lower(Len(file), n) = n
  BY <1>1 DEF Lower
<1>4. Log = Ids(file, n) /\ Len(Log) = n
  BY <1>1, Mapped, ZenonT(30)
<1> QED
  BY <1>1, <1>2, <1>3, <1>4, ZenonT(30) DEF Syncs

\* A power failure loses a suffix that was not synced.
LEMMA PowerFailLoses ==
  ASSUME LogIInv, PowerFail, NEW n \in 0 .. Len(file), Ends(file, n)
  PROVE  Loses
<1>1. /\ file \in Seq(Cell) /\ Len(file) \in Nat /\ synced \in 0 .. Len(file)
      /\ synced' = synced /\ acked' = acked
  BY DEF LogIInv, LogTypeOK, PowerFail, Cell
<1>2. PICK k \in synced .. Len(file) :
        \/ file' = SubSeq(file, 1, k)
        \/ k < Len(file) /\ file' = Append(SubSeq(file, 1, k), [id |-> file[k + 1].id, ok |-> 0])
  BY ZenonT(30) DEF PowerFail
<1>3. k \in 0 .. Len(file) /\ k \in Nat /\ n \in Nat /\ synced \in Nat
  BY <1>1
<1> DEFINE cut == SubSeq(file, 1, k)
<1>4. cut \in Seq(Cell) /\ Len(cut) = k /\ \A i \in 1 .. k : cut[i] = file[i]
  BY <1>1, <1>3, Prefix, ZenonT(30)
<1>5. /\ file' \in Seq(Cell) /\ Len(file') \in {k, k + 1}
      /\ \A i \in 1 .. k : file'[i] = file[i]
      /\ Len(file') = k + 1 => file'[k + 1].ok = 0
  <2>1. CASE file' = cut
    BY <1>3, <1>4, <2>1
  <2>2. ASSUME k < Len(file), NEW c, c = [id |-> file[k + 1].id, ok |-> 0], file' = Append(cut, c)
        PROVE  /\ file' \in Seq(Cell) /\ Len(file') \in {k, k + 1}
               /\ \A i \in 1 .. k : file'[i] = file[i]
               /\ Len(file') = k + 1 => file'[k + 1].ok = 0
    <3>1. k + 1 \in 1 .. Len(file)
      BY <1>1, <1>3, <2>2
    <3>2. file[k + 1].id \in 1 .. MaxRecords
      BY <1>1, <3>1, CellType, ZenonT(30)
    <3>3. c \in Cell /\ c.ok = 0
      BY <2>2, <3>2, ZenonT(30) DEF Cell
    <3> HIDE DEF cut
    <3> QED
      BY <1>3, <1>4, <2>2, <3>3
  <2> QED
    BY <1>2, <2>1, <2>2, ZenonT(30)
<1> HIDE DEF cut
<1>6. PICK j \in 0 .. n : j = Lower(n, k)
  BY <1>3 DEF Lower
<1>7. j \in 0 .. Len(file') /\ Ends(file', j)
  <2>1. CASE n < k
    <3>1. j = n /\ n + 1 \in 1 .. k /\ n < Len(file)
      BY <1>1, <1>3, <1>6, <2>1 DEF Lower
    <3>2. j \in 0 .. Len(file') /\ \A i \in 1 .. j : file'[i].ok = 1
      BY <1>3, <1>5, <3>1 DEF Ends
    <3> QED
      BY <1>5, <3>1, <3>2, ZenonT(30) DEF Ends
  <2>2. CASE n >= k
    <3>1. j = k
      BY <1>3, <1>6, <2>2 DEF Lower
    <3>2. j \in 0 .. Len(file') /\ \A i \in 1 .. j : file'[i].ok = 1
      <4>1. \A i \in 1 .. n : file[i].ok = 1
        BY ZenonT(30) DEF Ends
      <4>2. 1 .. k \subseteq 1 .. n /\ j \in 0 .. Len(file')
        BY <1>3, <1>5, <2>2, <3>1
      <4> QED
        BY <1>5, <3>1, <4>1, <4>2, ZenonT(30)
    <3>3. j < Len(file') => Len(file') = k + 1
      BY <1>3, <1>5, <3>1
    <3> QED
      BY <1>5, <3>1, <3>2, <3>3, ZenonT(30) DEF Ends
  <2> QED
    BY <1>3, <2>1, <2>2
<1>8. Log' = Ids(file', j) /\ Durable' = Lower(synced, j)
  BY <1>1, <1>5, <1>7, MappedNext, ZenonT(30)
<1>9. Log = Ids(file, n) /\ Durable = Lower(synced, n) /\ Len(Log) = n
  BY <1>1, Mapped, ZenonT(30)
<1>10. Lower(synced, j) = Lower(synced, n) /\ j \in Lower(synced, n) .. n /\ j <= k
  BY <1>2, <1>3, <1>6 DEF Lower
<1>11. Ids(file', j) = Ids(file, j)
  BY <1>3, <1>5, <1>10 DEF Ids
<1>12. SubSeq(Ids(file, n), 1, j) = Ids(file, j)
  BY <1>1, <1>6, IdsFacts, ZenonT(30)
<1> QED
  BY <1>1, <1>8, <1>9, <1>10, <1>11, <1>12, ZenonT(30) DEF Loses

\* recover() replays what is read and cuts the rest, which was not.
LEMMA RecoverSame ==
  ASSUME LogIInv, Recover, NEW n \in 0 .. Len(file), Ends(file, n)
  PROVE  Same
<1>1. file \in Seq(Cell) /\ Len(file) \in Nat /\ synced \in 0 .. Len(file) /\ acked' = acked
  BY DEF LogIInv, LogTypeOK, Recover, Cell
<1>2. PICK m \in 0 .. Len(file) : Ends(file, m) /\ TruncateAt(m)
  BY ZenonT(30) DEF Recover, Readable, Ends
<1>3. m = n
  BY <1>1, <1>2, EndCounts, ZenonT(30)
<1>4. file' = SubSeq(file, 1, n) /\ synced' = Lower(synced, n)
  BY <1>2, <1>3, ZenonT(30) DEF TruncateAt, Lower
<1>5. file' \in Seq(Cell) /\ Len(file') = n /\ \A i \in 1 .. n : file'[i] = file[i]
  BY <1>1, <1>4, Prefix, ZenonT(30)
<1>6. n \in 0 .. Len(file') /\ Ends(file', n)
  BY <1>1, <1>5 DEF Ends
<1>7. Log' = Ids(file', n) /\ Durable' = Lower(synced', n)
  BY <1>5, <1>6, MappedNext, ZenonT(30)
<1>8. Log = Ids(file, n) /\ Durable = Lower(synced, n)
  BY <1>1, Mapped, ZenonT(30)
<1>9. Ids(file', n) = Ids(file, n)
  BY <1>5, ZenonT(30) DEF Ids
<1>10. Lower(Lower(synced, n), n) = Lower(synced, n)
  BY <1>1, ZenonT(30) DEF Lower
<1> QED
  BY <1>1, <1>4, <1>7, <1>8, <1>9, <1>10, ZenonT(30) DEF Same

\* Every step of the file is one of a DurableLog or leaves the log alone, until a
\* write or a read fails.
LEMMA DurableStep ==
  ASSUME LogIInv, [LogNext]_logVars, suspect' = {}
  PROVE  Same \/ Adds \/ Syncs \/ Loses
<1>1. file \in Seq(Cell)
  BY ZenonT(30) DEF LogIInv, LogTypeOK, Cell
<1>2. PICK n \in 0 .. Len(file) : Ends(file, n)
  BY <1>1, EndExists, ZenonT(30)
<1>3. CASE UNCHANGED <<file, synced, acked>>
  BY <1>3, ZenonT(30) DEF Same, Log, Durable, KeptLen, Readable
<1>4. ~WriteFail
  BY ZenonT(30) DEF WriteFail
<1>5. ~RecoverReadError
  <2> SUFFICES ASSUME RecoverReadError PROVE FALSE
    BY ZenonT(30)
  <2>1. PICK m \in 0 .. Len(file) - 1 :
          suspect' = suspect \cup {file[i].id : i \in m + 1 .. Len(file)}
    BY ZenonT(30) DEF RecoverReadError
  <2>2. Len(file) \in m + 1 .. Len(file)
    BY <1>1
  <2>3. file[Len(file)].id \in suspect'
    BY <2>1, <2>2, ZenonT(30)
  <2> QED
    BY <2>3, ZenonT(30)
<1>6. RecoverStatError \/ UNCHANGED logVars => UNCHANGED <<file, synced, acked>>
  BY ZenonT(30) DEF RecoverStatError, logVars
<1> QED
  BY <1>2, <1>3, <1>4, <1>5, <1>6, WriteStartSame, WriteDoneAdds, KillAdds, FlushSyncs,
     PowerFailLoses, RecoverSame, ZenonT(30) DEF LogNext

\* For every number of records, kills, power failures and torn tails, and until a
\* write or a read of it fails, the file is a DurableLog: it loses only a suffix, never
\* a flushed one, and an append that returns has added its record.
THEOREM FileImplementsDurableLog == LogSpec => ImplementsDurableLog
<1>1. LogInit => Abs!Init
  <2> SUFFICES ASSUME LogInit PROVE Abs!Init
    BY ZenonT(30)
  <2>1. file = <<>> /\ synced = 0 /\ acked = {} /\ Ends(file, 0)
    BY DEF LogInit, Ends
  <2>2. file \in Seq(Cell) /\ Len(file) = 0
    BY <2>1
  <2>3. Log = Ids(file, 0) /\ Durable = Lower(0, 0)
    BY <2>1, <2>2, Mapped
  <2>4. Log = <<>> /\ Durable = 0
    BY <2>3 DEF Ids, Lower
  <2> QED
    BY <2>1, <2>4, ZenonT(30) DEF Abs!Init, Log, Durable, Ids, Lower
<1>2. LogIInv /\ [LogNext]_logVars => [suspect' = {} => [Abs!Next]_(Abs!vars)]_logVars
  <2> SUFFICES ASSUME LogIInv, [LogNext]_logVars, suspect' = {} PROVE [Abs!Next]_(Abs!vars)
    BY ZenonT(30)
  <2>1. CASE Same
    BY <2>1, ZenonT(30) DEF Same, Abs!vars, Log, Durable, Ids, Lower
  <2>2. CASE Adds
    BY <2>2, ZenonT(30) DEF Adds, Abs!Next, Abs!Add, Log, Durable, Ids, Lower
  <2>3. CASE Syncs
    BY <2>3, ZenonT(30) DEF Syncs, Abs!Next, Abs!Sync, Log, Durable, Ids, Lower
  <2>4. CASE Loses
    BY <2>4, ZenonT(30) DEF Loses, Abs!Next, Abs!Lose, Log, Durable, Ids, Lower
  <2> QED
    BY <2>1, <2>2, <2>3, <2>4, DurableStep, ZenonT(30)
<1> QED
  BY <1>1, <1>2, LogInvariant, PTL DEF LogSpec, ImplementsDurableLog

-----------------------------------------------------------------------------
\* The Merkle tree

\* What is flagged is still ahead of the rehash under way: above the level it
\* is at or among the nodes it has yet to visit.  Only nodes right above a leaf
\* that changed meanwhile are left for the next call.
Pending ==
  /\ \A n \in Inner : dirty[n] = 1 /\ Level[n] < Depth - 1 =>
       lv # Depth /\ (Level[n] < lv \/ n \in todo)
  /\ \A n \in Inner : dirty[n] = 1 /\ Level[n] = Depth - 1 =>
       n \in touched \/ (lv = Depth - 1 /\ Parent[n] \in todo)

\* The work left belongs to the phase under way.
Phase ==
  \A n \in todo : Level[n] = IF lv = Depth - 1 THEN Depth - 2 ELSE lv

\* The inductive invariant.
TreeIInv == TreeTypeOK /\ StaleIsDirty /\ Pending /\ Phase

\* Levels and parents as the assumption gives them.
LEMMA TreeFacts ==
  ASSUME TreeShape
  PROVE  /\ Depth \in Int /\ Depth >= 2
         /\ \A n \in Node : Level[n] \in Int /\ 0 <= Level[n] /\ Level[n] <= Depth
         /\ \A n \in Node : Level[n] > 0 =>
              Parent[n] \in Node /\ Level[Parent[n]] = Level[n] - 1
         /\ \A n \in Inner : n \in Node /\ Level[n] < Depth
         /\ \A b \in Bucket : b \in Node /\ Level[b] = Depth
BY DEF TreeShape, Inner, AtLevel

\* The hash of a node depends on its children only.
LEMMA SameHash ==
  ASSUME NEW t, NEW u, NEW n, \A m \in Kids(n) : t[m] = u[m]
  PROVE  HashOf(t, n) = HashOf(u, n)
<1>1. [m \in Kids(n) |-> t[m]] = [m \in Kids(n) |-> u[m]]
  BY ZenonT(30)
<1> QED BY <1>1, ZenonT(30) DEF HashOf

\* The empty tree is up to date.
LEMMA InitTreeIInv == ASSUME TreeShape, TreeInit PROVE TreeIInv
<1>1. TreeTypeOK
  BY DEF TreeShape, TreeInit, TreeTypeOK
<1>2. StaleIsDirty
  BY ZenonT(30) DEF TreeShape, TreeInit, StaleIsDirty
<1>3. Pending /\ Phase
  BY DEF TreeInit, Pending, Phase
<1> QED BY <1>1, <1>2, <1>3, ZenonT(30) DEF TreeIInv

\* A delta changes one leaf and flags the only node above it.
LEMMA DeltaStep ==
  ASSUME TreeShape, TreeIInv, NEW b \in Bucket, NEW d \in Delta, apply_delta(b, d)
  PROVE  TreeIInv'
<1>0. /\ b \in Node /\ Level[b] = Depth /\ Parent[b] \in Inner
      /\ Level[Parent[b]] = Depth - 1
  BY TreeFacts DEF Inner
<1>1. /\ tree' = [n \in Node |-> tree'[n]]
      /\ \A n \in Node : n # b => tree'[n] = tree[n]
  BY <1>0, ZenonT(30) DEF TreeIInv, TreeTypeOK, apply_delta
<1>2. /\ dirty' \in [Inner -> {0, 1}] /\ dirty'[Parent[b]] = 1
      /\ \A n \in Inner : n # Parent[b] => dirty'[n] = dirty[n]
  BY <1>0, ZenonT(30) DEF TreeIInv, TreeTypeOK, apply_delta
<1>3. TreeTypeOK'
  <2>1. deltas' \in 0 .. MaxDeltas
    BY DEF TreeShape, TreeIInv, TreeTypeOK, apply_delta
  <2>2. touched' \subseteq AtLevel(Depth - 1)
    BY <1>0, ZenonT(30) DEF TreeIInv, TreeTypeOK, apply_delta, AtLevel, Inner
  <2> QED BY <1>1, <1>2, <2>1, <2>2, ZenonT(30) DEF TreeIInv, TreeTypeOK, apply_delta
<1>4. StaleIsDirty'
  <2> SUFFICES ASSUME NEW n \in Inner, dirty'[n] = 0
               PROVE  tree'[n] = HashOf(tree', n)
    BY ZenonT(30) DEF StaleIsDirty
  <2>0. Level[n] < Depth /\ Depth \in Int
    BY TreeFacts, ZenonT(30)
  <2>1. n # Parent[b] /\ n # b /\ dirty[n] = 0
    BY <1>0, <1>2, <2>0
  <2>2. \A m \in Kids(n) : tree[m] = tree'[m]
    BY <1>1, <2>1, ZenonT(30) DEF Kids
  <2>3. HashOf(tree, n) = HashOf(tree', n)
    BY <2>2, SameHash, ZenonT(30)
  <2> QED BY <1>1, <2>1, <2>3, TreeFacts, ZenonT(30) DEF TreeIInv, StaleIsDirty
<1>5. Pending'
  <2>1. /\ Depth \in Int /\ lv' = lv /\ todo' = todo
        /\ touched \subseteq touched' /\ Parent[b] \in touched'
    BY TreeFacts, ZenonT(30) DEF apply_delta
  <2> QED BY <1>0, <1>2, <2>1 DEF TreeIInv, Pending
<1>6. Phase'
  BY ZenonT(30) DEF TreeIInv, Phase, apply_delta
<1> QED BY <1>3, <1>4, <1>5, <1>6, ZenonT(30) DEF TreeIInv

\* Entering recompute_dirty puts every shard ahead.
LEMMA RootStep ==
  ASSUME TreeShape, TreeIInv, get_root_hash
  PROVE  TreeIInv'
<1>1. TreeTypeOK'
  BY TreeFacts DEF TreeIInv, TreeTypeOK, get_root_hash, AtLevel, Inner
<1>2. StaleIsDirty'
  BY ZenonT(30) DEF TreeIInv, StaleIsDirty, get_root_hash
<1>3. Pending'
  BY TreeFacts DEF TreeIInv, Pending, get_root_hash, AtLevel
<1>4. Phase'
  BY TreeFacts, ZenonT(30) DEF Phase, get_root_hash, AtLevel
<1> QED BY <1>1, <1>2, <1>3, <1>4, ZenonT(30) DEF TreeIInv

\* Rehashing a shard brings the nodes above its leaves up to date and flags the
\* shard's own node, the only one above them.
LEMMA ShardStep ==
  ASSUME TreeShape, TreeIInv, NEW s \in Node, RehashShard(s)
  PROVE  TreeIInv'
<1> DEFINE stale == {n \in Kids(s) : dirty[n] = 1}
<1>0. s \in Inner /\ s \in todo /\ lv = Depth - 1 /\ lv' = lv /\ Level[s] = Depth - 2
  BY TreeFacts, ZenonT(30) DEF TreeIInv, Phase, TreeTypeOK, RehashShard
<1>1a. Depth \in Int /\ Depth >= 2
  BY TreeFacts, ZenonT(30)
<1>1. \A n \in stale : n \in Inner /\ Level[n] = Depth - 1 /\ Parent[n] = s /\ n # s
  BY <1>0, <1>1a DEF Kids, Inner
<1>2. tree' = [n \in Node |-> IF n \in stale THEN HashOf(tree, n) ELSE tree[n]]
  BY ZenonT(30) DEF RehashShard
<1>3. dirty' = [n \in Inner |-> IF n \in stale THEN 0
                                ELSE IF n = s /\ stale # {} THEN 1
                                ELSE dirty[n]]
  BY ZenonT(30) DEF RehashShard, Mark
<1>4. \A n \in Kids(s) : n \in stale <=> dirty[n] = 1
  BY ZenonT(30)
<1> HIDE DEF stale
<1>5. dirty' \in [Inner -> {0, 1}]
  BY <1>3, ZenonT(30) DEF TreeIInv, TreeTypeOK
<1>6. TreeTypeOK'
  BY <1>2, <1>5, ZenonT(30) DEF TreeIInv, TreeTypeOK, RehashShard
<1>7. StaleIsDirty'
  <2> SUFFICES ASSUME NEW n \in Inner, dirty'[n] = 0
               PROVE  tree'[n] = HashOf(tree', n)
    BY ZenonT(30) DEF StaleIsDirty
  <2>0. n \in Node
    BY ZenonT(30) DEF Inner
  <2>1. \A m \in Kids(n) : m \notin stale
    <3> SUFFICES ASSUME NEW m \in Kids(n), m \in stale PROVE FALSE
      BY ZenonT(30)
    <3>1. n = s
      BY <1>1, ZenonT(30) DEF Kids
    <3>2. n \notin stale /\ stale # {}
      BY <1>1, <3>1, ZenonT(30)
    <3> QED BY <1>3, <3>1, <3>2
  <2>2. \A m \in Kids(n) : tree[m] = tree'[m]
    BY <1>2, <2>1, ZenonT(30) DEF Kids
  <2>3. HashOf(tree, n) = HashOf(tree', n)
    BY <2>2, SameHash, ZenonT(30)
  <2>4. CASE n \in stale
    BY <1>2, <2>0, <2>3, <2>4, ZenonT(30)
  <2>5. CASE n \notin stale
    <3>1. dirty[n] = 0
      BY <1>3, <2>5
    <3> QED BY <1>2, <2>0, <2>3, <2>5, <3>1, ZenonT(30) DEF TreeIInv, StaleIsDirty
  <2> QED BY <2>4, <2>5, ZenonT(30)
<1>8. Pending'
  <2>1. ASSUME NEW n \in Inner, dirty'[n] = 1, Level[n] < Depth - 1
        PROVE  lv' # Depth /\ (Level[n] < lv' \/ n \in todo')
    BY <1>0, <1>1a, <2>1
  <2>2. ASSUME NEW n \in Inner, dirty'[n] = 1, Level[n] = Depth - 1
        PROVE  n \in touched' \/ (lv' = Depth - 1 /\ Parent[n] \in todo')
    <3>1. n # s /\ n \notin stale /\ dirty[n] = 1
      BY <1>0, <1>1a, <1>3, <2>2
    <3>2. Parent[n] # s
      BY <1>0, <1>4, <2>2, <3>1, TreeFacts DEF Kids
    <3> QED BY <1>0, <2>2, <3>1, <3>2, ZenonT(30) DEF TreeIInv, Pending, RehashShard
  <2> QED BY <2>1, <2>2, ZenonT(30) DEF Pending
<1>9. Phase'
  BY <1>0, ZenonT(30) DEF TreeIInv, Phase, RehashShard
<1> QED BY <1>6, <1>7, <1>8, <1>9, ZenonT(30) DEF TreeIInv

\* Rehashing an inner node flags its parent.
LEMMA NodeStep ==
  ASSUME TreeShape, TreeIInv, NEW n \in Node, RehashNode(n)
  PROVE  TreeIInv'
<1>0. /\ n \in Inner /\ n \in todo /\ lv \in Int /\ lv < Depth - 1 /\ lv' = lv
      /\ Level[n] = lv /\ todo' = todo \ {n} /\ touched' = touched
  BY TreeFacts DEF TreeIInv, Phase, TreeTypeOK, RehashNode
<1>1. CASE dirty[n] = 1
  <2>1. /\ tree' = [m \in Node |-> IF m = n THEN HashOf(tree, n) ELSE tree[m]]
        /\ dirty' = [m \in Inner |-> IF m = n THEN 0
                                     ELSE IF lv > 0 /\ m = Parent[n] THEN 1
                                     ELSE dirty[m]]
    BY <1>1, ZenonT(30) DEF RehashNode, Mark, TreeIInv, TreeTypeOK
  <2>2. dirty' \in [Inner -> {0, 1}]
    BY <2>1, ZenonT(30) DEF TreeIInv, TreeTypeOK
  <2>3. TreeTypeOK'
    BY <2>1, <2>2, ZenonT(30) DEF TreeIInv, TreeTypeOK, RehashNode
  <2>4. StaleIsDirty'
    <3> SUFFICES ASSUME NEW m \in Inner, dirty'[m] = 0
                 PROVE  tree'[m] = HashOf(tree', m)
      BY ZenonT(30) DEF StaleIsDirty
    <3>0. m \in Node /\ Level[m] \in Int /\ Level[m] >= 0
      BY TreeFacts, ZenonT(30)
    <3>1. n \notin Kids(m)
      <4>1. ASSUME n \in Kids(m) PROVE FALSE
        <5>1. Parent[n] = m /\ lv = Level[m] + 1
          BY <1>0, <4>1, ZenonT(30) DEF Kids
        <5>2. lv > 0 /\ m # n
          BY <1>0, <3>0, <5>1
        <5> QED BY <2>1, <5>1, <5>2
      <4> QED BY <4>1, ZenonT(30)
    <3>2. \A k \in Kids(m) : tree[k] = tree'[k]
      BY <2>1, <3>1, ZenonT(30) DEF Kids
    <3>3. HashOf(tree, m) = HashOf(tree', m)
      BY <3>2, SameHash, ZenonT(30)
    <3>4. CASE m = n
      BY <2>1, <3>0, <3>3, <3>4, ZenonT(30)
    <3>5. CASE m # n
      <4>1. dirty[m] = 0
        BY <2>1, <3>5
      <4> QED BY <2>1, <3>0, <3>3, <3>5, <4>1, ZenonT(30) DEF TreeIInv, StaleIsDirty
    <3> QED BY <3>4, <3>5, ZenonT(30)
  <2>5. Pending'
    <3>1. ASSUME NEW m \in Inner, dirty'[m] = 1, Level[m] < Depth - 1
          PROVE  lv' # Depth /\ (Level[m] < lv' \/ m \in todo')
      <4>1. m # n
        BY <2>1, <3>1
      <4>2. CASE lv > 0 /\ m = Parent[n]
        BY <1>0, <4>2, TreeFacts
      <4>3. CASE dirty[m] = 1
        BY <1>0, <3>1, <4>1, <4>3, TreeFacts, ZenonT(30) DEF TreeIInv, Pending
      <4> QED BY <2>1, <3>1, <4>1, <4>2, <4>3, ZenonT(30)
    <3>2. ASSUME NEW m \in Inner, dirty'[m] = 1, Level[m] = Depth - 1
          PROVE  m \in touched' \/ (lv' = Depth - 1 /\ Parent[m] \in todo')
      <4>0. Depth \in Int /\ (lv > 0 => Level[Parent[n]] = lv - 1)
        BY <1>0, TreeFacts, ZenonT(30)
      <4>1. dirty[m] = 1
        BY <1>0, <2>1, <3>2, <4>0
      <4> QED BY <1>0, <3>2, <4>1 DEF TreeIInv, Pending
    <3> QED BY <3>1, <3>2, ZenonT(30) DEF Pending
  <2>6. Phase'
    BY <1>0, ZenonT(30) DEF TreeIInv, Phase
  <2> QED BY <2>3, <2>4, <2>5, <2>6, ZenonT(30) DEF TreeIInv
<1>2. CASE dirty[n] # 1
  <2>1. tree' = tree /\ dirty' = dirty /\ deltas' = deltas
    BY <1>2, ZenonT(30) DEF RehashNode
  <2>2. TreeTypeOK'
    BY <1>0, <2>1, ZenonT(30) DEF TreeIInv, TreeTypeOK
  <2>3. StaleIsDirty'
    BY <2>1, ZenonT(30) DEF TreeIInv, StaleIsDirty
  <2>4. Pending'
    <3>1. Pending /\ Depth \in Int
      BY TreeFacts, ZenonT(30) DEF TreeIInv
    <3> QED BY <1>0, <1>2, <2>1, <3>1 DEF Pending
  <2>5. Phase'
    BY <1>0, ZenonT(30) DEF TreeIInv, Phase
  <2> QED BY <2>2, <2>3, <2>4, <2>5, ZenonT(30) DEF TreeIInv
<1> QED BY <1>1, <1>2, ZenonT(30)

\* When a phase is over nothing of its level is flagged any more.
LEMMA PhaseStep ==
  ASSUME TreeShape, TreeIInv, NextPhase
  PROVE  TreeIInv'
<1>0. /\ lv \in Int /\ 0 <= lv /\ lv < Depth /\ todo = {}
      /\ tree' = tree /\ dirty' = dirty /\ touched' = touched /\ deltas' = deltas
  BY TreeFacts DEF TreeIInv, TreeTypeOK, NextPhase
<1>1. \/ lv = 0 /\ lv' = Depth /\ todo' = {}
      \/ lv > 0 /\ lv' = lv - 1 /\ todo' = AtLevel(lv - 1)
  BY <1>0 DEF NextPhase
<1>2. TreeTypeOK'
  BY <1>0, <1>1, TreeFacts DEF TreeIInv, TreeTypeOK, AtLevel, Inner
<1>3. StaleIsDirty'
  BY <1>0, ZenonT(30) DEF TreeIInv, StaleIsDirty
<1>4. Pending'
  <2>1. Pending /\ Depth \in Int
    BY TreeFacts, ZenonT(30) DEF TreeIInv
  <2>2. \A n \in Inner : Level[n] \in Int /\ 0 <= Level[n] /\ n \in Node
    BY TreeFacts, ZenonT(30)
  <2> QED BY <1>0, <1>1, <2>1, <2>2 DEF Pending, AtLevel
<1>5. Phase'
  BY <1>0, <1>1, TreeFacts DEF Phase, AtLevel
<1> QED BY <1>2, <1>3, <1>4, <1>5, ZenonT(30) DEF TreeIInv

\* Every step of the tree preserves the invariant.
LEMMA NextTreeIInv == ASSUME TreeShape, TreeIInv, [TreeNext]_treeVars PROVE TreeIInv'
<1>1. CASE UNCHANGED treeVars
  BY <1>1, ZenonT(30) DEF TreeIInv, TreeTypeOK, StaleIsDirty, Pending, Phase, treeVars
<1>2. CASE TreeNext
  BY <1>2, DeltaStep, RootStep, ShardStep, NodeStep, PhaseStep, ZenonT(30) DEF TreeNext
<1> QED BY <1>1, <1>2, ZenonT(30)

\* The invariant of the tree holds throughout.
THEOREM TreeInvariant == TreeSpec => []TreeIInv
<1>1. TreeInit => TreeIInv
  BY MerkleAssumption, InitTreeIInv, ZenonT(30)
<1>2. TreeIInv /\ [TreeNext]_treeVars => TreeIInv'
  BY MerkleAssumption, NextTreeIInv, ZenonT(30)
<1> QED BY <1>1, <1>2, PTL DEF TreeSpec

\* A hash that is out of date is flagged, at every moment: apply_delta and the phases of
\* recompute_dirty forget no delta, for every tree and hash function.
THEOREM NoDeltaForgotten == TreeSpec => []StaleIsDirty
<1>1. TreeIInv => StaleIsDirty
  BY ZenonT(30) DEF TreeIInv
<1> QED BY <1>1, TreeInvariant, PTL

\* The root that get_root_hash returns covers every delta applied before the
\* call, whatever writers do while it rehashes.
THEOREM RootIsCurrent == TreeSpec => []RootCovers
<1>1. TreeIInv => RootCovers
  <2> SUFFICES ASSUME TreeIInv, lv = Depth, NEW n \in Inner, n \notin touched
               PROVE  tree[n] = HashOf(tree, n)
    BY ZenonT(30) DEF RootCovers
  <2>1. Level[n] \in Int /\ Level[n] < Depth /\ Depth \in Int
    BY MerkleAssumption, TreeFacts, ZenonT(30)
  <2>2. dirty[n] # 1
    BY <2>1 DEF TreeIInv, Pending
  <2>3. dirty[n] = 0
    BY <2>2, ZenonT(30) DEF TreeIInv, TreeTypeOK
  <2> QED BY <2>3, ZenonT(30) DEF TreeIInv, StaleIsDirty
<1> QED BY <1>1, TreeInvariant, PTL
=============================================================================
