----------------------------- MODULE Documents -----------------------------
(***************************************************************************)
(* How documents are kept: class Blob, and ZstdManager, which takes the    *)
(* first documents as samples, trains a dictionary once there are enough   *)
(* and from then on compresses (src/engine/store.hpp).  Threads of shards  *)
(* and of the mesh apply writes; a write holds the lock of its shard, and  *)
(* the one manager has a mutex of its own.                                 *)
(*                                                                         *)
(* A document is a body and one patched field.  A blob is its document and *)
(* the dictionary it is compressed with, 0 for none.  Decompressing with   *)
(* no dictionary or another one does not give the document back.           *)
(***************************************************************************)
EXTENDS Integers

CONSTANTS
  Thread,     \* those that apply writes
  Key, ShardOf,
  Body,       \* what is put; "" is the empty document
  Shrinks,    \* the bodies that get smaller when compressed
  MaxSamples, \* samples that are enough to train
  MaxWrites,  \* bound
  None

ASSUME DocumentsAssumption ==
  /\ Shrinks \subseteq Body /\ "" \notin Shrinks
  /\ MaxSamples \in Nat \ {0} /\ MaxWrites \in Nat
  /\ None \notin Thread /\ None \notin Key

VARIABLES
  active, cdict, ddict, samples, \* fields of ZstdManager; samples is their number
  mx,        \* the thread that holds mx_, or None
  lock,      \* per shard: the thread that holds read_mu exclusively, or None
  pc,        \* per thread: where it is in apply_put, apply_patch_* or apply_del
  key, new,  \* per thread: the key it writes and the blob it makes
  blob,      \* per key: the blob in the map
  trained, writes

zVars == <<active, cdict, ddict, samples, mx, trained>>
vars == <<zVars, lock, pc, key, new, blob, writes>>

Nothing == [body |-> "", field |-> 0]
Garbled == [body |-> "?", field |-> 0]
Raw(d) == [zip |-> 0, doc |-> d]

Init ==
  /\ active = 0 /\ cdict = 0 /\ ddict = 0 /\ samples = 0 /\ mx = None /\ trained = 0
  /\ lock = [s \in {ShardOf[k] : k \in Key} |-> None]
  /\ pc = [t \in Thread |-> "idle"]
  /\ key = [t \in Thread |-> None]
  /\ new = [t \in Thread |-> Raw(Nothing)]
  /\ blob = [k \in Key |-> Raw(Nothing)]
  /\ writes = 0

\* Blob::compress: kept only if it is smaller.
Compressed(d) == [zip |-> IF active = 1 /\ d.body \in Shrinks THEN cdict ELSE 0, doc |-> d]

\* Blob::decompress, and what get, batch_get and the scans do to answer.
Document(b) ==
  IF b.zip = 0 \/ (active = 1 /\ ddict = b.zip) THEN b.doc ELSE Garbled

Goto(t, l) == pc' = [pc EXCEPT ![t] = l]

-----------------------------------------------------------------------------
\* A write begins when it has the lock of its shard.
Lock(t, k) ==
  /\ pc[t] = "idle" /\ writes < MaxWrites
  /\ lock[ShardOf[k]] = None
  /\ lock' = [lock EXCEPT ![ShardOf[k]] = t]
  /\ key' = [key EXCEPT ![t] = k]
  /\ writes' = writes + 1
  /\ UNCHANGED <<zVars, blob>>

\* apply_put: Blob::overwrite offers a sample if there is no dictionary yet.
Put(t, k, b) ==
  /\ Lock(t, k)
  /\ new' = [new EXCEPT ![t] = Raw([body |-> b, field |-> 0])]
  /\ Goto(t, IF active = 0 THEN "sample" ELSE "compress")

\* apply_patch_int, apply_patch_str: a copy of the blob is decompressed and changed.
Patch(t, k) ==
  /\ Lock(t, k)
  /\ new' = [new EXCEPT ![t] = Raw([Document(blob[k]) EXCEPT !.field = 1])]
  /\ Goto(t, "compress")

\* apply_del: the empty blob.
Del(t, k) ==
  /\ Lock(t, k)
  /\ new' = [new EXCEPT ![t] = Raw(Nothing)]
  /\ Goto(t, "store")

\* add_sample takes the mutex.
AddSample(t) ==
  /\ pc[t] = "sample" /\ mx = None
  /\ mx' = t
  /\ Goto(t, "sampling")
  /\ UNCHANGED <<active, cdict, ddict, samples, trained, lock, key, new, blob, writes>>

\* Mutant of Sample: who finds that another thread trained tries again.
SampleAgain(t) ==
  /\ pc[t] = "sampling"
  /\ samples' = IF active = 1 THEN samples ELSE samples + 1
  /\ IF active = 0 /\ samples' >= MaxSamples THEN Goto(t, "train") /\ UNCHANGED mx
     ELSE Goto(t, IF active = 1 THEN "sample" ELSE "compress") /\ mx' = None
  /\ UNCHANGED <<active, cdict, ddict, trained, lock, key, new, blob, writes>>

\* It looks again, keeps the sample, and trains when there are enough.
Sample(t) ==
  /\ pc[t] = "sampling"
  /\ samples' = IF active = 1 THEN samples ELSE samples + 1
  /\ IF active = 0 /\ samples' >= MaxSamples THEN Goto(t, "train") /\ UNCHANGED mx
     ELSE Goto(t, "compress") /\ mx' = None
  /\ UNCHANGED <<active, cdict, ddict, trained, lock, key, new, blob, writes>>

\* Mutant of Train: the dictionary is made known before it is complete.
TrainActive(t) ==
  /\ pc[t] = "train"
  /\ trained' = trained + 1
  /\ cdict' = trained'
  /\ active' = 1
  /\ Goto(t, "trained")
  /\ UNCHANGED <<ddict, samples, mx, lock, key, new, blob, writes>>

\* train_dictionary makes the dictionary to compress with ...
Train(t) ==
  /\ pc[t] = "train"
  /\ trained' = trained + 1
  /\ cdict' = trained'
  /\ Goto(t, "trained")
  /\ UNCHANGED <<active, ddict, samples, mx, lock, key, new, blob, writes>>

\* ... unless ZDICT_trainFromBuffer fails: then there is none ...
TrainFails(t) ==
  /\ pc[t] = "train"
  /\ Goto(t, "activate")
  /\ UNCHANGED <<zVars, lock, key, new, blob, writes>>

\* ... and the one to decompress with.
TrainDecompress(t) ==
  /\ pc[t] = "trained"
  /\ ddict' = cdict
  /\ Goto(t, "activate")
  /\ UNCHANGED <<active, cdict, samples, mx, trained, lock, key, new, blob, writes>>

Activate(t) ==
  /\ pc[t] = "activate"
  /\ active' = 1
  /\ Goto(t, "clear")
  /\ UNCHANGED <<cdict, ddict, samples, mx, trained, lock, key, new, blob, writes>>

\* The samples are dropped and the mutex released.
Clear(t) ==
  /\ pc[t] = "clear"
  /\ samples' = 0
  /\ mx' = None
  /\ Goto(t, "compress")
  /\ UNCHANGED <<active, cdict, ddict, trained, lock, key, new, blob, writes>>

Compress(t) ==
  /\ pc[t] = "compress"
  /\ new' = [new EXCEPT ![t] = Compressed(@.doc)]
  /\ Goto(t, "store")
  /\ UNCHANGED <<zVars, lock, key, blob, writes>>

\* The map gets the blob and the lock is released.
Store(t) ==
  /\ pc[t] = "store"
  /\ blob' = [blob EXCEPT ![key[t]] = new[t]]
  /\ lock' = [lock EXCEPT ![ShardOf[key[t]]] = None]
  /\ key' = [key EXCEPT ![t] = None]
  /\ new' = [new EXCEPT ![t] = Raw(Nothing)]
  /\ Goto(t, "idle")
  /\ UNCHANGED <<zVars, writes>>

Quiet == writes = MaxWrites /\ (\A t \in Thread : pc[t] = "idle") /\ UNCHANGED vars

Step(t) ==
  \/ AddSample(t) \/ Sample(t) \/ Train(t) \/ TrainFails(t) \/ TrainDecompress(t)
  \/ Activate(t) \/ Clear(t) \/ Compress(t) \/ Store(t)

Next ==
  \/ \E t \in Thread : Step(t) \/ \E k \in Key :
       Patch(t, k) \/ Del(t, k) \/ \E b \in Body : Put(t, k, b)
  \/ Quiet

\* Threads run, and one that waits for the mutex gets it.
Fairness == \A t \in Thread : WF_vars(Step(t)) /\ SF_vars(AddSample(t))
Spec == Init /\ [][Next]_vars
FairSpec == Spec /\ Fairness

-----------------------------------------------------------------------------
\* Properties

\* The fields of ZstdManager keep their ranges, and who is inside add_sample holds
\* mx_, who is inside a write the lock of its shard.
TypeOK ==
  /\ active \in {0, 1} /\ cdict \in 0 .. trained /\ ddict \in {0, cdict}
  /\ samples \in 0 .. MaxSamples
  /\ mx \in Thread \cup {None}
  /\ \A t \in Thread : pc[t] \in {"sampling", "train", "trained", "activate", "clear"} => mx = t
  /\ \A t \in Thread : pc[t] # "idle" <=> key[t] # None /\ lock[ShardOf[key[t]]] = t
  /\ writes \in 0 .. MaxWrites

\* Sampling, training and compressing never show: what is read of a document is what
\* was put, patched or deleted, whenever the dictionary is trained, by whichever
\* thread, and whether or not training succeeds.
Plain == INSTANCE PlainStore WITH doc <- [k \in Key |-> Document(blob[k])]
ImplementsPlain == Plain!Spec

\* Every write ends, although it waits for the mutex while it holds a shard's lock.
WriteEnds == \A t \in Thread : pc[t] # "idle" ~> pc[t] = "idle"

\* Anti-entropy compares documents by hash_blob, which sees the stored bytes: equal
\* documents would have equal hashes.
HashOfDocument ==
  \A k, l \in Key : Document(blob[k]) = Document(blob[l]) => blob[k] = blob[l]
=============================================================================
