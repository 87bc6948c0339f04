---------------------------- MODULE SyncManager ----------------------------
(***************************************************************************)
(* Anti-entropy between nodes (src/engine/sync_manager.hpp): a node tells  *)
(* a peer its Merkle root; a peer whose root differs asks its way down the *)
(* tree to the buckets that differ, lists their keys, fetches the values   *)
(* and merges them by stamp (Engine::apply_mutation).                      *)
(*                                                                         *)
(* The server makes one local call at a time.  Messages of one peer are    *)
(* handled one after the other (its connection has a strand), those of     *)
(* different peers at once, by the threads of the mesh.  No lock is held   *)
(* across a call or a handler, so each is split where another can come     *)
(* between: a local call inserts the value, then the meta; on_get_val      *)
(* reads the meta, then the value; on_put_val reads the local stamp and    *)
(* compares, then inserts the value, then the meta.                        *)
(*                                                                         *)
(* Drawing a stamp and inserting the value is one step: only the caller    *)
(* reads the clock.  Logs and restarts are in Engine.tla.  Hashes are what *)
(* they hash.  The mesh may reorder and, up to a bound, lose messages.     *)
(***************************************************************************)
EXTENDS Integers, FiniteSets

CONSTANTS
  Node,         \* node ids 0 .. n-1
  Key, Val,
  ValBucket,    \* Merkle bucket of a key
  MetaBucket,   \* and of its meta key
  Depth, Fan,   \* of the Merkle tree; the code's are 4 and 16
  Lanes,        \* lanes whose messages reach handle_message
  Ops,          \* local calls made: subset of {"put", "del", "patch"}
  MaxStamp, MaxWrites, MaxLosses, MaxInFlight  \* bounds

Bucket == 0 .. Fan ^ Depth - 1

ASSUME SyncAssumption ==
  /\ Node = 0 .. Cardinality(Node) - 1
  /\ ValBucket \in [Key -> Bucket] /\ MetaBucket \in [Key -> Bucket]
  /\ Lanes \subseteq {"Control", "Heavy"}
  /\ Ops \subseteq {"put", "del", "patch"}
  /\ MaxStamp \in Nat /\ MaxWrites \in Nat /\ MaxLosses \in Nat

VARIABLES
  val,      \* per node and key: a value, "empty" after a del, or "none"
  meta,     \* per node and key: the sidecar [ts, tomb, patch]
  last,     \* per node: last stamp of its clock
  snap,     \* per node: the leaves when its inner hashes were last computed
  call,     \* per node: the local call whose value was inserted and whose meta was not
  busy,     \* per node: the handlers of GET_VAL and PUT_VAL in progress
  net,      \* messages in transit
  written,  \* history: per key, the pairs <<stamp, value>> of local writes
  patched,  \* history: the keys patched so far
  raced,    \* history: the keys of which a node made two writes at once, or read an
            \* answer around a write under a stamp below the one the answer carries
  writes, losses

vars == <<val, meta, last, snap, call, busy, net, written, patched, raced, writes, losses>>

NoMeta == [ts |-> 0, tomb |-> FALSE, patch |-> 0]

Init ==
  /\ val = [n \in Node |-> [k \in Key |-> "none"]]
  /\ meta = [n \in Node |-> [k \in Key |-> NoMeta]]
  /\ last = [n \in Node |-> 0]
  /\ snap = [n \in Node |-> [b \in Bucket |-> {}]]
  /\ call = [n \in Node |-> {}]
  /\ busy = [n \in Node |-> {}]
  /\ net = {}
  /\ written = [k \in Key |-> {}]
  /\ patched = {} /\ raced = {}
  /\ writes = 0 /\ losses = 0

-----------------------------------------------------------------------------
\* The Merkle tree of a node

Odd(S) == Cardinality(S) % 2 = 1

\* A leaf is the XOR of the hashes of its cells, keys left out: what occurs an
\* odd number of times.
Leaf(n, b) ==
  {h \in {val[n][k] : k \in Key} \ {"none"} :
     Odd({k \in Key : ValBucket[k] = b /\ val[n][k] = h})}
  \cup
  {h \in {meta[n][k] : k \in Key} \ {NoMeta} :
     Odd({k \in Key : MetaBucket[k] = b /\ meta[n][k] = h})}

Leaves(n) == [b \in Bucket |-> Leaf(n, b)]

\* get_merkle_node: leaves as they are, inner nodes as last computed.
Below(l, i) == {b \in Bucket : b \div (Fan ^ (Depth - l)) = i}
NodeHash(n, l, i) ==
  [b \in Below(l, i) |-> IF l = Depth THEN Leaf(n, b) ELSE snap[n][b]]

Kids(i) == {Fan * i + j : j \in 0 .. Fan - 1}

-----------------------------------------------------------------------------
\* The mesh

Lane(m) == IF m.type \in {"REP_BUCKET", "GET_VAL", "PUT_VAL"} THEN "Heavy" ELSE "Control"

\* main.cpp hands a message to handle_message only if its lane is wired.
Wired(ms) == {m \in ms : Lane(m) \in Lanes}

\* m was received and ms are sent.
Exchange(m, ms) == m \in net /\ net' = (net \ {m}) \cup Wired(ms)

Lose(m) ==
  /\ losses < MaxLosses
  /\ net' = net \ {m}
  /\ losses' = losses + 1
  /\ UNCHANGED <<val, meta, last, snap, call, busy, written, patched, raced, writes>>

-----------------------------------------------------------------------------
\* Writes in progress

\* The node is at a write of k: a local call, or a repair that passed the test.
Writing(n, k) ==
  \/ \E c \in call[n] : c.key = k
  \/ \E r \in busy[n] : r.key = k /\ r.step # "get"

\* The node has inserted a value of k and still shows a higher stamp than its own.
Behind(n, k) == \E c \in call[n] : c.key = k /\ c.ts < meta[n][k].ts

\* k is noted as raced if the condition holds.
Race(k, condition) == raced' = IF condition THEN raced \cup {k} ELSE raced

-----------------------------------------------------------------------------
\* Local calls.  Clocks of nodes drift apart freely; a stamp is above the last
\* one of its own node and belongs to no other node.

\* Mutant of Stamp: nodes may make the same stamp.
StampShared(n, t) == t > last[n]

Stamp(n, t) == t > last[n] /\ t % Cardinality(Node) = n

\* The first half of a call: the stamp is drawn and the value inserted.
Begin(n, k, v, t, op) ==
  /\ call[n] = {} /\ writes < MaxWrites
  /\ Stamp(n, t)
  /\ val' = [val EXCEPT ![n][k] = v]
  /\ call' = [call EXCEPT ![n] = {[key |-> k, ts |-> t, op |-> op]}]
  /\ last' = [last EXCEPT ![n] = t]
  /\ written' = [written EXCEPT ![k] = @ \cup {<<t, v>>}]
  /\ Race(k, Writing(n, k) \/ \E r \in busy[n] : r.key = k /\ r.meta.ts > t)
  /\ writes' = writes + 1
  /\ UNCHANGED <<meta, snap, busy, net, losses>>

put(n, k, v, t) == Begin(n, k, v, t, "put") /\ UNCHANGED patched

del(n, k, t) == Begin(n, k, "empty", t, "del") /\ UNCHANGED patched

\* patch_int, patch_str: the document becomes v.
patch(n, k, v, t) == Begin(n, k, v, t, "patch") /\ patched' = patched \cup {k}

\* The meta a call inserts.  A patch writes the stamp into a field of the same name
\* as the document's and keeps "ts".
CallMeta(n, c) ==
  IF c.op = "patch" THEN [meta[n][c.key] EXCEPT !.patch = c.ts]
  ELSE [ts |-> c.ts, tomb |-> c.op = "del", patch |-> 0]

\* The second half: the meta is inserted and the call returns.
Finish(n) ==
  /\ \E c \in call[n] : meta' = [meta EXCEPT ![n][c.key] = CallMeta(n, c)]
  /\ call' = [call EXCEPT ![n] = {}]
  /\ UNCHANGED <<val, last, snap, busy, net, written, patched, raced, writes, losses>>

-----------------------------------------------------------------------------
\* The protocol

\* trigger_gossip picks a peer; send_sync_init recomputes the root.
trigger_gossip(n, p) ==
  /\ n # p /\ Cardinality(net) < MaxInFlight
  /\ snap' = [snap EXCEPT ![n] = Leaves(n)]
  /\ net' = net \cup Wired({[type |-> "INIT", from |-> n, to |-> p, root |-> Leaves(n)]})
  /\ UNCHANGED <<val, meta, last, call, busy, written, patched, raced, writes, losses>>

\* send_req_node: the hashes of the children of a node of the peer's tree.
ReqNode(n, p, l, i) == [type |-> "REQ_NODE", from |-> n, to |-> p, level |-> l, parent |-> i]

on_sync_init(m) ==
  LET n == m.to
  IN  /\ m.type = "INIT"
      /\ snap' = [snap EXCEPT ![n] = Leaves(n)]
      /\ Exchange(m, IF Leaves(n) = m.root THEN {} ELSE {ReqNode(n, m.from, 1, 0)})
      /\ UNCHANGED <<val, meta, last, call, busy, written, patched, raced, writes, losses>>

on_req_node(m) ==
  /\ m.type = "REQ_NODE"
  /\ Exchange(m, {[type |-> "REP_NODE", from |-> m.to, to |-> m.from,
                   level |-> m.level, parent |-> m.parent,
                   hashes |-> [i \in Kids(m.parent) |-> NodeHash(m.to, m.level, i)]]})
  /\ UNCHANGED <<val, meta, last, snap, call, busy, written, patched, raced, writes, losses>>

\* One request for every child that differs.
on_rep_node(m) ==
  LET n == m.to
      differ == {i \in Kids(m.parent) : m.hashes[i] # NodeHash(n, m.level, i)}
  IN  /\ m.type = "REP_NODE"
      /\ Exchange(m, {IF m.level = Depth
                      THEN [type |-> "REQ_BUCKET", from |-> n, to |-> m.from, bucket |-> i]
                      ELSE ReqNode(n, m.from, m.level + 1, i) : i \in differ})
      /\ UNCHANGED <<val, meta, last, snap, call, busy, written, patched, raced, writes, losses>>

\* The keys of the bucket that are not meta keys, with the hashes of their values.
on_req_bucket(m) ==
  LET keys == {k \in Key : ValBucket[k] = m.bucket /\ val[m.to][k] # "none"}
  IN  /\ m.type = "REQ_BUCKET"
      /\ Exchange(m, {[type |-> "REP_BUCKET", from |-> m.to, to |-> m.from,
                       hashes |-> [k \in keys |-> val[m.to][k]]]})
      /\ UNCHANGED <<val, meta, last, snap, call, busy, written, patched, raced, writes, losses>>

\* The hash on_rep_bucket gives a local value: 0 when it is missing or empty.
LocalHash(v) == IF v \in {"none", "empty"} THEN "zero" ELSE v

on_rep_bucket(m) ==
  /\ m.type = "REP_BUCKET"
  /\ Exchange(m, {[type |-> "GET_VAL", from |-> m.to, to |-> m.from, key |-> k] :
                    k \in {k \in DOMAIN m.hashes : LocalHash(val[m.to][k]) # m.hashes[k]}})
  /\ UNCHANGED <<val, meta, last, snap, call, busy, written, patched, raced, writes, losses>>

PutVal(n, p, k, mt, v) ==
  [type |-> "PUT_VAL", from |-> n, to |-> p, key |-> k, meta |-> mt, val |-> v]

\* Mutant of Known: a deleted key counts as unknown.
KnownLive(n, k) == meta[n][k] # NoMeta /\ val[n][k] # "empty"

\* A key is known to a node if it has a meta, deleted or not.
Known(n, k) == meta[n][k] # NoMeta

\* A handler that has begun.  The mesh calls no other for this peer before it ends.
Handler(step, p, k, mt, v) == [step |-> step, peer |-> p, key |-> k, meta |-> mt, val |-> v]

Free(n, p) == \A r \in busy[n] : r.peer # p

\* on_get_val reads the meta, and returns if there is none...
on_get_val(m) ==
  LET n == m.to
      k == m.key
  IN  /\ m.type = "GET_VAL"
      /\ busy' = [busy EXCEPT ![n] =
                    IF Known(n, k)
                    THEN @ \cup {Handler("get", m.from, k, meta[n][k], val[n][k])} ELSE @]
      /\ Race(k, Behind(n, k))
      /\ Exchange(m, {})
      /\ UNCHANGED <<val, meta, last, snap, call, written, patched, writes, losses>>

\* Mutant of Served: the value is read first, the meta after it.
ServedSwapped(n, r) == PutVal(n, r.peer, r.key, meta[n][r.key], r.val)

\* The answer, from what the first step read and what is there now.
Served(n, r) == PutVal(n, r.peer, r.key, r.meta, val[n][r.key])

\* ... then the value, and answers with both.
send_put_val(n, r) ==
  /\ r.step = "get"
  /\ net' = net \cup Wired({Served(n, r)})
  /\ busy' = [busy EXCEPT ![n] = @ \ {r}]
  /\ UNCHANGED <<val, meta, last, snap, call, written, patched, raced, writes, losses>>

\* The test of apply_mutation.
Newer(t, local) == t > local

\* on_put_val and apply_mutation: the value is taken if its stamp is newer than the
\* local one.  A meta that was only patched has no stamp; the clock is not touched...
on_put_val(m) ==
  LET n == m.to
      k == m.key
      newer == Newer(m.meta.ts, meta[n][k].ts)
  IN  /\ m.type = "PUT_VAL"
      /\ busy' = [busy EXCEPT ![n] =
                    IF newer THEN @ \cup {Handler("put", m.from, k, m.meta, m.val)} ELSE @]
      /\ Race(k, newer /\ Writing(n, k))
      /\ Exchange(m, {})
      /\ UNCHANGED <<val, meta, last, snap, call, written, patched, writes, losses>>

\* What a repair inserts: a deletion empties the value, whatever the message carries.
Repaired(r) == IF r.meta.tomb THEN "empty" ELSE r.val

\* ... then apply_put or apply_del inserts the value...
apply_value(n, r) ==
  /\ r.step = "put"
  /\ val' = [val EXCEPT ![n][r.key] = Repaired(r)]
  /\ busy' = [busy EXCEPT ![n] = (@ \ {r}) \cup {[r EXCEPT !.step = "half"]}]
  /\ UNCHANGED <<meta, last, snap, call, net, written, patched, raced, writes, losses>>

\* Mutant of RepairMeta: the meta is rebuilt without its stamp.
RepairMetaBare(r) == [ts |-> 0, tomb |-> r.meta.tomb, patch |-> 0]

\* The meta a repair inserts, rebuilt from the stamp and the tombstone of the message.
RepairMeta(r) == [ts |-> r.meta.ts, tomb |-> r.meta.tomb, patch |-> 0]

\* ... and at last the meta.
apply_meta(n, r) ==
  /\ r.step = "half"
  /\ meta' = [meta EXCEPT ![n][r.key] = RepairMeta(r)]
  /\ busy' = [busy EXCEPT ![n] = @ \ {r}]
  /\ UNCHANGED <<val, last, snap, call, net, written, patched, raced, writes, losses>>

\* One more step of a handler in progress.
Resume(n, r) == send_put_val(n, r) \/ apply_value(n, r) \/ apply_meta(n, r)

handle_message(m) ==
  /\ Free(m.to, m.from)
  /\ \/ on_sync_init(m) \/ on_req_node(m) \/ on_rep_node(m)
     \/ on_req_bucket(m) \/ on_rep_bucket(m)
     \/ on_get_val(m) \/ on_put_val(m)

Local(n) ==
  \E k \in Key, t \in 1 .. MaxStamp :
    \/ "put" \in Ops /\ \E v \in Val : put(n, k, v, t)
    \/ "del" \in Ops /\ del(n, k, t)
    \/ "patch" \in Ops /\ \E v \in Val : patch(n, k, v, t)

Next ==
  \/ \E n \in Node : \/ Local(n) \/ Finish(n)
                     \/ \E r \in busy[n] : Resume(n, r)
                     \/ \E p \in Node : trigger_gossip(n, p)
  \/ \E m \in net : handle_message(m) \/ Lose(m)

Spec == Init /\ [][Next]_vars

\* The gossip loop comes back for ever and picks every peer again and again; a
\* message that is not lost is handled, and calls and handlers return.
FairSpec ==
  /\ Spec
  /\ \A n \in Node : \A p \in Node \ {n} :
       /\ SF_vars(trigger_gossip(n, p))
       /\ WF_vars(\E m \in net : m.to = n /\ m.from = p /\ handle_message(m))
       /\ WF_vars(\E r \in busy[n] : r.peer = p /\ Resume(n, r))
  /\ \A n \in Node : WF_vars(Finish(n))

-----------------------------------------------------------------------------
\* Properties

\* Stores, clocks, calls and handlers keep their types.
TypeOK ==
  /\ val \in [Node -> [Key -> Val \cup {"empty", "none"}]]
  /\ meta \in [Node -> [Key -> [ts : 0 .. MaxStamp, tomb : BOOLEAN, patch : 0 .. MaxStamp]]]
  /\ last \in [Node -> 0 .. MaxStamp]
  /\ \A n \in Node :
       /\ Cardinality(call[n]) <= 1
       /\ \A r, s \in busy[n] : r.peer = s.peer => r = s
  /\ \A m \in net : Lane(m) \in Lanes /\ m.from # m.to
  /\ patched \subseteq Key /\ raced \subseteq Key
  /\ writes \in 0 .. MaxWrites /\ losses \in 0 .. MaxLosses

\* What a get returns: nothing for a missing and for an empty value.
Seen(n, k) == IF val[n][k] \in {"none", "empty"} THEN "nothing" ELSE val[n][k]

\* README.md:40, "Convergence is guaranteed via the Active Anti-Entropy (AAE)
\* gossip protocol": when writes have stopped, all nodes return the same for
\* every key, and go on doing so, although messages were lost.
Converges == <>[](\A n, p \in Node, k \in Key : Seen(n, k) = Seen(p, k))

\* Keys nobody patched and nothing raced on.  A patch keeps the stamp of the document
\* it changes, so that other nodes reject it.  A repair does not look at the stamp
\* again after its test, so that two writes at once leave the stamp of one over the
\* value of the other, or the older of the two.  A write between the two reads of
\* on_get_val puts its value under the stamp read before it; received stamps do not
\* advance the clock, so the write's own stamp may be the lower of the two.
Clean == Key \ (patched \cup raced)

\* The same for the clean keys.
CleanConverge == <>[](\A n, p \in Node, k \in Clean : Seen(n, k) = Seen(p, k))

\* Value v of k was written under stamp ts or a later one.
Backed(k, ts, v) == \E w \in written[k] : w[1] >= ts /\ w[2] = v

\* Node n's value of k was written under the stamp its meta shows or a later one,
\* unless a local call has yet to put its own, lower, stamp there.
StampHolds(n, k) ==
  meta[n][k].ts > 0 /\ ~Behind(n, k) => Backed(k, meta[n][k].ts, val[n][k])

\* The stamp of a clean key vouches for its value at every moment, in the middle of
\* calls and repairs too: racing reads may offer a value under an older stamp, never
\* under a newer one, so no older value can win over a newer.
NotOlderThanStamp == \A n \in Node, k \in Clean : StampHolds(n, k)

\* The same of all keys nobody patched.
UnpatchedNotOlder == \A n \in Node, k \in Key \ patched : StampHolds(n, k)

\* The last write of a clean key is never lost, however reads, messages, halves of
\* calls and halves of repairs interleave: a node shows its stamp or is at the call
\* that will insert it, and every node that shows it has its value.
LatestKept ==
  \A k \in Clean : \A w \in written[k] :
    (\A x \in written[k] : x[1] <= w[1]) =>
      /\ \E n \in Node : \/ meta[n][k].ts = w[1]
                         \/ \E c \in call[n] : c.key = k /\ c.ts = w[1]
      /\ \A n \in Node : meta[n][k].ts = w[1] /\ ~Behind(n, k) => val[n][k] = w[2]

\* Anti-entropy never puts an older stamp in place of a newer one, although the test
\* and the insertion of a repair are steps of their own: the stamp of a clean key at
\* a node only goes back by a call of that node.
SyncAdvances ==
  [][\A n \in Node, k \in Clean' :
       call'[n] = call[n] => meta'[n][k].ts >= meta[n][k].ts]_vars

\* README.md:38, "Hybrid Logical Clocks (HLC) provide causality guarantees even
\* when physical clocks drift": a write has a higher stamp than the one it
\* replaces at its node, whichever node that came from.
Causal == [][\A n \in Node, k \in Key : meta'[n][k].ts >= meta[n][k].ts]_vars
=============================================================================
