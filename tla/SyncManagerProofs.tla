------------------------- MODULE SyncManagerProofs -------------------------
(***************************************************************************)
(* Proofs about SyncManager, for any number of nodes, keys, values and     *)
(* losses and any tree: types, no older value under a newer stamp, no      *)
(* stamp replaced by an older one in a repair, and that the last write of  *)
(* a key is kept.                                                          *)
(*                                                                         *)
(* NotOlderThanStamp is about the stores only.  What spreads a value is an *)
(* answer being prepared, one in transit and a repair between its test and *)
(* its insertions, so the inductive invariant says the same of those.  An  *)
(* answer carries a stamp read before its value, and a repair inserts a    *)
(* stamp it compared before: of a clean key, the store's stamp has not     *)
(* passed the one of the repair meanwhile, nor gone back below the one of  *)
(* the answer, as the key would be in raced.                               *)
(***************************************************************************)
EXTENDS SyncManager, FiniteSetTheorems, TLAPS

Meta == [ts : 0 .. MaxStamp, tomb : BOOLEAN, patch : 0 .. MaxStamp]
Value == Val \cup {"empty", "none"}
Call == [key : Key, ts : 1 .. MaxStamp, op : {"put", "del", "patch"}]
Handling == [step : {"get", "put", "half"}, peer : Node, key : Key, meta : Meta, val : Value]

\* What the handlers take for granted of a message.
MessageOK(m) ==
  /\ m.from \in Node /\ m.to \in Node /\ m.from # m.to /\ Lane(m) \in Lanes
  /\ m.type = "REP_BUCKET" => DOMAIN m.hashes \subseteq Key
  /\ m.type = "GET_VAL" => m.key \in Key
  /\ m.type = "PUT_VAL" => m.key \in Key /\ m.meta \in Meta /\ m.val \in Value

\* A node is at one local call at most, under the last stamp of its clock.
CallOK(n) == call[n] = {} \/ \E c \in Call : c.ts = last[n] /\ call[n] = {c}

\* A node handles one message of a peer at a time.
BusyOK(n) ==
  /\ \A r \in busy[n] : r \in Handling /\ r.peer # n
  /\ \A r, s \in busy[n] : r.peer = s.peer => r = s

Stores ==
  /\ val \in [Node -> [Key -> Value]]
  /\ meta \in [Node -> [Key -> Meta]]
  /\ last \in [Node -> 0 .. MaxStamp]
  /\ written \in [Key -> SUBSET ((1 .. MaxStamp) \X Value)]
  /\ patched \subseteq Key /\ raced \subseteq Key
  /\ writes \in 0 .. MaxWrites /\ losses \in 0 .. MaxLosses

Traffic ==
  /\ DOMAIN call = Node /\ DOMAIN busy = Node
  /\ \A n \in Node : CallOK(n) /\ BusyOK(n)
  /\ \A m \in net : MessageOK(m)

\* A store: its stamp vouches for its value, and a tombstone for a deletion.
Stored(n, k) ==
  /\ StampHolds(n, k)
  /\ (meta[n][k].ts > 0 /\ meta[n][k].tomb) => Backed(k, meta[n][k].ts, "empty")

\* A local call: the value in the store is still the one it inserted.
Called(n, c) ==
  /\ <<c.ts, val[n][c.key]>> \in written[c.key]
  /\ c.op # "patch"
  /\ c.op = "del" => val[n][c.key] = "empty"

\* An answer being prepared: the value it may still read is backed under its stamp, and
\* the store's stamp is not, and will not by the call in progress be, a lower one.
Asked(n, r) ==
  r.meta.ts > 0 =>
    /\ r.meta.ts <= meta[n][r.key].ts
    /\ \A c \in call[n] : c.key = r.key => r.meta.ts <= c.ts
    /\ Backed(r.key, r.meta.ts, val[n][r.key])
    /\ r.meta.tomb => Backed(r.key, r.meta.ts, "empty")

\* A repair that passed the test: the stamp of the store is still lower, and its
\* value, once inserted, still there.  No local call writes the key.
Taken(n, r) ==
  /\ meta[n][r.key].ts < r.meta.ts
  /\ Backed(r.key, r.meta.ts, Repaired(r))
  /\ r.step = "half" => val[n][r.key] = Repaired(r)
  /\ \A c \in call[n] : c.key # r.key

\* Two repairs of a key are not in progress at once.
Alone(n, k) ==
  \A r, s \in busy[n] : (r.key = k /\ r.step # "get" /\ s.key = k /\ s.step # "get") => r = s

\* An answer in transit.
Offered(m) == m.meta.ts > 0 => Backed(m.key, m.meta.ts, Repaired(m))

\* The node that made a stamp has not gone back below it, or is about to insert one
\* that is not lower.
Origin(k, w) ==
  \E n \in Node :
    /\ w[1] % Cardinality(Node) = n /\ w[1] <= last[n]
    /\ \/ w[1] <= meta[n][k].ts
       \/ \E c \in call[n] : c.key = k

KeyOK(k) ==
  /\ \A n \in Node : Stored(n, k)
  /\ \A n \in Node : \A c \in call[n] : c.key = k => Called(n, c)
  /\ \A n \in Node : \A r \in busy[n] : (r.key = k /\ r.step = "get") => Asked(n, r)
  /\ \A n \in Node : \A r \in busy[n] : (r.key = k /\ r.step # "get") => Taken(n, r)
  /\ \A n \in Node : Alone(n, k)
  /\ \A m \in net : (m.type = "PUT_VAL" /\ m.key = k) => Offered(m)
  /\ \A w \in written[k] : Origin(k, w)
  /\ \A w, x \in written[k] : w[1] = x[1] => w[2] = x[2]

IInv == Stores /\ Traffic /\ \A k \in Clean : KeyOK(k)

-----------------------------------------------------------------------------
\* What the invariant of a key rests on

\* A value backed under a stamp is backed under every lower one.
LEMMA BackedLower ==
  ASSUME Stores, NEW k \in Key, NEW a \in Int, NEW b \in Int, b <= a, NEW v, Backed(k, a, v)
  PROVE  Backed(k, b, v)
<1>1. PICK w \in written[k] : w[1] >= a /\ w[2] = v
  BY ZenonT(30) DEF Backed
<1>2. written[k] \subseteq (1 .. MaxStamp) \X Value
  BY ZenonT(30) DEF Stores
<1>3. w[1] \in Int
  BY <1>1, <1>2, SyncAssumption
<1>4. w[1] >= b
  BY <1>1, <1>3
<1> QED
  BY <1>1, <1>4, ZenonT(30) DEF Backed

\* A value that was backed stays so, as the history only grows.
LEMMA BackedGrows ==
  ASSUME NEW k, NEW ts, NEW v, Backed(k, ts, v), written[k] \subseteq written'[k]
  PROVE  Backed(k, ts, v)'
BY ZenonT(30) DEF Backed

\* Stamps are integers.
LEMMA StampInt ==
  ASSUME Stores, NEW n \in Node, NEW k \in Key
  PROVE  /\ meta[n][k].ts \in Int /\ last[n] \in Int
         /\ \A w \in written[k] : w[1] \in Int /\ w[1] > 0
<1>1. meta[n][k] \in Meta /\ last[n] \in 0 .. MaxStamp
  BY ZenonT(30) DEF Stores
<1>2. written[k] \subseteq (1 .. MaxStamp) \X Value
  BY ZenonT(30) DEF Stores
<1> HIDE DEF Value
<1> QED
  BY <1>1, <1>2, SyncAssumption DEF Meta

\* So are those of calls and handlers in progress.
LEMMA TrafficInt ==
  ASSUME Traffic, NEW n \in Node
  PROVE  /\ \A c \in call[n] : c \in Call /\ c.ts \in Int /\ c.ts = last[n] /\ call[n] = {c}
         /\ \A r \in busy[n] : r \in Handling /\ r.meta \in Meta /\ r.meta.ts \in Int
<1>1. \A c \in call[n] : c \in Call /\ c.ts = last[n] /\ call[n] = {c}
  BY ZenonT(30) DEF Traffic, CallOK
<1>2. \A r \in busy[n] : r \in Handling
  BY ZenonT(30) DEF Traffic, BusyOK
<1>3. \A c \in Call : c.ts \in Int
  BY SyncAssumption DEF Call
<1>4. \A r \in Handling : r.meta \in Meta
  BY DEF Handling
<1>5. \A x \in Meta : x.ts \in Int
  BY SyncAssumption DEF Meta
<1> QED
  BY <1>1, <1>2, <1>3, <1>4, <1>5, ZenonT(30)

\* A key whose cells, metas and calls a step leaves alone: handlers that begin and
\* messages that are sent must satisfy the invariant, the rest stays.
LEMMA SameKey ==
  ASSUME NEW k, KeyOK(k),
         \A p \in Node : val'[p][k] = val[p][k] /\ meta'[p][k] = meta[p][k],
         written'[k] = written[k],
         \A p \in Node : \A c : c.key = k => (c \in call'[p] <=> c \in call[p]),
         \A p \in Node : \A r \in busy'[p] : r.key = k =>
           \/ r \in busy[p]
           \/ r.step = "get" /\ Asked(p, r)
           \/ r.step # "get" /\ Taken(p, r),
         \A p \in Node : Alone(p, k)',
         \A m \in net' : (m.type = "PUT_VAL" /\ m.key = k) => (m \in net \/ Offered(m)),
         \A p \in Node : \A w \in written[k] : w[1] <= last[p] => w[1] <= last'[p]
  PROVE  KeyOK(k)'
<1>1. \A ts, v : Backed(k, ts, v)' <=> Backed(k, ts, v)
  BY ZenonT(30) DEF Backed
<1>2. \A p \in Node : Behind(p, k)' <=> Behind(p, k)
  BY ZenonT(30) DEF Behind
<1>3. ASSUME NEW p \in Node PROVE Stored(p, k)'
  <2>1. Stored(p, k)
    BY ZenonT(30) DEF KeyOK
  <2> QED
    BY <1>1, <1>2, <2>1, ZenonT(30) DEF Stored, StampHolds
<1>4. ASSUME NEW p \in Node, NEW c \in call'[p], c.key = k PROVE Called(p, c)'
  <2>1. Called(p, c)
    BY <1>4, ZenonT(30) DEF KeyOK
  <2> QED
    BY <1>4, <2>1, ZenonT(30) DEF Called
<1>5. ASSUME NEW p \in Node, NEW r \in busy'[p], r.key = k, r.step = "get" PROVE Asked(p, r)'
  <2>1. Asked(p, r)
    BY <1>5, ZenonT(30) DEF KeyOK
  <2>2. \A c \in call'[p] : c.key = k => c \in call[p]
    BY ZenonT(30)
  <2> QED
    BY <1>1, <1>5, <2>1, <2>2, ZenonT(30) DEF Asked
<1>6. ASSUME NEW p \in Node, NEW r \in busy'[p], r.key = k, r.step # "get" PROVE Taken(p, r)'
  <2>1. Taken(p, r)
    BY <1>6, ZenonT(30) DEF KeyOK
  <2>2. \A c \in call'[p] : c.key # k
    BY <1>6, <2>1, ZenonT(30) DEF Taken
  <2> QED
    BY <1>1, <1>6, <2>1, <2>2, ZenonT(30) DEF Taken
<1>7. ASSUME NEW m \in net', m.type = "PUT_VAL", m.key = k PROVE Offered(m)'
  <2>1. Offered(m)
    BY <1>7, ZenonT(30) DEF KeyOK
  <2> QED
    BY <1>1, <1>7, <2>1, ZenonT(30) DEF Offered
<1>8. ASSUME NEW w \in written'[k] PROVE Origin(k, w)'
  <2>1. w \in written[k] /\ Origin(k, w)
    BY <1>8, ZenonT(30) DEF KeyOK
  <2>2. PICK p \in Node : /\ w[1] % Cardinality(Node) = p /\ w[1] <= last[p]
                          /\ w[1] <= meta[p][k].ts \/ \E c \in call[p] : c.key = k
    BY <2>1, ZenonT(30) DEF Origin
  <2>3. w[1] <= last'[p] /\ meta'[p][k] = meta[p][k]
    BY <2>1, <2>2, ZenonT(30)
  <2> QED
    BY <2>2, <2>3, ZenonT(30) DEF Origin
<1>9. \A w, x \in written'[k] : w[1] = x[1] => w[2] = x[2]
  BY ZenonT(30) DEF KeyOK
<1> QED
  BY <1>3, <1>4, <1>5, <1>6, <1>7, <1>8, <1>9, ZenonT(30) DEF KeyOK

-----------------------------------------------------------------------------
\* Steps that write no store and answer no GET_VAL or PUT_VAL

\* Such a step keeps the invariant if the messages it sends are well formed.
LEMMA QuietStep ==
  ASSUME IInv, UNCHANGED <<val, meta, last, call, busy, written, patched, raced, writes>>,
         losses' \in 0 .. MaxLosses,
         \A m \in net' : m \in net \/ (MessageOK(m) /\ m.type # "PUT_VAL")
  PROVE  IInv'
<1>1. Stores'
  BY ZenonT(30) DEF IInv, Stores
<1>2. Traffic'
  <2>1. \A n \in Node : CallOK(n)' /\ BusyOK(n)'
    BY ZenonT(30) DEF IInv, Traffic, CallOK, BusyOK
  <2> QED
    BY <2>1, ZenonT(30) DEF IInv, Traffic
<1>3. ASSUME NEW k \in Clean' PROVE KeyOK(k)'
  <2>1. KeyOK(k)
    BY <1>3, ZenonT(30) DEF IInv, Clean
  <2>2. \A p \in Node : Alone(p, k)'
    BY <2>1, ZenonT(30) DEF KeyOK, Alone
  <2> QED
    BY <2>1, <2>2, SameKey, ZenonT(30)
<1> QED
  BY <1>1, <1>2, <1>3, ZenonT(30) DEF IInv

\* The same for a handler that answers a message by messages that are not values.
LEMMA QuietExchange ==
  ASSUME IInv, UNCHANGED <<val, meta, last, call, busy, written, patched, raced, writes, losses>>,
         NEW m, NEW ms, Exchange(m, ms),
         \A x \in ms : Lane(x) \in Lanes => (MessageOK(x) /\ x.type # "PUT_VAL")
  PROVE  IInv'
<1>1. \A x \in net' : x \in net \/ (MessageOK(x) /\ x.type # "PUT_VAL")
  BY ZenonT(30) DEF Exchange, Wired
<1>2. losses' \in 0 .. MaxLosses
  BY ZenonT(30) DEF IInv, Stores
<1> QED
  BY <1>1, <1>2, QuietStep, ZenonT(30)

\* A message in transit is well formed.
LEMMA InTransit ==
  ASSUME IInv, NEW m \in net
  PROVE  MessageOK(m)
BY ZenonT(30) DEF IInv, Traffic

\* A lost message.
LEMMA LoseKeeps ==
  ASSUME IInv, NEW m \in net, Lose(m)
  PROVE  IInv'
<1>1. losses' \in 0 .. MaxLosses
  BY SyncAssumption DEF Lose, IInv, Stores
<1>2. \A x \in net' : x \in net
  BY ZenonT(30) DEF Lose
<1> QED
  BY <1>1, <1>2, QuietStep, ZenonT(30) DEF Lose

\* A round of gossip.
LEMMA GossipKeeps ==
  ASSUME IInv, NEW n \in Node, NEW p \in Node, trigger_gossip(n, p)
  PROVE  IInv'
<1> DEFINE x == [type |-> "INIT", from |-> n, to |-> p, root |-> Leaves(n)]
<1>1. Lane(x) \in Lanes => (MessageOK(x) /\ x.type # "PUT_VAL")
  BY ZenonT(30) DEF MessageOK, trigger_gossip
<1>2. \A y \in net' : y \in net \/ (MessageOK(y) /\ y.type # "PUT_VAL")
  BY <1>1, ZenonT(30) DEF trigger_gossip, Wired
<1>3. losses' \in 0 .. MaxLosses
  BY ZenonT(30) DEF IInv, Stores, trigger_gossip
<1> QED
  BY <1>2, <1>3, QuietStep, ZenonT(30) DEF trigger_gossip

\* A request for the children of a node.
LEMMA ReqNodeOK ==
  ASSUME NEW n \in Node, NEW p \in Node, n # p, NEW l, NEW i, Lane(ReqNode(n, p, l, i)) \in Lanes
  PROVE  MessageOK(ReqNode(n, p, l, i)) /\ ReqNode(n, p, l, i).type # "PUT_VAL"
BY ZenonT(30) DEF MessageOK, ReqNode

\* The handlers of INIT, REQ_NODE, REP_NODE, REQ_BUCKET and REP_BUCKET.
LEMMA SyncInitKeeps ==
  ASSUME IInv, NEW m \in net, on_sync_init(m)
  PROVE  IInv'
<1>1. MessageOK(m)
  BY InTransit, ZenonT(30)
<1> DEFINE ms == IF Leaves(m.to) = m.root THEN {} ELSE {ReqNode(m.to, m.from, 1, 0)}
<1>2. \A x \in ms : Lane(x) \in Lanes => (MessageOK(x) /\ x.type # "PUT_VAL")
  BY <1>1, ReqNodeOK, ZenonT(30) DEF MessageOK
<1>3. Exchange(m, ms)
  BY ZenonT(30) DEF on_sync_init
<1> QED
  BY <1>2, <1>3, QuietExchange DEF on_sync_init

\* The hashes of a node's children are no value.
LEMMA ReqNodeKeeps ==
  ASSUME IInv, NEW m \in net, on_req_node(m)
  PROVE  IInv'
<1>1. MessageOK(m)
  BY InTransit, ZenonT(30)
<1> DEFINE x == [type |-> "REP_NODE", from |-> m.to, to |-> m.from,
                 level |-> m.level, parent |-> m.parent,
                 hashes |-> [i \in Kids(m.parent) |-> NodeHash(m.to, m.level, i)]]
<1>2. \A y \in {x} : Lane(y) \in Lanes => (MessageOK(y) /\ y.type # "PUT_VAL")
  BY <1>1 DEF MessageOK
<1>3. Exchange(m, {x})
  BY ZenonT(30) DEF on_req_node
<1> QED
  BY <1>2, <1>3, QuietExchange, ZenonT(30) DEF on_req_node

\* One request for every child that differs.
LEMMA RepNodeKeeps ==
  ASSUME IInv, NEW m \in net, on_rep_node(m)
  PROVE  IInv'
<1>1. MessageOK(m)
  BY InTransit, ZenonT(30)
<1> DEFINE differ == {i \in Kids(m.parent) : m.hashes[i] # NodeHash(m.to, m.level, i)}
           Ask(i) == IF m.level = Depth
                     THEN [type |-> "REQ_BUCKET", from |-> m.to, to |-> m.from, bucket |-> i]
                     ELSE ReqNode(m.to, m.from, m.level + 1, i)
           ms == {Ask(i) : i \in differ}
<1>2. ASSUME NEW i, Lane(Ask(i)) \in Lanes
      PROVE  MessageOK(Ask(i)) /\ Ask(i).type # "PUT_VAL"
  <2>1. CASE m.level = Depth
    BY <1>1, <1>2, <2>1, ZenonT(30) DEF MessageOK
  <2>2. CASE m.level # Depth
    BY <1>1, <1>2, <2>2, ReqNodeOK, ZenonT(30) DEF MessageOK
  <2> QED
    BY <2>1, <2>2, ZenonT(30)
<1>3. Exchange(m, ms)
  BY ZenonT(30) DEF on_rep_node
<1> HIDE DEF Ask, differ
<1>4. \A x \in ms : Lane(x) \in Lanes => (MessageOK(x) /\ x.type # "PUT_VAL")
  BY <1>2, ZenonT(30)
<1> QED
  BY <1>3, <1>4, QuietExchange, ZenonT(30) DEF on_rep_node

\* The keys of a bucket.
LEMMA ReqBucketKeeps ==
  ASSUME IInv, NEW m \in net, on_req_bucket(m)
  PROVE  IInv'
<1>1. MessageOK(m)
  BY InTransit, ZenonT(30)
<1> DEFINE keys == {k \in Key : ValBucket[k] = m.bucket /\ val[m.to][k] # "none"}
           x == [type |-> "REP_BUCKET", from |-> m.to, to |-> m.from,
                 hashes |-> [k \in keys |-> val[m.to][k]]]
<1>2. \A y \in {x} : Lane(y) \in Lanes => (MessageOK(y) /\ y.type # "PUT_VAL")
  BY <1>1 DEF MessageOK
<1>3. Exchange(m, {x})
  BY ZenonT(30) DEF on_req_bucket
<1> QED
  BY <1>2, <1>3, QuietExchange, ZenonT(30) DEF on_req_bucket

\* The keys asked for are those that were listed.
LEMMA RepBucketKeeps ==
  ASSUME IInv, NEW m \in net, on_rep_bucket(m)
  PROVE  IInv'
<1>1. MessageOK(m) /\ DOMAIN m.hashes \subseteq Key
  BY InTransit, ZenonT(30) DEF MessageOK, on_rep_bucket
<1> DEFINE differ == {k \in DOMAIN m.hashes : LocalHash(val[m.to][k]) # m.hashes[k]}
           Ask(k) == [type |-> "GET_VAL", from |-> m.to, to |-> m.from, key |-> k]
           ms == {Ask(k) : k \in differ}
<1>2. ASSUME NEW k \in differ, Lane(Ask(k)) \in Lanes
      PROVE  MessageOK(Ask(k)) /\ Ask(k).type # "PUT_VAL"
  BY <1>1, <1>2, ZenonT(30) DEF MessageOK
<1>3. Exchange(m, ms)
  BY ZenonT(30) DEF on_rep_bucket
<1> HIDE DEF Ask, differ
<1>4. \A x \in ms : Lane(x) \in Lanes => (MessageOK(x) /\ x.type # "PUT_VAL")
  BY <1>2, ZenonT(30)
<1> QED
  BY <1>3, <1>4, QuietExchange, ZenonT(30) DEF on_rep_bucket

-----------------------------------------------------------------------------
\* The first half of a local call

\* It changes one cell of one node, its clock and its call.
LEMMA BeginCells ==
  ASSUME Stores, Traffic, NEW n \in Node, NEW k \in Key, NEW v, NEW t, NEW op,
         Begin(n, k, v, t, op)
  PROVE  /\ val'[n][k] = v /\ last'[n] = t
         /\ \A p \in Node, j \in Key : (p # n \/ j # k) => val'[p][j] = val[p][j]
         /\ meta' = meta /\ busy' = busy /\ net' = net
         /\ call[n] = {} /\ call'[n] = {[key |-> k, ts |-> t, op |-> op]}
         /\ \A p \in Node \ {n} : last'[p] = last[p] /\ call'[p] = call[p]
         /\ written'[k] = written[k] \cup {<<t, v>>}
         /\ \A j \in Key \ {k} : written'[j] = written[j]
<1>1. val'[n][k] = v /\ \A p \in Node, j \in Key : (p # n \/ j # k) => val'[p][j] = val[p][j]
  BY ZenonT(30) DEF Stores, Begin
<1>2. last'[n] = t /\ \A p \in Node \ {n} : last'[p] = last[p]
  BY ZenonT(30) DEF Stores, Begin
<1>3. /\ call[n] = {} /\ call'[n] = {[key |-> k, ts |-> t, op |-> op]}
      /\ \A p \in Node \ {n} : call'[p] = call[p]
  BY ZenonT(30) DEF Traffic, Begin
<1>4. written'[k] = written[k] \cup {<<t, v>>} /\ \A j \in Key \ {k} : written'[j] = written[j]
  BY ZenonT(30) DEF Stores, Begin
<1> QED
  BY <1>1, <1>2, <1>3, <1>4, ZenonT(30) DEF Begin

\* It keeps the types.
LEMMA BeginStores ==
  ASSUME IInv, NEW n \in Node, NEW k \in Key, NEW v \in Value, NEW t \in 1 .. MaxStamp,
         NEW op \in {"put", "del", "patch"}, Begin(n, k, v, t, op), patched' \subseteq Key
  PROVE  Stores' /\ Traffic'
<1>1. Stores /\ Traffic
  BY ZenonT(30) DEF IInv
<1>2. val' \in [Node -> [Key -> Value]]
  BY <1>1, ZenonT(30) DEF Stores, Begin
<1>3. meta' \in [Node -> [Key -> Meta]]
  BY <1>1, ZenonT(30) DEF Stores, Begin
<1>4. last' \in [Node -> 0 .. MaxStamp]
  <2>1. t \in 0 .. MaxStamp
    BY SyncAssumption
  <2> QED
    BY <1>1, <2>1, ZenonT(30) DEF Stores, Begin
<1>5. written' \in [Key -> SUBSET ((1 .. MaxStamp) \X Value)]
  <2>1. written \in [Key -> SUBSET ((1 .. MaxStamp) \X Value)]
    BY <1>1, ZenonT(30) DEF Stores
  <2>2. written' = [written EXCEPT ![k] = @ \cup {<<t, v>>}]
    BY ZenonT(30) DEF Begin
  <2> QED
    BY <2>1, <2>2
<1>6. raced' \subseteq Key
  BY <1>1, ZenonT(30) DEF Stores, Begin, Race
<1>7. writes' \in 0 .. MaxWrites /\ losses' \in 0 .. MaxLosses
  <2>1. /\ writes \in 0 .. MaxWrites /\ losses \in 0 .. MaxLosses
        /\ writes < MaxWrites /\ writes' = writes + 1 /\ losses' = losses
    BY <1>1, ZenonT(30) DEF Stores, Begin
  <2> QED
    BY <2>1, SyncAssumption
<1>8. Traffic'
  <2> DEFINE c == [key |-> k, ts |-> t, op |-> op]
  <2>1. c \in Call /\ c.ts = t
    BY DEF Call
  <2> HIDE DEF c
  <2>2. /\ call'[n] = {c} /\ last'[n] = t /\ busy' = busy /\ net' = net
        /\ \A p \in Node \ {n} : call'[p] = call[p] /\ last'[p] = last[p]
    BY <1>1, BeginCells DEF c
  <2>3. ASSUME NEW p \in Node PROVE CallOK(p)'
    BY <1>1, <2>1, <2>2, ZenonT(30) DEF CallOK, Traffic
  <2>4. DOMAIN call' = Node
    BY <1>1, ZenonT(30) DEF Traffic, Begin
  <2>5. ASSUME NEW p \in Node PROVE BusyOK(p)'
    BY <1>1, <2>2, ZenonT(30) DEF BusyOK, Traffic
  <2> QED
    BY <1>1, <2>2, <2>3, <2>4, <2>5, ZenonT(30) DEF Traffic
<1> QED
  BY <1>2, <1>3, <1>4, <1>5, <1>6, <1>7, <1>8, ZenonT(30) DEF Stores

\* Clocks only go forward.
LEMMA BeginClock ==
  ASSUME Stores, Traffic, NEW n \in Node, NEW k \in Key, NEW v, NEW t \in 1 .. MaxStamp, NEW op,
         Begin(n, k, v, t, op), NEW j \in Key, NEW p \in Node, NEW w \in written[j],
         w[1] <= last[p]
  PROVE  w[1] <= last'[p]
<1>1. w[1] \in Int /\ last[p] \in Int
  BY StampInt, ZenonT(30)
<1>2. CASE p = n
  <2>1. last'[p] = t
    BY <1>2, BeginCells
  <2>2. t > last[p]
    BY <1>2, ZenonT(30) DEF Begin, Stamp
  <2> QED
    BY <1>1, <2>1, <2>2, SyncAssumption
<1>3. CASE p # n
  BY <1>3, BeginCells
<1> QED
  BY <1>2, <1>3, ZenonT(30)

\* A key that is not written stays as it is.
LEMMA BeginOther ==
  ASSUME IInv, NEW n \in Node, NEW k \in Key, NEW v \in Value, NEW t \in 1 .. MaxStamp, NEW op,
         Begin(n, k, v, t, op), NEW j \in Key \ {k}, KeyOK(j)
  PROVE  KeyOK(j)'
<1>1. Stores /\ Traffic
  BY ZenonT(30) DEF IInv
<1> DEFINE c == [key |-> k, ts |-> t, op |-> op]
<1>2. c.key = k
  OBVIOUS
<1> HIDE DEF c
<1>3. /\ \A p \in Node : val'[p][j] = val[p][j]
      /\ meta' = meta /\ busy' = busy /\ net' = net /\ written'[j] = written[j]
      /\ call[n] = {} /\ call'[n] = {c} /\ \A p \in Node \ {n} : call'[p] = call[p]
  BY <1>1, BeginCells DEF c
<1>4. ASSUME NEW p \in Node, NEW d, d.key = j PROVE d \in call'[p] <=> d \in call[p]
  BY <1>2, <1>3, <1>4, ZenonT(30)
<1>5. \A p \in Node : Alone(p, j)'
  BY <1>3, ZenonT(30) DEF KeyOK, Alone
<1>6. \A p \in Node : \A w \in written[j] : w[1] <= last[p] => w[1] <= last'[p]
  BY <1>1, BeginClock, ZenonT(30)
<1> QED
  BY <1>3, <1>4, <1>5, <1>6, SameKey, ZenonT(30)

\* The key that is written, by a put or a del: its stamp is above all of its node, no
\* repair of it is in progress there, and no answer is prepared under a higher stamp.
LEMMA BeginKey ==
  ASSUME IInv, NEW n \in Node, NEW k \in Key, NEW v \in Value, NEW t \in 1 .. MaxStamp,
         NEW op, Begin(n, k, v, t, op), KeyOK(k),
         op # "patch", op = "del" => v = "empty", k \notin raced'
  PROVE  KeyOK(k)'
<1>1. Stores /\ Traffic
  BY ZenonT(30) DEF IInv
<1> DEFINE c == [key |-> k, ts |-> t, op |-> op]
<1>2. c.key = k /\ c.ts = t /\ c.op = op
  OBVIOUS
<1> HIDE DEF c
<1>3. /\ val'[n][k] = v /\ last'[n] = t /\ call[n] = {} /\ call'[n] = {c}
      /\ meta' = meta /\ busy' = busy /\ net' = net
      /\ written'[k] = written[k] \cup {<<t, v>>}
      /\ \A p \in Node \ {n} : val'[p][k] = val[p][k] /\ last'[p] = last[p] /\ call'[p] = call[p]
  BY <1>1, BeginCells DEF c
<1>4. last[n] \in Int /\ t \in Int /\ last[n] < t /\ t % Cardinality(Node) = n
  <2>1. t > last[n] /\ t % Cardinality(Node) = n
    BY ZenonT(30) DEF Begin, Stamp
  <2>2. last[n] \in Int
    BY <1>1, StampInt, ZenonT(30)
  <2> QED
    BY <2>1, <2>2, SyncAssumption
<1>5. ~Writing(n, k) /\ \A r \in busy[n] : r.key = k => ~(r.meta.ts > t)
  BY ZenonT(30) DEF Begin, Race
<1>6. ASSUME NEW ts \in Int, ts <= t PROVE Backed(k, ts, v)'
  <2>1. <<t, v>> \in written'[k] /\ <<t, v>>[1] >= ts /\ <<t, v>>[2] = v
    BY <1>3, <1>4, <1>6
  <2> QED
    BY <2>1, ZenonT(30) DEF Backed
<1>7. \A ts, u : Backed(k, ts, u) => Backed(k, ts, u)'
  BY <1>3, BackedGrows, ZenonT(30)
<1>8. ASSUME NEW p \in Node PROVE Stored(p, k)'
  <2>1. Stored(p, k) /\ meta[p][k].ts \in Int
    BY <1>1, StampInt, ZenonT(30) DEF KeyOK
  <2>2. ASSUME meta'[p][k].ts > 0, ~Behind(p, k)' PROVE Backed(k, meta[p][k].ts, val[p][k])'
    <3>1. CASE p = n
      <4>1. c \in call'[n] /\ meta'[n][k].ts = meta[n][k].ts
        BY <1>3, ZenonT(30)
      <4>2. ~(t < meta[n][k].ts)
        BY <1>2, <2>2, <3>1, <4>1, ZenonT(30) DEF Behind
      <4>3. meta[n][k].ts <= t
        BY <1>4, <2>1, <3>1, <4>2
      <4> QED
        BY <1>3, <1>6, <2>1, <3>1, <4>3, ZenonT(30)
    <3>2. CASE p # n
      BY <1>3, <1>7, <2>1, <2>2, <3>2, ZenonT(30) DEF Stored, StampHolds, Behind
    <3> QED
      BY <3>1, <3>2, ZenonT(30)
  <2>3. StampHolds(p, k)'
    BY <1>3, <2>2, ZenonT(30) DEF StampHolds
  <2> QED
    BY <1>3, <1>7, <2>1, <2>3, ZenonT(30) DEF Stored
<1>9. ASSUME NEW p \in Node, NEW d \in call'[p], d.key = k PROVE Called(p, d)'
  <2>1. CASE p = n
    <3>1. d = c
      BY <1>3, <2>1, ZenonT(30)
    <3> QED
      BY <1>2, <1>3, <2>1, <3>1, ZenonT(30) DEF Called
  <2>2. CASE p # n
    <3>1. Called(p, d)
      BY <1>3, <1>9, <2>2, ZenonT(30) DEF KeyOK
    <3> QED
      BY <1>3, <1>9, <2>2, <3>1, ZenonT(30) DEF Called
  <2> QED
    BY <2>1, <2>2, ZenonT(30)
<1>10. ASSUME NEW p \in Node, NEW r \in busy'[p], r.key = k, r.step = "get" PROVE Asked(p, r)'
  <2>1. r \in busy[p] /\ Asked(p, r) /\ r.meta.ts \in Int
    BY <1>1, <1>3, <1>10, TrafficInt, ZenonT(30) DEF KeyOK
  <2>2. CASE p = n
    <3>1. r.meta.ts <= t
      <4>1. ~(r.meta.ts > t)
        BY <1>5, <1>10, <2>1, <2>2, ZenonT(30)
      <4> QED
        BY <1>4, <2>1, <4>1
    <3>2. Backed(k, r.meta.ts, v)'
      BY <1>6, <2>1, <3>1, ZenonT(30)
    <3>3. \A d \in call'[p] : d.key = k => r.meta.ts <= d.ts
      BY <1>2, <1>3, <2>2, <3>1, ZenonT(30)
    <3>4. r.meta.ts > 0 => /\ r.meta.ts <= meta'[p][k].ts
                           /\ r.meta.tomb => Backed(k, r.meta.ts, "empty")'
      BY <1>3, <1>7, <1>10, <2>1, ZenonT(30) DEF Asked
    <3> QED
      BY <1>3, <1>10, <2>2, <3>2, <3>3, <3>4, ZenonT(30) DEF Asked
  <2>3. CASE p # n
    BY <1>3, <1>7, <1>10, <2>1, <2>3, ZenonT(30) DEF Asked
  <2> QED
    BY <2>2, <2>3, ZenonT(30)
<1>11. ASSUME NEW p \in Node, NEW r \in busy'[p], r.key = k, r.step # "get" PROVE Taken(p, r)'
  <2>1. r \in busy[p] /\ Taken(p, r)
    BY <1>3, <1>11, ZenonT(30) DEF KeyOK
  <2>2. p # n
    BY <1>5, <1>11, <2>1, ZenonT(30) DEF Writing
  <2> QED
    BY <1>3, <1>7, <1>11, <2>1, <2>2, ZenonT(30) DEF Taken
<1>12. \A p \in Node : Alone(p, k)'
  BY <1>3, ZenonT(30) DEF KeyOK, Alone
<1>13. ASSUME NEW x \in net', x.type = "PUT_VAL", x.key = k PROVE Offered(x)'
  <2>1. Offered(x)
    BY <1>3, <1>13, ZenonT(30) DEF KeyOK
  <2> QED
    BY <1>7, <1>13, <2>1, ZenonT(30) DEF Offered
<1>14. ASSUME NEW w \in written[k], w[1] % Cardinality(Node) = n PROVE w[1] < t
  <2>1. w[1] \in Int
    BY <1>1, StampInt, ZenonT(30)
  <2>2. w[1] <= last[n]
    BY <1>14, ZenonT(30) DEF KeyOK, Origin
  <2> QED
    BY <1>4, <2>1, <2>2
<1>15. ASSUME NEW w \in written'[k] PROVE Origin(k, w)'
  <2>1. CASE w = <<t, v>>
    <3>1. w[1] = t /\ t <= t
      BY <1>4, <2>1
    <3> QED
      BY <1>2, <1>3, <1>4, <3>1, ZenonT(30) DEF Origin
  <2>2. CASE w # <<t, v>>
    <3>1. w \in written[k]
      BY <1>3, <1>15, <2>2, ZenonT(30)
    <3>2. PICK p \in Node : /\ w[1] % Cardinality(Node) = p /\ w[1] <= last[p]
                            /\ w[1] <= meta[p][k].ts \/ \E d \in call[p] : d.key = k
      BY <3>1, ZenonT(30) DEF KeyOK, Origin
    <3>3. w[1] <= last'[p]
      BY <1>1, <3>1, <3>2, BeginClock, ZenonT(30)
    <3>4. w[1] <= meta'[p][k].ts \/ \E d \in call'[p] : d.key = k
      BY <1>2, <1>3, <3>2, ZenonT(30)
    <3> QED
      BY <3>2, <3>3, <3>4, ZenonT(30) DEF Origin
  <2> QED
    BY <2>1, <2>2, ZenonT(30)
<1>16. ASSUME NEW w \in written'[k], NEW x \in written'[k], w[1] = x[1] PROVE w[2] = x[2]
  <2>1. \A y \in written[k] : y[1] # t
    <3> SUFFICES ASSUME NEW y \in written[k], y[1] = t PROVE FALSE
      BY ZenonT(30)
    <3>1. y[1] < t
      BY <1>4, <1>14, ZenonT(30)
    <3> QED
      BY <1>4, <3>1
  <2>2. \A y, z \in written[k] : y[1] = z[1] => y[2] = z[2]
    BY ZenonT(30) DEF KeyOK
  <2>3. (w \in written[k] \/ w = <<t, v>>) /\ (x \in written[k] \/ x = <<t, v>>)
    BY <1>3, ZenonT(30)
  <2> QED
    BY <1>16, <2>1, <2>2, <2>3
<1> QED
  BY <1>8, <1>9, <1>10, <1>11, <1>12, <1>13, <1>15, <1>16, ZenonT(30) DEF KeyOK

\* put, del and patch.
LEMMA BeginKeeps ==
  ASSUME IInv, NEW n \in Node, NEW k \in Key, NEW v \in Value, NEW t \in 1 .. MaxStamp,
         NEW op \in {"put", "del", "patch"}, Begin(n, k, v, t, op),
         (patched' = patched /\ op # "patch") \/ patched' = patched \cup {k},
         op = "del" => v = "empty"
  PROVE  IInv'
<1>1. Stores' /\ Traffic'
  BY BeginStores, ZenonT(30) DEF IInv, Stores
<1>2. ASSUME NEW j \in Clean' PROVE KeyOK(j)'
  <2>1. j \in Clean /\ j \in Key /\ j \notin raced' /\ j \notin patched'
    BY <1>2, ZenonT(30) DEF Clean, Begin, Race
  <2>2. KeyOK(j)
    BY <2>1, ZenonT(30) DEF IInv
  <2>3. CASE j = k
    BY <2>1, <2>2, <2>3, BeginKey, ZenonT(30)
  <2>4. CASE j # k
    BY <2>1, <2>2, <2>4, BeginOther, ZenonT(30)
  <2> QED
    BY <2>3, <2>4, ZenonT(30)
<1> QED
  BY <1>1, <1>2, ZenonT(30) DEF IInv

\* The local calls of a node.
LEMMA LocalKeeps ==
  ASSUME IInv, NEW n \in Node, Local(n)
  PROVE  IInv'
<1>1. PICK k \in Key, t \in 1 .. MaxStamp :
        \/ \E v \in Val : put(n, k, v, t)
        \/ del(n, k, t)
        \/ \E v \in Val : patch(n, k, v, t)
  BY ZenonT(30) DEF Local
<1>2. CASE \E v \in Val : put(n, k, v, t)
  <2>1. PICK v \in Val : put(n, k, v, t)
    BY <1>2, ZenonT(30)
  <2>2. v \in Value /\ Begin(n, k, v, t, "put") /\ patched' = patched
    BY <2>1, ZenonT(30) DEF put, Value
  <2> QED
    BY <2>2, BeginKeeps
<1>3. CASE del(n, k, t)
  <2>1. "empty" \in Value /\ Begin(n, k, "empty", t, "del") /\ patched' = patched
    BY <1>3, ZenonT(30) DEF del, Value
  <2> QED
    BY <2>1, BeginKeeps
<1>4. CASE \E v \in Val : patch(n, k, v, t)
  <2>1. PICK v \in Val : patch(n, k, v, t)
    BY <1>4, ZenonT(30)
  <2>2. v \in Value /\ Begin(n, k, v, t, "patch") /\ patched' = patched \cup {k}
    BY <2>1, ZenonT(30) DEF patch, Value
  <2> QED
    BY <2>2, BeginKeeps
<1> QED
  BY <1>1, <1>2, <1>3, <1>4, ZenonT(30)

-----------------------------------------------------------------------------
\* The second half of a local call

\* The stamp goes to the store: the key's values were backed by it already.
LEMMA FinishKeeps ==
  ASSUME IInv, NEW n \in Node, Finish(n)
  PROVE  IInv'
<1>1. Stores /\ Traffic
  BY ZenonT(30) DEF IInv
<1>2. PICK c \in call[n] : meta' = [meta EXCEPT ![n][c.key] = CallMeta(n, c)]
  BY ZenonT(30) DEF Finish
<1>3. c \in Call /\ c.ts \in Int /\ c.ts = last[n] /\ call[n] = {c}
  BY <1>1, TrafficInt, ZenonT(30)
<1>4. PICK k \in Key : k = c.key
  BY <1>3 DEF Call
<1>5. CallMeta(n, c) \in Meta
  <2>1. meta[n][k] \in Meta /\ c.ts \in 0 .. MaxStamp /\ 0 \in 0 .. MaxStamp
    BY <1>1, <1>3, SyncAssumption DEF Stores, Call
  <2>2. [meta[n][k] EXCEPT !.patch = c.ts] \in Meta
    BY <2>1, ZenonT(30) DEF Meta
  <2>3. [ts |-> c.ts, tomb |-> c.op = "del", patch |-> 0] \in Meta
    BY <2>1 DEF Meta
  <2> QED
    BY <1>4, <2>2, <2>3, ZenonT(30) DEF CallMeta
<1>6. /\ UNCHANGED <<val, last, busy, net, written, patched, raced, writes, losses>>
      /\ call'[n] = {} /\ DOMAIN call' = Node /\ \A p \in Node \ {n} : call'[p] = call[p]
  BY <1>1, ZenonT(30) DEF Finish, Traffic
<1>7. /\ meta' \in [Node -> [Key -> Meta]]
      /\ meta'[n][k] = CallMeta(n, c)
      /\ \A p \in Node, j \in Key : (p # n \/ j # k) => meta'[p][j] = meta[p][j]
  BY <1>1, <1>2, <1>4, <1>5, ZenonT(30) DEF Stores
<1>8. Stores'
  BY <1>1, <1>6, <1>7, ZenonT(30) DEF Stores
<1>9. Traffic'
  <2>1. ASSUME NEW p \in Node PROVE CallOK(p)'
    <3>1. CASE p = n
      BY <1>6, <3>1, ZenonT(30) DEF CallOK
    <3>2. CASE p # n
      BY <1>1, <1>6, <3>2, ZenonT(30) DEF Traffic, CallOK
    <3> QED
      BY <3>1, <3>2, ZenonT(30)
  <2>2. ASSUME NEW p \in Node PROVE BusyOK(p)'
    BY <1>1, <1>6, ZenonT(30) DEF Traffic, BusyOK
  <2> QED
    BY <1>1, <1>6, <2>1, <2>2, ZenonT(30) DEF Traffic
<1>10. ASSUME NEW j \in Clean', j # k PROVE KeyOK(j)'
  <2>1. KeyOK(j) /\ j \in Key
    BY <1>6, <1>10, ZenonT(30) DEF IInv, Clean
  <2>2. ASSUME NEW p \in Node, NEW d, d.key = j PROVE d \in call'[p] <=> d \in call[p]
    BY <1>3, <1>4, <1>6, <1>10, <2>2, ZenonT(30)
  <2>3. \A p \in Node : Alone(p, j)'
    BY <1>6, <2>1, ZenonT(30) DEF KeyOK, Alone
  <2>4. \A p \in Node : val'[p][j] = val[p][j] /\ meta'[p][j] = meta[p][j]
    BY <1>6, <1>7, <1>10, <2>1, ZenonT(30)
  <2> QED
    BY <1>6, <2>1, <2>2, <2>3, <2>4, SameKey, ZenonT(30)
<1>11. ASSUME k \in Clean' PROVE KeyOK(k)'
  <2>1. KeyOK(k)
    BY <1>6, <1>11, ZenonT(30) DEF IInv, Clean
  <2>2. Called(n, c)
    BY <1>4, <2>1, ZenonT(30) DEF KeyOK
  <2>3. meta'[n][k].ts = c.ts /\ (meta'[n][k].tomb <=> c.op = "del")
    <3>1. PICK b \in BOOLEAN : b = (c.op = "del")
      BY ZenonT(30)
    <3>2. meta'[n][k] = [ts |-> c.ts, tomb |-> b, patch |-> 0]
      BY <1>7, <2>2, <3>1, ZenonT(30) DEF CallMeta, Called
    <3>3. meta'[n][k].ts = c.ts /\ meta'[n][k].tomb = b
      BY <3>2
    <3> QED
      BY <3>1, <3>3, ZenonT(30)
  <2>4. \A ts, v : Backed(k, ts, v)' <=> Backed(k, ts, v)
    BY <1>6, ZenonT(30) DEF Backed
  <2>5. Backed(k, c.ts, val[n][k])
    <3>1. <<c.ts, val[n][k]>> \in written[k]
      BY <1>4, <2>2, ZenonT(30) DEF Called
    <3>2. <<c.ts, val[n][k]>>[1] >= c.ts /\ <<c.ts, val[n][k]>>[2] = val[n][k]
      BY <1>3
    <3> QED
      BY <3>1, <3>2, ZenonT(30) DEF Backed
  <2>6. ASSUME NEW p \in Node PROVE Stored(p, k)'
    <3>1. CASE p = n
      <4>1. c.op = "del" => val[n][k] = "empty"
        BY <1>4, <2>2, ZenonT(30) DEF Called
      <4> QED
        BY <1>6, <2>3, <2>4, <2>5, <3>1, <4>1, ZenonT(30) DEF Stored, StampHolds
    <3>2. CASE p # n
      <4>1. Stored(p, k) /\ meta'[p][k] = meta[p][k]
        BY <1>7, <2>1, <3>2, ZenonT(30) DEF KeyOK
      <4>2. Behind(p, k)' <=> Behind(p, k)
        BY <1>6, <3>2, <4>1, ZenonT(30) DEF Behind
      <4> QED
        BY <1>6, <2>4, <4>1, <4>2, ZenonT(30) DEF Stored, StampHolds
    <3> QED
      BY <3>1, <3>2, ZenonT(30)
  <2>7. ASSUME NEW p \in Node, NEW d \in call'[p], d.key = k PROVE Called(p, d)'
    <3>1. Called(p, d)
      BY <1>6, <2>1, <2>7, ZenonT(30) DEF KeyOK
    <3> QED
      BY <1>6, <3>1, ZenonT(30) DEF Called
  <2>8. ASSUME NEW p \in Node, NEW r \in busy'[p], r.key = k, r.step = "get" PROVE Asked(p, r)'
    <3>1. Asked(p, r)
      BY <1>6, <2>1, <2>8, ZenonT(30) DEF KeyOK
    <3>2. CASE p = n
      <4>1. r.meta.ts > 0 => r.meta.ts <= meta'[p][k].ts
        BY <1>4, <2>3, <2>8, <3>1, <3>2, ZenonT(30) DEF Asked
      <4> QED
        BY <1>6, <2>4, <2>8, <3>1, <3>2, <4>1, ZenonT(30) DEF Asked
    <3>3. CASE p # n
      <4>1. meta'[p][k] = meta[p][k] /\ call'[p] = call[p]
        BY <1>6, <1>7, <3>3, ZenonT(30)
      <4> QED
        BY <1>6, <2>4, <2>8, <3>1, <4>1, ZenonT(30) DEF Asked
    <3> QED
      BY <3>2, <3>3, ZenonT(30)
  <2>9. ASSUME NEW p \in Node, NEW r \in busy'[p], r.key = k, r.step # "get" PROVE Taken(p, r)'
    <3>1. Taken(p, r)
      BY <1>6, <2>1, <2>9, ZenonT(30) DEF KeyOK
    <3>2. p # n
      BY <1>4, <2>9, <3>1, ZenonT(30) DEF Taken
    <3>3. meta'[p][k] = meta[p][k] /\ call'[p] = call[p]
      BY <1>6, <1>7, <3>2, ZenonT(30)
    <3> QED
      BY <1>6, <2>4, <2>9, <3>1, <3>3, ZenonT(30) DEF Taken
  <2>10. \A p \in Node : Alone(p, k)'
    BY <1>6, <2>1, ZenonT(30) DEF KeyOK, Alone
  <2>11. ASSUME NEW m \in net', m.type = "PUT_VAL", m.key = k PROVE Offered(m)'
    BY <1>6, <2>1, <2>4, <2>11, ZenonT(30) DEF KeyOK, Offered
  <2>12. ASSUME NEW w \in written'[k] PROVE Origin(k, w)'
    <3>1. PICK p \in Node : /\ w[1] % Cardinality(Node) = p /\ w[1] <= last[p]
                            /\ w[1] <= meta[p][k].ts \/ \E d \in call[p] : d.key = k
      BY <1>6, <2>1, <2>12, ZenonT(30) DEF KeyOK, Origin
    <3>2. CASE p = n
      BY <1>3, <1>6, <2>3, <3>1, <3>2, ZenonT(30) DEF Origin
    <3>3. CASE p # n
      <4>1. meta'[p][k] = meta[p][k] /\ call'[p] = call[p]
        BY <1>6, <1>7, <3>3, ZenonT(30)
      <4> QED
        BY <1>6, <3>1, <4>1, ZenonT(30) DEF Origin
    <3> QED
      BY <3>2, <3>3, ZenonT(30)
  <2>13. \A w, x \in written'[k] : w[1] = x[1] => w[2] = x[2]
    BY <1>6, <2>1, ZenonT(30) DEF KeyOK
  <2> QED
    BY <2>6, <2>7, <2>8, <2>9, <2>10, <2>11, <2>12, <2>13, ZenonT(30) DEF KeyOK
<1> QED
  BY <1>8, <1>9, <1>10, <1>11, ZenonT(30) DEF IInv

-----------------------------------------------------------------------------
\* Answers

\* A handler that begins: it is the only one of its peer.
LEMMA HandlerBegins ==
  ASSUME Traffic, NEW n \in Node, NEW r \in Handling, r.peer # n, Free(n, r.peer),
         DOMAIN busy' = Node,
         \A p \in Node : busy'[p] = busy[p] \/ (p = n /\ busy'[p] = busy[p] \cup {r}),
         call' = call, last' = last, net' \subseteq net
  PROVE  Traffic'
<1>1. ASSUME NEW p \in Node PROVE CallOK(p)'
  BY ZenonT(30) DEF Traffic, CallOK
<1>2. ASSUME NEW p \in Node PROVE BusyOK(p)'
  <2>1. BusyOK(p)
    BY ZenonT(30) DEF Traffic
  <2>2. busy'[p] = busy[p] \/ (p = n /\ busy'[p] = busy[p] \cup {r})
    BY ZenonT(30)
  <2> QED
    BY <2>1, <2>2, ZenonT(30) DEF BusyOK, Free
<1>3. DOMAIN busy' = Node /\ DOMAIN call' = Node /\ \A m \in net' : MessageOK(m)
  BY ZenonT(30) DEF Traffic
<1> QED
  BY <1>1, <1>2, <1>3, ZenonT(30) DEF Traffic

\* on_get_val: the stamp read is the one the store shows, and vouches for the value
\* unless a local call is behind it.
LEMMA GetValKeeps ==
  ASSUME IInv, NEW m \in net, Free(m.to, m.from), on_get_val(m)
  PROVE  IInv'
<1>1. MessageOK(m) /\ m.key \in Key /\ Stores /\ Traffic
  BY InTransit, ZenonT(30) DEF MessageOK, on_get_val, IInv
<1>2. PICK n \in Node : n = m.to
  BY <1>1, ZenonT(30) DEF MessageOK
<1>3. PICK k \in Key : k = m.key
  BY <1>1, ZenonT(30)
<1> DEFINE r == Handler("get", m.from, k, meta[n][k], val[n][k])
<1>4. /\ r.step = "get" /\ r.peer = m.from /\ r.key = k
      /\ r.meta = meta[n][k] /\ r.val = val[n][k]
  BY DEF Handler
<1>5. r \in Handling /\ r.peer # n
  <2>1. m.from \in Node /\ m.from # n /\ meta[n][k] \in Meta /\ val[n][k] \in Value
    BY <1>1, <1>2, ZenonT(30) DEF MessageOK, Stores
  <2> QED
    BY <2>1 DEF Handler, Handling
<1> HIDE DEF r
<1>6. /\ UNCHANGED <<val, meta, last, call, written, patched, writes, losses>>
      /\ net' \subseteq net /\ raced \subseteq raced' /\ raced' \subseteq Key
      /\ Behind(n, k) => k \in raced'
  BY <1>1, <1>2, <1>3, ZenonT(30) DEF on_get_val, Exchange, Wired, Race, Stores
<1>7. /\ DOMAIN busy' = Node
      /\ \A p \in Node : busy'[p] = busy[p] \/ (p = n /\ busy'[p] = busy[p] \cup {r})
  <2>1. busy' = [busy EXCEPT ![n] = IF Known(n, k) THEN busy[n] \cup {r} ELSE busy[n]]
    BY <1>2, <1>3, ZenonT(30) DEF on_get_val, r
  <2> QED
    BY <1>1, <2>1, ZenonT(30) DEF Traffic
<1>8. Stores'
  BY <1>1, <1>6, ZenonT(30) DEF Stores
<1>9. Traffic'
  <2>1. Free(n, r.peer) /\ call' = call /\ last' = last
    BY <1>2, <1>4, <1>6, ZenonT(30)
  <2> QED
    BY <1>1, <1>5, <1>6, <1>7, <2>1, HandlerBegins, ZenonT(30)
<1>10. ASSUME NEW j \in Clean' PROVE KeyOK(j)'
  <2>1. KeyOK(j) /\ j \in Key /\ j \notin raced'
    BY <1>6, <1>10, ZenonT(30) DEF IInv, Clean
  <2>2. ASSUME j = k PROVE Asked(n, r)
    <3>1. ~Behind(n, k) /\ Stored(n, k)
      BY <1>6, <2>1, <2>2, ZenonT(30) DEF KeyOK
    <3>2. meta[n][k].ts \in Int
      BY <1>1, StampInt, ZenonT(30)
    <3>3. meta[n][k].ts <= meta[n][k].ts
      BY <3>2
    <3>4. ASSUME NEW c \in call[n], c.key = k PROVE meta[n][k].ts <= c.ts
      <4>1. c.ts \in Int
        BY <1>1, TrafficInt, ZenonT(30)
      <4>2. ~(c.ts < meta[n][k].ts)
        BY <3>1, <3>4, ZenonT(30) DEF Behind
      <4> QED
        BY <3>2, <4>1, <4>2
    <3> QED
      BY <1>4, <3>1, <3>3, <3>4, ZenonT(30) DEF Asked, Stored, StampHolds
  <2>3. ASSUME NEW p \in Node, NEW s \in busy'[p], s.key = j
        PROVE  s \in busy[p] \/ (s.step = "get" /\ Asked(p, s))
    BY <1>4, <1>7, <2>2, <2>3, ZenonT(30)
  <2>4. ASSUME NEW p \in Node PROVE Alone(p, j)'
    <3>1. Alone(p, j)
      BY <2>1, ZenonT(30) DEF KeyOK
    <3>2. \A s \in busy'[p] : s.step # "get" => s \in busy[p]
      BY <1>4, <1>7, ZenonT(30)
    <3> QED
      BY <3>1, <3>2, ZenonT(30) DEF Alone
  <2> QED
    BY <1>6, <2>1, <2>3, <2>4, SameKey, ZenonT(30)
<1> QED
  BY <1>8, <1>9, <1>10, ZenonT(30) DEF IInv

\* A handler that ends leaves the others as they are.
LEMMA HandlerEnds ==
  ASSUME Traffic, NEW n \in Node, NEW r, busy' = [busy EXCEPT ![n] = @ \ {r}]
  PROVE  /\ DOMAIN busy' = Node
         /\ \A p \in Node : busy'[p] \subseteq busy[p] /\ BusyOK(p)'
<1>1. DOMAIN busy' = Node /\ \A p \in Node : busy'[p] \subseteq busy[p]
  BY ZenonT(30) DEF Traffic
<1>2. ASSUME NEW p \in Node PROVE BusyOK(p)'
  BY <1>1, ZenonT(30) DEF Traffic, BusyOK
<1> QED
  BY <1>1, <1>2, ZenonT(30)

\* send_put_val: the value read now was written under the stamp read before or a later.
LEMMA SendPutValKeeps ==
  ASSUME IInv, NEW n \in Node, NEW r \in busy[n], send_put_val(n, r)
  PROVE  IInv'
<1>1. Stores /\ Traffic /\ r \in Handling /\ r.peer # n
  BY ZenonT(30) DEF IInv, Traffic, BusyOK
<1> DEFINE x == Served(n, r)
<1>2. /\ x.type = "PUT_VAL" /\ x.from = n /\ x.to = r.peer /\ x.key = r.key
      /\ x.meta = r.meta /\ x.val = val[n][r.key]
  BY ZenonT(30) DEF Served, PutVal
<1> HIDE DEF x
<1>3. r.peer \in Node /\ r.key \in Key /\ r.meta \in Meta /\ val[n][r.key] \in Value
  <2>1. r.peer \in Node /\ r.key \in Key /\ r.meta \in Meta
    BY <1>1 DEF Handling
  <2> QED
    BY <1>1, <2>1, ZenonT(30) DEF Stores
<1>4. /\ UNCHANGED <<val, meta, last, call, written, patched, raced, writes, losses>>
      /\ r.step = "get" /\ busy' = [busy EXCEPT ![n] = @ \ {r}]
      /\ net' \subseteq net \cup {x} /\ (x \in net' => (x \in net \/ Lane(x) \in Lanes))
  BY ZenonT(30) DEF send_put_val, Wired, x
<1>5. Stores'
  BY <1>1, <1>4, ZenonT(30) DEF Stores
<1>6. DOMAIN busy' = Node /\ \A p \in Node : busy'[p] \subseteq busy[p] /\ BusyOK(p)'
  BY <1>1, <1>4, HandlerEnds, ZenonT(30)
<1>7. Traffic'
  <2>1. \A p \in Node : CallOK(p)'
    BY <1>1, <1>4, ZenonT(30) DEF Traffic, CallOK
  <2>2. Lane(x) \in Lanes => MessageOK(x)
    BY <1>1, <1>2, <1>3, ZenonT(30) DEF MessageOK
  <2>3. \A y \in net' : MessageOK(y)
    BY <1>4, <2>2, InTransit, ZenonT(30)
  <2> QED
    BY <1>1, <1>4, <1>6, <2>1, <2>3, ZenonT(30) DEF Traffic
<1>8. ASSUME NEW k \in Clean' PROVE KeyOK(k)'
  <2>1. KeyOK(k) /\ k \in Key
    BY <1>4, <1>8, ZenonT(30) DEF IInv, Clean
  <2>2. ASSUME r.key = k PROVE Offered(x)
    <3>1. Asked(n, r)
      BY <1>4, <2>1, <2>2, ZenonT(30) DEF KeyOK
    <3> QED
      BY <1>2, <3>1, ZenonT(30) DEF Asked, Offered, Repaired
  <2>3. \A y \in net' : (y.type = "PUT_VAL" /\ y.key = k) => (y \in net \/ Offered(y))
    BY <1>2, <1>4, <2>2, ZenonT(30)
  <2>4. \A p \in Node : Alone(p, k)'
    BY <1>6, <2>1, ZenonT(30) DEF KeyOK, Alone
  <2>5. \A p \in Node : \A s \in busy'[p] : s \in busy[p]
    BY <1>6, ZenonT(30)
  <2> QED
    BY <1>4, <2>1, <2>3, <2>4, <2>5, SameKey, ZenonT(30)
<1> QED
  BY <1>5, <1>7, <1>8, ZenonT(30) DEF IInv

-----------------------------------------------------------------------------
\* Repairs

\* on_put_val: the stamp passes the test, and no other write of the key is in
\* progress.
LEMMA PutValKeeps ==
  ASSUME IInv, NEW m \in net, Free(m.to, m.from), on_put_val(m)
  PROVE  IInv'
<1>1. /\ MessageOK(m) /\ m.key \in Key /\ m.meta \in Meta /\ m.val \in Value
      /\ m.type = "PUT_VAL" /\ Stores /\ Traffic
  BY InTransit, ZenonT(30) DEF MessageOK, on_put_val, IInv
<1>2. PICK n \in Node : n = m.to
  BY <1>1, ZenonT(30) DEF MessageOK
<1>3. PICK k \in Key : k = m.key
  BY <1>1, ZenonT(30)
<1> DEFINE r == Handler("put", m.from, k, m.meta, m.val)
           newer == m.meta.ts > meta[n][k].ts
<1>4. r.step = "put" /\ r.peer = m.from /\ r.key = k /\ r.meta = m.meta /\ r.val = m.val
  BY DEF Handler
<1>5. r \in Handling /\ r.peer # n
  <2>1. m.from \in Node /\ m.from # n
    BY <1>1, <1>2, ZenonT(30) DEF MessageOK
  <2> QED
    BY <1>1, <2>1 DEF Handler, Handling
<1> HIDE DEF r
<1>6. /\ UNCHANGED <<val, meta, last, call, written, patched, writes, losses>>
      /\ net' \subseteq net /\ raced \subseteq raced' /\ raced' \subseteq Key
      /\ (newer /\ Writing(n, k)) => k \in raced'
  BY <1>1, <1>2, <1>3, ZenonT(30) DEF on_put_val, Newer, Exchange, Wired, Race, Stores
<1>7. /\ DOMAIN busy' = Node
      /\ \A p \in Node :
           busy'[p] = busy[p] \/ (newer /\ p = n /\ busy'[p] = busy[p] \cup {r})
  <2>1. busy' = [busy EXCEPT ![n] = IF newer THEN busy[n] \cup {r} ELSE busy[n]]
    BY <1>2, <1>3, ZenonT(30) DEF on_put_val, Newer, r
  <2> QED
    BY <1>1, <2>1, ZenonT(30) DEF Traffic
<1>8. Stores'
  BY <1>1, <1>6, ZenonT(30) DEF Stores
<1>9. Traffic'
  <2>1. Free(n, r.peer) /\ call' = call /\ last' = last
    BY <1>2, <1>4, <1>6, ZenonT(30)
  <2>2. \A p \in Node : busy'[p] = busy[p] \/ (p = n /\ busy'[p] = busy[p] \cup {r})
    BY <1>7, ZenonT(30)
  <2>3. net' \subseteq net /\ DOMAIN busy' = Node
    BY <1>6, <1>7, ZenonT(30)
  <2> QED
    BY <1>1, <1>5, <2>1, <2>2, <2>3, HandlerBegins, ZenonT(30)
<1>10. ASSUME NEW j \in Clean' PROVE KeyOK(j)'
  <2>1. KeyOK(j) /\ j \in Key /\ j \notin raced'
    BY <1>6, <1>10, ZenonT(30) DEF IInv, Clean
  <2>2. ASSUME j = k, newer PROVE Taken(n, r) /\ \A s \in busy[n] : s.key = k => s.step = "get"
    <3>1. ~Writing(n, k) /\ Offered(m)
      BY <1>1, <1>3, <1>6, <2>1, <2>2, ZenonT(30) DEF KeyOK
    <3>2. meta[n][k].ts < m.meta.ts /\ m.meta.ts > 0
      <4>1. meta[n][k] \in Meta
        BY <1>1, ZenonT(30) DEF Stores
      <4>2. meta[n][k].ts >= 0 /\ meta[n][k].ts \in Int /\ m.meta.ts \in Int
        BY <1>1, <4>1, SyncAssumption DEF Meta
      <4> QED
        BY <2>2, <4>2
    <3>3. "put" # "half"
      OBVIOUS
    <3>4. Backed(k, r.meta.ts, Repaired(r))
      BY <1>3, <1>4, <3>1, <3>2, ZenonT(30) DEF Offered, Repaired
    <3> QED
      BY <1>4, <3>1, <3>2, <3>3, <3>4, ZenonT(30) DEF Taken, Writing
  <2>3. ASSUME NEW p \in Node, NEW s \in busy'[p], s.key = j
        PROVE  s \in busy[p] \/ (s.step # "get" /\ Taken(p, s))
    <3>1. "put" # "get"
      OBVIOUS
    <3> QED
      BY <1>4, <1>7, <2>2, <2>3, <3>1, ZenonT(30)
  <2>4. ASSUME NEW p \in Node PROVE Alone(p, j)'
    <3>1. Alone(p, j)
      BY <2>1, ZenonT(30) DEF KeyOK
    <3>2. CASE busy'[p] = busy[p]
      BY <3>1, <3>2, ZenonT(30) DEF Alone
    <3>3. CASE newer /\ p = n /\ busy'[p] = busy[p] \cup {r}
      BY <1>4, <2>2, <3>1, <3>3, ZenonT(30) DEF Alone
    <3> QED
      BY <1>7, <3>2, <3>3, ZenonT(30)
  <2> QED
    BY <1>6, <2>1, <2>3, <2>4, SameKey, ZenonT(30)
<1> QED
  BY <1>8, <1>9, <1>10, ZenonT(30) DEF IInv

\* apply_value: the value goes in under a stamp that is lower than its own.
LEMMA ApplyValueKeeps ==
  ASSUME IInv, NEW n \in Node, NEW r \in busy[n], apply_value(n, r)
  PROVE  IInv'
<1>1. Stores /\ Traffic /\ r \in Handling /\ r.peer # n /\ r.step = "put"
  BY ZenonT(30) DEF IInv, Traffic, BusyOK, apply_value
<1>2. /\ r.key \in Key /\ r.meta \in Meta /\ r.val \in Value /\ r.peer \in Node
      /\ r.meta.tomb \in BOOLEAN
  BY <1>1 DEF Handling, Meta
<1>3. PICK k \in Key : k = r.key
  BY <1>2, ZenonT(30)
<1>4. PICK v \in Value : v = Repaired(r)
  BY <1>2, ZenonT(30) DEF Repaired, Value
<1> DEFINE h == [r EXCEPT !.step = "half"]
<1>5. /\ h \in Handling /\ h.step = "half" /\ h.peer = r.peer /\ h.key = r.key
      /\ h.meta = r.meta /\ h.val = r.val
  BY <1>1 DEF Handling
<1> HIDE DEF h
<1>6. /\ UNCHANGED <<meta, last, call, net, written, patched, raced, writes, losses>>
      /\ val' = [val EXCEPT ![n][k] = v]
      /\ busy' = [busy EXCEPT ![n] = (busy[n] \ {r}) \cup {h}]
  BY <1>3, <1>4, ZenonT(30) DEF apply_value, h
<1>7. /\ val' \in [Node -> [Key -> Value]] /\ val'[n][k] = v
      /\ \A p \in Node, j \in Key : (p # n \/ j # k) => val'[p][j] = val[p][j]
  BY <1>1, <1>6, ZenonT(30) DEF Stores
<1>8. /\ DOMAIN busy' = Node /\ busy'[n] = (busy[n] \ {r}) \cup {h}
      /\ \A p \in Node \ {n} : busy'[p] = busy[p]
  BY <1>1, <1>6, ZenonT(30) DEF Traffic
<1>9. Stores'
  BY <1>1, <1>6, <1>7, ZenonT(30) DEF Stores
<1>10. Traffic'
  <2>1. ASSUME NEW p \in Node PROVE CallOK(p)'
    BY <1>1, <1>6, ZenonT(30) DEF Traffic, CallOK
  <2>2. ASSUME NEW p \in Node PROVE BusyOK(p)'
    <3>1. BusyOK(p)
      BY <1>1, ZenonT(30) DEF Traffic
    <3>2. CASE p = n
      <4>1. h \in Handling /\ h.peer = r.peer /\ h.peer # n
        BY <1>1, <1>5, ZenonT(30)
      <4>2. \A s \in busy[n] : s \in Handling /\ s.peer # n /\ (s.peer = r.peer => s = r)
        BY <3>1, <3>2, ZenonT(30) DEF BusyOK
      <4>3. \A s \in busy'[n] : s \in Handling /\ s.peer # n /\ (s.peer = r.peer => s = h)
        BY <1>8, <4>1, <4>2, ZenonT(30)
      <4>4. \A s \in busy'[n] : s \in busy[n] \/ s = h
        BY <1>8, ZenonT(30)
      <4>5. ASSUME NEW s \in busy'[n], NEW q \in busy'[n], s.peer = q.peer PROVE s = q
        BY <3>1, <3>2, <4>1, <4>3, <4>4, <4>5, ZenonT(30) DEF BusyOK
      <4> QED
        BY <3>2, <4>3, <4>5, ZenonT(30) DEF BusyOK
    <3>3. CASE p # n
      BY <1>8, <3>1, <3>3, ZenonT(30) DEF BusyOK
    <3> QED
      BY <3>2, <3>3, ZenonT(30)
  <2> QED
    BY <1>1, <1>6, <1>8, <2>1, <2>2, ZenonT(30) DEF Traffic
<1>11. ASSUME NEW j \in Clean', j # k PROVE KeyOK(j)'
  <2>1. KeyOK(j) /\ j \in Key
    BY <1>6, <1>11, ZenonT(30) DEF IInv, Clean
  <2>2. ASSUME NEW p \in Node, NEW s \in busy'[p], s.key = j PROVE s \in busy[p]
    BY <1>3, <1>5, <1>8, <1>11, <2>2, ZenonT(30)
  <2>3. ASSUME NEW p \in Node PROVE Alone(p, j)'
    BY <2>1, <2>2, ZenonT(30) DEF KeyOK, Alone
  <2>4. \A p \in Node : val'[p][j] = val[p][j] /\ meta'[p][j] = meta[p][j]
    BY <1>6, <1>7, <1>11, <2>1, ZenonT(30)
  <2> QED
    BY <1>6, <2>1, <2>2, <2>3, <2>4, SameKey, ZenonT(30)
<1>12. ASSUME k \in Clean' PROVE KeyOK(k)'
  <2>1. KeyOK(k)
    BY <1>6, <1>12, ZenonT(30) DEF IInv, Clean
  <2>2. "put" # "get" /\ "half" # "get"
    OBVIOUS
  <2>3. Taken(n, r) /\ r.meta.ts \in Int /\ meta[n][k].ts \in Int
    BY <1>1, <1>3, <2>1, <2>2, StampInt, TrafficInt, ZenonT(30) DEF KeyOK
  <2>4. /\ meta[n][k].ts < r.meta.ts /\ Backed(k, r.meta.ts, v)
        /\ \A c \in call[n] : c.key # k
    BY <1>3, <1>4, <2>3, ZenonT(30) DEF Taken
  <2>5. ASSUME NEW ts \in Int, ts <= meta[n][k].ts PROVE Backed(k, ts, v)
    <3>1. ts <= r.meta.ts
      BY <2>3, <2>4, <2>5
    <3> QED
      BY <1>1, <2>3, <2>4, <3>1, BackedLower, ZenonT(30)
  <2>6. \A ts, u : Backed(k, ts, u)' <=> Backed(k, ts, u)
    BY <1>6, ZenonT(30) DEF Backed
  <2>7. \A p \in Node : Behind(p, k)' <=> Behind(p, k)
    BY <1>6, ZenonT(30) DEF Behind
  <2>8. ASSUME NEW p \in Node PROVE Stored(p, k)'
    <3>1. Stored(p, k)
      BY <2>1, ZenonT(30) DEF KeyOK
    <3>2. StampHolds(p, k)'
      <4>1. CASE p = n
        <5>1. meta[n][k].ts <= meta[n][k].ts
          BY <2>3
        <5>2. Backed(k, meta[n][k].ts, v)
          BY <2>3, <2>5, <5>1, ZenonT(30)
        <5> QED
          BY <1>6, <1>7, <2>6, <4>1, <5>2, ZenonT(30) DEF StampHolds
      <4>2. CASE p # n
        BY <1>6, <1>7, <2>6, <2>7, <3>1, <4>2, ZenonT(30) DEF Stored, StampHolds
      <4> QED
        BY <4>1, <4>2, ZenonT(30)
    <3> QED
      BY <1>6, <2>6, <3>1, <3>2, ZenonT(30) DEF Stored
  <2>9. ASSUME NEW p \in Node, NEW c \in call'[p], c.key = k PROVE Called(p, c)'
    <3>1. Called(p, c)
      BY <1>6, <2>1, <2>9, ZenonT(30) DEF KeyOK
    <3>2. val'[p][k] = val[p][k]
      BY <1>6, <1>7, <2>4, <2>9, ZenonT(30)
    <3> QED
      BY <1>6, <2>9, <3>1, <3>2, ZenonT(30) DEF Called
  <2>10. ASSUME NEW p \in Node, NEW s \in busy'[p], s.key = k, s.step = "get" PROVE Asked(p, s)'
    <3>1. s \in busy[p]
      BY <1>5, <1>8, <2>2, <2>10, ZenonT(30)
    <3>2. Asked(p, s) /\ s.meta.ts \in Int
      BY <1>1, <2>1, <2>10, <3>1, TrafficInt, ZenonT(30) DEF KeyOK
    <3>3. s.meta.ts > 0 => Backed(k, s.meta.ts, val[p][k])'
      <4>1. CASE p = n
        BY <1>7, <2>5, <2>6, <2>10, <3>2, <4>1, ZenonT(30) DEF Asked
      <4>2. CASE p # n
        BY <1>7, <2>6, <2>10, <3>2, <4>2, ZenonT(30) DEF Asked
      <4> QED
        BY <4>1, <4>2, ZenonT(30)
    <3> QED
      BY <1>6, <2>6, <2>10, <3>2, <3>3, ZenonT(30) DEF Asked
  <2>11. ASSUME NEW s \in busy'[n], s.key = k, s.step # "get" PROVE s = h
    <3>1. Alone(n, k)
      BY <2>1, ZenonT(30) DEF KeyOK
    <3> QED
      BY <1>1, <1>3, <1>8, <2>2, <2>11, <3>1, ZenonT(30) DEF Alone
  <2>12. ASSUME NEW p \in Node, NEW s \in busy'[p], s.key = k, s.step # "get" PROVE Taken(p, s)'
    <3>1. CASE p = n
      <4>1. s = h
        BY <2>11, <2>12, <3>1, ZenonT(30)
      <4>2. Repaired(s) = v /\ s.meta = r.meta
        BY <1>4, <1>5, <4>1, ZenonT(30) DEF Repaired
      <4> QED
        BY <1>6, <1>7, <2>4, <2>6, <2>12, <3>1, <4>2, ZenonT(30) DEF Taken
    <3>2. CASE p # n
      <4>1. Taken(p, s)
        BY <1>8, <2>1, <2>12, <3>2, ZenonT(30) DEF KeyOK
      <4> QED
        BY <1>6, <1>7, <2>6, <2>12, <3>2, <4>1, ZenonT(30) DEF Taken
    <3> QED
      BY <3>1, <3>2, ZenonT(30)
  <2>13. ASSUME NEW p \in Node PROVE Alone(p, k)'
    <3>1. CASE p = n
      BY <2>11, <3>1, ZenonT(30) DEF Alone
    <3>2. CASE p # n
      BY <1>8, <2>1, <3>2, ZenonT(30) DEF KeyOK, Alone
    <3> QED
      BY <3>1, <3>2, ZenonT(30)
  <2>14. ASSUME NEW m \in net', m.type = "PUT_VAL", m.key = k PROVE Offered(m)'
    BY <1>6, <2>1, <2>6, <2>14, ZenonT(30) DEF KeyOK, Offered
  <2>15. ASSUME NEW w \in written'[k] PROVE Origin(k, w)'
    BY <1>6, <2>1, <2>15, ZenonT(30) DEF KeyOK, Origin
  <2>16. \A w, x \in written'[k] : w[1] = x[1] => w[2] = x[2]
    BY <1>6, <2>1, ZenonT(30) DEF KeyOK
  <2> QED
    BY <2>8, <2>9, <2>10, <2>12, <2>13, <2>14, <2>15, <2>16, ZenonT(30) DEF KeyOK
<1> QED
  BY <1>9, <1>10, <1>11, <1>12, ZenonT(30) DEF IInv

\* What a repair of a clean key found when it passed the test still holds.
LEMMA RepairHolds ==
  ASSUME IInv, NEW n \in Node, NEW r \in busy[n], r.key \in Clean, r.step = "half"
  PROVE  /\ r.meta.ts \in Int /\ meta[n][r.key].ts \in Int /\ meta[n][r.key].ts < r.meta.ts
         /\ Taken(n, r)
<1>1. Stores /\ Traffic /\ r.key \in Key /\ KeyOK(r.key)
  BY ZenonT(30) DEF IInv, Clean
<1>2. r.step # "get"
  OBVIOUS
<1>3. Taken(n, r)
  BY <1>1, <1>2, ZenonT(30) DEF KeyOK
<1> QED
  BY <1>1, <1>3, StampInt, TrafficInt, ZenonT(30) DEF Taken

\* apply_meta: the stamp follows the value.
LEMMA ApplyMetaKeeps ==
  ASSUME IInv, NEW n \in Node, NEW r \in busy[n], apply_meta(n, r)
  PROVE  IInv'
<1>1. Stores /\ Traffic /\ r \in Handling /\ r.step = "half"
  BY ZenonT(30) DEF IInv, Traffic, BusyOK, apply_meta
<1>2. r.key \in Key /\ r.meta \in Meta
  BY <1>1 DEF Handling
<1>3. PICK k \in Key : k = r.key
  BY <1>2, ZenonT(30)
<1>4. /\ RepairMeta(r) \in Meta /\ RepairMeta(r).ts = r.meta.ts
      /\ RepairMeta(r).tomb = r.meta.tomb
  BY <1>2, SyncAssumption DEF RepairMeta, Meta
<1>5. /\ UNCHANGED <<val, last, call, net, written, patched, raced, writes, losses>>
      /\ meta' = [meta EXCEPT ![n][k] = RepairMeta(r)]
      /\ busy' = [busy EXCEPT ![n] = @ \ {r}]
  BY <1>3, ZenonT(30) DEF apply_meta
<1>6. /\ meta' \in [Node -> [Key -> Meta]] /\ meta'[n][k] = RepairMeta(r)
      /\ \A p \in Node, j \in Key : (p # n \/ j # k) => meta'[p][j] = meta[p][j]
  BY <1>1, <1>4, <1>5, ZenonT(30) DEF Stores
<1>7. Stores'
  BY <1>1, <1>5, <1>6, ZenonT(30) DEF Stores
<1>8. DOMAIN busy' = Node /\ \A p \in Node : busy'[p] \subseteq busy[p] /\ BusyOK(p)'
  BY <1>1, <1>5, HandlerEnds, ZenonT(30)
<1>9. r \notin busy'[n]
  BY <1>1, <1>5, ZenonT(30) DEF Traffic
<1>10. Traffic'
  <2>1. \A p \in Node : CallOK(p)'
    BY <1>1, <1>5, ZenonT(30) DEF Traffic, CallOK
  <2> QED
    BY <1>1, <1>5, <1>8, <2>1, ZenonT(30) DEF Traffic
<1>11. ASSUME NEW j \in Clean' PROVE KeyOK(j) /\ j \in Key /\ \A p \in Node : Alone(p, j)'
  <2>1. KeyOK(j) /\ j \in Key
    BY <1>5, <1>11, ZenonT(30) DEF IInv, Clean
  <2> QED
    BY <1>8, <2>1, ZenonT(30) DEF KeyOK, Alone
<1>12. ASSUME NEW j \in Clean', j # k PROVE KeyOK(j)'
  <2>1. KeyOK(j) /\ j \in Key /\ \A p \in Node : Alone(p, j)'
    BY <1>11, <1>12, ZenonT(30)
  <2>2. \A p \in Node : \A s \in busy'[p] : s \in busy[p]
    BY <1>8, ZenonT(30)
  <2>3. \A p \in Node : val'[p][j] = val[p][j] /\ meta'[p][j] = meta[p][j]
    BY <1>5, <1>6, <1>12, <2>1, ZenonT(30)
  <2> QED
    BY <1>5, <2>1, <2>2, <2>3, SameKey, ZenonT(30)
<1>13. ASSUME k \in Clean' PROVE KeyOK(k)'
  <2>1. KeyOK(k) /\ (\A p \in Node : Alone(p, k)') /\ k \in Clean
    BY <1>5, <1>11, <1>13, ZenonT(30) DEF Clean
  <2>2. /\ r.meta.ts \in Int /\ meta[n][k].ts \in Int /\ meta[n][k].ts < r.meta.ts
        /\ Taken(n, r)
    BY <1>1, <1>3, <2>1, RepairHolds, ZenonT(30)
  <2>3. /\ Backed(k, r.meta.ts, val[n][k]) /\ \A c \in call[n] : c.key # k
        /\ r.meta.tomb => Backed(k, r.meta.ts, "empty")
    BY <1>1, <1>3, <2>2, ZenonT(30) DEF Taken, Repaired
  <2>4. \A ts, u : Backed(k, ts, u)' <=> Backed(k, ts, u)
    BY <1>5, ZenonT(30) DEF Backed
  <2>5. ASSUME NEW ts \in Int, ts <= meta[n][k].ts PROVE ts <= meta'[n][k].ts
    BY <1>4, <1>6, <2>2, <2>5
  <2>6. ASSUME NEW p \in Node PROVE Stored(p, k)'
    <3>1. CASE p = n
      BY <1>4, <1>5, <1>6, <2>3, <2>4, <3>1, ZenonT(30) DEF Stored, StampHolds
    <3>2. CASE p # n
      <4>1. Stored(p, k) /\ meta'[p][k] = meta[p][k]
        BY <1>6, <2>1, <3>2, ZenonT(30) DEF KeyOK
      <4>2. Behind(p, k)' <=> Behind(p, k)
        BY <1>5, <4>1, ZenonT(30) DEF Behind
      <4> QED
        BY <1>5, <2>4, <4>1, <4>2, ZenonT(30) DEF Stored, StampHolds
    <3> QED
      BY <3>1, <3>2, ZenonT(30)
  <2>7. ASSUME NEW p \in Node, NEW c \in call'[p], c.key = k PROVE Called(p, c)'
    BY <1>5, <2>1, <2>7, ZenonT(30) DEF KeyOK, Called
  <2>8. ASSUME NEW p \in Node, NEW s \in busy'[p], s.key = k, s.step = "get" PROVE Asked(p, s)'
    <3>1. s \in busy[p] /\ Asked(p, s) /\ s.meta.ts \in Int
      BY <1>1, <1>8, <2>1, <2>8, TrafficInt, ZenonT(30) DEF KeyOK
    <3>2. s.meta.ts > 0 => s.meta.ts <= meta'[p][k].ts
      <4>1. CASE p = n
        BY <2>5, <2>8, <3>1, <4>1, ZenonT(30) DEF Asked
      <4>2. CASE p # n
        BY <1>6, <2>8, <3>1, <4>2, ZenonT(30) DEF Asked
      <4> QED
        BY <4>1, <4>2, ZenonT(30)
    <3> QED
      BY <1>5, <2>4, <2>8, <3>1, <3>2, ZenonT(30) DEF Asked
  <2>9. ASSUME NEW p \in Node, NEW s \in busy'[p], s.key = k, s.step # "get" PROVE Taken(p, s)'
    <3>1. s \in busy[p] /\ Taken(p, s)
      BY <1>8, <2>1, <2>9, ZenonT(30) DEF KeyOK
    <3>2. r.step # "get"
      BY <1>1
    <3>3. p # n
      <4> SUFFICES ASSUME p = n PROVE FALSE
        BY ZenonT(30)
      <4>1. Alone(n, k)
        BY <2>1, ZenonT(30) DEF KeyOK
      <4>2. s = r
        BY <1>3, <2>9, <3>1, <3>2, <4>1, ZenonT(30) DEF Alone
      <4> QED
        BY <1>9, <2>9, <4>2, ZenonT(30)
    <3> QED
      BY <1>5, <1>6, <2>4, <2>9, <3>1, <3>3, ZenonT(30) DEF Taken
  <2>10. ASSUME NEW m \in net', m.type = "PUT_VAL", m.key = k PROVE Offered(m)'
    BY <1>5, <2>1, <2>4, <2>10, ZenonT(30) DEF KeyOK, Offered
  <2>11. ASSUME NEW w \in written'[k] PROVE Origin(k, w)'
    <3>1. PICK p \in Node : /\ w[1] % Cardinality(Node) = p /\ w[1] <= last[p]
                            /\ w[1] <= meta[p][k].ts \/ \E c \in call[p] : c.key = k
      BY <1>5, <2>1, <2>11, ZenonT(30) DEF KeyOK, Origin
    <3>2. w[1] \in Int
      BY <1>1, <1>5, <2>11, StampInt, ZenonT(30)
    <3>3. w[1] <= meta[p][k].ts => w[1] <= meta'[p][k].ts
      <4>1. CASE p = n
        BY <2>5, <3>2, <4>1, ZenonT(30)
      <4>2. CASE p # n
        BY <1>6, <4>2, ZenonT(30)
      <4> QED
        BY <4>1, <4>2, ZenonT(30)
    <3> QED
      BY <1>5, <3>1, <3>3, ZenonT(30) DEF Origin
  <2>12. \A w, x \in written'[k] : w[1] = x[1] => w[2] = x[2]
    BY <1>5, <2>1, ZenonT(30) DEF KeyOK
  <2> QED
    BY <2>1, <2>6, <2>7, <2>8, <2>9, <2>10, <2>11, <2>12, ZenonT(30) DEF KeyOK
<1> QED
  BY <1>7, <1>10, <1>12, <1>13, ZenonT(30) DEF IInv

-----------------------------------------------------------------------------
\* The invariant

\* Before the first write there is nothing to keep.
LEMMA InitInvariant == Init => IInv
<1> SUFFICES ASSUME Init PROVE IInv
  BY ZenonT(30)
<1>1. NoMeta \in Meta /\ NoMeta.ts = 0 /\ ~(NoMeta.ts > 0) /\ "none" \in Value
  BY SyncAssumption DEF NoMeta, Meta, Value
<1>2. Stores
  BY <1>1, SyncAssumption DEF Init, Stores
<1>3. Traffic
  BY ZenonT(30) DEF Init, Traffic, CallOK, BusyOK
<1>4. ASSUME NEW k \in Clean PROVE KeyOK(k)
  <2>1. k \in Key
    BY <1>4, ZenonT(30) DEF Clean
  <2>2. \A n \in Node : meta[n][k] = NoMeta /\ call[n] = {} /\ busy[n] = {}
    BY <2>1, ZenonT(30) DEF Init
  <2>3. net = {} /\ written[k] = {}
    BY <2>1, ZenonT(30) DEF Init
  <2>4. \A n \in Node : Stored(n, k) /\ Alone(n, k)
    BY <1>1, <2>2, ZenonT(30) DEF Stored, StampHolds, Alone
  <2> QED
    BY <2>2, <2>3, <2>4, ZenonT(30) DEF KeyOK
<1> QED
  BY <1>2, <1>3, <1>4, ZenonT(30) DEF IInv

\* Every step of a node or of the mesh keeps the invariant.
LEMMA NextInvariant == IInv /\ [Next]_vars => IInv'
<1> SUFFICES ASSUME IInv, [Next]_vars PROVE IInv'
  BY ZenonT(30)
<1>1. ASSUME NEW n \in Node, Local(n) PROVE IInv'
  BY <1>1, LocalKeeps, ZenonT(30)
<1>2. ASSUME NEW n \in Node, Finish(n) PROVE IInv'
  BY <1>2, FinishKeeps, ZenonT(30)
<1>3. ASSUME NEW n \in Node, NEW r \in busy[n], Resume(n, r) PROVE IInv'
  BY <1>3, SendPutValKeeps, ApplyValueKeeps, ApplyMetaKeeps, ZenonT(30) DEF Resume
<1>4. ASSUME NEW n \in Node, NEW p \in Node, trigger_gossip(n, p) PROVE IInv'
  BY <1>4, GossipKeeps, ZenonT(30)
<1>5. ASSUME NEW m \in net, handle_message(m) PROVE IInv'
  BY <1>5, SyncInitKeeps, ReqNodeKeeps, RepNodeKeeps, ReqBucketKeeps, RepBucketKeeps,
     GetValKeeps, PutValKeeps, ZenonT(30) DEF handle_message
<1>6. ASSUME NEW m \in net, Lose(m) PROVE IInv'
  BY <1>6, LoseKeeps, ZenonT(30)
<1>7. CASE UNCHANGED vars
  <2>1. losses' \in 0 .. MaxLosses /\ \A x \in net' : x \in net
    BY <1>7, ZenonT(30) DEF vars, IInv, Stores
  <2> QED
    BY <2>1, <1>7, QuietStep, ZenonT(30) DEF vars
<1> QED
  BY <1>1, <1>2, <1>3, <1>4, <1>5, <1>6, <1>7, ZenonT(30) DEF Next

\* The invariant of the protocol: stores, messages, calls and handlers in progress keep
\* their types, and of a clean key none of them has an old value under a newer stamp.
THEOREM SyncInvariant == Spec => []IInv
BY InitInvariant, NextInvariant, PTL DEF Spec

\* A node is at one local call, and at one message of a peer, at a time.
LEMMA InvariantTypes == IInv => TypeOK
<1> SUFFICES ASSUME IInv PROVE TypeOK
  BY ZenonT(30)
<1>1. ASSUME NEW n \in Node PROVE Cardinality(call[n]) <= 1
  <2>1. CASE call[n] = {}
    BY <2>1, FS_EmptySet
  <2>2. ASSUME NEW c \in Call, call[n] = {c} PROVE Cardinality(call[n]) <= 1
    BY <2>2, FS_Singleton
  <2> QED
    BY <2>1, <2>2, ZenonT(30) DEF IInv, Traffic, CallOK
<1>2. \A n \in Node : \A r, s \in busy[n] : r.peer = s.peer => r = s
  BY ZenonT(30) DEF IInv, Traffic, BusyOK
<1>3. \A m \in net : Lane(m) \in Lanes /\ m.from # m.to
  BY ZenonT(30) DEF IInv, Traffic, MessageOK
<1> QED
  BY <1>1, <1>2, <1>3, ZenonT(30) DEF IInv, Stores, TypeOK, Value, Meta

\* The node that made the highest stamp still has it or is about to insert it, and
\* whoever has it got its value: the values of a store are backed by a write, and no
\* stamp is made twice.
LEMMA InvariantLatest == IInv => LatestKept
<1> SUFFICES ASSUME IInv, NEW k \in Clean, NEW w \in written[k],
                    \A x \in written[k] : x[1] <= w[1]
             PROVE  /\ \E n \in Node : \/ meta[n][k].ts = w[1]
                                       \/ \E c \in call[n] : c.key = k /\ c.ts = w[1]
                    /\ \A n \in Node : meta[n][k].ts = w[1] /\ ~Behind(n, k) => val[n][k] = w[2]
  BY ZenonT(30) DEF LatestKept
<1>1. KeyOK(k) /\ k \in Key /\ Stores /\ Traffic
  BY ZenonT(30) DEF IInv, Clean
<1>2. PICK n \in Node : /\ w[1] % Cardinality(Node) = n /\ w[1] <= last[n]
                        /\ w[1] <= meta[n][k].ts \/ \E c \in call[n] : c.key = k
  BY <1>1, ZenonT(30) DEF KeyOK, Origin
<1>3. w[1] \in Int /\ w[1] > 0 /\ \A x \in written[k] : x[1] \in Int
  BY <1>1, <1>2, StampInt, ZenonT(30)
<1>4. \A p \in Node : meta[p][k].ts \in Int
  BY <1>1, StampInt, ZenonT(30)
<1>5. ASSUME NEW p \in Node, meta[p][k].ts >= w[1], ~Behind(p, k)
      PROVE  meta[p][k].ts = w[1] /\ val[p][k] = w[2]
  <2>1. meta[p][k].ts > 0
    BY <1>3, <1>4, <1>5
  <2>2. PICK x \in written[k] : x[1] >= meta[p][k].ts /\ x[2] = val[p][k]
    BY <1>1, <1>5, <2>1, ZenonT(30) DEF KeyOK, Stored, StampHolds, Backed
  <2>3. x[1] = w[1] /\ meta[p][k].ts = w[1]
    BY <1>3, <1>4, <1>5, <2>2
  <2> QED
    BY <1>1, <2>2, <2>3, ZenonT(30) DEF KeyOK
<1>6. ASSUME NEW c \in call[n], c.key = k PROVE c.ts = w[1]
  <2>1. c.ts \in Int /\ c.ts = last[n]
    BY <1>1, TrafficInt, ZenonT(30)
  <2>2. <<c.ts, val[n][k]>> \in written[k]
    BY <1>1, <1>6, ZenonT(30) DEF KeyOK, Called
  <2>3. <<c.ts, val[n][k]>>[1] <= w[1]
    BY <2>2, ZenonT(30)
  <2> QED
    BY <1>2, <1>3, <2>1, <2>3
<1>7. (\E c \in call[n] : c.key = k) \/ meta[n][k].ts = w[1]
  <2>1. ASSUME ~\E c \in call[n] : c.key = k PROVE meta[n][k].ts = w[1]
    <3>1. meta[n][k].ts >= w[1]
      BY <1>2, <1>3, <1>4, <2>1
    <3> QED
      BY <1>5, <2>1, <3>1, ZenonT(30) DEF Behind
  <2> QED
    BY <2>1, ZenonT(30)
<1>8. ASSUME NEW p \in Node, meta[p][k].ts = w[1] PROVE meta[p][k].ts >= w[1]
  BY <1>3, <1>8
<1> QED
  BY <1>5, <1>6, <1>7, <1>8, ZenonT(30)

\* Stores, calls, handlers and messages keep their types; a node is at one local call
\* and at one message of a peer at a time.
THEOREM SyncTypeCorrect == Spec => []TypeOK
BY InvariantTypes, SyncInvariant, PTL

\* Of a clean key, a store never has an older value under a newer stamp, in the middle
\* of calls, answers and repairs too, though each of them reads or inserts the two
\* separately (put, del, on_get_val, apply_mutation), whatever the number of nodes.
THEOREM SyncNotOlder == Spec => []NotOlderThanStamp
<1>1. IInv => NotOlderThanStamp
  BY ZenonT(30) DEF IInv, KeyOK, Stored, NotOlderThanStamp, Clean
<1> QED
  BY <1>1, SyncInvariant, PTL

\* The last write of a clean key is never lost: some node keeps its stamp or is at the
\* call that inserts it, and every node under its stamp has its value.
THEOREM SyncLatestKept == Spec => []LatestKept
BY InvariantLatest, SyncInvariant, PTL

\* A step other than of a node's own calls leaves its meta alone or raises its stamp.
LEMMA StampsAdvance ==
  ASSUME IInv, [Next]_vars, NEW n \in Node, NEW k \in Clean', call'[n] = call[n]
  PROVE  meta'[n][k].ts >= meta[n][k].ts
<1>1. meta[n][k].ts \in Int /\ k \in Key /\ Stores /\ Traffic
  <2>1. k \in Key /\ Stores /\ Traffic
    BY ZenonT(30) DEF IInv, Clean
  <2> QED
    BY <2>1, StampInt, ZenonT(30)
<1>2. CASE meta'[n][k] = meta[n][k]
  BY <1>1, <1>2
<1>3. ASSUME NEW p \in Node, Finish(p) PROVE meta'[n][k] = meta[n][k]
  <2>1. PICK c \in call[p] : meta' = [meta EXCEPT ![p][c.key] = CallMeta(p, c)]
    BY <1>3, ZenonT(30) DEF Finish
  <2>2. call'[p] = {}
    BY <1>1, <1>3, ZenonT(30) DEF Finish, Traffic
  <2>3. n # p
    BY <2>1, <2>2, ZenonT(30)
  <2> QED
    BY <1>1, <2>1, <2>3, ZenonT(30) DEF Stores
<1>4. ASSUME NEW p \in Node, NEW r \in busy[p], apply_meta(p, r)
      PROVE  meta'[n][k].ts >= meta[n][k].ts
  <2>1. /\ meta' = [meta EXCEPT ![p][r.key] = RepairMeta(r)]
        /\ r.step = "half" /\ k \in Clean
    BY <1>4, ZenonT(30) DEF apply_meta, Clean
  <2>2. CASE n = p /\ k = r.key
    <3>1. meta'[n][k] = RepairMeta(r)
      BY <1>1, <2>1, <2>2, ZenonT(30) DEF Stores
    <3>2. RepairMeta(r).ts = r.meta.ts
      BY DEF RepairMeta
    <3>3. r.meta.ts \in Int /\ meta[n][k].ts < r.meta.ts
      BY <2>1, <2>2, RepairHolds, ZenonT(30)
    <3> QED
      BY <1>1, <3>1, <3>2, <3>3
  <2>3. CASE n # p \/ k # r.key
    <3>1. meta'[n][k] = meta[n][k]
      BY <1>1, <2>1, <2>3, ZenonT(30) DEF Stores
    <3> QED
      BY <1>2, <3>1, ZenonT(30)
  <2> QED
    BY <2>2, <2>3, ZenonT(30)
<1>5. ASSUME NEW p \in Node, Local(p) PROVE UNCHANGED meta
  <2>1. \E j \in Key, t \in 1 .. MaxStamp : \E v, op : Begin(p, j, v, t, op)
    BY <1>5, ZenonT(30) DEF Local, put, del, patch
  <2> QED
    BY <2>1, ZenonT(30) DEF Begin
<1>6. ASSUME NEW m \in net, handle_message(m) PROVE UNCHANGED meta
  BY <1>6, ZenonT(30) DEF handle_message, on_sync_init, on_req_node, on_rep_node, on_req_bucket,
     on_rep_bucket, on_get_val, on_put_val
<1>7. ASSUME NEW p \in Node, NEW r \in busy[p], Resume(p, r), ~apply_meta(p, r)
      PROVE  UNCHANGED meta
  BY <1>7, ZenonT(30) DEF Resume, send_put_val, apply_value
<1> QED
  BY <1>2, <1>3, <1>4, <1>5, <1>6, <1>7, ZenonT(30) DEF Next, vars, trigger_gossip, Lose

\* Of a clean key, anti-entropy never puts an older stamp in place of a newer one,
\* although apply_mutation does not look at the stamp again after its test.
THEOREM SyncStampsAdvance == Spec => SyncAdvances
<1>1. IInv /\ [Next]_vars =>
        [\A n \in Node, k \in Clean' :
           call'[n] = call[n] => meta'[n][k].ts >= meta[n][k].ts]_vars
  BY StampsAdvance, ZenonT(30)
<1> QED
  BY <1>1, SyncInvariant, PTL DEF Spec, SyncAdvances
=============================================================================
