------------------------------- MODULE Server -------------------------------
(***************************************************************************)
(* The service that clients talk to: the loop of ZmqServer::run            *)
(* (src/zmq/zmq_server.cpp), the users and access rules of                 *)
(* CredentialManager, which writes of system keys change                   *)
(* (src/engine/credential_manager.hpp, apply_put in src/engine/store.hpp), *)
(* and the calls of the engine that the loop makes, run by the threads of  *)
(* the shards.  put and del wait for their shard, batch_put does not.      *)
(*                                                                         *)
(* Only well-formed requests are sent.  A key is a document or the system  *)
(* key of a user or of a rule; metadata, clocks and the file of the log    *)
(* are in Engine.tla and WAL.tla.  A user is its public key, which is the  *)
(* value of its system key.  Permissions are sets of "READ", "WRITE" and   *)
(* "ADMIN".  Two prefixes have different lengths: std::sort leaves the     *)
(* order of equal ones open, which matters only for "*" and a prefix of    *)
(* one character.                                                          *)
(*                                                                         *)
(* The meta of a system key, whose name begins as the key's, runs the same *)
(* hook of apply_put: that of a rule sets a further rule for the prefix    *)
(* "{prefix}:meta", which gives nothing.  That rule is left out, so what   *)
(* is said of rules is said of keys that begin with no such prefix.        *)
(***************************************************************************)
EXTENDS Integers, Sequences, FiniteSets

CONSTANTS
  Client,      \* ROUTER identities
  Trusted,     \* ADMIN_UID and INTERNAL_UID
  Anonymous,   \* the uid of a session without AUTH, which is ADMIN_UID
  Key,
  UserKey,     \* the uid of each sys:u:{uid} key
  RuleKey,     \* the uid and the prefix of each sys:acl:{uid}:{prefix} key
  PermOf,      \* the permissions that a value names
  PublicKey,   \* the values that are a user's public key
  Length,      \* of each prefix
  Matches,     \* per prefix: the keys that begin with it; all, for "*"
  KeyShard,    \* get_routing_shard of each key
  EmptyShard,  \* and of the empty string
  Requests,    \* per client: the requests that it sends
  None, Gone,  \* of a key never written, and of a deleted one
  Junk,        \* what is read from freed memory
  MaxRequests, \* bound
  MaxRestarts  \* bound

\* What may be written to a key: a document, or Gone by del.
Value == DOMAIN PermOf \cup {Gone}

\* The uid and the prefix of a rule make its key.  put and del are of one key.
ASSUME ServerAssumption ==
  /\ Anonymous \in Trusted /\ None \notin Client
  /\ DOMAIN UserKey \cup DOMAIN RuleKey \subseteq Key
  /\ DOMAIN UserKey \cap DOMAIN RuleKey = {}
  /\ \A k \in DOMAIN RuleKey : RuleKey[k].prefix \in DOMAIN Length
  /\ \A k, l \in DOMAIN RuleKey :
       RuleKey[k].uid = RuleKey[l].uid /\ RuleKey[k].prefix = RuleKey[l].prefix => k = l
  /\ Length \in [DOMAIN Length -> Nat]
  /\ \A p, q \in DOMAIN Length : Length[p] = Length[q] => p = q
  /\ Junk \in DOMAIN PermOf \ Key
  /\ \A v \in DOMAIN PermOf : PermOf[v] # None
  /\ \A c \in Client : \A r \in Requests[c] :
       /\ r.op \in {"A", "G", "P", "D", "M", "B"}
       /\ r.op # "A" => r.keys \in Seq(Key) \ {<<>>}
       /\ r.op \in {"P", "B"} => r.values \in Seq(DOMAIN PermOf) /\ Len(r.values) = Len(r.keys)
       /\ r.op = "D" => r.values = <<Gone>>
       /\ r.op \in {"P", "D"} => Len(r.keys) = 1
  /\ MaxRequests \in Nat /\ MaxRestarts \in Nat

VARIABLES
  secret,    \* 1 if server_secret_ is not empty
  inbox,     \* per client: the request the server has not taken, or None
  session,   \* session_identities_
  job,       \* the request the server thread is at, see NoJob
  log,       \* the records of the log, each the writes that were to be in it
  queue,     \* per shard: the writes it has to apply
  mem,       \* what is in memory, see Empty
  last,      \* history: per key, the last write that was handed to a shard
  set,       \* history: per rule key, the permissions last given to set_acl
  crossed,   \* history: keys last put while another shard had a batch's write of them
  batched,   \* history: 1 once a batch was logged
  asked, restarts

mVars == <<queue, mem, set>>
hVars == <<last, crossed, batched>>
vars == <<secret, inbox, session, job, log, mVars, hVars, asked, restarts>>

Shards == {EmptyShard} \cup {KeyShard[k] : k \in Key}
Uids == {UserKey[k] : k \in DOMAIN UserKey} \cup {RuleKey[k].uid : k \in DOMAIN RuleKey}

\* The documents, users_, key_to_uid_ and user_acls_.
Empty == [store |-> [k \in Key |-> None], users |-> [u \in Uids |-> None],
          owner |-> [p \in PublicKey |-> None], acls |-> [u \in Uids |-> <<>>]]

\* pc: "idle", "check", "view", "commit" or "wait"; keys: those still to check.
NoJob == [pc |-> "idle", client |-> None, uid |-> None, request |-> None, keys |-> <<>>]
NoWrite == [value |-> None, batch |-> 0]

Init ==
  /\ secret \in {0, 1}
  /\ inbox = [c \in Client |-> None]
  /\ session = [c \in Client |-> None]
  /\ job = NoJob
  /\ log = <<>>
  /\ queue = [s \in Shards |-> <<>>]
  /\ mem = Empty
  /\ last = [k \in Key |-> NoWrite]
  /\ set = [k \in DOMAIN RuleKey |-> None]
  /\ crossed = {} /\ batched = 0
  /\ asked = 0 /\ restarts = 0

-----------------------------------------------------------------------------
\* CredentialManager

\* The first registration of a uid stays; of two users with one public key, the
\* key belongs to the later.
register_user(m, uid, p) ==
  IF m.users[uid] = None THEN [m EXCEPT !.users[uid] = p, !.owner[p] = uid] ELSE m

\* Mutant of set_acl: the rules are not sorted.
set_aclUnsorted(m, uid, prefix, perm) ==
  [m EXCEPT !.acls[uid] =
     Append(SelectSeq(@, LAMBDA r : r.prefix # prefix), [prefix |-> prefix, perm |-> perm])]

\* std::sort of the rules in R, longest prefix first.
Sorted(R) ==
  LET n == Cardinality(R)
  IN  CHOOSE s \in [1 .. n -> R] :
        /\ R = {s[i] : i \in 1 .. n}
        /\ \A i, j \in 1 .. n : i < j => Length[s[i].prefix] > Length[s[j].prefix]

\* The rule for the prefix is replaced; rules are kept sorted.
set_acl(m, uid, prefix, perm) ==
  LET rules == {m.acls[uid][i] : i \in DOMAIN m.acls[uid]}
  IN  [m EXCEPT !.acls[uid] = Sorted({r \in rules : r.prefix # prefix}
                                       \cup {[prefix |-> prefix, perm |-> perm]})]

\* The first rule that matches decides.
check_permission(uid, k) ==
  IF uid \in Trusted THEN {"ADMIN"}
  ELSE IF uid \notin Uids THEN {}
  ELSE LET rules == mem.acls[uid]
           hits == {i \in DOMAIN rules : k \in Matches[rules[i].prefix]}
       IN  IF hits = {} THEN {} ELSE rules[CHOOSE i \in hits : \A j \in hits : i <= j].perm

-----------------------------------------------------------------------------
\* The shards

\* apply_put with its hooks for system keys.
apply_put(m, k, v) ==
  LET n == [m EXCEPT !.store[k] = v]
  IN  CASE k \in DOMAIN UserKey /\ v \in PublicKey -> register_user(n, UserKey[k], v)
        [] k \in DOMAIN RuleKey -> set_acl(n, RuleKey[k].uid, RuleKey[k].prefix, PermOf[v])
        [] OTHER -> n

\* apply_del leaves an empty document, and user and rule as they are.
apply_del(m, k) == [m EXCEPT !.store[k] = Gone]

\* One write; that of a view of freed memory may be of a key that is not ours.
Apply(m, w) ==
  IF w.key = Junk THEN m
  ELSE IF w.value = Gone THEN apply_del(m, w.key) ELSE apply_put(m, w.key, w.value)

\* The history of the rules after a write.
Given(st, w) ==
  [k \in DOMAIN RuleKey |-> IF w.key = k /\ w.value # Gone THEN PermOf[w.value] ELSE st[k]]

\* Mutant of RunTask: the promise of a del is not kept.
RunTaskPutsOnly(s) ==
  LET w == Head(queue[s])
  IN  /\ queue[s] # <<>>
      /\ queue' = [queue EXCEPT ![s] = Tail(@)]
      /\ mem' = Apply(mem, w)
      /\ set' = Given(set, w)
      /\ job' = IF w.batch = 1 \/ w.value = Gone THEN job ELSE NoJob
      /\ UNCHANGED <<secret, inbox, session, log, hVars, asked, restarts>>

\* The thread of a shard applies its oldest write; the server, if it waits for it,
\* replies OK and goes on.  A batch's task is its writes one after the other.
RunTask(s) ==
  LET w == Head(queue[s])
  IN  /\ queue[s] # <<>>
      /\ queue' = [queue EXCEPT ![s] = Tail(@)]
      /\ mem' = Apply(mem, w)
      /\ set' = Given(set, w)
      /\ job' = IF w.batch = 1 THEN job ELSE NoJob
      /\ UNCHANGED <<secret, inbox, session, log, hVars, asked, restarts>>

-----------------------------------------------------------------------------
\* ZmqServer::run

\* A client sends a request after the reply to its last.
Ask(c, r) ==
  /\ inbox[c] = None /\ job.client # c /\ asked < MaxRequests
  /\ inbox' = [inbox EXCEPT ![c] = r]
  /\ asked' = asked + 1
  /\ UNCHANGED <<secret, session, job, log, mVars, hVars, restarts>>

\* recv_multipart: the server takes a request of c.
Receive(c) ==
  /\ job.pc = "idle" /\ inbox[c] # None
  /\ inbox' = [inbox EXCEPT ![c] = None]
  /\ UNCHANGED <<secret, log, mVars, hVars, asked, restarts>>

\* With a secret and no session only AUTH is served: ERR_UNAUTH.
Unauthenticated(c) == session[c] = None /\ inbox[c].op # "A" /\ secret = 1
Reject(c) ==
  /\ Receive(c) /\ Unauthenticated(c)
  /\ UNCHANGED <<session, job>>

\* AUTH: OK, and its uid is the session's, if the secret is right or there is none;
\* else ERR_AUTH.
Auth(c) ==
  /\ Receive(c) /\ inbox[c].op = "A"
  /\ session' = IF secret = 0 \/ inbox[c].right = 1
                THEN [session EXCEPT ![c] = inbox[c].uid] ELSE session
  /\ UNCHANGED job

\* Any other request: without a secret a session is anonymous.  A trusted session
\* speaks for the uid that the request names.
Serve(c) ==
  LET r == inbox[c]
      uid == IF session[c] = None THEN Anonymous ELSE session[c]
  IN  /\ Receive(c) /\ r.op # "A" /\ ~ Unauthenticated(c)
      /\ session' = [session EXCEPT ![c] = uid]
      /\ job' = [pc |-> "check", client |-> c, request |-> r, keys |-> r.keys,
                 uid |-> IF uid \in Trusted THEN r.uid ELSE uid]

\* get and batch_get look at key after key: one that may not be read is left out.
MayRead(k) == check_permission(job.uid, k) \cap {"READ", "ADMIN"} # {}
\* Mutant of NextKey: a single key that may not be read is looked at again.
NextKeyAgain ==
  IF job.pc = "check" /\ Len(job.keys) = 1 THEN job
  ELSE IF Len(job.keys) = 1 THEN NoJob ELSE [job EXCEPT !.pc = "check", !.keys = Tail(@)]

NextKey == IF Len(job.keys) = 1 THEN NoJob ELSE [job EXCEPT !.pc = "check", !.keys = Tail(@)]

CheckRead ==
  /\ job.pc = "check" /\ job.request.op \in {"G", "M"}
  /\ job' = IF MayRead(Head(job.keys)) THEN [job EXCEPT !.pc = "view"] ELSE NextKey
  /\ UNCHANGED <<secret, inbox, session, log, mVars, hVars, asked, restarts>>

\* get_view, and the reply after the last key.
View ==
  /\ job.pc = "view"
  /\ job' = NextKey
  /\ UNCHANGED <<secret, inbox, session, log, mVars, hVars, asked, restarts>>

\* put, del and batch_put: ERR_FORBIDDEN at the first key that may not be written.
MayWrite(k) == check_permission(job.uid, k) \cap {"WRITE", "ADMIN"} # {}
CheckWrite ==
  /\ job.pc = "check" /\ job.request.op \in {"P", "D", "B"}
  /\ job' = IF ~ MayWrite(Head(job.keys)) THEN NoJob
            ELSE IF Len(job.keys) = 1 THEN [job EXCEPT !.pc = "commit", !.keys = <<>>]
            ELSE [job EXCEPT !.keys = Tail(@)]
  /\ UNCHANGED <<secret, inbox, session, log, mVars, hVars, asked, restarts>>

\* The writes of a request.
Writes(r) ==
  [i \in DOMAIN r.keys |-> [key |-> r.keys[i], value |-> r.values[i],
                            batch |-> IF r.op = "B" THEN 1 ELSE 0]]

\* The queues after each of ws was handed to the shard of its key.
Spread(ws) ==
  LET after[i \in 0 .. Len(ws)] ==
        IF i = 0 THEN queue
        ELSE [after[i - 1] EXCEPT ![KeyShard[ws[i].key]] = Append(@, ws[i])]
  IN  after[Len(ws)]

Handed(ws) ==
  last' = [k \in Key |-> LET i == {j \in DOMAIN ws : ws[j].key = k}
                         IN  IF i = {} THEN last[k]
                             ELSE [value |-> ws[CHOOSE j \in i : TRUE].value,
                                   batch |-> ws[1].batch]]

\* A write of k waits at another shard than s, where k is now written.
Crossed(k, s) ==
  IF \E t \in Shards \ {s} : \E i \in DOMAIN queue[t] : queue[t][i].key = k
  THEN crossed \cup {k} ELSE crossed \ {k}

\* Mutant of Commit: put is handed over as a batch is, without waiting.
CommitAsync ==
  LET ws == Writes(job.request)
      s == IF job.request.op = "P" THEN EmptyShard ELSE KeyShard[ws[1].key]
  IN  /\ job.pc = "commit" /\ job.request.op # "B"
      /\ log' = Append(log, ws)
      /\ queue' = [queue EXCEPT ![s] = Append(@, [ws[1] EXCEPT !.batch = 1])]
      /\ Handed(ws)
      /\ crossed' = Crossed(ws[1].key, s)
      /\ job' = NoJob
      /\ UNCHANGED <<secret, inbox, session, mem, set, batched, asked, restarts>>

\* Mutant of Commit: del is not logged.
CommitUnlogged ==
  LET ws == Writes(job.request)
      s == IF job.request.op = "P" THEN EmptyShard ELSE KeyShard[ws[1].key]
  IN  /\ job.pc = "commit" /\ job.request.op # "B"
      /\ log' = IF job.request.op = "P" THEN Append(log, ws) ELSE log
      /\ queue' = [queue EXCEPT ![s] = Append(@, ws[1])]
      /\ Handed(ws)
      /\ crossed' = Crossed(ws[1].key, s)
      /\ job' = [job EXCEPT !.pc = "wait"]
      /\ UNCHANGED <<secret, inbox, session, mem, set, batched, asked, restarts>>

\* put and del: logged, handed to a shard, and waited for.  put has moved the key
\* away when it picks the shard.
Commit ==
  LET ws == Writes(job.request)
      s == IF job.request.op = "P" THEN EmptyShard ELSE KeyShard[ws[1].key]
  IN  /\ job.pc = "commit" /\ job.request.op # "B"
      /\ log' = Append(log, ws)
      /\ queue' = [queue EXCEPT ![s] = Append(@, ws[1])]
      /\ Handed(ws)
      /\ crossed' = Crossed(ws[1].key, s)
      /\ job' = [job EXCEPT !.pc = "wait"]
      /\ UNCHANGED <<secret, inbox, session, mem, set, batched, asked, restarts>>

\* batch_put: logged, handed to the shard of each key, and not waited for.
CommitBatch ==
  LET ws == Writes(job.request)
  IN  /\ job.pc = "commit" /\ job.request.op = "B"
      /\ log' = Append(log, ws)
      /\ queue' = Spread(ws)
      /\ Handed(ws)
      /\ batched' = 1
      /\ job' = NoJob
      /\ UNCHANGED <<secret, inbox, session, mem, set, crossed, asked, restarts>>

\* What append_batch may have written for batch_put, whose BatchOps view strings
\* that are gone: each the string, the one that took its place, or junk.
Views(w, final) ==
  {[w EXCEPT !.key = Junk, !.value = Junk]} \cup
  {[w EXCEPT !.key = x, !.value = v] :
     x \in {w.key, final.key}, v \in {w.value, final.value, Junk}}
Dangling(ws) ==
  {ds \in [DOMAIN ws -> UNION {Views(ws[i], ws[Len(ws)]) : i \in DOMAIN ws}] :
     \A i \in DOMAIN ws : ds[i] \in Views(ws[i], ws[Len(ws)])}

\* What the file may hold of the first n records.
Files(n) ==
  LET batches == {i \in 1 .. n : log[i][1].batch = 1}
      written == {g \in [batches -> UNION {Dangling(log[i]) : i \in batches}] :
                    \A i \in batches : g[i] \in Dangling(log[i])}
  IN  {[i \in 1 .. n |-> IF i \in batches THEN g[i] ELSE log[i]] : g \in written}

\* recover applies the writes of a record, and the records in order: what is then in
\* memory, and the history of the rules.
Fresh == [mem |-> Empty, set |-> [k \in DOMAIN RuleKey |-> None]]
Redo(n, ws) ==
  LET after[i \in 0 .. Len(ws)] ==
        IF i = 0 THEN n
        ELSE [mem |-> Apply(after[i - 1].mem, ws[i]), set |-> Given(after[i - 1].set, ws[i])]
  IN  after[Len(ws)]
Recovered(records) ==
  LET after[i \in 0 .. Len(records)] ==
        IF i = 0 THEN Fresh ELSE Redo(after[i - 1], records[i])
  IN  after[Len(records)]
Replay(records) == Recovered(records).mem

\* The process dies, which may cost the log its end, and starts again: the engine
\* replays what is in the log (which no later restart finds otherwise), sessions and
\* requests are gone.
Restart ==
  /\ restarts < MaxRestarts
  /\ restarts' = restarts + 1
  /\ \E n \in 0 .. Len(log) : \E f \in Files(n) :
       log' = [i \in 1 .. n |-> [j \in DOMAIN f[i] |-> [f[i][j] EXCEPT !.batch = 0]]]
  /\ mem' = Replay(log')
  /\ set' = Recovered(log').set
  /\ queue' = [s \in Shards |-> <<>>]
  /\ inbox' = [c \in Client |-> None]
  /\ session' = [c \in Client |-> None]
  /\ job' = NoJob
  /\ last' = [k \in Key |-> NoWrite]
  /\ crossed' = {}
  /\ UNCHANGED <<secret, batched, asked>>

\* Every request was answered and every write applied.
AtRest == job = NoJob /\ \A s \in Shards : queue[s] = <<>>
Quiet ==
  /\ asked = MaxRequests /\ AtRest /\ \A c \in Client : inbox[c] = None
  /\ UNCHANGED vars

Work == CheckRead \/ View \/ CheckWrite \/ Commit \/ CommitBatch
Take(c) == Reject(c) \/ Auth(c) \/ Serve(c)

Next ==
  \/ \E c \in Client : Take(c) \/ \E r \in Requests[c] : Ask(c, r)
  \/ \E s \in Shards : RunTask(s)
  \/ Work \/ Restart \/ Quiet

Spec == Init /\ [][Next]_vars

\* The socket takes from its peers in turn; the threads run.
Fairness ==
  /\ \A c \in Client : SF_vars(Take(c))
  /\ WF_vars(Work)
  /\ \A s \in Shards : WF_vars(RunTask(s))
FairSpec == Spec /\ Fairness

-----------------------------------------------------------------------------
\* Properties

\* Requests, the job at hand and the counters keep their types, and the server waits
\* exactly while a put or del of its own is queued.
TypeOK ==
  /\ secret \in {0, 1} /\ batched \in {0, 1}
  /\ \A c \in Client : inbox[c] \in Requests[c] \cup {None}
  /\ job.pc \in {"idle", "check", "view", "commit", "wait"}
  /\ job.pc = "idle" <=> job.client = None
  /\ job.pc = "wait" <=> \E s \in Shards : \E i \in DOMAIN queue[s] : queue[s][i].batch = 0
  /\ crossed \subseteq Key
  /\ asked \in 0 .. MaxRequests /\ restarts \in 0 .. MaxRestarts

\* "Sort by prefix length descending for longest-prefix match": whatever order the
\* shards set rules in, check_permission says what was last set for the longest
\* prefix of the key that has a rule.
LongestMatch ==
  \A u \in Uids \ Trusted, k \in Key :
    LET rules == {r \in DOMAIN RuleKey : /\ RuleKey[r].uid = u /\ set[r] # None
                                         /\ k \in Matches[RuleKey[r].prefix]}
        longest == CHOOSE r \in rules : \A q \in rules :
                     Length[RuleKey[q].prefix] <= Length[RuleKey[r].prefix]
    IN  check_permission(u, k) = IF rules = {} THEN {} ELSE set[longest]

\* When the server has answered a put or del OK, the document is what that wrote,
\* and the rule in force what it put, until the next write of the key: unless a
\* batch's write of the key was waiting, which may be applied after it.
Seen(k) ==
  /\ mem.store[k] = last[k].value
  /\ k \in DOMAIN RuleKey /\ last[k].value # Gone =>
       \E i \in DOMAIN mem.acls[RuleKey[k].uid] :
         mem.acls[RuleKey[k].uid][i] = [prefix |-> RuleKey[k].prefix,
                                        perm |-> PermOf[last[k].value]]
AnsweredSeen ==
  job.pc # "wait" =>
    \A k \in Key \ crossed : last[k].batch = 0 /\ last[k].value # None => Seen(k)

\* The same without the proviso.
AnsweredSeenAlways ==
  job.pc # "wait" =>
    \A k \in Key : last[k].batch = 0 /\ last[k].value # None => Seen(k)

\* At rest, documents, users and rules are what a restart would rebuild, as long as
\* no batch was logged (MCEngineBatch.cfg shows what becomes of those).
Rebuilt == AtRest /\ batched = 0 => mem = Replay(log)

\* Every request is answered (or lost in a restart), and the server never waits for
\* a shard for good.
Answered ==
  /\ \A c \in Client : inbox[c] # None ~> inbox[c] = None
  /\ job # NoJob ~> job = NoJob
=============================================================================
