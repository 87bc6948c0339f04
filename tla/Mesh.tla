-------------------------------- MODULE Mesh --------------------------------
(***************************************************************************)
(* The connections between nodes (src/engine/mesh.cpp) and the order in    *)
(* which main brings a node up (src/main.cpp).  A node opens its acceptor, *)
(* starts the accept loop, then dials its configured peers once, in order; *)
(* a peer that does not answer is not dialled again.  A connection belongs *)
(* to the node that dialled it: its handlers run one after the other on a  *)
(* strand, and frames leave through an outbox whose head is being written. *)
(*                                                                         *)
(* The accept handler does nothing with the socket it is given, which      *)
(* closes it: nothing is received on an accepted connection, and of the    *)
(* reading code only the header read of the dialling side is ever started. *)
(* A frame is the number of its send on the connection.  A node may crash  *)
(* and be started again.  TCP is external: a write succeeds until the      *)
(* sender has learnt that the other end is closed.                         *)
(***************************************************************************)
EXTENDS Integers, Sequences, FiniteSets

CONSTANTS
  Node,
  Peers,       \* cfg.peers of each node
  MaxSends,    \* bound: sends of each node on a connection
  MaxCrashes   \* bound: crashes of all nodes

ASSUME MeshAssumption ==
  /\ Peers \in [Node -> Seq(Node)]
  /\ \A n \in Node : \A i \in DOMAIN Peers[n] : Peers[n][i] # n
  /\ MaxSends \in [Node -> Nat] /\ MaxCrashes \in Nat

VARIABLES
  phase,    \* per node: how far main is
  dialled,  \* per node: how many of its peers it has dialled
  accept,   \* per node: what the accept loop waits for
  backlog,  \* per node: the nodes whose connections it has not accepted
  conn,     \* per pair: the connection of the first to the second, or NoConn
  latency,  \* 1 if set_simulated_latency was called
  crashes

vars == <<phase, dialled, accept, backlog, conn, latency, crashes>>

NoConn == [open |-> "none", posted |-> <<>>, ident |-> "none", outbox |-> <<>>,
           inflight |-> <<>>, delayed |-> {}, wire |-> <<>>, sent |-> 0, broken |-> 0]

\* The handler that start posts, among those of the frames, numbered from 1.
Ident == 0

Init ==
  /\ phase = [n \in Node |-> "down"]
  /\ dialled = [n \in Node |-> 0]
  /\ accept = [n \in Node |-> "none"]
  /\ backlog = [n \in Node |-> {}]
  /\ conn = [n \in Node |-> [m \in Node |-> NoConn]]
  /\ latency \in {0, 1}
  /\ crashes = 0

-----------------------------------------------------------------------------
\* main

\* The constructor of Mesh opens the acceptor.
Build(n) ==
  /\ phase[n] = "down"
  /\ phase' = [phase EXCEPT ![n] = "built"]
  /\ UNCHANGED <<dialled, accept, backlog, conn, latency, crashes>>

\* Mutant of Listening: the acceptor is opened when the peers have been dialled.
ListeningLate(m) == phase[m] = "up"

\* The acceptor of m takes connections.
Listening(m) == phase[m] # "down"

\* listen, and the threads of the pool.
Listen(n) ==
  /\ phase[n] = "built"
  /\ phase' = [phase EXCEPT ![n] = "dial"]
  /\ accept' = [accept EXCEPT ![n] = "socket"]
  /\ UNCHANGED <<dialled, backlog, conn, latency, crashes>>

\* connect: a peer that listens is dialled, its connection started and recorded;
\* the exception for one that does not is caught.
Connect(n) ==
  LET m == Peers[n][dialled[n] + 1]
  IN  /\ phase[n] = "dial" /\ dialled[n] < Len(Peers[n])
      /\ dialled' = [dialled EXCEPT ![n] = @ + 1]
      /\ IF Listening(m)
         THEN /\ conn' = [conn EXCEPT ![n][m] =
                            [NoConn EXCEPT !.open = "open", !.posted = <<Ident>>]]
              /\ backlog' = [backlog EXCEPT ![m] = @ \cup {n}]
         ELSE UNCHANGED <<conn, backlog>>
      /\ UNCHANGED <<phase, accept, latency, crashes>>

\* The SyncManager and the ZeroMQ server are started.
Serve(n) ==
  /\ phase[n] = "dial" /\ dialled[n] = Len(Peers[n])
  /\ phase' = [phase EXCEPT ![n] = "up"]
  /\ UNCHANGED <<dialled, accept, backlog, conn, latency, crashes>>

\* The process ends: its sockets are closed, at both ends.
Crash(n) ==
  /\ Listening(n) /\ crashes < MaxCrashes
  /\ crashes' = crashes + 1
  /\ phase' = [phase EXCEPT ![n] = "down"]
  /\ dialled' = [dialled EXCEPT ![n] = 0]
  /\ accept' = [accept EXCEPT ![n] = "none"]
  /\ backlog' = [m \in Node |-> IF m = n THEN {} ELSE backlog[m] \ {n}]
  /\ conn' = [k \in Node |-> [m \in Node |->
                CASE k = n -> NoConn
                  [] k # n /\ m = n /\ conn[k][m].open = "open" ->
                       [conn[k][m] EXCEPT !.open = "closed"]
                  [] OTHER -> conn[k][m]]]
  /\ UNCHANGED latency

-----------------------------------------------------------------------------
\* do_accept

\* The handler is given a socket, drops it and accepts again.
Accept(n) ==
  /\ accept[n] = "socket"
  /\ \E m \in backlog[n] :
       /\ backlog' = [backlog EXCEPT ![n] = @ \ {m}]
       /\ conn' = [conn EXCEPT ![m][n].open = "closed"]
  /\ UNCHANGED <<phase, dialled, accept, latency, crashes>>

\* Mutant of AcceptError: the loop ends.
AcceptErrorEnds(n) ==
  /\ accept[n] = "socket"
  /\ accept' = [accept EXCEPT ![n] = "none"]
  /\ UNCHANGED <<phase, dialled, backlog, conn, latency, crashes>>

\* An error: the next accept waits for a timer.
AcceptError(n) ==
  /\ accept[n] = "socket"
  /\ accept' = [accept EXCEPT ![n] = "timer"]
  /\ UNCHANGED <<phase, dialled, backlog, conn, latency, crashes>>

AcceptTimer(n) ==
  /\ accept[n] = "timer"
  /\ accept' = [accept EXCEPT ![n] = "socket"]
  /\ UNCHANGED <<phase, dialled, backlog, conn, latency, crashes>>

-----------------------------------------------------------------------------
\* The connection of n to m

Only(n, m, c) ==
  /\ conn' = [conn EXCEPT ![n][m] = c]
  /\ UNCHANGED <<phase, dialled, accept, backlog, latency, crashes>>

\* Mesh::send returns true: the frame is posted to the strand, or a timer will.
\* To a peer that is not recorded it returns false and does nothing.
Send(n, m) ==
  LET c == conn[n][m]
      f == c.sent + 1
  IN  /\ phase[n] = "up" /\ c # NoConn /\ c.sent < MaxSends[n]
      /\ Only(n, m, IF latency = 1
                    THEN [c EXCEPT !.sent = f, !.delayed = @ \cup {f}]
                    ELSE [c EXCEPT !.sent = f, !.posted = Append(@, f)])

\* A timer of a delayed frame fires.
Delayed(n, m) ==
  \E f \in conn[n][m].delayed :
    Only(n, m, [conn[n][m] EXCEPT !.delayed = @ \ {f}, !.posted = Append(@, f)])

\* The strand runs do_send_id,
RunIdent(n, m) ==
  LET c == conn[n][m]
  IN  /\ c.posted # <<>> /\ Head(c.posted) = Ident
      /\ Only(n, m, [c EXCEPT !.posted = Tail(@), !.ident = "write"])

\* Mutant of RunSend: a write is started for every frame.
RunSendEach(n, m) ==
  LET c == conn[n][m]
      box == Append(c.outbox, Head(c.posted))
  IN  /\ c.posted # <<>> /\ Head(c.posted) # Ident
      /\ Only(n, m, [c EXCEPT !.posted = Tail(@), !.outbox = box,
                              !.inflight = Append(@, Head(box))])

\* or Connection::send: a frame that finds the outbox empty is written at once.
RunSend(n, m) ==
  LET c == conn[n][m]
      box == Append(c.outbox, Head(c.posted))
  IN  /\ c.posted # <<>> /\ Head(c.posted) # Ident
      /\ Only(n, m, [c EXCEPT !.posted = Tail(@), !.outbox = box,
                              !.inflight = IF c.outbox = <<>> THEN <<Head(box)>> ELSE @])

\* The id is written and the header read started.
IdentDone(n, m) ==
  LET c == conn[n][m]
  IN  /\ c.ident = "write" /\ c.open # "reset"
      /\ Only(n, m, [c EXCEPT !.ident = "read"])

\* Mutant of WriteDone: the rest of the outbox waits for the next send.
WriteDoneOnly(n, m) ==
  LET c == conn[n][m]
  IN  /\ c.inflight # <<>> /\ c.open # "reset"
      /\ Only(n, m, [c EXCEPT !.wire = Append(@, Head(c.inflight)), !.outbox = Tail(@),
                              !.inflight = Tail(@)])

\* do_write's handler: the frame leaves the outbox and the next one is written.
WriteDone(n, m) ==
  LET c == conn[n][m]
      box == Tail(c.outbox)
  IN  /\ c.inflight # <<>> /\ c.open # "reset"
      /\ Only(n, m, [c EXCEPT !.wire = Append(@, Head(c.inflight)), !.outbox = box,
                              !.inflight = Tail(@) \o (IF box = <<>> THEN <<>> ELSE <<Head(box)>>)])

\* TCP: n learns that the other end is closed.
Reset(n, m) ==
  /\ conn[n][m].open = "closed"
  /\ Only(n, m, [conn[n][m] EXCEPT !.open = "reset"])

\* Then what is outstanding fails, and the handlers do nothing.
Fails(n, m) ==
  LET c == conn[n][m]
  IN  /\ c.open = "reset"
      /\ \/ c.ident \in {"write", "read"} /\ Only(n, m, [c EXCEPT !.ident = "failed"])
         \/ c.inflight # <<>> /\ Only(n, m, [c EXCEPT !.inflight = Tail(@), !.broken = 1])

IoStep(n, m) ==
  \/ Delayed(n, m) \/ RunIdent(n, m) \/ RunSend(n, m)
  \/ IdentDone(n, m) \/ WriteDone(n, m) \/ Reset(n, m) \/ Fails(n, m)

Next ==
  \/ \E n \in Node : Build(n) \/ Listen(n) \/ Connect(n) \/ Serve(n) \/ Crash(n)
                     \/ Accept(n) \/ AcceptError(n) \/ AcceptTimer(n)
  \/ \E n, m \in Node : Send(n, m) \/ IoStep(n, m)

Spec == Init /\ [][Next]_vars

\* main goes on, the threads of the pool run the accept loop, an accept does not
\* fail for ever while a connection waits, and timers fire.
FairSpec ==
  /\ Spec
  /\ \A n \in Node : /\ WF_vars(Listen(n) \/ Connect(n) \/ Serve(n))
                     /\ SF_vars(Accept(n)) /\ WF_vars(AcceptTimer(n))

-----------------------------------------------------------------------------
\* Properties

Frame == Seq(Nat)
Conn == [open : {"none", "open", "closed", "reset"}, posted : Frame,
         ident : {"none", "write", "read", "failed"}, outbox : Frame, inflight : Frame,
         delayed : SUBSET Nat, wire : Frame, sent : Nat, broken : {0, 1}]

\* Phases, connections and frames keep their types.
TypeOK ==
  /\ phase \in [Node -> {"down", "built", "dial", "up"}]
  /\ dialled \in [Node -> Nat]
  /\ backlog \in [Node -> SUBSET Node]
  /\ conn \in [Node -> [Node -> Conn]]

\* The frames of a connection that were given to send, where they are now.  The
\* handler of start, if it has not run yet, is the first that was posted.
Waiting(p) == IF p # <<>> /\ Head(p) = Ident THEN Tail(p) ELSE p
Frames(c) == c.wire \o c.outbox \o Waiting(c.posted)

\* Each frame given to send is in one place, and without simulated latency they are
\* in the order of the sends: whatever threads run the handlers, frames are written
\* once and in order, or left in the outbox.
InOrder ==
  \A n, m \in Node :
    LET c == conn[n][m]
        all == Frames(c)
    IN  /\ {all[i] : i \in DOMAIN all} \cup c.delayed = 1 .. c.sent
        /\ Len(all) + Cardinality(c.delayed) = c.sent
        /\ latency = 0 => \A i \in DOMAIN all : all[i] = i

\* A frame in the outbox is being written, unless a write has failed: no wake-up
\* is lost between send, which leaves the frame to the write in progress, and the
\* end of that write.
NoStall ==
  \A n, m \in Node :
    conn[n][m].outbox # <<>> /\ conn[n][m].inflight = <<>> => conn[n][m].broken = 1

\* main's "will wait for them to connect to us": of two nodes that have dialled
\* each other at least one reached the other, however their starts, crashes and
\* restarts interleave, because a node opens its acceptor before it dials.
SomeoneReached ==
  \A n, m \in Node :
    /\ phase[n] = "up" /\ phase[m] = "up"
    /\ \E i \in DOMAIN Peers[n] : Peers[n][i] = m
    /\ \E i \in DOMAIN Peers[m] : Peers[m][i] = n
    => conn[n][m] # NoConn \/ conn[m][n] # NoConn

\* The accept loop goes on after every socket and every error: a waiting connection
\* is taken, if its node does not crash.
Accepts ==
  \A n, m \in Node : m \in backlog[n] ~> m \notin backlog[n]

-----------------------------------------------------------------------------
\* Disagreements

\* "Returns true if queued/sent, false if peer unknown or disconnected": send does
\* not return true on a connection on which a write has failed.
ReportsDisconnected ==
  [][\A n, m \in Node : conn'[n][m].sent > conn[n][m].sent => conn[n][m].broken = 0]_vars

\* "(will wait for them to connect to us)": a node that is up and was reached by a
\* peer gets to know it.
ReachedKnows ==
  \A n, m \in Node :
    (phase[n] = "up" /\ conn[m][n] # NoConn) ~> conn[n][m] # NoConn
=============================================================================
