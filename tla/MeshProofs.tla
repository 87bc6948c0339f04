----------------------------- MODULE MeshProofs -----------------------------
(***************************************************************************)
(* For every number of nodes, peers, sends and crashes: of two nodes that  *)
(* dialled each other one reached the other, no frame is stranded in an    *)
(* outbox that nobody writes, and frames are written once and in order.    *)
(***************************************************************************)
EXTENDS Mesh, FiniteSetTheorems, SequenceTheorems, TLAPS

\* What is being written is the head of the outbox, and if nothing is, the outbox is
\* empty or a write has failed.
Driven(c) ==
  /\ c.inflight # <<>> => c.outbox # <<>> /\ c.inflight = <<Head(c.outbox)>>
  /\ c.outbox # <<>> /\ c.inflight = <<>> => c.broken = 1

\* A node dials after it has opened its acceptor, and serves when it has dialled all.
Dialling ==
  \A n \in Node :
    /\ dialled[n] > 0 => phase[n] \in {"dial", "up"}
    /\ phase[n] = "up" => dialled[n] = Len(Peers[n])
    /\ dialled[n] <= Len(Peers[n])

Dialled(n, m) == \E i \in 1 .. dialled[n] : Peers[n][i] = m

\* Of two nodes that have dialled each other one reached the other.
Reached ==
  \A n, m \in Node :
    Dialled(n, m) /\ Dialled(m, n) => conn[n][m].open # "none" \/ conn[m][n].open # "none"

\* The inductive invariant.
IInv == TypeOK /\ Dialling /\ Reached /\ \A n, m \in Node : Driven(conn[n][m])

\* The connection a node has not made.
LEMMA NoConnOK == NoConn \in Conn /\ Driven(NoConn) /\ NoConn.open = "none"
BY DEF NoConn, Conn, Driven, Frame

\* The peers of a node are a sequence.
LEMMA PeersSeq ==
  ASSUME NEW n \in Node
  PROVE  /\ Peers[n] \in Seq(Node) /\ Len(Peers[n]) \in Nat
         /\ DOMAIN Peers[n] = 1 .. Len(Peers[n])
<1>1. Peers[n] \in Seq(Node)
  BY MeshAssumption, ZenonT(30)
<1> QED BY <1>1

\* What Append does to a sequence of frames.
LEMMA AppendFrame ==
  ASSUME NEW s \in Frame, NEW f \in Nat
  PROVE  /\ Append(s, f) \in Frame /\ Append(s, f) # <<>>
         /\ Head(Append(s, f)) = IF s = <<>> THEN f ELSE Head(s)
<1>1. Append(s, f) \in Seq(Nat) /\ Len(Append(s, f)) = Len(s) + 1 /\ Len(s) \in Nat
  BY DEF Frame
<1>2. Append(s, f) # <<>>
  BY <1>1
<1>3. Head(Append(s, f)) = Append(s, f)[1]
  BY <1>1
<1>4. CASE s = <<>>
  <2>1. Len(s) = 0 /\ Append(s, f)[Len(s) + 1] = f
    BY <1>4 DEF Frame
  <2> QED BY <2>1, <1>1, <1>2, <1>3, <1>4 DEF Frame
<1>5. CASE s # <<>>
  <2>1. Len(s) >= 1 /\ Append(s, f)[1] = s[1] /\ Head(s) = s[1]
    BY <1>5 DEF Frame
  <2> QED BY <2>1, <1>1, <1>2, <1>3, <1>5, ZenonT(30) DEF Frame
<1> QED BY <1>4, <1>5, ZenonT(30)

\* What Head and Tail are of a sequence of frames.
LEMMA TailFrame ==
  ASSUME NEW s \in Frame, s # <<>>
  PROVE  Head(s) \in Nat /\ Tail(s) \in Frame
BY DEF Frame

\* A sequence of one frame.
LEMMA OneFrame ==
  ASSUME NEW f \in Nat
  PROVE  /\ <<f>> \in Frame /\ <<f>> # <<>> /\ Head(<<f>>) = f /\ Tail(<<f>>) = <<>>
         /\ <<>> \in Frame /\ <<>> \o <<f>> = <<f>> /\ <<>> \o <<>> = <<>>
BY DEF Frame

\* The initial state satisfies the invariant.
LEMMA InitIInv == Init => IInv
<1> SUFFICES ASSUME Init PROVE IInv
  BY ZenonT(30)
<1>1. TypeOK
  BY NoConnOK, ZenonT(30) DEF Init, TypeOK
<1>2. Dialling
  BY MeshAssumption DEF Init, Dialling
<1>3. Reached
  BY DEF Init, Reached, Dialled
<1>4. \A n, m \in Node : Driven(conn[n][m])
  BY NoConnOK, ZenonT(30) DEF Init
<1> QED BY <1>1, <1>2, <1>3, <1>4, ZenonT(30) DEF IInv

\* A step on one connection that keeps it driven and recorded.
LEMMA OnlyStep ==
  ASSUME IInv, NEW n \in Node, NEW m \in Node, NEW c \in Conn, Only(n, m, c), Driven(c),
         c.open = "none" => conn[n][m].open = "none"
  PROVE  IInv'
<1> USE DEF IInv
<1>1. /\ conn' \in [Node -> [Node -> Conn]] /\ conn'[n][m] = c
      /\ \A j, k \in Node : j # n \/ k # m => conn'[j][k] = conn[j][k]
  BY ZenonT(30) DEF Only, TypeOK
<1>2. phase' = phase /\ dialled' = dialled /\ backlog' = backlog
  BY ZenonT(30) DEF Only
<1>3. TypeOK' /\ Dialling'
  BY <1>1, <1>2, ZenonT(30) DEF TypeOK, Dialling
<1>4. Reached'
  <2>1. \A j, k \in Node : conn'[j][k].open = "none" => conn[j][k].open = "none"
    BY <1>1, ZenonT(30)
  <2> QED BY <2>1, <1>2 DEF Reached, Dialled
<1>5. \A j, k \in Node : Driven(conn'[j][k])
  BY <1>1, ZenonT(30)
<1> QED BY <1>3, <1>4, <1>5, ZenonT(30) DEF Driven

\* A handler leaves the outbox and the write in progress alone, ...
LEMMA IdleStep ==
  ASSUME IInv, NEW n \in Node, NEW m \in Node, NEW c \in Conn, Only(n, m, c),
         c.outbox = conn[n][m].outbox, c.inflight = conn[n][m].inflight,
         c.broken = conn[n][m].broken, c.open = conn[n][m].open \/ c.open = "reset"
  PROVE  IInv'
<1>1. Driven(conn[n][m])
  BY ZenonT(30) DEF IInv
<1>2. Driven(c)
  BY <1>1, ZenonT(30) DEF Driven
<1> QED BY <1>2, OnlyStep, ZenonT(30)

\* ... as send, the timers, the id and TCP do,
LEMMA OtherSteps ==
  ASSUME IInv, NEW n \in Node, NEW m \in Node,
         Send(n, m) \/ Delayed(n, m) \/ RunIdent(n, m) \/ IdentDone(n, m) \/ Reset(n, m)
  PROVE  IInv'
<1> DEFINE c == conn[n][m]
<1>1. c \in Conn
  BY ZenonT(30) DEF IInv, TypeOK
<1>2. CASE Send(n, m)
  <2> DEFINE f == c.sent + 1
             p == Append(c.posted, f)
             d == [c EXCEPT !.sent = f, !.delayed = @ \cup {f}]
             e == [c EXCEPT !.sent = f, !.posted = p]
  <2>1. f \in Nat /\ c.posted \in Frame
    BY <1>1 DEF Conn
  <2>2. p \in Frame
    BY <2>1, AppendFrame, ZenonT(30)
  <2>3. Only(n, m, d) \/ Only(n, m, e)
    BY <1>2, ZenonT(30) DEF Send
  <2> HIDE DEF f, p
  <2>4. /\ d \in Conn /\ d.outbox = c.outbox /\ d.inflight = c.inflight
        /\ d.broken = c.broken /\ d.open = c.open
    BY <1>1, <2>1, ZenonT(30) DEF Conn
  <2>5. /\ e \in Conn /\ e.outbox = c.outbox /\ e.inflight = c.inflight
        /\ e.broken = c.broken /\ e.open = c.open
    BY <1>1, <2>1, <2>2, ZenonT(30) DEF Conn
  <2> HIDE DEF d, e
  <2> QED BY <2>3, <2>4, <2>5, IdleStep, ZenonT(30)
<1>3. CASE Delayed(n, m)
  <2> PICK f \in c.delayed :
             Only(n, m, [c EXCEPT !.delayed = @ \ {f}, !.posted = Append(@, f)])
    BY <1>3, ZenonT(30) DEF Delayed
  <2> DEFINE p == Append(c.posted, f)
             d == [c EXCEPT !.delayed = @ \ {f}, !.posted = p]
  <2>1. f \in Nat /\ c.posted \in Frame
    BY <1>1, ZenonT(30) DEF Conn
  <2>2. p \in Frame /\ Only(n, m, d)
    BY <2>1, AppendFrame, ZenonT(30)
  <2> HIDE DEF p
  <2>3. /\ d \in Conn /\ d.outbox = c.outbox /\ d.inflight = c.inflight
        /\ d.broken = c.broken /\ d.open = c.open
    BY <1>1, <2>2, ZenonT(30) DEF Conn
  <2> HIDE DEF d
  <2> QED BY <2>2, <2>3, IdleStep, ZenonT(30)
<1>4. CASE RunIdent(n, m)
  <2> DEFINE p == Tail(c.posted)
             d == [c EXCEPT !.posted = p, !.ident = "write"]
  <2>1. c.posted \in Frame /\ c.posted # <<>>
    BY <1>1, <1>4, ZenonT(30) DEF RunIdent, Conn
  <2>2. p \in Frame
    BY <2>1, TailFrame, ZenonT(30)
  <2>3. Only(n, m, d)
    BY <1>4, ZenonT(30) DEF RunIdent
  <2> HIDE DEF p
  <2>4. /\ d \in Conn /\ d.outbox = c.outbox /\ d.inflight = c.inflight
        /\ d.broken = c.broken /\ d.open = c.open
    BY <1>1, <2>2, ZenonT(30) DEF Conn
  <2> HIDE DEF d
  <2> QED BY <2>3, <2>4, IdleStep, ZenonT(30)
<1>5. CASE IdentDone(n, m)
  <2> DEFINE d == [c EXCEPT !.ident = "read"]
  <2>1. /\ d \in Conn /\ d.outbox = c.outbox /\ d.inflight = c.inflight
        /\ d.broken = c.broken /\ d.open = c.open
    BY <1>1, ZenonT(30) DEF Conn
  <2>2. Only(n, m, d)
    BY <1>5, ZenonT(30) DEF IdentDone
  <2> HIDE DEF d
  <2> QED BY <2>1, <2>2, IdleStep, ZenonT(30)
<1>6. CASE Reset(n, m)
  <2> DEFINE d == [c EXCEPT !.open = "reset"]
  <2>1. /\ d \in Conn /\ d.outbox = c.outbox /\ d.inflight = c.inflight
        /\ d.broken = c.broken /\ d.open = "reset"
    BY <1>1, ZenonT(30) DEF Conn
  <2>2. Only(n, m, d)
    BY <1>6, ZenonT(30) DEF Reset
  <2> HIDE DEF d
  <2> QED BY <2>1, <2>2, IdleStep, ZenonT(30)
<1> QED BY <1>2, <1>3, <1>4, <1>5, <1>6, ZenonT(30)

\* or it adds a frame, ends a write or fails.
LEMMA WriteSteps ==
  ASSUME IInv, NEW n \in Node, NEW m \in Node,
         RunSend(n, m) \/ WriteDone(n, m) \/ Fails(n, m)
  PROVE  IInv'
<1> DEFINE c == conn[n][m]
<1>1. c \in Conn /\ Driven(c)
  BY ZenonT(30) DEF IInv, TypeOK
<1>2. c.posted \in Frame /\ c.outbox \in Frame /\ c.inflight \in Frame /\ c.wire \in Frame
  BY <1>1, ZenonT(30) DEF Conn
<1>3. CASE RunSend(n, m)
  <2> DEFINE p == Tail(c.posted)
             box == Append(c.outbox, Head(c.posted))
             w == IF c.outbox = <<>> THEN <<Head(box)>> ELSE c.inflight
             d == [c EXCEPT !.posted = p, !.outbox = box, !.inflight = w]
  <2>1. c.posted # <<>>
    BY <1>3, ZenonT(30) DEF RunSend
  <2>2. Head(c.posted) \in Nat /\ p \in Frame
    BY <1>2, <2>1, TailFrame, ZenonT(30)
  <2>3. box \in Frame /\ box # <<>> /\ Head(box) \in Nat /\ (c.outbox # <<>> => Head(box) = Head(c.outbox))
    BY <1>2, <2>2, AppendFrame, TailFrame, ZenonT(30)
  <2>4. Only(n, m, d)
    BY <1>3, ZenonT(30) DEF RunSend
  <2> HIDE DEF p, box
  <2>5. w \in Frame /\ (c.outbox = <<>> => w = <<Head(box)>> /\ w # <<>>)
    BY <1>2, <2>3, OneFrame, ZenonT(30)
  <2>6. c.outbox # <<>> => w = c.inflight
    BY ZenonT(30)
  <2> HIDE DEF w
  <2>7. d \in Conn /\ d.outbox = box /\ d.inflight = w /\ d.broken = c.broken /\ d.open = c.open
    BY <1>1, <2>2, <2>3, <2>5, ZenonT(30) DEF Conn
  <2> HIDE DEF d
  <2>8. Driven(d)
    BY <1>1, <2>3, <2>5, <2>6, <2>7, ZenonT(30) DEF Driven
  <2> QED BY <2>4, <2>7, <2>8, OnlyStep, ZenonT(30)
<1>4. CASE WriteDone(n, m)
  <2> DEFINE box == Tail(c.outbox)
             next == IF box = <<>> THEN <<>> ELSE <<Head(box)>>
             w == Tail(c.inflight) \o next
             sent == Append(c.wire, Head(c.inflight))
             d == [c EXCEPT !.wire = sent, !.outbox = box, !.inflight = w]
  <2>1. Only(n, m, d) /\ c.outbox # <<>> /\ c.inflight = <<Head(c.outbox)>>
    BY <1>1, <1>4, ZenonT(30) DEF WriteDone, Driven
  <2>2. Head(c.outbox) \in Nat /\ box \in Frame
    BY <1>2, <2>1, TailFrame, ZenonT(30)
  <2>3. Tail(c.inflight) = <<>> /\ Head(c.inflight) \in Nat
    BY <2>1, <2>2, OneFrame, ZenonT(30)
  <2>4. sent \in Frame
    BY <1>2, <2>3, AppendFrame, ZenonT(30)
  <2> HIDE DEF box, sent
  <2>5. CASE box = <<>>
    <3>1. w = <<>> /\ w \in Frame
      BY <2>2, <2>3, <2>5, OneFrame, ZenonT(30)
    <3> HIDE DEF w
    <3>2. d \in Conn /\ d.outbox = box /\ d.inflight = w /\ d.open = c.open
      BY <1>1, <2>2, <2>4, <3>1, ZenonT(30) DEF Conn
    <3> HIDE DEF d
    <3>3. Driven(d)
      BY <2>5, <3>1, <3>2, ZenonT(30) DEF Driven
    <3> QED BY <2>1, <3>2, <3>3, OnlyStep, ZenonT(30)
  <2>6. CASE box # <<>>
    <3>1. Head(box) \in Nat
      BY <2>2, <2>6, TailFrame, ZenonT(30)
    <3>2. w = <<Head(box)>> /\ w \in Frame /\ w # <<>>
      BY <2>3, <2>6, <3>1, OneFrame, ZenonT(30)
    <3> HIDE DEF w
    <3>3. d \in Conn /\ d.outbox = box /\ d.inflight = w /\ d.open = c.open
      BY <1>1, <2>2, <2>4, <3>2, ZenonT(30) DEF Conn
    <3> HIDE DEF d
    <3>4. Driven(d)
      BY <2>6, <3>2, <3>3, ZenonT(30) DEF Driven
    <3> QED BY <2>1, <3>3, <3>4, OnlyStep, ZenonT(30)
  <2> QED BY <2>5, <2>6, ZenonT(30)
<1>5. CASE Fails(n, m)
  <2> DEFINE d == [c EXCEPT !.ident = "failed"]
             w == Tail(c.inflight)
             e == [c EXCEPT !.inflight = w, !.broken = 1]
  <2>1. Only(n, m, d) \/ (c.inflight # <<>> /\ Only(n, m, e))
    BY <1>5, ZenonT(30) DEF Fails
  <2>2. CASE Only(n, m, d)
    <3>1. /\ d \in Conn /\ d.outbox = c.outbox /\ d.inflight = c.inflight
          /\ d.broken = c.broken /\ d.open = c.open
      BY <1>1, ZenonT(30) DEF Conn
    <3> HIDE DEF d
    <3> QED BY <2>2, <3>1, IdleStep, ZenonT(30)
  <2>3. CASE c.inflight # <<>> /\ Only(n, m, e)
    <3>1. c.outbox # <<>> /\ c.inflight = <<Head(c.outbox)>>
      BY <1>1, <2>3, ZenonT(30) DEF Driven
    <3>2. w = <<>> /\ w \in Frame
      BY <1>2, <3>1, TailFrame, OneFrame, ZenonT(30)
    <3> HIDE DEF w
    <3>3. e \in Conn /\ e.inflight = w /\ e.broken = 1 /\ e.open = c.open
      BY <1>1, <3>2, ZenonT(30) DEF Conn
    <3> HIDE DEF e
    <3>4. Driven(e)
      BY <3>2, <3>3, ZenonT(30) DEF Driven
    <3> QED BY <2>3, <3>3, <3>4, OnlyStep, ZenonT(30)
  <2> QED BY <2>1, <2>2, <2>3, ZenonT(30)
<1> QED BY <1>3, <1>4, <1>5, ZenonT(30)

\* A peer is dialled: if it has dialled this node, it listens.
LEMMA ConnectStep == ASSUME IInv, NEW n \in Node, Connect(n) PROVE IInv'
<1> USE DEF IInv
<1> DEFINE m == Peers[n][dialled[n] + 1]
           p == <<Ident>>
           new == [NoConn EXCEPT !.open = "open", !.posted = p]
<1>1. /\ dialled[n] \in Nat /\ dialled[n] < Len(Peers[n]) /\ Peers[n] \in Seq(Node)
      /\ Len(Peers[n]) \in Nat /\ phase[n] = "dial" /\ phase' = phase
  BY PeersSeq, ZenonT(30) DEF Connect, TypeOK
<1>2. m \in Node
  BY <1>1
<1>3. /\ dialled' \in [Node -> Nat] /\ dialled'[n] = dialled[n] + 1
      /\ \A j \in Node \ {n} : dialled'[j] = dialled[j]
  BY <1>1, SMTT(30) DEF Connect, TypeOK
<1>4. new \in Conn /\ Driven(new) /\ new.open = "open"
  <2>1. p \in Frame
    BY OneFrame, ZenonT(30) DEF Ident
  <2> HIDE DEF p
  <2>2. /\ new \in Conn /\ new.open = "open" /\ new.outbox = NoConn.outbox
        /\ new.inflight = NoConn.inflight /\ new.broken = NoConn.broken
    BY <2>1, NoConnOK, ZenonT(30) DEF Conn
  <2> QED BY <2>2, NoConnOK, ZenonT(30) DEF Driven
<1>5. Dialling'
  <2> SUFFICES ASSUME NEW j \in Node
               PROVE  /\ dialled'[j] > 0 => phase[j] \in {"dial", "up"}
                      /\ phase[j] = "up" => dialled'[j] = Len(Peers[j])
                      /\ dialled'[j] <= Len(Peers[j])
    BY <1>1, ZenonT(30) DEF Dialling
  <2>1. CASE j = n
    BY <2>1, <1>1, <1>3
  <2>2. CASE j # n
    BY <2>2, <1>3, ZenonT(30) DEF Dialling
  <2> QED BY <2>1, <2>2, ZenonT(30)
<1>6. \A l \in Node \ {m} : Dialled(n, l)' => Dialled(n, l)
  <2> SUFFICES ASSUME NEW l \in Node \ {m}, NEW i \in 1 .. dialled[n] + 1, Peers[n][i] = l
               PROVE  \E q \in 1 .. dialled[n] : Peers[n][q] = l
    BY <1>3, ZenonT(30) DEF Dialled
  <2>1. i # dialled[n] + 1
    BY ZenonT(30)
  <2>2. i \in 1 .. dialled[n]
    BY <2>1, <1>1
  <2> QED BY <2>2, ZenonT(30)
<1>7. CASE phase[m] = "down"
  <2>1. conn' = conn /\ backlog' = backlog
    BY <1>7, ZenonT(30) DEF Connect, Listening
  <2> HIDE DEF m
  <2>2. TypeOK'
    BY <2>1, <1>1, <1>3, ZenonT(30) DEF TypeOK
  <2>3. dialled[m] \in Nat /\ ~(dialled[m] > 0) /\ m # n
    BY <1>1, <1>2, <1>7, ZenonT(30) DEF Dialling, TypeOK
  <2>4. Reached'
    <3> SUFFICES ASSUME NEW j \in Node, NEW k \in Node, Dialled(j, k)', Dialled(k, j)'
                 PROVE  conn[j][k].open # "none" \/ conn[k][j].open # "none"
      BY <2>1, ZenonT(30) DEF Reached
    <3>1. dialled'[j] > 0 /\ dialled'[k] > 0
      BY <1>3 DEF Dialled
    <3>2. j # m /\ k # m
      BY <3>1, <2>3, <1>2, <1>3, ZenonT(30)
    <3>3. \A i \in Node \ {n}, l \in Node : Dialled(i, l)' => Dialled(i, l)
      BY <1>3, ZenonT(30) DEF Dialled
    <3>4. Dialled(j, k) /\ Dialled(k, j)
      BY <3>2, <3>3, <1>6, ZenonT(30)
    <3> QED BY <3>4, ZenonT(30) DEF Reached
  <2> QED BY <1>5, <2>1, <2>2, <2>4, ZenonT(30) DEF Driven
<1>8. CASE phase[m] # "down"
  <2>1. /\ conn' = [conn EXCEPT ![n][m] = new]
        /\ backlog' = [backlog EXCEPT ![m] = @ \cup {n}]
    BY <1>8, ZenonT(30) DEF Connect, Listening
  <2> HIDE DEF m, new
  <2>2. /\ conn' \in [Node -> [Node -> Conn]] /\ conn'[n][m] = new
        /\ \A j, k \in Node : j # n \/ k # m => conn'[j][k] = conn[j][k]
    BY <2>1, <1>2, <1>4, ZenonT(30) DEF TypeOK
  <2>3. backlog' \in [Node -> SUBSET Node]
    BY <2>1, <1>2, ZenonT(30) DEF TypeOK
  <2>4. TypeOK'
    BY <2>2, <2>3, <1>1, <1>3, ZenonT(30) DEF TypeOK
  <2>5. Reached'
    <3> SUFFICES ASSUME NEW j \in Node, NEW k \in Node, Dialled(j, k)', Dialled(k, j)'
                 PROVE  conn'[j][k].open # "none" \/ conn'[k][j].open # "none"
      BY ZenonT(30) DEF Reached
    <3>1. CASE {j, k} = {n, m}
      BY <3>1, <2>2, <1>2, <1>4, ZenonT(30)
    <3>2. CASE {j, k} # {n, m}
      <4>1. \A i \in Node \ {n}, l \in Node : Dialled(i, l)' => Dialled(i, l)
        BY <1>3, ZenonT(30) DEF Dialled
      <4>2. Dialled(j, k) /\ Dialled(k, j)
        BY <3>2, <1>6, <4>1, ZenonT(30)
      <4> QED BY <4>2, <2>2, <3>2, ZenonT(30) DEF Reached
    <3> QED BY <3>1, <3>2, ZenonT(30)
  <2>6. \A j, k \in Node : Driven(conn'[j][k])
    BY <2>2, <1>4, ZenonT(30)
  <2> QED BY <1>5, <2>4, <2>5, <2>6, ZenonT(30) DEF Driven
<1> QED BY <1>7, <1>8, ZenonT(30)

\* A node starts, listens or serves; its accept loop meets an error or its timer.
LEMMA NodeSteps ==
  ASSUME IInv, NEW n \in Node,
         Build(n) \/ Listen(n) \/ Serve(n) \/ AcceptError(n) \/ AcceptTimer(n)
  PROVE  IInv'
<1> USE DEF IInv
<1>1. conn' = conn /\ dialled' = dialled /\ backlog' = backlog
  BY ZenonT(30) DEF Build, Listen, Serve, AcceptError, AcceptTimer
<1>2. Reached' /\ \A j, k \in Node : Driven(conn'[j][k])
  BY <1>1, ZenonT(30) DEF Reached, Dialled
<1>3. TypeOK' /\ Dialling'
  BY <1>1, ZenonT(30) DEF Build, Listen, Serve, AcceptError, AcceptTimer, TypeOK, Dialling
<1> QED BY <1>2, <1>3, ZenonT(30) DEF Driven

\* An accepted connection is closed at the other end.
LEMMA AcceptStep == ASSUME IInv, NEW n \in Node, Accept(n) PROVE IInv'
<1> USE DEF IInv
<1>0. PICK m \in backlog[n] : /\ backlog' = [backlog EXCEPT ![n] = @ \ {m}]
                              /\ conn' = [conn EXCEPT ![m][n].open = "closed"]
  BY ZenonT(30) DEF Accept
<1>1. m \in Node /\ phase' = phase /\ dialled' = dialled
  BY ZenonT(30) DEF Accept, TypeOK
<1> DEFINE c == conn[m][n]
           d == [c EXCEPT !.open = "closed"]
<1>2. c \in Conn /\ Driven(c)
  BY <1>1, ZenonT(30) DEF TypeOK
<1>3. d \in Conn /\ d.open = "closed" /\ Driven(d)
  BY <1>2, ZenonT(30) DEF Conn, Driven
<1>4. conn' = [conn EXCEPT ![m][n] = d]
  BY <1>0, ZenonT(30)
<1> HIDE DEF d
<1>5. /\ conn' \in [Node -> [Node -> Conn]] /\ conn'[m][n] = d
      /\ \A j, k \in Node : j # m \/ k # n => conn'[j][k] = conn[j][k]
  BY <1>1, <1>3, <1>4, ZenonT(30) DEF TypeOK
<1>6. TypeOK' /\ Dialling'
  BY <1>0, <1>1, <1>5, ZenonT(30) DEF TypeOK, Dialling
<1>7. Reached'
  <2>1. \A j, k \in Node : conn'[j][k].open = "none" => conn[j][k].open = "none"
    BY <1>3, <1>5, ZenonT(30)
  <2> QED BY <2>1, <1>1 DEF Reached, Dialled
<1>8. \A j, k \in Node : Driven(conn'[j][k])
  BY <1>3, <1>5, ZenonT(30)
<1> QED BY <1>6, <1>7, <1>8, ZenonT(30) DEF Driven

\* A node that crashes forgets its connections and whom it dialled.
LEMMA CrashStep == ASSUME IInv, NEW n \in Node, Crash(n) PROVE IInv'
<1> USE DEF IInv
<1>1. /\ dialled' \in [Node -> Nat] /\ dialled'[n] = 0
      /\ \A j \in Node \ {n} : dialled'[j] = dialled[j]
      /\ phase' \in [Node -> {"down", "built", "dial", "up"}] /\ phase'[n] = "down"
      /\ \A j \in Node \ {n} : phase'[j] = phase[j]
      /\ backlog' \in [Node -> SUBSET Node]
  BY ZenonT(30) DEF Crash, TypeOK
<1>2. ASSUME NEW j \in Node, NEW k \in Node
      PROVE  /\ conn'[j][k] \in Conn /\ Driven(conn'[j][k])
             /\ j # n => (conn'[j][k].open = "none" => conn[j][k].open = "none")
  <2>1. conn[j][k] \in Conn /\ Driven(conn[j][k])
    BY ZenonT(30) DEF TypeOK
  <2> DEFINE d == [conn[j][k] EXCEPT !.open = "closed"]
  <2>2. d \in Conn /\ d.open = "closed" /\ Driven(d)
    BY <2>1, ZenonT(30) DEF Conn, Driven
  <2>3. CASE j = n
    BY <2>3, NoConnOK, ZenonT(30) DEF Crash
  <2>4. CASE j # n /\ k = n /\ conn[j][k].open = "open"
    <3>1. conn'[j][k] = d
      BY <2>4, ZenonT(30) DEF Crash
    <3> HIDE DEF d
    <3> QED BY <2>2, <2>4, <3>1, ZenonT(30)
  <2>5. CASE j # n /\ ~(k = n /\ conn[j][k].open = "open")
    <3>1. conn'[j][k] = conn[j][k]
      BY <2>5, ZenonT(30) DEF Crash
    <3> QED BY <2>1, <3>1, ZenonT(30)
  <2> QED BY <2>3, <2>4, <2>5, ZenonT(30)
<1>3. conn' \in [Node -> [Node -> Conn]]
  <2>1. conn' = [j \in Node |-> [k \in Node |-> conn'[j][k]]]
    BY ZenonT(30) DEF Crash
  <2> QED BY <2>1, <1>2, ZenonT(30)
<1>4. TypeOK'
  BY <1>1, <1>3, ZenonT(30) DEF TypeOK
<1>5. Dialling'
  <2> SUFFICES ASSUME NEW j \in Node
               PROVE  /\ dialled'[j] > 0 => phase'[j] \in {"dial", "up"}
                      /\ phase'[j] = "up" => dialled'[j] = Len(Peers[j])
                      /\ dialled'[j] <= Len(Peers[j])
    BY ZenonT(30) DEF Dialling
  <2>1. CASE j = n
    BY <2>1, <1>1, PeersSeq
  <2>2. CASE j # n
    BY <2>2, <1>1, ZenonT(30) DEF Dialling
  <2> QED BY <2>1, <2>2, ZenonT(30)
<1>6. Reached'
  <2> SUFFICES ASSUME NEW j \in Node, NEW k \in Node, Dialled(j, k)', Dialled(k, j)'
               PROVE  conn'[j][k].open # "none" \/ conn'[k][j].open # "none"
    BY ZenonT(30) DEF Reached
  <2>1. j # n /\ k # n
    BY <1>1 DEF Dialled
  <2>2. Dialled(j, k) /\ Dialled(k, j)
    BY <2>1, <1>1, ZenonT(30) DEF Dialled
  <2> QED BY <2>1, <2>2, <1>2, ZenonT(30) DEF Reached
<1> QED BY <1>2, <1>4, <1>5, <1>6, ZenonT(30) DEF Driven

\* Every step preserves the invariant.
LEMMA NextIInv == IInv /\ [Next]_vars => IInv'
<1> SUFFICES ASSUME IInv, [Next]_vars PROVE IInv'
  BY ZenonT(30)
<1>1. CASE UNCHANGED vars
  BY <1>1, ZenonT(30) DEF vars, IInv, TypeOK, Dialling, Reached, Dialled, Driven
<1>2. CASE Next
  BY <1>2, NodeSteps, ConnectStep, CrashStep, AcceptStep, OtherSteps, WriteSteps, ZenonT(30)
     DEF Next, IoStep
<1> QED BY <1>1, <1>2, ZenonT(30)

\* The invariant gives both properties.
LEMMA IInvImplies == IInv => NoStall /\ SomeoneReached
<1> SUFFICES ASSUME IInv PROVE NoStall /\ SomeoneReached
  BY ZenonT(30)
<1>1. NoStall
  BY ZenonT(30) DEF IInv, NoStall, Driven
<1>2. SomeoneReached
  <2> SUFFICES ASSUME NEW n \in Node, NEW m \in Node, phase[n] = "up", phase[m] = "up",
                      NEW i \in DOMAIN Peers[n], Peers[n][i] = m,
                      NEW j \in DOMAIN Peers[m], Peers[m][j] = n
               PROVE  conn[n][m] # NoConn \/ conn[m][n] # NoConn
    BY ZenonT(30) DEF SomeoneReached
  <2>1. dialled[n] = Len(Peers[n]) /\ dialled[m] = Len(Peers[m])
    BY ZenonT(30) DEF IInv, Dialling
  <2>2. i \in 1 .. dialled[n] /\ j \in 1 .. dialled[m]
    BY <2>1, PeersSeq, ZenonT(30)
  <2>3. Dialled(n, m) /\ Dialled(m, n)
    BY <2>2, ZenonT(30) DEF Dialled
  <2> QED BY <2>3, NoConnOK, ZenonT(30) DEF IInv, Reached
<1> QED BY <1>1, <1>2, ZenonT(30)

\* Of two nodes that are up and each other's peers one has a connection to the other
\* (main opens the acceptor before it dials), for every number of nodes and crashes.
THEOREM MeshSomeoneReached == Spec => []SomeoneReached
BY InitIInv, NextIInv, IInvImplies, PTL DEF Spec

\* No frame stays in an outbox that nobody writes unless a write has failed
\* (Connection::send against do_write), for every number of connections and sends.
THEOREM MeshNoStall == Spec => []NoStall
BY InitIInv, NextIInv, IInvImplies, PTL DEF Spec

-----------------------------------------------------------------------------
\* The order of the frames

\* What InOrder says of one connection, and that only simulated latency delays one.
Ordered(c, lat) ==
  /\ {Frames(c)[i] : i \in 1 .. Len(Frames(c))} \cup c.delayed = 1 .. c.sent
  /\ Len(Frames(c)) + Cardinality(c.delayed) = c.sent
  /\ lat = 0 => c.delayed = {} /\ \A i \in 1 .. Len(Frames(c)) : Frames(c)[i] = i

\* The frames of a connection, wherever they are, are a sequence.
LEMMA FramesSeq ==
  ASSUME NEW c \in Conn
  PROVE  /\ c.wire \in Frame /\ c.outbox \in Frame /\ c.posted \in Frame
         /\ Waiting(c.posted) \in Frame /\ Frames(c) \in Frame
         /\ c.sent \in Nat /\ c.delayed \subseteq Nat
<1>1. /\ c.wire \in Frame /\ c.outbox \in Frame /\ c.posted \in Frame
      /\ c.sent \in Nat /\ c.delayed \subseteq Nat
  BY ZenonT(30) DEF Conn
<1>2. Waiting(c.posted) \in Frame
  BY <1>1, TailFrame, ZenonT(30) DEF Waiting
<1>3. Frames(c) \in Frame
  BY <1>1, <1>2, ConcatProperties, ZenonT(30) DEF Frames, Frame
<1> QED BY <1>1, <1>2, <1>3, ZenonT(30)

\* No frame has the number of start's handler.
LEMMA FramesNumbered ==
  ASSUME NEW c \in Conn, NEW lat, Ordered(c, lat)
  PROVE  /\ \A i \in 1 .. Len(Waiting(c.posted)) : Waiting(c.posted)[i] # Ident
         /\ c.delayed \subseteq 1 .. c.sent /\ IsFiniteSet(c.delayed)
<1>1. /\ c.wire \in Seq(Nat) /\ c.outbox \in Seq(Nat) /\ Waiting(c.posted) \in Seq(Nat)
      /\ c.sent \in Nat
  BY FramesSeq, ZenonT(30) DEF Frame
<1> DEFINE w == c.wire \o c.outbox
           p == Waiting(c.posted)
<1>2. w \in Seq(Nat) /\ Len(w) \in Nat /\ Len(p) \in Nat
  BY <1>1, ConcatProperties, LenProperties, ZenonT(30)
<1>3. Frames(c) = w \o p
  BY ZenonT(30) DEF Frames
<1> HIDE DEF w, p
<1>4. p \in Seq(Nat)
  BY <1>1, ZenonT(30) DEF p
<1>5. Len(w \o p) = Len(w) + Len(p) /\ \A i \in 1 .. Len(p) : (w \o p)[Len(w) + i] = p[i]
  BY <1>2, <1>4
<1>6. ASSUME NEW i \in 1 .. Len(p)
      PROVE  p[i] # Ident
  <2>1. Len(w) + i \in 1 .. Len(Frames(c)) /\ Frames(c)[Len(w) + i] = p[i]
    BY <1>2, <1>3, <1>5
  <2>2. p[i] \in 1 .. c.sent
    BY <2>1, ZenonT(30) DEF Ordered
  <2> QED BY <1>1, <2>2 DEF Ident
<1>7. c.delayed \subseteq 1 .. c.sent /\ IsFiniteSet(c.delayed)
  <2>1. c.delayed \subseteq 1 .. c.sent
    BY ZenonT(30) DEF Ordered
  <2>2. IsFiniteSet(1 .. c.sent)
    BY <1>1, FS_Interval
  <2> QED BY <2>1, <2>2, FS_Subset, ZenonT(30)
<1> QED BY <1>6, <1>7, ZenonT(30) DEF p

\* A connection on which no frame goes anywhere stays in order.
LEMMA OrderedSame ==
  ASSUME NEW c, NEW d, NEW lat, Ordered(c, lat), Frames(d) = Frames(c), d.sent = c.sent,
         d.delayed = c.delayed
  PROVE  Ordered(d, lat)
BY DEF Ordered

\* A frame that is posted is the last.
LEMMA PostFrame ==
  ASSUME NEW c \in Conn, NEW d \in Conn, NEW f \in Nat, f # Ident, d.wire = c.wire,
         d.outbox = c.outbox, d.posted = Append(c.posted, f)
  PROVE  Frames(d) = Append(Frames(c), f)
<1>1. /\ c.wire \in Seq(Nat) /\ c.outbox \in Seq(Nat) /\ Waiting(c.posted) \in Seq(Nat)
      /\ c.posted \in Seq(Nat)
  BY FramesSeq, ZenonT(30) DEF Frame
<1>2. Waiting(Append(c.posted, f)) = Append(Waiting(c.posted), f)
  <2>1. /\ Append(c.posted, f) # <<>>
        /\ Head(Append(c.posted, f)) = IF c.posted = <<>> THEN f ELSE Head(c.posted)
        /\ Tail(Append(c.posted, f)) =
             IF c.posted = <<>> THEN <<>> ELSE Append(Tail(c.posted), f)
    <3>1. Append(c.posted, f) # <<>>
      BY <1>1, AppendFrame, ZenonT(30) DEF Frame
    <3> QED BY <1>1, <3>1, HeadTailAppend, ZenonT(30)
  <2> QED BY <2>1, ZenonT(30) DEF Waiting
<1> DEFINE w == c.wire \o c.outbox
           p == Waiting(c.posted)
<1>3. w \in Seq(Nat) /\ p \in Seq(Nat)
  BY <1>1, ConcatProperties, ZenonT(30)
<1>4. Frames(c) = w \o p /\ Frames(d) = w \o Append(p, f)
  BY <1>2, ZenonT(30) DEF Frames
<1> HIDE DEF w, p
<1>5. w \o Append(p, f) = Append(w \o p, f)
  <2>1. <<f>> \in Seq(Nat) /\ w \o p \in Seq(Nat)
    BY <1>3, ConcatProperties
  <2>2. w \o Append(p, f) = w \o (p \o <<f>>) /\ Append(w \o p, f) = (w \o p) \o <<f>>
    BY <1>3, <2>1, AppendIsConcat, ZenonT(30)
  <2> QED BY <1>3, <2>1, <2>2, ConcatAssociative, SMTT(30)
<1> QED BY <1>4, <1>5, ZenonT(30)

\* The elements of two sequences of frames in a row.
LEMMA Joined ==
  ASSUME NEW u \in Seq(Nat), NEW v \in Seq(Nat)
  PROVE  /\ u \o v \in Seq(Nat) /\ Len(u \o v) = Len(u) + Len(v)
         /\ \A i \in 1 .. Len(u) + Len(v) :
              (u \o v)[i] = IF i <= Len(u) THEN u[i] ELSE v[i - Len(u)]
  BY ConcatProperties, ZenonT(30)

\* A frame that goes from the front of one sequence to the end of another stays in
\* its place among all.
LEMMA ShiftFrame ==
  ASSUME NEW s \in Seq(Nat), NEW t \in Seq(Nat), t # <<>>
  PROVE  Append(s, Head(t)) \o Tail(t) = s \o t
<1>1. /\ Head(t) \in Nat /\ Tail(t) \in Seq(Nat) /\ Head(t) = t[1] /\ Len(s) \in Nat
      /\ Len(t) \in Nat /\ Len(t) > 0
      /\ Len(Tail(t)) = Len(t) - 1 /\ \A i \in 1 .. Len(t) - 1 : Tail(t)[i] = t[i + 1]
  BY HeadTailProperties, LenProperties, EmptySeq
<1> DEFINE a == Append(s, Head(t))
           r == Tail(t)
<1>2. /\ a \in Seq(Nat) /\ Len(a) = Len(s) + 1 /\ a[Len(s) + 1] = t[1]
      /\ \A i \in 1 .. Len(s) : a[i] = s[i]
  BY <1>1, AppendProperties
<1>3. /\ r \in Seq(Nat) /\ Len(r) = Len(t) - 1 /\ \A i \in 1 .. Len(t) - 1 : r[i] = t[i + 1]
  BY <1>1, ZenonT(30)
<1> HIDE DEF a, r
<1>4. /\ a \o r \in Seq(Nat) /\ Len(a \o r) = Len(s) + Len(t)
      /\ s \o t \in Seq(Nat) /\ Len(s \o t) = Len(s) + Len(t)
      /\ \A i \in 1 .. Len(s) + Len(t) :
           /\ (a \o r)[i] = IF i <= Len(s) + 1 THEN a[i] ELSE r[i - (Len(s) + 1)]
           /\ (s \o t)[i] = IF i <= Len(s) THEN s[i] ELSE t[i - Len(s)]
  <2>1. Len(a) + Len(r) = Len(s) + Len(t)
    BY <1>1, <1>2, <1>3
  <2>2. /\ a \o r \in Seq(Nat) /\ Len(a \o r) = Len(a) + Len(r)
        /\ \A i \in 1 .. Len(a) + Len(r) :
             (a \o r)[i] = IF i <= Len(a) THEN a[i] ELSE r[i - Len(a)]
    BY <1>2, <1>3, Joined, ZenonT(30)
  <2>3. /\ s \o t \in Seq(Nat) /\ Len(s \o t) = Len(s) + Len(t)
        /\ \A i \in 1 .. Len(s) + Len(t) :
             (s \o t)[i] = IF i <= Len(s) THEN s[i] ELSE t[i - Len(s)]
    BY Joined, ZenonT(30)
  <2> QED BY <1>2, <2>1, <2>2, <2>3, ZenonT(30)
<1>5. ASSUME NEW i \in 1 .. Len(s) + Len(t)
      PROVE  (a \o r)[i] = (s \o t)[i]
  <2>1. CASE i <= Len(s)
    BY <1>1, <1>2, <1>4, <2>1
  <2>2. CASE i = Len(s) + 1
    BY <1>1, <1>2, <1>4, <2>2
  <2>3. CASE i > Len(s) + 1
    <3> DEFINE k == i - (Len(s) + 1)
    <3>1. Len(s) \in Nat /\ Len(t) \in Nat
      BY <1>1, ZenonT(30)
    <3>2. k \in 1 .. Len(t) - 1 /\ k + 1 = i - Len(s) /\ ~(i <= Len(s) + 1) /\ ~(i <= Len(s))
      BY <2>3, <3>1
    <3>3. (a \o r)[i] = r[k] /\ (s \o t)[i] = t[k + 1]
      BY <1>4, <3>2, ZenonT(30)
    <3> QED BY <1>3, <3>2, <3>3, ZenonT(30)
  <2>4. i <= Len(s) \/ i = Len(s) + 1 \/ i > Len(s) + 1
    <3>1. Len(s) \in Nat /\ i \in Int
      BY <1>1
    <3> QED BY <3>1, SMTT(30)
  <2> QED BY <2>1, <2>2, <2>3, <2>4, ZenonT(30)
<1>6. a \o r = s \o t
  BY <1>1, <1>4, <1>5, SeqEqual, ZenonT(30)
<1> QED BY <1>6, ZenonT(30) DEF a, r

\* Nothing was sent on a connection that is not there or has just been made.
LEMMA NewOrdered ==
  ASSUME NEW c \in Conn, NEW lat, c.wire = <<>>, c.outbox = <<>>,
         c.posted \in {<<>>, <<Ident>>}, c.sent = 0, c.delayed = {}
  PROVE  Ordered(c, lat)
<1>1. Waiting(c.posted) = <<>>
  <2>1. Head(<<Ident>>) = Ident /\ Tail(<<Ident>>) = <<>>
    BY OneFrame DEF Ident
  <2>2. CASE c.posted = <<>>
    BY <2>2, ZenonT(30) DEF Waiting
  <2>3. CASE c.posted = <<Ident>>
    BY <2>1, <2>3, OneFrame, ZenonT(30) DEF Waiting, Ident
  <2> QED BY <2>2, <2>3, ZenonT(30)
<1>2. Frames(c) = <<>>
  BY <1>1, OneFrame, ZenonT(30) DEF Frames
<1>3. Len(Frames(c)) = 0 /\ Cardinality(c.delayed) = 0
  BY <1>2, FS_EmptySet, ZenonT(30)
<1>4. 1 .. Len(Frames(c)) = {} /\ 1 .. c.sent = {}
  BY <1>3
<1> QED BY <1>3, <1>4 DEF Ordered

\* The frames of a connection are counted.
LEMMA OrderedFacts ==
  ASSUME NEW c \in Conn, NEW lat, Ordered(c, lat)
  PROVE  /\ c.sent \in Nat /\ Frames(c) \in Seq(Nat) /\ Len(Frames(c)) \in Nat
         /\ c.delayed \subseteq 1 .. c.sent /\ IsFiniteSet(c.delayed)
         /\ Cardinality(c.delayed) \in Nat
<1>1. c.sent \in Nat /\ Frames(c) \in Seq(Nat)
  BY FramesSeq, ZenonT(30) DEF Frame
<1>2. Len(Frames(c)) \in Nat
  BY <1>1, LenProperties, ZenonT(30)
<1>3. c.delayed \subseteq 1 .. c.sent /\ IsFiniteSet(c.delayed)
  BY FramesNumbered, ZenonT(30)
<1>4. Cardinality(c.delayed) \in Nat
  BY <1>3, FS_CardinalityType, ZenonT(30)
<1> QED BY <1>1, <1>2, <1>3, <1>4, ZenonT(30)

\* The elements of a sequence of frames and one more.
LEMMA AppendElements ==
  ASSUME NEW s \in Seq(Nat), NEW f \in Nat, NEW r, r = Append(s, f)
  PROVE  /\ Len(r) = Len(s) + 1 /\ r[Len(s) + 1] = f
         /\ \A i \in 1 .. Len(s) : r[i] = s[i]
         /\ {r[i] : i \in 1 .. Len(r)} = {s[i] : i \in 1 .. Len(s)} \cup {f}
<1>1. /\ Len(r) = Len(s) + 1 /\ r[Len(s) + 1] = f
      /\ \A i \in 1 .. Len(s) : r[i] = s[i]
  BY AppendProperties
<1>2. 1 .. Len(r) = (1 .. Len(s)) \cup {Len(s) + 1}
  <2>1. Len(s) \in Nat
    BY LenProperties, ZenonT(30)
  <2> QED BY <1>1, <2>1
<1>3. {r[i] : i \in 1 .. Len(r)} = {s[i] : i \in 1 .. Len(s)} \cup {f}
  <2> DEFINE D == 1 .. Len(s)
             n == Len(s) + 1
  <2>1. \A i \in D : r[i] = s[i]
    BY <1>1, ZenonT(30)
  <2>2. r[n] = f /\ 1 .. Len(r) = D \cup {n}
    BY <1>1, <1>2, ZenonT(30)
  <2> HIDE DEF D, n
  <2>3. {r[i] : i \in D \cup {n}} = {s[i] : i \in D} \cup {f}
    BY <2>1, <2>2
  <2> QED BY <2>2, <2>3, ZenonT(30) DEF D
<1> QED BY <1>1, <1>3, ZenonT(30)

\* send numbers the next frame, which is posted or, with simulated latency, delayed.
LEMMA SendOrdered ==
  ASSUME NEW c \in Conn, NEW d \in Conn, NEW lat, Ordered(c, lat), d.wire = c.wire,
         d.outbox = c.outbox, d.sent = c.sent + 1,
         \/ /\ d.posted = Append(c.posted, c.sent + 1) /\ d.delayed = c.delayed
         \/ /\ d.posted = c.posted /\ d.delayed = c.delayed \cup {c.sent + 1} /\ lat # 0
  PROVE  Ordered(d, lat)
<1> DEFINE f == c.sent + 1
           all == Frames(c)
<1>1. /\ c.sent \in Nat /\ f \in Nat /\ f # Ident /\ all \in Seq(Nat) /\ Len(all) \in Nat
      /\ c.delayed \subseteq 1 .. c.sent /\ IsFiniteSet(c.delayed)
      /\ Cardinality(c.delayed) \in Nat
  <2>1. f \in Nat /\ f # Ident
    BY OrderedFacts DEF Ident
  <2> QED BY <2>1, OrderedFacts, ZenonT(30)
<1>2. 1 .. d.sent = (1 .. c.sent) \cup {f}
  BY <1>1
<1>3. CASE d.posted = Append(c.posted, f) /\ d.delayed = c.delayed
  <2>1. Frames(d) = Append(all, f)
    BY <1>1, <1>3, PostFrame, ZenonT(30)
  <2>2. /\ Len(Frames(d)) = Len(all) + 1 /\ Frames(d)[Len(all) + 1] = f
        /\ \A i \in 1 .. Len(all) : Frames(d)[i] = all[i]
    BY <1>1, <2>1, AppendElements
  <2> HIDE DEF all, f
  <2>3. {Frames(d)[i] : i \in 1 .. Len(Frames(d))} = {all[i] : i \in 1 .. Len(all)} \cup {f}
    BY <1>1, <2>1, AppendElements, SMTT(30)
  <2>4. /\ {all[i] : i \in 1 .. Len(all)} \cup c.delayed = 1 .. c.sent
        /\ Len(all) + Cardinality(c.delayed) = c.sent
        /\ lat = 0 => c.delayed = {} /\ \A i \in 1 .. Len(all) : all[i] = i
    BY ZenonT(30) DEF Ordered, all
  <2>5. lat = 0 => Len(all) = c.sent
    <3>1. Cardinality({}) = 0
      BY FS_EmptySet, ZenonT(30)
    <3>2. lat = 0 => Len(all) + 0 = c.sent
      BY <2>4, <3>1, ZenonT(30)
    <3> QED BY <1>1, <3>2
  <2>6. lat = 0 => \A i \in 1 .. Len(Frames(d)) : Frames(d)[i] = i
    <3> SUFFICES ASSUME lat = 0, NEW i \in 1 .. Len(Frames(d)) PROVE Frames(d)[i] = i
      BY ZenonT(30)
    <3>1. i \in 1 .. Len(all) \/ i = Len(all) + 1
      BY <1>1, <2>2
    <3>2. f = Len(all) + 1
      BY <2>5, ZenonT(30) DEF f
    <3> QED BY <2>2, <2>4, <3>1, <3>2, ZenonT(30)
  <2>7. {Frames(d)[i] : i \in 1 .. Len(Frames(d))} \cup d.delayed = 1 .. d.sent
    BY <1>2, <1>3, <2>3, <2>4, ZenonT(30)
  <2>8. Len(Frames(d)) + Cardinality(d.delayed) = d.sent
    <3>1. /\ Len(all) + Cardinality(d.delayed) = c.sent /\ Len(all) \in Nat
          /\ Cardinality(d.delayed) \in Nat /\ d.sent = c.sent + 1
      BY <1>1, <1>3, <2>4, ZenonT(30)
    <3> QED BY <2>2, <3>1
  <2> QED BY <1>3, <2>4, <2>6, <2>7, <2>8, ZenonT(30) DEF Ordered
<1>4. CASE d.posted = c.posted /\ d.delayed = c.delayed \cup {f} /\ lat # 0
  <2>1. Frames(d) = Frames(c)
    BY <1>4, ZenonT(30) DEF Frames
  <2>2. f \notin c.delayed
    BY <1>1
  <2>3. Cardinality(d.delayed) = Cardinality(c.delayed) + 1
    <3>1. Cardinality(c.delayed \cup {f}) = Cardinality(c.delayed) + 1
      BY <1>1, <2>2, FS_AddElement, ZenonT(30)
    <3> QED BY <1>4, <3>1, ZenonT(30)
  <2> HIDE DEF all, f
  <2>4. {Frames(d)[i] : i \in 1 .. Len(Frames(d))} \cup d.delayed = 1 .. d.sent
    BY <1>2, <1>4, <2>1 DEF Ordered
  <2>5. Len(Frames(d)) + Cardinality(d.delayed) = d.sent
    BY <1>1, <2>1, <2>3 DEF Ordered, all
  <2> QED BY <1>4, <2>4, <2>5, ZenonT(30) DEF Ordered
<1> QED BY <1>3, <1>4, ZenonT(30)

\* A delayed frame is posted.
LEMMA DelayedOrdered ==
  ASSUME NEW c \in Conn, NEW d \in Conn, NEW lat, Ordered(c, lat), d.wire = c.wire,
         d.outbox = c.outbox, d.sent = c.sent, NEW f \in c.delayed,
         d.posted = Append(c.posted, f), d.delayed = c.delayed \ {f}
  PROVE  Ordered(d, lat)
<1> DEFINE all == Frames(c)
<1>1. /\ c.sent \in Nat /\ all \in Seq(Nat) /\ Len(all) \in Nat
      /\ c.delayed \subseteq 1 .. c.sent /\ IsFiniteSet(c.delayed)
      /\ Cardinality(c.delayed) \in Nat
  BY OrderedFacts, ZenonT(30)
<1>2. f \in Nat /\ f # Ident
  BY <1>1 DEF Ident
<1>3. Frames(d) = Append(all, f)
  BY <1>2, PostFrame, ZenonT(30)
<1>4. /\ Len(Frames(d)) = Len(all) + 1 /\ Frames(d)[Len(all) + 1] = f
      /\ \A i \in 1 .. Len(all) : Frames(d)[i] = all[i]
  BY <1>1, <1>2, <1>3, AppendElements
<1>5. /\ {all[i] : i \in 1 .. Len(all)} \cup c.delayed = 1 .. c.sent
      /\ Len(all) + Cardinality(c.delayed) = c.sent
      /\ lat # 0
  BY ZenonT(30) DEF Ordered
<1> HIDE DEF all
<1>6. {Frames(d)[i] : i \in 1 .. Len(Frames(d))} = {all[i] : i \in 1 .. Len(all)} \cup {f}
  BY <1>1, <1>2, <1>3, AppendElements, SMTT(30)
<1>7. {Frames(d)[i] : i \in 1 .. Len(Frames(d))} \cup d.delayed = 1 .. d.sent
  BY <1>5, <1>6, ZenonT(30)
<1>8. Cardinality(d.delayed) = Cardinality(c.delayed) - 1
  <2>1. Cardinality(c.delayed \ {f}) = Cardinality(c.delayed) - 1
    BY <1>1, FS_RemoveElement, ZenonT(30)
  <2> QED BY <2>1, ZenonT(30)
<1>9. Len(Frames(d)) + Cardinality(d.delayed) = d.sent
  BY <1>1, <1>4, <1>5, <1>8
<1> QED BY <1>5, <1>7, <1>9, ZenonT(30) DEF Ordered

\* The elements of a sequence of frames and of its tail.
LEMMA TailElements ==
  ASSUME NEW s \in Seq(Nat), s # <<>>
  PROVE  /\ Len(s) \in Nat /\ Len(s) > 0 /\ Head(s) = s[1]
         /\ Len(Tail(s)) = Len(s) - 1 /\ \A i \in 1 .. Len(s) - 1 : Tail(s)[i] = s[i + 1]
BY HeadTailProperties, LenProperties, EmptySeq

Associative(s, t, u) == (s \o t) \o u = s \o (t \o u)

\* Sequences of frames are put together in any order.
LEMMA FramesAssociative ==
  \A s, t, u \in Seq(Nat) : Associative(s, t, u)
BY SMTT(30) DEF Associative

\* The strand runs start's handler or moves a frame to the outbox.
LEMMA RunOrdered ==
  ASSUME NEW c \in Conn, NEW d \in Conn, NEW lat, Ordered(c, lat), c.posted # <<>>,
         d.wire = c.wire, d.posted = Tail(c.posted), d.sent = c.sent, d.delayed = c.delayed,
         d.outbox = IF Head(c.posted) = Ident THEN c.outbox
                    ELSE Append(c.outbox, Head(c.posted))
  PROVE  Ordered(d, lat)
<1> DEFINE h == Head(c.posted)
           p == Tail(c.posted)
<1>1. /\ c.wire \in Seq(Nat) /\ c.outbox \in Seq(Nat) /\ c.posted \in Seq(Nat)
      /\ h \in Nat /\ p \in Seq(Nat)
      /\ \A i \in 1 .. Len(Waiting(c.posted)) : Waiting(c.posted)[i] # Ident
  BY FramesSeq, FramesNumbered, TailFrame, ZenonT(30) DEF Frame
<1>2. Waiting(p) = p
  <2> SUFFICES ASSUME p # <<>>, Head(p) = Ident PROVE FALSE
    BY ZenonT(30) DEF Waiting
  <2>1. Len(p) \in Nat /\ Len(p) > 0 /\ p[1] = Ident
    BY <1>1, TailElements, ZenonT(30)
  <2>2. CASE h = Ident
    <3>1. Waiting(c.posted) = p
      BY <2>2, ZenonT(30) DEF Waiting
    <3>2. 1 \in 1 .. Len(p)
      BY <2>1
    <3> QED BY <1>1, <2>1, <3>1, <3>2, ZenonT(30)
  <2>3. CASE h # Ident
    <3>1. Waiting(c.posted) = c.posted
      BY <2>3, ZenonT(30) DEF Waiting
    <3>2. Len(p) = Len(c.posted) - 1 /\ p[1] = c.posted[2] /\ Len(c.posted) \in Nat
      <4>1. /\ Len(c.posted) \in Nat /\ Len(p) = Len(c.posted) - 1
            /\ \A i \in 1 .. Len(c.posted) - 1 : p[i] = c.posted[i + 1]
        BY <1>1, TailElements, ZenonT(30)
      <4>2. 1 \in 1 .. Len(c.posted) - 1 /\ 1 + 1 = 2
        BY <2>1, <4>1
      <4> QED BY <4>1, <4>2, ZenonT(30)
    <3>3. 2 \in 1 .. Len(c.posted)
      BY <2>1, <3>2
    <3> QED BY <1>1, <2>1, <3>1, <3>2, <3>3, ZenonT(30)
  <2> QED BY <2>2, <2>3, ZenonT(30)
<1>3. Frames(d) = Frames(c)
  <2>1. CASE h = Ident
    <3>1. Waiting(c.posted) = p
      BY <2>1, ZenonT(30) DEF Waiting
    <3> QED BY <1>2, <2>1, <3>1, ZenonT(30) DEF Frames
  <2>2. CASE h # Ident
    <3> DEFINE w == c.wire
               o == c.outbox
               q == c.posted
    <3>1. Waiting(c.posted) = c.posted
      BY <2>2, ZenonT(30) DEF Waiting
    <3>2. Frames(d) = (w \o Append(o, h)) \o p /\ Frames(c) = (w \o o) \o q
      BY <1>2, <2>2, <3>1, ZenonT(30) DEF Frames
    <3>3. Append(o, h) \in Seq(Nat)
      BY <1>1, AppendProperties, ZenonT(30)
    <3>4. Append(o, h) \o p = o \o q
      BY <1>1, ShiftFrame, ZenonT(30)
    <3>5. w \in Seq(Nat) /\ o \in Seq(Nat) /\ q \in Seq(Nat) /\ p \in Seq(Nat)
      BY <1>1, ZenonT(30)
    <3> DEFINE r == Append(o, h)
    <3> HIDE DEF w, o, q, p, r
    <3>6. r \in Seq(Nat) /\ r \o p = o \o q /\ Frames(d) = (w \o r) \o p
      BY <3>2, <3>3, <3>4, ZenonT(30) DEF r
    <3>7. r \in Seq(Nat)
      BY <3>6, ZenonT(30)
    <3>8. Associative(w, r, p) /\ Associative(w, o, q)
      BY <3>5, <3>7, FramesAssociative, ZenonT(30)
    <3> QED BY <3>2, <3>6, <3>8, ZenonT(30) DEF Associative
  <2> QED BY <2>1, <2>2, ZenonT(30)
<1> QED BY <1>3, OrderedSame, ZenonT(30)

\* The frame at the head of the outbox has been written.
LEMMA WrittenOrdered ==
  ASSUME NEW c \in Conn, NEW d \in Conn, NEW lat, Ordered(c, lat), c.outbox # <<>>,
         d.wire = Append(c.wire, Head(c.outbox)), d.outbox = Tail(c.outbox),
         d.posted = c.posted, d.sent = c.sent, d.delayed = c.delayed
  PROVE  Ordered(d, lat)
<1>1. c.wire \in Seq(Nat) /\ c.outbox \in Seq(Nat)
  BY FramesSeq, ZenonT(30) DEF Frame
<1>2. Append(c.wire, Head(c.outbox)) \o Tail(c.outbox) = c.wire \o c.outbox
  BY <1>1, ShiftFrame, ZenonT(30)
<1>3. Frames(d) = Frames(c)
  BY <1>2, ZenonT(30) DEF Frames
<1> QED BY <1>3, OrderedSame, ZenonT(30)

\* The inductive invariant of InOrder.
AllOrdered == \A n, m \in Node : Ordered(conn[n][m], latency)

\* A step on one connection that leaves it in order.
LEMMA OnlyOrdered ==
  ASSUME TypeOK, AllOrdered, NEW n \in Node, NEW m \in Node, NEW d \in Conn,
         Only(n, m, d), Ordered(d, latency)
  PROVE  AllOrdered'
<1>1. /\ conn'[n][m] = d /\ latency' = latency
      /\ \A j, k \in Node : j # n \/ k # m => conn'[j][k] = conn[j][k]
  BY ZenonT(30) DEF Only, TypeOK
<1> QED BY <1>1, ZenonT(30) DEF AllOrdered

\* Handlers and timers leave a connection in order.
LEMMA IoOrdered ==
  ASSUME IInv, AllOrdered, NEW n \in Node, NEW m \in Node, Send(n, m) \/ IoStep(n, m)
  PROVE  AllOrdered'
<1> DEFINE c == conn[n][m]
<1>1. TypeOK /\ c \in Conn /\ Driven(c) /\ Ordered(c, latency)
  BY ZenonT(30) DEF IInv, TypeOK, AllOrdered
<1>2. c.posted \in Frame /\ c.outbox \in Frame /\ c.inflight \in Frame /\ c.wire \in Frame
  BY <1>1, ZenonT(30) DEF Conn
<1>3. CASE Send(n, m)
  <2> DEFINE f == c.sent + 1
             p == Append(c.posted, f)
             d == [c EXCEPT !.sent = f, !.delayed = @ \cup {f}]
             e == [c EXCEPT !.sent = f, !.posted = p]
  <2>1. f \in Nat
    BY <1>1 DEF Conn
  <2>2. p \in Frame
    BY <1>2, <2>1, AppendFrame, ZenonT(30)
  <2>3. (latency # 0 /\ Only(n, m, d)) \/ Only(n, m, e)
    BY <1>3 DEF Send
  <2>4. /\ d \in Conn /\ d.outbox = c.outbox /\ d.wire = c.wire /\ d.posted = c.posted
        /\ d.sent = c.sent + 1 /\ d.delayed = c.delayed \cup {c.sent + 1}
    BY <1>1, <2>1, ZenonT(30) DEF Conn
  <2> HIDE DEF p
  <2>5. /\ e \in Conn /\ e.outbox = c.outbox /\ e.wire = c.wire /\ e.posted = p
        /\ e.sent = c.sent + 1 /\ e.delayed = c.delayed
    BY <1>1, <2>1, <2>2, ZenonT(30) DEF Conn
  <2>6. e.posted = Append(c.posted, c.sent + 1)
    BY <2>5, ZenonT(30) DEF p
  <2> HIDE DEF d, e, c, f
  <2>7. Ordered(e, latency)
    BY <1>1, <2>5, <2>6, SendOrdered, ZenonT(30)
  <2>8. latency # 0 => Ordered(d, latency)
    BY <1>1, <2>4, SendOrdered, ZenonT(30)
  <2> QED BY <1>1, <2>3, <2>4, <2>5, <2>7, <2>8, OnlyOrdered, ZenonT(30)
<1>4. CASE Delayed(n, m)
  <2> PICK f \in c.delayed :
             Only(n, m, [c EXCEPT !.delayed = @ \ {f}, !.posted = Append(@, f)])
    BY <1>4, ZenonT(30) DEF Delayed
  <2> DEFINE p == Append(c.posted, f)
             d == [c EXCEPT !.delayed = @ \ {f}, !.posted = p]
  <2>1. f \in Nat
    BY <1>1, ZenonT(30) DEF Conn
  <2>2. p \in Frame /\ Only(n, m, d)
    BY <1>2, <2>1, AppendFrame, ZenonT(30)
  <2> HIDE DEF p
  <2>3. /\ d \in Conn /\ d.outbox = c.outbox /\ d.wire = c.wire /\ d.posted = p
        /\ d.sent = c.sent /\ d.delayed = c.delayed \ {f}
    BY <1>1, <2>2, ZenonT(30) DEF Conn
  <2>4. d.posted = Append(c.posted, f)
    BY <2>3, ZenonT(30) DEF p
  <2> HIDE DEF d, c
  <2>5. Ordered(d, latency)
    BY <1>1, <2>3, <2>4, DelayedOrdered, ZenonT(30)
  <2> QED BY <1>1, <2>2, <2>3, <2>5, OnlyOrdered, ZenonT(30)
<1>5. CASE RunIdent(n, m)
  <2> DEFINE p == Tail(c.posted)
             d == [c EXCEPT !.posted = p, !.ident = "write"]
  <2>1. c.posted # <<>> /\ Head(c.posted) = Ident /\ Only(n, m, d)
    BY <1>5, ZenonT(30) DEF RunIdent
  <2>2. p \in Frame
    BY <1>2, <2>1, TailFrame, ZenonT(30)
  <2> HIDE DEF p
  <2>3. /\ d \in Conn /\ d.outbox = c.outbox /\ d.wire = c.wire /\ d.posted = p
        /\ d.sent = c.sent /\ d.delayed = c.delayed
    BY <1>1, <2>2, ZenonT(30) DEF Conn
  <2>4. d.posted = Tail(c.posted)
    BY <2>3, ZenonT(30) DEF p
  <2> HIDE DEF d, c
  <2>5. Ordered(d, latency)
    BY <1>1, <2>1, <2>3, <2>4, RunOrdered, ZenonT(30)
  <2> QED BY <1>1, <2>1, <2>3, <2>5, OnlyOrdered, ZenonT(30)
<1>6. CASE RunSend(n, m)
  <2> DEFINE p == Tail(c.posted)
             box == Append(c.outbox, Head(c.posted))
             w == IF c.outbox = <<>> THEN <<Head(box)>> ELSE c.inflight
             d == [c EXCEPT !.posted = p, !.outbox = box, !.inflight = w]
  <2>1. c.posted # <<>> /\ Head(c.posted) # Ident /\ Only(n, m, d)
    BY <1>6, ZenonT(30) DEF RunSend
  <2>2. Head(c.posted) \in Nat /\ p \in Frame
    BY <1>2, <2>1, TailFrame, ZenonT(30)
  <2>3. box \in Frame /\ Head(box) \in Nat
    BY <1>2, <2>2, AppendFrame, TailFrame, ZenonT(30)
  <2> HIDE DEF p, box
  <2>4. w \in Frame
    BY <1>2, <2>3, OneFrame, ZenonT(30)
  <2> HIDE DEF w
  <2>5. /\ d \in Conn /\ d.outbox = box /\ d.wire = c.wire /\ d.posted = p
        /\ d.sent = c.sent /\ d.delayed = c.delayed
    BY <1>1, <2>2, <2>3, <2>4, ZenonT(30) DEF Conn
  <2>6. d.posted = Tail(c.posted) /\ d.outbox = Append(c.outbox, Head(c.posted))
    BY <2>5, ZenonT(30) DEF p, box
  <2> HIDE DEF d, c
  <2>7. Ordered(d, latency)
    BY <1>1, <2>1, <2>5, <2>6, RunOrdered, ZenonT(30)
  <2> QED BY <1>1, <2>1, <2>5, <2>7, OnlyOrdered, ZenonT(30)
<1>7. CASE WriteDone(n, m)
  <2> DEFINE box == Tail(c.outbox)
             next == IF box = <<>> THEN <<>> ELSE <<Head(box)>>
             w == Tail(c.inflight) \o next
             sent == Append(c.wire, Head(c.inflight))
             d == [c EXCEPT !.wire = sent, !.outbox = box, !.inflight = w]
  <2>1. Only(n, m, d) /\ c.outbox # <<>> /\ c.inflight = <<Head(c.outbox)>>
    BY <1>1, <1>7, ZenonT(30) DEF WriteDone, Driven
  <2>2. Head(c.outbox) \in Nat /\ box \in Frame
    BY <1>2, <2>1, TailFrame, ZenonT(30)
  <2>3. Tail(c.inflight) = <<>> /\ Head(c.inflight) = Head(c.outbox)
    BY <2>1, <2>2, OneFrame, ZenonT(30)
  <2>4. sent \in Frame /\ sent = Append(c.wire, Head(c.outbox))
    BY <1>2, <2>2, <2>3, AppendFrame, ZenonT(30)
  <2> HIDE DEF box, sent
  <2>5. w \in Frame
    <3>1. next \in Frame /\ (box = <<>> \/ Head(box) \in Nat)
      BY <2>2, TailFrame, OneFrame, ZenonT(30)
    <3> QED BY <2>3, <2>2, <3>1, OneFrame, ZenonT(30)
  <2> HIDE DEF w
  <2>6. /\ d \in Conn /\ d.outbox = box /\ d.wire = sent /\ d.posted = c.posted
        /\ d.sent = c.sent /\ d.delayed = c.delayed
    BY <1>1, <2>2, <2>4, <2>5, ZenonT(30) DEF Conn
  <2>7. d.outbox = Tail(c.outbox) /\ d.wire = Append(c.wire, Head(c.outbox))
    BY <2>4, <2>6, ZenonT(30) DEF box
  <2> HIDE DEF d, c
  <2>8. Ordered(d, latency)
    BY <1>1, <2>1, <2>6, <2>7, WrittenOrdered, ZenonT(30)
  <2> QED BY <1>1, <2>1, <2>6, <2>8, OnlyOrdered, ZenonT(30)
<1>8. CASE IdentDone(n, m) \/ Reset(n, m) \/ Fails(n, m)
  <2> DEFINE w == Tail(c.inflight)
  <2>1. PICK d : /\ Only(n, m, d)
                 /\ \/ d = [c EXCEPT !.ident = "read"]
                    \/ d = [c EXCEPT !.open = "reset"]
                    \/ d = [c EXCEPT !.ident = "failed"]
                    \/ c.inflight # <<>> /\ d = [c EXCEPT !.inflight = w, !.broken = 1]
    BY <1>8, ZenonT(30) DEF IdentDone, Reset, Fails
  <2>2. c.inflight # <<>> => w \in Frame
    BY <1>2, TailFrame, ZenonT(30)
  <2> HIDE DEF w
  <2>3. /\ d \in Conn /\ d.outbox = c.outbox /\ d.wire = c.wire /\ d.posted = c.posted
        /\ d.sent = c.sent /\ d.delayed = c.delayed
    BY <1>1, <2>1, <2>2, ZenonT(30) DEF Conn
  <2> HIDE DEF c
  <2>4. Frames(d) = Frames(c)
    BY <2>3, ZenonT(30) DEF Frames
  <2>5. Ordered(d, latency)
    BY <1>1, <2>3, <2>4, OrderedSame, ZenonT(30)
  <2> QED BY <1>1, <2>1, <2>3, <2>5, OnlyOrdered, ZenonT(30)
<1> QED BY <1>3, <1>4, <1>5, <1>6, <1>7, <1>8, ZenonT(30) DEF IoStep

\* A connection whose other end closes stays in order.
LEMMA ClosedOrdered ==
  ASSUME NEW c \in Conn, NEW lat, Ordered(c, lat)
  PROVE  Ordered([c EXCEPT !.open = "closed"], lat)
<1> DEFINE d == [c EXCEPT !.open = "closed"]
<1>1. /\ d.outbox = c.outbox /\ d.wire = c.wire /\ d.posted = c.posted
      /\ d.sent = c.sent /\ d.delayed = c.delayed
  BY ZenonT(30) DEF Conn
<1> HIDE DEF d
<1>2. Frames(d) = Frames(c)
  BY <1>1, ZenonT(30) DEF Frames
<1>3. Ordered(d, lat)
  BY <1>1, <1>2, OrderedSame, ZenonT(30)
<1> QED BY <1>3, ZenonT(30) DEF d

\* No connection has frames at first.
LEMMA InitOrdered == Init => AllOrdered
<1> SUFFICES ASSUME Init PROVE AllOrdered
  BY ZenonT(30)
<1>1. Ordered(NoConn, latency)
  BY NoConnOK, NewOrdered, ZenonT(30) DEF NoConn
<1> QED BY <1>1, ZenonT(30) DEF Init, AllOrdered

\* Dialling, accepting and crashes leave every connection in order.
LEMMA NodeOrdered ==
  ASSUME IInv, AllOrdered, NEW n \in Node, Connect(n) \/ Accept(n) \/ Crash(n)
  PROVE  AllOrdered'
<1>1. TypeOK /\ latency' = latency
  BY ZenonT(30) DEF IInv, Connect, Accept, Crash
<1>2. \A j, k \in Node : conn[j][k] \in Conn /\ Ordered(conn[j][k], latency)
  BY <1>1, ZenonT(30) DEF TypeOK, AllOrdered
<1> SUFFICES ASSUME NEW j \in Node, NEW k \in Node
             PROVE  Ordered(conn'[j][k], latency)
  BY <1>1, ZenonT(30) DEF AllOrdered
<1> DEFINE closed == [conn[j][k] EXCEPT !.open = "closed"]
<1>3. Ordered(closed, latency)
  BY <1>2, ClosedOrdered, ZenonT(30)
<1>4. CASE Connect(n)
  <2> DEFINE p == <<Ident>>
             new == [NoConn EXCEPT !.open = "open", !.posted = p]
             m == Peers[n][dialled[n] + 1]
  <2>1. p \in Frame
    BY OneFrame, ZenonT(30) DEF Ident
  <2> HIDE DEF p
  <2>2. new \in Conn
    BY <2>1, NoConnOK, ZenonT(30) DEF Conn
  <2>3. /\ new.wire = <<>> /\ new.outbox = <<>> /\ new.posted = p /\ new.sent = 0
        /\ new.delayed = {}
    BY ZenonT(30) DEF NoConn
  <2> HIDE DEF new
  <2>4. Ordered(new, latency)
    BY <2>2, <2>3, NewOrdered, ZenonT(30) DEF p
  <2>5. conn' = [conn EXCEPT ![n][m] = new] \/ conn' = conn
    BY <1>4, ZenonT(30) DEF Connect, new, p
  <2> HIDE DEF m
  <2>6. conn'[j][k] = conn[j][k] \/ conn'[j][k] = new
    BY <1>1, <2>5 DEF TypeOK
  <2> QED BY <1>2, <2>4, <2>6, ZenonT(30)
<1>5. CASE Accept(n)
  <2>1. PICK m \in backlog[n] : conn' = [conn EXCEPT ![m][n].open = "closed"]
    BY <1>5, ZenonT(30) DEF Accept
  <2>2. conn'[j][k] = conn[j][k] \/ conn'[j][k] = closed
    BY <1>1, <2>1, ZenonT(30) DEF TypeOK
  <2> QED BY <1>2, <1>3, <2>2, ZenonT(30)
<1>6. CASE Crash(n)
  <2>1. Ordered(NoConn, latency)
    BY NoConnOK, NewOrdered, ZenonT(30) DEF NoConn
  <2>2. conn'[j][k] = NoConn \/ conn'[j][k] = closed \/ conn'[j][k] = conn[j][k]
    <3>1. conn'[j][k] = CASE j = n -> NoConn
                          [] j # n /\ k = n /\ conn[j][k].open = "open" -> closed
                          [] OTHER -> conn[j][k]
      BY <1>6, ZenonT(30) DEF Crash
    <3> QED BY <3>1, ZenonT(30)
  <2> QED BY <1>2, <1>3, <2>1, <2>2, ZenonT(30)
<1> QED BY <1>4, <1>5, <1>6, ZenonT(30)

\* Every step leaves every connection in order.
LEMMA NextOrdered == IInv /\ AllOrdered /\ [Next]_vars => AllOrdered'
<1> SUFFICES ASSUME IInv, AllOrdered, [Next]_vars PROVE AllOrdered'
  BY ZenonT(30)
<1>1. CASE UNCHANGED <<conn, latency>>
  BY <1>1, ZenonT(30) DEF AllOrdered
<1>2. CASE UNCHANGED vars
  BY <1>1, <1>2, ZenonT(30) DEF vars
<1>3. ASSUME NEW n \in Node,
             Build(n) \/ Listen(n) \/ Serve(n) \/ AcceptError(n) \/ AcceptTimer(n)
      PROVE  AllOrdered'
  BY <1>1, <1>3, ZenonT(30) DEF Build, Listen, Serve, AcceptError, AcceptTimer
<1>4. CASE Next
  BY <1>3, <1>4, IoOrdered, NodeOrdered, ZenonT(30) DEF Next
<1> QED BY <1>2, <1>4, ZenonT(30)

\* The frames of every connection are in order.
LEMMA OrderedImplies == TypeOK /\ AllOrdered => InOrder
<1> SUFFICES ASSUME TypeOK, AllOrdered, NEW n \in Node, NEW m \in Node
             PROVE  LET c == conn[n][m]
                        all == Frames(c)
                    IN  /\ {all[i] : i \in DOMAIN all} \cup c.delayed = 1 .. c.sent
                        /\ Len(all) + Cardinality(c.delayed) = c.sent
                        /\ latency = 0 => \A i \in DOMAIN all : all[i] = i
  BY ZenonT(30) DEF InOrder
<1>1. conn[n][m] \in Conn /\ Ordered(conn[n][m], latency)
  BY ZenonT(30) DEF TypeOK, AllOrdered
<1>2. DOMAIN Frames(conn[n][m]) = 1 .. Len(Frames(conn[n][m]))
  BY <1>1, FramesSeq, LenProperties, ZenonT(30) DEF Frame
<1> QED BY <1>1, <1>2, ZenonT(30) DEF Ordered

\* Each frame given to send is in one place, and without simulated latency the frames
\* are written in the order of the sends (Mesh::send, Connection::send, do_write),
\* whatever threads run the handlers, for every number of nodes, sends and crashes.
THEOREM MeshInOrder == Spec => []InOrder
<1>1. Init => IInv /\ AllOrdered
  BY InitIInv, InitOrdered, ZenonT(30)
<1>2. IInv /\ AllOrdered /\ [Next]_vars => IInv' /\ AllOrdered'
  BY NextIInv, NextOrdered, ZenonT(30)
<1>3. IInv /\ AllOrdered => InOrder
  BY OrderedImplies, ZenonT(30) DEF IInv
<1> QED BY <1>1, <1>2, <1>3, PTL DEF Spec
=============================================================================
