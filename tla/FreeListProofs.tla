--------------------------- MODULE FreeListProofs ---------------------------
(***************************************************************************)
(* For every number of threads and blocks: a block of the free list is in  *)
(* one place at a time and none leaks.                                     *)
(***************************************************************************)
EXTENDS FreeList, FiniteSetTheorems, TLAPS

\* The threads that are about to put n on the list, that have given it the list's
\* count, that have taken it off, and that count it in its refs.
Putting(n) == {t \in Thread : pc[t] \in {"load", "link", "one"} /\ my[t].node = n}
Pushing(n) == {t \in Thread : pc[t] \in {"push", "undo"} /\ my[t].node = n}
Counting(n) ==
  {t \in Thread : \/ pc[t] \in {"next", "pop", "got"} /\ my[t].head = n
                  \/ pc[t] = "drop" /\ my[t].node = n}

Holding(n) == Putting(n) \cup Pushing(n) \cup Taking(n)

\* A label has the locals it reads.
LocalsOK ==
  \A t \in Thread :
    /\ pc[t] \in {"refs", "count", "next", "pop", "got"} => my[t].head \in Node
    /\ pc[t] \in {"load", "link", "one", "push", "undo", "drop"} => my[t].node \in Node
    /\ pc[t] = "count" => my[t].seen.count > 0

\* A link read from a counted node, or written to a node that is not on the list
\* yet, is the node's link still.
LinksOK ==
  \A t \in Thread :
    /\ pc[t] = "pop" => link[my[t].head] = my[t].next
    /\ pc[t] \in {"one", "push"} => link[my[t].node] = my[t].next

\* The list does not run into itself.
Acyclic == \A n \in OnList : n \notin From(link[n], link)

\* A node is in use, on the list, held by one thread, or left flagged to those that
\* count it;
PlaceOK(n) ==
  /\ n \in OnList => n \notin used
  /\ n \in OnList \cup used => Holding(n) = {}
  /\ \A t, u \in Holding(n) : t = u
  /\ Putting(n) # {} => refs[n] = Ref(0, 1)
  /\ n \in OnList \cup used \/ Pushing(n) \cup Taking(n) # {} => refs[n].flag = 0
  /\ n \notin OnList \cup used /\ Holding(n) = {} => refs[n].flag = 1 /\ refs[n].count > 0

\* and its count is that of the threads that count it and of the list.
Listed(n) == IF n \in OnList \/ Pushing(n) \cup Taking(n) # {} THEN 1 ELSE 0
CountOK(n) == refs[n].count = Cardinality(Counting(n)) + Listed(n)

\* The inductive invariant.
IInv ==
  /\ TypeOK /\ LocalsOK /\ LinksOK /\ Acyclic
  /\ \A n \in Node : PlaceOK(n) /\ CountOK(n)

-----------------------------------------------------------------------------
\* The list

Links == [Node -> Node \cup {Null}]

\* From has h and follows the links.
LEMMA FromClosed ==
  ASSUME NEW links \in Links, NEW h \in Node \cup {Null}
  PROVE  /\ From(h, links) \in SUBSET Node
         /\ h \in From(h, links) \cup {Null}
         /\ \A m \in From(h, links) : links[m] \in From(h, links) \cup {Null}
BY ZenonT(30) DEF From, Links

\* Any other such set has all of From.
LEMMA FromLeast ==
  ASSUME NEW links, NEW h, NEW S \in SUBSET Node,
         h \in S \cup {Null}, \A m \in S : links[m] \in S \cup {Null}
  PROVE  From(h, links) \subseteq S
BY ZenonT(30) DEF From

\* There is nothing behind no node.
LEMMA FromNull ==
  ASSUME NEW links
  PROVE  From(Null, links) = {}
<1>1. {} \in SUBSET Node /\ Null \in {} \cup {Null} /\ \A m \in {} : links[m] \in {} \cup {Null}
  BY ZenonT(30)
<1>2. From(Null, links) \subseteq {}
  BY <1>1, FromLeast, ZenonT(30)
<1> QED BY <1>2, ZenonT(30)

\* A list is its head and the list from the head's link on.
LEMMA FromNext ==
  ASSUME NEW links \in Links, NEW h \in Node
  PROVE  From(h, links) = {h} \cup From(links[h], links)
<1> DEFINE next == links[h]
<1>1. next \in Node \cup {Null}
  BY ZenonT(30) DEF Links
<1>2. h \in From(h, links)
  BY FromClosed, FreeListAssumption, ZenonT(30)
<1>3. From(next, links) \subseteq From(h, links)
  <2>1. next \in From(h, links) \cup {Null}
    BY <1>2, FromClosed, ZenonT(30)
  <2> QED BY <2>1, FromClosed, FromLeast, ZenonT(30)
<1>4. From(h, links) \subseteq {h} \cup From(next, links)
  <2> DEFINE S == {h} \cup From(next, links)
  <2>1. S \in SUBSET Node /\ h \in S \cup {Null}
    BY <1>1, FromClosed, ZenonT(30)
  <2>2. \A m \in S : links[m] \in S \cup {Null}
    BY <1>1, FromClosed, ZenonT(30)
  <2> HIDE DEF S
  <2>3. From(h, links) \subseteq S
    BY <2>1, <2>2, FromLeast, ZenonT(30)
  <2> QED BY <2>3, ZenonT(30) DEF S
<1> QED BY <1>2, <1>3, <1>4, ZenonT(30)

\* A list does not change with the links of nodes that are not on it.
LEMMA FromSame ==
  ASSUME NEW old \in Links, NEW new \in Links, NEW h \in Node \cup {Null},
         \A m \in From(h, old) : new[m] = old[m]
  PROVE  From(h, new) = From(h, old)
<1>1. From(h, new) \subseteq From(h, old)
  <2>1. \A m \in From(h, old) : new[m] \in From(h, old) \cup {Null}
    BY FromClosed, ZenonT(30)
  <2> QED BY <2>1, FromClosed, FromLeast, ZenonT(30)
<1>2. From(h, old) \subseteq From(h, new)
  <2> DEFINE S == From(h, old) \cap From(h, new)
  <2>1. S \in SUBSET Node /\ h \in S \cup {Null}
    BY FromClosed, ZenonT(30)
  <2>2. \A m \in S : old[m] \in S \cup {Null}
    BY FromClosed
  <2> HIDE DEF S
  <2>3. From(h, old) \subseteq S
    BY <2>1, <2>2, FromLeast, ZenonT(30)
  <2> QED BY <2>3, ZenonT(30) DEF S
<1> QED BY <1>1, <1>2, ZenonT(30)

-----------------------------------------------------------------------------
\* Steps of one thread

Labels == {"idle", "load", "link", "one", "push", "undo", "reload",
           "refs", "count", "next", "pop", "got", "drop"}

\* Where thread t is after a step, the others being where they were.
LEMMA GotoFacts ==
  ASSUME TypeOK, NEW t \in Thread, NEW l \in Labels, NEW m \in Locals, Goto(t, l, m)
  PROVE  /\ pc' \in [Thread -> Labels] /\ my' \in [Thread -> Locals]
         /\ \A u \in Thread \ {t} : pc'[u] = pc[u] /\ my'[u] = my[u]
         /\ pc'[t] = l
         /\ l \notin {"idle", "reload"} => my'[t].head = m.head
         /\ l = "count" => my'[t].seen = m.seen
         /\ l \in {"load", "link", "one", "push", "undo", "drop"} => my'[t].node = m.node
         /\ l \in {"link", "one", "push", "undo", "pop"} => my'[t].next = m.next
<1> DEFINE r == [head |-> IF l \in {"idle", "reload"} THEN Null ELSE m.head,
                 seen |-> IF l = "count" THEN m.seen ELSE Ref(0, 0),
                 node |-> IF l \in {"load", "link", "one", "push", "undo", "drop"}
                          THEN m.node ELSE Null,
                 next |-> IF l \in {"link", "one", "push", "undo", "pop"} THEN m.next ELSE Null]
<1>1. r \in Locals
  BY ZenonT(30) DEF Locals, Ref
<1>2. pc \in [Thread -> Labels] /\ my \in [Thread -> Locals]
  BY ZenonT(30) DEF TypeOK, Labels
<1>3. pc' = [pc EXCEPT ![t] = l] /\ my' = [my EXCEPT ![t] = r]
  BY ZenonT(30) DEF Goto
<1>4. /\ l \notin {"idle", "reload"} => r.head = m.head
      /\ l = "count" => r.seen = m.seen
      /\ l \in {"load", "link", "one", "push", "undo", "drop"} => r.node = m.node
      /\ l \in {"link", "one", "push", "undo", "pop"} => r.next = m.next
  BY ZenonT(30)
<1> HIDE DEF r
<1>5. pc'[t] = l /\ my'[t] = r /\ \A u \in Thread \ {t} : pc'[u] = pc[u] /\ my'[u] = my[u]
  BY <1>2, <1>3, ZenonT(30)
<1>6. pc' \in [Thread -> Labels] /\ my' \in [Thread -> Locals]
  BY <1>1, <1>2, <1>3, ZenonT(30)
<1> QED BY <1>4, <1>5, <1>6, ZenonT(30)

\* The threads that deal with n after the step.
LEMMA GotoSets ==
  ASSUME TypeOK, NEW t \in Thread, NEW l \in Labels, NEW m \in Locals, Goto(t, l, m),
         NEW n \in Node
  PROVE  /\ Putting(n)' = IF l \in {"load", "link", "one"} /\ m.node = n
                          THEN Putting(n) \cup {t} ELSE Putting(n) \ {t}
         /\ Pushing(n)' = IF l \in {"push", "undo"} /\ m.node = n
                          THEN Pushing(n) \cup {t} ELSE Pushing(n) \ {t}
         /\ Taking(n)' = IF l = "got" /\ m.head = n
                         THEN Taking(n) \cup {t} ELSE Taking(n) \ {t}
         /\ Counting(n)' = IF \/ l \in {"next", "pop", "got"} /\ m.head = n
                              \/ l = "drop" /\ m.node = n
                           THEN Counting(n) \cup {t} ELSE Counting(n) \ {t}
<1>1. /\ \A u \in Thread \ {t} : pc'[u] = pc[u] /\ my'[u] = my[u]
      /\ pc'[t] = l
      /\ l \notin {"idle", "reload"} => my'[t].head = m.head
      /\ l \in {"load", "link", "one", "push", "undo", "drop"} => my'[t].node = m.node
  BY GotoFacts
<1>2. Putting(n)' = IF l \in {"load", "link", "one"} /\ m.node = n
                    THEN Putting(n) \cup {t} ELSE Putting(n) \ {t}
  BY <1>1 DEF Putting
<1>3. Pushing(n)' = IF l \in {"push", "undo"} /\ m.node = n
                    THEN Pushing(n) \cup {t} ELSE Pushing(n) \ {t}
  BY <1>1 DEF Pushing
<1>4. Taking(n)' = IF l = "got" /\ m.head = n THEN Taking(n) \cup {t} ELSE Taking(n) \ {t}
  BY <1>1, ZenonT(30) DEF Taking
<1>5. Counting(n)' = IF \/ l \in {"next", "pop", "got"} /\ m.head = n
                        \/ l = "drop" /\ m.node = n
                     THEN Counting(n) \cup {t} ELSE Counting(n) \ {t}
  BY <1>1 DEF Counting
<1> QED BY <1>2, <1>3, <1>4, <1>5, ZenonT(30)

\* A node that nothing happens to stays as it is.
LEMMA SameNode ==
  ASSUME NEW n \in Node, PlaceOK(n), CountOK(n),
         Putting(n)' = Putting(n), Pushing(n)' = Pushing(n), Taking(n)' = Taking(n),
         Counting(n)' = Counting(n), refs'[n] = refs[n],
         n \in OnList' <=> n \in OnList, n \in used' <=> n \in used
  PROVE  PlaceOK(n)' /\ CountOK(n)'
<1>1. PlaceOK(n)'
  BY ZenonT(30) DEF PlaceOK, Holding
<1>2. CountOK(n)'
  BY ZenonT(30) DEF CountOK, Listed
<1> QED BY <1>1, <1>2, ZenonT(30)

\* The locals of thread t after a step are those its label reads.
LEMMA GotoLocals ==
  ASSUME IInv, NEW t \in Thread, NEW l \in Labels, NEW m \in Locals, Goto(t, l, m),
         l \in {"refs", "count", "next", "pop", "got"} => m.head \in Node,
         l \in {"load", "link", "one", "push", "undo", "drop"} => m.node \in Node,
         l = "count" => m.seen.count > 0
  PROVE  LocalsOK'
BY GotoFacts DEF IInv, LocalsOK

\* Links stay right if they do not change and thread t has the right one.
LEMMA GotoLinks ==
  ASSUME IInv, NEW t \in Thread, NEW l \in Labels, NEW m \in Locals, Goto(t, l, m),
         link' = link,
         l = "pop" => link[m.head] = m.next,
         l \in {"one", "push"} => link[m.node] = m.next
  PROVE  LinksOK'
BY GotoFacts DEF IInv, LinksOK

\* The list does not change unless its head or a link does.
LEMMA SameList ==
  ASSUME freeListHead' = freeListHead, link' = link
  PROVE  OnList' = OnList /\ (Acyclic => Acyclic')
BY ZenonT(30) DEF OnList, Acyclic

\* A step that moves a thread from one label to another at which it deals with the
\* same nodes preserves the invariant.
LEMMA QuietStep ==
  ASSUME IInv, NEW t \in Thread, NEW l \in Labels, NEW m \in Locals, Goto(t, l, m),
         UNCHANGED <<freeListHead, refs, link, used>>,
         l \in {"refs", "count", "next", "pop", "got"} => m.head \in Node,
         l \in {"load", "link", "one", "push", "undo", "drop"} => m.node \in Node,
         l = "count" => m.seen.count > 0,
         l = "pop" => link[m.head] = m.next,
         l \in {"one", "push"} => link[m.node] = m.next,
         \A n \in Node :
           /\ l \in {"load", "link", "one"} /\ m.node = n <=> t \in Putting(n)
           /\ l \in {"push", "undo"} /\ m.node = n <=> t \in Pushing(n)
           /\ l = "got" /\ m.head = n <=> t \in Taking(n)
           /\ \/ l \in {"next", "pop", "got"} /\ m.head = n
              \/ l = "drop" /\ m.node = n
              <=> t \in Counting(n)
  PROVE  IInv'
<1>1. TypeOK'
  BY GotoFacts DEF IInv, TypeOK, Labels
<1>2. LocalsOK' /\ LinksOK'
  BY GotoLocals, GotoLinks, ZenonT(30)
<1>3. OnList' = OnList /\ Acyclic'
  BY SameList, ZenonT(30) DEF IInv
<1>4. ASSUME NEW n \in Node
      PROVE  PlaceOK(n)' /\ CountOK(n)'
  <2>1. /\ Putting(n)' = IF t \in Putting(n) THEN Putting(n) \cup {t} ELSE Putting(n) \ {t}
        /\ Pushing(n)' = IF t \in Pushing(n) THEN Pushing(n) \cup {t} ELSE Pushing(n) \ {t}
        /\ Taking(n)' = IF t \in Taking(n) THEN Taking(n) \cup {t} ELSE Taking(n) \ {t}
        /\ Counting(n)' = IF t \in Counting(n) THEN Counting(n) \cup {t} ELSE Counting(n) \ {t}
    <3>1. TypeOK
      BY ZenonT(30) DEF IInv
    <3> QED BY <3>1, GotoSets
  <2>2. /\ Putting(n)' = Putting(n) /\ Pushing(n)' = Pushing(n)
        /\ Taking(n)' = Taking(n) /\ Counting(n)' = Counting(n)
    BY <2>1
  <2> QED BY <2>2, <1>3, SameNode, ZenonT(30) DEF IInv
<1> QED BY <1>1, <1>2, <1>3, <1>4, ZenonT(30) DEF IInv

\* What the invariant says of thread t.
LEMMA ThreadFacts ==
  ASSUME IInv, NEW t \in Thread
  PROVE  /\ pc[t] \in Labels /\ my[t] \in Locals
         /\ freeListHead \in Node \cup {Null} /\ link \in Links
         /\ pc[t] \in {"refs", "count", "next", "pop", "got"} => my[t].head \in Node
         /\ pc[t] \in {"load", "link", "one", "push", "undo", "drop"} => my[t].node \in Node
         /\ pc[t] = "count" => my[t].seen.count > 0
         /\ pc[t] = "pop" => link[my[t].head] = my[t].next
         /\ pc[t] \in {"one", "push"} => link[my[t].node] = my[t].next
         /\ \A n \in Node :
              /\ t \in Putting(n) <=> pc[t] \in {"load", "link", "one"} /\ my[t].node = n
              /\ t \in Pushing(n) <=> pc[t] \in {"push", "undo"} /\ my[t].node = n
              /\ t \in Taking(n) <=> pc[t] = "got" /\ my[t].head = n
              /\ t \in Counting(n) <=> \/ pc[t] \in {"next", "pop", "got"} /\ my[t].head = n
                                       \/ pc[t] = "drop" /\ my[t].node = n
         /\ \A n \in Node : refs[n] \in [count : Nat, flag : {0, 1}] /\ IsFiniteSet(Counting(n))
<1>1. /\ pc[t] \in Labels /\ my[t] \in Locals
      /\ freeListHead \in Node \cup {Null} /\ link \in Links
      /\ \A n \in Node : refs[n] \in [count : Nat, flag : {0, 1}]
  BY ZenonT(30) DEF IInv, TypeOK, Labels, Links
<1>2. \A n \in Node : IsFiniteSet(Counting(n))
  <2> TAKE n \in Node
  <2>1. Counting(n) \in SUBSET Thread
    BY ZenonT(30) DEF Counting
  <2> QED BY <2>1, FreeListAssumption, FS_Subset, ZenonT(30)
<1>3. \A n \in Node :
        /\ t \in Putting(n) <=> pc[t] \in {"load", "link", "one"} /\ my[t].node = n
        /\ t \in Pushing(n) <=> pc[t] \in {"push", "undo"} /\ my[t].node = n
        /\ t \in Taking(n) <=> pc[t] = "got" /\ my[t].head = n
        /\ t \in Counting(n) <=> \/ pc[t] \in {"next", "pop", "got"} /\ my[t].head = n
                                 \/ pc[t] = "drop" /\ my[t].node = n
  BY ZenonT(30) DEF Putting, Pushing, Taking, Counting
<1>4. /\ pc[t] \in {"refs", "count", "next", "pop", "got"} => my[t].head \in Node
      /\ pc[t] \in {"load", "link", "one", "push", "undo", "drop"} => my[t].node \in Node
      /\ pc[t] = "count" => my[t].seen.count > 0
      /\ pc[t] = "pop" => link[my[t].head] = my[t].next
      /\ pc[t] \in {"one", "push"} => link[my[t].node] = my[t].next
  BY ZenonT(30) DEF IInv, LocalsOK, LinksOK
<1> QED BY <1>1, <1>2, <1>3, <1>4, ZenonT(30)

\* add reads the head.
LEMMA AddLoadStep == ASSUME IInv, NEW t \in Thread, AddLoad(t) PROVE IInv'
<1> DEFINE m == [my[t] EXCEPT !.next = freeListHead]
<1>1. pc[t] = "load" /\ my[t] \in Locals /\ freeListHead \in Node \cup {Null}
  BY ThreadFacts, ZenonT(30) DEF AddLoad
<1>2. m \in Locals /\ m.node = my[t].node
  BY <1>1, ZenonT(30) DEF Locals
<1>3. Goto(t, "link", m) /\ UNCHANGED <<freeListHead, refs, link, used>>
  BY ZenonT(30) DEF AddLoad
<1> HIDE DEF m
<1> QED BY <1>1, <1>2, <1>3, ThreadFacts, QuietStep DEF Labels

\* try_get reads the head.
LEMMA GetStep == ASSUME IInv, NEW t \in Thread, Get(t) PROVE IInv'
<1> DEFINE m == [my[t] EXCEPT !.head = freeListHead]
           l == Loop(freeListHead)
<1>1. pc[t] \in {"idle", "reload"} /\ my[t] \in Locals /\ freeListHead \in Node \cup {Null}
  BY ThreadFacts, ZenonT(30) DEF Get
<1>2. m \in Locals /\ m.head = freeListHead
  BY <1>1, ZenonT(30) DEF Locals
<1>3. Goto(t, l, m) /\ UNCHANGED <<freeListHead, refs, link, used>>
  BY ZenonT(30) DEF Get
<1> HIDE DEF m
<1>4. l \in Labels /\ (l = "idle" \/ (l = "refs" /\ m.head \in Node))
  BY <1>1, <1>2, ZenonT(30) DEF Loop, Labels
<1> HIDE DEF l
<1> QED BY <1>1, <1>2, <1>3, <1>4, ThreadFacts, QuietStep

\* try_get reads the refs of the head.
LEMMA GetRefsStep == ASSUME IInv, NEW t \in Thread, GetRefs(t) PROVE IInv'
<1> DEFINE r == refs[my[t].head]
           m == [my[t] EXCEPT !.seen = r]
           l == IF r.count = 0 THEN "reload" ELSE "count"
<1>0. pc[t] = "refs"
  BY ZenonT(30) DEF GetRefs
<1>1. my[t] \in Locals /\ my[t].head \in Node /\ r \in [count : Nat, flag : {0, 1}]
  BY <1>0, ThreadFacts, ZenonT(30)
<1>2. m \in Locals /\ m.head = my[t].head /\ m.seen = r
  BY <1>1, ZenonT(30) DEF Locals
<1>3. Goto(t, l, m) /\ UNCHANGED <<freeListHead, refs, link, used>>
  BY ZenonT(30) DEF GetRefs
<1> HIDE DEF m
<1>4. l \in Labels /\ (l = "reload" \/ (l = "count" /\ m.seen.count > 0))
  BY <1>1, <1>2 DEF Labels
<1> HIDE DEF l
<1> QED BY <1>0, <1>1, <1>2, <1>3, <1>4, ThreadFacts, QuietStep

\* try_get reads the link of the head, which it counts.
LEMMA GetNextStep == ASSUME IInv, NEW t \in Thread, GetNext(t) PROVE IInv'
<1> DEFINE m == [my[t] EXCEPT !.next = link[my[t].head]]
<1>0. pc[t] = "next"
  BY ZenonT(30) DEF GetNext
<1>1. my[t] \in Locals /\ my[t].head \in Node /\ link \in Links
  BY <1>0, ThreadFacts, ZenonT(30)
<1>2. m \in Locals /\ m.head = my[t].head /\ m.next = link[m.head]
  BY <1>1, ZenonT(30) DEF Locals, Links
<1>3. Goto(t, "pop", m) /\ UNCHANGED <<freeListHead, refs, link, used>>
  BY ZenonT(30) DEF GetNext
<1> HIDE DEF m
<1> QED BY <1>0, <1>1, <1>2, <1>3, ThreadFacts, QuietStep DEF Labels

\* The compare-exchange of the refs fails.
LEMMA GetCountFails ==
  ASSUME IInv, NEW t \in Thread, GetCount(t), refs[my[t].head] # my[t].seen
  PROVE  IInv'
<1>1. pc[t] = "count" /\ my[t] \in Locals
  BY ThreadFacts, ZenonT(30) DEF GetCount
<1>2. Goto(t, "reload", my[t]) /\ UNCHANGED <<freeListHead, refs, link, used>>
  BY ZenonT(30) DEF GetCount
<1> QED BY <1>1, <1>2, ThreadFacts, QuietStep DEF Labels

\* The compare-exchange of the head fails in add,
LEMMA AddPushFails ==
  ASSUME IInv, NEW t \in Thread, AddPush(t), freeListHead # my[t].next
  PROVE  IInv'
<1> DEFINE m == [my[t] EXCEPT !.next = freeListHead]
<1>1. pc[t] = "push" /\ my[t] \in Locals /\ freeListHead \in Node \cup {Null}
  BY ThreadFacts, ZenonT(30) DEF AddPush
<1>2. m \in Locals /\ m.node = my[t].node
  BY <1>1, ZenonT(30) DEF Locals
<1>3. Goto(t, "undo", m) /\ UNCHANGED <<freeListHead, refs, link, used>>
  BY ZenonT(30) DEF AddPush
<1> HIDE DEF m
<1> QED BY <1>1, <1>2, <1>3, ThreadFacts, QuietStep DEF Labels

\* and in try_get.
LEMMA GetPopFails ==
  ASSUME IInv, NEW t \in Thread, GetPop(t), freeListHead # my[t].head
  PROVE  IInv'
<1> DEFINE m == [my[t] EXCEPT !.node = my[t].head, !.head = freeListHead]
<1>1. pc[t] = "pop" /\ my[t] \in Locals /\ freeListHead \in Node \cup {Null}
  BY ThreadFacts, ZenonT(30) DEF GetPop
<1>2. m \in Locals /\ m.node = my[t].head
  BY <1>1, ZenonT(30) DEF Locals
<1>3. Goto(t, "drop", m) /\ UNCHANGED <<freeListHead, refs, link, used>>
  BY ZenonT(30) DEF GetPop
<1> HIDE DEF m
<1> QED BY <1>1, <1>2, <1>3, ThreadFacts, QuietStep DEF Labels

-----------------------------------------------------------------------------
\* Steps that change a node

\* A node that thread t deals with as before, or not at all, stays as it is.
LEMMA OtherNode ==
  ASSUME IInv, NEW t \in Thread, NEW l \in Labels, NEW m \in Locals, Goto(t, l, m),
         NEW n \in Node,
         l \in {"load", "link", "one"} /\ m.node = n <=> t \in Putting(n),
         l \in {"push", "undo"} /\ m.node = n <=> t \in Pushing(n),
         l = "got" /\ m.head = n <=> t \in Taking(n),
         \/ l \in {"next", "pop", "got"} /\ m.head = n
         \/ l = "drop" /\ m.node = n
         <=> t \in Counting(n),
         refs'[n] = refs[n], n \in OnList' <=> n \in OnList, n \in used' <=> n \in used
  PROVE  PlaceOK(n)' /\ CountOK(n)'
<1>1. /\ Putting(n)' = IF t \in Putting(n) THEN Putting(n) \cup {t} ELSE Putting(n) \ {t}
      /\ Pushing(n)' = IF t \in Pushing(n) THEN Pushing(n) \cup {t} ELSE Pushing(n) \ {t}
      /\ Taking(n)' = IF t \in Taking(n) THEN Taking(n) \cup {t} ELSE Taking(n) \ {t}
      /\ Counting(n)' = IF t \in Counting(n) THEN Counting(n) \cup {t} ELSE Counting(n) \ {t}
  <2>1. TypeOK
    BY ZenonT(30) DEF IInv
  <2> QED BY <2>1, GotoSets
<1>2. /\ Putting(n)' = Putting(n) /\ Pushing(n)' = Pushing(n)
      /\ Taking(n)' = Taking(n) /\ Counting(n)' = Counting(n)
  BY <1>1
<1> QED BY <1>2, SameNode, ZenonT(30) DEF IInv

\* What the invariant says of the place of node n,
LEMMA NodePlace ==
  ASSUME IInv, NEW n \in Node
  PROVE  PlaceOK(n)
BY ZenonT(30) DEF IInv

\* of its refs,
LEMMA NodeRefs ==
  ASSUME IInv, NEW n \in Node
  PROVE  /\ refs[n].count \in Nat /\ refs[n].flag \in {0, 1}
         /\ refs[n] = Ref(refs[n].count, refs[n].flag)
<1>1. refs[n] \in [count : Nat, flag : {0, 1}]
  BY ZenonT(30) DEF IInv, TypeOK
<1> QED BY <1>1, ZenonT(30) DEF Ref

\* and of the threads that count it.
LEMMA NodeCount ==
  ASSUME IInv, NEW n \in Node
  PROVE  /\ refs[n].count = Cardinality(Counting(n)) + Listed(n)
         /\ Cardinality(Counting(n)) \in Nat /\ Listed(n) \in {0, 1}
         /\ IsFiniteSet(Counting(n))
<1>1. IsFiniteSet(Counting(n)) /\ Cardinality(Counting(n)) \in Nat
  <2>1. Counting(n) \in SUBSET Thread
    BY ZenonT(30) DEF Counting
  <2> QED BY <2>1, FreeListAssumption, FS_Subset, FS_CardinalityType, ZenonT(30)
<1>2. Listed(n) \in {0, 1}
  BY ZenonT(30) DEF Listed
<1> QED BY <1>1, <1>2, ZenonT(30) DEF IInv, CountOK

\* A step of thread t that changes node n only, and leaves n right, preserves the
\* invariant.
LEMMA NodeStep ==
  ASSUME IInv, NEW t \in Thread, NEW l \in Labels, NEW m \in Locals, Goto(t, l, m),
         l \in {"refs", "count", "next", "pop", "got"} => m.head \in Node,
         l \in {"load", "link", "one", "push", "undo", "drop"} => m.node \in Node,
         l # "count", LinksOK', Acyclic',
         freeListHead' \in Node \cup {Null}, link' \in Links, used' \subseteq Node,
         refs' \in [Node -> [count : Nat, flag : {0, 1}]],
         NEW n \in Node, PlaceOK(n)', CountOK(n)',
         \A k \in Node \ {n} :
           /\ l \in {"load", "link", "one"} /\ m.node = k <=> t \in Putting(k)
           /\ l \in {"push", "undo"} /\ m.node = k <=> t \in Pushing(k)
           /\ l = "got" /\ m.head = k <=> t \in Taking(k)
           /\ \/ l \in {"next", "pop", "got"} /\ m.head = k
              \/ l = "drop" /\ m.node = k
              <=> t \in Counting(k)
           /\ refs'[k] = refs[k]
           /\ k \in OnList' <=> k \in OnList
           /\ k \in used' <=> k \in used
  PROVE  IInv'
<1>1. TypeOK'
  BY GotoFacts DEF IInv, TypeOK, Labels, Links
<1>2. LocalsOK'
  BY GotoLocals, ZenonT(30)
<1>3. \A k \in Node \ {n} : PlaceOK(k)' /\ CountOK(k)'
  BY OtherNode, ZenonT(30)
<1> QED BY <1>1, <1>2, <1>3, ZenonT(30) DEF IInv

\* For the nodes other than n, t is in the same sets with label l and locals m as
\* before, and neither their counts nor their places change.
Elsewhere(t, n, l, m) ==
  \A k \in Node \ {n} :
    /\ l \in {"load", "link", "one"} /\ m.node = k <=> t \in Putting(k)
    /\ l \in {"push", "undo"} /\ m.node = k <=> t \in Pushing(k)
    /\ l = "got" /\ m.head = k <=> t \in Taking(k)
    /\ \/ l \in {"next", "pop", "got"} /\ m.head = k
       \/ l = "drop" /\ m.node = k
       <=> t \in Counting(k)
    /\ refs'[k] = refs[k]
    /\ k \in OnList' <=> k \in OnList
    /\ k \in used' <=> k \in used

\* NodeStep for a thread that goes on with a head.
LEMMA HeadStep ==
  ASSUME IInv, NEW t \in Thread, NEW l \in Labels, NEW m \in Locals, Goto(t, l, m),
         m.head \in Node, l \in {"next", "got"}, LinksOK', Acyclic',
         freeListHead' \in Node \cup {Null}, link' \in Links, used' \subseteq Node,
         refs' \in [Node -> [count : Nat, flag : {0, 1}]],
         NEW n \in Node, PlaceOK(n)', CountOK(n)', Elsewhere(t, n, l, m)
  PROVE  IInv'
<1>1. l \notin {"load", "link", "one", "push", "undo", "drop"} /\ l # "count"
  OBVIOUS
<1> QED BY <1>1, NodeStep DEF Elsewhere

\* add gives the node the list's count.
LEMMA AddOneStep == ASSUME IInv, NEW t \in Thread, AddOne(t) PROVE IInv'
<1>0. pc[t] = "one"
  BY ZenonT(30) DEF AddOne
<1>1. PICK n \in Node : n = my[t].node
  BY <1>0, ThreadFacts, ZenonT(30)
<1>2. /\ my[t] \in Locals /\ link[n] = my[t].next /\ "push" \in Labels
      /\ t \in Putting(n) /\ t \notin Pushing(n) /\ t \notin Taking(n) /\ t \notin Counting(n)
  BY <1>0, <1>1, ThreadFacts, ZenonT(30) DEF Labels
<1>3. /\ Goto(t, "push", my[t]) /\ UNCHANGED <<freeListHead, link, used>>
      /\ refs' = [refs EXCEPT ![n] = Ref(1, 0)]
  BY <1>1, ZenonT(30) DEF AddOne
<1>4. /\ refs' \in [Node -> [count : Nat, flag : {0, 1}]]
      /\ refs'[n] = Ref(1, 0) /\ \A k \in Node \ {n} : refs'[k] = refs[k]
  BY <1>3, ZenonT(30) DEF IInv, TypeOK, Ref
<1>5. LinksOK' /\ OnList' = OnList /\ Acyclic'
  BY <1>1, <1>2, <1>3, GotoLinks, SameList, ZenonT(30) DEF IInv
<1>6. /\ Putting(n)' = Putting(n) \ {t} /\ Pushing(n)' = Pushing(n) \cup {t}
      /\ Taking(n)' = Taking(n) \ {t} /\ Counting(n)' = Counting(n) \ {t}
  BY <1>1, <1>2, <1>3, GotoSets DEF IInv
<1>7. /\ Putting(n)' = {} /\ Pushing(n)' = {t} /\ Taking(n)' = {}
      /\ Counting(n)' = Counting(n) /\ n \notin OnList \cup used /\ refs[n] = Ref(0, 1)
  BY <1>2, <1>6, NodePlace, NodeRefs DEF PlaceOK, Ref, Holding
<1>8. PlaceOK(n)'
  BY <1>3, <1>4, <1>5, <1>7, NodePlace, NodeRefs DEF PlaceOK, Ref, Holding
<1>9. CountOK(n)'
  <2>1. Cardinality(Counting(n)) = 0
    BY <1>7, NodeCount, NodeRefs DEF Ref
  <2>2. Listed(n)' = 1
    BY <1>7, ZenonT(30) DEF Listed
  <2> QED BY <1>4, <1>7, <2>1, <2>2, NodeCount DEF CountOK, Ref
<1>10. \A k \in Node \ {n} : /\ my[t].node # k
                             /\ t \notin Putting(k) /\ t \notin Pushing(k)
                             /\ t \notin Taking(k) /\ t \notin Counting(k)
  BY <1>0, <1>1, ThreadFacts, ZenonT(30)
<1>11. freeListHead' \in Node \cup {Null} /\ link' \in Links /\ used' \subseteq Node
  BY <1>3, ZenonT(30) DEF IInv, TypeOK, Links
<1> QED BY <1>1, <1>2, <1>3, <1>4, <1>5, <1>8, <1>9, <1>10, <1>11, NodeStep

\* add flags a node that was in use; it may be counted still.
LEMMA AddStep == ASSUME IInv, NEW t \in Thread, NEW n \in Node, Add(t, n) PROVE IInv'
<1> DEFINE m == [my[t] EXCEPT !.node = n]
           l == IF refs[n] = Ref(0, 0) THEN "load" ELSE "idle"
<1>0. pc[t] = "idle" /\ n \in used
  BY ZenonT(30) DEF Add
<1>1. my[t] \in Locals /\ m \in Locals /\ m.node = n
  BY ThreadFacts DEF Locals
<1>2. /\ Goto(t, l, m) /\ UNCHANGED <<freeListHead, link>> /\ used' = used \ {n}
      /\ refs' = [refs EXCEPT ![n].flag = 1]
  BY ZenonT(30) DEF Add
<1> HIDE DEF m
<1>3. /\ refs' \in [Node -> [count : Nat, flag : {0, 1}]]
      /\ refs'[n] = Ref(refs[n].count, 1) /\ \A k \in Node \ {n} : refs'[k] = refs[k]
  BY <1>2 DEF IInv, TypeOK, Ref
<1>4. l \in Labels /\ l \in {"load", "idle"}
  BY ZenonT(30) DEF Labels
<1>5. Holding(n) = {} /\ n \notin OnList /\ refs[n].flag = 0
  BY <1>0, NodePlace, NodeRefs, ZenonT(30) DEF PlaceOK, Ref
<1>6. l = "idle" => refs[n].count > 0
  BY <1>5, NodeCount, NodeRefs DEF Ref
<1>7. l = "load" => refs'[n] = Ref(0, 1)
  BY <1>3 DEF Ref
<1> HIDE DEF l
<1>8. LinksOK' /\ OnList' = OnList /\ Acyclic'
  BY <1>1, <1>2, <1>4, GotoLinks, SameList, ZenonT(30) DEF IInv
<1>9. /\ \A k \in Node : t \notin Putting(k) /\ t \notin Pushing(k)
                         /\ t \notin Taking(k) /\ t \notin Counting(k)
  BY <1>0, ThreadFacts, ZenonT(30)
<1>10. /\ Putting(n)' = IF l = "load" THEN {t} ELSE {}
       /\ Pushing(n)' = {} /\ Taking(n)' = {} /\ Counting(n)' = Counting(n)
  <2>1. /\ Putting(n)' = IF l = "load" THEN Putting(n) \cup {t} ELSE Putting(n) \ {t}
        /\ Pushing(n)' = Pushing(n) \ {t} /\ Taking(n)' = Taking(n) \ {t}
        /\ Counting(n)' = Counting(n) \ {t}
    BY <1>1, <1>2, <1>4, GotoSets DEF IInv
  <2> QED BY <1>5, <1>9, <2>1, ZenonT(30) DEF Holding
<1>11. PlaceOK(n)'
  BY <1>2, <1>3, <1>4, <1>5, <1>6, <1>7, <1>8, <1>10, NodePlace, NodeRefs
     DEF PlaceOK, Ref, Holding
<1>12. CountOK(n)'
  <2>1. Listed(n) = 0 /\ Listed(n)' = 0
    BY <1>5, <1>8, <1>10, ZenonT(30) DEF Listed, Holding
  <2> QED BY <1>3, <1>10, <2>1, NodeCount DEF CountOK, Ref
<1>13. freeListHead' \in Node \cup {Null} /\ link' \in Links /\ used' \subseteq Node
  BY <1>2, ZenonT(30) DEF IInv, TypeOK, Links
<1> QED BY <1>1, <1>2, <1>3, <1>4, <1>8, <1>9, <1>11, <1>12, <1>13, NodeStep

\* add links the node, which nobody counts and which is not on the list.
LEMMA AddLinkStep == ASSUME IInv, NEW t \in Thread, AddLink(t) PROVE IInv'
<1>0. pc[t] = "link"
  BY ZenonT(30) DEF AddLink
<1>1. PICK n \in Node : n = my[t].node
  BY <1>0, ThreadFacts, ZenonT(30)
<1>2. /\ my[t] \in Locals /\ my[t].next \in Node \cup {Null} /\ "one" \in Labels
      /\ t \in Putting(n) /\ t \notin Pushing(n) /\ t \notin Taking(n) /\ t \notin Counting(n)
  BY <1>0, <1>1, ThreadFacts, ZenonT(30) DEF Labels, Locals
<1>3. /\ Goto(t, "one", my[t]) /\ UNCHANGED <<freeListHead, refs, used>>
      /\ link' = [link EXCEPT ![n] = my[t].next]
  BY <1>1, ZenonT(30) DEF AddLink
<1>4. /\ link \in Links /\ link' \in Links /\ freeListHead \in Node \cup {Null}
      /\ link'[n] = my[t].next /\ \A k \in Node \ {n} : link'[k] = link[k]
  BY <1>2, <1>3, ThreadFacts DEF Links
<1>5. /\ n \notin OnList \cup used /\ refs[n] = Ref(0, 1)
      /\ \A u \in Holding(n) : u = t
  BY <1>2, NodePlace, NodeRefs, ZenonT(30) DEF PlaceOK, Ref, Holding
<1>6. Counting(n) = {}
  <2>1. Cardinality(Counting(n)) = 0
    BY <1>5, NodeCount DEF Ref
  <2> QED BY <2>1, NodeCount, FS_EmptySet, ZenonT(30)
<1>7. OnList' = OnList
  <2>1. \A k \in OnList : link'[k] = link[k]
    BY <1>4, <1>5, FromClosed, ZenonT(30) DEF OnList
  <2>2. From(freeListHead, link') = From(freeListHead, link)
    BY <1>4, <2>1, FromSame, ZenonT(30) DEF OnList
  <2> QED BY <1>3, <2>2, ZenonT(30) DEF OnList
<1>8. Acyclic'
  <2> SUFFICES ASSUME NEW k \in OnList
               PROVE  k \notin From(link'[k], link')
    BY <1>7, ZenonT(30) DEF Acyclic
  <2>1. k \in Node /\ link[k] \in OnList \cup {Null} /\ OnList \subseteq Node
    BY <1>4, FromClosed, ZenonT(30) DEF OnList
  <2>2. From(link[k], link) \subseteq OnList
    BY <1>4, <2>1, FromClosed, FromLeast, ZenonT(30) DEF OnList
  <2>3. \A j \in From(link[k], link) : link'[j] = link[j]
    BY <1>4, <1>5, <2>1, <2>2, ZenonT(30)
  <2>4. From(link[k], link') = From(link[k], link)
    BY <1>4, <2>1, <2>3, FromSame
  <2>5. link'[k] = link[k]
    BY <1>4, <1>5, <2>1, ZenonT(30)
  <2> QED BY <2>4, <2>5, ZenonT(30) DEF IInv, Acyclic
<1>9. LinksOK'
  <2> SUFFICES ASSUME NEW u \in Thread
               PROVE  /\ pc'[u] = "pop" => link'[my'[u].head] = my'[u].next
                      /\ pc'[u] \in {"one", "push"} => link'[my'[u].node] = my'[u].next
    BY ZenonT(30) DEF LinksOK
  <2>1. CASE u = t
    BY <1>1, <1>2, <1>3, <1>4, <2>1, GotoFacts DEF IInv
  <2>2. CASE u # t
    <3>1. pc'[u] = pc[u] /\ my'[u] = my[u]
      BY <1>2, <1>3, <2>2, GotoFacts DEF IInv
    <3>2. pc[u] = "pop" => my[u].head \in Node /\ my[u].head # n
      BY <1>6, ThreadFacts, ZenonT(30)
    <3>3. pc[u] \in {"one", "push"} => my[u].node \in Node /\ my[u].node # n
      BY <1>5, <2>2, ThreadFacts, ZenonT(30) DEF Holding
    <3> QED BY <1>4, <3>1, <3>2, <3>3, ThreadFacts, SMTT(30)
  <2> QED BY <2>1, <2>2, ZenonT(30)
<1>10. PlaceOK(n)' /\ CountOK(n)'
  <2>1. /\ "one" \in {"load", "link", "one"} /\ my[t].node = n <=> t \in Putting(n)
        /\ "one" \in {"push", "undo"} /\ my[t].node = n <=> t \in Pushing(n)
        /\ "one" = "got" /\ my[t].head = n <=> t \in Taking(n)
        /\ \/ "one" \in {"next", "pop", "got"} /\ my[t].head = n
           \/ "one" = "drop" /\ my[t].node = n
           <=> t \in Counting(n)
    BY <1>1, <1>2, ZenonT(30)
  <2> QED BY <1>2, <1>3, <1>7, <2>1, OtherNode, ZenonT(30)
<1>11. \A k \in Node \ {n} : /\ my[t].node # k
                             /\ t \notin Putting(k) /\ t \notin Pushing(k)
                             /\ t \notin Taking(k) /\ t \notin Counting(k)
  BY <1>0, <1>1, ThreadFacts
<1>12. /\ freeListHead' \in Node \cup {Null} /\ used' \subseteq Node
       /\ refs' \in [Node -> [count : Nat, flag : {0, 1}]]
  BY <1>3, ZenonT(30) DEF IInv, TypeOK
<1>13. /\ Goto(t, "one", my[t]) /\ my[t] \in Locals /\ "one" \in Labels /\ link' \in Links
       /\ my[t].node = n
       /\ \A k \in Node : /\ refs'[k] = refs[k]
                          /\ k \in OnList' <=> k \in OnList
                          /\ k \in used' <=> k \in used
  BY <1>1, <1>2, <1>3, <1>4, <1>7, ZenonT(30)
<1> QED BY <1>8, <1>9, <1>10, <1>11, <1>12, <1>13, NodeStep

\* add puts the node on the list.
LEMMA AddPushStep ==
  ASSUME IInv, NEW t \in Thread, AddPush(t), freeListHead = my[t].next
  PROVE  IInv'
<1> DEFINE l == Loop(my[t].head)
<1>0. pc[t] = "push"
  BY ZenonT(30) DEF AddPush
<1>1. PICK n \in Node : n = my[t].node
  BY <1>0, ThreadFacts, ZenonT(30)
<1>2. /\ my[t] \in Locals /\ my[t].head \in Node \cup {Null} /\ link[n] = my[t].next
      /\ t \in Pushing(n) /\ t \notin Counting(n)
  BY <1>0, <1>1, ThreadFacts, ZenonT(30) DEF Locals
<1>3. Goto(t, l, my[t]) /\ UNCHANGED <<refs, link, used>> /\ freeListHead' = n
  BY <1>1, ZenonT(30) DEF AddPush
<1>4. l \in Labels /\ (l = "idle" \/ (l = "refs" /\ my[t].head \in Node))
  BY <1>2, ZenonT(30) DEF Loop, Labels
<1> HIDE DEF l
<1>5. /\ Putting(n)' = {} /\ Pushing(n)' = {} /\ Taking(n)' = {} /\ Counting(n)' = Counting(n)
      /\ n \notin OnList \cup used /\ refs[n].flag = 0
  <2>1. /\ Putting(n)' = Putting(n) \ {t} /\ Pushing(n)' = Pushing(n) \ {t}
        /\ Taking(n)' = Taking(n) \ {t} /\ Counting(n)' = Counting(n) \ {t}
    BY <1>2, <1>3, <1>4, GotoSets DEF IInv
  <2> QED BY <1>2, <2>1, NodePlace, NodeRefs DEF PlaceOK, Ref, Holding
<1>6. OnList' = {n} \cup OnList
  <2>1. From(n, link) = {n} \cup From(link[n], link)
    BY FromNext, ThreadFacts
  <2> QED BY <1>2, <1>3, <2>1, ZenonT(30) DEF OnList
<1>7. Acyclic'
  BY <1>2, <1>3, <1>5, <1>6, ZenonT(30) DEF IInv, Acyclic, OnList
<1>8. LinksOK'
  BY <1>2, <1>3, <1>4, GotoLinks, ZenonT(30)
<1>9. PlaceOK(n)'
  BY <1>3, <1>5, <1>6, ZenonT(30) DEF PlaceOK, Holding
<1>10. CountOK(n)'
  <2>1. Listed(n) = 1 /\ Listed(n)' = 1
    BY <1>2, <1>6, ZenonT(30) DEF Listed
  <2> QED BY <1>3, <1>5, <2>1, NodeCount, ZenonT(30) DEF CountOK, Ref
<1>11. \A k \in Node \ {n} : /\ t \notin Putting(k) /\ t \notin Pushing(k)
                             /\ t \notin Taking(k) /\ t \notin Counting(k)
  BY <1>0, <1>1, ThreadFacts, ZenonT(30)
<1>12. /\ freeListHead' \in Node \cup {Null} /\ link' \in Links /\ used' \subseteq Node
       /\ refs' \in [Node -> [count : Nat, flag : {0, 1}]]
  BY <1>3, ZenonT(30) DEF IInv, TypeOK, Links
<1>13. \A k \in Node \ {n} : /\ refs'[k] = refs[k]
                             /\ k \in OnList' <=> k \in OnList
                             /\ k \in used' <=> k \in used
  BY <1>3, <1>6, ZenonT(30)
<1> QED BY <1>2, <1>3, <1>4, <1>7, <1>8, <1>9, <1>10, <1>11, <1>12, <1>13, NodeStep, SMTT(30)

\* add takes the list's count back and tries again, or leaves the node flagged.
LEMMA AddUndoStep == ASSUME IInv, NEW t \in Thread, AddUndo(t) PROVE IInv'
<1> DEFINE l == IF refs[my[t].node] = Ref(1, 0) THEN "link" ELSE Loop(my[t].head)
<1>0. pc[t] = "undo"
  BY ZenonT(30) DEF AddUndo
<1>1. PICK n \in Node : n = my[t].node
  BY <1>0, ThreadFacts, ZenonT(30)
<1>2. /\ my[t] \in Locals /\ my[t].head \in Node \cup {Null}
      /\ t \in Pushing(n) /\ t \notin Counting(n) /\ t \notin Putting(n) /\ t \notin Taking(n)
  BY <1>0, <1>1, ThreadFacts, ZenonT(30) DEF Locals
<1>3. /\ Goto(t, l, my[t]) /\ UNCHANGED <<freeListHead, link, used>>
      /\ refs' = [refs EXCEPT ![n] = Ref(@.count - 1, 1)]
  BY <1>1, ZenonT(30) DEF AddUndo
<1>4. /\ l \in Labels
      /\ \/ l = "link" /\ refs[n] = Ref(1, 0)
         \/ refs[n] # Ref(1, 0) /\ (l = "idle" \/ (l = "refs" /\ my[t].head \in Node))
  BY <1>1, <1>2, ZenonT(30) DEF Loop, Labels
<1> HIDE DEF l
<1>5. /\ n \notin OnList \cup used /\ refs[n].flag = 0
      /\ Putting(n) = {} /\ Taking(n) = {} /\ Pushing(n) = {t}
  <2>1. t \in Holding(n) /\ \A u \in Holding(n) : u = t
    BY <1>2, NodePlace, NodeRefs, ZenonT(30) DEF PlaceOK, Ref, Holding
  <2>2. Putting(n) = {} /\ Taking(n) = {} /\ Pushing(n) = {t}
    BY <1>2, <2>1, ZenonT(30) DEF Holding
  <2> QED BY <1>2, <2>1, <2>2, NodePlace, NodeRefs, ZenonT(30) DEF PlaceOK, Ref
<1>6. refs[n].count = Cardinality(Counting(n)) + 1 /\ Cardinality(Counting(n)) \in Nat
  <2>1. Listed(n) = 1
    BY <1>2, ZenonT(30) DEF Listed
  <2> QED BY <2>1, NodeCount, NodeRefs, ZenonT(30) DEF Ref
<1>7. /\ refs' \in [Node -> [count : Nat, flag : {0, 1}]]
      /\ refs'[n] = Ref(Cardinality(Counting(n)), 1)
      /\ \A k \in Node \ {n} : refs'[k] = refs[k]
  <2>1. refs[n].count - 1 = Cardinality(Counting(n))
    BY <1>6
  <2>2. refs' = [refs EXCEPT ![n] = Ref(Cardinality(Counting(n)), 1)]
    BY <1>3, <2>1, ZenonT(30) DEF IInv, TypeOK
  <2> QED BY <1>6, <2>2, ZenonT(30) DEF IInv, TypeOK, Ref
<1>8. /\ Putting(n)' = IF l = "link" THEN {t} ELSE {}
      /\ Pushing(n)' = {} /\ Taking(n)' = {} /\ Counting(n)' = Counting(n)
  <2>1. /\ Putting(n)' = IF l = "link" THEN Putting(n) \cup {t} ELSE Putting(n) \ {t}
        /\ Pushing(n)' = Pushing(n) \ {t} /\ Taking(n)' = Taking(n) \ {t}
        /\ Counting(n)' = Counting(n) \ {t}
    <3>1. TypeOK
      BY ZenonT(30) DEF IInv
    <3>2. CASE l = "link"
      BY <1>1, <1>2, <1>3, <1>4, <3>1, <3>2, GotoSets
    <3>3. CASE l \in {"idle", "refs"}
      BY <1>2, <1>3, <1>4, <3>1, <3>3, GotoSets
    <3> QED BY <1>4, <3>2, <3>3, ZenonT(30)
  <2> QED BY <1>2, <1>5, <2>1
<1>9. OnList' = OnList /\ Acyclic' /\ LinksOK'
  BY <1>2, <1>3, <1>4, GotoLinks, SameList, ZenonT(30) DEF IInv
<1>10. IF l = "link" THEN refs'[n] = Ref(0, 1) ELSE refs'[n].count > 0
  <2>1. l = "link" => Cardinality(Counting(n)) = 0
    BY <1>4, <1>6, NodeCount, NodeRefs DEF Ref
  <2>2. l # "link" => Cardinality(Counting(n)) > 0
    BY <1>4, <1>5, <1>6, NodeCount, NodeRefs DEF Ref
  <2> QED BY <1>7, <2>1, <2>2, NodeCount, NodeRefs DEF Ref
<1>11. PlaceOK(n)'
  <2>1. refs'[n].flag = 1
    BY <1>7 DEF Ref
  <2> QED BY <1>3, <1>5, <1>8, <1>9, <1>10, <2>1, ZenonT(30) DEF PlaceOK, Holding
<1>12. CountOK(n)'
  <2>1. Listed(n)' = 0
    BY <1>5, <1>8, <1>9, ZenonT(30) DEF Listed
  <2>2. refs'[n].count = Cardinality(Counting(n))
    BY <1>7 DEF Ref
  <2> QED BY <1>6, <1>8, <2>1, <2>2 DEF CountOK
<1>13. \A k \in Node \ {n} : /\ t \notin Putting(k) /\ t \notin Pushing(k) /\ my[t].node # k
                             /\ t \notin Taking(k) /\ t \notin Counting(k)
  BY <1>0, <1>1, ThreadFacts, ZenonT(30)
<1>14. /\ freeListHead' \in Node \cup {Null} /\ link' \in Links /\ used' \subseteq Node
       /\ used' = used /\ my[t].node \in Node
  BY <1>1, <1>3, ZenonT(30) DEF IInv, TypeOK, Links
<1> QED BY <1>2, <1>3, <1>4, <1>7, <1>9, <1>11, <1>12, <1>13, <1>14, NodeStep, SMTT(30)

\* try_get counts a node whose count was not zero.
LEMMA GetCountStep ==
  ASSUME IInv, NEW t \in Thread, GetCount(t), refs[my[t].head] = my[t].seen
  PROVE  IInv'
<1>0. pc[t] = "count"
  BY ZenonT(30) DEF GetCount
<1>1. PICK n \in Node : n = my[t].head
  BY <1>0, ThreadFacts, ZenonT(30)
<1>2. /\ my[t] \in Locals /\ refs[n].count > 0 /\ "next" \in Labels
      /\ \A k \in Node : /\ t \notin Putting(k) /\ t \notin Pushing(k)
                         /\ t \notin Taking(k) /\ t \notin Counting(k)
  BY <1>0, <1>1, ThreadFacts, ZenonT(30) DEF Labels
<1>3. /\ Goto(t, "next", my[t]) /\ UNCHANGED <<freeListHead, link, used>>
      /\ refs' = [refs EXCEPT ![n].count = @ + 1]
  BY <1>1, ZenonT(30) DEF GetCount
<1>4. /\ refs' \in [Node -> [count : Nat, flag : {0, 1}]]
      /\ refs'[n] = Ref(refs[n].count + 1, refs[n].flag)
      /\ \A k \in Node \ {n} : refs'[k] = refs[k]
  BY <1>3 DEF IInv, TypeOK, Ref
<1>5. /\ Putting(n)' = Putting(n) /\ Pushing(n)' = Pushing(n) /\ Taking(n)' = Taking(n)
      /\ Counting(n)' = Counting(n) \cup {t}
  <2>1. /\ Putting(n)' = Putting(n) \ {t} /\ Pushing(n)' = Pushing(n) \ {t}
        /\ Taking(n)' = Taking(n) \ {t} /\ Counting(n)' = Counting(n) \cup {t}
    BY <1>1, <1>2, <1>3, GotoSets DEF IInv
  <2> QED BY <1>2, <2>1, ZenonT(30)
<1>6. OnList' = OnList /\ Acyclic' /\ LinksOK'
  BY <1>2, <1>3, GotoLinks, SameList, ZenonT(30) DEF IInv
<1>7. Putting(n) = {}
  BY <1>2, NodePlace, NodeRefs DEF PlaceOK, Ref
<1>8. PlaceOK(n)'
  BY <1>3, <1>4, <1>5, <1>6, <1>7, NodePlace, NodeRefs DEF PlaceOK, Ref, Holding
<1>9. CountOK(n)'
  <2>1. Cardinality(Counting(n) \cup {t}) = Cardinality(Counting(n)) + 1
    BY <1>2, NodeCount, FS_AddElement, ZenonT(30)
  <2>2. Listed(n)' = Listed(n)
    BY <1>5, <1>6, ZenonT(30) DEF Listed
  <2> QED BY <1>4, <1>5, <2>1, <2>2, NodeCount DEF CountOK, Ref
<1>10. freeListHead' \in Node \cup {Null} /\ link' \in Links /\ used' \subseteq Node
  BY <1>3, ZenonT(30) DEF IInv, TypeOK, Links
<1>11. PICK l \in Labels : l = "next"
  BY <1>2, ZenonT(30)
<1>12. /\ Goto(t, l, my[t]) /\ my[t].head \in Node /\ l \in {"next", "got"}
       /\ \A k \in Node \ {n} : my[t].head # k
  BY <1>1, <1>3, <1>11, ZenonT(30)
<1>13. l \notin {"load", "link", "one", "push", "undo", "got", "drop"}
  BY <1>11
<1>14. \A k \in Node \ {n} : /\ k \in OnList' <=> k \in OnList
                             /\ k \in used' <=> k \in used
  BY <1>3, <1>6, ZenonT(30)
<1>15. Elsewhere(t, n, l, my[t])
  BY <1>2, <1>4, <1>12, <1>13, <1>14, ZenonT(30) DEF Elsewhere
<1> QED BY <1>2, <1>4, <1>6, <1>8, <1>9, <1>10, <1>12, <1>15, HeadStep, ZenonT(30)

\* try_get takes the head off the list.
LEMMA GetPopStep ==
  ASSUME IInv, NEW t \in Thread, GetPop(t), freeListHead = my[t].head
  PROVE  IInv'
<1>0. pc[t] = "pop"
  BY ZenonT(30) DEF GetPop
<1>1. PICK n \in Node : n = my[t].head
  BY <1>0, ThreadFacts, ZenonT(30)
<1>2. /\ my[t] \in Locals /\ link[n] = my[t].next /\ my[t].next \in Node \cup {Null}
      /\ "got" \in Labels /\ t \in Counting(n)
      /\ \A k \in Node : t \notin Putting(k) /\ t \notin Pushing(k) /\ t \notin Taking(k)
      /\ \A k \in Node \ {n} : my[t].head # k /\ t \notin Counting(k)
  BY <1>0, <1>1, ThreadFacts, ZenonT(30) DEF Labels, Locals
<1>3. Goto(t, "got", my[t]) /\ UNCHANGED <<refs, link, used>> /\ freeListHead' = link[n]
  BY <1>1, <1>2, ZenonT(30) DEF GetPop
<1>4. OnList = {n} \cup OnList' /\ n \in OnList
  <2>1. From(n, link) = {n} \cup From(link[n], link)
    BY FromNext, ThreadFacts, SMTT(30)
  <2> QED BY <1>1, <1>3, <2>1, ZenonT(30) DEF OnList
<1>5. n \notin OnList'
  BY <1>3, <1>4, ZenonT(30) DEF IInv, Acyclic, OnList
<1>6. Acyclic' /\ LinksOK'
  <2>1. LinksOK'
    BY <1>2, <1>3, GotoLinks, ZenonT(30)
  <2> QED BY <1>3, <1>4, <2>1, ZenonT(30) DEF IInv, Acyclic
<1>7. Holding(n) = {} /\ n \notin used /\ refs[n].flag = 0
  BY <1>4, NodePlace, NodeRefs, ZenonT(30) DEF PlaceOK, Ref
<1>8. Putting(n)' = {} /\ Pushing(n)' = {} /\ Taking(n)' = {t} /\ Counting(n)' = Counting(n)
  <2>1. /\ Putting(n)' = Putting(n) \ {t} /\ Pushing(n)' = Pushing(n) \ {t}
        /\ Taking(n)' = Taking(n) \cup {t} /\ Counting(n)' = Counting(n) \cup {t}
    BY <1>1, <1>2, <1>3, GotoSets, SMTT(30) DEF IInv
  <2> QED BY <1>2, <1>7, <2>1, ZenonT(30) DEF Holding
<1>9. PlaceOK(n)'
  BY <1>3, <1>5, <1>7, <1>8, ZenonT(30) DEF PlaceOK, Holding
<1>10. CountOK(n)'
  <2>1. Listed(n) = 1 /\ Listed(n)' = 1
    BY <1>4, <1>8, ZenonT(30) DEF Listed
  <2> QED BY <1>3, <1>8, <2>1, NodeCount, ZenonT(30) DEF CountOK, Ref
<1>11. /\ freeListHead' \in Node \cup {Null} /\ link' \in Links /\ used' \subseteq Node
       /\ refs' \in [Node -> [count : Nat, flag : {0, 1}]]
  BY <1>2, <1>3, ZenonT(30) DEF IInv, TypeOK, Links
<1>12. \A k \in Node \ {n} : /\ refs'[k] = refs[k]
                             /\ k \in OnList' <=> k \in OnList
                             /\ k \in used' <=> k \in used
  BY <1>3, <1>4, ZenonT(30)
<1>13. PICK l \in Labels : l = "got"
  BY <1>2, ZenonT(30)
<1>14. \A k \in Node \ {n} :
         /\ l \in {"load", "link", "one"} /\ my[t].node = k <=> t \in Putting(k)
         /\ l \in {"push", "undo"} /\ my[t].node = k <=> t \in Pushing(k)
         /\ l = "got" /\ my[t].head = k <=> t \in Taking(k)
         /\ \/ l \in {"next", "pop", "got"} /\ my[t].head = k
            \/ l = "drop" /\ my[t].node = k
            <=> t \in Counting(k)
  BY <1>2, <1>13, ZenonT(30)
<1>15. /\ l # "count" /\ Goto(t, l, my[t]) /\ my[t].head \in Node
       /\ l \notin {"load", "link", "one", "push", "undo", "drop"}
  BY <1>1, <1>3, <1>13, ZenonT(30)
<1>16. Elsewhere(t, n, l, my[t])
  BY <1>12, <1>14, ZenonT(30) DEF Elsewhere
<1> QED BY <1>2, <1>6, <1>9, <1>10, <1>11, <1>13, <1>15, <1>16, HeadStep, ZenonT(30)

\* try_get drops the list's count and its own and hands the node out.
LEMMA GetGotStep == ASSUME IInv, NEW t \in Thread, GetGot(t) PROVE IInv'
<1>0. pc[t] = "got"
  BY ZenonT(30) DEF GetGot
<1>1. PICK n \in Node : n = my[t].head
  BY <1>0, ThreadFacts, ZenonT(30)
<1>2. /\ my[t] \in Locals /\ "idle" \in Labels /\ t \in Counting(n) /\ t \in Taking(n)
      /\ \A k \in Node : t \notin Putting(k) /\ t \notin Pushing(k)
      /\ \A k \in Node \ {n} : t \notin Counting(k) /\ t \notin Taking(k)
  BY <1>0, <1>1, ThreadFacts DEF Labels
<1>3. /\ Goto(t, "idle", my[t]) /\ UNCHANGED <<freeListHead, link>>
      /\ used' = used \cup {n} /\ refs' = [refs EXCEPT ![n].count = @ - 2]
  BY <1>1, ZenonT(30) DEF GetGot
<1>4. /\ Cardinality(Counting(n) \ {t}) = Cardinality(Counting(n)) - 1
      /\ Cardinality(Counting(n) \ {t}) \in Nat
  BY <1>2, NodeCount, FS_RemoveElement, FS_CardinalityType, ZenonT(30)
<1>5. /\ Listed(n) = 1 /\ refs[n].flag = 0 /\ n \notin OnList
      /\ Putting(n) = {} /\ Pushing(n) = {} /\ Taking(n) = {t}
  <2>1. Listed(n) = 1
    BY <1>2, ZenonT(30) DEF Listed
  <2> QED BY <1>2, <2>1, NodePlace, NodeRefs DEF PlaceOK, Ref, Holding
<1>6. refs[n].count - 2 = Cardinality(Counting(n) \ {t})
  BY <1>4, <1>5, NodeCount, NodeRefs DEF Ref
<1>7. /\ refs' \in [Node -> [count : Nat, flag : {0, 1}]]
      /\ refs'[n] = Ref(Cardinality(Counting(n) \ {t}), 0)
      /\ \A k \in Node \ {n} : refs'[k] = refs[k]
  <2>1. refs' = [refs EXCEPT ![n] = Ref(Cardinality(Counting(n) \ {t}), 0)]
    <3>1. refs \in [Node -> [count : Nat, flag : {0, 1}]]
      BY ZenonT(30) DEF IInv, TypeOK
    <3>2. refs[n] = [count |-> refs[n].count, flag |-> refs[n].flag]
      BY <3>1, ZenonT(30)
    <3>3. [refs[n] EXCEPT !.count = @ - 2] = Ref(Cardinality(Counting(n) \ {t}), 0)
      BY <1>5, <1>6, <3>2 DEF Ref
    <3> QED BY <1>3, <3>3, ZenonT(30)
  <2> QED BY <1>4, <2>1, ZenonT(30) DEF IInv, TypeOK, Ref
<1>8. /\ Putting(n)' = {} /\ Pushing(n)' = {} /\ Taking(n)' = {}
      /\ Counting(n)' = Counting(n) \ {t}
  <2>1. /\ Putting(n)' = Putting(n) \ {t} /\ Pushing(n)' = Pushing(n) \ {t}
        /\ Taking(n)' = Taking(n) \ {t} /\ Counting(n)' = Counting(n) \ {t}
    BY <1>2, <1>3, GotoSets DEF IInv
  <2> QED BY <1>5, <2>1, ZenonT(30)
<1>9. OnList' = OnList /\ Acyclic' /\ LinksOK'
  BY <1>2, <1>3, GotoLinks, SameList, ZenonT(30) DEF IInv
<1>10. PlaceOK(n)'
  BY <1>3, <1>5, <1>7, <1>8, <1>9, NodePlace, NodeRefs DEF PlaceOK, Ref, Holding
<1>11. CountOK(n)'
  <2>1. Listed(n)' = 0
    BY <1>5, <1>8, <1>9, ZenonT(30) DEF Listed
  <2> QED BY <1>4, <1>7, <1>8, <2>1, NodeCount DEF CountOK, Ref
<1>12. freeListHead' \in Node \cup {Null} /\ link' \in Links /\ used' \subseteq Node
  BY <1>3, ZenonT(30) DEF IInv, TypeOK, Links
<1>13. \A k \in Node \ {n} : k \in used' <=> k \in used
  BY <1>3, ZenonT(30)
<1> QED BY <1>2, <1>3, <1>7, <1>9, <1>10, <1>11, <1>12, <1>13, NodeStep

\* try_get drops its count of a node that it did not get, and puts the node on the
\* list if it was the last to count it.
LEMMA GetDropStep == ASSUME IInv, NEW t \in Thread, GetDrop(t) PROVE IInv'
<1> DEFINE l == IF refs[my[t].node] = Ref(1, 1) THEN "load" ELSE Loop(my[t].head)
<1>0. pc[t] = "drop"
  BY ZenonT(30) DEF GetDrop
<1>1. PICK n \in Node : n = my[t].node
  BY <1>0, ThreadFacts, ZenonT(30)
<1>2. /\ my[t] \in Locals /\ my[t].head \in Node \cup {Null} /\ t \in Counting(n)
      /\ \A k \in Node : t \notin Putting(k) /\ t \notin Pushing(k) /\ t \notin Taking(k)
      /\ \A k \in Node \ {n} : t \notin Counting(k) /\ my[t].node # k
  BY <1>0, <1>1, ThreadFacts, ZenonT(30) DEF Locals
<1>3. /\ Goto(t, l, my[t]) /\ UNCHANGED <<freeListHead, link, used>>
      /\ refs' = [refs EXCEPT ![n].count = @ - 1]
  BY <1>1, ZenonT(30) DEF GetDrop
<1>4. /\ l \in Labels
      /\ \/ l = "load" /\ refs[n] = Ref(1, 1)
         \/ refs[n] # Ref(1, 1) /\ (l = "idle" \/ (l = "refs" /\ my[t].head \in Node))
  BY <1>1, <1>2, ZenonT(30) DEF Loop, Labels
<1> HIDE DEF l
<1>5. /\ Cardinality(Counting(n) \ {t}) = Cardinality(Counting(n)) - 1
      /\ Cardinality(Counting(n) \ {t}) \in Nat
  BY <1>2, NodeCount, FS_RemoveElement, FS_CardinalityType, ZenonT(30)
<1>6. refs[n].count - 1 = Cardinality(Counting(n) \ {t}) + Listed(n) /\ refs[n].count > 0
  BY <1>5, NodeCount, NodeRefs DEF Ref
<1>7. Putting(n) = {}
  BY <1>6, NodePlace, NodeRefs DEF PlaceOK, Ref
<1>8. /\ refs' \in [Node -> [count : Nat, flag : {0, 1}]]
      /\ refs'[n] = Ref(refs[n].count - 1, refs[n].flag)
      /\ \A k \in Node \ {n} : refs'[k] = refs[k]
  <2>1. refs[n].count - 1 \in Nat
    BY <1>5, <1>6, NodeCount, NodeRefs DEF Ref
  <2>2. refs' = [refs EXCEPT ![n] = Ref(refs[n].count - 1, refs[n].flag)]
    <3>1. refs \in [Node -> [count : Nat, flag : {0, 1}]]
      BY ZenonT(30) DEF IInv, TypeOK
    <3>2. refs[n] = [count |-> refs[n].count, flag |-> refs[n].flag]
      BY <3>1, ZenonT(30)
    <3>3. [refs[n] EXCEPT !.count = @ - 1] = Ref(refs[n].count - 1, refs[n].flag)
      BY <3>2 DEF Ref
    <3> QED BY <1>3, <3>3, ZenonT(30)
  <2> QED BY <2>1, <2>2, ZenonT(30) DEF IInv, TypeOK, Ref
<1>9. /\ Putting(n)' = IF l = "load" THEN {t} ELSE {}
      /\ Pushing(n)' = Pushing(n) /\ Taking(n)' = Taking(n)
      /\ Counting(n)' = Counting(n) \ {t}
  <2>1. /\ Putting(n)' = IF l = "load" THEN Putting(n) \cup {t} ELSE Putting(n) \ {t}
        /\ Pushing(n)' = Pushing(n) \ {t} /\ Taking(n)' = Taking(n) \ {t}
        /\ Counting(n)' = Counting(n) \ {t}
    <3>1. TypeOK
      BY ZenonT(30) DEF IInv
    <3>2. CASE l = "load"
      BY <1>1, <1>2, <1>3, <1>4, <3>1, <3>2, GotoSets
    <3>3. CASE l \in {"idle", "refs"}
      BY <1>2, <1>3, <1>4, <3>1, <3>3, GotoSets
    <3> QED BY <1>4, <3>2, <3>3, ZenonT(30)
  <2> QED BY <1>2, <1>7, <2>1, ZenonT(30)
<1>10. OnList' = OnList /\ Acyclic' /\ LinksOK'
  BY <1>2, <1>3, <1>4, GotoLinks, SameList, ZenonT(30) DEF IInv
<1>11. Listed(n)' = Listed(n)
  BY <1>9, <1>10, ZenonT(30) DEF Listed
<1>12. PlaceOK(n)'
  <2>1. CASE l = "load"
    <3>1. refs[n].flag = 1 /\ refs'[n] = Ref(0, 1)
      BY <1>4, <1>8, <2>1, NodeCount, NodeRefs DEF Ref
    <3>2. n \notin OnList \cup used /\ Pushing(n) = {} /\ Taking(n) = {}
      BY <3>1, NodePlace, NodeRefs DEF PlaceOK, Ref
    <3> QED BY <1>3, <1>9, <1>10, <2>1, <3>1, <3>2, NodePlace, NodeRefs
               DEF PlaceOK, Ref, Holding
  <2>2. CASE l # "load"
    <3>1. refs[n].flag = 1 => refs[n].count - 1 > 0
      BY <1>4, <1>6, <2>2, NodeCount, NodeRefs DEF Ref
    <3>2. refs'[n].flag = refs[n].flag /\ (refs[n].flag = 1 => refs'[n].count > 0)
      BY <1>8, <3>1, NodeCount, NodeRefs DEF Ref
    <3> QED BY <1>3, <1>7, <1>9, <1>10, <2>2, <3>2, NodePlace, NodeRefs, ZenonT(30)
               DEF PlaceOK, Ref, Holding
  <2> QED BY <2>1, <2>2, ZenonT(30)
<1>13. CountOK(n)'
  BY <1>6, <1>8, <1>9, <1>11, NodeCount DEF CountOK, Ref
<1>14. /\ freeListHead' \in Node \cup {Null} /\ link' \in Links /\ used' \subseteq Node
       /\ used' = used /\ my[t].node \in Node
  BY <1>1, <1>3, ZenonT(30) DEF IInv, TypeOK, Links
<1> QED BY <1>2, <1>3, <1>4, <1>8, <1>10, <1>12, <1>13, <1>14, NodeStep

-----------------------------------------------------------------------------
\* The theorem

\* Every block starts in use, counted by nobody.
LEMMA InitIInv == Init => IInv
<1> SUFFICES ASSUME Init PROVE IInv
  BY ZenonT(30)
<1>1. TypeOK /\ LocalsOK /\ LinksOK
  BY ZenonT(30) DEF Init, TypeOK, LocalsOK, LinksOK, Locals, NoLocals, Ref
<1>2. OnList = {}
  BY FromNull, ZenonT(30) DEF Init, OnList
<1>3. Acyclic
  BY <1>2, ZenonT(30) DEF Acyclic
<1>4. ASSUME NEW n \in Node
      PROVE  PlaceOK(n) /\ CountOK(n)
  <2>1. Putting(n) = {} /\ Pushing(n) = {} /\ Taking(n) = {} /\ Counting(n) = {}
    BY ZenonT(30) DEF Init, Putting, Pushing, Taking, Counting
  <2>2. refs[n] = Ref(0, 0) /\ refs[n].count = 0 /\ refs[n].flag = 0 /\ n \in used
    BY ZenonT(30) DEF Init, Ref
  <2>3. PlaceOK(n)
    BY <1>2, <2>1, <2>2, ZenonT(30) DEF PlaceOK, Holding
  <2>4. Listed(n) = 0 /\ Cardinality(Counting(n)) = 0
    BY <1>2, <2>1, FS_EmptySet, ZenonT(30) DEF Listed
  <2> QED BY <2>2, <2>3, <2>4 DEF CountOK
<1> QED BY <1>1, <1>3, <1>4, ZenonT(30) DEF IInv

\* Every step preserves the invariant.
LEMMA NextIInv == IInv /\ [Next]_vars => IInv'
<1> SUFFICES ASSUME IInv, [Next]_vars PROVE IInv'
  BY ZenonT(30)
<1>1. CASE UNCHANGED vars
  <2>1. TypeOK' /\ LocalsOK' /\ LinksOK'
    BY <1>1, ZenonT(30) DEF vars, IInv, TypeOK, LocalsOK, LinksOK
  <2>2. OnList' = OnList /\ Acyclic'
    BY <1>1, SameList, ZenonT(30) DEF vars, IInv
  <2>3. ASSUME NEW n \in Node
        PROVE  PlaceOK(n)' /\ CountOK(n)'
    <3>1. /\ Putting(n)' = Putting(n) /\ Pushing(n)' = Pushing(n)
          /\ Taking(n)' = Taking(n) /\ Counting(n)' = Counting(n)
      BY <1>1, ZenonT(30) DEF vars, Putting, Pushing, Taking, Counting
    <3>2. refs' = refs /\ used' = used /\ PlaceOK(n) /\ CountOK(n)
      BY <1>1, ZenonT(30) DEF vars, IInv
    <3> QED BY <2>2, <3>1, <3>2, SameNode, ZenonT(30)
  <2> QED BY <2>1, <2>2, <2>3, ZenonT(30) DEF IInv
<1>2. ASSUME NEW t \in Thread, NEW n \in Node, Add(t, n) PROVE IInv'
  BY <1>2, AddStep, ZenonT(30)
<1>3. ASSUME NEW t \in Thread, AddPush(t) PROVE IInv'
  BY <1>3, AddPushStep, AddPushFails, ZenonT(30)
<1>4. ASSUME NEW t \in Thread, GetCount(t) PROVE IInv'
  BY <1>4, GetCountStep, GetCountFails, ZenonT(30)
<1>5. ASSUME NEW t \in Thread, GetPop(t) PROVE IInv'
  BY <1>5, GetPopStep, GetPopFails, ZenonT(30)
<1> QED BY <1>1, <1>2, <1>3, <1>4, <1>5, AddLoadStep, AddLinkStep, AddOneStep, AddUndoStep,
           GetStep, GetRefsStep, GetNextStep, GetGotStep, GetDropStep, ZenonT(30) DEF Next

\* What the invariant says of the places a node can be in.
LEMMA IInvOnePlace == IInv => OnePlace
<1> SUFFICES ASSUME IInv PROVE OnePlace
  BY ZenonT(30)
<1>1. ASSUME NEW n \in Node
      PROVE  /\ n \in OnList => n \notin used /\ Adding(n) = {} /\ Taking(n) = {}
             /\ n \in used => Adding(n) = {} /\ Taking(n) = {} /\ refs[n].flag = 0
             /\ Taking(n) # {} => refs[n].flag = 0
             /\ Cardinality(Adding(n)) + Cardinality(Taking(n)) <= 1
  <2>1. Adding(n) \subseteq Holding(n) /\ Taking(n) \subseteq Holding(n)
    BY ZenonT(30) DEF Adding, Holding, Putting, Pushing
  <2>2. Adding(n) \cap Taking(n) = {}
    BY ZenonT(30) DEF Adding, Taking
  <2>3. Cardinality(Adding(n)) + Cardinality(Taking(n)) <= 1
    <3>1. Cardinality({}) = 0
      BY FS_EmptySet, ZenonT(30)
    <3>2. CASE Holding(n) = {}
      <4>1. Adding(n) = {} /\ Taking(n) = {}
        BY <2>1, <3>2, ZenonT(30)
      <4> QED BY <3>1, <4>1
    <3>3. CASE Holding(n) # {}
      <4>1. PICK t : t \in Holding(n)
        BY <3>3, ZenonT(30)
      <4>2. Holding(n) = {t}
        BY <4>1, NodePlace, NodeRefs DEF PlaceOK, Ref
      <4>3. \/ Adding(n) = {} /\ Taking(n) = {}
            \/ Adding(n) = {t} /\ Taking(n) = {}
            \/ Adding(n) = {} /\ Taking(n) = {t}
        BY <2>1, <2>2, <4>2, ZenonT(30)
      <4>4. Cardinality({t}) = 1
        BY FS_Singleton, ZenonT(30)
      <4> QED BY <3>1, <4>3, <4>4
    <3> QED BY <3>2, <3>3, ZenonT(30)
  <2> QED BY <2>1, <2>3, NodePlace, NodeRefs, ZenonT(30) DEF PlaceOK, Ref
<1>2. ASSUME \A t \in Thread : pc[t] = "idle", NEW n \in Node
      PROVE  IF n \in used THEN refs[n].count = 0 ELSE n \in OnList /\ refs[n].count = 1
  <2>1. Putting(n) = {} /\ Pushing(n) = {} /\ Taking(n) = {} /\ Counting(n) = {}
    BY <1>2, ZenonT(30) DEF Putting, Pushing, Taking, Counting
  <2>2. Cardinality(Counting(n)) = 0
    BY <2>1, FS_EmptySet, ZenonT(30)
  <2>3. refs[n].count = Listed(n)
    BY <2>2, NodeCount, NodeRefs DEF Ref
  <2>4. Holding(n) = {} /\ Listed(n) = (IF n \in OnList THEN 1 ELSE 0)
    BY <2>1, ZenonT(30) DEF Holding, Listed
  <2>5. n \in OnList => n \notin used
    BY NodePlace, NodeRefs, ZenonT(30) DEF PlaceOK, Ref
  <2>6. n \notin OnList \cup used => refs[n].count > 0
    BY <2>4, NodePlace, NodeRefs, ZenonT(30) DEF PlaceOK, Ref
  <2> QED BY <2>3, <2>4, <2>5, <2>6
<1> QED BY <1>1, <1>2, ZenonT(30) DEF OnePlace

\* Whatever the number of threads and blocks, and however add and try_get
\* interleave: a block is in one place at a time, none is handed out twice or while
\* it is on the list, and none leaks.
THEOREM FreeListOnePlace == Spec => [](TypeOK /\ OnePlace)
<1>1. IInv => TypeOK
  BY ZenonT(30) DEF IInv
<1> QED BY <1>1, InitIInv, NextIInv, IInvOnePlace, PTL DEF Spec
=============================================================================
