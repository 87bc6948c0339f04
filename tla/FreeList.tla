------------------------------ MODULE FreeList ------------------------------
(***************************************************************************)
(* The lock-free list of spare blocks of a shard's queue (struct FreeList, *)
(* lib/concurrentqueue/concurrentqueue.h).  Threads that enqueue take a    *)
(* block with try_get, threads that empty one give it back with add.  The  *)
(* count of a node is one for the list and one for each try_get that looks *)
(* at it; a node that cannot be put on the list while others count it is   *)
(* flagged, and whoever drops the last count puts it there.                *)
(*                                                                         *)
(* freeListRefs packs the count and the flag SHOULD_BE_ON_FREELIST; here   *)
(* they are the fields of a record.  Each step is one atomic operation of  *)
(* the code, and steps take effect in program order.                       *)
(***************************************************************************)
EXTENDS Integers, FiniteSets

CONSTANTS Thread, Node, Null

ASSUME FreeListAssumption == Null \notin Node /\ IsFiniteSet(Thread)

VARIABLES
  freeListHead,
  refs,  \* freeListRefs of each node
  link,  \* freeListNext of each node
  used,  \* the nodes handed out, in some queue's block index
  pc,    \* per thread: its next operation
  my     \* per thread: its local variables, see Locals

vars == <<freeListHead, refs, link, used, pc, my>>

Ref(c, f) == [count |-> c, flag |-> f]

\* The head and refs of try_get; the node that is added (prevHead when try_get
\* does it); the link read from or meant for a node.
Locals == [head : Node \cup {Null}, seen : [count : Nat, flag : {0, 1}],
           node : Node \cup {Null}, next : Node \cup {Null}]
NoLocals == [head |-> Null, seen |-> Ref(0, 0), node |-> Null, next |-> Null]

\* Every block starts in use and the list empty.
Init ==
  /\ freeListHead = Null
  /\ refs = [n \in Node |-> Ref(0, 0)]
  /\ link = [n \in Node |-> Null]
  /\ used = Node
  /\ pc = [t \in Thread |-> "idle"]
  /\ my = [t \in Thread |-> NoLocals]

\* Thread t goes on at label l with those of the locals m that are still read.
Goto(t, l, m) ==
  /\ pc' = [pc EXCEPT ![t] = l]
  /\ my' = [my EXCEPT ![t] =
       [head |-> IF l \in {"idle", "reload"} THEN Null ELSE m.head,
        seen |-> IF l = "count" THEN m.seen ELSE Ref(0, 0),
        node |-> IF l \in {"load", "link", "one", "push", "undo", "drop"} THEN m.node ELSE Null,
        next |-> IF l \in {"link", "one", "push", "undo", "pop"} THEN m.next ELSE Null]]

\* The test of try_get's loop: with no head it returns nullptr.
Loop(h) == IF h = Null THEN "idle" ELSE "refs"

-----------------------------------------------------------------------------
\* add and add_knowing_refcount_is_zero

\* Mutant of Add: the node is put on the list whoever counts it.
AddAnyway(t, n) ==
  /\ pc[t] = "idle" /\ n \in used
  /\ used' = used \ {n}
  /\ refs' = [refs EXCEPT ![n].flag = 1]
  /\ Goto(t, "load", [my[t] EXCEPT !.node = n])
  /\ UNCHANGED <<freeListHead, link>>

\* fetch_add(SHOULD_BE_ON_FREELIST): only a node that nobody counts may be put
\* on the list at once.
Add(t, n) ==
  /\ pc[t] = "idle" /\ n \in used
  /\ used' = used \ {n}
  /\ refs' = [refs EXCEPT ![n].flag = 1]
  /\ Goto(t, IF refs[n] = Ref(0, 0) THEN "load" ELSE "idle", [my[t] EXCEPT !.node = n])
  /\ UNCHANGED <<freeListHead, link>>

\* The head is read, the node linked to it,
AddLoad(t) ==
  /\ pc[t] = "load"
  /\ Goto(t, "link", [my[t] EXCEPT !.next = freeListHead])
  /\ UNCHANGED <<freeListHead, refs, link, used>>

AddLink(t) ==
  /\ pc[t] = "link"
  /\ link' = [link EXCEPT ![my[t].node] = my[t].next]
  /\ Goto(t, "one", my[t])
  /\ UNCHANGED <<freeListHead, refs, used>>

\* and given the count of the list, which clears the flag.
AddOne(t) ==
  /\ pc[t] = "one"
  /\ refs' = [refs EXCEPT ![my[t].node] = Ref(1, 0)]
  /\ Goto(t, "push", my[t])
  /\ UNCHANGED <<freeListHead, link, used>>

\* The compare-exchange of the head; a failed one returns the current head.
AddPush(t) ==
  /\ pc[t] = "push"
  /\ IF freeListHead = my[t].next
     THEN freeListHead' = my[t].node /\ Goto(t, Loop(my[t].head), my[t])
     ELSE UNCHANGED freeListHead /\ Goto(t, "undo", [my[t] EXCEPT !.next = freeListHead])
  /\ UNCHANGED <<refs, link, used>>

\* fetch_add(SHOULD_BE_ON_FREELIST - 1): once more if nobody else counts the
\* node, else it is left to the thread that drops the last count.
AddUndo(t) ==
  LET n == my[t].node
  IN  /\ pc[t] = "undo"
      /\ refs' = [refs EXCEPT ![n] = Ref(@.count - 1, 1)]
      /\ Goto(t, IF refs[n] = Ref(1, 0) THEN "link" ELSE Loop(my[t].head), my[t])
      /\ UNCHANGED <<freeListHead, link, used>>

-----------------------------------------------------------------------------
\* try_get

\* The head is read, at first and after each failure to count it.
Get(t) ==
  /\ pc[t] \in {"idle", "reload"}
  /\ Goto(t, Loop(freeListHead), [my[t] EXCEPT !.head = freeListHead])
  /\ UNCHANGED <<freeListHead, refs, link, used>>

\* Its refs are read; a node whose count is zero is not on the list.
GetRefs(t) ==
  LET r == refs[my[t].head]
  IN  /\ pc[t] = "refs"
      /\ Goto(t, IF r.count = 0 THEN "reload" ELSE "count", [my[t] EXCEPT !.seen = r])
      /\ UNCHANGED <<freeListHead, refs, link, used>>

\* The compare-exchange that counts it.
GetCount(t) ==
  LET h == my[t].head
  IN  /\ pc[t] = "count"
      /\ IF refs[h] = my[t].seen
         THEN refs' = [refs EXCEPT ![h].count = @ + 1] /\ Goto(t, "next", my[t])
         ELSE UNCHANGED refs /\ Goto(t, "reload", my[t])
      /\ UNCHANGED <<freeListHead, link, used>>

\* The link can be read now: it does not change while the node is counted.
GetNext(t) ==
  /\ pc[t] = "next"
  /\ Goto(t, "pop", [my[t] EXCEPT !.next = link[my[t].head]])
  /\ UNCHANGED <<freeListHead, refs, link, used>>

\* The compare-exchange of the head; a failed one returns the current head.
GetPop(t) ==
  LET h == my[t].head
  IN  /\ pc[t] = "pop"
      /\ IF freeListHead = h
         THEN freeListHead' = my[t].next /\ Goto(t, "got", my[t])
         ELSE /\ UNCHANGED freeListHead
              /\ Goto(t, "drop", [my[t] EXCEPT !.node = h, !.head = freeListHead])
      /\ UNCHANGED <<refs, link, used>>

\* Mutant of GetGot: the count of a failed try_get is dropped as well.
GetGotThree(t) ==
  LET h == my[t].head
  IN  /\ pc[t] = "got"
      /\ refs' = [refs EXCEPT ![h].count = @ - 3]
      /\ used' = used \cup {h}
      /\ Goto(t, "idle", my[t])
      /\ UNCHANGED <<freeListHead, link>>

\* fetch_sub(2): the list's count and this thread's; the node is returned.
GetGot(t) ==
  LET h == my[t].head
  IN  /\ pc[t] = "got"
      /\ refs' = [refs EXCEPT ![h].count = @ - 2]
      /\ used' = used \cup {h}
      /\ Goto(t, "idle", my[t])
      /\ UNCHANGED <<freeListHead, link>>

\* The head had changed: the count is dropped, and if it was the last one of a
\* flagged node the node is put on the list.
GetDrop(t) ==
  LET n == my[t].node
  IN  /\ pc[t] = "drop"
      /\ refs' = [refs EXCEPT ![n].count = @ - 1]
      /\ Goto(t, IF refs[n] = Ref(1, 1) THEN "load" ELSE Loop(my[t].head), my[t])
      /\ UNCHANGED <<freeListHead, link, used>>

Next ==
  \E t \in Thread :
    \/ \E n \in Node : Add(t, n)
    \/ AddLoad(t) \/ AddLink(t) \/ AddOne(t) \/ AddPush(t) \/ AddUndo(t)
    \/ Get(t) \/ GetRefs(t) \/ GetCount(t) \/ GetNext(t) \/ GetPop(t)
    \/ GetGot(t) \/ GetDrop(t)

Spec == Init /\ [][Next]_vars

-----------------------------------------------------------------------------
\* Properties

\* Heads, links, counts and locals keep their types.
TypeOK ==
  /\ freeListHead \in Node \cup {Null}
  /\ refs \in [Node -> [count : Nat, flag : {0, 1}]]
  /\ link \in [Node -> Node \cup {Null}]
  /\ used \subseteq Node
  /\ pc \in [Thread -> {"idle", "load", "link", "one", "push", "undo", "reload",
                        "refs", "count", "next", "pop", "got", "drop"}]
  /\ my \in [Thread -> Locals]

\* The threads that are putting n on the list, and those that have taken it off.
Adding(n) == {t \in Thread : pc[t] \in {"load", "link", "one", "push"} /\ my[t].node = n}
Taking(n) == {t \in Thread : pc[t] = "got" /\ my[t].head = n}

\* The nodes from h on, by the links: those in every set that has h and, with a
\* node, the one it is linked to.
From(h, links) ==
  {n \in Node : \A S \in SUBSET Node :
     h \in S \cup {Null} /\ (\A m \in S : links[m] \in S \cup {Null}) => n \in S}
OnList == From(freeListHead, link)

\* A node is in one place at a time: handed out once, or on its way on or off
\* the list by one thread, or on the list; so no two try_get return the same
\* block and no block is in use and on the list at once, whatever ABA sequence
\* the threads run through.  None leaks: when no thread is inside the list, each
\* is handed out or on the list, where it counts one.  And, by an assert of
\* try_get, a node off the list is not flagged, as add sets the flag by adding.
OnePlace ==
  LET listed == OnList
  IN  /\ \A n \in Node :
           /\ n \in listed => n \notin used /\ Adding(n) = {} /\ Taking(n) = {}
           /\ n \in used => Adding(n) = {} /\ Taking(n) = {} /\ refs[n].flag = 0
           /\ Taking(n) # {} => refs[n].flag = 0
           /\ Cardinality(Adding(n)) + Cardinality(Taking(n)) <= 1
      /\ (\A t \in Thread : pc[t] = "idle") =>
           \A n \in Node : IF n \in used THEN refs[n].count = 0
                           ELSE n \in listed /\ refs[n].count = 1
=============================================================================
