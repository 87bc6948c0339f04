------------------------------ MODULE MCServer ------------------------------
(***************************************************************************)
(* Two clients of a server, one user with the rules "*" and "k", and       *)
(* another user.  Documents and rules are on different shards from the one *)
(* that runs every put.                                                    *)
(***************************************************************************)
EXTENDS Server, TLC

CONSTANTS c1, c2, k, star, rule, n1, n2

MCUserKey == n1 :> 1 @@ n2 :> 2
MCRuleKey == star :> [uid |-> 1, prefix |-> "*"] @@ rule :> [uid |-> 1, prefix |-> "k"]
MCPublicKey == {"p", "q"}
MCPermOf == "v" :> {} @@ "w" :> {} @@ "p" :> {} @@ "q" :> {} @@ Junk :> {}
            @@ "NONE" :> {} @@ "READ" :> {"READ"} @@ "READ WRITE" :> {"READ", "WRITE"}
MCLength == "*" :> 1 @@ "k" :> 2
MCMatches == "*" :> Key @@ "k" :> {k}
MCKeyShard == k :> 1 @@ star :> 1 @@ rule :> 2 @@ n1 :> 2 @@ n2 :> 1

Login(u, right) == [op |-> "A", uid |-> u, right |-> right]
Read(u, ks) == [op |-> IF Len(ks) = 1 THEN "G" ELSE "M", uid |-> u, keys |-> ks]
Write(op, u, ks, vs) == [op |-> op, uid |-> u, keys |-> ks, values |-> vs]

Sends ==
  [rules |->
     c1 :> {Write("P", 1, <<k>>, <<"v">>), Write("D", 1, <<k>>, <<Gone>>),
            Write("P", 0, <<star>>, <<"READ WRITE">>), Write("P", 0, <<rule>>, <<"READ">>),
            Write("B", 0, <<k, star>>, <<"w", "NONE">>)}
     @@ c2 :> {Login(1, 1), Read(1, <<k, rule>>), Write("D", 0, <<star>>, <<Gone>>)},
   users |->
     c1 :> {Login(0, 1), Write("P", 0, <<n1>>, <<"p">>), Write("P", 0, <<n1>>, <<"q">>),
            Write("B", 0, <<n1, n2>>, <<"p", "p">>)}
     @@ c2 :> {Login(1, 0), Read(1, <<k>>)}]
MCRequests == [c \in Client |-> UNION {Sends[s][c] : s \in DOMAIN Sends}]

VARIABLE scope
MCVars == <<vars, scope>>
MCInit == Init /\ scope \in DOMAIN Sends
\* The clients send what their scope says, and one batch.
MCNext ==
  /\ Next /\ UNCHANGED scope
  /\ \A c \in Client : inbox'[c] \in Sends[scope][c] \cup {None}
  /\ \A c \in Client : inbox[c] = None /\ inbox'[c] # None /\ batched = 1 => inbox'[c].op # "B"
MCSpec == MCInit /\ [][MCNext]_MCVars /\ Fairness
=============================================================================
