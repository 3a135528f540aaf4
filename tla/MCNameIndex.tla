----------------------------- MODULE MCNameIndex -----------------------------
(***************************************************************************)
(* Names n, m, k and l; a record keeps three operations.  Up to h4, n is   *)
(* registered, updated, expired and registered again (so its record is cut *)
(* and the first registration is gone), m is registered and deleted, and k *)
(* expires and is registered by somebody else.  Branch a updates and       *)
(* deletes n and registers m; branch b updates n past the cap of its       *)
(* expiry and deletes it (an active chain longer than a record is cut to), *)
(* registers m too and ends in a block with operations that are not        *)
(* written: a second registration of m, an update by the former holder of  *)
(* k, an underpaid one.  Branch d leaves before h4, which takes the        *)
(* registration of n after the cut back; it is the first to register l,    *)
(* registers n again, and m with what is the second registration on b.     *)
(***************************************************************************)
EXTENDS NameIndex

CONSTANTS g, h1, h2, h3, h4, a1, a2, b1, b2, b3, d4, d5, n, m, k, l,
          fund, n1, n2, n3, n4, n5, n6, n7, n8, n9, m1, m2, m3, m4, m5,
          k1, k2, k3, k4, l1

MCPrev == [b \in Blocks |->
             (g :> Nil @@ h1 :> g @@ h2 :> h1 @@ h3 :> h2 @@ h4 :> h3 @@ a1 :> h4
               @@ a2 :> a1 @@ b1 :> h4 @@ b2 :> b1 @@ b3 :> b2
               @@ d4 :> h3 @@ d5 :> d4)[b]]
MCHeight == [b \in Blocks |->
               (g :> 0 @@ h1 :> 1 @@ h2 :> 2 @@ h3 :> 3 @@ h4 :> 4 @@ a1 :> 5
                 @@ a2 :> 6 @@ b1 :> 5 @@ b2 :> 6 @@ b3 :> 7
                 @@ d4 :> 4 @@ d5 :> 5)[b]]
MCvtx == [b \in Blocks |->
            (g :> <<>> @@ h1 :> <<fund, n1, m1, k1>> @@ h2 :> <<n2, m2>>
              @@ h3 :> <<n3>> @@ h4 :> <<n4, k2>> @@ a1 :> <<n5, m3>> @@ a2 :> <<n6>>
              @@ b1 :> <<n7, m3>> @@ b2 :> <<n8>>
              @@ b3 :> <<n9, k3, k4, m4, m5>> @@ d4 :> <<k2, l1>> @@ d5 :> <<n4, m5>>)[b]]
\* Output 0 has the name script, output 1 is change.
Spends == n2 :> n1 @@ n3 :> n2 @@ m2 :> m1 @@ n5 :> n4 @@ n6 :> n5 @@ n7 :> n4
            @@ n8 :> n7 @@ n9 :> n8 @@ k3 :> k1
Change == n8 :> k2 @@ m5 :> n4
MCvin == [t \in Txs |->
            (IF t \in DOMAIN Spends THEN {<<Spends[t], 0>>} ELSE {})
              \cup (IF t \in DOMAIN Change THEN {<<Change[t], 1>>} ELSE {})]
MCNumOut == [t \in Txs |-> 2]
MCnOut == [t \in NameTxs |-> 0]
MCNameOf == [t \in Txs |->
               CASE t \in {n1, n2, n3, n4, n5, n6, n7, n8, n9} -> n
                 [] t \in {m1, m2, m3, m4, m5} -> m
                 [] t \in {k1, k2, k3, k4} -> k
                 [] t = l1 -> l
                 [] OTHER -> Nil]
MCOpOf == [t \in NameTxs |->
             CASE t \in {n2, n3, n5, n7, n8, k3} -> "update"
               [] t \in {n6, n9, m2} -> "delete"
               [] OTHER -> "new"]
MCRental == [t \in NameTxs |-> CASE t \in {n1, n2} -> 1 [] t = n3 -> 0
                                 [] t = k1 -> 2 [] t = m3 -> 1 [] OTHER -> 5]
=============================================================================
