------------------------------ MODULE MCAddrMan ------------------------------
(***************************************************************************)
(* Four services on three network addresses, two sources, new buckets of   *)
(* one entry, tried buckets of one: an address in two buckets is pushed    *)
(* out of one and then the other, and an entry thrown out of the tried     *)
(* table finds its own new bucket full.                                    *)
(***************************************************************************)
EXTENDS AddrMan, TLC

CONSTANTS s1, s1x, s2, s3, i1, i2, i3, p, q, b1, b2, k1, k2

MCIp == s1 :> i1 @@ s1x :> i1 @@ s2 :> i2 @@ s3 :> i3
MCNewBucket == [x \in Services \X Sources |->
                  IF x[1] = s1x \/ x[2] = p THEN b1 ELSE b2]
MCTriedBucket == [s \in Services |-> IF s = s1x THEN k2 ELSE k1]
=============================================================================
