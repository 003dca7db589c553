---------------------------- MODULE MCStoreLock ----------------------------
(* Three goroutines: two on the same SharedMemory value of one process, the *)
(* third in a second process.  The store is the set of allocated indexes:   *)
(* "alloc" is AllocKey's one-past-the-maximum (up to MaxIndex), "read"      *)
(* only loads.                                                              *)
EXTENDS StoreLock, Naturals, TLC

CONSTANTS c1, c2, c3, i1, i2, p1, p2, MaxIndex

MCInstOf == (c1 :> i1) @@ (c2 :> i1) @@ (c3 :> i2)
MCProcOf == (i1 :> p1) @@ (i2 :> p2)
MCOp == {"alloc", "read"}
MCReader == {"read"}
MCStore == 0..MaxIndex
MCEffect(o, s) == IF o = "alloc" /\ s < MaxIndex THEN s + 1 ELSE s
=============================================================================
