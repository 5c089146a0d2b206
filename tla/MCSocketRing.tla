---------------------------- MODULE MCSocketRing ----------------------------
(* Model checking of SocketRing on a ring of three slots: seven connections *)
(* take the counters twice round the ring.                                 *)
EXTENDS SocketRingQueue
=============================================================================
