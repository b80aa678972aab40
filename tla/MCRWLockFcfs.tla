----------------------------- MODULE MCRWLockFcfs -----------------------------
(* RWLockFcfs for three threads, one of which may destroy the lock.              *)
EXTENDS RWLockFcfs
=============================================================================
