------------------------------- MODULE MCLock --------------------------------
(* The instance of Lock that TLC checks: three threads, ids 1 to 3.           *)
EXTENDS Lock

MCThreads == 1..3
=============================================================================
