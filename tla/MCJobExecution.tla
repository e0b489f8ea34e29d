--------------------------- MODULE MCJobExecution ---------------------------
(* An instance of JobExecution for TLC: a dispatcher and a caller.          *)
EXTENDS JobExecution

CONSTANTS d1, c1, a

(* Whatever may fail and leave the job to be taken all the same.  That the  *)
(* access that takes the lock fails is a worker that comes again; if it     *)
(* never succeeds, no job is ever taken.                                    *)
Tolerated == {"get", "retry", "clear", "release"}
=============================================================================
