-------------------------------- MODULE MCTimer --------------------------------
\* ExecutionTimer for TLC: the cfg file gives the threads and the bounds.
EXTENDS ExecutionTimer, TLC

CONSTANTS t1, t2

\* One thread times a scope twice, beside one scope of the other.
TwiceAndOnce == (t1 :> 2) @@ (t2 :> 1)
===============================================================================
