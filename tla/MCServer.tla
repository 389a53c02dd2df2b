------------------------------- MODULE MCServer -------------------------------
\* Server for TLC: the cfg files give the bounds and the faults.
EXTENDS Server
===============================================================================
