------------------------------- MODULE MCProcess -------------------------------
\* Process for TLC: the cfg file gives the bounds and the faults.
EXTENDS Process
===============================================================================
