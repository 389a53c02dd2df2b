------------------------------ MODULE MCServices ------------------------------
\* ConnectionServices for TLC: the cfg files give the bounds and the faults.
EXTENDS ConnectionServices
===============================================================================
