------------------------------- MODULE MCHelpers -------------------------------
\* Helpers for TLC: the cfg file gives the bounds.
EXTENDS Helpers
===============================================================================
