------------------------------- MODULE Lifecycle -------------------------------
(***************************************************************************)
(* What the two threads of the server owe each other, whatever they do     *)
(* besides: the services run only between their launch and a stop, main    *)
(* tears down only what they have left, and an orderly end comes before    *)
(* the launch or after the teardown, never beside them.  A crash may come  *)
(* at any time and leaves both where they are.  Process and Server both    *)
(* implement this module: they show one main from two sides.               *)
(***************************************************************************)

VARIABLES main,         \* what main is doing
          services,     \* is the services thread yet to be launched, running, or back?
          end           \* "up", or how the process ended

lifecycleVars == <<main, services, end>>

LifecycleInit == main = "starting" /\ services = "none" /\ end = "up"

\* Main's way from one stage to the next, while the process is up.
Passes(from, to) == end = "up" /\ main = from /\ main' = to /\ UNCHANGED end

Launch ==
    /\ Passes("starting", "serving")
    /\ services = "none" /\ services' = "running"

Stop == Passes("serving", "stopping") /\ UNCHANGED services

ServicesReturn ==
    /\ Passes("stopping", "stopping")
    /\ services = "running" /\ services' = "returned"

Join ==
    /\ Passes("stopping", "tearing")
    /\ services = "returned" /\ UNCHANGED services

Ends(how) == end = "up" /\ end' = how /\ UNCHANGED <<main, services>>

Exit == main \in {"starting", "tearing"} /\ Ends("exited")

Crash == Ends("crashed")

LifecycleNext == Launch \/ Stop \/ ServicesReturn \/ Join \/ Exit \/ Crash

LifecycleSpec == LifecycleInit /\ [][LifecycleNext]_lifecycleVars

\* The same, seen from the launch on.
LaunchedInit == main = "serving" /\ services = "running" /\ end = "up"
LaunchedSpec == LaunchedInit /\ [][LifecycleNext]_lifecycleVars
===============================================================================
