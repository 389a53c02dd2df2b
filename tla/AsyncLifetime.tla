----------------------------- MODULE AsyncLifetime -----------------------------
(***************************************************************************)
(* What counting references by hand is for, with no count in sight: heap   *)
(* objects that queued handlers point to, and a collector.  A handler may  *)
(* hand its object on to further handlers while it runs; nobody else may,  *)
(* and the collector takes only an object that no handler points to.       *)
(* ConnectionServices implements this module.                              *)
(***************************************************************************)
CONSTANTS Object,     \* the objects that can be made
          Handler     \* the handlers that can point to an object

VARIABLES heap,       \* the objects that exist
          freed,      \* the objects that were destroyed or never came to be
          users       \* the handlers that point to each object

lifetimeVars == <<heap, freed, users>>

LifetimeTypeOK ==
    /\ heap \subseteq Object
    /\ freed \subseteq Object
    /\ users \in [Object -> SUBSET Handler]

LifetimeInit ==
    /\ heap = {}
    /\ freed = {}
    /\ users = [x \in Object |-> {}]

\* Only x may change hands.
HandsOn(x) ==
    /\ users' \in [Object -> SUBSET Handler]
    /\ \A y \in Object \ {x} : users'[y] = users[y]

\* An object is made with its first handlers, once.
Make(x) ==
    /\ x \notin heap \cup freed
    /\ heap' = heap \cup {x} /\ freed' = freed
    /\ HandsOn(x)

\* The construction of x fails: x never comes to be.
Waste(x) ==
    /\ x \notin heap \cup freed
    /\ freed' = freed \cup {x}
    /\ UNCHANGED <<heap, users>>

\* Handler h of x runs, may hand x on to further handlers and is done with it.
\* The others wait as they did.
Run(x, h) ==
    /\ heap' = heap /\ freed' = freed
    /\ x \in heap /\ h \in users[x]
    /\ users[x] \ {h} \subseteq users'[x]
    /\ HandsOn(x)

\* The collector destroys objects that no handler points to.
Collect ==
    /\ heap' \subseteq heap
    /\ \A x \in heap \ heap' : users[x] = {}
    /\ freed' = freed \cup (heap \ heap')
    /\ users' = users

LifetimeNext ==
    \/ \E x \in Object : Make(x) \/ Waste(x) \/ \E h \in Handler : Run(x, h)
    \/ Collect

LifetimeSpec == LifetimeInit /\ [][LifetimeNext]_lifetimeVars
===============================================================================
