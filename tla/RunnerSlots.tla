----------------------------- MODULE RunnerSlots -----------------------------
(***************************************************************************)
(* What the hosted runners promise, with controllers, hosts and messages   *)
(* left out: a job takes a slot once, runs only while it has the slot, and *)
(* gives it back when nothing of it runs any more.                         *)
(* RunnerFencing is shown to implement this specification.                 *)
(***************************************************************************)
EXTENDS FiniteSets, Naturals

CONSTANTS
    Generations,  \* jobs
    Quotas        \* jobs that are counted together, and how many may have slots

VARIABLES
    held,      \* jobs that have a slot
    released,  \* jobs that had one
    running    \* jobs whose code runs on a host

vars == <<held, released, running>>

Init ==
    /\ held = {}
    /\ released = {}
    /\ running = {}

Admissible(g) ==
    \A q \in Quotas : g \in q.of => Cardinality(q.of \cap held) < q.limit

Acquire(g) ==
    /\ g \notin held \cup released
    /\ Admissible(g)
    /\ held' = held \cup {g}
    /\ UNCHANGED <<released, running>>

Start(g) ==
    /\ g \in held \ running
    /\ running' = running \cup {g}
    /\ UNCHANGED <<held, released>>

Stop(g) ==
    /\ running' = running \ {g}
    /\ UNCHANGED <<held, released>>

Release(g) ==
    /\ g \in held \ running
    /\ held' = held \ {g}
    /\ released' = released \cup {g}
    /\ UNCHANGED running

Next == \E g \in Generations : Acquire(g) \/ Start(g) \/ Stop(g) \/ Release(g)

Spec == Init /\ [][Next]_vars
=============================================================================
