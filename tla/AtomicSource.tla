---------------------------- MODULE AtomicSource ----------------------------
(***************************************************************************)
(* What a project's source promises to the editor, with files, journals    *)
(* and servers left out: an edit is accepted at once or not at all, at     *)
(* most once for each idempotency key, and the accepted source is the      *)
(* edits applied in order.  Somebody who writes into the directory from    *)
(* outside may change the files, never the accepted source.                *)
(* DurableSource is shown to implement this specification.                 *)
(***************************************************************************)
CONSTANTS
    Files,     \* the editable source files
    Contents,  \* contents a file may have, absence included
    Keys,      \* idempotency keys, one for each edit
    Edit,      \* the files an edit writes and what it writes
    First      \* the source as it was imported

Trees == [Files -> Contents]

VARIABLES
    tree,      \* the files, an edit in progress counted as before or after
    head,      \* the accepted source
    accepted,  \* edits that are part of it
    rejected,  \* edits recorded as failing validation
    touched    \* files somebody wrote from outside

vars == <<tree, head, accepted, rejected, touched>>

Changed(k, from) == {f \in DOMAIN Edit[k] : Edit[k][f] # from[f]}
Apply(k, from, to) ==
    [f \in Files |-> IF f \in Changed(k, from) THEN Edit[k][f] ELSE to[f]]

Init ==
    /\ tree = First
    /\ head = First
    /\ accepted = {}
    /\ rejected = {}
    /\ touched = {}

Accept(k) ==
    /\ k \notin accepted \cup rejected
    /\ accepted' = accepted \cup {k}
    /\ head' = Apply(k, head, head)
    /\ tree' = Apply(k, head, tree)
    /\ UNCHANGED <<rejected, touched>>

Reject(k) ==
    /\ k \notin accepted \cup rejected
    /\ rejected' = rejected \cup {k}
    /\ UNCHANGED <<tree, head, accepted, touched>>

Outside ==
    /\ touched' \in SUBSET Files
    /\ touched \subseteq touched'
    /\ tree' \in Trees
    /\ \A f \in Files \ touched' : tree'[f] = tree[f]
    /\ UNCHANGED <<head, accepted, rejected>>

Next == Outside \/ \E k \in Keys : Accept(k) \/ Reject(k)

Spec == Init /\ [][Next]_vars
=============================================================================
