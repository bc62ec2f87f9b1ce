--------------------------- MODULE ConfirmedEdits ---------------------------
(***************************************************************************)
(* What the state browser promises of terraform's state, whatever views,   *)
(* services, prompts and commands it takes: a resource leaves the state of *)
(* a workspace, or is renamed there, only after the user has agreed to     *)
(* that for this directory, and one at a time; nothing else ever appears   *)
(* or disappears.                                                          *)
(***************************************************************************)
CONSTANTS Chdirs, Workspaces, Addrs

VARIABLES
    store,    \* the addresses in the state of each workspace
    agreed    \* the resources the user agreed to lose, with their directory

Init ==
    /\ store \in [Chdirs -> [Workspaces -> SUBSET Addrs]]
    /\ agreed = {}

Agree ==
    /\ \E d \in Chdirs, as \in SUBSET Addrs : agreed' = agreed \cup ({d} \X as)
    /\ UNCHANGED store

Remove ==
    /\ \E p \in agreed, w \in Workspaces :
         store' = [store EXCEPT ![p[1]][w] = @ \ {p[2]}]
    /\ UNCHANGED agreed

\* The new name is free, and only a resource that is there can take it.
Rename ==
    /\ \E p \in agreed, w \in Workspaces : \E to \in Addrs \ store[p[1]][w] :
         /\ p[2] \in store[p[1]][w]
         /\ store' = [store EXCEPT ![p[1]][w] = (@ \ {p[2]}) \cup {to}]
    /\ UNCHANGED agreed

Next == Agree \/ Remove \/ Rename

Spec == Init /\ [][Next]_<<store, agreed>>
=============================================================================
