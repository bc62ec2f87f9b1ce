---------------------------- MODULE ServiceCache ----------------------------
(***************************************************************************)
(* internal/terraform/service_cache.go: the typed cache shared by the      *)
(* executing and the recording service.  The five kinds of data are cached *)
(* alike: an entry says where its data came from (its source) and which    *)
(* data it holds, here a version number of the terraform state.            *)
(*                                                                         *)
(* A seeded entry holds what the user gave at startup (-plan, -state); its *)
(* version plays no part and stays 0.  Every operation takes the cache's   *)
(* mutex for its whole length, so each is one step of the caller.          *)
(***************************************************************************)
EXTENDS Naturals

CONSTANT EmptyStates     \* the versions of the state that hold no resource

ASSUME EmptyStatesAssumption == EmptyStates \subseteq Nat

Sources == {"none", "file", "stdin", "exec"}
Kinds   == {"plan", "state", "outputs", "diagnostics", "workspaces"}
Entry   == [source : Sources, ver : Nat]
Cache   == [Kinds -> Entry]

NoEntry == [source |-> "none", ver |-> 0]

NewServiceCache == [k \in Kinds |-> NoEntry]

\* SeedPlan and SeedState: a file path wins over bytes read from stdin.
Seed(c, k, source) ==
    [c EXCEPT ![k] = [source |-> source, ver |-> 0]]

GetState(c) == c["state"].source # "none"

\* An empty state has a nil resource list, which GetResources reports as a miss.
GetResources(c) ==
    GetState(c) /\ (c["state"].source = "exec" => c["state"].ver \notin EmptyStates)

\* Mutant: the data is stored without its source.
SetStateUnlabelled(c, v) ==
    [c EXCEPT !["state"] = [ver |-> v]]

SetState(c, v) ==
    [c EXCEPT !["state"] = [source |-> "exec", ver |-> v]]

\* Mutant: data from stdin is dropped too.
InvalidatedWithStdin(e, fileReadable) ==
    IF e.source \in {"exec", "stdin"} \/ (e.source = "file" /\ ~fileReadable)
    THEN NoEntry
    ELSE e

\* What invalidation makes of one entry: data from a run is dropped, a file is
\* read again (and dropped if that fails), stdin cannot be read a second time.
Invalidated(e, fileReadable) ==
    IF e.source = "exec" \/ (e.source = "file" /\ ~fileReadable)
    THEN NoEntry
    ELSE e

InvalidateState(c, fileReadable) ==
    [c EXCEPT !["state"] = Invalidated(@, fileReadable)]

InvalidateAll(c, fileReadable) ==
    [k \in Kinds |-> Invalidated(c[k], fileReadable)]
=============================================================================
