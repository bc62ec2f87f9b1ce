----------------------------- MODULE ExecService -----------------------------
(***************************************************************************)
(* internal/terraform/exec: the service that shells out to terraform.      *)
(*                                                                         *)
(* A process is a goroutine BubbleTea started for a tea.Cmd; it makes one  *)
(* call on a service at a time.  A service belongs to a working directory  *)
(* and owns a ServiceCache; all services share one DirLock, which holds a  *)
(* non-reentrant mutex per directory.  terraform itself is external: a run *)
(* under the lock reads the state (its version in `backend'), writes it,   *)
(* or fails.  A failed or killed run may or may not have written.          *)
(***************************************************************************)
EXTENDS Naturals, ServiceCache

CONSTANTS
    Procs,        \* goroutines that call the service
    Services,     \* the root service and those WithDir made from it
    Root,         \* the service built at startup, the only one ever seeded
    Dirs,         \* working directories
    WorkingDir,   \* the directory of each service
    SeedSource,   \* the source of the root's state at startup ("none": not seeded)
    Nobody,       \* the holder of a free mutex
    Workload,     \* the operations they call
    MaxVersion,   \* bound on the versions of a directory's state
    Strangers     \* TRUE: the state may also change outside this program

Reads     == {"StateList", "StateListSkipCache", "Show"}
StateOps  == {"StateOp"}           \* StateRm, StateMove, Import, Taint, Untaint
AllOps    == {"AllOp"}             \* Refresh, Init, WorkspaceSelect
SilentOps == {"Apply"}             \* Apply, WorkspaceNew: write, leave the cache
Queries   == {"Plan", "Query"}     \* Plan, PlanJSON; Validate, Output, Version, ...
Ops       == Reads \cup StateOps \cup AllOps \cup SilentOps \cup Queries
Writers   == StateOps \cup AllOps \cup SilentOps

ASSUME ServicesAssumption ==
    /\ Root \in Services
    /\ WorkingDir \in [Services -> Dirs]
    /\ SeedSource \in {"none", "file", "stdin"}
    /\ Nobody \notin Procs
    /\ Workload \subseteq Ops
    /\ MaxVersion \in Nat
    /\ Strangers \in BOOLEAN

VARIABLES
    lock,      \* DirLock.locks: the process holding each directory's mutex
    cache,     \* ExecService.cache of each service
    backend,   \* external: the version of each directory's terraform state
    planOut,   \* external: whose plan <dir>/tfplan.out holds
    pc,        \* where each process is in its call
    call,      \* the call: operation and service
    got,       \* what the call has read or written so far
    acked,     \* history: newest version a successful state operation of the service made
    floor,     \* history: acked when a read began
    seen       \* history: the directory's version when a read began

vars == <<lock, cache, backend, planOut, pc, call, got, acked, floor, seen>>

InLock == {"run", "show", "fill", "invalidate", "release"}
Pcs    == {"idle", "resources", "skip", "state", "acquire", "return"} \cup InLock

NoCall == [op |-> "Query", svc |-> Root]

Dir(p) == WorkingDir[call[p].svc]

\* An answer: whether the call succeeded, where a read's data came from and its
\* version, and for Plan whose plan file it read.
Answer   == [ok : BOOLEAN, from : Sources, ver : Nat, plan : Procs \cup {Nobody}]
NoAnswer == [ok |-> FALSE, from |-> "none", ver |-> 0, plan |-> Nobody]

FromCache(p) ==
    [NoAnswer EXCEPT !.ok   = TRUE,
                     !.from = cache[call[p].svc]["state"].source,
                     !.ver  = cache[call[p].svc]["state"].ver]

Init ==
    /\ lock    = [d \in Dirs |-> Nobody]
    /\ cache   = [s \in Services |->
                    IF s = Root THEN Seed(NewServiceCache, "state", SeedSource)
                                ELSE NewServiceCache]
    /\ backend = [d \in Dirs |-> 0]
    /\ planOut = [d \in Dirs |-> Nobody]
    /\ pc      = [p \in Procs |-> "idle"]
    /\ call    = [p \in Procs |-> NoCall]
    /\ got     = [p \in Procs |-> NoAnswer]
    /\ acked   = [s \in Services |-> 0]
    /\ floor   = [p \in Procs |-> 0]
    /\ seen    = [p \in Procs |-> 0]

Goto(p, l) == pc' = [pc EXCEPT ![p] = l]

\* Where a call starts: reads try the cache, everything else queues for the lock.
EntryPoint(op) ==
    CASE op = "StateList"          -> "resources"
      [] op = "StateListSkipCache" -> "skip"
      [] op = "Show"               -> "state"
      [] OTHER                     -> "acquire"

Call(p, op, s) ==
    /\ pc[p] = "idle"
    /\ Goto(p, EntryPoint(op))
    /\ call'  = [call EXCEPT ![p] = [op |-> op, svc |-> s]]
    /\ floor' = [floor EXCEPT ![p] = IF op \in Reads THEN acked[s] ELSE 0]
    /\ seen'  = [seen EXCEPT ![p] = IF op \in Reads THEN backend[WorkingDir[s]] ELSE 0]
    /\ UNCHANGED <<lock, cache, backend, planOut, got, acked>>

\* StateList: the resource list from the cache, if there is one.
ListResources(p) ==
    /\ pc[p] = "resources"
    /\ IF GetResources(cache[call[p].svc])
       THEN /\ got' = [got EXCEPT ![p] = FromCache(p)]
            /\ Goto(p, "return")
       ELSE /\ Goto(p, "state")
            /\ UNCHANGED got
    /\ UNCHANGED <<lock, cache, backend, planOut, call, acked, floor, seen>>

\* Mutant: the option is accepted and ignored.
SkipCacheIgnored(p) ==
    /\ pc[p] = "skip"
    /\ Goto(p, "state")
    /\ UNCHANGED <<lock, cache, backend, planOut, call, got, acked, floor, seen>>

\* StateList(SkipCache): invalidates without taking the directory's mutex.
SkipCache(p) ==
    /\ pc[p] = "skip"
    /\ \E readable \in BOOLEAN :
         cache' = [cache EXCEPT ![call[p].svc] = InvalidateState(@, readable)]
    /\ Goto(p, "state")
    /\ UNCHANGED <<lock, backend, planOut, call, got, acked, floor, seen>>

\* loadState, first part: the cache is consulted before the mutex is taken,
\* and not again once it is held.
LoadState(p) ==
    /\ pc[p] = "state"
    /\ IF GetState(cache[call[p].svc])
       THEN /\ got' = [got EXCEPT ![p] = FromCache(p)]
            /\ Goto(p, "return")
       ELSE /\ Goto(p, "acquire")
            /\ UNCHANGED got
    /\ UNCHANGED <<lock, cache, backend, planOut, call, acked, floor, seen>>

\* Mutant: WithDir gives its service a DirLock of its own.
AcquireOwnLock(p) ==
    /\ pc[p] = "acquire"
    /\ \A q \in Procs : pc[q] \in InLock => call[q].svc # call[p].svc
    /\ lock' = [lock EXCEPT ![Dir(p)] = p]
    /\ Goto(p, "run")
    /\ UNCHANGED <<cache, backend, planOut, call, got, acked, floor, seen>>

\* DirLock.Acquire: waits for the mutex of the service's directory.
Acquire(p) ==
    /\ pc[p] = "acquire"
    /\ lock[Dir(p)] = Nobody
    /\ lock' = [lock EXCEPT ![Dir(p)] = p]
    /\ Goto(p, "run")
    /\ UNCHANGED <<cache, backend, planOut, call, got, acked, floor, seen>>

\* Mutant: a failed command is tried again instead of returning its error.
RunFailsAndRetries(p) ==
    /\ pc[p] \in {"run", "show"}
    /\ lock' = [lock EXCEPT ![Dir(p)] = Nobody]
    /\ Goto(p, "acquire")
    /\ UNCHANGED <<cache, backend, planOut, call, got, acked, floor, seen>>

\* newTerraform or the command fails, or the context was cancelled: the call
\* returns an error and does nothing more.
RunFails(p) ==
    /\ pc[p] \in {"run", "show"}
    /\ Goto(p, "release")
    /\ UNCHANGED <<lock, cache, backend, planOut, call, got, acked, floor, seen>>

\* The same, after terraform had already written the state.
RunFailsHalfway(p) ==
    /\ pc[p] = "run"
    /\ call[p].op \in Writers
    /\ backend[Dir(p)] < MaxVersion
    /\ backend' = [backend EXCEPT ![Dir(p)] = @ + 1]
    /\ Goto(p, "release")
    /\ UNCHANGED <<lock, cache, planOut, call, got, acked, floor, seen>>

\* Mutant: the mutex is released before the cache is filled.
RunShowAndUnlock(p) ==
    /\ pc[p] = "run"
    /\ call[p].op \in Reads
    /\ got' = [got EXCEPT ![p].from = "exec", ![p].ver = backend[Dir(p)]]
    /\ lock' = [lock EXCEPT ![Dir(p)] = Nobody]
    /\ Goto(p, "fill")
    /\ UNCHANGED <<cache, backend, planOut, call, acked, floor, seen>>

\* terraform show, for StateList and Show.
RunShow(p) ==
    /\ pc[p] = "run"
    /\ call[p].op \in Reads
    /\ got' = [got EXCEPT ![p].from = "exec", ![p].ver = backend[Dir(p)]]
    /\ Goto(p, "fill")
    /\ UNCHANGED <<lock, cache, backend, planOut, call, acked, floor, seen>>

\* loadState, last part: the state just shown goes into the cache.
Fill(p) ==
    /\ pc[p] = "fill"
    /\ cache' = [cache EXCEPT ![call[p].svc] = SetState(@, got[p].ver)]
    /\ got' = [got EXCEPT ![p].ok = TRUE]
    /\ Goto(p, "release")
    /\ UNCHANGED <<lock, backend, planOut, call, acked, floor, seen>>

\* A successful state rm, mv, import, taint, untaint, refresh, init or
\* workspace select: the state moves on, the cache is invalidated next.
RunStateOp(p) ==
    /\ pc[p] = "run"
    /\ call[p].op \in StateOps \cup AllOps
    /\ backend[Dir(p)] < MaxVersion
    /\ backend' = [backend EXCEPT ![Dir(p)] = @ + 1]
    /\ got' = [got EXCEPT ![p].ver = backend[Dir(p)] + 1]
    /\ Goto(p, "invalidate")
    /\ UNCHANGED <<lock, cache, planOut, call, acked, floor, seen>>

\* Mutant: a state operation forgets to invalidate, as Taint and Untaint once did.
InvalidateAllOpsOnly(p) ==
    /\ pc[p] = "invalidate"
    /\ \E readable \in BOOLEAN :
         cache' = [cache EXCEPT ![call[p].svc] =
                     IF call[p].op \in StateOps THEN @ ELSE InvalidateAll(@, readable)]
    /\ acked' = [acked EXCEPT ![call[p].svc] = got[p].ver]
    /\ got' = [got EXCEPT ![p].ok = TRUE]
    /\ Goto(p, "release")
    /\ UNCHANGED <<lock, backend, planOut, call, floor, seen>>

\* cache.InvalidateState() after a state operation, InvalidateAll() after
\* Refresh, Init and WorkspaceSelect; the mutex is still held.
InvalidateCache(p) ==
    /\ pc[p] = "invalidate"
    /\ \E readable \in BOOLEAN :
         cache' = [cache EXCEPT ![call[p].svc] =
                     IF call[p].op \in StateOps THEN InvalidateState(@, readable)
                                                ELSE InvalidateAll(@, readable)]
    /\ acked' = [acked EXCEPT ![call[p].svc] = got[p].ver]
    /\ got' = [got EXCEPT ![p].ok = TRUE]
    /\ Goto(p, "release")
    /\ UNCHANGED <<lock, backend, planOut, call, floor, seen>>

\* Apply changes the resources and WorkspaceNew the selected workspace: both
\* change what a later read would show, and neither touches the cache.
RunApply(p) ==
    /\ pc[p] = "run"
    /\ call[p].op \in SilentOps
    /\ backend[Dir(p)] < MaxVersion
    /\ backend' = [backend EXCEPT ![Dir(p)] = @ + 1]
    /\ got' = [got EXCEPT ![p].ok = TRUE]
    /\ Goto(p, "release")
    /\ UNCHANGED <<lock, cache, planOut, call, acked, floor, seen>>

\* Plan without a plan file of its own writes <dir>/tfplan.out ...
RunPlan(p) ==
    /\ pc[p] = "run"
    /\ call[p].op = "Plan"
    /\ planOut' = [planOut EXCEPT ![Dir(p)] = p]
    /\ Goto(p, "show")
    /\ UNCHANGED <<lock, cache, backend, call, got, acked, floor, seen>>

\* ... and reads it back with a second command, under the same mutex.
ShowPlanFile(p) ==
    /\ pc[p] = "show"
    /\ got' = [got EXCEPT ![p].ok = TRUE, ![p].plan = planOut[Dir(p)]]
    /\ Goto(p, "release")
    /\ UNCHANGED <<lock, cache, backend, planOut, call, acked, floor, seen>>

\* Validate, Output, Version, Workspace, WorkspaceList, WorkspaceDelete,
\* ForceUnlock and the JSON variants: one command, no state of the service.
RunQuery(p) ==
    /\ pc[p] = "run"
    /\ call[p].op = "Query"
    /\ got' = [got EXCEPT ![p].ok = TRUE]
    /\ Goto(p, "release")
    /\ UNCHANGED <<lock, cache, backend, planOut, call, acked, floor, seen>>

\* The deferred DirLock.Release.
Release(p) ==
    /\ pc[p] = "release"
    /\ lock' = [lock EXCEPT ![Dir(p)] = Nobody]
    /\ Goto(p, "return")
    /\ UNCHANGED <<cache, backend, planOut, call, got, acked, floor, seen>>

\* The goroutine hands its answer over and ends, and its variables with it.
Return(p) ==
    /\ pc[p] = "return"
    /\ Goto(p, "idle")
    /\ call'  = [call EXCEPT ![p] = NoCall]
    /\ got'   = [got EXCEPT ![p] = NoAnswer]
    /\ floor' = [floor EXCEPT ![p] = 0]
    /\ seen'  = [seen EXCEPT ![p] = 0]
    /\ UNCHANGED <<lock, cache, backend, planOut, acked>>

\* External: another user of a shared backend changes the state.
StrangerWrites(d) ==
    /\ Strangers
    /\ backend[d] < MaxVersion
    /\ backend' = [backend EXCEPT ![d] = @ + 1]
    /\ UNCHANGED <<lock, cache, planOut, pc, call, got, acked, floor, seen>>

Run(p) ==
    \/ RunFails(p) \/ RunFailsHalfway(p) \/ RunShow(p) \/ Fill(p)
    \/ RunStateOp(p) \/ InvalidateCache(p) \/ RunApply(p)
    \/ RunPlan(p) \/ ShowPlanFile(p) \/ RunQuery(p)
    \/ Release(p)

Step(p) ==
    \/ ListResources(p) \/ SkipCache(p) \/ LoadState(p)
    \/ Acquire(p) \/ Run(p) \/ Return(p)

Next ==
    \/ \E p \in Procs : Step(p) \/ \E op \in Workload, s \in Services : Call(p, op, s)
    \/ \E d \in Dirs : StrangerWrites(d)

Spec == Init /\ [][Next]_vars

(***************************************************************************)
(* Fairness.  A goroutine that can run does run, and a terraform command   *)
(* ends (by itself or because the user cancelled it).  Go's sync.Mutex is  *)
(* starvation free: a waiter that keeps finding the mutex free gets it.    *)
(* Nobody has to make another call, and no stranger has to write.          *)
(***************************************************************************)
Fairness == \A p \in Procs : WF_vars(Step(p)) /\ SF_vars(Acquire(p))

FairSpec == Spec /\ Fairness

-----------------------------------------------------------------------------
(* Properties *)

TypeOK ==
    /\ lock \in [Dirs -> Procs \cup {Nobody}]
    /\ cache \in [Services -> Cache]
    /\ backend \in [Dirs -> Nat]
    /\ planOut \in [Dirs -> Procs \cup {Nobody}]
    /\ pc \in [Procs -> Pcs]
    /\ call \in [Procs -> [op : Ops, svc : Services]]
    /\ got \in [Procs -> Answer]
    /\ acked \in [Services -> Nat]
    /\ floor \in [Procs -> Nat]
    /\ seen \in [Procs -> Nat]

\* ADR-0016: terraform's .terraform/ directory is not safe for concurrent
\* access, so no two goroutines ever run terraform in one directory, even
\* through different services that WithDir made for it.
OneTerraformPerDir ==
    \A p, q \in Procs :
        p # q /\ pc[p] \in InLock /\ pc[q] \in InLock => Dir(p) # Dir(q)

\* A read that reaches terraform data answers with everything the service's
\* state operations had done by the time the read began, although StateList
\* and loadState look at the cache outside the mutex.
ReadYourWrites ==
    \A p \in Procs :
        /\ pc[p] = "return"
        /\ call[p].op \in Reads
        /\ got[p].ok
        /\ got[p].from = "exec"
        => got[p].ver >= floor[p]

\* SkipCache, the explicit refresh (ctrl+r): the answer is no older than the
\* state was when the refresh began, whoever changed it before.
SkipCacheReReads ==
    \A p \in Procs :
        /\ pc[p] = "return"
        /\ call[p].op = "StateListSkipCache"
        /\ got[p].ok
        /\ got[p].from = "exec"
        => got[p].ver >= seen[p]

\* architecture.md: a pre-seeded cache serves reads without shelling out.  Data
\* from stdin survives every invalidation, so such a read never queues for the
\* mutex or runs terraform, whatever other goroutines invalidate meanwhile.
StdinSeedNeverShellsOut ==
    SeedSource = "stdin" =>
        \A p \in Procs :
            call[p].svc = Root /\ call[p].op \in Reads
            => pc[p] \notin {"acquire"} \cup InLock

\* Plan reads <dir>/tfplan.out back with a second command: what it parses is
\* the plan it has just made, not that of another goroutine's plan.
PlanReadsItsOwnFile ==
    \A p \in Procs :
        pc[p] = "return" /\ call[p].op = "Plan" /\ got[p].ok => got[p].plan = p

\* A slow reader never puts an older state over a newer one in the cache.
CacheNeverGoesBack ==
    [][ \A s \in Services :
          cache[s]["state"].source = "exec" /\ cache'[s]["state"].source = "exec"
          => cache'[s]["state"].ver >= cache[s]["state"].ver ]_vars

\* No call is left waiting for ever: every goroutine gets its turn at the
\* mutex and its answer, whatever mix of calls is queued (ADR-0016).
EveryCallReturns ==
    \A p \in Procs : pc[p] # "idle" ~> pc[p] = "idle"
=============================================================================
