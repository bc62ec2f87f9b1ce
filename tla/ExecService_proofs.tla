------------------------- MODULE ExecService_proofs -------------------------
(***************************************************************************)
(* Proofs about ExecService, for any number of goroutines, services and    *)
(* directories and whatever they call.                                     *)
(***************************************************************************)
EXTENDS ExecService, TLAPS

-----------------------------------------------------------------------------
(* Type correctness *)

\* Storing and invalidating keep the type of a cache.
LEMMA CacheTypes ==
    ASSUME NEW c \in Cache, NEW b \in BOOLEAN, NEW v \in Nat
    PROVE  /\ SetState(c, v) \in Cache
           /\ InvalidateState(c, b) \in Cache
           /\ InvalidateAll(c, b) \in Cache
           /\ c["state"] \in Entry
BY DEF Cache, Entry, Kinds, Sources, SetState, InvalidateState, InvalidateAll,
       Invalidated, NoEntry

\* What a read takes from the cache is an answer.
LEMMA FromCacheType ==
    ASSUME TypeOK, NEW p \in Procs
    PROVE  FromCache(p) \in Answer
<1>1. call[p].svc \in Services
  BY DEF TypeOK
<1>2. cache[call[p].svc]["state"] \in Entry
  BY <1>1 DEF TypeOK, Cache, Kinds
<1> QED
  BY <1>2 DEF FromCache, NoAnswer, Answer, Entry, Sources

\* A call's directory and service are among those there are, and the
\* directory has a state.
LEMMA DirType ==
    ASSUME TypeOK, NEW p \in Procs
    PROVE  Dir(p) \in Dirs /\ call[p].svc \in Services /\ backend[Dir(p)] \in Nat
BY ServicesAssumption DEF TypeOK, Dir

\* The answer of a call that has not got any is an answer.
LEMMA NoAnswerType == NoAnswer \in Answer
BY DEF NoAnswer, Answer, Sources

\* The ways the steps fill in an answer keep its type.
LEMMA AnswerTypes ==
    ASSUME NEW a \in Answer, NEW v \in Nat, NEW q \in Procs \cup {Nobody}
    PROVE  /\ a.ver \in Nat
           /\ [a EXCEPT !.ok = TRUE] \in Answer
           /\ [a EXCEPT !.ver = v] \in Answer
           /\ [a EXCEPT !.from = "exec", !.ver = v] \in Answer
           /\ [a EXCEPT !.ok = TRUE, !.plan = q] \in Answer
BY DEF Answer, Sources

\* Every variable starts with its type.
LEMMA InitTypeOK == Init => TypeOK
<1> SUFFICES ASSUME Init PROVE TypeOK
  OBVIOUS
<1>1. NewServiceCache \in Cache
  BY DEF NewServiceCache, Cache, Entry, NoEntry, Sources, Kinds
<1>2. Seed(NewServiceCache, "state", SeedSource) \in Cache
  BY <1>1, ServicesAssumption DEF Seed, Cache, Entry, Sources, Kinds
<1>3. cache \in [Services -> Cache]
  BY <1>1, <1>2 DEF Init
<1>4. call \in [Procs -> [op : Ops, svc : Services]]
  BY ServicesAssumption DEF Init, NoCall, Ops, Queries
<1>5. got \in [Procs -> Answer]
  BY NoAnswerType DEF Init
<1> QED
  BY <1>3, <1>4, <1>5 DEF TypeOK, Init, Pcs

\* Every step of a goroutine, and of a stranger, keeps the types.
LEMMA NextTypeOK == TypeOK /\ [Next]_vars => TypeOK'
<1> SUFFICES ASSUME TypeOK, [Next]_vars PROVE TypeOK'
  OBVIOUS
<1> USE DEF TypeOK
<1>1. ASSUME NEW p \in Procs, NEW op \in Workload, NEW s \in Services, Call(p, op, s)
      PROVE  TypeOK'
  <2>1. op \in Ops /\ EntryPoint(op) \in Pcs
    BY ServicesAssumption DEF EntryPoint, Pcs
  <2>2. WorkingDir[s] \in Dirs
    BY ServicesAssumption
  <2> QED
    BY <1>1, <2>1, <2>2 DEF Call, Goto
<1>2. ASSUME NEW p \in Procs, ListResources(p) PROVE TypeOK'
  BY <1>2, FromCacheType DEF ListResources, Goto, Pcs
<1>3. ASSUME NEW p \in Procs, SkipCache(p) PROVE TypeOK'
  <2>1. PICK readable \in BOOLEAN :
          cache' = [cache EXCEPT ![call[p].svc] = InvalidateState(@, readable)]
    BY <1>3 DEF SkipCache
  <2>2. cache' \in [Services -> Cache]
    BY <2>1, DirType, CacheTypes
  <2> QED
    BY <1>3, <2>2 DEF SkipCache, Goto, Pcs
<1>4. ASSUME NEW p \in Procs, LoadState(p) PROVE TypeOK'
  BY <1>4, FromCacheType DEF LoadState, Goto, Pcs
<1>5. ASSUME NEW p \in Procs, Acquire(p) PROVE TypeOK'
  BY <1>5 DEF Acquire, Goto, Pcs, InLock
<1>6. ASSUME NEW p \in Procs, RunFails(p) PROVE TypeOK'
  BY <1>6 DEF RunFails, Goto, Pcs, InLock
<1>7. ASSUME NEW p \in Procs, RunFailsHalfway(p) PROVE TypeOK'
  BY <1>7, DirType DEF RunFailsHalfway, Goto, Pcs, InLock
<1>8. ASSUME NEW p \in Procs, RunShow(p) PROVE TypeOK'
  <2>1. got' \in [Procs -> Answer]
    BY <1>8, DirType, AnswerTypes DEF RunShow
  <2> QED
    BY <1>8, <2>1 DEF RunShow, Goto, Pcs, InLock
<1>9. ASSUME NEW p \in Procs, Fill(p) PROVE TypeOK'
  <2>1. SetState(cache[call[p].svc], got[p].ver) \in Cache
    BY AnswerTypes, DirType, CacheTypes
  <2>2. got' \in [Procs -> Answer]
    BY <1>9, AnswerTypes DEF Fill
  <2> QED
    BY <1>9, <2>1, <2>2, DirType DEF Fill, Goto, Pcs, InLock
<1>10. ASSUME NEW p \in Procs, RunStateOp(p) PROVE TypeOK'
  <2>1. backend[Dir(p)] + 1 \in Nat
    BY DirType
  <2>2. [got[p] EXCEPT !.ver = backend[Dir(p)] + 1] \in Answer
    BY <2>1, AnswerTypes
  <2>3. got' \in [Procs -> Answer]
    BY <1>10, <2>2 DEF RunStateOp
  <2> QED
    BY <1>10, <2>3, DirType DEF RunStateOp, Goto, Pcs, InLock
<1>11. ASSUME NEW p \in Procs, InvalidateCache(p) PROVE TypeOK'
  <2>1. PICK readable \in BOOLEAN :
          cache' = [cache EXCEPT ![call[p].svc] =
                      IF call[p].op \in StateOps THEN InvalidateState(@, readable)
                                                 ELSE InvalidateAll(@, readable)]
    BY <1>11 DEF InvalidateCache
  <2>2. cache' \in [Services -> Cache]
    BY <2>1, DirType, CacheTypes
  <2>3. got' \in [Procs -> Answer]
    BY <1>11, AnswerTypes DEF InvalidateCache
  <2>4. acked' \in [Services -> Nat]
    BY <1>11, AnswerTypes DEF InvalidateCache
  <2> QED
    BY <1>11, <2>2, <2>3, <2>4 DEF InvalidateCache, Goto, Pcs, InLock
<1>12. ASSUME NEW p \in Procs, RunApply(p) PROVE TypeOK'
  <2>1. got' \in [Procs -> Answer]
    BY <1>12, AnswerTypes DEF RunApply
  <2> QED
    BY <1>12, <2>1, DirType DEF RunApply, Goto, Pcs, InLock
<1>13. ASSUME NEW p \in Procs, RunPlan(p) PROVE TypeOK'
  BY <1>13 DEF RunPlan, Goto, Pcs, InLock
<1>14. ASSUME NEW p \in Procs, ShowPlanFile(p) PROVE TypeOK'
  <2>1. got' \in [Procs -> Answer]
    BY <1>14, DirType, AnswerTypes DEF ShowPlanFile
  <2> QED
    BY <1>14, <2>1 DEF ShowPlanFile, Goto, Pcs, InLock
<1>15. ASSUME NEW p \in Procs, RunQuery(p) PROVE TypeOK'
  <2>1. got' \in [Procs -> Answer]
    BY <1>15, AnswerTypes DEF RunQuery
  <2> QED
    BY <1>15, <2>1 DEF RunQuery, Goto, Pcs, InLock
<1>16. ASSUME NEW p \in Procs, Release(p) PROVE TypeOK'
  BY <1>16 DEF Release, Goto, Pcs
<1>17. ASSUME NEW p \in Procs, Return(p) PROVE TypeOK'
  BY <1>17, NoAnswerType, ServicesAssumption DEF Return, Goto, Pcs, NoCall, Ops, Queries
<1>18. ASSUME NEW d \in Dirs, StrangerWrites(d) PROVE TypeOK'
  BY <1>18 DEF StrangerWrites
<1>19. CASE UNCHANGED vars
  BY <1>19 DEF vars
<1> QED
  BY <1>1, <1>2, <1>3, <1>4, <1>5, <1>6, <1>7, <1>8, <1>9, <1>10, <1>11, <1>12,
     <1>13, <1>14, <1>15, <1>16, <1>17, <1>18, <1>19
     DEF Next, Step, Run

\* Every variable keeps its type.
THEOREM TypeCorrect == Spec => []TypeOK
BY InitTypeOK, NextTypeOK, PTL DEF Spec
-----------------------------------------------------------------------------
(* The inductive invariant.  A process is well placed (PlaceInv): what it    *)
(* runs matches its call, it holds the mutex wherever it claims to, and its  *)
(* answer so far is new enough.  A service's cache (CacheInv) is never       *)
(* behind the state operations its service has acknowledged.                 *)

State(s) == cache[s]["state"]

PlaceInv(p) ==
    /\ pc[p] = "idle" => got[p] = NoAnswer
    /\ pc[p] \in {"resources", "skip", "state", "fill"} => call[p].op \in Reads
    /\ pc[p] = "invalidate" => call[p].op \in StateOps \cup AllOps
    /\ pc[p] \in InLock => lock[Dir(p)] = p

AnswerInv(p) ==
    /\ floor[p] <= acked[call[p].svc]
    /\ got[p].from = "exec" => got[p].ver >= floor[p]
    /\ pc[p] = "fill" =>
         /\ got[p].from = "exec"
         /\ acked[call[p].svc] <= got[p].ver
         /\ got[p].ver <= backend[Dir(p)]
         /\ State(call[p].svc).source = "exec" => State(call[p].svc).ver <= got[p].ver
    /\ pc[p] = "invalidate" =>
         /\ acked[call[p].svc] <= got[p].ver
         /\ got[p].ver <= backend[Dir(p)]

PlanInv(p) ==
    /\ pc[p] = "show" => planOut[Dir(p)] = p
    /\ call[p].op = "Plan" /\ got[p].ok => got[p].plan = p

CacheInv(s) ==
    /\ acked[s] <= backend[WorkingDir[s]]
    /\ State(s).source = "exec" =>
         acked[s] <= State(s).ver /\ State(s).ver <= backend[WorkingDir[s]]

IInv ==
    /\ TypeOK
    /\ \A p \in Procs : PlaceInv(p) /\ AnswerInv(p) /\ PlanInv(p)
    /\ \A s \in Services : CacheInv(s)

\* A skip-cache reader that has invalidated the cache, when only this program
\* writes the state: whoever refills the cache, refills it with newer data.
RefreshInv(p) ==
    /\ seen[p] <= backend[Dir(p)]
    /\ pc[p] = "fill" => got[p].ver = backend[Dir(p)]
    /\ call[p].op = "StateListSkipCache" =>
         /\ got[p].from = "exec" => got[p].ver >= seen[p]
         /\ pc[p] \notin {"idle", "skip"} /\ State(call[p].svc).source = "exec"
            => State(call[p].svc).ver >= seen[p]

AloneInv == ~Strangers => \A p \in Procs : RefreshInv(p)

\* The state entry of a cache is an entry.
LEMMA StateType ==
    ASSUME TypeOK, NEW s \in Services
    PROVE  State(s).ver \in Nat /\ acked[s] \in Nat /\ cache[s] \in Cache
BY DEF TypeOK, State, Cache, Kinds, Entry

\* An answer from the cache has the source and the version of the cached entry.
LEMMA FromCacheFields ==
    ASSUME NEW p \in Procs
    PROVE  /\ FromCache(p).from = State(call[p].svc).source
           /\ FromCache(p).ver  = State(call[p].svc).ver
BY DEF FromCache, NoAnswer, State

\* Either invalidation drops a state that came from a run, and makes none
\* out of anything else.
LEMMA InvalidatedState ==
    ASSUME NEW c \in Cache, NEW b \in BOOLEAN
    PROVE  /\ InvalidateState(c, b)["state"].source # "exec"
           /\ InvalidateAll(c, b)["state"].source # "exec"
BY DEF Cache, Kinds, InvalidateState, InvalidateAll, Invalidated, NoEntry

\* The inductive invariant holds at startup.
LEMMA InitIInv == Init => IInv
<1> SUFFICES ASSUME Init PROVE IInv
  OBVIOUS
<1>1. \A s \in Services : State(s).source # "exec"
  BY ServicesAssumption DEF Init, State, NewServiceCache, Seed, NoEntry, Kinds
<1>2. \A s \in Services : CacheInv(s)
  BY <1>1, ServicesAssumption DEF Init, CacheInv
<1>3. \A p \in Procs : PlaceInv(p) /\ AnswerInv(p) /\ PlanInv(p)
  BY ServicesAssumption
  DEF Init, PlaceInv, AnswerInv, PlanInv, NoAnswer, NoCall, InLock
<1> QED
  BY <1>2, <1>3, InitTypeOK DEF IInv

\* Every step keeps the inductive invariant; one step below per action.
LEMMA NextIInv == IInv /\ [Next]_vars => IInv'
<1> SUFFICES ASSUME IInv, [Next]_vars PROVE IInv'
  OBVIOUS
<1>0. TypeOK /\ TypeOK'
  BY NextTypeOK DEF IInv
<1> USE DEF PlaceInv, AnswerInv, PlanInv, CacheInv
<1>1. ASSUME NEW p \in Procs, NEW op \in Workload, NEW s \in Services, Call(p, op, s)
      PROVE  IInv'
  <2>1. got[p] = NoAnswer
    BY <1>1 DEF Call, IInv
  <2>2. EntryPoint(op) \in {"resources", "skip", "state"} => op \in Reads
    BY DEF EntryPoint, Reads
  <2>3. EntryPoint(op) \in {"resources", "skip", "state", "acquire"}
    BY DEF EntryPoint
  <2>4. /\ pc'[p] = EntryPoint(op) /\ call'[p] = [op |-> op, svc |-> s]
        /\ floor'[p] = (IF op \in Reads THEN acked[s] ELSE 0)
        /\ got' = got /\ acked' = acked /\ cache' = cache /\ backend' = backend
        /\ lock' = lock /\ planOut' = planOut
    BY <1>0, <1>1 DEF Call, Goto, TypeOK
  <2>5. PlaceInv(p)' /\ AnswerInv(p)' /\ PlanInv(p)'
    BY <1>0, <2>1, <2>2, <2>3, <2>4, StateType DEF NoAnswer, InLock
  <2>6. \A q \in Procs \ {p} : PlaceInv(q)' /\ AnswerInv(q)' /\ PlanInv(q)'
    BY <1>0, <1>1, <2>4 DEF IInv, Call, Goto, Dir, State, InLock, TypeOK
  <2>7. \A e \in Services : CacheInv(e)'
    BY <2>4 DEF IInv, State
  <2> QED
    BY <1>0, <2>5, <2>6, <2>7 DEF IInv
<1>2. ASSUME NEW p \in Procs, ListResources(p) PROVE IInv'
  <2>1. CASE got' = got /\ pc' = [pc EXCEPT ![p] = "state"]
    BY <1>0, <1>2, <2>1 DEF IInv, ListResources, Goto, Dir, State, InLock, TypeOK
  <2>2. CASE got' = [got EXCEPT ![p] = FromCache(p)] /\ pc' = [pc EXCEPT ![p] = "return"]
    <3>1. call[p].op \in Reads /\ call[p].op # "Plan"
      BY <1>0, <1>2 DEF IInv, ListResources, Reads
    <3>2. got'[p].from = "exec" => got'[p].ver >= floor[p]
      <4>1. floor[p] <= acked[call[p].svc] /\ CacheInv(call[p].svc)
        BY <1>0, DirType DEF IInv
      <4> QED
        BY <1>0, <2>2, <4>1, DirType, FromCacheFields, StateType DEF TypeOK
    <3>3. \A q \in Procs \ {p} : got'[q] = got[q] /\ pc'[q] = pc[q]
      BY <1>0, <2>2 DEF TypeOK
    <3> QED
      BY <1>0, <1>2, <2>2, <3>1, <3>2, <3>3 DEF IInv, ListResources, Dir, State, InLock, TypeOK
  <2> QED
    BY <1>2, <2>1, <2>2 DEF ListResources, Goto
<1>3. ASSUME NEW p \in Procs, SkipCache(p) PROVE IInv'
  <2>1. PlaceInv(p)' /\ AnswerInv(p)' /\ PlanInv(p)'
    BY <1>0, <1>3, ServicesAssumption DEF IInv, SkipCache, Goto, Dir, State, InLock, InvalidateState, Invalidated, NoEntry, TypeOK
  <2>2. \A q \in Procs \ {p} : PlaceInv(q)' /\ AnswerInv(q)' /\ PlanInv(q)'
    BY <1>0, <1>3, ServicesAssumption DEF IInv, SkipCache, Goto, Dir, State, InLock, InvalidateState, Invalidated, NoEntry, TypeOK
  <2>3. \A s \in Services : CacheInv(s)'
    BY <1>0, <1>3, ServicesAssumption DEF IInv, SkipCache, Goto, Dir, State, InLock, InvalidateState, Invalidated, NoEntry, TypeOK
  <2> QED
    BY <1>0, <2>1, <2>2, <2>3 DEF IInv
<1>4. ASSUME NEW p \in Procs, LoadState(p) PROVE IInv'
  <2>1. CASE got' = got /\ pc' = [pc EXCEPT ![p] = "acquire"]
    BY <1>0, <1>4, <2>1 DEF IInv, LoadState, Goto, Dir, State, InLock, TypeOK
  <2>2. CASE got' = [got EXCEPT ![p] = FromCache(p)] /\ pc' = [pc EXCEPT ![p] = "return"]
    <3>1. call[p].op \in Reads /\ call[p].op # "Plan"
      BY <1>0, <1>4 DEF IInv, LoadState, Reads
    <3>2. got'[p].from = "exec" => got'[p].ver >= floor[p]
      <4>1. floor[p] <= acked[call[p].svc] /\ CacheInv(call[p].svc)
        BY <1>0, DirType DEF IInv
      <4> QED
        BY <1>0, <2>2, <4>1, DirType, FromCacheFields, StateType DEF TypeOK
    <3>3. \A q \in Procs \ {p} : got'[q] = got[q] /\ pc'[q] = pc[q]
      BY <1>0, <2>2 DEF TypeOK
    <3> QED
      BY <1>0, <1>4, <2>2, <3>1, <3>2, <3>3 DEF IInv, LoadState, Dir, State, InLock, TypeOK
  <2> QED
    BY <1>4, <2>1, <2>2 DEF LoadState, Goto
<1>5. ASSUME NEW p \in Procs, Acquire(p) PROVE IInv'
  <2>1. PlaceInv(p)' /\ AnswerInv(p)' /\ PlanInv(p)'
    BY <1>0, <1>5, ServicesAssumption DEF IInv, Acquire, Goto, Dir, State, InLock, TypeOK
  <2>2. \A q \in Procs \ {p} : PlaceInv(q)' /\ AnswerInv(q)' /\ PlanInv(q)'
    BY <1>0, <1>5, ServicesAssumption DEF IInv, Acquire, Goto, Dir, State, InLock, TypeOK
  <2>3. \A s \in Services : CacheInv(s)'
    BY <1>0, <1>5, ServicesAssumption DEF IInv, Acquire, Goto, Dir, State, InLock, TypeOK
  <2> QED
    BY <1>0, <2>1, <2>2, <2>3 DEF IInv
<1>6. ASSUME NEW p \in Procs, RunFails(p) PROVE IInv'
  <2>1. PlaceInv(p)' /\ AnswerInv(p)' /\ PlanInv(p)'
    BY <1>0, <1>6, ServicesAssumption DEF IInv, RunFails, Goto, Dir, State, InLock, TypeOK
  <2>2. \A q \in Procs \ {p} : PlaceInv(q)' /\ AnswerInv(q)' /\ PlanInv(q)'
    BY <1>0, <1>6, ServicesAssumption DEF IInv, RunFails, Goto, Dir, State, InLock, TypeOK
  <2>3. \A s \in Services : CacheInv(s)'
    BY <1>0, <1>6, ServicesAssumption DEF IInv, RunFails, Goto, Dir, State, InLock, TypeOK
  <2> QED
    BY <1>0, <2>1, <2>2, <2>3 DEF IInv
<1>7. ASSUME NEW p \in Procs, RunFailsHalfway(p) PROVE IInv'
  <2>0. \A d \in Dirs : backend[d] <= backend'[d]
    BY <1>0, <1>7 DEF RunFailsHalfway, TypeOK
  <2>1. PlaceInv(p)' /\ AnswerInv(p)' /\ PlanInv(p)'
    BY <1>0, <1>7, <2>0, ServicesAssumption DEF IInv, RunFailsHalfway, Goto, Dir, State, InLock, TypeOK
  <2>2. \A q \in Procs \ {p} : PlaceInv(q)' /\ AnswerInv(q)' /\ PlanInv(q)'
    BY <1>0, <1>7, <2>0, ServicesAssumption DEF IInv, RunFailsHalfway, Goto, Dir, State, InLock, TypeOK
  <2>3. \A s \in Services : CacheInv(s)'
    <3> SUFFICES ASSUME NEW s \in Services PROVE CacheInv(s)'
      OBVIOUS
    <3>1. WorkingDir[s] \in Dirs /\ backend[WorkingDir[s]] <= backend'[WorkingDir[s]]
      BY <2>0, ServicesAssumption
    <3>2. acked' = acked /\ State(s)' = State(s) /\ CacheInv(s)
      BY <1>7 DEF RunFailsHalfway, State, IInv
    <3> QED
      BY <1>0, <3>1, <3>2, StateType DEF TypeOK
  <2> QED
    BY <1>0, <2>1, <2>2, <2>3 DEF IInv
<1>8. ASSUME NEW p \in Procs, RunShow(p) PROVE IInv'
  <2>1. PlaceInv(p)' /\ AnswerInv(p)' /\ PlanInv(p)'
    BY <1>0, <1>8, ServicesAssumption DEF IInv, RunShow, Goto, Dir, State, InLock, TypeOK
  <2>2. \A q \in Procs \ {p} : PlaceInv(q)' /\ AnswerInv(q)' /\ PlanInv(q)'
    BY <1>0, <1>8, ServicesAssumption DEF IInv, RunShow, Goto, Dir, State, InLock, TypeOK
  <2>3. \A s \in Services : CacheInv(s)'
    BY <1>0, <1>8, ServicesAssumption DEF IInv, RunShow, Goto, Dir, State, InLock, TypeOK
  <2> QED
    BY <1>0, <2>1, <2>2, <2>3 DEF IInv
<1>9. ASSUME NEW p \in Procs, Fill(p) PROVE IInv'
  <2>1. PlaceInv(p)' /\ AnswerInv(p)' /\ PlanInv(p)'
    BY <1>0, <1>9, ServicesAssumption DEF IInv, Fill, Goto, Dir, State, InLock, SetState, Reads, TypeOK
  <2>2. \A q \in Procs \ {p} : PlaceInv(q)' /\ AnswerInv(q)' /\ PlanInv(q)'
    BY <1>0, <1>9, ServicesAssumption DEF IInv, Fill, Goto, Dir, State, InLock, SetState, Reads, TypeOK
  <2>3. \A s \in Services : CacheInv(s)'
    BY <1>0, <1>9, ServicesAssumption DEF IInv, Fill, Goto, Dir, State, InLock, SetState, Reads, TypeOK
  <2> QED
    BY <1>0, <2>1, <2>2, <2>3 DEF IInv
<1>10. ASSUME NEW p \in Procs, RunStateOp(p) PROVE IInv'
  <2>0. \A d \in Dirs : backend[d] <= backend'[d]
    BY <1>0, <1>10 DEF RunStateOp, TypeOK
  <2>1. PlaceInv(p)' /\ AnswerInv(p)' /\ PlanInv(p)'
    BY <1>0, <1>10, <2>0, ServicesAssumption DEF IInv, RunStateOp, Goto, Dir, State, InLock, TypeOK
  <2>2. \A q \in Procs \ {p} : PlaceInv(q)' /\ AnswerInv(q)' /\ PlanInv(q)'
    BY <1>0, <1>10, <2>0, ServicesAssumption DEF IInv, RunStateOp, Goto, Dir, State, InLock, TypeOK
  <2>3. \A s \in Services : CacheInv(s)'
    <3> SUFFICES ASSUME NEW s \in Services PROVE CacheInv(s)'
      OBVIOUS
    <3>1. WorkingDir[s] \in Dirs /\ backend[WorkingDir[s]] <= backend'[WorkingDir[s]]
      BY <2>0, ServicesAssumption
    <3>2. acked' = acked /\ State(s)' = State(s) /\ CacheInv(s)
      BY <1>10 DEF RunStateOp, State, IInv
    <3> QED
      BY <1>0, <3>1, <3>2, StateType DEF TypeOK
  <2> QED
    BY <1>0, <2>1, <2>2, <2>3 DEF IInv
<1>11. ASSUME NEW p \in Procs, InvalidateCache(p) PROVE IInv'
  <2> DEFINE svc == call[p].svc
  <2>1. State(svc)'.source # "exec"
    <3>1. PICK readable \in BOOLEAN :
            cache' = [cache EXCEPT ![call[p].svc] =
                        IF call[p].op \in StateOps THEN InvalidateState(@, readable)
                                                   ELSE InvalidateAll(@, readable)]
      BY <1>11 DEF InvalidateCache
    <3>2. cache[svc] \in Cache /\ svc \in Services
      BY <1>0, DirType, StateType
    <3>3. cache'[svc] = IF call[p].op \in StateOps THEN InvalidateState(cache[svc], readable)
                                                   ELSE InvalidateAll(cache[svc], readable)
      BY <1>0, <3>1, <3>2 DEF TypeOK
    <3>4. cache'[svc]["state"].source # "exec"
      BY <3>2, <3>3, InvalidatedState
    <3>5. svc' = svc
      BY <1>11 DEF InvalidateCache
    <3> QED
      BY <3>4, <3>5 DEF State
  <2>2. \A s \in Services \ {svc} : State(s)' = State(s) /\ acked'[s] = acked[s]
    BY <1>0, <1>11 DEF InvalidateCache, State, TypeOK
  <2>3. /\ acked'[svc] = got[p].ver /\ acked[svc] <= acked'[svc]
        /\ acked'[svc] <= backend[Dir(p)] /\ acked'[svc] \in Nat
    BY <1>0, <1>11, DirType, AnswerTypes DEF IInv, InvalidateCache, TypeOK
  <2>4. PlaceInv(p)' /\ AnswerInv(p)' /\ PlanInv(p)'
    <3>1. call[p].op # "Plan" /\ lock[Dir(p)] = p
      BY <1>11 DEF IInv, InvalidateCache, InLock, StateOps, AllOps
    <3>2. /\ pc'[p] = "release" /\ call' = call /\ lock' = lock /\ floor' = floor
          /\ got'[p].from = got[p].from /\ got'[p].ver = got[p].ver
      <4>1. got[p] \in Answer /\ got'[p] = [got[p] EXCEPT !.ok = TRUE]
        BY <1>0, <1>11 DEF InvalidateCache, TypeOK
      <4>2. got'[p].from = got[p].from /\ got'[p].ver = got[p].ver
        BY <4>1 DEF Answer
      <4> QED
        BY <1>0, <1>11, <4>2 DEF InvalidateCache, Goto, TypeOK
    <3>3. floor[p] <= acked[svc] /\ (got[p].from = "exec" => got[p].ver >= floor[p])
      BY DEF IInv
    <3>4. floor[p] \in Nat /\ acked[svc] \in Nat
      BY <1>0, DirType DEF TypeOK
    <3>5. floor'[p] <= acked'[svc]
      BY <2>3, <3>2, <3>3, <3>4
    <3> QED
      BY <3>1, <3>2, <3>3, <3>5 DEF Dir, State, InLock
  <2>5. ASSUME NEW q \in Procs \ {p}
        PROVE  PlaceInv(q)' /\ AnswerInv(q)' /\ PlanInv(q)'
    <3>1. /\ pc'[q] = pc[q] /\ got'[q] = got[q] /\ call' = call /\ lock' = lock
          /\ floor' = floor /\ backend' = backend /\ planOut' = planOut
      BY <1>0, <1>11 DEF InvalidateCache, Goto, TypeOK
    <3>2. PlaceInv(q) /\ AnswerInv(q) /\ PlanInv(q)
      BY DEF IInv
    <3>3. CASE call[q].svc # svc
      <4>1. State(call[q].svc)' = State(call[q].svc) /\ acked'[call[q].svc] = acked[call[q].svc]
        <5>1. call[q].svc \in Services \ {svc}
          BY <1>0, <3>3, DirType
        <5> QED
          BY <2>2, <3>1, <5>1 DEF State
      <4> QED
        BY <3>1, <3>2, <4>1 DEF Dir, State
    <3>4. CASE call[q].svc = svc
      <4>1. pc[q] \notin InLock
        BY <1>11, <3>2, <3>4 DEF IInv, InvalidateCache, InLock, Dir
      <4>2. floor[q] <= acked'[svc]
        BY <1>0, <2>3, <3>2, <3>4, DirType DEF TypeOK
      <4> QED
        BY <3>1, <3>2, <3>4, <4>1, <4>2 DEF Dir, InLock
    <3> QED
      BY <3>3, <3>4
  <2>6. \A s \in Services : CacheInv(s)'
    BY <1>0, <1>11, <2>1, <2>2, <2>3 DEF IInv, InvalidateCache, Dir, TypeOK
  <2> QED
    BY <1>0, <2>4, <2>5, <2>6 DEF IInv
<1>12. ASSUME NEW p \in Procs, RunApply(p) PROVE IInv'
  <2>0. \A d \in Dirs : backend[d] <= backend'[d]
    BY <1>0, <1>12 DEF RunApply, TypeOK
  <2>1. PlaceInv(p)' /\ AnswerInv(p)' /\ PlanInv(p)'
    BY <1>0, <1>12, <2>0, ServicesAssumption DEF IInv, RunApply, Goto, Dir, State, InLock, SilentOps, TypeOK
  <2>2. \A q \in Procs \ {p} : PlaceInv(q)' /\ AnswerInv(q)' /\ PlanInv(q)'
    BY <1>0, <1>12, <2>0, ServicesAssumption DEF IInv, RunApply, Goto, Dir, State, InLock, SilentOps, TypeOK
  <2>3. \A s \in Services : CacheInv(s)'
    <3> SUFFICES ASSUME NEW s \in Services PROVE CacheInv(s)'
      OBVIOUS
    <3>1. WorkingDir[s] \in Dirs /\ backend[WorkingDir[s]] <= backend'[WorkingDir[s]]
      BY <2>0, ServicesAssumption
    <3>2. acked' = acked /\ State(s)' = State(s) /\ CacheInv(s)
      BY <1>12 DEF RunApply, State, IInv
    <3> QED
      BY <1>0, <3>1, <3>2, StateType DEF TypeOK
  <2> QED
    BY <1>0, <2>1, <2>2, <2>3 DEF IInv
<1>13. ASSUME NEW p \in Procs, RunPlan(p) PROVE IInv'
  <2>1. PlaceInv(p)' /\ AnswerInv(p)' /\ PlanInv(p)'
    BY <1>0, <1>13, ServicesAssumption DEF IInv, RunPlan, Goto, Dir, State, InLock, TypeOK
  <2>2. \A q \in Procs \ {p} : PlaceInv(q)' /\ AnswerInv(q)' /\ PlanInv(q)'
    BY <1>0, <1>13, ServicesAssumption DEF IInv, RunPlan, Goto, Dir, State, InLock, TypeOK
  <2>3. \A s \in Services : CacheInv(s)'
    BY <1>0, <1>13, ServicesAssumption DEF IInv, RunPlan, Goto, Dir, State, InLock, TypeOK
  <2> QED
    BY <1>0, <2>1, <2>2, <2>3 DEF IInv
<1>14. ASSUME NEW p \in Procs, ShowPlanFile(p) PROVE IInv'
  <2>1. PlaceInv(p)' /\ AnswerInv(p)' /\ PlanInv(p)'
    BY <1>0, <1>14, ServicesAssumption DEF IInv, ShowPlanFile, Goto, Dir, State, InLock, TypeOK
  <2>2. \A q \in Procs \ {p} : PlaceInv(q)' /\ AnswerInv(q)' /\ PlanInv(q)'
    BY <1>0, <1>14, ServicesAssumption DEF IInv, ShowPlanFile, Goto, Dir, State, InLock, TypeOK
  <2>3. \A s \in Services : CacheInv(s)'
    BY <1>0, <1>14, ServicesAssumption DEF IInv, ShowPlanFile, Goto, Dir, State, InLock, TypeOK
  <2> QED
    BY <1>0, <2>1, <2>2, <2>3 DEF IInv
<1>15. ASSUME NEW p \in Procs, RunQuery(p) PROVE IInv'
  <2>1. PlaceInv(p)' /\ AnswerInv(p)' /\ PlanInv(p)'
    BY <1>0, <1>15, ServicesAssumption DEF IInv, RunQuery, Goto, Dir, State, InLock, TypeOK
  <2>2. \A q \in Procs \ {p} : PlaceInv(q)' /\ AnswerInv(q)' /\ PlanInv(q)'
    BY <1>0, <1>15, ServicesAssumption DEF IInv, RunQuery, Goto, Dir, State, InLock, TypeOK
  <2>3. \A s \in Services : CacheInv(s)'
    BY <1>0, <1>15, ServicesAssumption DEF IInv, RunQuery, Goto, Dir, State, InLock, TypeOK
  <2> QED
    BY <1>0, <2>1, <2>2, <2>3 DEF IInv
<1>16. ASSUME NEW p \in Procs, Release(p) PROVE IInv'
  <2>1. PlaceInv(p)' /\ AnswerInv(p)' /\ PlanInv(p)'
    BY <1>0, <1>16, ServicesAssumption DEF IInv, Release, Goto, Dir, State, InLock, TypeOK
  <2>2. \A q \in Procs \ {p} : PlaceInv(q)' /\ AnswerInv(q)' /\ PlanInv(q)'
    BY <1>0, <1>16, ServicesAssumption DEF IInv, Release, Goto, Dir, State, InLock, TypeOK
  <2>3. \A s \in Services : CacheInv(s)'
    BY <1>0, <1>16, ServicesAssumption DEF IInv, Release, Goto, Dir, State, InLock, TypeOK
  <2> QED
    BY <1>0, <2>1, <2>2, <2>3 DEF IInv
<1>17. ASSUME NEW p \in Procs, Return(p) PROVE IInv'
  <2>1. PlaceInv(p)' /\ AnswerInv(p)' /\ PlanInv(p)'
    BY <1>0, <1>17, ServicesAssumption DEF IInv, Return, Goto, Dir, State, InLock, NoCall, NoAnswer, TypeOK
  <2>2. \A q \in Procs \ {p} : PlaceInv(q)' /\ AnswerInv(q)' /\ PlanInv(q)'
    BY <1>0, <1>17, ServicesAssumption DEF IInv, Return, Goto, Dir, State, InLock, NoCall, NoAnswer, TypeOK
  <2>3. \A s \in Services : CacheInv(s)'
    BY <1>0, <1>17, ServicesAssumption DEF IInv, Return, Goto, Dir, State, InLock, NoCall, NoAnswer, TypeOK
  <2> QED
    BY <1>0, <2>1, <2>2, <2>3 DEF IInv
<1>18. ASSUME NEW d \in Dirs, StrangerWrites(d) PROVE IInv'
  <2>1. \A e \in Dirs : backend[e] <= backend'[e]
    BY <1>0, <1>18 DEF StrangerWrites, TypeOK
  <2>2. \A s \in Services : CacheInv(s)'
    <3> SUFFICES ASSUME NEW s \in Services PROVE CacheInv(s)'
      OBVIOUS
    <3>1. WorkingDir[s] \in Dirs /\ backend[WorkingDir[s]] <= backend'[WorkingDir[s]]
      BY <2>1, ServicesAssumption
    <3>2. acked' = acked /\ State(s)' = State(s) /\ CacheInv(s)
      BY <1>18 DEF StrangerWrites, State, IInv
    <3> QED
      BY <1>0, <3>1, <3>2, StateType DEF TypeOK
  <2>3. ASSUME NEW p \in Procs
        PROVE  PlaceInv(p)' /\ AnswerInv(p)' /\ PlanInv(p)'
    <3>1. PlaceInv(p) /\ AnswerInv(p) /\ PlanInv(p)
      BY DEF IInv
    <3>2. Dir(p) \in Dirs /\ backend[Dir(p)] <= backend'[Dir(p)] /\ got[p].ver \in Nat
      BY <1>0, <2>1, DirType, AnswerTypes DEF TypeOK
    <3> QED
      BY <1>0, <1>18, <3>1, <3>2 DEF StrangerWrites, Dir, State, TypeOK
  <2> QED
    BY <1>0, <2>2, <2>3 DEF IInv
<1>19. CASE UNCHANGED vars
  BY <1>0, <1>19 DEF IInv, vars, Dir, State, InLock
<1> QED
  BY <1>1, <1>2, <1>3, <1>4, <1>5, <1>6, <1>7, <1>8, <1>9, <1>10, <1>11, <1>12, <1>13, <1>14, <1>15, <1>16, <1>17, <1>18, <1>19 DEF Next, Step, Run

\* The invariant holds in every reachable state.
THEOREM Invariance == Spec => []IInv
BY InitIInv, NextIInv, PTL DEF Spec

\* terraform runs at most once at a time in a directory: whoever is past
\* Acquire is the recorded holder of the directory's one mutex.
THEOREM MutualExclusion == Spec => []OneTerraformPerDir
<1>1. IInv => OneTerraformPerDir
  BY DEF IInv, PlaceInv, OneTerraformPerDir
<1> QED
  BY <1>1, Invariance, PTL

\* A read never misses what its service's own state operations had done when
\* it began, for any interleaving of calls on any number of services, and
\* whether or not others change the state too.
THEOREM ReadsSeeOwnWrites == Spec => []ReadYourWrites
<1>1. IInv => ReadYourWrites
  BY DEF IInv, AnswerInv, ReadYourWrites
<1> QED
  BY <1>1, Invariance, PTL

\* Plan's two commands run under one hold of the mutex, so the file it reads
\* back is the one it wrote.
THEOREM PlansReadOwnFile == Spec => []PlanReadsItsOwnFile
<1>1. IInv => PlanReadsItsOwnFile
  BY DEF IInv, PlanInv, PlanReadsItsOwnFile
<1> QED
  BY <1>1, Invariance, PTL

\* A cache filled from terraform moves forward only: the one step that can
\* replace such data, Fill, holds the mutex and has read the newest state.
THEOREM CacheMovesForward == Spec => CacheNeverGoesBack
<1>1. IInv /\ [Next]_vars =>
        [\A s \in Services :
           cache[s]["state"].source = "exec" /\ cache'[s]["state"].source = "exec"
           => cache'[s]["state"].ver >= cache[s]["state"].ver]_vars
  <2> SUFFICES ASSUME IInv, [Next]_vars, NEW s \in Services,
                      State(s).source = "exec", State(s)'.source = "exec"
               PROVE  State(s)'.ver >= State(s).ver
    BY DEF State
  <2>0. TypeOK /\ State(s).ver \in Nat
    BY StateType DEF IInv
  <2>1. CASE State(s)' = State(s)
    BY <2>0, <2>1
  <2>2. ASSUME NEW p \in Procs, SkipCache(p) \/ InvalidateCache(p)
        PROVE  State(s)' = State(s)
    <3>1. PICK c \in {InvalidateState(cache[call[p].svc], TRUE),
                     InvalidateState(cache[call[p].svc], FALSE),
                     InvalidateAll(cache[call[p].svc], TRUE),
                     InvalidateAll(cache[call[p].svc], FALSE)} :
            cache' = [cache EXCEPT ![call[p].svc] = c]
      BY <2>2 DEF SkipCache, InvalidateCache
    <3>2. c["state"].source # "exec"
      BY <2>0, <3>1, DirType, StateType, InvalidatedState
    <3> QED
      BY <2>0, <3>1, <3>2, DirType DEF State, TypeOK
  <2>3. ASSUME NEW p \in Procs, Fill(p)
        PROVE  State(s)'.ver >= State(s).ver
    <3>1. CASE s # call[p].svc
      BY <2>0, <2>3, <3>1 DEF Fill, State, TypeOK
    <3>2. CASE s = call[p].svc
      <4>1. State(s).ver <= got[p].ver
        BY <2>3, <3>2 DEF IInv, AnswerInv, Fill
      <4>2. State(s)'.ver = got[p].ver
        BY <2>0, <2>3, <3>2, StateType DEF Fill, State, SetState, TypeOK, Cache, Kinds
      <4>3. got[p].ver \in Nat
        BY <2>0, AnswerTypes DEF TypeOK
      <4> QED
        BY <2>0, <4>1, <4>2, <4>3
    <3> QED
      BY <3>1, <3>2
  <2> QED
    BY <2>0, <2>1, <2>2, <2>3
    DEF Next, Step, Run, vars, Call, ListResources, LoadState, Acquire, RunFails,
        RunFailsHalfway, RunShow, RunStateOp, RunApply, RunPlan, ShowPlanFile,
        RunQuery, Release, Return, StrangerWrites, State
<1> QED
  BY <1>1, Invariance, PTL DEF Spec, CacheNeverGoesBack

-----------------------------------------------------------------------------
(* The explicit refresh, when only this program writes the state.            *)

\* While nobody else writes the state, every step also keeps what a refresh
\* relies on: the versions known to the service are those of the directory.
LEMMA NextAlone == IInv /\ AloneInv /\ [Next]_vars => AloneInv'
<1> SUFFICES ASSUME IInv, ~Strangers, \A p \in Procs : RefreshInv(p), [Next]_vars,
                    NEW q \in Procs
             PROVE  RefreshInv(q)'
  BY DEF AloneInv
<1>0. TypeOK /\ TypeOK' /\ IInv' /\ RefreshInv(q)
  BY NextTypeOK, NextIInv DEF IInv
<1>00. /\ seen[q] \in Nat /\ got[q].ver \in Nat /\ call[q].svc \in Services
       /\ State(call[q].svc).ver \in Nat /\ backend[Dir(q)] \in Nat
  BY <1>0, DirType, StateType, AnswerTypes DEF TypeOK
<1> USE DEF RefreshInv
\* Steps that leave the state of every directory, the answer of q and the
\* caches alone, and let q only leave the mutex or wait for it.
<1>1. ASSUME NEW p \in Procs, Acquire(p) \/ RunFails(p) \/ RunPlan(p) \/ Release(p)
      PROVE  RefreshInv(q)'
  BY <1>0, <1>1
  DEF Acquire, RunFails, RunPlan, Release, Goto, Dir, State, TypeOK
<1>2. ASSUME NEW p \in Procs, RunApply(p) \/ RunStateOp(p) \/ RunFailsHalfway(p)
      PROVE  RefreshInv(q)'
  <2>1. /\ backend[Dir(q)] <= backend'[Dir(q)] /\ backend'[Dir(q)] \in Nat
        /\ Dir(q) # Dir(p) => backend'[Dir(q)] = backend[Dir(q)]
    BY <1>0, <1>2, DirType DEF RunApply, RunStateOp, RunFailsHalfway, TypeOK
  <2>2. pc[p] = "run" /\ pc'[p] # "fill" /\ call[p].op \notin Reads
    BY <1>0, <1>2 DEF RunApply, RunStateOp, RunFailsHalfway, Goto, TypeOK,
                      Reads, StateOps, AllOps, SilentOps, Writers
  <2>3. /\ call' = call /\ cache' = cache /\ seen' = seen
        /\ q # p => pc'[q] = pc[q] /\ got'[q] = got[q]
    BY <1>0, <1>2 DEF RunApply, RunStateOp, RunFailsHalfway, Goto, TypeOK
  <2>4. CASE q = p
    <3>1. call'[q].op # "StateListSkipCache" /\ pc'[q] # "fill"
      BY <2>2, <2>3, <2>4 DEF Reads
    <3>2. seen'[q] <= backend'[Dir(q)] /\ Dir(q)' = Dir(q)
      BY <1>0, <1>00, <2>1, <2>3 DEF Dir
    <3> QED
      BY <3>1, <3>2
  <2>5. CASE q # p
    <3>1. pc[q] = "fill" => Dir(q) # Dir(p)
      BY <2>2, <2>5 DEF IInv, PlaceInv, InLock
    <3>2. seen'[q] <= backend'[Dir(q)] /\ Dir(q)' = Dir(q)
      BY <1>0, <1>00, <2>1, <2>3 DEF Dir
    <3>3. pc'[q] = "fill" => got'[q].ver = backend'[Dir(q)]
      BY <1>0, <2>1, <2>3, <2>5, <3>1
    <3> QED
      BY <1>0, <2>3, <2>5, <3>2, <3>3 DEF State
  <2> QED
    BY <2>4, <2>5
<1>3. ASSUME NEW p \in Procs, RunQuery(p) \/ ShowPlanFile(p) \/ Return(p)
      PROVE  RefreshInv(q)'
  <2>1. /\ cache' = cache /\ backend' = backend /\ pc'[p] \in {"release", "idle"}
        /\ q # p => pc'[q] = pc[q] /\ got'[q] = got[q] /\ call'[q] = call[q] /\ seen'[q] = seen[q]
    BY <1>0, <1>3 DEF RunQuery, ShowPlanFile, Return, Goto, TypeOK
  <2>2. CASE q # p
    BY <1>0, <2>1, <2>2 DEF Dir, State
  <2>3. CASE q = p /\ Return(p)
    <3>1. /\ call'[q] = NoCall /\ seen'[q] = 0 /\ pc'[q] = "idle"
      BY <1>0, <2>3 DEF Return, Goto, TypeOK
    <3>2. backend[WorkingDir[Root]] \in Nat
      BY <1>0, ServicesAssumption DEF TypeOK
    <3> QED
      BY <2>1, <3>1, <3>2 DEF NoCall, Dir
  <2>4. CASE q = p /\ (RunQuery(p) \/ ShowPlanFile(p))
    <3>1. call' = call /\ seen' = seen /\ pc[q] \in {"run", "show"} /\ pc'[q] = "release"
      BY <1>0, <2>4 DEF RunQuery, ShowPlanFile, Goto, TypeOK
    <3>2. got'[q].from = got[q].from /\ got'[q].ver = got[q].ver
      <4>1. got[q] \in Answer /\ \E v : got'[q] = [got[q] EXCEPT !.ok = TRUE, !.plan = v]
                             \/ got'[q] = [got[q] EXCEPT !.ok = TRUE]
        BY <1>0, <2>4 DEF RunQuery, ShowPlanFile, TypeOK
      <4> QED
        BY <4>1 DEF Answer
    <3> QED
      BY <1>0, <2>1, <3>1, <3>2 DEF Dir, State
  <2> QED
    BY <1>3, <2>2, <2>3, <2>4
<1>4. ASSUME NEW p \in Procs, NEW op \in Workload, NEW s \in Services, Call(p, op, s)
      PROVE  RefreshInv(q)'
  <2>1. cache' = cache /\ backend' = backend /\ got' = got
    BY <1>4 DEF Call
  <2>2. CASE q # p
    BY <1>0, <1>4, <2>1, <2>2 DEF Call, Goto, Dir, State, TypeOK
  <2>3. CASE q = p
    <3>1. /\ pc'[q] = EntryPoint(op) /\ got[q] = NoAnswer /\ call'[q] = [op |-> op, svc |-> s]
          /\ seen'[q] = IF op \in Reads THEN backend[WorkingDir[s]] ELSE 0
      BY <1>0, <1>4, <2>3 DEF Call, Goto, IInv, PlaceInv, TypeOK
    <3>2. backend[WorkingDir[s]] \in Nat
      BY <1>0, ServicesAssumption DEF TypeOK
    <3>3. EntryPoint(op) # "fill" /\ (op = "StateListSkipCache" => EntryPoint(op) = "skip")
      BY DEF EntryPoint
    <3> QED
      BY <2>1, <3>1, <3>2, <3>3 DEF NoAnswer, Dir
  <2> QED
    BY <2>2, <2>3
<1>5. ASSUME NEW p \in Procs, ListResources(p) \/ LoadState(p)
      PROVE  RefreshInv(q)'
  <2>1. /\ cache' = cache /\ backend' = backend /\ call' = call /\ seen' = seen
        /\ q # p => pc'[q] = pc[q] /\ got'[q] = got[q]
    BY <1>0, <1>5 DEF ListResources, LoadState, Goto, TypeOK
  <2>2. pc'[p] # "fill" /\ pc[p] \in {"resources", "state"}
    BY <1>0, <1>5 DEF ListResources, LoadState, Goto, TypeOK
  <2>3. got'[p] = got[p] \/ got'[p] = FromCache(p)
    BY <1>0, <1>5 DEF ListResources, LoadState, TypeOK
  <2> QED
    BY <1>0, <2>1, <2>2, <2>3, FromCacheFields DEF Dir, State
<1>6. ASSUME NEW p \in Procs, SkipCache(p) \/ InvalidateCache(p)
      PROVE  RefreshInv(q)'
  <2>1. /\ backend' = backend /\ call' = call /\ seen' = seen
        /\ pc[p] \in {"skip", "invalidate"} /\ pc'[p] \in {"state", "release"}
        /\ q # p => pc'[q] = pc[q]
    BY <1>0, <1>6 DEF SkipCache, InvalidateCache, Goto, TypeOK
  <2>2. \A s \in Services : State(s)' # State(s) => s = call[p].svc
    BY <1>0, <1>6 DEF SkipCache, InvalidateCache, State, TypeOK
  <2>3. State(call[p].svc)'.source # "exec"
    <3>1. PICK c \in {InvalidateState(cache[call[p].svc], TRUE),
                     InvalidateState(cache[call[p].svc], FALSE),
                     InvalidateAll(cache[call[p].svc], TRUE),
                     InvalidateAll(cache[call[p].svc], FALSE)} :
            cache' = [cache EXCEPT ![call[p].svc] = c]
      BY <1>6 DEF SkipCache, InvalidateCache
    <3>2. c["state"].source # "exec"
      BY <1>0, <3>1, DirType, StateType, InvalidatedState
    <3> QED
      BY <1>0, <2>1, <3>1, <3>2, DirType DEF State, TypeOK
  <2>4. got'[q].from = got[q].from /\ got'[q].ver = got[q].ver
    <3>1. got[q] \in Answer /\ (got'[q] = got[q] \/ got'[q] = [got[q] EXCEPT !.ok = TRUE])
      BY <1>0, <1>6 DEF SkipCache, InvalidateCache, TypeOK
    <3> QED
      BY <3>1 DEF Answer
  <2>5. State(call[q].svc)'.source = "exec" =>
          /\ State(call[q].svc)' = State(call[q].svc)
          /\ q # p
    BY <1>00, <2>1, <2>2, <2>3 DEF State
  <2> QED
    BY <1>0, <2>1, <2>4, <2>5 DEF Dir
<1>7. ASSUME NEW p \in Procs, RunShow(p) PROVE RefreshInv(q)'
  <2>1. /\ cache' = cache /\ backend' = backend /\ call' = call /\ seen' = seen
        /\ q # p => pc'[q] = pc[q] /\ got'[q] = got[q]
        /\ pc[p] = "run"
    BY <1>0, <1>7 DEF RunShow, Goto, TypeOK
  <2>2. got'[p].ver = backend[Dir(p)]
    <3>1. got[p] \in Answer /\ got'[p] = [got[p] EXCEPT !.from = "exec", !.ver = backend[Dir(p)]]
      BY <1>0, <1>7 DEF RunShow, TypeOK
    <3> QED
      BY <3>1 DEF Answer
  <2> QED
    BY <1>0, <1>00, <2>1, <2>2 DEF Dir, State
<1>8. ASSUME NEW p \in Procs, Fill(p) PROVE RefreshInv(q)'
  <2>1. /\ backend' = backend /\ call' = call /\ seen' = seen
        /\ q # p => pc'[q] = pc[q]
        /\ pc[p] = "fill" /\ pc'[p] = "release"
    BY <1>0, <1>8 DEF Fill, Goto, TypeOK
  <2>2. got'[q].from = got[q].from /\ got'[q].ver = got[q].ver
    <3>1. got[q] \in Answer /\ (got'[q] = got[q] \/ got'[q] = [got[q] EXCEPT !.ok = TRUE])
      BY <1>0, <1>8 DEF Fill, TypeOK
    <3> QED
      BY <3>1 DEF Answer
  <2>3. CASE call[q].svc # call[p].svc
    <3>1. State(call[q].svc)' = State(call[q].svc)
      BY <1>0, <1>00, <1>8, <2>1, <2>3 DEF Fill, State, TypeOK
    <3>2. q # p
      BY <2>3
    <3> QED
      BY <1>0, <2>1, <2>2, <3>1, <3>2 DEF Dir
  <2>4. CASE call[q].svc = call[p].svc
    <3>1. State(call[q].svc)'.ver = got[p].ver
      BY <1>0, <1>8, <2>1, <2>4, DirType, StateType
      DEF Fill, State, SetState, TypeOK, Cache, Kinds
    <3>2. got[p].ver = backend[Dir(p)] /\ Dir(p) = Dir(q)
      BY <2>1, <2>4 DEF Dir
    <3> QED
      BY <1>0, <1>00, <2>1, <2>2, <3>1, <3>2 DEF Dir
  <2> QED
    BY <2>3, <2>4
<1>9. ASSUME NEW d \in Dirs, StrangerWrites(d) PROVE RefreshInv(q)'
  BY <1>9 DEF StrangerWrites
<1>10. CASE UNCHANGED vars
  BY <1>0, <1>10 DEF vars, Dir, State
<1> QED
  BY <1>1, <1>2, <1>3, <1>4, <1>5, <1>6, <1>7, <1>8, <1>9, <1>10 DEF Next, Step, Run

\* While only this program changes the state, an explicit refresh answers with
\* a state at least as new as the one there was when the refresh began: no
\* refill of the cache by another goroutine can serve it older data.
THEOREM RefreshIsFresh == ~Strangers => (Spec => []SkipCacheReReads)
<1> SUFFICES ASSUME ~Strangers PROVE Spec => []SkipCacheReReads
  OBVIOUS
<1>1. Init => AloneInv
  BY ServicesAssumption
  DEF Init, AloneInv, RefreshInv, State, NoCall, NoAnswer, Dir
<1>2. IInv /\ AloneInv => SkipCacheReReads
  BY DEF AloneInv, RefreshInv, SkipCacheReReads
<1>3. Spec => []AloneInv
  BY <1>1, NextAlone, Invariance, PTL DEF Spec
<1> QED
  BY <1>2, <1>3, Invariance, PTL

-----------------------------------------------------------------------------
(* A state given on stdin.                                                   *)

\* What the root's cache holds never goes, and the reads that find it there
\* never leave the part of a call that needs no mutex.
StdinInv ==
    SeedSource = "stdin" =>
        /\ State(Root).source = "stdin"
        /\ \A p \in Procs :
              call[p].svc = Root /\ call[p].op \in Reads
              => pc[p] \in {"idle", "resources", "skip", "state", "return"}

\* Invalidation leaves data from stdin alone.
LEMMA StdinKept ==
    ASSUME NEW c \in Cache, c["state"].source = "stdin", NEW b \in BOOLEAN
    PROVE  /\ InvalidateState(c, b)["state"].source = "stdin"
           /\ InvalidateAll(c, b)["state"].source = "stdin"
BY DEF Cache, Kinds, InvalidateState, InvalidateAll, Invalidated

\* Every step keeps it; only a read of the root could overwrite the data, once
\* it held the mutex.
LEMMA NextStdin == IInv /\ StdinInv /\ [Next]_vars => StdinInv'
<1> SUFFICES ASSUME IInv, SeedSource = "stdin", StdinInv, [Next]_vars PROVE StdinInv'
  BY DEF StdinInv
<1>0. TypeOK /\ TypeOK'
  BY NextTypeOK DEF IInv
<1>s. State(Root).source = "stdin"
  BY DEF StdinInv
<1>r. Root \in Services
  BY ServicesAssumption
<1>p. \A p \in Procs : call[p].svc = Root /\ call[p].op \in Reads
                      => pc[p] \in {"idle", "resources", "skip", "state", "return"}
  BY DEF StdinInv
\* The state of the root's cache, then where its reads are.
<1>1. State(Root)'.source = "stdin"
  <2>1. ASSUME NEW p \in Procs, SkipCache(p) \/ InvalidateCache(p)
        PROVE  State(Root)'.source = "stdin"
    <3>1. PICK c \in {InvalidateState(cache[call[p].svc], TRUE),
                     InvalidateState(cache[call[p].svc], FALSE),
                     InvalidateAll(cache[call[p].svc], TRUE),
                     InvalidateAll(cache[call[p].svc], FALSE)} :
            cache' = [cache EXCEPT ![call[p].svc] = c]
      BY <2>1 DEF SkipCache, InvalidateCache
    <3>2. CASE call[p].svc = Root
      <4>1. c["state"].source = "stdin"
        BY <1>0, <1>r, <1>s, <3>1, <3>2, StateType, StdinKept DEF State
      <4> QED
        BY <1>0, <1>r, <3>1, <3>2, <4>1 DEF State, TypeOK
    <3>3. CASE call[p].svc # Root
      BY <1>0, <1>r, <1>s, <3>1, <3>3 DEF State, TypeOK
    <3> QED
      BY <3>2, <3>3
  <2>2. ASSUME NEW p \in Procs, Fill(p) PROVE State(Root)'.source = "stdin"
    <3>1. call[p].op \in Reads /\ pc[p] = "fill"
      BY <2>2 DEF Fill, IInv, PlaceInv
    <3>2. call[p].svc # Root
      BY <1>p, <3>1
    <3> QED
      BY <1>0, <1>r, <1>s, <2>2, <3>2 DEF Fill, State, TypeOK
  <2>3. CASE cache' = cache
    BY <1>s, <2>3 DEF State
  <2> QED
    BY <2>1, <2>2, <2>3
    DEF Next, Step, Run, vars, Call, ListResources, LoadState, Acquire, RunFails,
        RunFailsHalfway, RunShow, RunStateOp, RunApply, RunPlan, ShowPlanFile,
        RunQuery, Release, Return, StrangerWrites
<1>2. ASSUME NEW q \in Procs, call'[q].svc = Root, call'[q].op \in Reads
      PROVE  pc'[q] \in {"idle", "resources", "skip", "state", "return"}
  <2>1. CASE pc'[q] = pc[q] /\ call'[q] = call[q]
    BY <1>2, <1>p, <2>1
  <2>2. ASSUME NEW op \in Workload, NEW s \in Services, Call(q, op, s)
        PROVE  pc'[q] \in {"resources", "skip", "state"}
    <3>1. call'[q] = [op |-> op, svc |-> s] /\ pc'[q] = EntryPoint(op)
      BY <1>0, <2>2 DEF Call, Goto, TypeOK
    <3> QED
      BY <1>2, <3>1 DEF EntryPoint, Reads
  <2>3. ASSUME ListResources(q) \/ SkipCache(q) \/ Return(q)
        PROVE  pc'[q] \in {"idle", "state", "return"}
    BY <1>0, <2>3 DEF ListResources, SkipCache, Return, Goto, TypeOK
  <2>4. ASSUME LoadState(q) PROVE pc'[q] = "return"
    <3>1. call' = call
      BY <2>4 DEF LoadState
    <3>2. GetState(cache[call[q].svc])
      BY <1>2, <1>s, <3>1 DEF GetState, State
    <3> QED
      BY <1>0, <2>4, <3>2 DEF LoadState, Goto, TypeOK
  <2>5. ASSUME Acquire(q) \/ Run(q) PROVE FALSE
    <3>1. pc[q] \in {"acquire"} \cup InLock /\ call' = call
      BY <2>5 DEF InLock, Acquire, Run, RunFails, RunFailsHalfway, RunShow, Fill, RunStateOp,
                  InvalidateCache, RunApply, RunPlan, ShowPlanFile, RunQuery, Release
    <3> QED
      BY <1>2, <1>p, <3>1 DEF InLock
  <2>6. ASSUME NEW p \in Procs \ {q}, Step(p) \/ \E op \in Workload, s \in Services : Call(p, op, s)
        PROVE  pc'[q] = pc[q] /\ call'[q] = call[q]
    BY <1>0, <2>6
    DEF Step, Run, Call, Goto, ListResources, SkipCache, LoadState, Acquire, RunFails,
        RunFailsHalfway, RunShow, Fill, RunStateOp, InvalidateCache, RunApply, RunPlan,
        ShowPlanFile, RunQuery, Release, Return, TypeOK
  <2>7. CASE UNCHANGED vars \/ \E d \in Dirs : StrangerWrites(d)
    BY <2>1, <2>7 DEF vars, StrangerWrites
  <2> QED
    BY <2>1, <2>2, <2>3, <2>4, <2>5, <2>6, <2>7 DEF Next, Step
<1> QED
  BY <1>1, <1>2 DEF StdinInv

\* A state read from stdin at startup, which cannot be read again, serves every
\* read of the root service: none of them ever queues for the mutex or runs
\* terraform, whatever other goroutines run and invalidate meanwhile.
THEOREM StdinServesReads == Spec => []StdinSeedNeverShellsOut
<1>1. Init => StdinInv
  BY ServicesAssumption DEF Init, StdinInv, State, Seed, NewServiceCache, NoEntry, Kinds
<1>2. StdinInv => StdinSeedNeverShellsOut
  BY DEF StdinInv, StdinSeedNeverShellsOut, InLock
<1>3. Spec => []StdinInv
  BY <1>1, NextStdin, Invariance, PTL DEF Spec
<1> QED
  BY <1>2, <1>3, PTL

=============================================================================
