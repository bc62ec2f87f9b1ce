----------------------------- MODULE App_proofs -----------------------------
(* What holds of the App's Update loop for every set of directories,           *)
(* addresses and views, and for every bound on the runs, the stack and the     *)
(* messages waiting. The first four theorems hold of every user, the last two  *)
(* of one who looks at the screen before pressing the next key (~Hasty).       *)
EXTENDS App, SequenceTheorems, TLAPS

-----------------------------------------------------------------------------
(* Messages *)

\* What is waiting once the messages S have been sent.
LEMMA SendFacts ==
    ASSUME NEW B, IsABag(B), NEW S
    PROVE  IsABag(B (+) SetToBag(S)) /\ BagToSet(B (+) SetToBag(S)) = BagToSet(B) \cup S
BY DEF IsABag, (+), SetToBag, BagToSet

\* What is waiting once message m has been received: m itself perhaps still,
\* if it had been sent twice.
LEMMA ReceiveFacts ==
    ASSUME NEW B, IsABag(B), NEW m \in BagToSet(B)
    PROVE  /\ IsABag(BagRemove(B, m))
           /\ BagToSet(BagRemove(B, m)) \subseteq BagToSet(B)
           /\ BagToSet(B) \subseteq BagToSet(BagRemove(B, m)) \cup {m}
<1>1. IsABag(BagRemove(B, m))
  BY DEF IsABag, BagRemove, BagToSet
<1>2. QED
  BY <1>1 DEF BagRemove, BagToSet

\* What a message carries, by its type.
LEMMA MessageCarries ==
    ASSUME NEW m \in Message
    PROVE  /\ m.type = "PlanResult" =>
                 m.run \in Runs /\ m.ok \in BOOLEAN /\ m.changed \subseteq Addrs /\ m.lock \in BOOLEAN
           /\ m.type \in {"ApplyResult", "ActionResult"} => m.ok \in BOOLEAN
           /\ m.type = "ApplyRequest" => m.file \in Nat /\ m.auto \in BOOLEAN
           /\ m.type = "PinToggle" => m.addrs \subseteq Addrs
           /\ m.type = "ContextSwitch" => m.dir \in Chdirs
           /\ m.type = "Navigate" => m.to \in Views
           /\ m.type = "RequestInput" => m.verb \in Verbs
           /\ m.type \in Signals \cup {"PlanResult", "ApplyResult", "ActionResult", "ApplyRequest",
                                      "PinToggle", "ContextSwitch", "Navigate", "RequestInput"}
           /\ m \in Results <=> m.type \in {"PlanResult", "ApplyResult", "ActionResult"}
BY DEF Message, Results, Signals

\* The messages the program makes.
LEMMA MessageMade ==
    /\ \A run \in Runs, ok, lock \in BOOLEAN, as \in SUBSET Addrs : PlanResult(run, ok, as, lock) \in Message
    /\ \A ok \in BOOLEAN : ApplyResult(ok) \in Message /\ ActionResult(ok) \in Message
    /\ \A f \in Nat, auto \in BOOLEAN : ApplyRequest(f, auto) \in Message
    /\ \A as \in SUBSET Addrs : PinToggle(as) \in Message
    /\ \A d \in Chdirs : ContextSwitch(d) \in Message
    /\ \A v \in Views : Navigate(v) \in Message
    /\ \A v \in Verbs : RequestInput(v) \in Message
    /\ \A t \in Signals : Signal(t) \in Message
<1>1. \A run \in Runs, ok, lock \in BOOLEAN, as \in SUBSET Addrs : PlanResult(run, ok, as, lock) \in Message
  BY DEF Message, Results, PlanResult
<1>2. \A ok \in BOOLEAN : ApplyResult(ok) \in Message /\ ActionResult(ok) \in Message
  BY DEF Message, Results, ApplyResult, ActionResult
<1>3. \A f \in Nat, auto \in BOOLEAN : ApplyRequest(f, auto) \in Message
  BY DEF Message, ApplyRequest
<1>4. \A as \in SUBSET Addrs : PinToggle(as) \in Message
  BY DEF Message, PinToggle
<1>5. \A d \in Chdirs : ContextSwitch(d) \in Message
  BY DEF Message, ContextSwitch
<1>6. \A v \in Views : Navigate(v) \in Message
  BY DEF Message, Navigate
<1>7. \A v \in Verbs : RequestInput(v) \in Message
  BY DEF Message, RequestInput
<1>8. \A t \in Signals : Signal(t) \in Message
  BY DEF Message, Signal
<1>9. QED
  BY <1>1, <1>2, <1>3, <1>4, <1>5, <1>6, <1>7, <1>8

-----------------------------------------------------------------------------
(* Types, with the numbers that plan files have: that of a run started before *)

PlanOK(pl, n) == pl \in PlanState /\ pl.file \in 0..MaxRuns /\ pl.file < n
ApplyOK(ap, n) == ap \in ApplyState /\ ap.file \in 0..MaxRuns /\ ap.file < n
RunsOK(rs, n) == rs \subseteq Run /\ \A r \in rs : r.id < n /\ r.file < n
Files(S, n) == \A m \in S : m.type = "ApplyRequest" => m.file \in Runs /\ m.file < n
MsgsOK(ms, n) == IsABag(ms) /\ BagToSet(ms) \subseteq Message /\ Files(BagToSet(ms), n)
VerbOK(vb) == vb \in [Verbs -> RunnerState]
NavOK(a, s) == a \in Views /\ s \in Seq(Views)
ContextOK(d, ps) == d \in Chdirs /\ ps \subseteq Addrs
MadeOK(md) == md \in [Runs -> [dir : Chdirs, pins : SUBSET Addrs]]
IntentOK(is) == is \in [Runs -> {"none", "asked", "withdrawn"}]
NextOK(n) == n \in 1 .. MaxRuns + 1

Typed ==
    /\ NavOK(active, navStack)
    /\ prompt \in Verbs \cup {"none"}
    /\ ContextOK(dir, pins)
    /\ PlanOK(plan, nextRun) /\ ApplyOK(apply, nextRun) /\ VerbOK(verb)
    /\ RunsOK(runs, nextRun) /\ MsgsOK(msgs, nextRun)
    /\ disk \subseteq Runs
    /\ NextOK(nextRun)
    /\ MadeOK(made) /\ IntentOK(intent)
    /\ unlocked \in BOOLEAN

\* Typed is TypeOK and more.
LEMMA TypedGivesTypeOK == Typed => TypeOK
BY DEF Typed, TypeOK, NavOK, ContextOK, PlanOK, ApplyOK, VerbOK, RunsOK, MsgsOK, MadeOK,
       IntentOK, NextOK, Waiting

\* A larger number of runs started changes nothing for those before.
LEMMA LaterRun ==
    ASSUME NextOK(nextRun)
    PROVE  /\ \A pl : PlanOK(pl, nextRun) => PlanOK(pl, nextRun + 1)
           /\ \A ap : ApplyOK(ap, nextRun) => ApplyOK(ap, nextRun + 1)
           /\ \A rs : RunsOK(rs, nextRun) => RunsOK(rs, nextRun + 1)
           /\ \A ms : MsgsOK(ms, nextRun) => MsgsOK(ms, nextRun + 1)
<1> USE AppAssumption
<1>1. \A pl : PlanOK(pl, nextRun) => PlanOK(pl, nextRun + 1)
  BY DEF NextOK, PlanOK
<1>2. \A ap : ApplyOK(ap, nextRun) => ApplyOK(ap, nextRun + 1)
  BY DEF NextOK, ApplyOK
<1>3. \A rs : RunsOK(rs, nextRun) => RunsOK(rs, nextRun + 1)
  BY DEF NextOK, RunsOK, Run, Runs
<1>4. \A ms : MsgsOK(ms, nextRun) => MsgsOK(ms, nextRun + 1)
  BY DEF NextOK, MsgsOK, Files, Runs
<1>5. QED
  BY <1>1, <1>2, <1>3, <1>4

\* Sending typed messages, and receiving one.
LEMMA SendTyped ==
    ASSUME NEW ms, NEW n, MsgsOK(ms, n), NEW S \in SUBSET Message, Files(S, n)
    PROVE  MsgsOK(ms (+) SetToBag(S), n)
BY SendFacts DEF MsgsOK, Files

\* Receiving one keeps the types.
LEMMA ReceiveTyped ==
    ASSUME NEW ms, NEW n, MsgsOK(ms, n), NEW m \in BagToSet(ms)
    PROVE  MsgsOK(BagRemove(ms, m), n)
BY ReceiveFacts DEF MsgsOK, Files

\* Cutting a plugin's run changes no run but in that.
LEMMA CutFacts ==
    ASSUME NEW v, NEW rs, rs \subseteq Run
    PROVE  /\ Cut(v, rs) \subseteq Run
           /\ \A r \in rs : \E q \in Cut(v, rs) : q.of = r.of /\ q.id = r.id
           /\ \A q \in Cut(v, rs) : \E r \in rs :
                 q.of = r.of /\ q.id = r.id /\ q.file = r.file /\ q.dir = r.dir
<1>1. \A r \in rs :
         LET q == [r EXCEPT !.cancelled = @ \/ r.of = v] IN
         q \in Run /\ q.of = r.of /\ q.id = r.id /\ q.file = r.file /\ q.dir = r.dir
  BY DEF Run
<1>2. Cut(v, rs) = {[r EXCEPT !.cancelled = @ \/ r.of = v] : r \in rs}
  BY DEF Cut
<1> HIDE DEF Cut
<1>3. QED
  BY <1>1, <1>2

\* Cutting runs keeps the types.
LEMMA CutTyped ==
    ASSUME NEW v, NEW rs, NEW n, RunsOK(rs, n)
    PROVE  RunsOK(Cut(v, rs), n)
BY CutFacts DEF RunsOK

\* A run started in a step.
LEMMA LaunchTyped ==
    ASSUME NEW v \in Plugins, NEW file \in 0..MaxRuns, NEW rs, Launch(v, file, rs),
           NextOK(nextRun), RunsOK(rs, nextRun), dir' \in Chdirs, file <= nextRun
    PROVE  /\ nextRun' = nextRun + 1 /\ NextOK(nextRun')
           /\ RunsOK(runs', nextRun')
<1> USE AppAssumption
<1>1. nextRun \in Runs /\ nextRun' = nextRun + 1
  BY DEF Launch
<1>2. NextOK(nextRun')
  BY <1>1 DEF NextOK, Runs
<1>3. RunsOK(Cut(v, rs), nextRun + 1)
  BY CutTyped, LaterRun
<1> DEFINE r == [of |-> v, id |-> nextRun, file |-> file, dir |-> dir', cancelled |-> FALSE]
<1>4. r \in Run
  BY <1>1 DEF Run
<1>5. r.id < nextRun + 1 /\ r.file < nextRun + 1
  BY <1>1 DEF Runs
<1>6. runs' = Cut(v, rs) \cup {r}
  BY DEF Launch
<1> HIDE DEF r
<1>7. QED
  BY <1>1, <1>2, <1>3, <1>4, <1>5, <1>6 DEF RunsOK

\* No run started in a step.
LEMMA NoRunTyped ==
    ASSUME NEW rs, NoRun(rs), RunsOK(rs, nextRun), NextOK(nextRun), MadeOK(made)
    PROVE  nextRun' = nextRun /\ NextOK(nextRun') /\ RunsOK(runs', nextRun') /\ MadeOK(made')
BY DEF NoRun

-----------------------------------------------------------------------------
(* The plugins' handlers keep the types *)

\* What the plan plugin's handlers make of its state.
LEMMA PlanTyped ==
    ASSUME NEW pl, NEW n, PlanOK(pl, n)
    PROVE  /\ PlanOK(ClearPending(pl), n) /\ PlanOK(PinsChanged(pl), n)
           /\ \A lock \in BOOLEAN : PlanOK(Failed(pl, lock), n)
           /\ \A run \in Nat, c \in BOOLEAN : PlanOK(Completed(pl, run, c), n)
           /\ \A d \in Deferred : PlanOK([pl EXCEPT !.pending = d], n)
BY DEF PlanOK, PlanState, Statuses, Deferred, ClearPending, PinsChanged, Failed, Completed

\* The plan plugin without results, or with results out of date.
LEMMA PlanResetTyped ==
    ASSUME NEW pl, NEW n, PlanOK(pl, n), NextOK(n)
    PROVE  PlanOK(Reset(pl), n) /\ PlanOK(PlanInvalidated(pl), n)
<1>1. PlanOK(NewPlan, n)
  BY AppAssumption DEF PlanOK, PlanState, Statuses, Deferred, NewPlan, NextOK
<1>2. PlanOK([pl EXCEPT !.stale = TRUE], n)
  BY DEF PlanOK, PlanState
<1>3. QED
  BY <1>1, <1>2 DEF Reset, PlanInvalidated

\* The plan plugin with a run just started.
LEMMA PlanRunTyped ==
    ASSUME NEW pl, PlanOK(pl, nextRun), nextRun \in Runs
    PROVE  PlanOK(Activated(pl, nextRun), nextRun + 1) /\ PlanOK(Replanned(pl, nextRun), nextRun + 1)
<1>0. pl \in PlanState /\ nextRun \in Nat
  BY AppAssumption DEF PlanOK, Runs
<1>1. Activated(pl, nextRun) \in PlanState /\ Activated(pl, nextRun).file = nextRun
  BY <1>0 DEF PlanState, Statuses, Activated
<1>2. Replanned(pl, nextRun) \in PlanState /\ Replanned(pl, nextRun).file = nextRun
  BY <1>0 DEF PlanState, Statuses, Replanned
<1>3. nextRun \in 0..MaxRuns /\ nextRun < nextRun + 1
  BY AppAssumption DEF Runs
<1>4. QED
  BY <1>1, <1>2, <1>3 DEF PlanOK

\* What the apply plugin's handlers make of its state.
LEMMA ApplyTyped ==
    ASSUME NEW ap, NEW n, ApplyOK(ap, n)
    PROVE  /\ ApplyOK(RequestApply(ap), n) /\ ApplyOK(Abort(ap), n) /\ ApplyOK(ShowLog(ap), n)
           /\ ApplyOK([ap EXCEPT !.stack = Cleared(@)], n)
           /\ ap.stack # <<>> => ApplyOK([ap EXCEPT !.stack = Front(@)], n)
           /\ \A f \in 0..MaxRuns : f < n => ApplyOK(SetPlanFile(ap, f), n)
<1>0. ap \in ApplyState /\ ap.stack \in Seq(Nat) /\ ap.last \in Nat
  BY DEF ApplyOK, ApplyState
<1>1. ApplyOK(RequestApply(ap), n) /\ ApplyOK(Abort(ap), n)
  BY DEF ApplyOK, ApplyState, RequestApply, Abort
<1>2. ApplyOK(ShowLog(ap), n)
  <2>1. <<ap.last>> \in Seq(Nat)
    BY <1>0
  <2>2. QED
    BY <2>1 DEF ApplyOK, ApplyState, ShowLog
<1>3. Cleared(ap.stack) \in Seq(Nat)
  BY <1>0 DEF Cleared
<1>4. ApplyOK([ap EXCEPT !.stack = Cleared(@)], n)
  BY <1>3 DEF ApplyOK, ApplyState
<1>5. ASSUME ap.stack # <<>> PROVE ApplyOK([ap EXCEPT !.stack = Front(@)], n)
  <2>1. Front(ap.stack) \in Seq(Nat)
    BY <1>0, <1>5 DEF Front
  <2>2. QED
    BY <2>1 DEF ApplyOK, ApplyState
<1>6. \A f \in 0..MaxRuns : f < n => ApplyOK(SetPlanFile(ap, f), n)
  BY AppAssumption DEF ApplyOK, ApplyState, SetPlanFile
<1>7. QED
  BY <1>1, <1>2, <1>4, <1>5, <1>6

\* The apply plugin with a run just started, with its result, and in another
\* directory.
LEMMA ApplyRunTyped ==
    ASSUME NEW ap, NEW n, ApplyOK(ap, n), NextOK(n)
    PROVE  /\ \A run \in Nat : ApplyOK(Applying(ap, run), n)
           /\ \A ok \in BOOLEAN : ApplyOK(Applied(ap, ok), n)
           /\ ApplyOK(Switched(ap), n)
<1>a. 0 \in 0..MaxRuns /\ 0 < n
  BY AppAssumption DEF NextOK
<1>0. ap \in ApplyState /\ ap.stack \in Seq(Nat)
  BY DEF ApplyOK, ApplyState
<1>1. ASSUME NEW run \in Nat PROVE ApplyOK(Applying(ap, run), n)
  <2>1. Append(Cleared(ap.stack), run) \in Seq(Nat)
    BY <1>0 DEF Cleared
  <2>2. QED
    BY <2>1 DEF ApplyOK, ApplyState, Applying
<1>2. \A ok \in BOOLEAN : ApplyOK(Applied(ap, ok), n)
  <2>1. <<>> \in Seq(Nat)
    OBVIOUS
  <2>2. \A ok \in BOOLEAN : Applied(ap, ok) \in ApplyState /\ Applied(ap, ok).file = 0
    BY <1>0, <2>1 DEF ApplyState, Applied
  <2>3. QED
    BY <1>a, <2>2 DEF ApplyOK
<1>3. ApplyOK(Switched(ap), n)
  <2>1. Switched(ap) \in ApplyState /\ Switched(ap).file = 0
    BY <1>0 DEF ApplyState, Switched
  <2>2. QED
    BY <1>a, <2>1 DEF ApplyOK
<1>4. QED
  BY <1>1, <1>2, <1>3

\* What a runner's handlers make of the runner of a verb.
LEMMA RunnerTyped ==
    ASSUME NEW vb, VerbOK(vb)
    PROVE  /\ \A v \in Verbs : /\ VerbOK([vb EXCEPT ![v] = ResetRunner(@)])
                               /\ VerbOK([vb EXCEPT ![v] = Arm(@)])
                               /\ VerbOK([vb EXCEPT ![v] = Started(@)])
                               /\ VerbOK([vb EXCEPT ![v] = Started(Arm(@))])
           /\ VerbOK([v \in Verbs |-> ResetRunner(vb[v])])
           /\ \A ok \in BOOLEAN : VerbOK([v \in Verbs |-> Reported(vb[v], ok)])
<1>1. \A v \in Verbs : /\ ResetRunner(vb[v]) \in RunnerState /\ Arm(vb[v]) \in RunnerState
                       /\ Started(vb[v]) \in RunnerState /\ Started(Arm(vb[v])) \in RunnerState
                       /\ \A ok \in BOOLEAN : Reported(vb[v], ok) \in RunnerState
  BY DEF VerbOK, RunnerState, ResetRunner, Arm, Started, Reported
<1>2. QED
  BY <1>1 DEF VerbOK

-----------------------------------------------------------------------------
(* Parts of steps *)

\* The start of a plan run.
LEMMA RunPlanTyped ==
    ASSUME NEW rs, RunPlan(rs), RunsOK(rs, nextRun), NextOK(nextRun), MadeOK(made),
           ContextOK(dir', pins')
    PROVE  /\ nextRun \in Runs /\ nextRun' = nextRun + 1 /\ NextOK(nextRun')
           /\ RunsOK(runs', nextRun') /\ MadeOK(made')
<1>1. Launch("plan", nextRun, rs) /\ nextRun \in Runs
  BY DEF RunPlan, Launch
<1>2. nextRun \in 0..MaxRuns /\ nextRun <= nextRun /\ "plan" \in Plugins
  BY <1>1, AppAssumption DEF Runs, Plugins
<1>3. nextRun' = nextRun + 1 /\ NextOK(nextRun') /\ RunsOK(runs', nextRun')
  BY <1>1, <1>2, LaunchTyped DEF ContextOK
<1>4. MadeOK(made')
  BY DEF RunPlan, MadeOK, ContextOK
<1>5. QED
  BY <1>1, <1>3, <1>4

\* What activating a plugin may do: start a plan, or reset the runner of
\* force-unlock and ask for a lock's name.
LEMMA ActivateMoves ==
    ASSUME NEW v, NEW pl, NEW rs, NEW vb, NEW ms, Activate(v, pl, rs, vb, ms)
    PROVE  /\ \/ plan' = pl /\ NoRun(rs)
              \/ v = "plan" /\ WantsRun(pl) /\ plan' = Activated(pl, nextRun) /\ RunPlan(rs)
           /\ \/ verb' = vb /\ msgs' = ms
              \/ /\ ~RunnerBusy(vb["forceunlock"])
                 /\ verb' = [vb EXCEPT !["forceunlock"] = ResetRunner(@)]
                 /\ msgs' = ms (+) SetToBag({RequestInput("forceunlock")})
BY DEF Activate

\* Activating a plugin keeps the types.
LEMMA ActivateTyped ==
    ASSUME NEW v, NEW pl, NEW rs, NEW vb, NEW ms, Activate(v, pl, rs, vb, ms),
           PlanOK(pl, nextRun), RunsOK(rs, nextRun), VerbOK(vb), MsgsOK(ms, nextRun),
           NextOK(nextRun), MadeOK(made), ContextOK(dir', pins')
    PROVE  /\ PlanOK(plan', nextRun') /\ RunsOK(runs', nextRun') /\ VerbOK(verb')
           /\ MsgsOK(msgs', nextRun') /\ NextOK(nextRun') /\ MadeOK(made')
           /\ nextRun' \in {nextRun, nextRun + 1}
<1>1. /\ \/ plan' = pl /\ NoRun(rs)
         \/ plan' = Activated(pl, nextRun) /\ RunPlan(rs)
      /\ \/ verb' = vb /\ msgs' = ms
         \/ /\ verb' = [vb EXCEPT !["forceunlock"] = ResetRunner(@)]
            /\ msgs' = ms (+) SetToBag({RequestInput("forceunlock")})
  BY ActivateMoves
<1>2. /\ PlanOK(plan', nextRun') /\ RunsOK(runs', nextRun') /\ NextOK(nextRun') /\ MadeOK(made')
      /\ nextRun' \in {nextRun, nextRun + 1}
  <2>1. CASE plan' = pl /\ NoRun(rs)
    BY <2>1, NoRunTyped
  <2>2. CASE plan' = Activated(pl, nextRun) /\ RunPlan(rs)
    <3>1. nextRun \in Runs /\ nextRun' = nextRun + 1 /\ NextOK(nextRun') /\ RunsOK(runs', nextRun')
          /\ MadeOK(made')
      BY <2>2, RunPlanTyped
    <3>2. QED
      BY <2>2, <3>1, PlanRunTyped
  <2>3. QED
    BY <1>1, <2>1, <2>2
<1>3. VerbOK(verb')
  BY <1>1, RunnerTyped DEF Verbs
<1>4. MsgsOK(msgs', nextRun)
  <2>1. {RequestInput("forceunlock")} \in SUBSET Message
    BY MessageMade DEF Verbs
  <2>2. Files({RequestInput("forceunlock")}, nextRun)
    BY DEF Files, RequestInput
  <2>3. QED
    BY <1>1, <2>1, <2>2, SendTyped
<1>5. MsgsOK(msgs', nextRun')
  BY <1>2, <1>4, LaterRun
<1>6. QED
  BY <1>2, <1>3, <1>5

\* What going back does: the last view of the stack is active again.
LEMMA GoBackTyped ==
    ASSUME NEW pl, NEW rs, NEW vb, NEW ms, GoBack(pl, rs, vb, ms), NavOK(active, navStack),
           PlanOK(pl, nextRun), RunsOK(rs, nextRun), VerbOK(vb), MsgsOK(ms, nextRun),
           NextOK(nextRun), MadeOK(made), ContextOK(dir', pins')
    PROVE  /\ PlanOK(plan', nextRun') /\ RunsOK(runs', nextRun') /\ VerbOK(verb')
           /\ MsgsOK(msgs', nextRun') /\ NextOK(nextRun') /\ MadeOK(made')
           /\ nextRun' \in {nextRun, nextRun + 1}
           /\ NavOK(active', navStack')
<1>1. Activate(Last(navStack), pl, rs, vb, ms)
  BY DEF GoBack
<1>2. /\ PlanOK(plan', nextRun') /\ RunsOK(runs', nextRun') /\ VerbOK(verb')
      /\ MsgsOK(msgs', nextRun') /\ NextOK(nextRun') /\ MadeOK(made')
      /\ nextRun' \in {nextRun, nextRun + 1}
  BY <1>1, ActivateTyped
<1>3. NavOK(active', navStack')
  BY DEF GoBack, NavOK, Last, Front
<1>4. QED
  BY <1>2, <1>3

\* Leaving a view: back to the one before, or to the home screen.
LEMMA LeaveViewTyped ==
    ASSUME NEW pl, NEW rs, NEW ms, LeaveView(pl, rs, ms) \/ GoHome(pl, rs, ms),
           NavOK(active, navStack),
           PlanOK(pl, nextRun), RunsOK(rs, nextRun), VerbOK(verb), MsgsOK(ms, nextRun),
           NextOK(nextRun), MadeOK(made), ContextOK(dir', pins')
    PROVE  /\ PlanOK(plan', nextRun') /\ RunsOK(runs', nextRun') /\ VerbOK(verb')
           /\ MsgsOK(msgs', nextRun') /\ NextOK(nextRun') /\ MadeOK(made')
           /\ nextRun' \in {nextRun, nextRun + 1}
           /\ NavOK(active', navStack')
<1>1. CASE GoBack(pl, rs, verb, ms)
  BY <1>1, GoBackTyped
<1>2. CASE GoHome(pl, rs, ms)
  <2>1. /\ nextRun' = nextRun /\ NextOK(nextRun') /\ RunsOK(runs', nextRun') /\ MadeOK(made')
    BY <1>2, NoRunTyped DEF GoHome
  <2>2. MsgsOK(msgs', nextRun)
    <3>1. {Signal("PinClear")} \in SUBSET Message
      BY MessageMade DEF Signals
    <3>2. Files({Signal("PinClear")}, nextRun)
      BY DEF Files, Signal
    <3>3. QED
      BY <1>2, <3>1, <3>2, SendTyped DEF GoHome
  <2>3. NavOK(active', navStack')
    BY <1>2 DEF GoHome, NavOK, Views
  <2>4. QED
    BY <1>2, <2>1, <2>2, <2>3 DEF GoHome
<1>3. QED
  BY <1>1, <1>2 DEF LeaveView

\* A view put on top of another.
LEMMA PushTyped ==
    ASSUME NEW v \in Views, Push(v), NavOK(active, navStack)
    PROVE  NavOK(active', navStack')
BY AppendProperties DEF Push, NavOK

\* Cancelling the active plugin keeps the types.
LEMMA CancelTyped ==
    ASSUME NEW v, Typed
    PROVE  PlanOK(PlanCancelled(v), nextRun) /\ RunsOK(Cut(v, runs), nextRun)
BY PlanTyped, CutTyped DEF PlanCancelled, Typed

\* Following a link, past the guard.
LEMMA NavigateTyped ==
    ASSUME Typed, NEW v \in Views, NEW ms, MsgsOK(ms, nextRun), NavigateTo(v, ms),
           ContextOK(dir', pins')
    PROVE  /\ PlanOK(plan', nextRun') /\ RunsOK(runs', nextRun') /\ VerbOK(verb')
           /\ MsgsOK(msgs', nextRun') /\ NextOK(nextRun') /\ MadeOK(made')
           /\ nextRun' \in {nextRun, nextRun + 1}
           /\ NavOK(active', navStack')
<1>1. Activate(v, PlanCancelled(active), Cut(active, runs), verb, ms)
  BY DEF NavigateTo
<1>2. PlanOK(PlanCancelled(active), nextRun) /\ RunsOK(Cut(active, runs), nextRun)
  BY CancelTyped
<1>3. /\ PlanOK(plan', nextRun') /\ RunsOK(runs', nextRun') /\ VerbOK(verb')
      /\ MsgsOK(msgs', nextRun') /\ NextOK(nextRun') /\ MadeOK(made')
      /\ nextRun' \in {nextRun, nextRun + 1}
  BY <1>1, <1>2, ActivateTyped DEF Typed
<1>4. NavOK(active', navStack')
  <2>1. CASE v \in NavPush
    BY <2>1, PushTyped DEF NavigateTo, Typed
  <2>2. CASE v \notin NavPush
    BY <2>2 DEF NavigateTo, NavOK
  <2>3. QED
    BY <2>1, <2>2
<1>5. QED
  BY <1>3, <1>4

\* A number that has grown by one at most leaves what has not changed typed.
LEMMA Untouched ==
    ASSUME Typed, nextRun' \in {nextRun, nextRun + 1}
    PROVE  /\ PlanOK(plan, nextRun') /\ ApplyOK(apply, nextRun') /\ RunsOK(runs, nextRun')
           /\ MsgsOK(msgs, nextRun')
BY LaterRun DEF Typed

\* A message sent by a key of the active view.
LEMMA PressTyped ==
    ASSUME Typed, NEW m \in Message, m.type # "ApplyRequest"
    PROVE  MsgsOK(Sent({m}), nextRun)
<1>1. Files({m}, nextRun)
  BY DEF Files
<1>2. QED
  BY <1>1, SendTyped DEF Typed, Sent

-----------------------------------------------------------------------------
(* Every action keeps the types *)

\* A key.
LEMMA KeysTyped == Typed /\ User => Typed'
<1> SUFFICES ASSUME Typed, User PROVE Typed'
  OBVIOUS
<1> USE DEF nav, context, ghosts
<1>c. ContextOK(dir, pins) /\ nextRun \in {nextRun, nextRun + 1}
  BY DEF Typed
<1>1. ASSUME NEW v \in Commands, Open(v) PROVE Typed'
  <2>1. v \in Views /\ MsgsOK(msgs, nextRun) /\ ContextOK(dir', pins')
    BY <1>1, AppAssumption DEF Open, Typed
  <2>2. NavigateTo(v, msgs)
    BY <1>1 DEF Open
  <2>3. /\ PlanOK(plan', nextRun') /\ RunsOK(runs', nextRun') /\ VerbOK(verb')
        /\ MsgsOK(msgs', nextRun') /\ NextOK(nextRun') /\ MadeOK(made')
        /\ nextRun' \in {nextRun, nextRun + 1}
        /\ NavOK(active', navStack')
    BY <2>1, <2>2, NavigateTyped
  <2>4. QED
    BY <1>1, <2>1, <2>3, Untouched DEF Open, Typed
<1>2. CASE ClearLogs
  BY <1>2, ApplyTyped DEF ClearLogs, Typed
<1>3. CASE Quit
  <2>1. ContextOK(dir', pins')
    BY <1>3 DEF Quit, Typed
  <2>2. /\ PlanOK(plan, nextRun) /\ RunsOK(runs, nextRun)
        /\ PlanOK(PlanCancelled(active), nextRun) /\ RunsOK(Cut(active, runs), nextRun)
    BY CancelTyped DEF Typed
  <2>3. PICK pl, rs : GoHome(pl, rs, msgs) /\ PlanOK(pl, nextRun) /\ RunsOK(rs, nextRun)
    BY <1>3, <2>2 DEF Quit
  <2>4. /\ PlanOK(plan', nextRun') /\ RunsOK(runs', nextRun') /\ VerbOK(verb')
        /\ MsgsOK(msgs', nextRun') /\ NextOK(nextRun') /\ MadeOK(made')
        /\ nextRun' \in {nextRun, nextRun + 1}
        /\ NavOK(active', navStack')
    BY <2>1, <2>3, LeaveViewTyped DEF Typed
  <2>5. QED
    BY <1>3, <2>1, <2>4, Untouched DEF Quit, Typed
<1>4. ASSUME NEW m \in Message, m.type # "ApplyRequest", Press(m) PROVE Typed'
  BY <1>4, PressTyped DEF Press, Typed
<1>5. CASE PlanEsc
  <2>1. Signal("Deactivate") \in Message /\ Signal("Deactivate").type # "ApplyRequest"
    BY MessageMade DEF Signals, Signal
  <2>2. MsgsOK(msgs', nextRun)
    BY <1>5, <2>1, PressTyped DEF PlanEsc
  <2>3. IntentOK(intent')
    BY <1>5 DEF PlanEsc, Typed, IntentOK
  <2>4. QED
    BY <1>5, <2>2, <2>3 DEF PlanEsc, Typed
<1>6. CASE PlanKey
  <2>1. CASE \E a \in Addrs : Press(PinToggle({a}))
    <3>1. PICK a \in Addrs : Press(PinToggle({a}))
      BY <2>1
    <3>2. PinToggle({a}) \in Message /\ PinToggle({a}).type # "ApplyRequest"
      BY <3>1, MessageMade DEF PinToggle
    <3>3. QED
      BY <1>4, <3>1, <3>2
  <2>2. CASE \E t \in {"PinClear", "TaintRequest", "PlanInvalidated"} : Press(Signal(t))
    <3>1. PICK t \in {"PinClear", "TaintRequest", "PlanInvalidated"} : Press(Signal(t))
      BY <2>2
    <3>2. Signal(t) \in Message /\ Signal(t).type # "ApplyRequest"
      BY <3>1, MessageMade DEF Signals, Signal
    <3>3. QED
      BY <1>4, <3>1, <3>2
  <2>3. CASE Press(Navigate("forceunlock"))
    <3>1. Navigate("forceunlock") \in Message /\ Navigate("forceunlock").type # "ApplyRequest"
      BY MessageMade DEF Navigate, Views, Plugins, Verbs
    <3>2. QED
      BY <1>4, <2>3, <3>1
  <2>4. QED
    BY <1>6, <2>1, <2>2, <2>3 DEF PlanKey
<1>7. CASE Refresh
  <2>1. RunPlan(runs) /\ plan' = Replanned(ClearPending(plan), nextRun) /\ ContextOK(dir', pins')
    BY <1>7 DEF Refresh, Typed
  <2>2. /\ nextRun \in Runs /\ nextRun' = nextRun + 1 /\ NextOK(nextRun')
        /\ RunsOK(runs', nextRun') /\ MadeOK(made')
    BY <2>1, RunPlanTyped DEF Typed
  <2>3. PlanOK(plan', nextRun')
    BY <2>1, <2>2, PlanTyped, PlanRunTyped DEF Typed
  <2>4. QED
    BY <1>7, <2>1, <2>2, <2>3, Untouched DEF Refresh, Typed
<1>8. ASSUME NEW auto \in BOOLEAN, AskApply(auto) PROVE Typed'
  <2>1. plan.file \in Runs /\ plan.file < nextRun /\ plan.file \in Nat
    BY <1>8, AppAssumption DEF AskApply, Fresh, Typed, PlanOK, Runs
  <2>2. {ApplyRequest(plan.file, auto)} \in SUBSET Message
    BY <2>1, MessageMade
  <2>3. Files({ApplyRequest(plan.file, auto)}, nextRun)
    BY <2>1 DEF Files, ApplyRequest
  <2>4. MsgsOK(msgs', nextRun)
    BY <1>8, <2>2, <2>3, SendTyped DEF AskApply, Sent, Typed
  <2>5. IntentOK(intent')
    BY <1>8 DEF AskApply, Typed, IntentOK
  <2>6. QED
    BY <1>8, <2>4, <2>5 DEF AskApply, Typed
<1>9. ASSUME NEW auto \in BOOLEAN, ReplanAndApply(auto) PROVE Typed'
  <2> DEFINE d == IF auto THEN "auto" ELSE "ask"
  <2>1. /\ RunPlan(runs) /\ plan' = Replanned([plan EXCEPT !.pending = d], nextRun)
        /\ ContextOK(dir', pins') /\ d \in Deferred
    BY <1>9 DEF ReplanAndApply, Typed, Deferred
  <2> HIDE DEF d
  <2>2. /\ nextRun \in Runs /\ nextRun' = nextRun + 1 /\ NextOK(nextRun')
        /\ RunsOK(runs', nextRun') /\ MadeOK(made')
    BY <2>1, RunPlanTyped DEF Typed
  <2>3. PlanOK([plan EXCEPT !.pending = d], nextRun)
    BY <2>1, PlanTyped DEF Typed
  <2>4. PlanOK(plan', nextRun')
    BY <2>1, <2>2, <2>3, PlanRunTyped
  <2>5. IntentOK(intent')
    BY <1>9 DEF ReplanAndApply, Typed, IntentOK
  <2>6. QED
    BY <1>9, <2>1, <2>2, <2>4, <2>5, Untouched DEF ReplanAndApply, Typed
<1>10. CASE EnterApply
  BY <1>10, ApplyTyped DEF EnterApply, Typed
<1>11. CASE Confirm
  <2>1. /\ Launch("apply", apply.file, runs) /\ apply.file \in 0..MaxRuns /\ apply.file <= nextRun
        /\ dir' \in Chdirs /\ "apply" \in Plugins
    BY <1>11, AppAssumption DEF Confirm, Typed, ApplyOK, NextOK, ContextOK, Plugins
  <2>2. nextRun' = nextRun + 1 /\ NextOK(nextRun') /\ RunsOK(runs', nextRun')
    BY <2>1, LaunchTyped DEF Typed
  <2>3. nextRun \in Nat
    BY AppAssumption DEF Typed, NextOK
  <2>4. ApplyOK(apply', nextRun)
    BY <1>11, <2>3, ApplyRunTyped DEF Confirm, Typed
  <2>5. ApplyOK(apply', nextRun')
    BY <2>2, <2>4, LaterRun DEF Typed
  <2>6. IntentOK(intent')
    BY <1>11 DEF Confirm, Typed, IntentOK
  <2>7. QED
    BY <1>11, <2>2, <2>5, <2>6, Untouched DEF Confirm, Typed
<1>12. CASE Decline
  <2>1. Signal("Deactivate") \in Message /\ Signal("Deactivate").type # "ApplyRequest"
    BY MessageMade DEF Signals, Signal
  <2>2. MsgsOK(msgs', nextRun)
    BY <1>12, <2>1, PressTyped DEF Decline
  <2>3. QED
    BY <1>12, <2>2, ApplyTyped DEF Decline, Typed
<1>13. CASE ApplyKey
  <2>1. Signal("Deactivate") \in Message /\ Signal("Deactivate").type # "ApplyRequest"
    BY MessageMade DEF Signals, Signal
  <2>2. Navigate("plan") \in Message /\ Navigate("plan").type # "ApplyRequest"
    BY MessageMade DEF Navigate, Views, Plugins
  <2>3. QED
    BY <1>4, <1>13, <2>1, <2>2 DEF ApplyKey
<1>14. CASE OpenLog
  BY <1>14, ApplyTyped DEF OpenLog, Typed
<1>15. CASE CloseLog
  <2>1. ApplyOK(apply', nextRun) /\ ContextOK(dir', pins')
    BY <1>15, ApplyTyped DEF CloseLog, Typed
  <2>2. CASE LeaveView(plan, runs, msgs)
    <3>1. /\ PlanOK(plan', nextRun') /\ RunsOK(runs', nextRun') /\ VerbOK(verb')
          /\ MsgsOK(msgs', nextRun') /\ NextOK(nextRun') /\ MadeOK(made')
          /\ nextRun' \in {nextRun, nextRun + 1}
          /\ NavOK(active', navStack')
      BY <2>1, <2>2, LeaveViewTyped DEF Typed
    <3>2. ApplyOK(apply', nextRun')
      BY <2>1, <3>1, LaterRun DEF Typed
    <3>3. QED
      BY <1>15, <2>1, <3>1, <3>2 DEF CloseLog, Typed
  <2>3. CASE UNCHANGED <<nav, plan, verb, runs, msgs, nextRun, made>>
    BY <1>15, <2>1, <2>3 DEF CloseLog, Typed
  <2>4. QED
    BY <1>15, <2>2, <2>3 DEF CloseLog
<1>16. CASE PickMember
  <2>1. PICK d \in Chdirs : Press(ContextSwitch(d))
    BY <1>16 DEF PickMember
  <2>2. ContextSwitch(d) \in Message /\ ContextSwitch(d).type # "ApplyRequest"
    BY MessageMade DEF ContextSwitch
  <2>3. QED
    BY <1>4, <2>1, <2>2
<1>17. CASE LeaveChdir
  <2>1. LeaveView(plan, runs, msgs) /\ ContextOK(dir', pins')
    BY <1>17 DEF LeaveChdir, Typed
  <2>2. /\ PlanOK(plan', nextRun') /\ RunsOK(runs', nextRun') /\ VerbOK(verb')
        /\ MsgsOK(msgs', nextRun') /\ NextOK(nextRun') /\ MadeOK(made')
        /\ nextRun' \in {nextRun, nextRun + 1}
        /\ NavOK(active', navStack')
    BY <2>1, LeaveViewTyped DEF Typed
  <2>3. QED
    BY <1>17, <2>1, <2>2, Untouched DEF LeaveChdir, Typed
<1>18. CASE VerbKey
  <2>1. Signal("Deactivate") \in Message /\ Signal("Deactivate").type # "ApplyRequest"
    BY MessageMade DEF Signals, Signal
  <2>2. Navigate("plan") \in Message /\ Navigate("plan").type # "ApplyRequest"
    BY MessageMade DEF Navigate, Views, Plugins
  <2>3. QED
    BY <1>4, <1>18, <2>1, <2>2 DEF VerbKey
<1>19. CASE RetryTaint
  <2>1. Launch("taint", 0, runs) /\ dir' \in Chdirs /\ "taint" \in Plugins /\ "taint" \in Verbs
    BY <1>19 DEF RetryTaint, Typed, ContextOK, Plugins, Verbs
  <2>2. 0 \in 0..MaxRuns /\ 0 <= nextRun
    BY AppAssumption DEF Typed, NextOK
  <2>3. nextRun' = nextRun + 1 /\ NextOK(nextRun') /\ RunsOK(runs', nextRun')
    BY <2>1, <2>2, LaunchTyped DEF Typed
  <2>4. VerbOK(verb')
    BY <1>19, <2>1, RunnerTyped DEF RetryTaint, Typed
  <2>5. QED
    BY <1>19, <2>3, <2>4, Untouched DEF RetryTaint, Typed
<1>20. CASE RetryUnlock
  <2>1. RequestInput("forceunlock") \in Message /\ RequestInput("forceunlock").type # "ApplyRequest"
    BY MessageMade DEF RequestInput, Verbs
  <2>2. MsgsOK(msgs', nextRun)
    BY <1>20, <2>1, PressTyped DEF RetryUnlock
  <2>3. VerbOK(verb')
    BY <1>20, RunnerTyped DEF RetryUnlock, Typed, Verbs
  <2>4. QED
    BY <1>20, <2>2, <2>3 DEF RetryUnlock, Typed
<1>21. CASE AnswerYes
  <2>1. CASE verb' = [verb EXCEPT !["taint"] = Started(@)] /\ Launch("taint", 0, runs) /\ UNCHANGED msgs
    <3>1. dir' \in Chdirs /\ "taint" \in Plugins /\ "taint" \in Verbs
      BY <1>21 DEF AnswerYes, Typed, ContextOK, Plugins, Verbs
    <3>2. 0 \in 0..MaxRuns /\ 0 <= nextRun
      BY AppAssumption DEF Typed, NextOK
    <3>3. nextRun' = nextRun + 1 /\ NextOK(nextRun') /\ RunsOK(runs', nextRun')
      BY <2>1, <3>1, <3>2, LaunchTyped DEF Typed
    <3>4. VerbOK(verb')
      BY <2>1, <3>1, RunnerTyped DEF Typed
    <3>5. QED
      BY <1>21, <2>1, <3>3, <3>4, Untouched DEF AnswerYes, Typed
  <2>2. CASE msgs' = Sent({Signal("UnlockStart")}) /\ UNCHANGED <<verb, runs, nextRun>>
    <3>1. Signal("UnlockStart") \in Message /\ Signal("UnlockStart").type # "ApplyRequest"
      BY MessageMade DEF Signals, Signal
    <3>2. MsgsOK(msgs', nextRun)
      BY <2>2, <3>1, PressTyped
    <3>3. QED
      BY <1>21, <2>2, <3>2 DEF AnswerYes, Typed
  <2>3. QED
    BY <1>21, <2>1, <2>2 DEF AnswerYes
<1>22. CASE AnswerNo
  BY <1>22 DEF AnswerNo, Typed
<1>23. QED
  BY <1>1, <1>2, <1>3, <1>5, <1>6, <1>7, <1>8, <1>9, <1>10, <1>11, <1>12, <1>13, <1>14, <1>15,
     <1>16, <1>17, <1>18, <1>19, <1>20, <1>21, <1>22 DEF User

\* The end of a run.
LEMMA TerraformTyped == Typed /\ Terraform => Typed'
<1> SUFFICES ASSUME Typed, NEW r \in runs, PlanEnds(r) \/ ApplyEnds(r) \/ ActionEnds(r)
             PROVE  Typed'
  BY DEF Terraform
<1> USE DEF nav, context, ghosts
<1>1. r \in Run /\ r.id \in Runs
  BY DEF Typed, RunsOK, Run
<1>2. RunsOK(runs \ {r}, nextRun)
  BY DEF Typed, RunsOK
<1>3. CASE PlanEnds(r)
  <2>1. disk' \subseteq Runs
    BY <1>1, <1>3 DEF PlanEnds, Typed
  <2>2. PICK m \in Message : m.type # "ApplyRequest" /\ msgs' = Sent({m})
    <3>1. CASE \E changed \in SUBSET Addrs : msgs' = Sent({PlanResult(r.id, TRUE, changed, FALSE)})
      <4>1. PICK changed \in SUBSET Addrs : msgs' = Sent({PlanResult(r.id, TRUE, changed, FALSE)})
        BY <3>1
      <4>2. /\ PlanResult(r.id, TRUE, changed, FALSE) \in Message
            /\ PlanResult(r.id, TRUE, changed, FALSE).type # "ApplyRequest"
        BY <1>1, MessageMade DEF PlanResult
      <4>3. QED
        BY <4>1, <4>2
    <3>2. CASE \E lock \in BOOLEAN : msgs' = Sent({PlanResult(r.id, FALSE, {}, lock)})
      <4>1. PICK lock \in BOOLEAN : msgs' = Sent({PlanResult(r.id, FALSE, {}, lock)})
        BY <3>2
      <4>2. /\ PlanResult(r.id, FALSE, {}, lock) \in Message
            /\ PlanResult(r.id, FALSE, {}, lock).type # "ApplyRequest"
        BY <1>1, MessageMade DEF PlanResult
      <4>3. QED
        BY <4>1, <4>2
    <3>3. QED
      BY <1>3, <3>1, <3>2 DEF PlanEnds
  <2>3. MsgsOK(msgs', nextRun)
    BY <2>2, PressTyped
  <2>4. QED
    BY <1>2, <1>3, <2>1, <2>3 DEF PlanEnds, Typed
<1>4. CASE ApplyEnds(r)
  <2>1. PICK ok \in BOOLEAN : msgs' = Sent({ApplyResult(ok)})
    BY <1>4 DEF ApplyEnds
  <2>2. ApplyResult(ok) \in Message /\ ApplyResult(ok).type # "ApplyRequest"
    BY MessageMade DEF ApplyResult
  <2>3. MsgsOK(msgs', nextRun)
    BY <2>1, <2>2, PressTyped
  <2>4. QED
    BY <1>2, <1>4, <2>3 DEF ApplyEnds, Typed
<1>5. CASE ActionEnds(r)
  <2>1. PICK ok \in BOOLEAN : /\ msgs' = Sent({ActionResult(ok)})
                              /\ unlocked' = (unlocked \/ (ok /\ r.of = "forceunlock"))
    BY <1>5 DEF ActionEnds
  <2>2. ActionResult(ok) \in Message /\ ActionResult(ok).type # "ApplyRequest"
    BY MessageMade DEF ActionResult
  <2>3. MsgsOK(msgs', nextRun)
    BY <2>1, <2>2, PressTyped
  <2>4. unlocked' \in BOOLEAN
    BY <2>1
  <2>5. QED
    BY <1>2, <1>5, <2>3, <2>4 DEF ActionEnds, Typed
<1>6. QED
  BY <1>3, <1>4, <1>5

\* Messages other than a request to apply, sent in answer to one received.
LEMMA AnswerTyped ==
    ASSUME Typed, NEW m \in Waiting, NEW S \in SUBSET Message, Files(S, nextRun)
    PROVE  MsgsOK(Received(m), nextRun) /\ MsgsOK(Received(m) (+) SetToBag(S), nextRun)
BY ReceiveTyped, SendTyped DEF Typed, Waiting, Received

\* What an announced success says.
LEMMA OnSuccessTyped ==
    ASSUME NEW v
    PROVE  OnSuccess(v) \in SUBSET Message /\ Files(OnSuccess(v), nextRun)
<1>1. /\ Signal("PlanInvalidated") \in Message /\ Signal("LockCleared") \in Message
      /\ Signal("PlanInvalidated").type # "ApplyRequest"
      /\ Signal("LockCleared").type # "ApplyRequest"
  BY MessageMade DEF Signals, Signal
<1>2. QED
  BY <1>1 DEF OnSuccess, Files

\* The result of a plan, an apply or an action.
LEMMA ResultsTyped ==
    ASSUME Typed, NEW m \in Waiting,
           PlanFails(m) \/ PlanSucceeds(m) \/ ApplyReturns(m) \/ ActionReturns(m)
    PROVE  Typed'
<1> USE DEF nav, context, ghosts
<1>0. m \in Message
  BY DEF Typed, MsgsOK, Waiting
<1>n. {} \in SUBSET Message /\ Files({}, nextRun)
  BY DEF Files
<1>1. CASE PlanFails(m)
  <2>1. m.lock \in BOOLEAN
    BY <1>0, <1>1, MessageCarries DEF PlanFails
  <2>2. MsgsOK(msgs', nextRun)
    BY <1>n, <1>1, AnswerTyped DEF PlanFails
  <2>3. PlanOK(plan', nextRun)
    BY <1>1, <2>1, PlanTyped DEF PlanFails, Typed
  <2>4. QED
    BY <1>1, <2>2, <2>3 DEF PlanFails, Typed
<1>2. CASE PlanSucceeds(m)
  <2>1. m.run \in Runs /\ m.changed \subseteq Addrs
    BY <1>0, <1>2, MessageCarries DEF PlanSucceeds
  <2>2. PlanOK(plan', nextRun)
    <3>1. m.run \in Nat /\ (m.changed # {}) \in BOOLEAN
      BY <2>1, AppAssumption DEF Runs
    <3>2. PlanOK(Completed(plan, m.run, m.changed # {}), nextRun)
      BY <3>1, PlanTyped DEF Typed
    <3>3. QED
      BY <1>2, <3>2 DEF PlanSucceeds
  <2> DEFINE S == IF pins \subseteq m.changed THEN {} ELSE {PinToggle(pins \ m.changed)}
             T == IF ApplyDue(plan, m.changed # {})
                  THEN {ApplyRequest(plan.file, plan.pending = "auto")} ELSE {}
  <2>3. S \in SUBSET Message /\ Files(S, nextRun)
    <3>1. pins \ m.changed \in SUBSET Addrs
      BY DEF Typed, ContextOK
    <3>2. PinToggle(pins \ m.changed) \in Message /\ PinToggle(pins \ m.changed).type # "ApplyRequest"
      BY <3>1, MessageMade DEF PinToggle
    <3>3. QED
      BY <1>n, <3>2 DEF Files
  <2>4. T \in SUBSET Message /\ Files(T, nextRun)
    <3>1. CASE ApplyDue(plan, m.changed # {})
      <4>1. plan.file \in Runs /\ plan.file < nextRun /\ plan.file \in Nat
        BY <3>1, AppAssumption DEF ApplyDue, Typed, PlanOK, Runs
      <4>2. (plan.pending = "auto") \in BOOLEAN
        OBVIOUS
      <4>3. ApplyRequest(plan.file, plan.pending = "auto") \in Message
        BY <4>1, <4>2, MessageMade
      <4>4. ApplyRequest(plan.file, plan.pending = "auto").file = plan.file
        BY DEF ApplyRequest
      <4>5. QED
        BY <3>1, <4>1, <4>3, <4>4 DEF Files
    <3>2. QED
      BY <1>n, <3>1
  <2>5. msgs' = Received(m) (+) SetToBag(S) (+) SetToBag(T)
    BY <1>2 DEF PlanSucceeds
  <2> HIDE DEF S, T
  <2>6. MsgsOK(Received(m) (+) SetToBag(S), nextRun)
    BY <2>3, AnswerTyped
  <2>7. MsgsOK(msgs', nextRun)
    BY <2>4, <2>5, <2>6, SendTyped
  <2>8. QED
    BY <1>2, <2>2, <2>7 DEF PlanSucceeds, Typed
<1>3. CASE ApplyReturns(m)
  <2>1. m.ok \in BOOLEAN
    BY <1>0, <1>3, MessageCarries DEF ApplyReturns
  <2>2. ApplyOK(apply', nextRun)
    BY <1>3, <2>1, ApplyRunTyped DEF ApplyReturns, Typed
  <2> DEFINE S == {Signal("PinClear")}
             T == IF m.ok THEN {Signal("PlanInvalidated")} ELSE {}
  <2>3. S \in SUBSET Message /\ Files(S, nextRun) /\ T \in SUBSET Message /\ Files(T, nextRun)
    <3>1. /\ Signal("PinClear") \in Message /\ Signal("PinClear").type # "ApplyRequest"
          /\ Signal("PlanInvalidated") \in Message /\ Signal("PlanInvalidated").type # "ApplyRequest"
      BY MessageMade DEF Signals, Signal
    <3>2. QED
      BY <1>n, <3>1 DEF Files
  <2>4. msgs' = Received(m) (+) SetToBag(S) (+) SetToBag(T)
    BY <1>3 DEF ApplyReturns
  <2> HIDE DEF S, T
  <2>5. MsgsOK(msgs', nextRun)
    BY <2>3, <2>4, AnswerTyped, SendTyped
  <2>6. QED
    BY <1>3, <2>2, <2>5 DEF ApplyReturns, Typed
<1>4. CASE ActionReturns(m)
  <2>1. m.ok \in BOOLEAN
    BY <1>0, <1>4, MessageCarries DEF ActionReturns
  <2>2. VerbOK(verb')
    BY <1>4, <2>1, RunnerTyped DEF ActionReturns, Typed
  <2> DEFINE S == IF m.ok /\ verb["taint"].armed THEN OnSuccess("taint") ELSE {}
             T == IF m.ok /\ verb["forceunlock"].armed THEN OnSuccess("forceunlock") ELSE {}
  <2>3. S \in SUBSET Message /\ Files(S, nextRun) /\ T \in SUBSET Message /\ Files(T, nextRun)
    BY <1>n, OnSuccessTyped
  <2>4. msgs' = Received(m) (+) SetToBag(S) (+) SetToBag(T)
    BY <1>4 DEF ActionReturns
  <2> HIDE DEF S, T
  <2>5. MsgsOK(msgs', nextRun)
    BY <2>3, <2>4, AnswerTyped, SendTyped
  <2>6. QED
    BY <1>4, <2>2, <2>5 DEF ActionReturns, Typed
<1>5. QED
  BY <1>1, <1>2, <1>3, <1>4

\* A request, an event or a signal.
LEMMA RequestsTyped ==
    ASSUME Typed, NEW m \in Waiting,
           \/ Refused(m) \/ TogglePins(m) \/ ClearPins(m) \/ SwitchContext(m)
           \/ InvalidatePlan(m) \/ ClearLock(m) \/ FollowLink(m) \/ Deactivate(m)
           \/ ShowPrompt(m) \/ RequestTaint(m) \/ StartUnlock(m) \/ HandOver(m)
    PROVE  Typed'
<1> USE DEF nav, context, ghosts
<1>0. m \in Message
  BY DEF Typed, MsgsOK, Waiting
<1>n. {} \in SUBSET Message /\ Files({}, nextRun)
  BY DEF Files
<1>r. MsgsOK(Received(m), nextRun)
  BY <1>n, AnswerTyped
<1>p. ASSUME NEW ps \in SUBSET Addrs, ReplacePins(ps), msgs' = Received(m) PROVE Typed'
  <2>1. PlanOK(plan', nextRun) /\ VerbOK(verb')
    BY <1>p, PlanTyped, RunnerTyped DEF ReplacePins, Typed
  <2>2. QED
    BY <1>r, <1>p, <2>1 DEF ReplacePins, Typed, ContextOK
<1>1. CASE Refused(m)
  BY <1>r, <1>1 DEF Refused, Typed
<1>2. CASE TogglePins(m)
  <2>1. m.addrs \subseteq Addrs /\ pins \subseteq Addrs
    BY <1>0, <1>2, MessageCarries DEF TogglePins, Typed, ContextOK
  <2>2. (IF m.addrs \subseteq pins THEN pins \ m.addrs ELSE pins \cup m.addrs) \in SUBSET Addrs
    BY <2>1
  <2>3. QED
    BY <1>p, <1>2, <2>2 DEF TogglePins
<1>3. CASE ClearPins(m)
  <2>1. CASE pins = {}
    BY <1>r, <1>3, <2>1 DEF ClearPins, Typed
  <2>2. CASE pins # {}
    BY <1>p, <1>3, <2>2 DEF ClearPins
  <2>3. QED
    BY <2>1, <2>2
<1>4. CASE SwitchContext(m)
  <2>1. ContextOK(dir', pins') /\ disk' \subseteq Runs
    BY <1>0, <1>4, MessageCarries DEF SwitchContext, ContextOK, CleanedUp, Typed
  <2>2. ApplyOK(apply', nextRun)
    BY <1>4, ApplyRunTyped DEF SwitchContext, Typed
  <2> DEFINE vb == [v \in Verbs |-> ResetRunner(verb[v])]
  <2>3. VerbOK(vb) /\ PlanOK(Reset(plan), nextRun)
    BY RunnerTyped, PlanResetTyped DEF Typed
  <2>4. CASE GoBack(Reset(plan), runs, vb, Received(m))
    <3>1. /\ PlanOK(plan', nextRun') /\ RunsOK(runs', nextRun') /\ VerbOK(verb')
          /\ MsgsOK(msgs', nextRun') /\ NextOK(nextRun') /\ MadeOK(made')
          /\ nextRun' \in {nextRun, nextRun + 1}
          /\ NavOK(active', navStack')
      BY <1>r, <2>1, <2>3, <2>4, GoBackTyped DEF Typed
    <3>2. ApplyOK(apply', nextRun')
      BY <2>2, <3>1, LaterRun DEF Typed
    <3>3. QED
      BY <1>4, <2>1, <3>1, <3>2 DEF SwitchContext, Typed
  <2>5. CASE /\ active' = (IF active \in NavPush THEN "home" ELSE active)
             /\ plan' = Reset(plan) /\ NoRun(runs) /\ verb' = vb /\ msgs' = Received(m)
             /\ UNCHANGED navStack
    <3>1. /\ nextRun' = nextRun /\ NextOK(nextRun') /\ RunsOK(runs', nextRun') /\ MadeOK(made')
      BY <2>5, NoRunTyped DEF Typed
    <3>2. NavOK(active', navStack')
      BY <2>5 DEF Typed, NavOK, Views
    <3>3. QED
      BY <1>r, <1>4, <2>1, <2>2, <2>3, <2>5, <3>1, <3>2 DEF SwitchContext, Typed
  <2>6. QED
    BY <1>4, <2>4, <2>5 DEF SwitchContext
<1>5. CASE InvalidatePlan(m)
  <2>1. PlanOK(plan', nextRun) /\ disk' \subseteq Runs
    BY <1>5, PlanResetTyped DEF InvalidatePlan, CleanedUp, Typed
  <2>2. QED
    BY <1>r, <1>5, <2>1 DEF InvalidatePlan, Typed
<1>6. CASE ClearLock(m)
  <2>1. PlanOK(plan', nextRun) /\ disk' \subseteq Runs
    BY <1>6, PlanResetTyped DEF ClearLock, CleanedUp, Typed
  <2>2. QED
    BY <1>r, <1>6, <2>1 DEF ClearLock, Typed
<1>7. CASE FollowLink(m)
  <2>1. m.to \in Views /\ ContextOK(dir', pins')
    BY <1>0, <1>7, MessageCarries DEF FollowLink, Typed
  <2>2. NavigateTo(m.to, Received(m))
    BY <1>7 DEF FollowLink
  <2>3. /\ PlanOK(plan', nextRun') /\ RunsOK(runs', nextRun') /\ VerbOK(verb')
        /\ MsgsOK(msgs', nextRun') /\ NextOK(nextRun') /\ MadeOK(made')
        /\ nextRun' \in {nextRun, nextRun + 1}
        /\ NavOK(active', navStack')
    BY <1>r, <2>1, <2>2, NavigateTyped
  <2>4. QED
    BY <1>7, <2>1, <2>3, Untouched DEF FollowLink, Typed
<1>8. CASE Deactivate(m)
  <2>1. ContextOK(dir', pins')
    BY <1>8 DEF Deactivate, Typed
  <2>2. CASE active = "home"
    BY <1>r, <1>8, <2>2 DEF Deactivate, Typed
  <2>3. CASE active # "home"
    <3>1. PlanOK(PlanCancelled(active), nextRun) /\ RunsOK(Cut(active, runs), nextRun)
      BY CancelTyped
    <3>2. LeaveView(PlanCancelled(active), Cut(active, runs), Received(m))
      BY <1>8, <2>3 DEF Deactivate
    <3>3. /\ PlanOK(plan', nextRun') /\ RunsOK(runs', nextRun') /\ VerbOK(verb')
          /\ MsgsOK(msgs', nextRun') /\ NextOK(nextRun') /\ MadeOK(made')
          /\ nextRun' \in {nextRun, nextRun + 1}
          /\ NavOK(active', navStack')
      BY <1>r, <2>1, <3>1, <3>2, LeaveViewTyped DEF Typed
    <3>4. QED
      BY <1>8, <2>1, <3>3, Untouched DEF Deactivate, Typed
  <2>4. QED
    BY <2>2, <2>3
<1>9. CASE ShowPrompt(m)
  <2>1. m.verb \in Verbs
    BY <1>0, <1>9, MessageCarries DEF ShowPrompt
  <2>2. QED
    BY <1>r, <1>9, <2>1 DEF ShowPrompt, Typed
<1>10. CASE RequestTaint(m)
  <2>1. NavOK(active', navStack')
    BY <1>10, PushTyped DEF RequestTaint, Views, Plugins, Verbs, Typed
  <2>2. VerbOK(verb')
    <3>1. "taint" \in Verbs /\ VerbOK(verb)
      BY DEF Verbs, Typed
    <3>2. VerbOK([verb EXCEPT !["taint"] = Arm(@)])
      BY <3>1, RunnerTyped
    <3>3. verb' = verb \/ verb' = [verb EXCEPT !["taint"] = Arm(@)]
      BY <1>10 DEF RequestTaint
    <3>4. QED
      BY <3>1, <3>2, <3>3
  <2>3. MsgsOK(msgs', nextRun)
    <3>1. {RequestInput("taint")} \in SUBSET Message
      BY MessageMade DEF Verbs
    <3>2. Files({RequestInput("taint")}, nextRun)
      BY DEF Files, RequestInput
    <3>3. QED
      BY <1>r, <1>10, <3>1, <3>2, SendTyped DEF RequestTaint
  <2>4. QED
    BY <1>10, <2>1, <2>2, <2>3 DEF RequestTaint, Typed
<1>11. CASE StartUnlock(m)
  <2>1. /\ Launch("forceunlock", 0, runs) /\ dir' \in Chdirs
        /\ "forceunlock" \in Plugins /\ "forceunlock" \in Verbs
    BY <1>11 DEF StartUnlock, Typed, ContextOK, Plugins, Verbs
  <2>2. 0 \in 0..MaxRuns /\ 0 <= nextRun
    BY AppAssumption DEF Typed, NextOK
  <2>3. nextRun' = nextRun + 1 /\ NextOK(nextRun') /\ RunsOK(runs', nextRun')
    BY <2>1, <2>2, LaunchTyped DEF Typed
  <2>4. VerbOK(verb')
    BY <1>11, <2>1, RunnerTyped DEF StartUnlock, Typed
  <2>5. MsgsOK(msgs', nextRun')
    BY <1>r, <1>11, <2>3, LaterRun DEF StartUnlock, Typed
  <2>6. QED
    BY <1>11, <2>3, <2>4, <2>5, Untouched DEF StartUnlock, Typed
<1>12. CASE HandOver(m)
  <2>1. m.file \in Runs /\ m.file < nextRun /\ m.file \in 0..MaxRuns /\ m.file <= nextRun
    <3>1. m.file \in Runs /\ m.file < nextRun
      BY <1>12 DEF HandOver, Typed, MsgsOK, Files, Waiting
    <3>2. QED
      <4>1. nextRun \in Nat /\ m.file \in 1..MaxRuns /\ MaxRuns \in Nat
        BY <3>1, AppAssumption DEF Typed, NextOK, Runs
      <4>2. QED
        BY <3>1, <4>1
  <2>2. NavOK(active', navStack')
    BY <1>12, PushTyped DEF HandOver, Views, Plugins, Typed
  <2>3. ApplyOK(SetPlanFile(apply, m.file), nextRun)
    BY <2>1, ApplyTyped DEF Typed
  <2>4. CASE /\ apply' = Applying(SetPlanFile(apply, m.file), nextRun)
             /\ Launch("apply", m.file, runs) /\ UNCHANGED made
    <3>1. dir' \in Chdirs /\ "apply" \in Plugins /\ nextRun \in Nat
      BY <1>12, AppAssumption DEF HandOver, Typed, ContextOK, NextOK, Plugins
    <3>2. nextRun' = nextRun + 1 /\ NextOK(nextRun') /\ RunsOK(runs', nextRun')
      BY <2>1, <2>4, <3>1, LaunchTyped DEF Typed
    <3>3. ApplyOK(apply', nextRun)
      BY <2>3, <2>4, <3>1, ApplyRunTyped DEF Typed
    <3>4. ApplyOK(apply', nextRun') /\ MsgsOK(msgs', nextRun')
      BY <1>r, <1>12, <3>2, <3>3, LaterRun DEF HandOver, Typed
    <3>5. QED
      BY <1>12, <2>2, <2>4, <3>2, <3>4, Untouched DEF HandOver, Typed
  <2>5. CASE apply' = RequestApply(SetPlanFile(apply, m.file)) /\ NoRun(runs)
    <3>1. /\ nextRun' = nextRun /\ NextOK(nextRun') /\ RunsOK(runs', nextRun') /\ MadeOK(made')
      BY <2>5, NoRunTyped DEF Typed
    <3>2. ApplyOK(apply', nextRun)
      BY <2>3, <2>5, ApplyTyped
    <3>3. QED
      BY <1>r, <1>12, <2>2, <3>1, <3>2 DEF HandOver, Typed
  <2>6. QED
    BY <1>12, <2>4, <2>5 DEF HandOver
<1>13. QED
  BY <1>1, <1>2, <1>3, <1>4, <1>5, <1>6, <1>7, <1>8, <1>9, <1>10, <1>11, <1>12

\* The App starts typed.
LEMMA InitTyped == Init => Typed
<1> SUFFICES ASSUME Init PROVE Typed
  OBVIOUS
<1> USE AppAssumption DEF Init
<1>1. NavOK(active, navStack) /\ prompt \in Verbs \cup {"none"} /\ ContextOK(dir, pins)
  BY DEF NavOK, ContextOK, Views
<1>2. NextOK(nextRun) /\ 0 \in 0..MaxRuns /\ 0 < nextRun
  BY DEF NextOK
<1>3. PlanOK(plan, nextRun)
  BY <1>2 DEF PlanOK, PlanState, Statuses, Deferred, NewPlan
<1>4. ApplyOK(apply, nextRun)
  <2>1. <<>> \in Seq(Nat)
    OBVIOUS
  <2>2. QED
    BY <1>2, <2>1 DEF ApplyOK, ApplyState, NewApply
<1>5. VerbOK(verb)
  BY DEF VerbOK, RunnerState, NewRunner
<1>6. RunsOK(runs, nextRun) /\ disk \subseteq Runs
  BY DEF RunsOK
<1>7. MsgsOK(msgs, nextRun)
  BY DEF MsgsOK, Files, EmptyBag, SetToBag, BagToSet, IsABag
<1>8. MadeOK(made) /\ IntentOK(intent)
  BY DEF MadeOK, IntentOK
<1>9. QED
  BY <1>1, <1>2, <1>3, <1>4, <1>5, <1>6, <1>7, <1>8 DEF Typed

\* Every step keeps the types.
LEMMA TypedStep == Typed /\ [Next]_vars => Typed'
<1>1. Typed /\ UNCHANGED vars => Typed'
  BY DEF Typed, vars
<1>2. Typed /\ Next => Typed'
  BY KeysTyped, TerraformTyped, ResultsTyped, RequestsTyped DEF Next, Update
<1>3. QED
  BY <1>1, <1>2

\* The App is always typed.
LEMMA AlwaysTyped == Spec => []Typed
BY InitTyped, TypedStep, PTL DEF Spec

\* Every variable of the App has its type: what each message carries, the
\* views on the stack, and the files and runs that the plugins refer to.
THEOREM AppTypesCorrect == Spec => []TypeOK
BY AlwaysTyped, TypedGivesTypeOK, PTL

-----------------------------------------------------------------------------
(* The way back *)

\* Where a step may lead: nowhere, back, to a view with no way back, or to a
\* view put on top of the active one.
Moved ==
    \/ UNCHANGED nav
    \/ navStack # <<>> /\ active' = Last(navStack) /\ navStack' = Front(navStack)
    \/ navStack' = <<>>
    \/ \E v \in Views \ {"home"} : Push(v)

\* Leaving a view goes back or home.
LEMMA LeaveMoves ==
    ASSUME NEW pl, NEW rs, NEW ms, LeaveView(pl, rs, ms) \/ GoHome(pl, rs, ms)
    PROVE  Moved
BY DEF LeaveView, GoHome, GoBack, Moved

\* Going to a view puts it on top or drops the way back.
LEMMA NavigateMoves ==
    ASSUME NEW v, NEW ms, NavigateTo(v, ms)
    PROVE  Moved
<1>1. NavPush \subseteq Views \ {"home"}
  BY DEF NavPush, Views, Plugins, Verbs
<1>2. (v \in NavPush /\ Push(v)) \/ navStack' = <<>>
  BY DEF NavigateTo
<1>3. QED
  BY <1>1, <1>2 DEF Moved

\* Every step of the App moves between the views like that, or not at all.
LEMMA NextMoves == Next => Moved
<1> SUFFICES ASSUME Next PROVE Moved
  OBVIOUS
<1>1. CASE \E v \in Commands : Open(v)
  BY <1>1, NavigateMoves DEF Open
<1>2. CASE Quit
  BY <1>2, LeaveMoves DEF Quit
<1>3. CASE CloseLog
  BY <1>3, LeaveMoves DEF CloseLog, Moved
<1>4. CASE LeaveChdir
  BY <1>4, LeaveMoves DEF LeaveChdir
<1>5. CASE \/ ClearLogs \/ PlanEsc \/ PlanKey \/ Refresh
           \/ \E auto \in BOOLEAN : AskApply(auto) \/ ReplanAndApply(auto)
  BY <1>5 DEF ClearLogs, PlanEsc, PlanKey, Refresh, AskApply, ReplanAndApply, Press, Moved
<1>6. CASE EnterApply \/ Confirm \/ Decline \/ ApplyKey \/ OpenLog \/ PickMember \/ VerbKey
  BY <1>6 DEF EnterApply, Confirm, Decline, ApplyKey, OpenLog, PickMember, VerbKey, Press, Moved
<1>7. CASE RetryTaint \/ RetryUnlock \/ AnswerYes \/ AnswerNo
  BY <1>7 DEF RetryTaint, RetryUnlock, AnswerYes, AnswerNo, Moved
<1>8. CASE Terraform
  BY <1>8 DEF Terraform, PlanEnds, ApplyEnds, ActionEnds, Moved
<1>9. ASSUME NEW m \in Waiting, Update(m) PROVE Moved
  <2>1. CASE PlanFails(m) \/ PlanSucceeds(m) \/ ApplyReturns(m) \/ ActionReturns(m)
    BY <2>1 DEF PlanFails, PlanSucceeds, ApplyReturns, ActionReturns, Moved
  <2>2. CASE Refused(m) \/ TogglePins(m) \/ ClearPins(m) \/ InvalidatePlan(m) \/ ClearLock(m)
    BY <2>2 DEF Refused, TogglePins, ClearPins, ReplacePins, InvalidatePlan, ClearLock, Moved
  <2>3. CASE SwitchContext(m)
    <3>1. CASE \E pl, rs, vb, ms : GoBack(pl, rs, vb, ms)
      BY <3>1 DEF GoBack, Moved
    <3>2. CASE /\ active \notin NavPush \/ navStack = <<>>
               /\ active' = (IF active \in NavPush THEN "home" ELSE active)
               /\ UNCHANGED navStack
      BY <3>2 DEF Moved, nav
    <3>3. QED
      BY <2>3, <3>1, <3>2 DEF SwitchContext
  <2>4. CASE FollowLink(m)
    BY <2>4, NavigateMoves DEF FollowLink
  <2>5. CASE Deactivate(m)
    BY <2>5, LeaveMoves DEF Deactivate, Moved
  <2>6. CASE RequestTaint(m) \/ HandOver(m)
    BY <2>6 DEF RequestTaint, HandOver, Moved, Views, Plugins, Verbs
  <2>7. CASE ShowPrompt(m) \/ StartUnlock(m)
    BY <2>7 DEF ShowPrompt, StartUnlock, Moved
  <2>8. QED
    BY <1>9, <2>1, <2>2, <2>3, <2>4, <2>5, <2>6, <2>7 DEF Update
<1>10. QED
  BY <1>1, <1>2, <1>3, <1>4, <1>5, <1>6, <1>7, <1>8, <1>9 DEF Next, User

\* The stack without its last view.
LEMMA FrontFacts ==
    ASSUME NEW S, NEW s \in Seq(S), s # <<>>
    PROVE  /\ Len(s) \in Nat \ {0}
           /\ Front(s) \in Seq(S)
           /\ Len(Front(s)) = Len(s) - 1
           /\ \A i \in 1 .. Len(Front(s)) : Front(s)[i] = s[i]
           /\ Len(s) = 1 => Front(s) = <<>>
<1>1. Len(s) \in Nat \ {0} /\ \A i \in 1 .. Len(s) - 1 : s[i] \in S
  BY EmptySeq, LenProperties, ElementOfSeq
<1>2. /\ Front(s) \in Seq(S)
      /\ Len(Front(s)) = IF 1 <= Len(s) - 1 THEN Len(s) - 1 - 1 + 1 ELSE 0
      /\ \A i \in 1 .. Len(s) - 1 - 1 + 1 : Front(s)[i] = s[1 + i - 1]
  BY <1>1, SubSeqProperties DEF Front
<1>3. Len(Front(s)) = Len(s) - 1
  <2>1. CASE Len(s) = 1
    <3>1. ~(1 <= Len(s) - 1) /\ Len(s) - 1 = 0
      BY <2>1
    <3>2. QED
      BY <1>2, <3>1
  <2>2. CASE Len(s) # 1
    <3>1. \A n \in Nat \ {0} : n # 1 => 1 <= n - 1 /\ n - 1 - 1 + 1 = n - 1
      OBVIOUS
    <3>2. 1 <= Len(s) - 1 /\ Len(s) - 1 - 1 + 1 = Len(s) - 1
      BY <1>1, <2>2, <3>1
    <3>3. QED
      BY <1>2, <3>2
  <2>3. QED
    BY <2>1, <2>2
<1>4. \A i \in 1 .. Len(Front(s)) : Front(s)[i] = s[i]
  <2> SUFFICES ASSUME NEW i \in 1 .. Len(Front(s)) PROVE Front(s)[i] = s[i]
    OBVIOUS
  <2>1. i \in 1 .. Len(s) - 1 - 1 + 1 /\ i = 1 + i - 1
    BY <1>1, <1>3
  <2>2. QED
    BY <1>2, <2>1
<1>5. Len(s) = 1 => Front(s) = <<>>
  BY <1>2, <1>3, EmptySeq
<1>6. QED
  BY <1>1, <1>2, <1>3, <1>4, <1>5

\* Each of these moves keeps the home screen at the root.
LEMMA RootStep == Typed /\ HomeIsRoot /\ [Next]_vars => HomeIsRoot'
<1> SUFFICES ASSUME Typed, HomeIsRoot, [Next]_vars PROVE HomeIsRoot'
  OBVIOUS
<1>0. /\ navStack \in Seq(Views)
      /\ active = "home" => navStack = <<>>
      /\ \A i \in 2 .. Len(navStack) : navStack[i] # "home"
  BY DEF Typed, NavOK, HomeIsRoot
<1>1. CASE UNCHANGED nav
  BY <1>1 DEF nav, HomeIsRoot
<1>2. CASE navStack # <<>> /\ active' = Last(navStack) /\ navStack' = Front(navStack)
  <2>1. /\ Len(navStack) \in Nat \ {0}
        /\ Len(navStack') = Len(navStack) - 1
        /\ \A i \in 1 .. Len(navStack') : navStack'[i] = navStack[i]
    BY <1>0, <1>2, FrontFacts
  <2>2. active' = navStack[Len(navStack)]
    BY <1>2 DEF Last
  <2>3. Len(navStack) = 1 => navStack' = <<>>
    BY <1>0, <1>2, FrontFacts
  <2>4. active' = "home" => Len(navStack) = 1
    <3>1. Len(navStack) >= 2 => Len(navStack) \in 2 .. Len(navStack)
      BY <2>1
    <3>2. Len(navStack) >= 2 => navStack[Len(navStack)] # "home"
      BY <1>0, <3>1
    <3>3. QED
      BY <2>1, <2>2, <3>2
  <2>5. active' = "home" => navStack' = <<>>
    BY <2>1, <2>3, <2>4
  <2>6. \A i \in 2 .. Len(navStack') : navStack'[i] # "home"
    BY <1>0, <2>1
  <2>7. QED
    BY <2>5, <2>6 DEF HomeIsRoot
<1>3. CASE navStack' = <<>>
  BY <1>3 DEF HomeIsRoot
<1>4. CASE \E v \in Views \ {"home"} : Push(v)
  <2>1. active' # "home" /\ navStack' = Append(navStack, active)
    BY <1>4 DEF Push
  <2>2. /\ Len(navStack') = Len(navStack) + 1
        /\ \A i \in 1 .. Len(navStack) : navStack'[i] = navStack[i]
        /\ navStack'[Len(navStack) + 1] = active
        /\ Len(navStack) \in Nat
    BY <1>0, <2>1, AppendProperties, LenProperties DEF Typed, NavOK
  <2>3. active = "home" => Len(navStack) = 0
    BY <1>0
  <2>4. \A i \in 2 .. Len(navStack') : navStack'[i] # "home"
    BY <1>0, <2>2, <2>3
  <2>5. QED
    BY <2>1, <2>4 DEF HomeIsRoot
<1>5. CASE UNCHANGED vars
  BY <1>1, <1>5 DEF vars, nav
<1>6. QED
  BY <1>1, <1>2, <1>3, <1>4, <1>5, NextMoves DEF Moved

\* The home screen is the root: there is no way back from it, and no way back
\* that leads through it to another view.
THEOREM HomeStaysRoot == Spec => []HomeIsRoot
<1>1. Init => HomeIsRoot
  BY DEF Init, HomeIsRoot
<1>2. QED
  BY <1>1, RootStep, AlwaysTyped, PTL DEF Spec

-----------------------------------------------------------------------------
(* What a step makes of the plan plugin and of the runs *)

\* Every run is still there, cut perhaps, and one more may have been started:
\* if that is an apply, it was confirmed or its file was handed over.
Kept(rs) == rs = runs \/ \E v : rs = Cut(v, runs)
Applies(file) ==
    \/ Confirm /\ file = apply.file
    \/ \E m \in Waiting : HandOver(m) /\ file = m.file
Carried ==
    \E rs : Kept(rs) /\ (runs' = rs \/ \E v, file : Launch(v, file, rs) /\ (v = "apply" => Applies(file)))

PlanRuns == \E r \in runs' : r.of = "plan"
PlanStarts == \E rs : RunPlan(rs)

\* The plan plugin's handlers; those that start a run, with the run.
PlanMoved ==
    \/ plan' \in {plan, ClearPending(plan), PinsChanged(plan), Reset(plan), PlanInvalidated(plan)}
    \/ \E lock : plan' = Failed(plan, lock)
    \/ \E run, c : plan' = Completed(plan, run, c)
    \/ \E pl \in {plan, ClearPending(plan), Reset(plan)} :
          WantsRun(pl) /\ plan' = Activated(pl, nextRun) /\ PlanStarts
    \/ \E d : plan' = Replanned([plan EXCEPT !.pending = d], nextRun) /\ PlanStarts

\* What was planned is noted when a plan run starts, and never changed.
MadeMoved == made' = made \/ PlanStarts

\* A run that is started is one of those running.
LEMMA LaunchRuns ==
    ASSUME NEW v, NEW file, NEW rs, Launch(v, file, rs)
    PROVE  \E r \in runs' : r.of = v
<1> DEFINE r == [of |-> v, id |-> nextRun, file |-> file, dir |-> dir', cancelled |-> FALSE]
<1>1. r \in runs' /\ r.of = v
  BY DEF Launch
<1>2. QED
  BY <1>1

\* Starting a plan keeps the runs there are and notes what is planned.
LEMMA RunPlanRuns ==
    ASSUME NEW rs, Kept(rs), RunPlan(rs)
    PROVE  Carried /\ PlanStarts /\ MadeMoved
BY DEF RunPlan, Carried, PlanStarts, MadeMoved

\* A plan that starts is a run.
LEMMA PlanStartsRuns == PlanStarts => PlanRuns
BY LaunchRuns DEF RunPlan, PlanStarts, PlanRuns

\* Activating a view, what becomes of the plan plugin and the runs.
LEMMA ActivateRuns ==
    ASSUME NEW v, NEW pl \in {plan, ClearPending(plan), Reset(plan)}, NEW rs, Kept(rs), NEW vb,
           NEW ms, Activate(v, pl, rs, vb, ms)
    PROVE  Carried /\ PlanMoved /\ MadeMoved
<1>1. CASE plan' = pl /\ NoRun(rs)
  BY <1>1 DEF NoRun, Carried, PlanMoved, MadeMoved
<1>2. CASE WantsRun(pl) /\ plan' = Activated(pl, nextRun) /\ RunPlan(rs)
  BY <1>2, RunPlanRuns DEF PlanMoved
<1>3. QED
  BY <1>1, <1>2, ActivateMoves

\* The same, leaving a view.
LEMMA LeaveRuns ==
    ASSUME NEW pl \in {plan, ClearPending(plan)}, NEW rs, Kept(rs), NEW ms,
           LeaveView(pl, rs, ms) \/ GoHome(pl, rs, ms)
    PROVE  Carried /\ PlanMoved /\ MadeMoved
<1>1. CASE GoBack(pl, rs, verb, ms)
  BY <1>1, ActivateRuns DEF GoBack
<1>2. CASE GoHome(pl, rs, ms)
  BY <1>2 DEF GoHome, NoRun, Carried, PlanMoved, MadeMoved
<1>3. QED
  BY <1>1, <1>2 DEF LeaveView

\* Cancelling clears a deferred apply at most.
LEMMA CancelRuns ==
    ASSUME NEW v
    PROVE  PlanCancelled(v) \in {plan, ClearPending(plan)} /\ Kept(Cut(v, runs)) /\ Kept(runs)
BY DEF PlanCancelled, Kept

\* The same, going to a view.
LEMMA NavigateRuns ==
    ASSUME NEW v, NEW ms, NavigateTo(v, ms)
    PROVE  Carried /\ PlanMoved /\ MadeMoved
BY CancelRuns, ActivateRuns DEF NavigateTo

\* A run ends.
RunEnds == \E r \in runs : PlanEnds(r) \/ ApplyEnds(r) \/ ActionEnds(r)

\* The same, in any step.
LEMMA NextRuns == Next => PlanMoved /\ MadeMoved /\ (Carried \/ RunEnds)
<1> SUFFICES ASSUME Next PROVE PlanMoved /\ MadeMoved /\ (Carried \/ RunEnds)
  OBVIOUS
<1> USE DEF Kept
<1>u. ASSUME plan' = plan /\ runs' = runs /\ made' = made PROVE PlanMoved /\ Carried /\ MadeMoved
  BY <1>u DEF PlanMoved, Carried, MadeMoved
<1>l. ASSUME plan' = plan, made' = made,
             NEW v, NEW file, Launch(v, file, runs), v = "apply" => Applies(file)
      PROVE  PlanMoved /\ Carried /\ MadeMoved
  BY <1>l DEF PlanMoved, Carried, MadeMoved
<1> USE DEF ghosts
<1>1. CASE \E v \in Commands : Open(v)
  BY <1>1, NavigateRuns DEF Open
<1>2. CASE Quit
  BY <1>2, CancelRuns, LeaveRuns DEF Quit
<1>3. CASE CloseLog
  BY <1>3, <1>u, LeaveRuns, CancelRuns DEF CloseLog
<1>4. CASE LeaveChdir
  BY <1>4, LeaveRuns, CancelRuns DEF LeaveChdir
<1>5. CASE ClearLogs \/ PlanEsc \/ PlanKey \/ \E auto \in BOOLEAN : AskApply(auto)
  BY <1>5, <1>u DEF ClearLogs, PlanEsc, PlanKey, AskApply, Press
<1>6. CASE Refresh
  <2>1. RunPlan(runs) /\ plan' = Replanned([plan EXCEPT !.pending = "no"], nextRun)
    BY <1>6 DEF Refresh, ClearPending
  <2>2. QED
    BY <2>1, RunPlanRuns DEF PlanMoved
<1>7. CASE \E auto \in BOOLEAN : ReplanAndApply(auto)
  <2>1. /\ RunPlan(runs)
        /\ \E d : plan' = Replanned([plan EXCEPT !.pending = d], nextRun)
    BY <1>7 DEF ReplanAndApply
  <2>2. QED
    BY <2>1, RunPlanRuns DEF PlanMoved
<1>8. CASE EnterApply \/ Decline \/ ApplyKey \/ OpenLog \/ PickMember \/ VerbKey
  BY <1>8, <1>u DEF EnterApply, Decline, ApplyKey, OpenLog, PickMember, VerbKey, Press
<1>9. CASE RetryTaint \/ RetryUnlock \/ AnswerYes \/ AnswerNo
  BY <1>9, <1>u, <1>l DEF RetryTaint, RetryUnlock, AnswerYes, AnswerNo
<1>13. CASE Confirm
  <2>1. Launch("apply", apply.file, runs) /\ plan' = plan /\ made' = made
    BY <1>13 DEF Confirm
  <2>2. Applies(apply.file)
    BY <1>13 DEF Applies
  <2>3. QED
    BY <1>l, <2>1, <2>2
<1>10. CASE Terraform
  BY <1>10 DEF Terraform, RunEnds, PlanEnds, ApplyEnds, ActionEnds, PlanMoved, MadeMoved
<1>11. ASSUME NEW m \in Waiting, Update(m) PROVE PlanMoved /\ Carried /\ MadeMoved
  <2>0. ASSUME runs' = runs, made' = made, PlanMoved PROVE PlanMoved /\ Carried /\ MadeMoved
    BY <2>0 DEF Carried, MadeMoved
  <2>1. CASE PlanFails(m) \/ PlanSucceeds(m)
    BY <2>0, <2>1 DEF PlanFails, PlanSucceeds, PlanMoved
  <2>2. CASE ApplyReturns(m) \/ ActionReturns(m) \/ Refused(m) \/ ShowPrompt(m) \/ RequestTaint(m)
    BY <1>u, <2>2 DEF ApplyReturns, ActionReturns, Refused, ShowPrompt, RequestTaint
  <2>3. CASE TogglePins(m) \/ ClearPins(m)
    BY <2>0, <2>3 DEF TogglePins, ClearPins, ReplacePins, PlanMoved
  <2>4. CASE SwitchContext(m)
    <3>1. CASE \E vb, ms : GoBack(Reset(plan), runs, vb, ms)
      BY <3>1, ActivateRuns DEF GoBack
    <3>2. CASE plan' = Reset(plan) /\ NoRun(runs)
      BY <2>0, <3>2 DEF NoRun, PlanMoved
    <3>3. QED
      BY <2>4, <3>1, <3>2 DEF SwitchContext
  <2>5. CASE InvalidatePlan(m) \/ ClearLock(m)
    BY <2>0, <2>5 DEF InvalidatePlan, ClearLock, PlanMoved
  <2>6. CASE FollowLink(m)
    BY <2>6, NavigateRuns DEF FollowLink
  <2>7. CASE Deactivate(m)
    BY <1>u, <2>7, LeaveRuns, CancelRuns DEF Deactivate
  <2>8. CASE StartUnlock(m)
    BY <1>l, <2>8 DEF StartUnlock
  <2>9. CASE HandOver(m)
    <3>1. plan' = plan /\ made' = made /\ (runs' = runs \/ Launch("apply", m.file, runs))
      BY <2>9 DEF HandOver, NoRun
    <3>2. Applies(m.file)
      BY <2>9 DEF Applies
    <3>3. QED
      BY <1>u, <1>l, <3>1, <3>2
  <2>10. QED
    BY <1>11, <2>1, <2>2, <2>3, <2>4, <2>5, <2>6, <2>7, <2>8, <2>9 DEF Update
<1>12. QED
  BY <1>1, <1>2, <1>3, <1>4, <1>5, <1>6, <1>7, <1>8, <1>9, <1>10, <1>11, <1>13 DEF Next, User

-----------------------------------------------------------------------------
(* The deferred apply *)

\* Every handler that ends a replan drops the apply that waits for it.
LEMMA PendingStep == Typed /\ PendingOnlyWhileReplanning /\ [Next]_vars => PendingOnlyWhileReplanning'
<1> SUFFICES ASSUME Typed, PendingOnlyWhileReplanning, [Next]_vars
             PROVE  PendingOnlyWhileReplanning'
  OBVIOUS
<1>0. plan \in PlanState /\ (plan.pending # "no" => plan.status = "loading")
  BY DEF Typed, PlanOK, PendingOnlyWhileReplanning, PlanBusy
<1> USE DEF PendingOnlyWhileReplanning, PlanBusy, PlanState
<1>1. CASE plan' \in {plan, ClearPending(plan), PinsChanged(plan)}
  BY <1>0, <1>1 DEF ClearPending, PinsChanged
<1>2. CASE plan' \in {Reset(plan), PlanInvalidated(plan)}
  BY <1>0, <1>2 DEF Reset, PlanInvalidated, NewPlan
<1>3. CASE \E lock : plan' = Failed(plan, lock)
  BY <1>0, <1>3 DEF Failed, ClearPending
<1>4. CASE \E run, c : plan' = Completed(plan, run, c)
  BY <1>0, <1>4 DEF Completed, ClearPending
<1>5. CASE \E pl \in {plan, ClearPending(plan), Reset(plan)} : plan' = Activated(pl, nextRun)
  BY <1>0, <1>5 DEF ClearPending, Reset, NewPlan, Activated
<1>6. CASE \E d : plan' = Replanned([plan EXCEPT !.pending = d], nextRun)
  BY <1>0, <1>6 DEF Replanned
<1>7. CASE UNCHANGED vars
  BY <1>0, <1>7 DEF vars
<1>8. QED
  BY <1>1, <1>2, <1>3, <1>4, <1>5, <1>6, <1>7, NextRuns DEF PlanMoved

\* An apply is deferred to a replan only as long as that runs: whatever ends
\* it, a result, an error, a reset or another screen, drops the apply with it.
THEOREM DeferredEndsWithReplan == Spec => []PendingOnlyWhileReplanning
<1>1. Init => PendingOnlyWhileReplanning
  BY DEF Init, PendingOnlyWhileReplanning, NewPlan
<1>2. QED
  BY <1>1, PendingStep, AlwaysTyped, PTL DEF Spec

-----------------------------------------------------------------------------
(* Busy plugins *)

\* What a step adds to messages, ms, that it has kept or received.
Adds(ms) == BagToSet(ms) \subseteq BagToSet(msgs')

\* Sending messages loses none.
LEMMA SendAdds ==
    ASSUME NEW ms, IsABag(ms), NEW S, msgs' = ms (+) SetToBag(S)
    PROVE  Adds(ms)
BY SendFacts DEF Adds

\* Nor does activating a view,
LEMMA ActivateAdds ==
    ASSUME NEW v, NEW pl, NEW rs, NEW vb, NEW ms, IsABag(ms), Activate(v, pl, rs, vb, ms)
    PROVE  Adds(ms)
<1>1. msgs' = ms \/ msgs' = ms (+) SetToBag({RequestInput("forceunlock")})
  BY ActivateMoves
<1>2. QED
  BY <1>1, SendAdds DEF Adds

\* leaving one,
LEMMA LeaveAdds ==
    ASSUME NEW pl, NEW rs, NEW ms, IsABag(ms), LeaveView(pl, rs, ms) \/ GoHome(pl, rs, ms)
    PROVE  Adds(ms)
<1>1. CASE GoBack(pl, rs, verb, ms)
  BY <1>1, ActivateAdds DEF GoBack
<1>2. CASE GoHome(pl, rs, ms)
  BY <1>2, SendAdds DEF GoHome
<1>3. QED
  BY <1>1, <1>2 DEF LeaveView

\* or going to one.
LEMMA NavigateAdds ==
    ASSUME NEW v, NEW ms, IsABag(ms), NavigateTo(v, ms)
    PROVE  Adds(ms)
BY ActivateAdds DEF NavigateTo

\* Nothing that waits is lost: a message goes when Update takes it.
LEMMA NextKeeps ==
    ASSUME Typed, Next
    PROVE  \/ Waiting \subseteq Waiting'
           \/ \E m \in Waiting : Update(m) /\ Waiting \subseteq Waiting' \cup {m}
<1>0. IsABag(msgs)
  BY DEF Typed, MsgsOK
<1>u. ASSUME msgs' = msgs \/ Adds(msgs) \/ \E m : msgs' = Sent({m})
      PROVE  Waiting \subseteq Waiting'
  <2>1. CASE \E m : msgs' = Sent({m})
    BY <1>0, <2>1, SendAdds DEF Sent, Adds, Waiting
  <2>2. CASE msgs' = msgs \/ Adds(msgs)
    BY <2>2 DEF Adds, Waiting
  <2>3. QED
    BY <1>u, <2>1, <2>2
<1>1. CASE \E v \in Commands : Open(v)
  BY <1>0, <1>1, <1>u, NavigateAdds DEF Open
<1>2. CASE Quit
  BY <1>0, <1>2, <1>u, LeaveAdds DEF Quit
<1>3. CASE CloseLog
  BY <1>0, <1>3, <1>u, LeaveAdds DEF CloseLog
<1>4. CASE LeaveChdir
  BY <1>0, <1>4, <1>u, LeaveAdds DEF LeaveChdir
<1>5. CASE \/ ClearLogs \/ PlanEsc \/ PlanKey \/ Refresh
           \/ \E auto \in BOOLEAN : AskApply(auto) \/ ReplanAndApply(auto)
  BY <1>5, <1>u DEF ClearLogs, PlanEsc, PlanKey, Refresh, AskApply, ReplanAndApply, Press
<1>6. CASE EnterApply \/ Confirm \/ Decline \/ ApplyKey \/ OpenLog \/ PickMember \/ VerbKey
  BY <1>6, <1>u DEF EnterApply, Confirm, Decline, ApplyKey, OpenLog, PickMember, VerbKey, Press
<1>7. CASE RetryTaint \/ RetryUnlock \/ AnswerYes \/ AnswerNo
  BY <1>7, <1>u DEF RetryTaint, RetryUnlock, AnswerYes, AnswerNo
<1>8. CASE Terraform
  BY <1>8, <1>u DEF Terraform, PlanEnds, ApplyEnds, ActionEnds
<1>9. ASSUME NEW m \in Waiting, Update(m) PROVE Waiting \subseteq Waiting' \cup {m}
  <2>0. /\ IsABag(Received(m)) /\ Waiting \subseteq BagToSet(Received(m)) \cup {m}
    BY <1>0, ReceiveFacts DEF Received, Waiting
  <2>a. Adds(Received(m)) => Waiting \subseteq Waiting' \cup {m}
    BY <2>0 DEF Adds, Waiting
  <2>r. msgs' = Received(m) => Adds(Received(m))
    BY DEF Adds
  <2>s. \A S : msgs' = Received(m) (+) SetToBag(S) => Adds(Received(m))
    BY <2>0, SendAdds
  <2>t. \A S, T : msgs' = Received(m) (+) SetToBag(S) (+) SetToBag(T) => Adds(Received(m))
    <3> TAKE S, T
    <3>1. IsABag(Received(m) (+) SetToBag(S))
          /\ BagToSet(Received(m)) \subseteq BagToSet(Received(m) (+) SetToBag(S))
      BY <2>0, SendFacts
    <3>2. QED
      BY <3>1, SendAdds DEF Adds
  <2>1. CASE PlanSucceeds(m) \/ ApplyReturns(m) \/ ActionReturns(m)
    BY <2>1, <2>a, <2>t DEF PlanSucceeds, ApplyReturns, ActionReturns
  <2>2. CASE PlanFails(m) \/ Refused(m) \/ TogglePins(m) \/ ClearPins(m) \/ InvalidatePlan(m)
             \/ ClearLock(m) \/ ShowPrompt(m) \/ StartUnlock(m) \/ HandOver(m)
    BY <2>2, <2>a, <2>r DEF PlanFails, Refused, TogglePins, ClearPins, InvalidatePlan, ClearLock,
                            ShowPrompt, StartUnlock, HandOver
  <2>3. CASE RequestTaint(m)
    BY <2>3, <2>a, <2>r, <2>s DEF RequestTaint
  <2>4. CASE SwitchContext(m)
    <3>1. CASE \E pl, rs, vb : GoBack(pl, rs, vb, Received(m))
      BY <2>0, <2>a, <3>1, ActivateAdds DEF GoBack
    <3>2. CASE msgs' = Received(m)
      BY <2>a, <2>r, <3>2
    <3>3. QED
      BY <2>4, <3>1, <3>2 DEF SwitchContext
  <2>5. CASE FollowLink(m)
    BY <2>0, <2>a, <2>5, NavigateAdds DEF FollowLink
  <2>6. CASE Deactivate(m)
    BY <2>0, <2>a, <2>r, <2>6, LeaveAdds DEF Deactivate
  <2>7. QED
    BY <1>9, <2>1, <2>2, <2>3, <2>4, <2>5, <2>6 DEF Update
<1>10. QED
  BY <1>1, <1>2, <1>3, <1>4, <1>5, <1>6, <1>7, <1>8, <1>9 DEF Next, User

\* A run is still there after a step, or its result is on its way.
LEMMA RunsAnswer ==
    ASSUME Typed, Next, NEW r \in runs
    PROVE  \/ \E q \in runs' : q.of = r.of
           \/ r.of = "plan" /\ \E m \in Waiting' : m.type = "PlanResult"
           \/ r.of = "apply" /\ \E m \in Waiting' : m.type = "ApplyResult"
           \/ r.of \in Verbs /\ \E m \in Waiting' : m.type = "ActionResult"
<1>1. CASE Carried
  <2>1. PICK rs : Kept(rs) /\ (runs' = rs \/ \E v, file : Launch(v, file, rs))
    BY <1>1 DEF Carried
  <2>2. PICK p \in rs : p.of = r.of
    <3>1. CASE rs = runs
      BY <3>1
    <3>2. CASE \E v : rs = Cut(v, runs)
      BY <3>2, CutFacts DEF Typed, RunsOK
    <3>3. QED
      BY <2>1, <3>1, <3>2 DEF Kept
  <2>3. CASE runs' = rs
    BY <2>2, <2>3
  <2>4. CASE \E v, file : Launch(v, file, rs)
    <3>1. PICK v, file : Launch(v, file, rs)
      BY <2>4
    <3>2. CASE v = r.of
      BY <3>1, <3>2, LaunchRuns
    <3>3. PICK q \in Cut(v, rs) : q.of = p.of
      <4>1. rs \subseteq Run
        BY <2>1, CutFacts DEF Kept, Typed, RunsOK
      <4>2. QED
        BY <2>2, <4>1, CutFacts
    <3>4. Cut(v, rs) \subseteq runs'
      BY <3>1 DEF Launch
    <3>5. QED
      BY <2>2, <3>3, <3>4
  <2>5. QED
    BY <2>1, <2>3, <2>4
<1>2. CASE RunEnds
  <2>1. PICK q \in runs : PlanEnds(q) \/ ApplyEnds(q) \/ ActionEnds(q)
    BY <1>2 DEF RunEnds
  <2>2. runs' = runs \ {q}
    BY <2>1 DEF PlanEnds, ApplyEnds, ActionEnds
  <2>3. CASE r # q
    BY <2>2, <2>3
  <2>4. CASE r = q
    <3>0. IsABag(msgs)
      BY DEF Typed, MsgsOK
    <3>1. \A m : msgs' = Sent({m}) => m \in Waiting'
      BY <3>0, SendFacts DEF Sent, Waiting
    <3>2. CASE PlanEnds(q)
      <4>0. \A run, ok, as, lock : PlanResult(run, ok, as, lock).type = "PlanResult"
        BY DEF PlanResult
      <4>1. PICK m : msgs' = Sent({m}) /\ m.type = "PlanResult"
        <5>1. \/ \E as : msgs' = Sent({PlanResult(q.id, TRUE, as, FALSE)})
              \/ \E lock : msgs' = Sent({PlanResult(q.id, FALSE, {}, lock)})
          BY <3>2 DEF PlanEnds
        <5>2. CASE \E as : msgs' = Sent({PlanResult(q.id, TRUE, as, FALSE)})
          BY <4>0, <5>2
        <5>3. CASE \E lock : msgs' = Sent({PlanResult(q.id, FALSE, {}, lock)})
          BY <4>0, <5>3
        <5>4. QED
          BY <5>1, <5>2, <5>3
      <4>2. r.of = "plan"
        BY <2>4, <3>2 DEF PlanEnds
      <4>3. QED
        BY <2>4, <3>1, <4>1, <4>2
    <3>3. CASE ApplyEnds(q)
      <4>0. \A ok : ApplyResult(ok).type = "ApplyResult"
        BY DEF ApplyResult
      <4>1. PICK m : msgs' = Sent({m}) /\ m.type = "ApplyResult"
        BY <3>3, <4>0 DEF ApplyEnds
      <4>2. r.of = "apply"
        BY <2>4, <3>3 DEF ApplyEnds
      <4>3. QED
        BY <2>4, <3>1, <4>1, <4>2
    <3>4. CASE ActionEnds(q)
      <4>0. \A ok : ActionResult(ok).type = "ActionResult"
        BY DEF ActionResult
      <4>1. PICK m : msgs' = Sent({m}) /\ m.type = "ActionResult"
        BY <3>4, <4>0 DEF ActionEnds
      <4>2. r.of \in Verbs
        BY <2>4, <3>4 DEF ActionEnds
      <4>3. QED
        BY <2>4, <3>1, <4>1, <4>2
    <3>5. QED
      BY <2>1, <3>2, <3>3, <3>4
  <2>5. QED
    BY <2>3, <2>4
<1>3. QED
  BY <1>1, <1>2, NextRuns

\* Only a handler that starts a run makes its plugin busy.
ApplyMoved == ApplyBusy(apply') => ApplyBusy(apply) \/ \E r \in runs' : r.of = "apply"
VerbsBusy == \E v \in Verbs : RunnerBusy(verb[v])
VerbsMoved == VerbsBusy' => VerbsBusy \/ \E r \in runs' : r.of \in Verbs

\* A step that makes a plugin busy has started a run of it.
LEMMA NextBusy ==
    ASSUME Typed, Next
    PROVE  (PlanBusy(plan') => PlanBusy(plan) \/ PlanRuns) /\ ApplyMoved /\ VerbsMoved
<1>0. plan \in PlanState /\ apply \in ApplyState /\ verb \in [Verbs -> RunnerState]
  BY DEF Typed, PlanOK, ApplyOK, VerbOK
<1>p. PlanBusy(plan') => PlanBusy(plan) \/ PlanRuns
  <2> USE DEF PlanBusy, PlanState
  <2>1. CASE plan' \in {plan, ClearPending(plan), PinsChanged(plan)}
    BY <1>0, <2>1 DEF ClearPending, PinsChanged
  <2>2. CASE plan' \in {Reset(plan), PlanInvalidated(plan)}
    BY <1>0, <2>2 DEF Reset, PlanInvalidated, NewPlan
  <2>3. CASE \E lock : plan' = Failed(plan, lock)
    BY <1>0, <2>3 DEF Failed, ClearPending
  <2>4. CASE \E run, c : plan' = Completed(plan, run, c)
    BY <1>0, <2>4 DEF Completed, ClearPending
  <2>5. QED
    BY <2>1, <2>2, <2>3, <2>4, NextRuns, PlanStartsRuns DEF PlanMoved
<1>a. ASSUME \/ apply' \in {apply, Abort(apply), ShowLog(apply), RequestApply(apply), Switched(apply)}
             \/ \E f : apply' = RequestApply(SetPlanFile(apply, f))
             \/ \E s : apply' = [apply EXCEPT !.stack = s]
             \/ \E ok : apply' = Applied(apply, ok)
             \/ \E r \in runs' : r.of = "apply"
      PROVE  ApplyMoved
  <2> USE DEF ApplyMoved, ApplyBusy, ApplyState
  <2>1. CASE apply' \in {apply, Abort(apply), ShowLog(apply), RequestApply(apply), Switched(apply)}
    BY <1>0, <2>1 DEF Abort, ShowLog, RequestApply, Switched
  <2>2. CASE \E f : apply' = RequestApply(SetPlanFile(apply, f))
    BY <1>0, <2>2 DEF SetPlanFile, RequestApply
  <2>3. CASE \E s : apply' = [apply EXCEPT !.stack = s]
    BY <1>0, <2>3
  <2>4. CASE \E ok : apply' = Applied(apply, ok)
    BY <1>0, <2>4 DEF Applied
  <2>5. QED
    BY <1>a, <2>1, <2>2, <2>3, <2>4
<1>v. ASSUME \/ verb' = verb
             \/ \E v \in Verbs : verb' = [verb EXCEPT ![v] = ResetRunner(@)]
             \/ \E v \in Verbs : verb' = [verb EXCEPT ![v] = Arm(@)]
             \/ verb' = [v \in Verbs |-> ResetRunner(verb[v])]
             \/ \E ok : verb' = [v \in Verbs |-> Reported(verb[v], ok)]
             \/ \E r \in runs' : r.of \in Verbs
      PROVE  VerbsMoved
  <2> USE DEF VerbsMoved, VerbsBusy, RunnerBusy, RunnerState
  <2>1. CASE \E v \in Verbs : verb' = [verb EXCEPT ![v] = ResetRunner(@)]
    BY <1>0, <2>1 DEF ResetRunner
  <2>2. CASE \E v \in Verbs : verb' = [verb EXCEPT ![v] = Arm(@)]
    BY <1>0, <2>2 DEF Arm
  <2>3. CASE verb' = [v \in Verbs |-> ResetRunner(verb[v])]
    BY <1>0, <2>3 DEF ResetRunner
  <2>4. CASE \E ok : verb' = [v \in Verbs |-> Reported(verb[v], ok)]
    BY <1>0, <2>4 DEF Reported
  <2>5. QED
    BY <1>v, <2>1, <2>2, <2>3, <2>4
<1>b. ASSUME NEW v, NEW pl, NEW rs, NEW ms, Activate(v, pl, rs, verb, ms) PROVE VerbsMoved
  BY <1>b, <1>v, ActivateMoves DEF Verbs
<1>c. ASSUME NEW pl, NEW rs, NEW ms, LeaveView(pl, rs, ms) \/ GoHome(pl, rs, ms) PROVE VerbsMoved
  BY <1>c, <1>b, <1>v DEF LeaveView, GoHome, GoBack
<1>d. ASSUME NEW v, NEW ms, NavigateTo(v, ms) PROVE VerbsMoved
  BY <1>d, <1>b DEF NavigateTo
<1>l. \A v, file, rs : Launch(v, file, rs) => \E r \in runs' : r.of = v
  BY LaunchRuns
<1>t. "taint" \in Verbs /\ "forceunlock" \in Verbs
  BY DEF Verbs
<1> DEFINE G == ApplyMoved /\ VerbsMoved
<1> SUFFICES G
  BY <1>p
<1> HIDE DEF G
<1>g. ApplyMoved /\ VerbsMoved => G
  BY DEF G
<1>s. apply' = apply /\ verb' = verb => G
  BY <1>a, <1>v, <1>g
<1>1. CASE \E v \in Commands : Open(v)
  BY <1>1, <1>a, <1>d, <1>g DEF Open
<1>2. CASE Quit
  BY <1>2, <1>a, <1>c, <1>g DEF Quit
<1>3. CASE CloseLog
  <2>1. ApplyMoved
    BY <1>3, <1>a DEF CloseLog
  <2>2. VerbsMoved
    BY <1>3, <1>c, <1>v DEF CloseLog
  <2>3. QED
    BY <1>g, <2>1, <2>2
<1>4. CASE LeaveChdir
  BY <1>4, <1>a, <1>c, <1>g DEF LeaveChdir
<1>5. CASE PlanEsc \/ PlanKey \/ Refresh \/ \E auto \in BOOLEAN : AskApply(auto) \/ ReplanAndApply(auto)
  BY <1>5, <1>s DEF PlanEsc, PlanKey, Refresh, AskApply, ReplanAndApply, Press
<1>6. CASE ApplyKey \/ PickMember \/ VerbKey \/ AnswerNo \/ Terraform
  BY <1>6, <1>s DEF ApplyKey, PickMember, VerbKey, Press, AnswerNo, Terraform, PlanEnds, ApplyEnds, ActionEnds
<1>7. CASE ClearLogs \/ EnterApply \/ Decline \/ OpenLog
  <2>1. ApplyMoved
    BY <1>7, <1>a DEF ClearLogs, EnterApply, Decline, OpenLog
  <2>2. VerbsMoved
    BY <1>7, <1>v DEF ClearLogs, EnterApply, Decline, OpenLog
  <2>3. QED
    BY <1>g, <2>1, <2>2
<1>8. CASE Confirm
  <2>1. Launch("apply", apply.file, runs) /\ verb' = verb
    BY <1>8 DEF Confirm
  <2>2. QED
    BY <1>a, <1>g, <1>l, <1>v, <2>1
<1>9. CASE RetryTaint
  <2>1. Launch("taint", 0, runs) /\ apply' = apply
    BY <1>9 DEF RetryTaint
  <2>2. QED
    BY <1>a, <1>g, <1>l, <1>t, <1>v, <2>1
<1>10. CASE RetryUnlock
  BY <1>10, <1>a, <1>g, <1>t, <1>v DEF RetryUnlock
<1>11. CASE AnswerYes
  <2>1. (Launch("taint", 0, runs) \/ verb' = verb) /\ apply' = apply
    BY <1>11 DEF AnswerYes
  <2>2. QED
    BY <1>a, <1>g, <1>l, <1>t, <1>v, <2>1
<1>12. ASSUME NEW m \in Waiting, Update(m) PROVE G
  <2>1. CASE PlanFails(m) \/ PlanSucceeds(m) \/ Refused(m) \/ InvalidatePlan(m) \/ ClearLock(m)
             \/ ShowPrompt(m)
    BY <1>s, <2>1 DEF PlanFails, PlanSucceeds, Refused, InvalidatePlan, ClearLock, ShowPrompt
  <2>2. CASE ApplyReturns(m)
    BY <1>a, <1>g, <1>v, <2>2 DEF ApplyReturns
  <2>3. CASE ActionReturns(m)
    BY <1>a, <1>g, <1>v, <2>3 DEF ActionReturns
  <2>4. CASE TogglePins(m) \/ ClearPins(m)
    BY <1>a, <1>g, <1>v, <1>s, <2>4 DEF TogglePins, ClearPins, ReplacePins
  <2>5. CASE SwitchContext(m)
    <3> DEFINE vb == [v \in Verbs |-> ResetRunner(verb[v])]
    <3>1. apply' = Switched(apply) /\ (verb' = vb \/ \E pl, rs, ms : GoBack(pl, rs, vb, ms))
      BY <2>5 DEF SwitchContext
    <3>2. verb' = vb \/ verb' = [vb EXCEPT !["forceunlock"] = ResetRunner(@)]
      BY <3>1, ActivateMoves DEF GoBack
    <3>3. [vb EXCEPT !["forceunlock"] = ResetRunner(@)] = vb
      BY <1>0 DEF ResetRunner, RunnerState
    <3>4. QED
      BY <1>a, <1>g, <1>v, <3>1, <3>2, <3>3
  <2>6. CASE FollowLink(m)
    BY <1>a, <1>d, <1>g, <2>6 DEF FollowLink
  <2>7. CASE Deactivate(m)
    BY <1>a, <1>c, <1>g, <1>s, <2>7 DEF Deactivate
  <2>8. CASE RequestTaint(m)
    BY <1>a, <1>g, <1>t, <1>v, <2>8 DEF RequestTaint
  <2>9. CASE StartUnlock(m)
    <3>1. Launch("forceunlock", 0, runs) /\ apply' = apply
      BY <2>9 DEF StartUnlock
    <3>2. QED
      BY <1>a, <1>g, <1>l, <1>t, <1>v, <3>1
  <2>10. CASE HandOver(m)
    <3>1. /\ verb' = verb
          /\ Launch("apply", m.file, runs) \/ apply' = RequestApply(SetPlanFile(apply, m.file))
      BY <2>10 DEF HandOver
    <3>2. QED
      BY <1>a, <1>g, <1>l, <1>v, <3>1
  <2>11. QED
    BY <1>12, <2>1, <2>2, <2>3, <2>4, <2>5, <2>6, <2>7, <2>8, <2>9, <2>10 DEF Update
<1>13. QED
  BY <1>1, <1>2, <1>3, <1>4, <1>5, <1>6, <1>7, <1>8, <1>9, <1>10, <1>11, <1>12 DEF Next, User

\* A result ends what it is the result of.
LEMMA ResultsEnd ==
    ASSUME Typed, NEW m \in Waiting, Update(m)
    PROVE  /\ m.type = "PlanResult" => ~PlanBusy(plan')
           /\ m.type = "ApplyResult" => ~ApplyBusy(apply')
           /\ m.type = "ActionResult" => ~VerbsBusy'
<1>0. /\ m \in Message
      /\ plan \in PlanState /\ apply \in ApplyState /\ verb \in [Verbs -> RunnerState]
  BY DEF Typed, MsgsOK, Waiting, PlanOK, ApplyOK, VerbOK
<1>1. m.type = "PlanResult" => PlanFails(m) \/ PlanSucceeds(m)
  BY DEF Update, ApplyReturns, ActionReturns, Refused, TogglePins, ClearPins, SwitchContext,
         InvalidatePlan, ClearLock, FollowLink, Deactivate, ShowPrompt, RequestTaint, StartUnlock,
         HandOver
<1>2. m.type = "ApplyResult" => ApplyReturns(m)
  BY DEF Update, PlanFails, PlanSucceeds, ActionReturns, Refused, TogglePins, ClearPins,
         SwitchContext, InvalidatePlan, ClearLock, FollowLink, Deactivate, ShowPrompt,
         RequestTaint, StartUnlock, HandOver
<1>3. m.type = "ActionResult" => ActionReturns(m)
  BY DEF Update, PlanFails, PlanSucceeds, ApplyReturns, Refused, TogglePins, ClearPins,
         SwitchContext, InvalidatePlan, ClearLock, FollowLink, Deactivate, ShowPrompt,
         RequestTaint, StartUnlock, HandOver
<1>4. PlanFails(m) \/ PlanSucceeds(m) => ~PlanBusy(plan')
  <2>1. PlanFails(m) => plan' = Failed(plan, m.lock)
    BY DEF PlanFails
  <2>2. PlanSucceeds(m) => plan' = Completed(plan, m.run, m.changed # {})
    BY DEF PlanSucceeds
  <2>3. \A lock : ~PlanBusy(Failed(plan, lock))
    BY <1>0 DEF Failed, ClearPending, PlanBusy, PlanState
  <2>4. \A run, c : ~PlanBusy(Completed(plan, run, c))
    BY <1>0 DEF Completed, ClearPending, PlanBusy, PlanState
  <2>5. QED
    BY <2>1, <2>2, <2>3, <2>4
<1>5. ApplyReturns(m) => ~ApplyBusy(apply')
  BY <1>0 DEF ApplyReturns, Applied, ApplyBusy, ApplyState
<1>6. ActionReturns(m) => ~VerbsBusy'
  <2> SUFFICES ASSUME ActionReturns(m), NEW v \in Verbs PROVE ~RunnerBusy(verb'[v])
    BY DEF VerbsBusy
  <2>1. verb'[v] = Reported(verb[v], m.ok)
    BY DEF ActionReturns
  <2>2. verb[v] \in RunnerState
    BY <1>0
  <2>3. QED
    BY <2>1, <2>2 DEF Reported, RunnerBusy, RunnerState
<1>7. QED
  BY <1>1, <1>2, <1>3, <1>4, <1>5, <1>6

\* A plugin that is busy still, or has just become so, has one or the other.
LEMMA BusyStep == Typed /\ BusyHasRun /\ [Next]_vars => BusyHasRun'
<1> SUFFICES ASSUME Typed, BusyHasRun, [Next]_vars PROVE BusyHasRun'
  OBVIOUS
<1>1. CASE UNCHANGED vars
  BY <1>1 DEF vars, BusyHasRun, Waiting
<1>2. CASE Next
  <2>k. ASSUME NEW m \in Waiting
        PROVE  m \in Waiting' \/ Update(m)
    BY <1>2, NextKeeps
  <2>1. ASSUME PlanBusy(plan')
        PROVE  (\E r \in runs' : r.of = "plan") \/ \E m \in Waiting' : m.type = "PlanResult"
    <3>1. CASE PlanRuns
      BY <3>1 DEF PlanRuns
    <3>2. CASE \E r \in runs : r.of = "plan"
      <4>1. PICK r \in runs : r.of = "plan"
        BY <3>2
      <4>2. QED
        BY <1>2, <4>1, RunsAnswer DEF Verbs
    <3>3. CASE \E m \in Waiting : m.type = "PlanResult"
      <4>1. PICK m \in Waiting : m.type = "PlanResult"
        BY <3>3
      <4>2. m \in Waiting'
        BY <2>k, <2>1, <4>1, ResultsEnd
      <4>3. QED
        BY <4>1, <4>2
    <3>4. QED
      BY <1>2, <2>1, <3>1, <3>2, <3>3, NextBusy DEF BusyHasRun
  <2>2. ASSUME ApplyBusy(apply')
        PROVE  (\E r \in runs' : r.of = "apply") \/ \E m \in Waiting' : m.type = "ApplyResult"
    <3>1. CASE \E r \in runs : r.of = "apply"
      <4>1. PICK r \in runs : r.of = "apply"
        BY <3>1
      <4>2. QED
        BY <1>2, <4>1, RunsAnswer DEF Verbs
    <3>2. CASE \E m \in Waiting : m.type = "ApplyResult"
      <4>1. PICK m \in Waiting : m.type = "ApplyResult"
        BY <3>2
      <4>2. m \in Waiting'
        BY <2>k, <2>2, <4>1, ResultsEnd
      <4>3. QED
        BY <4>1, <4>2
    <3>3. QED
      BY <1>2, <2>2, <3>1, <3>2, NextBusy DEF BusyHasRun, ApplyMoved
  <2>3. ASSUME VerbsBusy'
        PROVE  (\E r \in runs' : r.of \in Verbs) \/ \E m \in Waiting' : m.type = "ActionResult"
    <3>1. CASE \E r \in runs : r.of \in Verbs
      <4>1. PICK r \in runs : r.of \in Verbs
        BY <3>1
      <4>2. r.of # "plan" /\ r.of # "apply"
        BY <4>1 DEF Verbs
      <4>3. QED
        BY <1>2, <4>1, <4>2, RunsAnswer
    <3>2. CASE \E m \in Waiting : m.type = "ActionResult"
      <4>1. PICK m \in Waiting : m.type = "ActionResult"
        BY <3>2
      <4>2. m \in Waiting'
        BY <2>k, <2>3, <4>1, ResultsEnd
      <4>3. QED
        BY <4>1, <4>2
    <3>3. VerbsBusy \/ \E r \in runs' : r.of \in Verbs
      BY <1>2, <2>3, NextBusy DEF VerbsMoved
    <3>4. QED
      BY <3>1, <3>2, <3>3 DEF BusyHasRun, VerbsBusy
  <2>4. QED
    BY <2>1, <2>2, <2>3 DEF BusyHasRun, VerbsBusy
<1>3. QED
  BY <1>1, <1>2

\* requireIdle refuses almost every request while a plugin is busy. A busy
\* plugin has a run that has not ended or a result that has not arrived: there
\* is something left that will end its being busy.
THEOREM BusyPluginsHaveRuns == Spec => []BusyHasRun
<1>1. Init => BusyHasRun
  BY DEF Init, BusyHasRun, PlanBusy, NewPlan, ApplyBusy, NewApply, RunnerBusy, NewRunner
<1>2. QED
  BY <1>1, BusyStep, AlwaysTyped, PTL DEF Spec

-----------------------------------------------------------------------------
(* The requests that take a plan file, or the screen, from under the user *)

Asking == {"TaintRequest", "ApplyRequest", "ContextSwitch"}
Asks(t) == \E m \in Waiting : m.type = t
AnyAsks == \E m \in Waiting : m.type \in Asking

\* A step that sends no such request.
Quiet == \A m \in Waiting' : m.type \in Asking => m \in Waiting

\* The steps that do: a key on the plan view, with results that have changes;
\* one on the picker; a replan that succeeds with an apply waiting for it.
Sends(m) == \A q \in Waiting' : q = m \/ q \in Waiting
PlanSends ==
    /\ active = "plan" /\ CanApply(plan) /\ ~AnyAsks
    /\ UNCHANGED <<nav, plan, apply, context, runs>>
    /\ \/ \E m : m.type = "TaintRequest" /\ Sends(m)
       \/ \E m : /\ m.type = "ApplyRequest" /\ m.file = plan.file /\ Sends(m)
                 /\ plan.file # 0 /\ intent' = [intent EXCEPT ![plan.file] = "asked"]
PickerSends ==
    /\ active = "chdir" /\ ~AnyAsks
    /\ UNCHANGED <<nav, plan, apply, context, runs>>
    /\ \E m : m.type = "ContextSwitch" /\ Sends(m)
ReplanSends ==
    /\ plan.pending # "no" /\ plan.file # 0
    /\ \E run, c : plan' = Completed(plan, run, c)
    /\ UNCHANGED <<nav, apply, context, runs, intent>>
    /\ \E m : /\ m.type = "ApplyRequest" /\ m.file = plan.file
              /\ \A q \in Waiting' : q.type \in Asking => q = m \/ q \in Waiting

\* An attentive user presses a key when nothing but results is on its way.
LEMMA KeyLooks ==
    ASSUME ~Hasty, Key
    PROVE  ~AnyAsks
BY DEF Key, Attentive, AnyAsks, Asking, Results

\* Messages of other types that a step adds to those, ms, that it has kept.
LEMMA SendQuiet ==
    ASSUME NEW ms, IsABag(ms), BagToSet(ms) \subseteq Waiting,
           NEW S, \A m \in S : m.type \notin Asking, msgs' = ms (+) SetToBag(S)
    PROVE  Quiet
BY SendFacts DEF Quiet, Waiting

\* The messages of those other types.
LEMMA MessageQuiet ==
    /\ \A run, ok, as, lock : PlanResult(run, ok, as, lock).type \notin Asking
    /\ \A ok : ApplyResult(ok).type \notin Asking /\ ActionResult(ok).type \notin Asking
    /\ \A as : PinToggle(as).type \notin Asking
    /\ \A v : Navigate(v).type \notin Asking /\ RequestInput(v).type \notin Asking
    /\ \A t : t \notin Asking => Signal(t).type \notin Asking
<1> USE DEF Asking
<1>1. \A run, ok, as, lock : PlanResult(run, ok, as, lock).type \notin Asking
  BY DEF PlanResult
<1>2. \A ok : ApplyResult(ok).type \notin Asking /\ ActionResult(ok).type \notin Asking
  BY DEF ApplyResult, ActionResult
<1>3. \A as : PinToggle(as).type \notin Asking
  BY DEF PinToggle
<1>4. \A v : Navigate(v).type \notin Asking /\ RequestInput(v).type \notin Asking
  BY DEF Navigate, RequestInput
<1>5. \A t : t \notin Asking => Signal(t).type \notin Asking
  BY DEF Signal
<1>6. QED
  BY <1>1, <1>2, <1>3, <1>4, <1>5

\* Moving between views sends no such request.
LEMMA ActivateQuiet ==
    ASSUME NEW v, NEW pl, NEW rs, NEW vb, NEW ms, IsABag(ms), BagToSet(ms) \subseteq Waiting,
           Activate(v, pl, rs, vb, ms)
    PROVE  Quiet
<1>1. msgs' = ms \/ msgs' = ms (+) SetToBag({RequestInput("forceunlock")})
  BY ActivateMoves
<1>2. CASE msgs' = ms
  BY <1>2 DEF Quiet, Waiting
<1>3. CASE msgs' = ms (+) SetToBag({RequestInput("forceunlock")})
  BY <1>3, MessageQuiet, SendQuiet
<1>4. QED
  BY <1>1, <1>2, <1>3

\* The same, leaving a view.
LEMMA LeaveQuiet ==
    ASSUME NEW pl, NEW rs, NEW ms, IsABag(ms), BagToSet(ms) \subseteq Waiting,
           LeaveView(pl, rs, ms) \/ GoHome(pl, rs, ms)
    PROVE  Quiet
<1>1. CASE GoBack(pl, rs, verb, ms)
  BY <1>1, ActivateQuiet DEF GoBack
<1>2. CASE GoHome(pl, rs, ms)
  <2>1. \A m \in {Signal("PinClear")} : m.type \notin Asking
    BY MessageQuiet DEF Asking
  <2>2. QED
    BY <1>2, <2>1, SendQuiet DEF GoHome
<1>3. QED
  BY <1>1, <1>2 DEF LeaveView

\* The same, going to a view.
LEMMA NavigateQuiet ==
    ASSUME NEW v, NEW ms, IsABag(ms), BagToSet(ms) \subseteq Waiting, NavigateTo(v, ms)
    PROVE  Quiet
BY ActivateQuiet DEF NavigateTo

\* Every step sends no such request or is one of the three.
LEMMA NextSends ==
    ASSUME ~Hasty, Typed, Next
    PROVE  Quiet \/ PlanSends \/ PickerSends \/ ReplanSends
<1>0. IsABag(msgs)
  BY DEF Typed, MsgsOK
<1>s. ASSUME NEW m, msgs' = Sent({m})
      PROVE  Sends(m) /\ (m.type \notin Asking => Quiet)
  BY <1>0, <1>s, SendFacts DEF Sent, Sends, Quiet, Waiting
<1>u. ASSUME msgs' = msgs \/ \E m : msgs' = Sent({m}) /\ m.type \notin Asking
      PROVE  Quiet
  BY <1>s, <1>u DEF Quiet, Waiting
<1>q. \A m : Press(m) /\ m.type \notin Asking => Quiet
  BY <1>s DEF Press
<1>g. \A t : t \notin Asking => Signal(t).type \notin Asking
  BY MessageQuiet
<1>n. "PinClear" \notin Asking /\ "Deactivate" \notin Asking /\ "PlanInvalidated" \notin Asking /\ "UnlockStart" \notin Asking /\ "LockCleared" \notin Asking
  BY DEF Asking
<1>w. msgs' = msgs => Quiet
  BY DEF Quiet, Waiting
<1>1. CASE \E v \in Commands : Open(v)
  BY <1>0, <1>1, NavigateQuiet DEF Open, Waiting
<1>2. CASE Quit
  BY <1>0, <1>2, LeaveQuiet DEF Quit, Waiting
<1>3. CASE CloseLog
  BY <1>0, <1>3, <1>w, LeaveQuiet DEF CloseLog, Waiting
<1>4. CASE LeaveChdir
  BY <1>0, <1>4, LeaveQuiet DEF LeaveChdir, Waiting
<1>5. CASE \/ ClearLogs \/ Refresh \/ EnterApply \/ Confirm \/ OpenLog \/ RetryTaint \/ AnswerNo
           \/ \E auto \in BOOLEAN : ReplanAndApply(auto)
  BY <1>5, <1>w DEF ClearLogs, Refresh, EnterApply, Confirm, OpenLog, RetryTaint, AnswerNo, ReplanAndApply
<1>6. CASE PlanEsc \/ Decline \/ RetryUnlock \/ AnswerYes
  <2>1. msgs' = msgs \/ \E m : msgs' = Sent({m}) /\ (m = Signal("Deactivate") \/ m = Signal("UnlockStart") \/ m = RequestInput("forceunlock"))
    BY <1>6 DEF PlanEsc, Decline, RetryUnlock, AnswerYes
  <2>2. QED
    BY <1>u, <1>g, <1>n, <2>1, MessageQuiet
<1>7. CASE ApplyKey \/ VerbKey
  <2>1. PICK m : Press(m) /\ (m = Signal("Deactivate") \/ m = Navigate("plan"))
    BY <1>7 DEF ApplyKey, VerbKey
  <2>2. QED
    BY <1>q, <1>g, <1>n, <2>1, MessageQuiet
<1>8. CASE PlanKey
  <2>1. CASE \/ \E a \in Addrs : Press(PinToggle({a}))
             \/ Press(Signal("PinClear")) \/ Press(Signal("PlanInvalidated")) \/ Press(Navigate("forceunlock"))
    BY <1>q, <1>g, <1>n, <2>1, MessageQuiet
  <2>2. CASE active = "plan" /\ CanApply(plan) /\ Press(Signal("TaintRequest"))
    <3>1. Signal("TaintRequest").type = "TaintRequest"
      BY DEF Signal
    <3>2. ~AnyAsks /\ Sends(Signal("TaintRequest"))
      BY <1>s, <2>2, KeyLooks DEF Press
    <3>3. UNCHANGED <<nav, plan, apply, context, runs>>
      BY <2>2 DEF Press
    <3>4. QED
      BY <2>2, <3>1, <3>2, <3>3 DEF PlanSends
  <2>3. QED
    BY <1>8, <2>1, <2>2 DEF PlanKey
<1>9. CASE \E auto \in BOOLEAN : AskApply(auto)
  <2>1. PICK auto \in BOOLEAN : AskApply(auto)
    BY <1>9
  <2>2. ApplyRequest(plan.file, auto).type = "ApplyRequest" /\ ApplyRequest(plan.file, auto).file = plan.file
    BY DEF ApplyRequest
  <2>3. ~AnyAsks /\ Sends(ApplyRequest(plan.file, auto))
    BY <1>s, <2>1, KeyLooks DEF AskApply
  <2>4. /\ UNCHANGED <<nav, plan, apply, context, runs>>
        /\ active = "plan" /\ CanApply(plan) /\ plan.file # 0
        /\ intent' = [intent EXCEPT ![plan.file] = "asked"]
    BY <2>1 DEF AskApply, Fresh
  <2>5. QED
    BY <2>2, <2>3, <2>4 DEF PlanSends
<1>10. CASE PickMember
  <2>1. PICK d \in Chdirs : Press(ContextSwitch(d)) /\ active = "chdir"
    BY <1>10 DEF PickMember
  <2>2. ContextSwitch(d).type = "ContextSwitch"
    BY DEF ContextSwitch
  <2>3. ~AnyAsks /\ Sends(ContextSwitch(d))
    BY <1>s, <2>1, KeyLooks DEF Press
  <2>4. UNCHANGED <<nav, plan, apply, context, runs>>
    BY <2>1 DEF Press
  <2>5. QED
    BY <2>1, <2>2, <2>3, <2>4 DEF PickerSends
<1>11. CASE Terraform
  <2>1. \/ \E run, ok, as, lock : msgs' = Sent({PlanResult(run, ok, as, lock)})
        \/ \E ok : msgs' = Sent({ApplyResult(ok)}) \/ msgs' = Sent({ActionResult(ok)})
    BY <1>11 DEF Terraform, PlanEnds, ApplyEnds, ActionEnds
  <2>2. QED
    BY <1>u, <2>1, MessageQuiet
<1>12. ASSUME NEW m \in Waiting, Update(m) PROVE Quiet \/ ReplanSends
  <2>0. IsABag(Received(m)) /\ BagToSet(Received(m)) \subseteq Waiting
    BY <1>0, ReceiveFacts DEF Received, Waiting
  <2>r. msgs' = Received(m) => Quiet
    BY <2>0 DEF Quiet, Waiting
  <2>s. \A S : (msgs' = Received(m) (+) SetToBag(S) /\ \A n \in S : n.type \notin Asking) => Quiet
    BY <2>0, SendQuiet
  <2>t. ASSUME NEW S, NEW T, msgs' = Received(m) (+) SetToBag(S) (+) SetToBag(T)
        PROVE  \A n \in Waiting' : n \in Waiting \cup S \cup T
    <3>1. /\ IsABag(Received(m) (+) SetToBag(S))
          /\ BagToSet(Received(m) (+) SetToBag(S)) = BagToSet(Received(m)) \cup S
      BY <2>0, SendFacts
    <3>2. BagToSet(msgs') = BagToSet(Received(m)) \cup S \cup T
      BY <2>t, <3>1, SendFacts
    <3>3. QED
      BY <2>0, <3>2 DEF Waiting
  <2>1. CASE PlanSucceeds(m)
    <3> DEFINE S == IF pins \subseteq m.changed THEN {} ELSE {PinToggle(pins \ m.changed)}
               q == ApplyRequest(plan.file, plan.pending = "auto")
               T == IF ApplyDue(plan, m.changed # {}) THEN {q} ELSE {}
    <3>1. msgs' = Received(m) (+) SetToBag(S) (+) SetToBag(T)
      BY <2>1 DEF PlanSucceeds
    <3>2. \A n \in S : n.type \notin Asking
      BY MessageQuiet
    <3> HIDE DEF S
    <3>3. \A n \in Waiting' : n \in Waiting \cup S \cup T
      BY <2>t, <3>1
    <3>4. CASE ~ApplyDue(plan, m.changed # {})
      BY <3>2, <3>3, <3>4 DEF Quiet
    <3>5. CASE ApplyDue(plan, m.changed # {})
      <4>1. \A n \in Waiting' : n.type \in Asking => n = q \/ n \in Waiting
        BY <3>2, <3>3, <3>5
      <4>2. q.type = "ApplyRequest" /\ q.file = plan.file
        BY DEF ApplyRequest
      <4>3. UNCHANGED <<nav, apply, context, runs, intent>>
        BY <2>1 DEF PlanSucceeds, ghosts
      <4>4. plan' = Completed(plan, m.run, m.changed # {})
        BY <2>1 DEF PlanSucceeds
      <4> HIDE DEF q
      <4>5. QED
        BY <3>5, <4>1, <4>2, <4>3, <4>4 DEF ReplanSends, ApplyDue
    <3>6. QED
      BY <3>4, <3>5
  <2>2. CASE ApplyReturns(m)
    <3> DEFINE T == IF m.ok THEN {Signal("PlanInvalidated")} ELSE {}
    <3>1. msgs' = Received(m) (+) SetToBag({Signal("PinClear")}) (+) SetToBag(T)
      BY <2>2 DEF ApplyReturns
    <3>2. \A n \in {Signal("PinClear")} \cup T : n.type \notin Asking
      BY <1>g, <1>n
    <3> HIDE DEF T
    <3>3. QED
      BY <2>t, <3>1, <3>2 DEF Quiet
  <2>3. CASE ActionReturns(m)
    <3> DEFINE S == IF m.ok /\ verb["taint"].armed THEN OnSuccess("taint") ELSE {}
               T == IF m.ok /\ verb["forceunlock"].armed THEN OnSuccess("forceunlock") ELSE {}
    <3>1. msgs' = Received(m) (+) SetToBag(S) (+) SetToBag(T)
      BY <2>3 DEF ActionReturns
    <3>2. \A n \in S \cup T : n.type \notin Asking
      BY <1>g, <1>n DEF OnSuccess
    <3> HIDE DEF S, T
    <3>3. QED
      BY <2>t, <3>1, <3>2 DEF Quiet
  <2>4. CASE PlanFails(m) \/ Refused(m) \/ TogglePins(m) \/ ClearPins(m) \/ InvalidatePlan(m)
             \/ ClearLock(m) \/ ShowPrompt(m) \/ StartUnlock(m) \/ HandOver(m)
    BY <2>4, <2>r DEF PlanFails, Refused, TogglePins, ClearPins, InvalidatePlan, ClearLock,
                      ShowPrompt, StartUnlock, HandOver
  <2>5. CASE RequestTaint(m)
    <3>1. msgs' = Received(m) \/ msgs' = Received(m) (+) SetToBag({RequestInput("taint")})
      BY <2>5 DEF RequestTaint
    <3>2. QED
      BY <2>r, <2>s, <3>1, MessageQuiet
  <2>6. CASE SwitchContext(m)
    <3>1. CASE \E pl, rs, vb : GoBack(pl, rs, vb, Received(m))
      BY <2>0, <3>1, ActivateQuiet DEF GoBack
    <3>2. CASE msgs' = Received(m)
      BY <2>r, <3>2
    <3>3. QED
      BY <2>6, <3>1, <3>2 DEF SwitchContext
  <2>7. CASE FollowLink(m)
    BY <2>0, <2>7, NavigateQuiet DEF FollowLink
  <2>8. CASE Deactivate(m)
    BY <2>0, <2>r, <2>8, LeaveQuiet DEF Deactivate
  <2>9. QED
    BY <1>12, <2>1, <2>2, <2>3, <2>4, <2>5, <2>6, <2>7, <2>8 DEF Update
<1>13. QED
  BY <1>1, <1>2, <1>3, <1>4, <1>5, <1>6, <1>7, <1>8, <1>9, <1>10, <1>11, <1>12 DEF Next, User

-----------------------------------------------------------------------------
(* What the user asked for *)

\* Once asked for or withdrawn, never as if not asked.
IntentMoved ==
    intent' = intent \/ \E n, w : w # "none" /\ intent' = [intent EXCEPT ![n] = w]

\* The file staged for an apply is kept, dropped, or the one handed over.
StageMoved ==
    apply'.file \in {apply.file, 0} \/ \E m \in Waiting : HandOver(m) /\ apply'.file = m.file

\* Only a switch changes the directory, and it drops the staged file.
DirMoved ==
    dir' = dir \/ \E m \in Waiting : m.type = "ContextSwitch" /\ SwitchContext(m) /\ apply'.file = 0

\* So does every step: what was asked, what is staged and where.
LEMMA NextStages ==
    ASSUME Typed, Next
    PROVE  IntentMoved /\ StageMoved /\ DirMoved
<1>0. apply \in ApplyState
  BY DEF Typed, ApplyOK
<1>u. ASSUME intent' = intent, apply' = apply, dir' = dir PROVE IntentMoved /\ StageMoved /\ DirMoved
  BY <1>u DEF IntentMoved, StageMoved, DirMoved
<1>v. ASSUME intent' = intent, apply'.file \in {apply.file, 0}, dir' = dir
      PROVE  IntentMoved /\ StageMoved /\ DirMoved
  BY <1>v DEF IntentMoved, StageMoved, DirMoved
<1> USE DEF ghosts, context
<1>1. CASE \/ \E v \in Commands : Open(v)
           \/ Quit \/ PlanKey \/ Refresh \/ LeaveChdir \/ PickMember
           \/ VerbKey \/ RetryTaint \/ RetryUnlock \/ AnswerYes \/ AnswerNo \/ ApplyKey
  BY <1>1, <1>u DEF Open, Quit, PlanKey, Refresh, LeaveChdir, PickMember, VerbKey, RetryTaint,
                    RetryUnlock, AnswerYes, AnswerNo, ApplyKey, Press
<1>2. CASE PlanEsc \/ \E auto \in BOOLEAN : AskApply(auto) \/ ReplanAndApply(auto)
  <2>1. apply' = apply /\ dir' = dir
    BY <1>2 DEF PlanEsc, AskApply, ReplanAndApply
  <2>2. IntentMoved
    BY <1>2 DEF PlanEsc, AskApply, ReplanAndApply, IntentMoved
  <2>3. QED
    BY <2>1, <2>2 DEF StageMoved, DirMoved
<1>3. CASE Confirm
  <2>1. apply'.file = apply.file
    BY <1>0, <1>3 DEF Confirm, Applying, ApplyState
  <2>2. dir' = dir /\ IntentMoved
    BY <1>3 DEF Confirm, IntentMoved
  <2>3. QED
    BY <2>1, <2>2 DEF StageMoved, DirMoved
<1>4. CASE ClearLogs \/ EnterApply \/ Decline \/ OpenLog \/ CloseLog
  <2>1. apply'.file = apply.file
    BY <1>0, <1>4 DEF ClearLogs, EnterApply, Decline, OpenLog, CloseLog, RequestApply, Abort, ShowLog, ApplyState
  <2>2. intent' = intent /\ dir' = dir
    BY <1>4 DEF ClearLogs, EnterApply, Decline, OpenLog, CloseLog
  <2>3. QED
    BY <1>v, <2>1, <2>2
<1>5. CASE Terraform
  BY <1>5, <1>u DEF Terraform, PlanEnds, ApplyEnds, ActionEnds
<1>6. ASSUME NEW m \in Waiting, Update(m) PROVE IntentMoved /\ StageMoved /\ DirMoved
  <2>1. CASE \/ PlanFails(m) \/ PlanSucceeds(m) \/ ActionReturns(m) \/ Refused(m)
             \/ InvalidatePlan(m) \/ ClearLock(m) \/ FollowLink(m) \/ Deactivate(m)
             \/ ShowPrompt(m) \/ RequestTaint(m) \/ StartUnlock(m)
    BY <2>1, <1>u DEF PlanFails, PlanSucceeds, ActionReturns, Refused, InvalidatePlan, ClearLock,
                      FollowLink, Deactivate, ShowPrompt, RequestTaint, StartUnlock
  <2>2. CASE TogglePins(m) \/ ClearPins(m)
    BY <2>2, <1>u DEF TogglePins, ClearPins, ReplacePins
  <2>3. CASE ApplyReturns(m)
    <3>1. apply'.file = 0 /\ intent' = intent /\ dir' = dir
      BY <1>0, <2>3 DEF ApplyReturns, Applied, ApplyState
    <3>2. QED
      BY <1>v, <3>1
  <2>4. CASE SwitchContext(m)
    <3>1. apply'.file = 0 /\ intent' = intent /\ m.type = "ContextSwitch"
      BY <1>0, <2>4 DEF SwitchContext, Switched, ApplyState
    <3>2. QED
      BY <2>4, <3>1 DEF IntentMoved, StageMoved, DirMoved
  <2>5. CASE HandOver(m)
    <3>1. apply'.file = m.file
      BY <1>0, <2>5 DEF HandOver, Applying, RequestApply, SetPlanFile, ApplyState
    <3>2. intent' = intent /\ dir' = dir
      BY <2>5 DEF HandOver
    <3>3. QED
      BY <2>5, <3>1, <3>2 DEF IntentMoved, StageMoved, DirMoved
  <2>6. QED
    BY <1>6, <2>1, <2>2, <2>3, <2>4, <2>5 DEF Update
<1>7. QED
  BY <1>1, <1>2, <1>3, <1>4, <1>5, <1>6 DEF Next, User

-----------------------------------------------------------------------------
(* Attentive users: what is asked of the plan is still what is shown *)

\* While an apply waits for a replan the user is on the plan view, or gone home,
\* and nothing is on its way that would take over; nor does a hand-over of a
\* file race a switch of directory.
Ordered ==
    /\ plan.pending # "no" => active \in {"plan", "home"} /\ ~AnyAsks
    /\ Asks("ApplyRequest") => ~Asks("ContextSwitch")

\* An apply is deferred to a replan, or waits for one that goes on.
Deferral ==
    /\ active = "plan" /\ ~AnyAsks
    /\ UNCHANGED <<nav, msgs>>
    /\ nextRun \in Runs /\ plan'.file = nextRun /\ intent' = [intent EXCEPT ![nextRun] = "asked"]
Waits ==
    plan.pending # "no" /\ plan' = plan /\ (active' = active \/ active' = "home")

\* Leaving a view with no apply deferred leaves none.
LEMMA LeaveDefers ==
    ASSUME NEW pl \in PlanState, pl.pending = "no", NEW v, NEW rs, NEW vb, NEW ms,
           Activate(v, pl, rs, vb, ms) \/ LeaveView(pl, rs, ms) \/ GoHome(pl, rs, ms)
    PROVE  plan'.pending = "no"
<1>1. plan' = pl \/ plan' = Activated(pl, nextRun)
  BY ActivateMoves DEF LeaveView, GoBack, GoHome
<1>2. QED
  BY <1>1 DEF Activated, PlanState

\* Every step after which an apply waits for a replan is one of the two.
LEMMA NextDefers ==
    ASSUME ~Hasty, Typed, PendingOnlyWhileReplanning, Ordered, Next, plan'.pending # "no"
    PROVE  Deferral \/ Waits
<1>0. plan \in PlanState /\ ClearPending(plan) \in PlanState /\ ClearPending(plan).pending = "no"
  BY DEF Typed, PlanOK, PlanState, Deferred, ClearPending
<1>a. plan.pending # "no" => active \in {"plan", "home"} /\ ~AnyAsks /\ plan.status = "loading"
  BY DEF Ordered, PendingOnlyWhileReplanning, PlanBusy
<1>i. Idle => plan.pending = "no"
  BY <1>a DEF Idle, Busy, PlanBusy, Plugins
<1>u. ASSUME plan' = plan, active' = active \/ active' = "home" PROVE Waits
  BY <1>u DEF Waits
<1>n. ASSUME plan'.pending = "no" PROVE FALSE
  BY <1>n
<1>c. \A v : PlanCancelled(v) \in {plan, ClearPending(plan)}
  BY CancelRuns
<1> USE DEF nav
<1>1. CASE \E v \in Commands : Open(v)
  <2>1. PICK v \in Commands : Open(v)
    BY <1>1
  <2>2. PlanCancelled(active) \in PlanState /\ PlanCancelled(active).pending = "no"
    BY <1>0, <1>c, <1>i, <2>1 DEF Open
  <2>3. QED
    BY <1>n, <2>1, <2>2, LeaveDefers DEF Open, NavigateTo
<1>2. CASE Quit
  <2>1. CASE GoHome(plan, runs, msgs)
    BY <1>u, <2>1 DEF GoHome
  <2>2. CASE GoHome(PlanCancelled(active), Cut(active, runs), msgs)
    <3>1. plan' \in {plan, ClearPending(plan)} /\ active' = "home"
      BY <1>c, <2>2 DEF GoHome
    <3>2. QED
      BY <1>0, <1>n, <1>u, <3>1
  <2>3. QED
    BY <1>2, <2>1, <2>2 DEF Quit
<1>3. CASE CloseLog
  <2>1. plan.pending = "no"
    BY <1>3, <1>a DEF CloseLog
  <2>2. plan' = plan \/ LeaveView(plan, runs, msgs)
    BY <1>3 DEF CloseLog
  <2>3. QED
    BY <1>0, <1>n, <2>1, <2>2, LeaveDefers
<1>4. CASE LeaveChdir
  <2>1. plan.pending = "no"
    BY <1>4, <1>a DEF LeaveChdir
  <2>2. QED
    BY <1>0, <1>4, <1>n, <2>1, LeaveDefers DEF LeaveChdir
<1>5. CASE \/ ClearLogs \/ PlanEsc \/ PlanKey \/ \E auto \in BOOLEAN : AskApply(auto)
           \/ EnterApply \/ Confirm \/ Decline \/ ApplyKey \/ OpenLog \/ PickMember
  BY <1>5, <1>u DEF ClearLogs, PlanEsc, PlanKey, AskApply, EnterApply, Confirm, Decline, ApplyKey,
                    OpenLog, PickMember, Press
<1>6. CASE VerbKey \/ RetryTaint \/ RetryUnlock \/ AnswerYes \/ AnswerNo
  BY <1>6, <1>u DEF VerbKey, RetryTaint, RetryUnlock, AnswerYes, AnswerNo, Press
<1>7. CASE Refresh
  <2>1. plan'.pending = "no"
    BY <1>0, <1>7 DEF Refresh, Replanned, PlanState
  <2>2. QED
    BY <1>n, <2>1
<1>8. CASE \E auto \in BOOLEAN : ReplanAndApply(auto)
  <2>1. PICK auto \in BOOLEAN : ReplanAndApply(auto)
    BY <1>8
  <2>2. plan'.file = nextRun
    BY <1>0, <2>1 DEF ReplanAndApply, Replanned, PlanState
  <2>3. active = "plan" /\ ~AnyAsks /\ UNCHANGED <<nav, msgs>>
    BY <2>1, KeyLooks DEF ReplanAndApply
  <2>4. nextRun \in Runs
    BY <2>1 DEF ReplanAndApply, RunPlan, Launch
  <2>5. intent' = [intent EXCEPT ![nextRun] = "asked"]
    BY <2>1 DEF ReplanAndApply
  <2>6. QED
    BY <2>2, <2>3, <2>4, <2>5 DEF Deferral
<1>9. CASE Terraform
  BY <1>9, <1>u DEF Terraform, PlanEnds, ApplyEnds, ActionEnds
<1>10. ASSUME NEW m \in Waiting, Update(m) PROVE Waits
  <2>1. CASE PlanFails(m) \/ PlanSucceeds(m)
    <3>1. \/ \E lock : plan' = Failed(plan, lock)
          \/ \E run, c : plan' = Completed(plan, run, c)
      BY <2>1 DEF PlanFails, PlanSucceeds
    <3>2. plan'.pending = "no"
      BY <1>0, <3>1 DEF Failed, Completed, PlanState
    <3>3. QED
      BY <1>n, <3>2
  <2>2. CASE ApplyReturns(m) \/ ActionReturns(m) \/ Refused(m) \/ ShowPrompt(m) \/ StartUnlock(m)
    BY <1>u, <2>2 DEF ApplyReturns, ActionReturns, Refused, ShowPrompt, StartUnlock
  <2>3. CASE TogglePins(m) \/ ClearPins(m)
    <3>1. UNCHANGED nav /\ (plan' = plan \/ plan' = PinsChanged(plan))
      BY <2>3 DEF TogglePins, ClearPins, ReplacePins
    <3>2. PinsChanged(plan).pending = "no"
      BY <1>0 DEF PinsChanged, ClearPending, PlanState
    <3>3. QED
      BY <1>n, <1>u, <3>1, <3>2
  <2>4. CASE SwitchContext(m)
    <3>1. Reset(plan) \in PlanState /\ Reset(plan).pending = "no"
      BY DEF Reset, NewPlan, PlanState, Statuses, Deferred
    <3>2. \/ plan' = Reset(plan)
          \/ \E v, vb, ms : Activate(v, Reset(plan), runs, vb, ms)
      BY <2>4 DEF SwitchContext, GoBack
    <3>3. QED
      BY <1>n, <3>1, <3>2, LeaveDefers
  <2>5. CASE InvalidatePlan(m) \/ ClearLock(m)
    <3>1. UNCHANGED nav /\ (plan' = Reset(plan) \/ plan' = PlanInvalidated(plan))
      BY <2>5 DEF InvalidatePlan, ClearLock
    <3>2. Reset(plan).pending = "no"
      BY DEF Reset, NewPlan
    <3>3. PlanInvalidated(plan).pending = "no"
      BY <1>0, <1>a, <3>2 DEF PlanInvalidated, PlanState, Deferred
    <3>4. QED
      BY <1>n, <3>1, <3>2, <3>3
  <2>6. CASE FollowLink(m)
    <3>1. PlanCancelled(active) \in PlanState /\ PlanCancelled(active).pending = "no"
      BY <1>0, <1>c, <1>i, <2>6 DEF FollowLink
    <3>2. QED
      BY <1>n, <2>6, <3>1, LeaveDefers DEF FollowLink, NavigateTo
  <2>7. CASE Deactivate(m)
    <3>1. CASE active = "home"
      BY <1>u, <2>7, <3>1 DEF Deactivate
    <3>2. CASE active # "home"
      <4>1. PlanCancelled(active) \in PlanState /\ PlanCancelled(active).pending = "no"
        BY <1>0, <1>a, <3>2 DEF PlanCancelled
      <4>2. LeaveView(PlanCancelled(active), Cut(active, runs), Received(m))
        BY <2>7, <3>2 DEF Deactivate
      <4>3. QED
        BY <1>n, <4>1, <4>2, LeaveDefers
    <3>3. QED
      BY <3>1, <3>2
  <2>8. CASE RequestTaint(m) \/ HandOver(m)
    <3>1. plan' = plan /\ m.type \in Asking
      BY <2>8 DEF RequestTaint, HandOver, Asking
    <3>2. AnyAsks
      BY <3>1 DEF AnyAsks
    <3>3. QED
      BY <1>a, <3>1, <3>2
  <2>9. QED
    BY <1>10, <2>1, <2>2, <2>3, <2>4, <2>5, <2>6, <2>7, <2>8 DEF Update
<1>11. QED
  BY <1>1, <1>2, <1>3, <1>4, <1>5, <1>6, <1>7, <1>8, <1>9, <1>10 DEF Next, User

\* The order of requests holds after a step: only three steps send one, each
\* when none is waiting.
LEMMA OrderedStep ==
    ASSUME ~Hasty, Typed, PendingOnlyWhileReplanning, Ordered, Next
    PROVE  Ordered'
<1>0. plan \in PlanState
  BY DEF Typed, PlanOK
<1>1. ASSUME plan'.pending # "no" PROVE active' \in {"plan", "home"} /\ ~AnyAsks'
  <2>1. CASE Deferral
    BY <2>1 DEF Deferral, AnyAsks, Waiting, nav
  <2>2. CASE Waits
    <3>1. /\ active \in {"plan", "home"} /\ ~AnyAsks
          /\ plan.status = "loading" /\ plan' = plan
          /\ active' = active \/ active' = "home"
      BY <2>2 DEF Waits, Ordered, PendingOnlyWhileReplanning, PlanBusy
    <3>2. ~PlanSends /\ ~PickerSends
      BY <3>1 DEF PlanSends, PickerSends, CanApply
    <3>3. ~ReplanSends
      BY <1>0, <1>1 DEF ReplanSends, Completed, ClearPending, PlanState
    <3>4. Quiet
      BY <3>2, <3>3, NextSends
    <3>5. QED
      BY <3>1, <3>4 DEF Quiet, AnyAsks
  <2>3. QED
    BY <1>1, <2>1, <2>2, NextDefers
<1>2. ASSUME NEW a \in Waiting', a.type = "ApplyRequest", NEW c \in Waiting', c.type = "ContextSwitch"
      PROVE  FALSE
  <2>0. a.type \in Asking /\ c.type \in Asking /\ a # c
    BY <1>2 DEF Asking
  <2>1. CASE Quiet
    BY <1>2, <2>0, <2>1 DEF Quiet, Ordered, Asks
  <2>2. CASE PlanSends \/ PickerSends \/ ReplanSends
    <3>1. ~AnyAsks
      BY <2>2 DEF PlanSends, PickerSends, ReplanSends, Ordered
    <3>2. \E m : \A q \in Waiting' : q.type \in Asking => q = m \/ q \in Waiting
      BY <2>2 DEF PlanSends, PickerSends, ReplanSends, Sends
    <3>3. QED
      BY <2>0, <3>1, <3>2 DEF AnyAsks
  <2>3. QED
    BY <2>1, <2>2, NextSends
<1>3. QED
  BY <1>1, <1>2 DEF Ordered, Asks

\* Where an apply run comes from.
LEMMA ApplyRuns ==
    ASSUME Typed, Next, NEW r \in runs', r.of = "apply"
    PROVE  \/ \E q \in runs : q.of = "apply" /\ q.file = r.file /\ q.dir = r.dir
           \/ Applies(r.file) /\ r.dir = dir'
<1>1. CASE RunEnds
  BY <1>1 DEF RunEnds, PlanEnds, ApplyEnds, ActionEnds
<1>2. CASE Carried
  <2>0. runs \subseteq Run
    BY DEF Typed, RunsOK
  <2>1. PICK rs : Kept(rs) /\ (runs' = rs \/ \E v, file : Launch(v, file, rs) /\ (v = "apply" => Applies(file)))
    BY <1>2 DEF Carried
  <2>2. /\ rs \subseteq Run
        /\ \A p \in rs : \E q \in runs : q.of = p.of /\ q.file = p.file /\ q.dir = p.dir
    BY <2>0, <2>1, CutFacts DEF Kept
  <2>3. CASE runs' = rs
    BY <2>2, <2>3
  <2>4. CASE \E v, file : Launch(v, file, rs) /\ (v = "apply" => Applies(file))
    <3>1. PICK v, file : Launch(v, file, rs) /\ (v = "apply" => Applies(file))
      BY <2>4
    <3> DEFINE n == [of |-> v, id |-> nextRun, file |-> file, dir |-> dir', cancelled |-> FALSE]
    <3>2. runs' = Cut(v, rs) \cup {n}
      BY <3>1 DEF Launch
    <3>3. n.of = v /\ n.file = file /\ n.dir = dir'
      OBVIOUS
    <3> HIDE DEF n
    <3>4. CASE r = n
      BY <3>1, <3>3, <3>4
    <3>5. CASE r \in Cut(v, rs)
      <4>1. PICK p \in rs : p.of = r.of /\ p.file = r.file /\ p.dir = r.dir
        BY <2>2, <3>5, CutFacts
      <4>2. QED
        BY <2>2, <4>1
    <3>6. QED
      BY <3>2, <3>4, <3>5
  <2>5. QED
    BY <2>1, <2>3, <2>4
<1>3. QED
  BY <1>1, <1>2, NextRuns

\* A deferred apply was asked for, of the file its replan writes.
Asked == plan.pending # "no" => plan.file # 0 /\ intent[plan.file] # "none"

\* Asking is never undone, and what a step hands over or applies was asked for.
LEMMA AskedStep ==
    ASSUME ~Hasty, Typed, PendingOnlyWhileReplanning, Ordered, Asked, ApplyWasAsked, Next
    PROVE  Asked' /\ ApplyWasAsked'
<1> USE AppAssumption
<1>0. /\ intent \in [Runs -> {"none", "asked", "withdrawn"}]
      /\ plan \in PlanState /\ plan.file \in 0..MaxRuns /\ apply.file \in 0..MaxRuns
  BY DEF Typed, PlanOK, ApplyOK, IntentOK
<1>1. ASSUME NEW n \in Runs, intent[n] # "none" PROVE intent'[n] # "none"
  BY <1>0, <1>1, NextStages DEF IntentMoved
<1>2. Asked'
  <2>1. CASE Deferral
    BY <1>0, <2>1 DEF Deferral, Asked, Runs
  <2>2. CASE Waits
    <3>1. plan.file \in Runs /\ intent[plan.file] # "none" /\ plan' = plan
      BY <1>0, <2>2 DEF Waits, Asked, Runs
    <3>2. QED
      BY <1>1, <3>1 DEF Asked, Runs
  <2>3. CASE plan'.pending = "no"
    BY <2>3 DEF Asked
  <2>4. QED
    BY <2>1, <2>2, <2>3, NextDefers
<1>m. ASSUME NEW m \in Waiting, m.type = "ApplyRequest"
      PROVE  m.file \in Runs /\ intent[m.file] # "none"
  BY <1>m DEF Typed, MsgsOK, Files, Waiting, ApplyWasAsked
<1>3. ASSUME NEW m \in Waiting', m.type = "ApplyRequest" PROVE intent'[m.file] # "none"
  <2>0. m.type \in Asking
    BY <1>3 DEF Asking
  <2>1. CASE m \in Waiting
    BY <1>1, <1>3, <1>m, <2>1
  <2>2. CASE m \notin Waiting
    <3>1. ~Quiet /\ ~PickerSends
      BY <1>3, <2>0, <2>2 DEF Quiet, PickerSends, Sends
    <3>2. CASE PlanSends
      <4>1. m.file = plan.file /\ plan.file # 0 /\ intent' = [intent EXCEPT ![plan.file] = "asked"]
        BY <1>3, <2>2, <3>2 DEF PlanSends, Sends
      <4>2. plan.file \in Runs
        BY <1>0, <4>1 DEF Runs
      <4>3. QED
        BY <1>0, <4>1, <4>2
    <3>3. CASE ReplanSends
      <4>1. m.file = plan.file /\ plan.file # 0 /\ plan.pending # "no"
        BY <1>3, <2>0, <2>2, <3>3 DEF ReplanSends
      <4>2. plan.file \in Runs /\ intent[plan.file] # "none"
        BY <1>0, <4>1 DEF Asked, Runs
      <4>3. QED
        BY <1>1, <4>1, <4>2
    <3>4. QED
      BY <3>1, <3>2, <3>3, NextSends
  <2>3. QED
    BY <2>1, <2>2
<1>4. ASSUME NEW r \in runs', r.of = "apply", r.file # 0 PROVE intent'[r.file] # "none"
  <2>1. CASE \E q \in runs : q.of = "apply" /\ q.file = r.file
    <3>1. PICK q \in runs : q.of = "apply" /\ q.file = r.file
      BY <2>1
    <3>2. q.file \in Runs
      BY <1>4, <3>1 DEF Typed, RunsOK, Run, Runs
    <3>3. intent[q.file] # "none"
      BY <1>4, <3>1 DEF ApplyWasAsked
    <3>4. QED
      BY <1>1, <3>1, <3>2, <3>3
  <2>2. CASE Confirm /\ r.file = apply.file
    <3>1. intent' = [intent EXCEPT ![apply.file] = "asked"] /\ apply.file \in Runs
      BY <1>0, <1>4, <2>2 DEF Confirm, Runs
    <3>2. QED
      BY <1>0, <2>2, <3>1
  <2>3. CASE \E m \in Waiting : HandOver(m) /\ r.file = m.file
    <3>1. PICK m \in Waiting : HandOver(m) /\ r.file = m.file
      BY <2>3
    <3>2. m.type = "ApplyRequest"
      BY <3>1 DEF HandOver
    <3>3. QED
      BY <1>1, <1>m, <3>1, <3>2
  <2>4. QED
    BY <1>4, <2>1, <2>2, <2>3, ApplyRuns DEF Applies
<1>5. QED
  BY <1>2, <1>3, <1>4 DEF ApplyWasAsked

\* Every plan file that the program still refers to, shown, staged, on its way
\* to be applied or being applied, was made in the directory it is for.
Homed ==
    /\ plan.file # 0 => made[plan.file].dir = dir
    /\ apply.file # 0 => made[apply.file].dir = dir
    /\ \A m \in Waiting : m.type = "ApplyRequest" => made[m.file].dir = dir
    /\ \A r \in runs : r.of = "apply" /\ r.file # 0 => made[r.file].dir = r.dir

\* A switch of directory drops every file, and finds none on its way.
LEMMA HomedStep ==
    ASSUME ~Hasty, Typed, PendingOnlyWhileReplanning, Ordered, Homed, Next
    PROVE  Homed'
<1> USE AppAssumption
<1>0. /\ plan \in PlanState /\ plan.file \in 0..MaxRuns /\ plan.file < nextRun
      /\ apply \in ApplyState /\ apply.file \in 0..MaxRuns /\ apply.file < nextRun
      /\ made \in [Runs -> [dir : Chdirs, pins : SUBSET Addrs]]
      /\ nextRun \in Nat
  BY DEF Typed, PlanOK, ApplyOK, MadeOK, NextOK
<1>s. PlanStarts => /\ nextRun \in Runs
                    /\ made' = [made EXCEPT ![nextRun] = [dir |-> dir', pins |-> pins']]
  BY DEF PlanStarts, RunPlan, Launch
<1>1. ASSUME NEW n \in Runs, n < nextRun PROVE made'[n] = made[n]
  <2>1. CASE made' = made
    BY <2>1
  <2>2. CASE PlanStarts
    BY <1>0, <1>1, <1>s, <2>2
  <2>3. QED
    BY <2>1, <2>2, NextRuns DEF MadeMoved
<1>p. plan'.file = 0 \/ (plan'.file = nextRun /\ PlanStarts) \/ plan'.file = plan.file
  <2> USE DEF PlanState
  <2>1. CASE plan' \in {plan, ClearPending(plan), PinsChanged(plan)}
    BY <1>0, <2>1 DEF ClearPending, PinsChanged
  <2>2. CASE plan' \in {Reset(plan), PlanInvalidated(plan)}
    BY <1>0, <2>2 DEF Reset, PlanInvalidated, NewPlan
  <2>3. CASE \E lock : plan' = Failed(plan, lock)
    BY <1>0, <2>3 DEF Failed, ClearPending
  <2>4. CASE \E run, c : plan' = Completed(plan, run, c)
    BY <1>0, <2>4 DEF Completed, ClearPending
  <2>5. CASE \E pl \in {plan, ClearPending(plan), Reset(plan)} : plan' = Activated(pl, nextRun) /\ PlanStarts
    BY <1>0, <2>5 DEF ClearPending, Reset, NewPlan, Activated
  <2>6. CASE \E d : plan' = Replanned([plan EXCEPT !.pending = d], nextRun) /\ PlanStarts
    BY <1>0, <2>6 DEF Replanned
  <2>7. QED
    BY <2>1, <2>2, <2>3, <2>4, <2>5, <2>6, NextRuns DEF PlanMoved
<1>q. PlanStarts => made'[nextRun].dir = dir'
  BY <1>0, <1>s
<1>r. ASSUME NEW m \in Waiting, m.type = "ApplyRequest"
      PROVE  m.file \in Runs /\ m.file < nextRun /\ made'[m.file].dir = dir
  <2>1. m.file \in Runs /\ m.file < nextRun
    BY <1>r DEF Typed, MsgsOK, Files, Waiting
  <2>2. QED
    BY <1>1, <1>r, <2>1 DEF Homed
<1>f. /\ plan.file # 0 => made'[plan.file].dir = dir
      /\ apply.file # 0 => made'[apply.file].dir = dir
  BY <1>0, <1>1 DEF Homed, Runs
<1>a. ASSUME NEW r \in runs', r.of = "apply", r.file # 0 PROVE made'[r.file].dir = r.dir
  <2>1. CASE \E q \in runs : q.of = "apply" /\ q.file = r.file /\ q.dir = r.dir
    <3>1. PICK q \in runs : q.of = "apply" /\ q.file = r.file /\ q.dir = r.dir
      BY <2>1
    <3>2. q.file \in Runs /\ q.file < nextRun
      BY <1>a, <3>1 DEF Typed, RunsOK, Run, Runs
    <3>3. made[q.file].dir = q.dir
      BY <1>a, <3>1 DEF Homed
    <3>4. QED
      BY <1>1, <3>1, <3>2, <3>3
  <2>2. CASE Confirm /\ r.file = apply.file /\ r.dir = dir'
    BY <1>a, <1>f, <2>2 DEF Confirm, context
  <2>3. CASE (\E m \in Waiting : HandOver(m) /\ r.file = m.file) /\ r.dir = dir'
    <3>1. PICK m \in Waiting : HandOver(m) /\ r.file = m.file
      BY <2>3
    <3>2. m.type = "ApplyRequest" /\ dir' = dir
      BY <3>1 DEF HandOver, context
    <3>3. QED
      BY <1>r, <2>3, <3>1, <3>2
  <2>4. QED
    BY <1>a, <2>1, <2>2, <2>3, ApplyRuns DEF Applies
<1>2. CASE dir' = dir
  <2>1. plan'.file # 0 => made'[plan'.file].dir = dir'
    BY <1>2, <1>f, <1>p, <1>q
  <2>2. apply'.file # 0 => made'[apply'.file].dir = dir'
    <3>1. CASE apply'.file \in {apply.file, 0}
      BY <1>2, <1>f, <3>1
    <3>2. CASE \E m \in Waiting : HandOver(m) /\ apply'.file = m.file
      <4>1. PICK m \in Waiting : HandOver(m) /\ apply'.file = m.file
        BY <3>2
      <4>2. m.type = "ApplyRequest"
        BY <4>1 DEF HandOver
      <4>3. QED
        BY <1>2, <1>r, <4>1, <4>2
    <3>3. QED
      BY <3>1, <3>2, NextStages DEF StageMoved
  <2>3. ASSUME NEW m \in Waiting', m.type = "ApplyRequest" PROVE made'[m.file].dir = dir'
    <3>1. CASE m \in Waiting
      BY <1>2, <1>r, <2>3, <3>1
    <3>2. CASE m \notin Waiting
      <4>1. m.file = plan.file /\ plan.file # 0
        BY <2>3, <3>2, NextSends DEF Quiet, PlanSends, PickerSends, ReplanSends, Sends, Asking
      <4>2. QED
        BY <1>2, <1>f, <4>1
    <3>3. QED
      BY <3>1, <3>2
  <2>4. QED
    BY <1>a, <2>1, <2>2, <2>3 DEF Homed
<1>3. CASE \E m \in Waiting : m.type = "ContextSwitch" /\ SwitchContext(m) /\ apply'.file = 0
  <2>1. PICK m \in Waiting : m.type = "ContextSwitch" /\ SwitchContext(m) /\ apply'.file = 0
    BY <1>3
  <2>2. \A n \in Waiting : n.type # "ApplyRequest"
    BY <2>1 DEF Ordered, Asks
  <2>3. plan'.file # 0 => made'[plan'.file].dir = dir'
    <3>1. plan' = Reset(plan) \/ plan' = Activated(Reset(plan), nextRun)
      BY <2>1, ActivateMoves DEF SwitchContext, GoBack
    <3>2. plan'.file = 0 \/ (plan'.file = nextRun /\ PlanStarts)
      <4>1. CASE plan' = Reset(plan)
        BY <4>1 DEF Reset, NewPlan
      <4>2. CASE plan' # Reset(plan)
        <5>1. \E rs : RunPlan(rs)
          BY <2>1, <4>2, ActivateMoves DEF SwitchContext, GoBack
        <5>2. Activated(Reset(plan), nextRun).file = nextRun
          BY DEF Activated, Reset, NewPlan
        <5>3. QED
          BY <3>1, <4>2, <5>1, <5>2 DEF PlanStarts
      <4>3. QED
        BY <4>1, <4>2
    <3>3. QED
      BY <1>q, <3>2
  <2>4. ASSUME NEW n \in Waiting', n.type = "ApplyRequest" PROVE FALSE
    <3>1. n \notin Waiting
      BY <2>2, <2>4
    <3>2. ~Quiet
      BY <2>4, <3>1 DEF Quiet, Asking
    <3>3. AnyAsks
      BY <2>1 DEF AnyAsks, Asking
    <3>4. ~PlanSends /\ ~PickerSends
      BY <3>3 DEF PlanSends, PickerSends
    <3>5. ~ReplanSends
      BY <3>3 DEF ReplanSends, Ordered
    <3>6. QED
      BY <3>2, <3>4, <3>5, NextSends
  <2>5. QED
    BY <1>a, <2>1, <2>3, <2>4 DEF Homed
<1>4. QED
  BY <1>2, <1>3, NextStages DEF DirMoved

-----------------------------------------------------------------------------

\* All that keeps the requests of an attentive user in order.
Attended == Typed /\ PendingOnlyWhileReplanning /\ Ordered /\ Asked /\ ApplyWasAsked /\ Homed

\* At startup nothing has been asked.
LEMMA AttendedInit == Init => Attended
<1> SUFFICES ASSUME Init PROVE Attended
  OBVIOUS
<1>1. Waiting = {}
  BY DEF Init, Waiting, BagToSet, EmptyBag, SetToBag
<1>2. plan.pending = "no" /\ plan.file = 0 /\ apply.file = 0 /\ runs = {}
  BY DEF Init, NewPlan, NewApply
<1>3. QED
  BY <1>1, <1>2, InitTyped DEF Attended, PendingOnlyWhileReplanning, Ordered, Asks, Asked, ApplyWasAsked, Homed

\* Every step of an attentive user, terraform or Update keeps the order.
LEMMA AttendedStep ==
    ASSUME ~Hasty, Attended, [Next]_vars
    PROVE  Attended'
<1>1. CASE Next
  <2>1. Typed' /\ PendingOnlyWhileReplanning'
    BY TypedStep, PendingStep DEF Attended
  <2>2. Ordered'
    BY <1>1, OrderedStep DEF Attended
  <2>3. Asked' /\ ApplyWasAsked'
    BY <1>1, AskedStep DEF Attended
  <2>4. Homed'
    BY <1>1, HomedStep DEF Attended
  <2>5. QED
    BY <2>1, <2>2, <2>3, <2>4 DEF Attended
<1>2. CASE UNCHANGED vars
  <2>1. Typed' /\ PendingOnlyWhileReplanning'
    BY TypedStep, PendingStep DEF Attended
  <2>2. Ordered' /\ Asked'
    BY <1>2 DEF vars, Attended, Ordered, Asks, AnyAsks, Asked, Waiting
  <2>3. ApplyWasAsked' /\ Homed'
    BY <1>2 DEF vars, Attended, ApplyWasAsked, Homed, Waiting
  <2>4. QED
    BY <2>1, <2>2, <2>3 DEF Attended
<1>3. QED
  BY <1>1, <1>2

\* The requests of an attentive user are always in order.
LEMMA AlwaysAttended ==
    ASSUME ~Hasty
    PROVE  Spec => []Attended
<1>1. Attended /\ [Next]_vars => Attended'
  BY AttendedStep
<1>2. QED
  BY <1>1, AttendedInit, PTL DEF Spec

\* An attentive user pressed a, A or y for every plan file that is handed over
\* or applied: no reset, replan, error, other request or change of view in
\* between lets another file through.
THEOREM AppliesWereAsked ==
    ASSUME ~Hasty
    PROVE  Spec => []ApplyWasAsked
<1>1. Attended => ApplyWasAsked
  BY DEF Attended
<1>2. QED
  BY <1>1, AlwaysAttended, PTL

\* For an attentive user no plan file is ever applied in a directory other than
\* the one it was made in, whatever switches of directory come between planning,
\* handing over, confirming and applying.
THEOREM AppliesStayInDir ==
    ASSUME ~Hasty
    PROVE  Spec => []AppliesInItsOwnDir
<1>1. Attended => AppliesInItsOwnDir
  <2> SUFFICES ASSUME Attended, NEW r \in runs, r.of = "apply", r.file \in disk
               PROVE  made[r.file].dir = r.dir
    BY DEF AppliesInItsOwnDir
  <2>1. r.file # 0
    BY DEF Attended, Typed, Runs
  <2>2. QED
    BY <2>1 DEF Attended, Homed
<1>2. QED
  BY <1>1, AlwaysAttended, PTL

=============================================================================
