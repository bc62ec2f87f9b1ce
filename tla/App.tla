-------------------------------- MODULE App --------------------------------
(***************************************************************************)
(* internal/ui/app.go with the plan, apply, taint, forceunlock and chdir   *)
(* plugins: the TUI's Update loop.                                         *)
(*                                                                         *)
(* Update takes one message at a time.  Every message here is the end of a *)
(* tea.Cmd, which BubbleTea runs in a goroutine of its own, so messages    *)
(* arrive in any order: `msgs' is a bag.  A terraform command takes its    *)
(* time (`runs') and then sends a result; the other commands only carry a  *)
(* request or an event.  A key is handled at once.  Events on the App's    *)
(* bus reach the plugins' handlers within the same step.                   *)
(*                                                                         *)
(* The untaint and import plugins are taint with other words.  Frames that *)
(* only show things (details, filters, a running plan's log) are left out: *)
(* q closes them without touching anything here.                           *)
(***************************************************************************)
EXTENDS Naturals, Sequences, SequencesExt, Bags, BagsExt,
        PlanPlugin, ApplyPlugin, ActionRunner

CONSTANTS
    Chdirs,       \* members of the project, the directories to work in
    BootDir,      \* the directory of the bootstrap context
    Addrs,        \* resource addresses
    Commands,     \* the views the user opens from the menu or with `:'
    Hasty,        \* TRUE: keys are pressed while requests are still on their way
    MaxRuns,      \* bound on the terraform runs started
    MaxDepth,     \* bound on the length of navStack
    MaxWaiting    \* bound on the messages waiting when a key is pressed

Verbs   == {"taint", "forceunlock"}
Plugins == {"plan", "apply"} \cup Verbs        \* those that run terraform
NavPush == {"chdir"} \cup Verbs
Views   == {"home", "chdir"} \cup Plugins

ASSUME AppAssumption ==
    /\ BootDir \in Chdirs
    /\ Commands \subseteq Views \ {"home"}
    /\ Hasty \in BOOLEAN
    /\ MaxRuns \in Nat
    /\ MaxDepth \in Nat
    /\ MaxWaiting \in Nat

Runs == 1 .. MaxRuns

VARIABLES
    active,     \* activePlugin, "home" standing for nil
    navStack,   \* navStack
    prompt,     \* the verb whose confirmation has the keys, or "none"
    dir,        \* holder.current.WorkingDir
    pins,       \* holder.current.Pins
    plan,       \* the plan plugin
    apply,      \* the apply plugin
    verb,       \* the runner of each verb
    runs,       \* terraform commands running
    msgs,       \* messages on their way to Update
    disk,       \* external: the temporary plan files that exist
    nextRun,    \* history: the number of the next run
    made,       \* history: what each plan run was asked to plan
    intent,     \* history: what the user last wanted done with each plan file
    unlocked    \* history: a force-unlock has succeeded

vars == <<active, navStack, prompt, dir, pins, plan, apply, verb, runs, msgs,
          disk, nextRun, made, intent, unlocked>>

context == <<dir, pins>>
nav     == <<active, navStack>>
ghosts  == <<nextRun, made, intent, unlocked>>

-----------------------------------------------------------------------------
(* Messages *)

PlanResult(run, ok, changed, lock) ==
    [type |-> "PlanResult", run |-> run, ok |-> ok, changed |-> changed, lock |-> lock]
ApplyResult(ok)          == [type |-> "ApplyResult", ok |-> ok]
ActionResult(ok)         == [type |-> "ActionResult", ok |-> ok]
ApplyRequest(file, auto) == [type |-> "ApplyRequest", file |-> file, auto |-> auto]
PinToggle(as)            == [type |-> "PinToggle", addrs |-> as]
ContextSwitch(d)         == [type |-> "ContextSwitch", dir |-> d]
Navigate(v)              == [type |-> "Navigate", to |-> v]
RequestInput(v)          == [type |-> "RequestInput", verb |-> v]
Signal(t)                == [type |-> t]

Signals == {"PinClear", "PlanInvalidated", "LockCleared", "Deactivate",
            "TaintRequest", "UnlockStart"}

Results ==
    [type : {"PlanResult"}, run : Runs, ok : BOOLEAN, changed : SUBSET Addrs, lock : BOOLEAN]
      \cup [type : {"ApplyResult"}, ok : BOOLEAN]
      \cup [type : {"ActionResult"}, ok : BOOLEAN]

Message ==
    Results
      \cup [type : {"ApplyRequest"}, file : Nat, auto : BOOLEAN]
      \cup [type : {"PinToggle"}, addrs : SUBSET Addrs]
      \cup [type : {"ContextSwitch"}, dir : Chdirs]
      \cup [type : {"Navigate"}, to : Views]
      \cup [type : {"RequestInput"}, verb : Verbs]
      \cup [type : Signals]

Waiting == BagToSet(msgs)

Sent(S) == msgs (+) SetToBag(S)

Received(m) == BagRemove(msgs, m)

\* Mutant: a verb announces an event of its own, which no handler knows.
OnSuccessUnheard(v) ==
    IF v = "taint" THEN {Signal("StateChanged")} ELSE {Signal("LockCleared")}

\* What a verb's spec announces when its run succeeds.
OnSuccess(v) ==
    IF v = "taint" THEN {Signal("PlanInvalidated")}
                   ELSE {Signal("LockCleared"), Signal("PlanInvalidated")}

-----------------------------------------------------------------------------
(* Parts of steps *)

Busy(v) ==
    \/ v = "plan" /\ PlanBusy(plan)
    \/ v = "apply" /\ ApplyBusy(apply)
    \/ v \in Verbs /\ RunnerBusy(verb[v])

\* requireIdle
Idle == \A v \in Plugins : ~Busy(v)

\* Cancel of plugin v: its run is told to stop, and will report an error.
Cut(v, rs) == {[r EXCEPT !.cancelled = @ \/ r.of = v] : r \in rs}

\* Cancel, as it changes the plan plugin's own state.
PlanCancelled(v) == IF v = "plan" THEN ClearPending(plan) ELSE plan

\* Plugin v starts a run in the current context, the plugin's last one is cut.
Launch(v, file, rs) ==
    /\ nextRun \in Runs
    /\ nextRun' = nextRun + 1
    /\ runs' = Cut(v, rs) \cup
                 {[of |-> v, id |-> nextRun, file |-> file, dir |-> dir', cancelled |-> FALSE]}

\* runPlan: the run's number names the file allocPlanFile has just reserved.
RunPlan(rs) ==
    /\ Launch("plan", nextRun, rs)
    /\ made' = [made EXCEPT ![nextRun] = [dir |-> dir', pins |-> pins']]

NoRun(rs) == runs' = rs /\ UNCHANGED <<nextRun, made>>

\* activate(v), in a step that makes pl, rs, vb, ms of the plan plugin, the
\* runs, the runners and the messages before it.
Activate(v, pl, rs, vb, ms) ==
    \/ /\ v = "plan" /\ WantsRun(pl)
       /\ plan' = Activated(pl, nextRun)
       /\ RunPlan(rs)
       /\ verb' = vb
       /\ msgs' = ms
    \/ /\ v = "forceunlock" /\ ~RunnerBusy(vb[v])
       /\ plan' = pl
       /\ NoRun(rs)
       /\ verb' = [vb EXCEPT ![v] = ResetRunner(@)]
       /\ msgs' = ms (+) SetToBag({RequestInput(v)})
    \/ /\ ~(v = "plan" /\ WantsRun(pl))
       /\ ~(v = "forceunlock" /\ ~RunnerBusy(vb[v]))
       /\ plan' = pl
       /\ NoRun(rs)
       /\ verb' = vb
       /\ msgs' = ms

\* navigateBack, then activate.
GoBack(pl, rs, vb, ms) ==
    /\ navStack # <<>>
    /\ active' = Last(navStack)
    /\ navStack' = Front(navStack)
    /\ Activate(Last(navStack), pl, rs, vb, ms)

\* Mutant: the way back is still there from the home screen.
GoHomeKeepsStack(pl, rs, ms) ==
    /\ active' = "home"
    /\ plan' = pl
    /\ NoRun(rs)
    /\ msgs' = ms (+) SetToBag({Signal("PinClear")})
    /\ UNCHANGED <<navStack, verb>>

\* goHome: the selection of targets ends with the visit.
GoHome(pl, rs, ms) ==
    /\ active' = "home"
    /\ navStack' = <<>>
    /\ plan' = pl
    /\ NoRun(rs)
    /\ msgs' = ms (+) SetToBag({Signal("PinClear")})
    /\ UNCHANGED verb

LeaveView(pl, rs, ms) ==
    \/ GoBack(pl, rs, verb, ms)
    \/ navStack = <<>> /\ GoHome(pl, rs, ms)

Push(v) == Len(navStack) < MaxDepth /\ active' = v /\ navStack' = Append(navStack, active)

\* navigateTo, past its guard.
NavigateTo(v, ms) ==
    /\ IF v \in NavPush THEN Push(v) ELSE active' = v /\ navStack' = <<>>
    /\ Activate(v, PlanCancelled(active), Cut(active, runs), verb, ms)

\* plan.reset removes the plugin's temporary file.
CleanedUp == disk \ {plan.file}

-----------------------------------------------------------------------------
(* Keys *)

\* The user looks at the screen first, or does not.
Attentive == Hasty \/ Waiting \subseteq Results

Key == prompt = "none" /\ Attentive /\ BagCardinality(msgs) <= MaxWaiting

Open(v) ==
    /\ Key /\ Idle
    /\ UNCHANGED <<prompt, context, apply, disk, intent, unlocked>>
    /\ NavigateTo(v, msgs)

\* q clears the view's stack first ...
ClearLogs ==
    /\ Key
    /\ active = "apply" /\ Len(apply.stack) > 1
    /\ apply' = [apply EXCEPT !.stack = Cleared(@)]
    /\ UNCHANGED <<nav, prompt, context, plan, verb, runs, msgs, disk, ghosts>>

\* ... and then goes home; a busy plugin is left running.
Quit ==
    /\ Key
    /\ active # "home"
    /\ active = "apply" => Len(apply.stack) <= 1
    /\ IF Busy(active) THEN GoHome(plan, runs, msgs)
       ELSE GoHome(PlanCancelled(active), Cut(active, runs), msgs)
    /\ UNCHANGED <<prompt, context, apply, disk, intent, unlocked>>

\* A key of the active view that only sends one message.
Press(m) ==
    /\ Key
    /\ msgs' = Sent({m})
    /\ UNCHANGED <<nav, prompt, context, plan, apply, verb, runs, disk, ghosts>>

\* esc on the plan's list, running or not; a deferred apply is meant to go too.
PlanEsc ==
    /\ Key
    /\ active = "plan"
    /\ msgs' = Sent({Signal("Deactivate")})
    /\ intent' = IF plan.pending = "no" THEN intent
                 ELSE [intent EXCEPT ![plan.file] = "withdrawn"]
    /\ UNCHANGED <<nav, prompt, context, plan, apply, verb, runs, disk, nextRun, made, unlocked>>

\* a, A: hands over the plan file ...
AskApply(auto) ==
    /\ Key
    /\ active = "plan" /\ CanApply(plan) /\ Fresh(plan)
    /\ msgs' = Sent({ApplyRequest(plan.file, auto)})
    /\ intent' = [intent EXCEPT ![plan.file] = "asked"]
    /\ UNCHANGED <<nav, prompt, context, plan, apply, verb, runs, disk, nextRun, made, unlocked>>

\* ... or plans again first, and leaves the apply for later.
ReplanAndApply(auto) ==
    /\ Key
    /\ active = "plan" /\ CanApply(plan) /\ ~Fresh(plan)
    /\ UNCHANGED <<nav, prompt, context, apply, verb, msgs, disk, unlocked>>
    /\ plan' = Replanned([plan EXCEPT !.pending = IF auto THEN "auto" ELSE "ask"], nextRun)
    /\ RunPlan(runs)
    /\ intent' = [intent EXCEPT ![nextRun] = "asked"]

\* ctrl+r on the plan's list.
Refresh ==
    /\ Key
    /\ active = "plan" /\ plan.status \in {"error", "done"}
    /\ UNCHANGED <<nav, prompt, context, apply, verb, msgs, disk, intent, unlocked>>
    /\ plan' = Replanned(ClearPending(plan), nextRun)
    /\ RunPlan(runs)

PlanKey ==
    /\ active = "plan"
    /\ \/ plan.changes /\ \E a \in Addrs : Press(PinToggle({a}))
       \/ Press(Signal("PinClear"))
       \/ CanApply(plan) /\ Press(Signal("TaintRequest"))
       \/ CanApply(plan) /\ Press(Signal("PlanInvalidated"))    \* e: the file was edited
       \/ plan.status = "error" /\ plan.locked /\ Press(Navigate("forceunlock"))

\* enter on the idle apply view: asks for confirmation, staged file or not.
EnterApply ==
    /\ Key
    /\ active = "apply" /\ apply.stack = <<>> /\ apply.status = "idle"
    /\ apply' = RequestApply(apply)
    /\ UNCHANGED <<nav, prompt, context, plan, verb, runs, msgs, disk, ghosts>>

\* y on the confirmation, or ctrl+r after an error.
Confirm ==
    /\ Key
    /\ active = "apply" /\ apply.stack = <<>> /\ apply.status \in {"confirming", "error"}
    /\ UNCHANGED <<nav, prompt, context, plan, verb, msgs, disk, made, unlocked>>
    /\ apply' = Applying(apply, nextRun)
    /\ Launch("apply", apply.file, runs)
    /\ intent' = IF apply.file = 0 THEN intent
                 ELSE [intent EXCEPT ![apply.file] = "asked"]

\* n on the confirmation.
Decline ==
    /\ Key
    /\ active = "apply" /\ apply.stack = <<>> /\ apply.status = "confirming"
    /\ apply' = Abort(apply)
    /\ msgs' = Sent({Signal("Deactivate")})
    /\ UNCHANGED <<nav, prompt, context, plan, verb, runs, disk, ghosts>>

ApplyKey ==
    /\ active = "apply" /\ apply.stack = <<>>
    /\ \/ apply.status = "done" /\ Press(Navigate("plan"))
       \/ apply.status \in {"done", "error"} /\ Press(Signal("Deactivate"))

\* l: the last log is shown again ...
OpenLog ==
    /\ Key
    /\ active = "apply" /\ apply.stack = <<>> /\ apply.last # 0
    /\ apply.status \in {"confirming", "done", "error"}
    /\ apply' = ShowLog(apply)
    /\ UNCHANGED <<nav, prompt, context, plan, verb, runs, msgs, disk, ghosts>>

\* ... and esc, once its output has ended, takes it off.  If that empties the
\* stack, the App leaves the view.
CloseLog ==
    /\ Key
    /\ active = "apply" /\ apply.stack # <<>>
    /\ \A r \in runs : r.id # Last(apply.stack)
    /\ apply' = [apply EXCEPT !.stack = Front(@)]
    /\ UNCHANGED context
    /\ IF apply'.stack = <<>> THEN LeaveView(plan, runs, msgs)
       ELSE UNCHANGED <<nav, plan, verb, runs, msgs, nextRun, made>>
    /\ UNCHANGED <<prompt, disk, intent, unlocked>>

\* chdir: enter picks a member, esc empties the view's stack.
PickMember == active = "chdir" /\ \E d \in Chdirs : Press(ContextSwitch(d))

LeaveChdir ==
    /\ Key
    /\ active = "chdir"
    /\ UNCHANGED context
    /\ LeaveView(plan, runs, msgs)
    /\ UNCHANGED <<prompt, apply, disk, intent, unlocked>>

\* StandardKeys of taint, handleKey of forceunlock.
VerbKey ==
    \/ /\ active = "taint"
       /\ \/ verb["taint"].status # "loading" /\ Press(Signal("Deactivate"))
          \/ verb["taint"] = [status |-> "done", armed |-> TRUE] /\ Press(Navigate("plan"))
    \/ active = "forceunlock" /\ Press(Signal("Deactivate"))

\* ctrl+r after an error: taint starts again, forceunlock asks again.  (Without a
\* spec, Start calls a nil function; that start is a run of nothing here.)
RetryTaint ==
    /\ Key
    /\ active = "taint" /\ verb["taint"].status = "error"
    /\ UNCHANGED <<nav, prompt, context, plan, apply, msgs, disk, made, intent, unlocked>>
    /\ verb' = [verb EXCEPT !["taint"] = Started(@)]
    /\ Launch("taint", 0, runs)

RetryUnlock ==
    /\ Key
    /\ active = "forceunlock" /\ verb["forceunlock"].status = "error"
    /\ verb' = [verb EXCEPT !["forceunlock"] = ResetRunner(@)]
    /\ msgs' = Sent({RequestInput("forceunlock")})
    /\ UNCHANGED <<nav, prompt, context, plan, apply, runs, disk, ghosts>>

\* y on a prompt: taint starts, forceunlock sends its start message.
AnswerYes ==
    /\ Attentive
    /\ prompt # "none"
    /\ prompt' = "none"
    /\ UNCHANGED <<nav, context, plan, apply, disk, made, intent, unlocked>>
    /\ \/ /\ prompt = "taint"
          /\ verb' = [verb EXCEPT !["taint"] = Started(@)]
          /\ Launch("taint", 0, runs)
          /\ UNCHANGED msgs
       \/ /\ prompt = "forceunlock"
          /\ msgs' = Sent({Signal("UnlockStart")})
          /\ UNCHANGED <<verb, runs, nextRun>>

AnswerNo ==
    /\ Attentive
    /\ prompt # "none"
    /\ prompt' = "none"
    /\ UNCHANGED <<nav, context, plan, apply, verb, runs, msgs, disk, ghosts>>

-----------------------------------------------------------------------------
(* terraform, external *)

\* A plan run ends.  It fails if it was cut; a failed one may have left its file.
PlanEnds(r) ==
    /\ r.of = "plan"
    /\ runs' = runs \ {r}
    /\ \/ /\ ~r.cancelled
          /\ disk' = disk \cup {r.id}
          /\ \E changed \in SUBSET Addrs :
               msgs' = Sent({PlanResult(r.id, TRUE, changed, FALSE)})
       \/ /\ disk' \in {disk, disk \cup {r.id}}
          /\ \E lock \in BOOLEAN : msgs' = Sent({PlanResult(r.id, FALSE, {}, lock)})
    /\ UNCHANGED <<nav, prompt, context, plan, apply, verb, ghosts>>

\* An apply run ends; it cannot succeed without the file it was given.
ApplyEnds(r) ==
    /\ r.of = "apply"
    /\ runs' = runs \ {r}
    /\ \E ok \in BOOLEAN :
         /\ ok => ~r.cancelled /\ r.file \in disk \cup {0}
         /\ msgs' = Sent({ApplyResult(ok)})
    /\ UNCHANGED <<nav, prompt, context, plan, apply, verb, disk, ghosts>>

ActionEnds(r) ==
    /\ r.of \in Verbs
    /\ runs' = runs \ {r}
    /\ \E ok \in BOOLEAN :
         /\ ok => ~r.cancelled
         /\ msgs' = Sent({ActionResult(ok)})
         /\ unlocked' = (unlocked \/ (ok /\ r.of = "forceunlock"))
    /\ UNCHANGED <<nav, prompt, context, plan, apply, verb, disk, nextRun, made, intent>>

-----------------------------------------------------------------------------
(* Messages received *)

PlanFails(m) ==
    /\ m.type = "PlanResult" /\ ~m.ok
    /\ plan' = Failed(plan, m.lock)
    /\ msgs' = Received(m)
    /\ UNCHANGED <<nav, prompt, context, apply, verb, runs, disk, ghosts>>

\* The requests a successful plan sends: to unpin what it does not change, and
\* to apply, if that was deferred to it, the file that is now the latest.
PlanSucceeds(m) ==
    /\ m.type = "PlanResult" /\ m.ok
    /\ plan' = Completed(plan, m.run, m.changed # {})
    /\ msgs' = Received(m)
                 (+) SetToBag(IF pins \subseteq m.changed THEN {}
                              ELSE {PinToggle(pins \ m.changed)})
                 (+) SetToBag(IF ApplyDue(plan, m.changed # {})
                              THEN {ApplyRequest(plan.file, plan.pending = "auto")} ELSE {})
    /\ UNCHANGED <<nav, prompt, context, apply, verb, runs, disk, ghosts>>

ApplyReturns(m) ==
    /\ m.type = "ApplyResult"
    /\ apply' = Applied(apply, m.ok)
    /\ msgs' = Received(m)
                 (+) SetToBag({Signal("PinClear")})
                 (+) SetToBag(IF m.ok THEN {Signal("PlanInvalidated")} ELSE {})
    /\ UNCHANGED <<nav, prompt, context, plan, verb, runs, disk, ghosts>>

\* Results are broadcast: every runner takes this one, and announces its own
\* success.
ActionReturns(m) ==
    /\ m.type = "ActionResult"
    /\ verb' = [v \in Verbs |-> Reported(verb[v], m.ok)]
    /\ msgs' = Received(m)
                 (+) SetToBag(IF m.ok /\ verb["taint"].armed
                              THEN OnSuccess("taint") ELSE {})
                 (+) SetToBag(IF m.ok /\ verb["forceunlock"].armed
                              THEN OnSuccess("forceunlock") ELSE {})
    /\ UNCHANGED <<nav, prompt, context, plan, apply, runs, disk, ghosts>>

\* A request the guard refuses.
Refused(m) ==
    /\ m.type \in {"PinToggle", "PinClear", "ContextSwitch", "Navigate"}
    /\ ~Idle
    /\ msgs' = Received(m)
    /\ UNCHANGED <<nav, prompt, context, plan, apply, verb, runs, disk, ghosts>>

\* replaceContext with other pins: plan and the verbs react, apply does not.
ReplacePins(ps) ==
    /\ pins' = ps
    /\ plan' = PinsChanged(plan)
    /\ verb' = [v \in Verbs |-> ResetRunner(verb[v])]
    /\ UNCHANGED <<nav, prompt, dir, apply, runs, disk, ghosts>>

TogglePins(m) ==
    /\ m.type = "PinToggle" /\ Idle
    /\ ReplacePins(IF m.addrs \subseteq pins THEN pins \ m.addrs ELSE pins \cup m.addrs)
    /\ msgs' = Received(m)

ClearPins(m) ==
    /\ m.type = "PinClear" /\ Idle
    /\ IF pins = {} THEN UNCHANGED <<nav, prompt, context, plan, apply, verb, runs, disk, ghosts>>
                    ELSE ReplacePins({})
    /\ msgs' = Received(m)

\* A new context without pins; the picker, if it is still there, is left.
SwitchContext(m) ==
    /\ m.type = "ContextSwitch" /\ Idle
    /\ dir' = m.dir
    /\ pins' = {}
    /\ apply' = Switched(apply)
    /\ disk' = CleanedUp
    /\ LET vb == [v \in Verbs |-> ResetRunner(verb[v])] IN
         \/ active \in NavPush /\ GoBack(Reset(plan), runs, vb, Received(m))
         \/ /\ active \notin NavPush \/ navStack = <<>>
            /\ active' = IF active \in NavPush THEN "home" ELSE active
            /\ plan' = Reset(plan)
            /\ NoRun(runs)
            /\ verb' = vb
            /\ msgs' = Received(m)
            /\ UNCHANGED navStack
    /\ UNCHANGED <<prompt, intent, unlocked>>

InvalidatePlan(m) ==
    /\ m.type = "PlanInvalidated"
    /\ plan' = PlanInvalidated(plan)
    /\ disk' = IF plan.status = "done" THEN disk ELSE CleanedUp
    /\ msgs' = Received(m)
    /\ UNCHANGED <<nav, prompt, context, apply, verb, runs, ghosts>>

ClearLock(m) ==
    /\ m.type = "LockCleared"
    /\ plan' = Reset(plan)
    /\ disk' = CleanedUp
    /\ msgs' = Received(m)
    /\ UNCHANGED <<nav, prompt, context, apply, verb, runs, ghosts>>

FollowLink(m) ==
    /\ m.type = "Navigate" /\ Idle
    /\ UNCHANGED context
    /\ NavigateTo(m.to, Received(m))
    /\ UNCHANGED <<prompt, apply, disk, intent, unlocked>>

Deactivate(m) ==
    /\ m.type = "Deactivate"
    /\ UNCHANGED context
    /\ IF active = "home"
       THEN /\ msgs' = Received(m)
            /\ UNCHANGED <<nav, plan, verb, runs, nextRun, made>>
       ELSE LeaveView(PlanCancelled(active), Cut(active, runs), Received(m))
    /\ UNCHANGED <<prompt, apply, disk, intent, unlocked>>

ShowPrompt(m) ==
    /\ m.type = "RequestInput"
    /\ prompt' = m.verb
    /\ msgs' = Received(m)
    /\ UNCHANGED <<nav, context, plan, apply, verb, runs, disk, ghosts>>

\* TaintRequestMsg: pushed over whatever is active, busy or not.
RequestTaint(m) ==
    /\ m.type = "TaintRequest"
    /\ Push("taint")
    /\ IF RunnerBusy(verb["taint"])
       THEN UNCHANGED verb /\ msgs' = Received(m)
       ELSE /\ verb' = [verb EXCEPT !["taint"] = Arm(@)]
            /\ msgs' = Received(m) (+) SetToBag({RequestInput("taint")})
    /\ UNCHANGED <<prompt, context, plan, apply, runs, disk, ghosts>>

StartUnlock(m) ==
    /\ m.type = "UnlockStart"
    /\ UNCHANGED <<nav, prompt, context, plan, apply, disk, made, intent, unlocked>>
    /\ verb' = [verb EXCEPT !["forceunlock"] = Started(Arm(@))]
    /\ Launch("forceunlock", 0, runs)
    /\ msgs' = Received(m)

\* ApplyRequestMsg: likewise; the file is staged, and applied or asked about.
HandOver(m) ==
    /\ m.type = "ApplyRequest"
    /\ Push("apply")
    /\ UNCHANGED context
    /\ msgs' = Received(m)
    /\ \/ /\ m.auto
          /\ apply' = Applying(SetPlanFile(apply, m.file), nextRun)
          /\ Launch("apply", m.file, runs)
          /\ UNCHANGED made
       \/ /\ ~m.auto
          /\ apply' = RequestApply(SetPlanFile(apply, m.file))
          /\ NoRun(runs)
    /\ UNCHANGED <<prompt, plan, verb, disk, intent, unlocked>>

-----------------------------------------------------------------------------

User ==
    \/ \E v \in Commands : Open(v)
    \/ ClearLogs \/ Quit
    \/ PlanEsc \/ PlanKey \/ Refresh
    \/ \E auto \in BOOLEAN : AskApply(auto) \/ ReplanAndApply(auto)
    \/ EnterApply \/ Confirm \/ Decline \/ ApplyKey \/ OpenLog \/ CloseLog
    \/ PickMember \/ LeaveChdir
    \/ VerbKey \/ RetryTaint \/ RetryUnlock
    \/ AnswerYes \/ AnswerNo

Terraform == \E r \in runs : PlanEnds(r) \/ ApplyEnds(r) \/ ActionEnds(r)

Update(m) ==
    \/ PlanFails(m) \/ PlanSucceeds(m) \/ ApplyReturns(m) \/ ActionReturns(m)
    \/ Refused(m) \/ TogglePins(m) \/ ClearPins(m) \/ SwitchContext(m)
    \/ InvalidatePlan(m) \/ ClearLock(m) \/ FollowLink(m) \/ Deactivate(m)
    \/ ShowPrompt(m) \/ RequestTaint(m) \/ StartUnlock(m) \/ HandOver(m)

\* Startup opens the chdir picker over the home screen.
Init ==
    /\ active = "chdir" /\ navStack = <<"home">> /\ prompt = "none"
    /\ dir = BootDir /\ pins = {}
    /\ plan = NewPlan /\ apply = NewApply /\ verb = [v \in Verbs |-> NewRunner]
    /\ runs = {} /\ msgs = EmptyBag /\ disk = {}
    /\ nextRun = 1
    /\ made = [n \in Runs |-> [dir |-> BootDir, pins |-> {}]]
    /\ intent = [n \in Runs |-> "none"]
    /\ unlocked = FALSE

Next == User \/ Terraform \/ \E m \in Waiting : Update(m)

Spec == Init /\ [][Next]_vars

\* BubbleTea runs each command in its own goroutine and hands its message to
\* Update; every terraform command ends.  Nothing is assumed of the user.
FairSpec ==
    /\ Spec
    /\ WF_vars(\E r \in runs : PlanEnds(r))
    /\ WF_vars(\E r \in runs : ApplyEnds(r))
    /\ WF_vars(\E r \in runs : ActionEnds(r))
    /\ WF_vars(\E m \in Waiting : PlanFails(m) \/ PlanSucceeds(m))
    /\ WF_vars(\E m \in Waiting : ApplyReturns(m))
    /\ WF_vars(\E m \in Waiting : ActionReturns(m))

-----------------------------------------------------------------------------
(* Properties *)

Run == [of : Plugins, id : Runs, file : 0 .. MaxRuns, dir : Chdirs, cancelled : BOOLEAN]

TypeOK ==
    /\ active \in Views
    /\ navStack \in Seq(Views)
    /\ prompt \in Verbs \cup {"none"}
    /\ dir \in Chdirs
    /\ pins \subseteq Addrs
    /\ plan \in PlanState
    /\ apply \in ApplyState
    /\ verb \in [Verbs -> RunnerState]
    /\ runs \subseteq Run
    /\ IsABag(msgs) /\ Waiting \subseteq Message
    /\ disk \subseteq Runs
    /\ nextRun \in 1 .. MaxRuns + 1
    /\ made \in [Runs -> [dir : Chdirs, pins : SUBSET Addrs]]
    /\ intent \in [Runs -> {"none", "asked", "withdrawn"}]
    /\ unlocked \in BOOLEAN

\* requireIdle refuses almost everything while a plugin is busy, so a plugin
\* must not stay busy with nothing left to end it: a busy plugin has a run that
\* has not ended or a result that has not arrived.  (Runners take each other's
\* results.)
BusyHasRun ==
    /\ PlanBusy(plan) =>
         \/ \E r \in runs : r.of = "plan"
         \/ \E m \in Waiting : m.type = "PlanResult"
    /\ ApplyBusy(apply) =>
         \/ \E r \in runs : r.of = "apply"
         \/ \E m \in Waiting : m.type = "ApplyResult"
    /\ (\E v \in Verbs : RunnerBusy(verb[v])) =>
         \/ \E r \in runs : r.of \in Verbs
         \/ \E m \in Waiting : m.type = "ActionResult"

\* plan.go: a deferred apply must never fire later.  It is dropped with the
\* replan it waits for, however that ends.
PendingOnlyWhileReplanning == plan.pending # "no" => PlanBusy(plan)

\* A plan file is handed over and applied only after the user pressed a, A or y
\* for that very file: no reset, replan, error or navigation in between lets
\* another through.
ApplyWasAsked ==
    /\ \A r \in runs : r.of = "apply" /\ r.file # 0 => intent[r.file] # "none"
    /\ \A m \in Waiting : m.type = "ApplyRequest" => intent[m.file] # "none"

\* apply.go, HandleContextChanged: a switch of directory drops the staged plan
\* file.  A plan file made in one directory is never applied in another.
AppliesInItsOwnDir ==
    \A r \in runs :
        r.of = "apply" /\ r.file \in disk => made[r.file].dir = r.dir

\* The home screen is the root: nothing is left to go back to from it, and no
\* way back leads through it to something else.
HomeIsRoot ==
    /\ active = "home" => navStack = <<>>
    /\ \A i \in 2 .. Len(navStack) : navStack[i] # "home"

\* Whatever the user and the other plugins do meanwhile, no plugin stays busy
\* for ever, so requireIdle lets commands through again.
BusyEnds == \A v \in Plugins : Busy(v) ~> ~Busy(v)

-----------------------------------------------------------------------------
(* What the documentation or a comment says and the code does not do; each is *)
(* checked by a run of its own, which finds it violated.                      *)

\* The runs a step starts.
Starting == {r \in runs' : r.id = nextRun}

\* app.go: a busy guard refuses a context switch, lest it "strand the running
\* command pointing at the old context".  So a run nobody has cancelled is one
\* of the current directory.
NoStrandedRun == \A r \in runs : r.cancelled \/ r.dir = dir

\* plan.go, clearPendingApply: a replan the user cancelled (esc) never fires
\* its deferred apply.
WithdrawnApplyNeverRuns ==
    \A r \in runs : r.of = "apply" /\ r.file # 0 => intent[r.file] # "withdrawn"

\* CONTEXT.md: the plan file matches the user's current intent, pins included.
AppliedFileMatchesPins ==
    [][ \A r \in Starting :
          r.of = "apply" /\ r.file # 0 => made[r.file].pins = pins ]_vars

\* ADR-0020: a failed apply leaves the plan file alive and the user can retry.
\* So while the file the user asked to apply is there, a retry applies it, not
\* whatever terraform would plan now.
RetryUsesThePlanFile ==
    [][ \A r \in Starting :
          /\ r.of = "apply" /\ apply.status = "error"
          /\ plan.file \in disk /\ intent[plan.file] = "asked"
          => r.file # 0 ]_vars

\* app.go: of the results broadcast to all plugins each handles only its own
\* types.  So no lock is announced cleared before a force-unlock has succeeded.
UnlockIsReal == Signal("LockCleared") \in Waiting => unlocked
=============================================================================
