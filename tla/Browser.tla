------------------------------ MODULE Browser ------------------------------
(***************************************************************************)
(* The state browser and the workspace view under internal/ui/app.go, over *)
(* the terraform they run: what is selected and stored in each directory,  *)
(* what the service of the current Context has cached, and the commands    *)
(* that are running or wait for the directory's mutex.                     *)
(*                                                                         *)
(* A command runs terraform in one step, since the mutex keeps others out  *)
(* of the directory meanwhile (ExecService), and sends its result.  Results*)
(* are handled in any order.  Keys are pressed when no message waits, but  *)
(* while any number of commands run.  The views that are not modelled here *)
(* count as "home"; what they announce reaches the browser from there.     *)
(***************************************************************************)
EXTENDS Naturals, FiniteSets, StateView, WorkspaceView

CONSTANTS
    Chdirs,       \* members of the project
    BootDir,      \* the one the program was started in
    MaxOps,       \* bound: no key is pressed after so many commands
    MaxSwitches   \* bound on the switches of context the user asks for

ASSUME BrowserAssumption ==
    BootDir \in Chdirs /\ MaxOps \in Nat /\ MaxSwitches \in Nat

VARIABLES
    active,    \* activePlugin
    navStack,  \* navStack
    ctx,       \* holder.current: directory, workspace and the number of its service
    pins,      \* holder.current.Pins
    prompt,    \* the input request that has the keys
    st,        \* the state browser
    wv,        \* the workspace view
    ops,       \* commands started and not over
    msgs,      \* messages on their way to Update
    exists,    \* external: the workspaces of each directory
    selected,  \* external: the one terraform works in
    store,     \* external: the addresses in each workspace's state
    cache,     \* what each service has cached of the state
    nextOp,    \* history: the number of the next command
    origin,    \* history: where the list in the browser was read, {} when it
               \* comes from a load that had been cancelled
    confirmed, \* history: what the user agreed to remove, and where
    unclean    \* history: a removal or move failed after terraform wrote, or
               \* ended when its service was not the Context's any more

vars == <<active, navStack, ctx, pins, prompt, st, wv, ops, msgs, exists,
          selected, store, cache, nextOp, origin, confirmed, unclean>>

terraform == <<exists, selected, store, cache>>
nav       == <<active, navStack>>
context   == <<ctx, pins>>
ghosts    == <<origin, confirmed, unclean>>

Services == 0 .. MaxSwitches
Place    == [dir : Chdirs, ws : Workspaces]
Snapshot == [ws : Workspaces, addrs : SUBSET Addrs]

Reading   == {"list", "detail"}
Mutations == {"rm", "mv"}
OfState   == Reading \cup Mutations
OfWorkspace == {"wlist", "wselect", "wnew", "wdelete"}

Command ==
    [id : Nat, what : OfState \cup OfWorkspace, dir : Chdirs, svc : Services,
     addrs : SUBSET Addrs, todo : SUBSET Addrs, ws : SUBSET Workspaces,
     flag : BOOLEAN, cut : BOOLEAN]

\* What a prompt asks for: a removal, the new name of a resource, a move, or
\* the name of a new workspace.
Asks    == {"none", "rm", "mvTo", "mv", "wnew"}
Prompts ==
    [what : Asks, from : SUBSET Addrs, to : SUBSET Addrs, dir : Chdirs, svc : Services]

\* The callback keeps the service of the moment.
Ask(what, as) == [what |-> what, from |-> as, to |-> {}, dir |-> ctx.dir, svc |-> ctx.svc]

NoPrompt == [what |-> "none", from |-> {}, to |-> {}, dir |-> BootDir, svc |-> 0]

Result(o, ok)     == [type |-> "Result", op |-> o, ok |-> ok, now |-> {}]
Request(p)        == [type |-> "RequestInput", ask |-> p]
PinToggle(as)     == [type |-> "PinToggle", addrs |-> as]
SwitchTo(d, w, i) == [type |-> "ContextSwitch", dir |-> d, ws |-> w, id |-> i]
Signal(t)         == [type |-> t]

Message ==
    [type : {"Result"}, op : Command, ok : BOOLEAN, now : SUBSET Workspaces]
      \cup [type : {"RequestInput"}, ask : Prompts]
      \cup [type : {"PinToggle"}, addrs : SUBSET Addrs]
      \cup [type : {"ContextSwitch"}, dir : Chdirs, ws : Workspaces, id : Nat]
      \cup [type : {"Deactivate", "PinClear", "PlanInvalidated"}]

-----------------------------------------------------------------------------
(* Parts of steps *)

Key == msgs = {} /\ prompt = NoPrompt /\ nextOp <= MaxOps

KeyIn(view) == Key /\ active = view

\* requireIdle: the workspace view does not count.
Idle == ~StateBusy(st)

View(o) == IF o.what \in OfState THEN "state" ELSE "workspace"

\* Cancel of view v: its command is told to stop.
Cut(v, os) == {[o EXCEPT !.cut = @ \/ View(o) = v] : o \in os}

\* A command under Context c.
Cmd(c, what, as, ws, flag) ==
    [id |-> nextOp, what |-> what, dir |-> c.dir, svc |-> c.svc,
     addrs |-> as, todo |-> as, ws |-> ws, flag |-> flag, cut |-> FALSE]

\* A view starts a command in place of its last one.
Launch(o, os) == ops' = Cut(View(o), os) \cup {o} /\ nextOp' = nextOp + 1

NoLaunch(os) == ops' = os /\ UNCHANGED nextOp

LoadState(c, skip, os) == Launch(Cmd(c, "list", {}, {}, skip), os)
LoadWorkspaces(c, os)  == Launch(Cmd(c, "wlist", {}, {}, FALSE), os)

\* activate(v) in a step that makes s of the browser, w of the workspace view
\* and c of the Context.
Activate(v, c, s, w, os) ==
    \/ /\ v = "state" /\ WantsList(s)
       /\ st' = Loading(s) /\ wv' = w
       /\ LoadState(c, FALSE, os)
    \/ /\ v = "workspace" /\ WantsWorkspaces(w)
       /\ st' = s /\ wv' = WorkspacesLoading(w)
       /\ LoadWorkspaces(c, os)
    \/ /\ ~(v = "state" /\ WantsList(s)) /\ ~(v = "workspace" /\ WantsWorkspaces(w))
       /\ st' = s /\ wv' = w
       /\ NoLaunch(os)

\* navigateBack, then activate.
GoBack(c, s, w, os) ==
    /\ navStack # <<>>
    /\ active' = Last(navStack) /\ navStack' = Front(navStack)
    /\ Activate(Last(navStack), c, s, w, os)

GoHome(os, ms) ==
    /\ active' = "home" /\ navStack' = <<>>
    /\ msgs' = ms \cup {Signal("PinClear")}
    /\ NoLaunch(os)
    /\ UNCHANGED <<st, wv>>

\* navigateTo: workspace and chdir come on top of the view they are called from.
Navigate(v) ==
    /\ Key /\ Idle
    /\ active' = v
    /\ navStack' = IF v \in {"workspace", "chdir"} THEN Append(navStack, active) ELSE <<>>
    /\ Len(navStack') <= 2
    /\ Activate(v, ctx, st, wv, Cut(active, ops))
    /\ UNCHANGED <<context, prompt, msgs, terraform, ghosts>>

-----------------------------------------------------------------------------
(* Keys of the state browser *)

\* A key that only changes the browser.
StateKey(s) ==
    /\ st' = s
    /\ UNCHANGED <<nav, context, prompt, wv, ops, msgs, terraform, nextOp, ghosts>>

\* A key that sends one message.
StateSends(s, m) ==
    /\ st' = s
    /\ msgs' = {m}
    /\ UNCHANGED <<nav, context, prompt, wv, ops, terraform, nextOp, ghosts>>

Browsing == KeyIn("state") /\ OnTop(st) \in {"list", "filter"}
OnList   == KeyIn("state") /\ OnTop(st) = "list"

Inspect ==
    /\ Browsing
    /\ st.status # "loading"
    /\ \E a \in st.shown : Launch(Cmd(ctx, "detail", {a}, {}, FALSE), ops)
    /\ st' = Inspecting(st)
    /\ UNCHANGED <<nav, context, prompt, wv, msgs, terraform, ghosts>>

OpenFilter == OnList /\ StateKey(FilterOpened(st))

TypeFilter ==
    /\ KeyIn("state") /\ OnTop(st) = "filter"
    /\ \E q \in BOOLEAN : StateKey(SetFilter(st, q, pins))

ToggleTree       == Browsing /\ StateKey(SetFilter(st, st.filter, pins))
TogglePinnedOnly == Browsing /\ StateKey(SetFilter([st EXCEPT !.pinnedOnly = ~@], st.filter, pins))

ClearAllPins ==
    /\ OnList
    /\ StateSends(PinsRead([st EXCEPT !.pinnedOnly = FALSE], pins), Signal("PinClear"))

\* A row of the tree stands for every resource beneath it.
TogglePins ==
    \/ Browsing /\ \E as \in (SUBSET st.shown) \ {{}} : StateSends(st, PinToggle(as))
    \/ KeyIn("state") /\ OnTop(st) = "inspect" /\ StateSends(st, PinToggle(st.detail))

RefreshKey ==
    /\ OnList
    /\ st.status \in {"error", "done"}
    /\ st' = Refreshed(st)
    /\ LoadState(ctx, TRUE, ops)
    /\ UNCHANGED <<nav, context, prompt, wv, msgs, terraform, ghosts>>

\* What the keys of a list act on, one row, and of a detail.
Aimed == IF OnTop(st) = "list" THEN {{a} : a \in st.shown} ELSE {st.detail}

RequestDelete ==
    /\ KeyIn("state") /\ OnTop(st) \in {"list", "inspect"}
    /\ \E as \in Aimed : StateSends(st, Request(Ask("rm", as)))

RequestMove ==
    /\ KeyIn("state") /\ OnTop(st) \in {"list", "inspect"}
    /\ \E as \in Aimed : StateSends(st, Request(Ask("mvTo", as)))

\* requestEdit: the file has been changed when the editor closes.
Edit ==
    /\ KeyIn("state") /\ OnTop(st) \in {"list", "inspect"} /\ Aimed # {}
    /\ StateSends(st, Signal("PlanInvalidated"))

OpenPalette == OnList /\ \E as \in ActionTargets(st, pins) : StateKey(PaletteOpened(st, as))

\* buildActionFrame: a move is of one resource only.
PickAction ==
    /\ KeyIn("state") /\ OnTop(st) = "actions"
    /\ \E a \in st.targets :
         \/ StateKey(PaletteClosed(st))
         \/ StateSends(PaletteClosed(st), Request(Ask("rm", st.targets)))
         \/ /\ st.targets = {a}
            /\ StateSends(PaletteClosed(st), Request(Ask("mvTo", {a})))

CloseFrame ==
    /\ KeyIn("state")
    /\ \/ OnTop(st) = "filter" /\ StateKey(FilterClosed(st))
       \/ OnTop(st) = "inspect" /\ StateKey(DetailClosed(st))

\* esc on a root frame.
Leave ==
    /\ OnList \/ (KeyIn("workspace") /\ wv.confirm = {})
    /\ StateSends(st, Signal("Deactivate"))

\* q: the frames above the root, then the view.  A busy view is not cancelled.
Quit ==
    /\ Key /\ active # "home"
    /\ \/ /\ active = "state" /\ Len(st.frames) > 1
          /\ StateKey(ClearFrames(st))
       \/ /\ ~(active = "state" /\ Len(st.frames) > 1)
          /\ ~(active = "workspace" /\ wv.confirm # {})
          /\ GoHome(IF active = "state" /\ StateBusy(st) THEN ops ELSE Cut(active, ops), msgs)
          /\ UNCHANGED <<context, prompt, terraform, ghosts>>

-----------------------------------------------------------------------------
(* Answers to prompts *)

Answer == msgs = {} /\ prompt # NoPrompt

Decline ==
    /\ Answer
    /\ prompt' = NoPrompt
    /\ UNCHANGED <<nav, context, st, wv, ops, msgs, terraform, nextOp, ghosts>>

\* The text of mvTo, then its confirmation.
EnterName ==
    /\ Answer /\ prompt.what = "mvTo"
    /\ prompt' = NoPrompt
    /\ \E to \in Addrs :
         msgs' = IF {to} = prompt.from THEN {} ELSE {Request([prompt EXCEPT !.what = "mv", !.to = {to}])}
    /\ UNCHANGED <<nav, context, st, wv, ops, terraform, nextOp, ghosts>>

\* Mutant: the targets are the pins there are when the user answers.
AgreedNow == IF pins = {} THEN prompt.from ELSE pins

\* What the command that was confirmed removes from the state.
Agreed == prompt.from

Confirm ==
    /\ Answer /\ prompt.what \in Mutations
    /\ prompt' = NoPrompt
    /\ st' = [st EXCEPT !.mutating = TRUE]
    /\ Launch([Cmd(prompt, prompt.what, prompt.to, {}, FALSE) EXCEPT !.todo = Agreed], ops)
    /\ confirmed' = confirmed \cup ({ctx.dir} \X prompt.from)
    /\ UNCHANGED <<nav, context, wv, msgs, terraform, origin, unclean>>

\* startCreate
CreateWorkspace ==
    /\ Answer /\ prompt.what = "wnew"
    /\ prompt' = NoPrompt
    /\ wv' = WorkspacesLoading(wv)
    /\ \E w \in Workspaces : Launch(Cmd(ctx, "wnew", {}, {w}, FALSE), ops)
    /\ UNCHANGED <<nav, context, st, msgs, terraform, ghosts>>

-----------------------------------------------------------------------------
(* Keys of the workspace view and of the chdir picker *)

InWorkspaces == KeyIn("workspace") /\ wv.confirm = {}

MaySwitch ==
    ctx.svc + Cardinality({o \in ops : o.what \in {"wselect", "wnew"}}) < MaxSwitches

\* enter leaves the view, s stays in it.
SelectWorkspace ==
    /\ InWorkspaces /\ MaySwitch
    /\ wv.status = "done"
    /\ wv' = WorkspacesLoading(wv)
    /\ \E w \in Selectable(wv), back \in BOOLEAN : Launch(Cmd(ctx, "wselect", {}, {w}, back), ops)
    /\ UNCHANGED <<nav, context, prompt, st, msgs, terraform, ghosts>>

NewWorkspace ==
    /\ InWorkspaces /\ MaySwitch
    /\ wv.status = "done"
    /\ StateSends(st, Request(Ask("wnew", {})))

AskDelete ==
    /\ InWorkspaces
    /\ wv.status = "done"
    /\ \E w \in Deletable(wv) : wv' = Asking(wv, w)
    /\ UNCHANGED <<nav, context, prompt, st, ops, msgs, terraform, nextOp, ghosts>>

\* The ConfirmFrame: y, or any other answer, q among them.
AnswerDelete ==
    /\ KeyIn("workspace") /\ wv.confirm # {}
    /\ \/ /\ wv' = WorkspacesLoading(Answered(wv))
          /\ Launch(Cmd(ctx, "wdelete", {}, wv.confirm, FALSE), ops)
       \/ wv' = Answered(wv) /\ NoLaunch(ops)
    /\ UNCHANGED <<nav, context, prompt, st, msgs, terraform, ghosts>>

RefreshWorkspaces ==
    /\ InWorkspaces
    /\ wv.status \in {"done", "error"}
    /\ wv' = WorkspacesLoading(wv)
    /\ LoadWorkspaces(ctx, ops)
    /\ UNCHANGED <<nav, context, prompt, st, msgs, terraform, ghosts>>

SelectMember ==
    /\ KeyIn("chdir") /\ MaySwitch
    /\ \E d \in Chdirs : StateSends(st, SwitchTo(d, Default, 0))

LeaveChdir ==
    /\ KeyIn("chdir")
    /\ \/ GoBack(ctx, st, wv, ops) /\ UNCHANGED msgs
       \/ navStack = <<>> /\ GoHome(ops, msgs)
    /\ UNCHANGED <<context, prompt, terraform, ghosts>>

-----------------------------------------------------------------------------
(* terraform, external *)

Current(o) == store[o.dir][selected[o.dir]]

\* Command o is over, r being what it has found.
Sends(o, r, ok) == ops' = ops \ {o} /\ msgs' = msgs \cup {Result(r, ok)}
Ends(o, ok)     == Sends(o, o, ok)

\* The same service asks again while nothing has invalidated its cache, or
\* reads the state and caches it.
Seen(o) ==
    IF cache[o.svc] # {} /\ ~(o.what = "list" /\ o.flag)
    THEN cache[o.svc]
    ELSE {[ws |-> selected[o.dir], addrs |-> Current(o)]}

Fails(o) == Ends(o, FALSE) /\ UNCHANGED terraform

\* StateList, and Show of an address.  A cancelled read can still be answered
\* by the cache.
Read(o) ==
    /\ o.what \in Reading
    /\ \/ \E snap \in Seen(o) :
            /\ o.cut => Seen(o) = cache[o.svc]
            /\ cache' = [cache EXCEPT ![o.svc] = {snap}]
            /\ IF o.what = "list"
               THEN Sends(o, [o EXCEPT !.todo = snap.addrs, !.ws = {snap.ws}], TRUE)
               ELSE Ends(o, o.todo \subseteq snap.addrs)
            /\ UNCHANGED <<exists, selected, store>>
       \/ Fails(o)
    /\ UNCHANGED unclean

Write(o, as) ==
    store' = [store EXCEPT ![o.dir][selected[o.dir]] = as]

Invalidate(o) == cache' = [cache EXCEPT ![o.svc] = {}]

Outlived(o) == o.svc # ctx.svc

\* StateRm of the addresses in turn, up to the first that fails.
RemoveEach(o) ==
    /\ o.what = "rm"
    /\ \/ /\ ~o.cut
          /\ \E a \in o.todo \cap Current(o) :
               /\ Write(o, Current(o) \ {a})
               /\ LET rest == [o EXCEPT !.todo = @ \ {a}, !.flag = TRUE]
                  IN  IF o.todo = {a}
                      THEN Ends(o, TRUE)
                      ELSE ops' = (ops \ {o}) \cup {rest} /\ UNCHANGED msgs
          /\ Invalidate(o)
          /\ unclean' = (unclean \/ Outlived(o))
       \/ /\ Ends(o, FALSE)
          /\ \E as \in {{}} \cup {{a} : a \in o.todo \cap Current(o)} :
               /\ Write(o, Current(o) \ as)
               /\ unclean' = (unclean \/ o.flag \/ as # {})
          /\ UNCHANGED cache
    /\ UNCHANGED <<exists, selected>>

\* StateMove
Move(o) ==
    /\ o.what = "mv"
    /\ LET moved == (Current(o) \ o.todo) \cup o.addrs
           can   == o.todo # {} /\ o.todo \subseteq Current(o) /\ o.addrs \cap Current(o) = {}
       IN  \/ /\ ~o.cut /\ can
              /\ Write(o, moved) /\ Invalidate(o) /\ Ends(o, TRUE)
              /\ unclean' = (unclean \/ Outlived(o))
           \/ /\ Ends(o, FALSE)
              /\ \/ UNCHANGED <<store, unclean>>
                 \/ can /\ Write(o, moved) /\ unclean' = TRUE
              /\ UNCHANGED cache
    /\ UNCHANGED <<exists, selected>>

\* WorkspaceList and then Workspace, under the mutex one at a time.
ListWorkspaces(o) ==
    /\ o.what = "wlist"
    /\ \/ /\ ~o.cut /\ ~o.flag
          /\ ops' = (ops \ {o}) \cup {[o EXCEPT !.flag = TRUE, !.ws = exists[o.dir]]}
          /\ UNCHANGED <<msgs, terraform>>
       \/ /\ ~o.cut /\ o.flag
          /\ ops' = ops \ {o}
          /\ msgs' = msgs \cup {[Result(o, TRUE) EXCEPT !.now = {selected[o.dir]}]}
          /\ UNCHANGED terraform
       \/ Fails(o)
    /\ UNCHANGED unclean

\* WorkspaceSelect, which invalidates the cache; WorkspaceNew, which does not.
SwitchWorkspace(o) ==
    /\ o.what \in {"wselect", "wnew"}
    /\ \E w \in o.ws :
         LET can == w \in exists[o.dir] <=> o.what = "wselect"
         IN  \/ /\ ~o.cut /\ can
                /\ Ends(o, TRUE)
                /\ selected' = [selected EXCEPT ![o.dir] = w]
                /\ exists' = [exists EXCEPT ![o.dir] = @ \cup {w}]
                /\ IF o.what = "wselect" THEN Invalidate(o) ELSE UNCHANGED cache
             \/ /\ Ends(o, FALSE)
                /\ \/ UNCHANGED <<exists, selected>>
                   \/ /\ can
                      /\ selected' = [selected EXCEPT ![o.dir] = w]
                      /\ exists' = [exists EXCEPT ![o.dir] = @ \cup {w}]
                /\ UNCHANGED cache
    /\ UNCHANGED <<store, unclean>>

\* WorkspaceDelete: terraform keeps the one it works in and those with resources.
DeleteWorkspace(o) ==
    /\ o.what = "wdelete"
    /\ \E w \in o.ws :
         \/ /\ ~o.cut /\ w \in exists[o.dir] \ {selected[o.dir]} /\ store[o.dir][w] = {}
            /\ Ends(o, TRUE)
            /\ exists' = [exists EXCEPT ![o.dir] = @ \ {w}]
            /\ UNCHANGED <<selected, store, cache>>
         \/ Fails(o)
    /\ UNCHANGED unclean

Run(o) ==
    /\ Read(o) \/ RemoveEach(o) \/ Move(o) \/ ListWorkspaces(o) \/ SwitchWorkspace(o) \/ DeleteWorkspace(o)
    /\ UNCHANGED <<nav, context, prompt, st, wv, nextOp, origin, confirmed>>

-----------------------------------------------------------------------------
(* Messages received *)

ReadReturns(m) ==
    /\ m.type = "Result" /\ m.op.what \in Reading
    /\ st' = CASE m.op.what = "list" /\ m.ok   -> Listed(st, m.op.todo)
               [] m.op.what = "list" /\ ~m.ok  -> ListFailed(st)
               [] m.op.what = "detail" /\ m.ok -> Detailed(st, CHOOSE a \in m.op.todo : TRUE)
               [] OTHER                        -> DetailFailed(st)
    /\ origin' = CASE m.op.what = "list" /\ m.ok /\ ~m.op.cut -> {[dir |-> m.op.dir, ws |-> w] : w \in m.op.ws}
                   [] m.op.what = "list" /\ m.ok /\ m.op.cut  -> {}
                   [] OTHER -> origin
    /\ msgs' = msgs \ {m}
    /\ NoLaunch(ops)
    /\ UNCHANGED <<nav, context, prompt, wv, terraform, confirmed, unclean>>

\* A failed removal or move comes as a failed list.
MutationReturns(m) ==
    /\ m.type = "Result" /\ m.op.what \in Mutations
    /\ \/ m.ok /\ st' = MutationDone(st) /\ LoadState(ctx, TRUE, ops)
       \/ ~m.ok /\ st' = ListFailed(st) /\ NoLaunch(ops)
    /\ msgs' = msgs \ {m}
    /\ UNCHANGED <<nav, context, prompt, wv, terraform, ghosts>>

\* The directory of the switch is that of the Context by now.
WorkspaceReturns(m) ==
    /\ m.type = "Result" /\ m.op.what \in OfWorkspace
    /\ \/ /\ ~m.ok
          /\ wv' = WorkspacesFailed(wv) /\ NoLaunch(ops)
          /\ msgs' = msgs \ {m}
       \/ /\ m.ok /\ m.op.what = "wlist"
          /\ \E w \in m.now : wv' = WorkspacesListed(wv, m.op.ws \cup {w}, w)
          /\ NoLaunch(ops)
          /\ msgs' = msgs \ {m}
       \/ /\ m.ok /\ m.op.what = "wdelete"
          /\ wv' = WorkspacesLoading(wv) /\ LoadWorkspaces(ctx, ops)
          /\ msgs' = msgs \ {m}
       \/ /\ m.ok /\ m.op.what \in {"wselect", "wnew"}
          /\ \E w \in m.op.ws :
               /\ IF m.op.what = "wselect" /\ m.op.flag
                  THEN wv' = WorkspaceLeft(wv, w) /\ NoLaunch(ops)
                  ELSE wv' = WorkspaceTaken(wv, w) /\ LoadWorkspaces(ctx, ops)
               /\ msgs' = (msgs \ {m}) \cup {SwitchTo(ctx.dir, w, m.op.id)}
    /\ UNCHANGED <<nav, context, prompt, st, terraform, ghosts>>

RequestInput(m) ==
    /\ m.type = "RequestInput"
    /\ prompt' = m.ask
    /\ msgs' = msgs \ {m}
    /\ UNCHANGED <<nav, context, st, wv, ops, terraform, nextOp, ghosts>>

\* Pins change, and a context is switched, only while nothing is busy.
Refused(m) ==
    /\ m.type \in {"PinToggle", "PinClear", "ContextSwitch"}
    /\ ~Idle
    /\ msgs' = msgs \ {m}
    /\ UNCHANGED <<nav, context, prompt, st, wv, ops, terraform, nextOp, ghosts>>

\* Pins.Toggle of a group: complete it, or remove it.
Toggled(ps, as) == IF as \subseteq ps THEN ps \ as ELSE ps \cup as

ChangePins(m) ==
    /\ m.type \in {"PinToggle", "PinClear"}
    /\ Idle
    /\ LET clears == m.type = "PinClear"
       IN  \/ clears /\ pins = {} /\ UNCHANGED <<pins, st, wv>>
           \/ /\ ~(clears /\ pins = {})
              /\ pins' = IF clears THEN {} ELSE Toggled(pins, m.addrs)
              /\ st' = PinsRead(st, pins')
              /\ wv' = ResetWorkspaces(wv)
    /\ msgs' = msgs \ {m}
    /\ UNCHANGED <<nav, ctx, prompt, ops, terraform, nextOp, ghosts>>

\* rebuildContext makes a service of its own, with an empty cache.
SwitchContext(m) ==
    /\ m.type = "ContextSwitch"
    /\ Idle
    /\ ctx' = [dir |-> m.dir, ws |-> m.ws, svc |-> ctx.svc + 1]
    /\ pins' = {}
    /\ \/ active \in {"workspace", "chdir"} /\ GoBack(ctx', SwitchedAway(st), ResetWorkspaces(wv), ops)
       \/ /\ active \notin {"workspace", "chdir"}
          /\ st' = SwitchedAway(st) /\ wv' = ResetWorkspaces(wv)
          /\ NoLaunch(ops) /\ UNCHANGED nav
    /\ msgs' = msgs \ {m}
    /\ UNCHANGED <<prompt, terraform, ghosts>>

\* Cancels the view that is left, busy or not.
Deactivate(m) ==
    /\ m.type = "Deactivate"
    /\ \/ GoBack(ctx, st, wv, Cut(active, ops)) /\ msgs' = msgs \ {m}
       \/ navStack = <<>> /\ GoHome(Cut(active, ops), msgs \ {m})
    /\ UNCHANGED <<context, prompt, terraform, ghosts>>

PlanInvalidated(m) ==
    /\ m.type = "PlanInvalidated"
    /\ st' = ResetList(st)
    /\ msgs' = msgs \ {m}
    /\ UNCHANGED <<nav, context, prompt, wv, ops, terraform, nextOp, ghosts>>

Update(m) ==
    \/ ReadReturns(m) \/ MutationReturns(m) \/ WorkspaceReturns(m) \/ RequestInput(m)
    \/ Refused(m) \/ ChangePins(m) \/ SwitchContext(m) \/ Deactivate(m) \/ PlanInvalidated(m)

\* Another view applied, tainted or unlocked something.
Elsewhere == KeyIn("home") /\ StateKey(ResetList(st))

-----------------------------------------------------------------------------

Init ==
    /\ active = "home" /\ navStack = <<>>
    /\ ctx = [dir |-> BootDir, ws |-> Default, svc |-> 0]
    /\ pins = {} /\ prompt = NoPrompt
    /\ st = NewStateView /\ wv = NewWorkspaceView
    /\ ops = {} /\ msgs = {} /\ nextOp = 1
    /\ \E ws \in {{Default}, Workspaces} : exists = [d \in Chdirs |-> ws]
    /\ selected \in {f \in [Chdirs -> Workspaces] : f[BootDir] = Default /\ \A d \in Chdirs : f[d] \in exists[d]}
    /\ store = [d \in Chdirs |-> [w \in Workspaces |-> IF w = Default THEN Addrs ELSE {}]]
    /\ cache = [s \in Services |-> {}]
    /\ origin = {} /\ confirmed = {} /\ unclean = FALSE

StateKeys ==
    \/ Inspect \/ OpenFilter \/ TypeFilter \/ ToggleTree \/ TogglePinnedOnly \/ ClearAllPins
    \/ TogglePins \/ RefreshKey \/ RequestDelete \/ RequestMove \/ Edit \/ OpenPalette
    \/ PickAction \/ CloseFrame

WorkspaceKeys ==
    \/ SelectWorkspace \/ NewWorkspace \/ AskDelete \/ AnswerDelete \/ RefreshWorkspaces
    \/ SelectMember \/ LeaveChdir

Answers == Decline \/ EnterName \/ Confirm \/ CreateWorkspace

Next ==
    \/ \E v \in {"state", "workspace", "chdir"} : Navigate(v)
    \/ StateKeys \/ WorkspaceKeys \/ Answers
    \/ Leave \/ Quit \/ Elsewhere
    \/ \E o \in ops : Run(o)
    \/ \E m \in msgs : Update(m)

Spec == Init /\ [][Next]_vars

-----------------------------------------------------------------------------
(* Properties *)

\* Every variable keeps the shape the handlers give it.
TypeOK ==
    /\ active \in {"home", "state", "workspace", "chdir"}
    /\ navStack \in Seq({"home", "state", "workspace", "chdir"})
    /\ ctx \in [dir : Chdirs, ws : Workspaces, svc : Services]
    /\ pins \subseteq Addrs /\ prompt \in Prompts
    /\ st \in StateState /\ wv \in WorkspaceState
    /\ ops \subseteq Command /\ msgs \subseteq Message
    /\ exists \in [Chdirs -> SUBSET Workspaces] /\ selected \in [Chdirs -> Workspaces]
    /\ store \in [Chdirs -> [Workspaces -> SUBSET Addrs]]
    /\ cache \in [Services -> SUBSET Snapshot]
    /\ nextOp \in Nat /\ origin \subseteq Place
    /\ confirmed \subseteq Chdirs \X Addrs /\ unclean \in BOOLEAN

\* A command of one of these kinds runs, or its result has yet to be handled.
Awaited(kinds) ==
    \/ \E o \in ops : o.what \in kinds
    \/ \E m \in msgs : m.type = "Result" /\ m.op.what \in kinds

\* A view that says it is loading, and a browser that holds back every switch
\* because it changes the state, wait for a command there is: however loads,
\* removals and cancellations overlap, none of them waits for nothing.
WaitingHasRun ==
    /\ st.status = "loading" => Awaited(Reading)
    /\ st.mutating => Awaited(Mutations)
    /\ wv.status = "loading" => Awaited(OfWorkspace)

\* What leaves the state of a directory is what the user was asked about and
\* agreed to there, whatever has been pinned, switched or reloaded between the
\* question, the answer and the turn of the command (requestDelete,
\* batchDelete, requestMove): the browser implements ConfirmedEdits.
Edits == INSTANCE ConfirmedEdits WITH agreed <- confirmed

ImplementsConfirmedEdits == Edits!Spec

\* With nothing running, the resources the browser lists are those of the
\* directory and workspace it read them in: no late answer, cached read or
\* cancelled reload leaves the rows of before a removal or a move.
ListIsCurrent ==
    ops = {} /\ msgs = {} /\ st.status = "done" /\ st.listed # {} /\ ~unclean
      => \A p \in origin : st.listed = store[p.dir][p.ws]

\* While a removal or a move runs, the browser is busy, so that nothing
\* switches the Context or the view meanwhile.
BusyWhileMutating == (\E o \in ops : o.what \in Mutations) => st.mutating

\* A switch to another member takes the workspace terraform works in there
\* (CONTEXT.md, "each Member has its own workspace state").
SwitchKeepsMembersWorkspace ==
    [][ctx'.dir # ctx.dir => ctx'.ws = selected[ctx'.dir]]_vars

\* A browser on screen is never idle with nothing running.
ActiveIsNeverIdle ==
    ops = {} /\ msgs = {} /\ active = "state" => st.status # "idle"
=============================================================================
