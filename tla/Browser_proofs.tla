--------------------------- MODULE Browser_proofs ---------------------------
(***************************************************************************)
(* What Browser promises, for any number of directories, workspaces,       *)
(* resources and commands: every view that waits has something to wait     *)
(* for, nothing leaves terraform's state that the user did not agree to,   *)
(* and a list at rest is that of the state it was read from.               *)
(***************************************************************************)
EXTENDS BrowserTypes_proofs

-----------------------------------------------------------------------------
(* Commands and results *)

\* Step that loses no command and no result.
Kept(os, ms) ==
    /\ \A o \in ops : \E q \in os : q.what = o.what
    /\ \A m \in msgs : m.type = "Result" =>
         \E n \in ms : n.type = "Result" /\ n.op.what = m.op.what

\* q is command o, which view v may have told to stop.
CutOf(v, o, q) ==
    /\ q \in Ops /\ q.what = o.what /\ q.dir = o.dir /\ q.svc = o.svc /\ q.addrs = o.addrs
    /\ q.todo = o.todo /\ q.ws = o.ws /\ q.flag = o.flag
    /\ q.cut = (o.cut \/ View(o) = v)

\* A command that is told to stop is otherwise the command it was.
LEMMA CutIs ==
    ASSUME NEW os \in SUBSET Ops, NEW v
    PROVE  /\ \A o \in os : \E q \in Cut(v, os) : CutOf(v, o, q)
           /\ \A q \in Cut(v, os) : \E o \in os : CutOf(v, o, q)
<1> DEFINE c(o) == [o EXCEPT !.cut = @ \/ View(o) = v]
<1>1. ASSUME NEW o \in os
      PROVE  CutOf(v, o, c(o))
  BY DEF Ops, Command, Known, CutOf
<1>2. Cut(v, os) = {c(o) : o \in os}
  BY DEF Cut
<1> HIDE DEF c
<1> QED
  BY <1>1, <1>2

\* What is awaited stays so while commands are started, told to stop, or over.
LEMMA StillAwaited ==
    ASSUME Types, NEW kinds, Awaited(kinds)
    PROVE  Kept(ops', msgs') => Awaited(kinds)'
BY DEF Awaited, Kept

\* Starting a command loses none.
LEMMA LaunchKeeps ==
    ASSUME Types, NEW v, NEW os \in {ops, Cut(v, ops)}
    PROVE  /\ \A o \in ops : \E q \in os : q.what = o.what
           /\ \A r : Launch(r, os) =>
                r \in ops' /\ \A o \in ops : \E q \in ops' : q.what = o.what
           /\ NoLaunch(os) => \A o \in ops : \E q \in ops' : q.what = o.what
<1>1. ops \in SUBSET Ops /\ os \in SUBSET Ops
  BY CutTypes DEF Types
<1>2. \A o \in ops : \E q \in os : q.what = o.what
  <2>1. CASE os = ops
    BY <2>1
  <2>2. CASE os = Cut(v, ops)
    BY <1>1, <2>2, CutIs DEF CutOf
  <2> QED
    BY <2>1, <2>2
<1>3. ASSUME NEW r, Launch(r, os)
      PROVE  r \in ops' /\ \A o \in ops : \E q \in ops' : q.what = o.what
  <2>1. \A q \in os : \E p \in Cut(View(r), os) : p.what = q.what
    BY <1>1, CutIs DEF CutOf
  <2> QED
    BY <1>2, <1>3, <2>1 DEF Launch
<1> QED
  BY <1>2, <1>3 DEF NoLaunch

-----------------------------------------------------------------------------
(* Whoever waits has something to wait for *)

\* Browser t waits for nothing that s does not wait for.
Calm(s, t) == (t.status = "loading" => s.status = "loading") /\ (t.mutating => s.mutating)

\* The same of t but for a read.
CalmButReads(s, t) == t.mutating => s.mutating

\* What the handlers that start nothing make of a browser waits for nothing new.
LEMMA CalmViews ==
    ASSUME NEW s \in Browsers
    PROVE  /\ \A as \in SUBSET Addrs :
                /\ Calm(s, Listed(s, as)) /\ Calm(s, PinsRead(s, as)) /\ Calm(s, PaletteOpened(s, as))
                /\ \A q \in BOOLEAN : Calm(s, SetFilter(s, q, as))
                /\ \A q \in BOOLEAN : Calm(s, SetFilter([s EXCEPT !.pinnedOnly = ~@], q, as))
                /\ Calm(s, PinsRead([s EXCEPT !.pinnedOnly = FALSE], as))
           /\ \A a : Calm(s, Detailed(s, a))
           /\ Calm(s, s) /\ Calm(s, FilterOpened(s)) /\ Calm(s, FilterClosed(s))
           /\ Calm(s, DetailClosed(s)) /\ Calm(s, PaletteClosed(s)) /\ Calm(s, ClearFrames(s))
           /\ Calm(s, DetailFailed(s)) /\ Calm(s, ResetList(s)) /\ Calm(s, SwitchedAway(s))
           /\ Calm(s, ListFailed(s))
<1>1. \A t \in StateState : \A f : /\ PushFrame(t, f).status = t.status
                                   /\ PushFrame(t, f).mutating = t.mutating
                                   /\ PopFrame(t).status = t.status
                                   /\ PopFrame(t).mutating = t.mutating
  BY DEF PushFrame, PopFrame, StateState
<1>2. s \in StateState
  BY DEF Browsers
<1>3. \A t \in StateState, q \in BOOLEAN, as \in SUBSET Addrs :
        SetFilter(t, q, as).status = t.status /\ SetFilter(t, q, as).mutating = t.mutating
  BY DEF SetFilter, StateState
<1>4. \A t \in StateState, as \in SUBSET Addrs :
        PinsRead(t, as).status = t.status /\ PinsRead(t, as).mutating = t.mutating
  BY <1>3 DEF PinsRead, StateState
<1>5. /\ [s EXCEPT !.pinnedOnly = ~@] \in StateState /\ [s EXCEPT !.pinnedOnly = FALSE] \in StateState
      /\ [s EXCEPT !.pinnedOnly = ~@].status = s.status
      /\ [s EXCEPT !.pinnedOnly = ~@].mutating = s.mutating
      /\ [s EXCEPT !.pinnedOnly = FALSE].status = s.status
      /\ [s EXCEPT !.pinnedOnly = FALSE].mutating = s.mutating
      /\ [s EXCEPT !.filter = FALSE, !.shown = s.listed] \in StateState
      /\ [s EXCEPT !.filter = FALSE, !.shown = s.listed].status = s.status
      /\ [s EXCEPT !.filter = FALSE, !.shown = s.listed].mutating = s.mutating
      /\ [s EXCEPT !.status = "done", !.detail = {}] \in StateState
      /\ [s EXCEPT !.status = "done", !.detail = {}].status = "done"
      /\ [s EXCEPT !.status = "done", !.detail = {}].mutating = s.mutating
      /\ [s EXCEPT !.targets = {}] \in StateState
      /\ [s EXCEPT !.targets = {}].status = s.status
      /\ [s EXCEPT !.targets = {}].mutating = s.mutating
  BY <1>2 DEF StateState, StateStatuses
<1>6. ASSUME NEW as \in SUBSET Addrs
      PROVE  /\ Calm(s, Listed(s, as)) /\ Calm(s, PinsRead(s, as)) /\ Calm(s, PaletteOpened(s, as))
             /\ \A q \in BOOLEAN : Calm(s, SetFilter(s, q, as))
             /\ \A q \in BOOLEAN : Calm(s, SetFilter([s EXCEPT !.pinnedOnly = ~@], q, as))
             /\ Calm(s, PinsRead([s EXCEPT !.pinnedOnly = FALSE], as))
  <2>1. /\ [s EXCEPT !.targets = as] \in StateState
        /\ [s EXCEPT !.targets = as].status = s.status
        /\ [s EXCEPT !.targets = as].mutating = s.mutating
    BY <1>2 DEF StateState
  <2>2. Calm(s, Listed(s, as))
    BY <1>2 DEF Calm, Listed, StateState
  <2>3. Calm(s, PaletteOpened(s, as))
    BY <1>1, <2>1 DEF Calm, PaletteOpened
  <2>4. ASSUME NEW q \in BOOLEAN
        PROVE  Calm(s, SetFilter(s, q, as)) /\ Calm(s, SetFilter([s EXCEPT !.pinnedOnly = ~@], q, as))
    <3>1. /\ SetFilter(s, q, as).status = s.status
          /\ SetFilter(s, q, as).mutating = s.mutating
          /\ SetFilter([s EXCEPT !.pinnedOnly = ~@], q, as).status = s.status
          /\ SetFilter([s EXCEPT !.pinnedOnly = ~@], q, as).mutating = s.mutating
      <4> DEFINE u == [s EXCEPT !.pinnedOnly = ~@]
      <4>1. u \in StateState /\ u.status = s.status /\ u.mutating = s.mutating
        BY <1>5
      <4> HIDE DEF u
      <4>2. /\ SetFilter(s, q, as).status = s.status /\ SetFilter(s, q, as).mutating = s.mutating
            /\ SetFilter(u, q, as).status = u.status /\ SetFilter(u, q, as).mutating = u.mutating
        BY <1>2, <1>3, <4>1
      <4> QED
        BY <4>1, <4>2 DEF u
    <3> QED
      BY <3>1 DEF Calm
  <2>5. Calm(s, PinsRead(s, as)) /\ Calm(s, PinsRead([s EXCEPT !.pinnedOnly = FALSE], as))
    BY <1>2, <1>4, <1>5 DEF Calm
  <2> QED
    BY <2>2, <2>3, <2>4, <2>5
<1>7. ASSUME NEW a
      PROVE  Calm(s, Detailed(s, a))
  BY <1>2 DEF Calm, Detailed, PushFrame, StateState
<1>8. /\ Calm(s, FilterOpened(s)) /\ Calm(s, FilterClosed(s))
      /\ Calm(s, DetailClosed(s)) /\ Calm(s, PaletteClosed(s))
  BY <1>1, <1>2, <1>5 DEF Calm, FilterOpened, FilterClosed, DetailClosed, PaletteClosed
<1>9. /\ Calm(s, s) /\ Calm(s, ClearFrames(s)) /\ Calm(s, DetailFailed(s)) /\ Calm(s, ResetList(s))
      /\ Calm(s, SwitchedAway(s)) /\ Calm(s, ListFailed(s))
  BY <1>2 DEF Calm, ClearFrames, DetailFailed, ResetList, SwitchedAway, ListFailed, StateState
<1> QED
  BY <1>6, <1>7, <1>8, <1>9

\* Those that start a read wait for nothing else that is new, and those that end a
\* removal, a move or a list do not wait for one.
LEMMA ReadingViews ==
    ASSUME NEW s \in Browsers
    PROVE  /\ CalmButReads(s, Loading(s)) /\ CalmButReads(s, Refreshed(s))
           /\ CalmButReads(s, Inspecting(s))
           /\ CalmButReads(s, Loading(SwitchedAway(s)))
           /\ ~ MutationDone(s).mutating /\ ~ ListFailed(s).mutating /\ ListFailed(s).status = "error"
           /\ \A as \in SUBSET Addrs : Listed(s, as).status = "done"
           /\ \A a : Detailed(s, a).status = "detail"
           /\ DetailFailed(s).status = "done"
<1>1. s \in StateState
  BY DEF Browsers
<1>2. /\ CalmButReads(s, Loading(s)) /\ CalmButReads(s, Refreshed(s))
      /\ CalmButReads(s, Loading(SwitchedAway(s)))
  BY <1>1 DEF CalmButReads, Loading, Refreshed, ClearFrames, ResetList, SwitchedAway, StateState
<1>3. CalmButReads(s, Inspecting(s))
  <2>1. PopFrame(s).mutating = s.mutating
    BY <1>1 DEF PopFrame, StateState
  <2> QED
    BY <1>1, <2>1 DEF CalmButReads, Inspecting, Loading, PopFrame, StateState
<1>4. ~ MutationDone(s).mutating
  BY <1>1 DEF MutationDone, Refreshed, Loading, ClearFrames, ResetList, StateState
<1>5. /\ ~ ListFailed(s).mutating /\ ListFailed(s).status = "error"
      /\ \A as \in SUBSET Addrs : Listed(s, as).status = "done"
      /\ DetailFailed(s).status = "done"
  BY <1>1 DEF ListFailed, Listed, DetailFailed, StateState
<1>6. \A a : Detailed(s, a).status = "detail"
  BY <1>1 DEF Detailed, PushFrame, StateState
<1> QED
  BY <1>2, <1>3, <1>4, <1>5, <1>6

\* A step that loses nothing, and starts what it begins to wait for.
LEMMA WaitsOn ==
    ASSUME Types, WaitingHasRun, Kept(ops', msgs'),
           \/ Calm(st, st')
           \/ CalmButReads(st, st') /\ \E o \in ops' : o.what \in Reading,
           \/ wv'.status # "loading" \/ wv' = wv
           \/ \E o \in ops' : o.what \in OfWorkspace
    PROVE  WaitingHasRun'
<1>1. \A kinds : Awaited(kinds) => Awaited(kinds)'
  BY StillAwaited
<1>2. (st.status = "loading" => Awaited(Reading)') /\ (st.mutating => Awaited(Mutations)')
      /\ (wv.status = "loading" => Awaited(OfWorkspace)')
  BY <1>1 DEF WaitingHasRun
<1>3. \A kinds : (\E o \in ops' : o.what \in kinds) => Awaited(kinds)'
  BY DEF Awaited
<1> QED
  BY <1>2, <1>3 DEF WaitingHasRun, Calm, CalmButReads

\* A view that is entered waits for the load that is started.
LEMMA ActivateWaits ==
    ASSUME Types, NEW v, NEW c, NEW s \in Browsers, NEW w \in WorkspaceState,
           NEW u, NEW os \in {ops, Cut(u, ops)}, Activate(v, c, s, w, os)
    PROVE  /\ \A o \in ops : \E q \in ops' : q.what = o.what
           /\ st' = s \/ (st' = Loading(s) /\ \E o \in ops' : o.what \in Reading)
           /\ wv' = w \/ \E o \in ops' : o.what \in OfWorkspace
<1>1. CASE st' = Loading(s) /\ wv' = w /\ LoadState(c, FALSE, os)
  <2>1. Cmd(c, "list", {}, {}, FALSE).what \in Reading
    BY DEF Cmd, Reading
  <2> QED
    BY <1>1, <2>1, LaunchKeeps DEF LoadState
<1>2. CASE st' = s /\ wv' = WorkspacesLoading(w) /\ LoadWorkspaces(c, os)
  <2>1. Cmd(c, "wlist", {}, {}, FALSE).what \in OfWorkspace
    BY DEF Cmd, OfWorkspace
  <2> QED
    BY <1>2, <2>1, LaunchKeeps DEF LoadWorkspaces
<1>3. CASE st' = s /\ wv' = w /\ NoLaunch(os)
  BY <1>3, LaunchKeeps
<1> QED
  BY <1>1, <1>2, <1>3 DEF Activate

\* The keys of the state browser start what it waits for.
LEMMA StateKeysWait ==
    ASSUME Types, WaitingHasRun, StateKeys
    PROVE  WaitingHasRun'
<1>1. st \in Browsers /\ pins \in SUBSET Addrs /\ st.detail \in SUBSET Addrs
      /\ st.shown \in SUBSET Addrs /\ st.targets \in SUBSET Addrs /\ st.filter \in BOOLEAN
      /\ ActionTargets(st, pins) \subseteq SUBSET Addrs
  <2>1. st \in Browsers /\ pins \in SUBSET Addrs /\ st.detail \in SUBSET Addrs
        /\ st.shown \in SUBSET Addrs /\ st.targets \in SUBSET Addrs /\ st.filter \in BOOLEAN
    BY DEF Types, Browsers, StateState
  <2> QED
    BY <2>1 DEF ActionTargets
<1>2. msgs = {} /\ wv' = wv
  BY StateKeysDo
<1>3. ASSUME NEW o \in Ops, Launch(o, ops), o.what \in Reading
      PROVE  Kept(ops', msgs') /\ \E q \in ops' : q.what \in Reading
  <2>1. o \in ops' /\ \A p \in ops : \E q \in ops' : q.what = p.what
    BY <1>3, LaunchKeeps
  <2> QED
    BY <1>2, <1>3, <2>1 DEF Kept
<1>4. CASE Inspect \/ RefreshKey
  <2>1. CalmButReads(st, st')
    BY <1>1, <1>4, ReadingViews DEF Inspect, RefreshKey
  <2>2. /\ Cmd(ctx, "list", {}, {}, TRUE) \in Ops /\ Cmd(ctx, "list", {}, {}, TRUE).what \in Reading
        /\ \A a \in Addrs : /\ Cmd(ctx, "detail", {a}, {}, FALSE) \in Ops
                            /\ Cmd(ctx, "detail", {a}, {}, FALSE).what \in Reading
    <3>1. ctx \in Contexts
      BY DEF Types
    <3>2. \A a \in Addrs : {a} \in SUBSET Addrs /\ {a} # {}
      OBVIOUS
    <3> QED
      BY <3>1, <3>2, MessageTypes DEF OfState, Reading, Cmd
  <2>3. Kept(ops', msgs') /\ \E q \in ops' : q.what \in Reading
    BY <1>1, <1>3, <1>4, <2>2 DEF Inspect, RefreshKey, LoadState
  <2> QED
    BY <1>2, <2>1, <2>3, WaitsOn
<1>5. CASE ~ (Inspect \/ RefreshKey)
  <2>1. ops' = ops
    BY <1>5 DEF StateKeys, OpenFilter, TypeFilter, ToggleTree, TogglePinnedOnly, ClearAllPins,
                TogglePins, RequestDelete, RequestMove, Edit, OpenPalette, PickAction, CloseFrame,
                StateKey, StateSends
  <2>2. Calm(st, st')
    <3>1. CASE OpenFilter \/ TypeFilter \/ ToggleTree \/ TogglePinnedOnly \/ ClearAllPins
      BY <1>1, <3>1, CalmViews
         DEF OpenFilter, TypeFilter, ToggleTree, TogglePinnedOnly, ClearAllPins, StateKey, StateSends
    <3>2. CASE TogglePins \/ RequestDelete \/ RequestMove \/ Edit
      <4>1. st' = st
        BY <3>2 DEF TogglePins, RequestDelete, RequestMove, Edit, StateSends
      <4> QED
        BY <1>1, <4>1, CalmViews
    <3>3. CASE OpenPalette \/ PickAction \/ CloseFrame
      BY <1>1, <3>3, CalmViews DEF OpenPalette, PickAction, CloseFrame, StateKey, StateSends
    <3> QED
      BY <1>5, <3>1, <3>2, <3>3 DEF StateKeys
  <2>3. Kept(ops', msgs')
    BY <1>2, <2>1 DEF Kept
  <2> QED
    BY <1>2, <2>2, <2>3, WaitsOn
<1> QED
  BY <1>4, <1>5

\* Answers, the other keys, and navigation start what they wait for.
LEMMA OtherKeysWait ==
    ASSUME Types, WaitingHasRun,
           \/ Answers \/ WorkspaceKeys \/ Leave \/ Quit \/ Elsewhere
           \/ \E v \in {"state", "workspace", "chdir"} : Navigate(v)
    PROVE  WaitingHasRun'
<1>1. st \in Browsers /\ wv \in WorkspaceState /\ msgs = {}
  BY DEF Types, Answers, Answer, Decline, EnterName, Confirm, CreateWorkspace, WorkspaceKeys,
         SelectWorkspace, NewWorkspace, AskDelete, AnswerDelete, RefreshWorkspaces, SelectMember,
         LeaveChdir, InWorkspaces, Leave, Quit, Elsewhere, Navigate, OnList, KeyIn, Key
<1>2. (\A o \in ops : \E q \in ops' : q.what = o.what) => Kept(ops', msgs')
  BY <1>1 DEF Kept
<1>3. Calm(st, st) /\ Calm(st, ResetList(st)) /\ Calm(st, ClearFrames(st)) /\ CalmButReads(st, Loading(st))
  BY <1>1, CalmViews, ReadingViews
<1>4. CASE Confirm
  <2> DEFINE o == [Cmd(prompt, prompt.what, prompt.to, {}, FALSE) EXCEPT !.todo = Agreed]
  <2>1. o.what \in Mutations /\ Launch(o, ops) /\ wv' = wv /\ st' = [st EXCEPT !.mutating = TRUE]
    BY <1>4 DEF Confirm, Cmd
  <2> HIDE DEF o
  <2>2. o \in ops' /\ \A p \in ops : \E q \in ops' : q.what = p.what
    BY <2>1, LaunchKeeps
  <2>3. \A kinds : Awaited(kinds) => Awaited(kinds)'
    BY <1>2, <2>2, StillAwaited
  <2>4. Awaited(Mutations)' /\ st'.status = st.status
    BY <1>1, <2>1, <2>2 DEF Awaited, Browsers, StateState
  <2> QED
    BY <2>1, <2>3, <2>4 DEF WaitingHasRun
<1>5. CASE Decline \/ EnterName
  <2>1. ops' = ops /\ st' = st /\ wv' = wv
    BY <1>5 DEF Decline, EnterName
  <2> QED
    BY <1>2, <1>3, <2>1, WaitsOn
<1>6. ASSUME NEW o, Launch(o, ops), o.what \in OfWorkspace, st' = st
      PROVE  WaitingHasRun'
  <2>1. o \in ops' /\ \A p \in ops : \E q \in ops' : q.what = p.what
    BY <1>6, LaunchKeeps
  <2> QED
    BY <1>2, <1>3, <1>6, <2>1, WaitsOn
<1>7. CASE CreateWorkspace \/ SelectWorkspace \/ RefreshWorkspaces
  <2>1. PICK what \in {"wnew", "wselect", "wlist"} : \E ws, flag :
          st' = st /\ Launch(Cmd(ctx, what, {}, ws, flag), ops)
    BY <1>7 DEF CreateWorkspace, SelectWorkspace, RefreshWorkspaces, LoadWorkspaces
  <2>2. \A ws, flag : Cmd(ctx, what, {}, ws, flag).what \in OfWorkspace
    BY DEF Cmd, OfWorkspace
  <2> QED
    BY <1>6, <2>1, <2>2
<1>8. CASE NewWorkspace \/ SelectMember \/ Leave \/ Elsewhere
  <2>1. ops' = ops /\ wv' = wv /\ st' \in {st, ResetList(st)}
    BY <1>8 DEF NewWorkspace, SelectMember, Leave, Elsewhere, StateSends, StateKey
  <2> QED
    BY <1>2, <1>3, <2>1, WaitsOn
<1>9. CASE AskDelete
  <2>1. ops' = ops /\ st' = st /\ \E w : wv' = Asking(wv, w)
    BY <1>9 DEF AskDelete
  <2>2. wv'.status = wv.status
    BY <1>1, <2>1 DEF Asking, WorkspaceState
  <2>3. \A kinds : Awaited(kinds) => Awaited(kinds)'
    BY <1>2, <2>1, StillAwaited
  <2> QED
    BY <2>1, <2>2, <2>3 DEF WaitingHasRun
<1>10. CASE AnswerDelete
  <2>1. CASE wv' = WorkspacesLoading(Answered(wv)) /\ Launch(Cmd(ctx, "wdelete", {}, wv.confirm, FALSE), ops)
    <3>1. Cmd(ctx, "wdelete", {}, wv.confirm, FALSE).what \in OfWorkspace
      BY DEF Cmd, OfWorkspace
    <3> QED
      BY <1>6, <1>10, <2>1, <3>1 DEF AnswerDelete
  <2>2. CASE wv' = Answered(wv) /\ NoLaunch(ops)
    <3>1. wv'.status = wv.status /\ ops' = ops /\ st' = st
      BY <1>1, <1>10, <2>2 DEF Answered, WorkspaceState, NoLaunch, AnswerDelete
    <3>2. \A kinds : Awaited(kinds) => Awaited(kinds)'
      BY <1>2, <3>1, StillAwaited
    <3> QED
      BY <3>1, <3>2 DEF WaitingHasRun
  <2> QED
    BY <1>10, <2>1, <2>2 DEF AnswerDelete
<1>11. ASSUME NEW v, NEW os \in {ops, Cut(active, ops)}, Activate(v, ctx, st, wv, os)
       PROVE  WaitingHasRun'
  <2>1. /\ \A o \in ops : \E q \in ops' : q.what = o.what
        /\ st' = st \/ (st' = Loading(st) /\ \E o \in ops' : o.what \in Reading)
        /\ wv' = wv \/ \E o \in ops' : o.what \in OfWorkspace
    BY <1>1, <1>11, ActivateWaits
  <2> QED
    BY <1>2, <1>3, <2>1, WaitsOn
<1>12. ASSUME NEW os \in {ops, Cut(active, ops)}, NoLaunch(os), st' = st, wv' = wv
       PROVE  WaitingHasRun'
  <2>1. \A o \in ops : \E q \in ops' : q.what = o.what
    BY <1>12, LaunchKeeps
  <2> QED
    BY <1>2, <1>3, <1>12, <2>1, WaitsOn
<1>13. CASE LeaveChdir
  BY <1>11, <1>12, <1>13 DEF LeaveChdir, GoBack, GoHome
<1>14. CASE Quit
  <2>1. CASE StateKey(ClearFrames(st))
    BY <1>2, <1>3, <2>1, WaitsOn DEF StateKey
  <2>2. CASE GoHome(IF active = "state" /\ StateBusy(st) THEN ops ELSE Cut(active, ops), msgs)
    BY <1>12, <2>2 DEF GoHome
  <2> QED
    BY <1>14, <2>1, <2>2 DEF Quit
<1>15. ASSUME NEW v \in {"state", "workspace", "chdir"}, Navigate(v)
       PROVE  WaitingHasRun'
  BY <1>11, <1>15 DEF Navigate
<1> QED
  BY <1>4, <1>5, <1>7, <1>8, <1>9, <1>10, <1>13, <1>14, <1>15 DEF Answers, WorkspaceKeys

\* A command that runs is awaited as its result.
LEMMA RunWaits ==
    ASSUME Types, WaitingHasRun, NEW o \in ops, Run(o)
    PROVE  WaitingHasRun'
<1>1. st' = st /\ wv' = wv
  BY DEF Run
<1>2. \A r, ok : Result(r, ok).type = "Result" /\ Result(r, ok).op.what = r.what
  BY DEF Result
<1>3. \/ /\ ops' = ops \ {o}
         /\ \E m : msgs' = msgs \cup {m} /\ m.type = "Result" /\ m.op.what = o.what
      \/ \E r : ops' = (ops \ {o}) \cup {r} /\ msgs' = msgs /\ r.what = o.what
  BY <1>2, RunSends DEF Sends
<1>4. ASSUME NEW kinds, Awaited(kinds)
      PROVE  Awaited(kinds)'
  BY <1>3, <1>4 DEF Awaited
<1> QED
  BY <1>1, <1>4 DEF WaitingHasRun

\* A view takes the result it waited for, or waits for what it starts then.
LEMMA UpdateWaits ==
    ASSUME Types, Bounded, WaitingHasRun, NEW m \in msgs, Update(m)
    PROVE  WaitingHasRun'
<1>1. st \in Browsers /\ wv \in WorkspaceState /\ m \in Msgs /\ ctx \in Contexts
      /\ ResetWorkspaces(wv) \in WorkspaceState /\ ResetWorkspaces(wv).status = "idle"
  BY DEF Types, ResetWorkspaces, WorkspaceState
<1>2. ASSUME NEW kinds, Awaited(kinds), m.type = "Result" => m.op.what \notin kinds,
             \A o \in ops : \E q \in ops' : q.what = o.what,
             msgs \ {m} \subseteq msgs'
      PROVE  Awaited(kinds)'
  BY <1>2 DEF Awaited
<1>3. ASSUME m.type # "Result", \A o \in ops : \E q \in ops' : q.what = o.what,
             msgs \ {m} \subseteq msgs'
      PROVE  Kept(ops', msgs')
  BY <1>3 DEF Kept
<1>4. CASE ReadReturns(m)
  <2>1. m.op.what \in Reading /\ ops' = ops /\ wv' = wv /\ msgs' = msgs \ {m}
    BY <1>4 DEF ReadReturns, NoLaunch
  <2>2. st' \in {Listed(st, m.op.todo), ListFailed(st), DetailFailed(st)}
        \/ st' = Detailed(st, CHOOSE a \in m.op.todo : TRUE)
    BY <1>4 DEF ReadReturns, Reading
  <2>3. m.op.todo \in SUBSET Addrs
    BY <1>1, <1>4 DEF ReadReturns, Msgs, Message, Command
  <2>4. st'.status # "loading" /\ (st'.mutating => st.mutating)
    <3>1. CASE st' \in {Listed(st, m.op.todo), ListFailed(st), DetailFailed(st)}
      <4>1. Calm(st, Listed(st, m.op.todo)) /\ Listed(st, m.op.todo).status = "done"
        BY <1>1, <2>3, CalmViews, ReadingViews
      <4>2. /\ Calm(st, ListFailed(st)) /\ ListFailed(st).status = "error"
            /\ Calm(st, DetailFailed(st)) /\ DetailFailed(st).status = "done"
        BY <1>1, CalmViews, ReadingViews
      <4> QED
        BY <3>1, <4>1, <4>2 DEF Calm
    <3>2. ASSUME NEW a, st' = Detailed(st, a)
          PROVE  st'.status # "loading" /\ (st'.mutating => st.mutating)
      BY <1>1, <3>2, CalmViews, ReadingViews DEF Calm
    <3> QED
      BY <2>2, <3>1, <3>2
  <2>5. /\ Awaited(Mutations) => Awaited(Mutations)'
        /\ Awaited(OfWorkspace) => Awaited(OfWorkspace)'
    BY <1>2, <2>1 DEF Reading, Mutations, OfWorkspace
  <2> QED
    BY <2>1, <2>4, <2>5 DEF WaitingHasRun
<1>5. CASE MutationReturns(m)
  <2>1. m.op.what \in Mutations /\ wv' = wv /\ msgs' = msgs \ {m}
    BY <1>5 DEF MutationReturns
  <2>2. ~ st'.mutating
        /\ (st'.status = "loading" => \E o \in ops' : o.what \in Reading)
        /\ \A o \in ops : \E q \in ops' : q.what = o.what
    <3>1. CASE st' = MutationDone(st) /\ LoadState(ctx, TRUE, ops)
      <4>1. Cmd(ctx, "list", {}, {}, TRUE).what \in Reading
        BY DEF Cmd, Reading
      <4> QED
        BY <1>1, <3>1, <4>1, ReadingViews, LaunchKeeps DEF LoadState
    <3>2. CASE st' = ListFailed(st) /\ NoLaunch(ops)
      BY <1>1, <3>2, ReadingViews, LaunchKeeps
    <3> QED
      BY <1>5, <3>1, <3>2 DEF MutationReturns
  <2>3. Awaited(OfWorkspace) => Awaited(OfWorkspace)'
    BY <1>2, <2>1, <2>2 DEF Mutations, OfWorkspace
  <2> QED
    BY <2>1, <2>2, <2>3 DEF WaitingHasRun, Awaited
<1>6. CASE WorkspaceReturns(m)
  <2>1. m.op.what \in OfWorkspace /\ st' = st /\ msgs \ {m} \subseteq msgs'
    BY <1>6 DEF WorkspaceReturns
  <2>2. /\ wv'.status = "loading" => \E o \in ops' : o.what \in OfWorkspace
        /\ \A o \in ops : \E q \in ops' : q.what = o.what
    <3>1. CASE LoadWorkspaces(ctx, ops)
      <4>1. Cmd(ctx, "wlist", {}, {}, FALSE).what \in OfWorkspace
        BY DEF Cmd, OfWorkspace
      <4> QED
        BY <3>1, <4>1, LaunchKeeps DEF LoadWorkspaces
    <3>2. CASE NoLaunch(ops) /\ \E w, ws : wv' \in {WorkspacesFailed(wv), WorkspacesListed(wv, ws, w), WorkspaceLeft(wv, w)}
      <4>1. wv'.status # "loading"
        BY <1>1, <3>2 DEF WorkspacesFailed, WorkspacesListed, WorkspaceLeft, WorkspaceState
      <4> QED
        BY <3>2, <4>1, LaunchKeeps
    <3> QED
      BY <1>6, <3>1, <3>2 DEF WorkspaceReturns
  <2>3. /\ Awaited(Mutations) => Awaited(Mutations)'
        /\ Awaited(Reading) => Awaited(Reading)'
    BY <1>2, <2>1, <2>2 DEF Reading, Mutations, OfWorkspace
  <2> QED
    BY <2>1, <2>2, <2>3 DEF WaitingHasRun, Awaited
<1>7. CASE RequestInput(m) \/ Refused(m) \/ ChangePins(m) \/ PlanInvalidated(m)
  <2>1. m.type # "Result" /\ ops' = ops /\ msgs' = msgs \ {m}
    BY <1>7 DEF RequestInput, Refused, ChangePins, PlanInvalidated
  <2>2. st' \in {st, ResetList(st)} \/ \E as \in SUBSET Addrs : st' = PinsRead(st, as)
    <3>1. CASE ChangePins(m)
      <4>1. pins' \in SUBSET Addrs
        BY UpdateTypes DEF Types
      <4> QED
        BY <3>1, <4>1 DEF ChangePins
    <3> QED
      BY <1>7, <3>1 DEF RequestInput, Refused, PlanInvalidated
  <2>3. Calm(st, st')
    BY <1>1, <2>2, CalmViews
  <2>4. wv' = wv \/ wv'.status # "loading"
    BY <1>1, <1>7 DEF RequestInput, Refused, ChangePins, PlanInvalidated
  <2> QED
    BY <1>3, <2>1, <2>3, <2>4, WaitsOn
<1>8. CASE SwitchContext(m)
  <2>1. m.type # "Result" /\ msgs' = msgs \ {m} /\ SwitchedAway(st) \in Browsers
    BY <1>1, <1>8, ViewTypes DEF SwitchContext
  <2>2. /\ \A o \in ops : \E q \in ops' : q.what = o.what
        /\ \/ st' = SwitchedAway(st)
           \/ st' = Loading(SwitchedAway(st)) /\ \E o \in ops' : o.what \in Reading
        /\ wv' = ResetWorkspaces(wv) \/ \E o \in ops' : o.what \in OfWorkspace
    <3>1. CASE GoBack(ctx', SwitchedAway(st), ResetWorkspaces(wv), ops)
      BY <1>1, <2>1, <3>1, ActivateWaits DEF GoBack
    <3>2. CASE st' = SwitchedAway(st) /\ wv' = ResetWorkspaces(wv) /\ NoLaunch(ops)
      BY <3>2, LaunchKeeps
    <3> QED
      BY <1>8, <3>1, <3>2 DEF SwitchContext
  <2>3. Calm(st, SwitchedAway(st)) /\ CalmButReads(st, Loading(SwitchedAway(st)))
    BY <1>1, CalmViews, ReadingViews
  <2> QED
    BY <1>1, <1>3, <2>1, <2>2, <2>3, WaitsOn
<1>9. CASE Deactivate(m)
  <2>1. m.type # "Result" /\ msgs \ {m} \subseteq msgs'
    BY <1>9 DEF Deactivate, GoHome
  <2>2. /\ \A o \in ops : \E q \in ops' : q.what = o.what
        /\ st' = st \/ (st' = Loading(st) /\ \E o \in ops' : o.what \in Reading)
        /\ wv' = wv \/ \E o \in ops' : o.what \in OfWorkspace
    <3>1. CASE GoBack(ctx, st, wv, Cut(active, ops))
      BY <1>1, <3>1, ActivateWaits DEF GoBack
    <3>2. CASE GoHome(Cut(active, ops), msgs \ {m})
      BY <3>2, LaunchKeeps DEF GoHome
    <3> QED
      BY <1>9, <3>1, <3>2 DEF Deactivate
  <2>3. Calm(st, st) /\ CalmButReads(st, Loading(st))
    BY <1>1, CalmViews, ReadingViews
  <2> QED
    BY <1>3, <2>1, <2>2, <2>3, WaitsOn
<1> QED
  BY <1>4, <1>5, <1>6, <1>7, <1>8, <1>9 DEF Update

\* A view that says it is loading, and a browser that holds back every switch because it
\* changes the state, wait for a command there is: however loads, removals and
\* cancellations overlap, none of them waits for nothing.
THEOREM WaitingIsHeard == Spec => []WaitingHasRun
<1>1. Init => WaitingHasRun
  BY DEF Init, NewStateView, NewWorkspaceView, WaitingHasRun
<1>2. Types /\ Bounded /\ WaitingHasRun /\ [Next]_vars => WaitingHasRun'
  <2> SUFFICES ASSUME Types, Bounded, WaitingHasRun, [Next]_vars
               PROVE  WaitingHasRun'
    OBVIOUS
  <2>1. CASE UNCHANGED vars
    BY <2>1 DEF vars, WaitingHasRun, Awaited
  <2>2. CASE StateKeys
    BY <2>2, StateKeysWait
  <2>3. CASE \/ Answers \/ WorkspaceKeys \/ Leave \/ Quit \/ Elsewhere
             \/ \E v \in {"state", "workspace", "chdir"} : Navigate(v)
    BY <2>3, OtherKeysWait
  <2>4. CASE \E o \in ops : Run(o)
    BY <2>4, RunWaits
  <2>5. CASE \E m \in msgs : Update(m)
    BY <2>5, UpdateWaits
  <2> QED
    BY <2>1, <2>2, <2>3, <2>4, <2>5 DEF Next
<1> QED
  BY <1>1, <1>2, TypesHold, PTL DEF Spec

-----------------------------------------------------------------------------
(* What a step starts *)

\* q is command o, which may have been told to stop.
After(o, q) ==
    /\ q.what = o.what /\ q.dir = o.dir /\ q.svc = o.svc /\ q.addrs = o.addrs
    /\ q.todo = o.todo /\ q.ws = o.ws /\ q.flag = o.flag
    /\ (o.cut => q.cut) /\ (~ q.cut => q = o)

\* Commands that a key or a message starts under Context c, but for a mutation.
Begun(c) == {o \in Ops : o.what \notin Mutations /\ o.dir = c.dir /\ o.svc = c.svc /\ ~ o.cut}

\* A step that starts one of them, or none, and may leave a view.
Starts(c) ==
    \E u : \E os \in {ops, Cut(u, ops)} :
      NoLaunch(os) \/ \E o \in Begun(c) : Launch(o, os)

\* Every step but the end of a command and the confirmation of a mutation.
Handled ==
    \/ StateKeys \/ WorkspaceKeys \/ Decline \/ EnterName \/ CreateWorkspace
    \/ Leave \/ Quit \/ Elsewhere
    \/ \E v \in {"state", "workspace", "chdir"} : Navigate(v)
    \/ \E m \in msgs : Update(m)

\* Only a command that has not been told to stop is the command it was.
LEMMA CutAfter ==
    ASSUME NEW os \in SUBSET Ops, NEW v
    PROVE  /\ \A q \in Cut(v, os) : \E o \in os : After(o, q) /\ (View(q) = v => q.cut)
           /\ \A o \in os : \E q \in Cut(v, os) : After(o, q)
<1> DEFINE c(o) == [o EXCEPT !.cut = @ \/ View(o) = v]
<1>1. ASSUME NEW o \in os
      PROVE  After(o, c(o)) /\ (View(c(o)) = v => c(o).cut)
  <2>1. o \in Command
    BY DEF Ops
  <2>2. /\ c(o).what = o.what /\ c(o).dir = o.dir /\ c(o).svc = o.svc /\ c(o).addrs = o.addrs
        /\ c(o).todo = o.todo /\ c(o).ws = o.ws /\ c(o).flag = o.flag
        /\ c(o).cut = (o.cut \/ View(o) = v)
    BY <2>1 DEF Command
  <2>3. ASSUME ~ (o.cut \/ View(o) = v)
        PROVE  c(o) = o
    <3>1. (o.cut \/ View(o) = v) = FALSE /\ o.cut = FALSE
      BY <2>1, <2>3 DEF Command
    <3> QED
      BY <2>1, <3>1 DEF Command
  <2>4. View(c(o)) = View(o)
    BY <2>2 DEF View
  <2> HIDE DEF c
  <2> QED
    BY <2>2, <2>3, <2>4 DEF After
<1>2. Cut(v, os) = {c(o) : o \in os}
  BY DEF Cut
<1> HIDE DEF c
<1> QED
  BY <1>1, <1>2

\* What runs once a command has been started, or none has.
LEMMA StartedOps ==
    ASSUME Types, NEW u, NEW os \in {ops, Cut(u, ops)}
    PROVE  /\ \A q \in os : \E o \in ops : After(o, q)
           /\ \A o \in ops : \E q \in os : After(o, q)
           /\ \A r \in Ops : Launch(r, os) =>
                /\ r \in ops'
                /\ \A q \in ops' : q = r \/ \E o \in ops : After(o, q) /\ (View(r) = View(q) => q.cut)
                /\ \A o \in ops : \E q \in ops' : After(o, q)
<1>1. ops \in SUBSET Ops /\ os \in SUBSET Ops
  BY CutTypes DEF Types
<1>2. /\ \A q \in os : \E o \in ops : After(o, q)
      /\ \A o \in ops : \E q \in os : After(o, q)
  <2>1. CASE os = ops
    BY <2>1 DEF After
  <2>2. CASE os = Cut(u, ops)
    BY <1>1, <2>2, CutAfter
  <2> QED
    BY <2>1, <2>2
<1>3. ASSUME NEW r \in Ops, Launch(r, os), NEW q \in ops', q # r
      PROVE  \E o \in ops : After(o, q) /\ (View(r) = View(q) => q.cut)
  <2>1. PICK p \in os : After(p, q) /\ (View(q) = View(r) => q.cut)
    BY <1>1, <1>3, CutAfter DEF Launch
  <2>2. PICK o \in ops : After(o, p)
    BY <1>2
  <2> QED
    BY <2>1, <2>2 DEF After
<1>4. ASSUME NEW r \in Ops, Launch(r, os), NEW o \in ops
      PROVE  \E q \in ops' : After(o, q)
  <2>1. PICK p \in os : After(o, p)
    BY <1>2
  <2>2. PICK q \in Cut(View(r), os) : After(p, q)
    BY <1>1, CutAfter
  <2>3. q \in ops' /\ After(o, q)
    BY <1>4, <2>1, <2>2 DEF Launch, After
  <2> QED
    BY <2>3
<1>5. \A r \in Ops : Launch(r, os) => r \in ops'
  BY DEF Launch
<1> QED
  BY <1>2, <1>3, <1>4, <1>5

\* Commands that have not been told to stop: no two of them are the browser's.
Uncut(o) == View(o) = "state" /\ ~ o.cut
OneUncut == \A o, q \in ops : Uncut(o) /\ Uncut(q) => o = q

\* The same of any step that starts at most one.
LEMMA AfterStarts ==
    ASSUME Types, NEW c, Starts(c)
    PROVE  /\ \A q \in ops' : (\E o \in ops : After(o, q)) \/ q \in Begun(c)
           /\ \A o \in ops : \E q \in ops' : After(o, q)
           /\ OneUncut => OneUncut'
<1>1. PICK u : \E os \in {ops, Cut(u, ops)} :
        NoLaunch(os) \/ \E o \in Begun(c) : Launch(o, os)
  BY DEF Starts
<1>2. PICK os \in {ops, Cut(u, ops)} : NoLaunch(os) \/ \E o \in Begun(c) : Launch(o, os)
  BY <1>1
<1>3. CASE NoLaunch(os)
  <2>1. ops' = os
    BY <1>3 DEF NoLaunch
  <2>2. /\ \A q \in ops' : \E o \in ops : After(o, q)
        /\ \A o \in ops : \E q \in ops' : After(o, q)
    BY <2>1, StartedOps
  <2>3. \A q \in ops' : Uncut(q) => q \in ops
    BY <2>2 DEF Uncut, After
  <2> QED
    BY <2>2, <2>3 DEF OneUncut
<1>4. ASSUME NEW r \in Begun(c), Launch(r, os)
      PROVE  /\ \A q \in ops' : (\E o \in ops : After(o, q)) \/ q \in Begun(c)
             /\ \A o \in ops : \E q \in ops' : After(o, q)
             /\ OneUncut => OneUncut'
  <2>1. /\ \A q \in ops' : q = r \/ \E o \in ops : After(o, q) /\ (View(r) = View(q) => q.cut)
        /\ \A o \in ops : \E q \in ops' : After(o, q)
    BY <1>4, StartedOps DEF Begun
  <2>2. \A q \in ops' : Uncut(q) => q = r \/ (q \in ops /\ View(r) # "state")
    BY <2>1 DEF Uncut, After
  <2>3. OneUncut => OneUncut'
    BY <2>2 DEF OneUncut, Uncut
  <2> QED
    BY <2>1, <2>3
<1> QED
  BY <1>2, <1>3, <1>4

\* The loads of the two views, and the commands of their keys, are such commands.
LEMMA BegunBy ==
    ASSUME Types, NEW c \in Contexts, NEW u, NEW os \in {ops, Cut(u, ops)}
    PROVE  /\ \A what \in {"wselect", "wnew", "wdelete"}, ws \in SUBSET Workspaces, flag \in BOOLEAN :
                Launch(Cmd(c, what, {}, ws, flag), os) => Starts(c)
           /\ \A a \in Addrs : Launch(Cmd(c, "detail", {a}, {}, FALSE), os) => Starts(c)
           /\ \A skip \in BOOLEAN : LoadState(c, skip, os) => Starts(c)
           /\ LoadWorkspaces(c, os) => Starts(c)
           /\ NoLaunch(os) => Starts(c)
<1>1. ASSUME NEW what \in Reading \cup OfWorkspace, NEW as \in SUBSET Addrs,
             NEW ws \in SUBSET Workspaces, NEW flag \in BOOLEAN, what = "detail" => as # {}
      PROVE  Launch(Cmd(c, what, as, ws, flag), os) => Starts(c)
  <2>1. Cmd(c, what, as, ws, flag) \in Ops
    BY <1>1, MessageTypes DEF OfState
  <2>2. Cmd(c, what, as, ws, flag) \in Begun(c)
    BY <2>1 DEF Cmd, Begun, Reading, Mutations, OfWorkspace
  <2> QED
    BY <2>2 DEF Starts
<1>2. NoLaunch(os) => Starts(c)
  BY DEF Starts
<1>3. \A what \in {"wselect", "wnew", "wdelete"}, ws \in SUBSET Workspaces, flag \in BOOLEAN :
        Launch(Cmd(c, what, {}, ws, flag), os) => Starts(c)
  BY <1>1 DEF OfWorkspace
<1>4. \A a \in Addrs : Launch(Cmd(c, "detail", {a}, {}, FALSE), os) => Starts(c)
  <2>1. \A a \in Addrs : {a} \in SUBSET Addrs /\ {a} # {}
    OBVIOUS
  <2> QED
    BY <1>1, <2>1 DEF Reading
<1>5. /\ \A skip \in BOOLEAN : LoadState(c, skip, os) => Starts(c)
      /\ LoadWorkspaces(c, os) => Starts(c)
  BY <1>1 DEF LoadState, LoadWorkspaces, Reading, OfWorkspace
<1> QED
  BY <1>2, <1>3, <1>4, <1>5

\* A view that is entered starts its load under the Context it is entered in.
LEMMA ActivateStarts ==
    ASSUME Types, NEW c \in Contexts, NEW v, NEW s, NEW w, NEW u, NEW os \in {ops, Cut(u, ops)},
           Activate(v, c, s, w, os)
    PROVE  Starts(c)
<1>1. LoadState(c, FALSE, os) \/ LoadWorkspaces(c, os) \/ NoLaunch(os)
  BY DEF Activate
<1> QED
  BY <1>1, BegunBy

\* Whatever is pressed or handled starts its command under the Context there is then,
\* and neither touches terraform nor says that the user agreed to anything.
LEMMA HandledStarts ==
    ASSUME Types, Bounded, Handled
    PROVE  Starts(ctx') /\ UNCHANGED <<terraform, confirmed, unclean>>
<1>1. /\ ctx \in Contexts /\ st \in Browsers /\ wv \in WorkspaceState
      /\ wv.confirm \in SUBSET Workspaces
  BY DEF Types, WorkspaceState
<1>2. /\ LoadState(ctx, TRUE, ops) => Starts(ctx)
      /\ LoadWorkspaces(ctx, ops) => Starts(ctx)
      /\ NoLaunch(ops) => Starts(ctx)
      /\ \A v : NoLaunch(Cut(v, ops)) => Starts(ctx)
      /\ UNCHANGED <<ops, nextOp>> => Starts(ctx)
  <2>1. \A v : NoLaunch(Cut(v, ops)) => Starts(ctx)
    BY <1>1, BegunBy
  <2> QED
    BY <1>1, <2>1, BegunBy DEF NoLaunch
<1>3. CASE StateKeys
  <2>1. ctx' = ctx /\ UNCHANGED <<terraform, confirmed, unclean>>
    BY <1>3, StateKeysDo DEF context, ghosts
  <2>2. Starts(ctx)
    <3>1. \/ UNCHANGED <<ops, nextOp>>
          \/ \E a \in Addrs : Launch(Cmd(ctx, "detail", {a}, {}, FALSE), ops)
          \/ LoadState(ctx, TRUE, ops)
      BY <1>3, StateKeysDo
    <3> QED
      BY <1>1, <1>2, <3>1, BegunBy
  <2> QED
    BY <2>1, <2>2
<1>4. ASSUME NEW v, NEW s, NEW w, NEW u, NEW os \in {ops, Cut(u, ops)}, Activate(v, ctx, s, w, os)
      PROVE  Starts(ctx)
  BY <1>1, <1>4, ActivateStarts
<1>5. CASE SelectWorkspace \/ CreateWorkspace \/ AnswerDelete
  <2>1. ctx' = ctx /\ UNCHANGED <<terraform, confirmed, unclean>>
    BY <1>5 DEF SelectWorkspace, CreateWorkspace, AnswerDelete, context, ghosts
  <2>2. \/ \E what \in {"wselect", "wnew", "wdelete"}, ws \in SUBSET Workspaces, flag \in BOOLEAN :
             Launch(Cmd(ctx, what, {}, ws, flag), ops)
        \/ NoLaunch(ops)
    <3>1. Selectable(wv) \in SUBSET Workspaces
      BY <1>1 DEF Selectable, WorkspaceState
    <3>2. \A w \in Workspaces : {w} \in SUBSET Workspaces
      OBVIOUS
    <3>3. CASE SelectWorkspace
      BY <3>1, <3>2, <3>3 DEF SelectWorkspace
    <3>4. CASE CreateWorkspace
      BY <3>2, <3>4 DEF CreateWorkspace
    <3>5. CASE AnswerDelete
      BY <1>1, <3>5 DEF AnswerDelete
    <3> QED
      BY <1>5, <3>3, <3>4, <3>5
  <2> QED
    BY <1>1, <1>2, <2>1, <2>2, BegunBy
<1>6. CASE RefreshWorkspaces \/ NewWorkspace \/ AskDelete \/ SelectMember
  BY <1>2, <1>6 DEF RefreshWorkspaces, NewWorkspace, AskDelete, SelectMember, StateSends, context, ghosts
<1>7. CASE LeaveChdir
  BY <1>2, <1>4, <1>7 DEF LeaveChdir, GoBack, GoHome, context, ghosts
<1>8. CASE Decline \/ EnterName \/ Leave \/ Elsewhere
  BY <1>2, <1>8 DEF Decline, EnterName, Leave, Elsewhere, StateSends, StateKey, context, ghosts
<1>9. CASE Quit
  <2>1. ctx' = ctx /\ UNCHANGED <<terraform, confirmed, unclean>>
    BY <1>9 DEF Quit, StateKey, context, ghosts
  <2>2. UNCHANGED <<ops, nextOp>> \/ NoLaunch(ops) \/ NoLaunch(Cut(active, ops))
    BY <1>9 DEF Quit, StateKey, GoHome
  <2> QED
    BY <1>2, <2>1, <2>2
<1>10. ASSUME NEW v \in {"state", "workspace", "chdir"}, Navigate(v)
       PROVE  Starts(ctx') /\ UNCHANGED <<terraform, confirmed, unclean>>
  BY <1>4, <1>10 DEF Navigate, context, ghosts
<1>11. ASSUME NEW m \in msgs, Update(m)
       PROVE  Starts(ctx') /\ UNCHANGED <<terraform, confirmed, unclean>>
  <2>1. CASE ReadReturns(m) \/ MutationReturns(m) \/ WorkspaceReturns(m)
    <3>1. ctx' = ctx /\ UNCHANGED <<terraform, confirmed, unclean>>
      BY <2>1 DEF ReadReturns, MutationReturns, WorkspaceReturns, context, ghosts
    <3>2. LoadState(ctx, TRUE, ops) \/ LoadWorkspaces(ctx, ops) \/ NoLaunch(ops)
      BY <2>1 DEF ReadReturns, MutationReturns, WorkspaceReturns
    <3> QED
      BY <1>2, <3>1, <3>2
  <2>2. CASE RequestInput(m) \/ Refused(m) \/ ChangePins(m) \/ PlanInvalidated(m)
    BY <1>2, <2>2 DEF RequestInput, Refused, ChangePins, PlanInvalidated, context, ghosts
  <2>3. CASE Deactivate(m)
    <3>1. ctx' = ctx /\ UNCHANGED <<terraform, confirmed, unclean>>
      BY <2>3 DEF Deactivate, context, ghosts
    <3>2. \/ \E v : Activate(v, ctx, st, wv, Cut(active, ops))
          \/ NoLaunch(Cut(active, ops))
      BY <2>3 DEF Deactivate, GoBack, GoHome
    <3> QED
      BY <1>2, <1>4, <3>1, <3>2
  <2>4. CASE SwitchContext(m)
    <3>1. ctx' \in Contexts
      BY <1>11, UpdateTypes DEF Types
    <3>2. UNCHANGED <<terraform, confirmed, unclean>>
      BY <2>4 DEF SwitchContext, ghosts
    <3>3. \/ \E v : Activate(v, ctx', SwitchedAway(st), ResetWorkspaces(wv), ops)
          \/ NoLaunch(ops)
      BY <2>4 DEF SwitchContext, GoBack
    <3> QED
      BY <3>1, <3>2, <3>3, ActivateStarts, BegunBy
  <2> QED
    BY <1>11, <2>1, <2>2, <2>3, <2>4 DEF Update
<1> QED
  BY <1>3, <1>5, <1>6, <1>7, <1>8, <1>9, <1>10, <1>11 DEF Handled, WorkspaceKeys

-----------------------------------------------------------------------------
(* What leaves the state was agreed to *)

\* A question the user has, or will have, in front of him.
Asked(a) == a = prompt \/ \E m \in msgs : m.type = "RequestInput" /\ a = m.ask

\* It is about the directory of the Context, a move is of one resource at most and
\* its new name one address.
WellAsked(a) ==
    /\ a.what \in {"rm", "mvTo", "mv"} => a.dir = ctx.dir
    /\ a.what \in {"mvTo", "mv"} => \E x : a.from \subseteq {x}
    /\ a.what = "mv" => \E y \in Addrs : a.to = {y}

\* Under a question, no switch leads to another directory.
Settled ==
    prompt # NoPrompt \/ (\E m \in msgs : m.type = "RequestInput") =>
      \A m \in msgs : m.type = "ContextSwitch" => m.dir = ctx.dir

\* A mutation has still to do what was agreed to at most.
Backed(o) ==
    /\ o.what \in Mutations => {o.dir} \X o.todo \subseteq confirmed
    /\ o.what = "mv" => (\E x : o.todo \subseteq {x}) /\ \E y \in Addrs : o.addrs = {y}

AgreedFirst ==
    /\ \A a : Asked(a) => WellAsked(a)
    /\ Settled
    /\ \A o \in ops : Backed(o)

\* A key sends one message at most, and asks about the Context there is.
LEMMA KeysAsk ==
    ASSUME Types,
           \/ StateKeys \/ WorkspaceKeys \/ Leave \/ Quit \/ Elsewhere
           \/ \E v \in {"state", "workspace", "chdir"} : Navigate(v)
    PROVE  /\ msgs = {} /\ UNCHANGED <<prompt, ctx>> /\ prompt = NoPrompt
           /\ \E m : /\ msgs' \subseteq {m} /\ m.type # "Result"
                     /\ m.type = "RequestInput" =>
                          \E what \in {"rm", "mvTo", "wnew"} : \E as :
                            /\ what = "mvTo" => \E a : as \subseteq {a}
                            /\ m = Request(Ask(what, as))
<1>1. CASE StateKeys
  <2>1. msgs = {} /\ UNCHANGED <<prompt, ctx>> /\ prompt = NoPrompt
    BY <1>1, StateKeysDo DEF context
  <2>2. \/ msgs' = {}
        \/ \E m : m.type \notin {"RequestInput", "Result"} /\ msgs' = {m}
        \/ \E what \in {"rm", "mvTo"} : \E as : /\ what = "mvTo" => \E a : as \subseteq {a}
                                                /\ msgs' = {Request(Ask(what, as))}
    <3>1. \/ msgs' = msgs
          \/ \E m \in Msgs : m.type \in {"PinToggle", "PinClear", "PlanInvalidated"} /\ msgs' = {m}
          \/ \E what \in {"rm", "mvTo"}, as \in SUBSET Addrs :
               /\ what = "mvTo" => \E a : as \subseteq {a}
               /\ msgs' = {Request(Ask(what, as))}
      BY <1>1, StateKeysDo
    <3> QED
      BY <2>1, <3>1
  <2>3. CASE msgs' = {}
    <3>1. Signal("PinClear").type = "PinClear" /\ msgs' \subseteq {Signal("PinClear")}
      BY <2>3 DEF Signal
    <3> QED
      BY <2>1, <3>1
  <2>4. \A what, as : Request(Ask(what, as)).type = "RequestInput"
    BY DEF Request
  <2> QED
    BY <2>1, <2>2, <2>3, <2>4
<1>2. ASSUME NEW s, NEW m, StateSends(s, m), Key, m.type \notin {"RequestInput", "Result"}
      PROVE  /\ msgs = {} /\ UNCHANGED <<prompt, ctx>> /\ prompt = NoPrompt
             /\ msgs' \subseteq {m} /\ m.type \notin {"RequestInput", "Result"}
  BY <1>2 DEF StateSends, Key, context
<1>3. Signal("PinClear").type = "PinClear"
  BY DEF Signal
<1>4. ASSUME msgs' \subseteq {Signal("PinClear")}
      PROVE  \E m : msgs' \subseteq {m} /\ m.type \notin {"RequestInput", "Result"}
  BY <1>3, <1>4
<1>5. CASE SelectWorkspace \/ AskDelete \/ AnswerDelete \/ RefreshWorkspaces
  <2>1. msgs = {} /\ UNCHANGED <<prompt, ctx, msgs>> /\ prompt = NoPrompt
    BY <1>5 DEF SelectWorkspace, AskDelete, AnswerDelete, RefreshWorkspaces, InWorkspaces,
                KeyIn, Key, context
  <2> QED
    BY <1>3, <2>1
<1>6. CASE NewWorkspace
  <2>1. msgs = {} /\ UNCHANGED <<prompt, ctx>> /\ prompt = NoPrompt
        /\ msgs' = {Request(Ask("wnew", {}))}
    BY <1>6 DEF NewWorkspace, InWorkspaces, KeyIn, Key, StateSends, context
  <2>2. Request(Ask("wnew", {})).type = "RequestInput"
    BY DEF Request
  <2> QED
    BY <2>1, <2>2
<1>7. CASE SelectMember
  <2>1. PICK d \in Chdirs : StateSends(st, SwitchTo(d, Default, 0)) /\ Key
    BY <1>7 DEF SelectMember, KeyIn
  <2>2. SwitchTo(d, Default, 0).type = "ContextSwitch"
    BY DEF SwitchTo
  <2> QED
    BY <1>2, <2>1, <2>2
<1>8. CASE Leave
  <2>1. StateSends(st, Signal("Deactivate")) /\ Key
    BY <1>8 DEF Leave, OnList, KeyIn
  <2>2. Signal("Deactivate").type = "Deactivate"
    BY DEF Signal
  <2> QED
    BY <1>2, <2>1, <2>2
<1>9. CASE LeaveChdir \/ Quit \/ Elsewhere \/ \E v \in {"state", "workspace", "chdir"} : Navigate(v)
  <2>1. msgs = {} /\ prompt = NoPrompt /\ UNCHANGED <<prompt, ctx>>
    BY <1>9 DEF LeaveChdir, Quit, Elsewhere, Navigate, KeyIn, Key, StateKey, context
  <2>2. msgs' = msgs \/ msgs' = msgs \cup {Signal("PinClear")}
    BY <1>9 DEF LeaveChdir, GoHome, Quit, Elsewhere, Navigate, StateKey
  <2> QED
    BY <1>4, <2>1, <2>2
<1> QED
  BY <1>1, <1>5, <1>6, <1>7, <1>8, <1>9 DEF WorkspaceKeys

\* Whatever is pressed, answered or handled, what is asked is asked of the Context.
LEMMA HandledAsks ==
    ASSUME Types, Handled \/ Confirm, \A a : Asked(a) => WellAsked(a), Settled
    PROVE  (\A a : Asked(a) => WellAsked(a))' /\ Settled'
<1>1. NoPrompt.what = "none"
  BY DEF NoPrompt
<1>2. CASE \/ StateKeys \/ WorkspaceKeys \/ Leave \/ Quit \/ Elsewhere
           \/ \E v \in {"state", "workspace", "chdir"} : Navigate(v)
  <2>1. UNCHANGED ctx /\ prompt' = NoPrompt
    BY <1>2, KeysAsk
  <2>2. PICK m : /\ msgs' \subseteq {m}
                 /\ m.type = "RequestInput" =>
                      \E what \in {"rm", "mvTo", "wnew"} : \E as :
                        /\ what = "mvTo" => \E a : as \subseteq {a}
                        /\ m = Request(Ask(what, as))
    BY <1>2, KeysAsk
  <2>3. ASSUME NEW what \in {"rm", "mvTo", "wnew"}, NEW as, what = "mvTo" => \E a : as \subseteq {a},
               m = Request(Ask(what, as))
        PROVE  WellAsked(m.ask)'
    BY <2>1, <2>3 DEF Request, Ask, WellAsked
  <2>4. WellAsked(NoPrompt)'
    BY <1>1 DEF WellAsked
  <2>5. m.type = "RequestInput" => WellAsked(m.ask)'
    BY <2>2, <2>3
  <2>6. Settled'
    BY <2>1, <2>2 DEF Settled
  <2>7. \A a : Asked(a)' => a = NoPrompt \/ (m.type = "RequestInput" /\ a = m.ask)
    BY <2>1, <2>2 DEF Asked
  <2>8. ASSUME NEW a, Asked(a)'
        PROVE  WellAsked(a)'
    BY <2>4, <2>5, <2>7, <2>8
  <2> QED
    BY <2>6, <2>8
<1>3. CASE Decline \/ EnterName \/ Confirm \/ CreateWorkspace
  <2>1. UNCHANGED ctx /\ prompt' = NoPrompt /\ msgs = {} /\ prompt \in Prompts
    BY <1>3 DEF Decline, EnterName, Confirm, CreateWorkspace, Answer, context, Types
  <2>2. WellAsked(NoPrompt)'
    BY <1>1 DEF WellAsked
  <2>3. CASE msgs' = {}
    BY <2>1, <2>2, <2>3 DEF Asked, Settled
  <2>4. ASSUME NEW to \in Addrs, EnterName, msgs' = {Request([prompt EXCEPT !.what = "mv", !.to = {to}])}
        PROVE  (\A a : Asked(a) => WellAsked(a))' /\ Settled'
    <3>1. PICK q : q = [prompt EXCEPT !.what = "mv", !.to = {to}]
      OBVIOUS
    <3>2. q.what = "mv" /\ q.to = {to} /\ q.from = prompt.from /\ q.dir = prompt.dir
      BY <2>1, <3>1 DEF Prompts
    <3>3. prompt.what = "mvTo" /\ WellAsked(prompt)
      BY <2>4 DEF EnterName, Asked
    <3>4. WellAsked(q)'
      BY <2>1, <3>2, <3>3 DEF WellAsked
    <3>5. Request(q).type = "RequestInput" /\ Request(q).ask = q /\ msgs' = {Request(q)}
      BY <2>4, <3>1 DEF Request
    <3> QED
      BY <2>1, <2>2, <3>4, <3>5 DEF Asked, Settled
  <2>5. msgs' = {} \/ (EnterName /\ \E to \in Addrs :
          msgs' = {Request([prompt EXCEPT !.what = "mv", !.to = {to}])})
    BY <1>3, <2>1 DEF Decline, EnterName, Confirm, CreateWorkspace
  <2> QED
    BY <2>3, <2>4, <2>5
<1>4. ASSUME NEW m \in msgs, Update(m), ~ SwitchContext(m), ~ RequestInput(m)
      PROVE  (\A a : Asked(a) => WellAsked(a))' /\ Settled'
  <2>1. UNCHANGED <<ctx, prompt>>
    BY <1>4 DEF Update, ReadReturns, MutationReturns, WorkspaceReturns, Refused, ChangePins,
                Deactivate, PlanInvalidated, context
  <2>2. \/ msgs' \subseteq msgs
        \/ \E w, i : msgs' \subseteq msgs \cup {SwitchTo(ctx.dir, w, i)}
        \/ msgs' \subseteq msgs \cup {Signal("PinClear")}
    <3>1. CASE WorkspaceReturns(m)
      <4>1. msgs' = msgs \ {m} \/ \E w, i : msgs' = (msgs \ {m}) \cup {SwitchTo(ctx.dir, w, i)}
        BY <3>1 DEF WorkspaceReturns
      <4> QED
        BY <4>1
    <3>2. CASE Deactivate(m)
      BY <3>2 DEF Deactivate, GoHome
    <3>3. CASE ReadReturns(m) \/ MutationReturns(m) \/ Refused(m) \/ ChangePins(m) \/ PlanInvalidated(m)
      BY <3>3 DEF ReadReturns, MutationReturns, Refused, ChangePins, PlanInvalidated
    <3> QED
      BY <1>4, <3>1, <3>2, <3>3 DEF Update
  <2>3. /\ \A w, i : /\ SwitchTo(ctx.dir, w, i).type = "ContextSwitch"
                     /\ SwitchTo(ctx.dir, w, i).dir = ctx.dir
        /\ Signal("PinClear").type = "PinClear"
    BY DEF SwitchTo, Signal
  <2>4. \A n \in msgs' : n \in msgs \/ (n.type # "RequestInput" /\
          (n.type = "ContextSwitch" => n.dir = ctx.dir))
    BY <2>2, <2>3
  <2>5. \A a : Asked(a)' => Asked(a)
    BY <2>1, <2>4 DEF Asked
  <2>6. \A a : WellAsked(a)' <=> WellAsked(a)
    BY <2>1 DEF WellAsked
  <2>7. Settled'
    BY <2>1, <2>4 DEF Settled, NoPrompt
  <2> QED
    BY <2>5, <2>6, <2>7
<1>5. ASSUME NEW m \in msgs, RequestInput(m)
      PROVE  (\A a : Asked(a) => WellAsked(a))' /\ Settled'
  <2>1. ctx' = ctx /\ prompt' = m.ask /\ m.type = "RequestInput" /\ msgs' \subseteq msgs
    BY <1>5 DEF RequestInput, context
  <2>2. \A a : (Asked(a)' => Asked(a)) /\ (WellAsked(a)' <=> WellAsked(a))
    BY <2>1 DEF Asked, WellAsked
  <2>3. Settled'
    BY <2>1 DEF Settled
  <2> QED
    BY <2>2, <2>3
<1>6. ASSUME NEW m \in msgs, SwitchContext(m)
      PROVE  (\A a : Asked(a) => WellAsked(a))' /\ Settled'
  <2>1. m.type = "ContextSwitch" /\ prompt' = prompt /\ ctx'.dir = m.dir /\ msgs' \subseteq msgs
    BY <1>6 DEF SwitchContext
  <2>2. \A a : Asked(a)' => Asked(a)
    BY <2>1 DEF Asked
  <2>3. CASE prompt # NoPrompt \/ \E n \in msgs : n.type = "RequestInput"
    <3>1. ctx'.dir = ctx.dir
      BY <2>1, <2>3 DEF Settled
    <3>2. \A a : WellAsked(a)' <=> WellAsked(a)
      BY <3>1 DEF WellAsked
    <3>3. Settled'
      BY <2>1, <2>3, <3>1 DEF Settled
    <3> QED
      BY <2>2, <3>2, <3>3
  <2>4. CASE prompt = NoPrompt /\ \A n \in msgs : n.type # "RequestInput"
    <3>1. \A a : Asked(a)' => a = NoPrompt
      BY <2>1, <2>4 DEF Asked
    <3>2. WellAsked(NoPrompt)'
      BY <1>1 DEF WellAsked
    <3>3. Settled'
      BY <2>1, <2>4 DEF Settled, NoPrompt
    <3> QED
      BY <3>1, <3>2, <3>3
  <2> QED
    BY <2>3, <2>4
<1> QED
  BY <1>2, <1>3, <1>4, <1>5, <1>6 DEF Handled

\* The command that is confirmed does what the prompt asked for.
LEMMA ConfirmStarts ==
    ASSUME Types, Confirm
    PROVE  /\ \E r \in Ops : /\ r.what = prompt.what /\ r.dir = prompt.dir
                            /\ r.addrs = prompt.to /\ r.todo = prompt.from
                            /\ Launch(r, ops)
           /\ prompt.what \in Mutations /\ msgs' = {} /\ st' = [st EXCEPT !.mutating = TRUE]
           /\ confirmed' = confirmed \cup ({ctx.dir} \X prompt.from)
           /\ UNCHANGED <<ctx, store, cache, origin, unclean>>
<1>1. PICK r : r = [Cmd(prompt, prompt.what, prompt.to, {}, FALSE) EXCEPT !.todo = Agreed]
  OBVIOUS
<1>2. /\ prompt \in Prompts /\ prompt.what \in Mutations /\ Launch(r, ops) /\ msgs' = {}
      /\ st' = [st EXCEPT !.mutating = TRUE]
      /\ confirmed' = confirmed \cup ({ctx.dir} \X prompt.from)
      /\ UNCHANGED <<ctx, store, cache, origin, unclean>>
  BY <1>1 DEF Types, Confirm, Answer, context, terraform
<1>3. nextOp \in Nat /\ prompt.dir \in Chdirs /\ prompt.svc \in Services
      /\ prompt.to \in SUBSET Addrs /\ prompt.from \in SUBSET Addrs
  BY <1>2 DEF Types, Prompts
<1>4. /\ r.what = prompt.what /\ r.dir = prompt.dir /\ r.addrs = prompt.to /\ r.todo = prompt.from
      /\ r \in Ops
  BY <1>1, <1>2, <1>3 DEF Cmd, Agreed, Ops, Command, Known, OfState, Mutations
<1> QED
  BY <1>2, <1>4

\* The commands that run are backed, one that has just been confirmed among them.
LEMMA StartsBacked ==
    ASSUME Types, Bounded, AgreedFirst, Handled \/ Confirm
    PROVE  \A o \in ops' : Backed(o)'
<1>1. \A o : Backed(o) /\ confirmed \subseteq confirmed' => Backed(o)'
  BY DEF Backed
<1>2. \A o, q : Backed(o) /\ After(o, q) => Backed(q)
  BY DEF After, Backed
<1>3. CASE Handled
  <2>1. Starts(ctx') /\ confirmed' = confirmed
    BY <1>3, HandledStarts
  <2>2. \A q \in ops' : (\E o \in ops : After(o, q)) \/ q \in Begun(ctx')
    BY <2>1, AfterStarts
  <2>3. \A q \in Begun(ctx') : Backed(q)
    BY DEF Begun, Backed, Mutations
  <2> QED
    BY <1>1, <1>2, <2>1, <2>2, <2>3 DEF AgreedFirst
<1>4. CASE Confirm
  <2>1. /\ prompt.what \in Mutations /\ prompt \in Prompts
        /\ confirmed' = confirmed \cup ({ctx.dir} \X prompt.from)
    BY <1>4, ConfirmStarts DEF Types
  <2>3. PICK r \in Ops : /\ r.what = prompt.what /\ r.dir = prompt.dir /\ r.addrs = prompt.to
                         /\ r.todo = prompt.from /\ Launch(r, ops)
    BY <1>4, ConfirmStarts
  <2>4. \A q \in ops' : q = r \/ \E o \in ops : After(o, q)
    BY <2>3, StartedOps
  <2>5. WellAsked(prompt)
    BY DEF AgreedFirst, Asked
  <2>6. Backed(r)'
    BY <2>1, <2>3, <2>5 DEF WellAsked, Backed, Mutations
  <2> QED
    BY <1>1, <1>2, <2>1, <2>4, <2>6 DEF AgreedFirst
<1> QED
  BY <1>3, <1>4

\* A removal that goes on has less to do; no other command that does has become one.
LEMMA RunBacked ==
    ASSUME Types, AgreedFirst, NEW o \in ops, Run(o)
    PROVE  AgreedFirst'
<1>1. UNCHANGED <<ctx, prompt, confirmed>> /\ o \in Command /\ Backed(o)
  BY DEF Run, context, Types, Ops, AgreedFirst
<1>2. \A n \in msgs' : n \in msgs \/ n.type = "Result"
  <2>1. \A r, ok : Result(r, ok).type = "Result"
    BY DEF Result
  <2> QED
    BY <2>1, RunSends DEF Sends
<1>3. (\A a : Asked(a) => WellAsked(a))'
  <2>1. \A a : (Asked(a)' => Asked(a)) /\ (WellAsked(a)' <=> WellAsked(a))
    BY <1>1, <1>2 DEF Asked, WellAsked
  <2> QED
    BY <2>1 DEF AgreedFirst
<1>4. Settled'
  <2>1. NoPrompt' = NoPrompt
    BY DEF NoPrompt
  <2> QED
    BY <1>1, <1>2, <2>1 DEF AgreedFirst, Settled
<1>5. \/ ops' = ops \ {o}
      \/ \E q : ops' = (ops \ {o}) \cup {q} /\ Backed(q)
  <2>1. CASE RemoveEach(o)
    <3>1. ASSUME NEW a
          PROVE  Backed([o EXCEPT !.todo = @ \ {a}, !.flag = TRUE])
      <4>1. PICK q : q = [o EXCEPT !.todo = @ \ {a}, !.flag = TRUE]
        OBVIOUS
      <4>2. q.what = o.what /\ q.dir = o.dir /\ q.todo = o.todo \ {a} /\ q.what = "rm"
        BY <1>1, <2>1, <4>1 DEF Command, RemoveEach
      <4> QED
        BY <1>1, <4>1, <4>2 DEF Backed
    <3> QED
      BY <2>1, <3>1 DEF RemoveEach, Ends, Sends
  <2>2. CASE ListWorkspaces(o)
    <3>1. PICK q : q = [o EXCEPT !.flag = TRUE, !.ws = exists[o.dir]]
      OBVIOUS
    <3>2. q.what = "wlist"
      BY <1>1, <2>2, <3>1 DEF Command, ListWorkspaces
    <3>3. Backed(q)
      BY <3>2 DEF Backed, Mutations
    <3> QED
      BY <2>2, <3>1, <3>3 DEF ListWorkspaces, Fails, Ends, Sends
  <2>3. CASE Read(o) \/ Move(o) \/ SwitchWorkspace(o) \/ DeleteWorkspace(o)
    BY <2>3 DEF Read, Move, SwitchWorkspace, DeleteWorkspace, Fails, Ends, Sends
  <2> QED
    BY <2>1, <2>2, <2>3 DEF Run
<1>6. (\A q \in ops : Backed(q))'
  BY <1>1, <1>5 DEF AgreedFirst, Backed
<1> QED
  BY <1>3, <1>4, <1>6 DEF AgreedFirst

\* What terraform's state loses in a step of a command was agreed to.
LEMMA RunEdits ==
    ASSUME Types, AgreedFirst, NEW o \in ops, Run(o)
    PROVE  [Edits!Next]_<<store, confirmed>>
<1>1. /\ o \in Command /\ Backed(o) /\ confirmed' = confirmed
      /\ store \in [Chdirs -> [Workspaces -> SUBSET Addrs]]
      /\ o.dir \in Chdirs /\ selected[o.dir] \in Workspaces
  BY DEF Run, Types, Ops, AgreedFirst, Command
<1> DEFINE w == selected[o.dir]
<1>2. ASSUME NEW as, Write(o, as), as = Current(o)
      PROVE  store' = store
  BY <1>1, <1>2 DEF Write, Current
<1>3. CASE RemoveEach(o)
  <2>1. ASSUME NEW a \in o.todo, Write(o, Current(o) \ {a})
        PROVE  Edits!Remove
    <3>1. PICK p \in confirmed : p = <<o.dir, a>>
      BY <1>1, <1>3, <2>1 DEF Backed, RemoveEach, Mutations
    <3>2. store' = [store EXCEPT ![p[1]][w] = @ \ {p[2]}]
      BY <1>1, <2>1, <3>1 DEF Write, Current
    <3> QED
      BY <1>1, <3>2 DEF Edits!Remove
  <2>2. \/ \E a \in o.todo : Write(o, Current(o) \ {a})
        \/ Write(o, Current(o) \ {})
    BY <1>3 DEF RemoveEach
  <2>3. Current(o) \ {} = Current(o)
    OBVIOUS
  <2>4. Edits!Remove \/ store' = store
    BY <1>2, <2>1, <2>2, <2>3
  <2> QED
    BY <1>1, <2>4 DEF Edits!Next
<1>4. CASE Move(o)
  <2>1. ASSUME Write(o, (Current(o) \ o.todo) \cup o.addrs), o.todo # {},
               o.todo \subseteq Current(o), o.addrs \cap Current(o) = {}
        PROVE  Edits!Rename
    <3>0. PICK x : o.todo \subseteq {x}
      BY <1>1, <1>4 DEF Backed, Move
    <3>1. o.todo = {x}
      BY <2>1, <3>0
    <3>2. PICK y \in Addrs : o.addrs = {y}
      BY <1>1, <1>4 DEF Backed, Move
    <3>3. PICK p \in confirmed : p = <<o.dir, x>>
      BY <1>1, <1>4, <3>1 DEF Backed, Move, Mutations
    <3>4. y \in Addrs \ store[p[1]][w] /\ p[2] \in store[p[1]][w]
      BY <1>1, <2>1, <3>1, <3>2, <3>3 DEF Current
    <3>5. store' = [store EXCEPT ![p[1]][w] = (@ \ {p[2]}) \cup {y}]
      BY <1>1, <2>1, <3>1, <3>2, <3>3 DEF Write, Current
    <3> QED
      BY <1>1, <3>4, <3>5 DEF Edits!Rename
  <2> QED
    BY <1>1, <1>4, <2>1 DEF Move, Edits!Next
<1>5. CASE Read(o) \/ ListWorkspaces(o) \/ SwitchWorkspace(o) \/ DeleteWorkspace(o)
  <2>1. store' = store
    BY <1>5 DEF Read, ListWorkspaces, SwitchWorkspace, DeleteWorkspace, Fails, terraform
  <2> QED
    BY <1>1, <2>1
<1> QED
  BY <1>3, <1>4, <1>5 DEF Run

\* Every question, every command and every switch under way honours what was agreed.
LEMMA AgreedAlways == Spec => []AgreedFirst
<1>1. Init => AgreedFirst
  BY DEF Init, AgreedFirst, Asked, WellAsked, Settled, NoPrompt
<1>2. Types /\ Bounded /\ AgreedFirst /\ [Next]_vars => AgreedFirst'
  <2> SUFFICES ASSUME Types, Bounded, AgreedFirst, [Next]_vars
               PROVE  AgreedFirst'
    OBVIOUS
  <2>1. CASE UNCHANGED vars
    BY <2>1 DEF vars, AgreedFirst, Asked, WellAsked, Settled, Backed, NoPrompt
  <2>2. CASE Handled \/ Confirm
    BY <2>2, HandledAsks, StartsBacked DEF AgreedFirst
  <2>3. CASE \E o \in ops : Run(o)
    BY <2>3, RunBacked
  <2> QED
    BY <2>1, <2>2, <2>3 DEF Next, Handled, Answers
<1> QED
  BY <1>1, <1>2, TypesHold, PTL DEF Spec

\* The browser implements ConfirmedEdits: what leaves the state of a directory is what the
\* user was asked about and agreed to there, one resource at a time, whatever has been
\* pinned, switched or reloaded between the question, the answer and the turn of the
\* command (requestDelete, batchDelete, requestMove).
THEOREM BrowserImplementsConfirmedEdits == Spec => ImplementsConfirmedEdits
<1>1. Init => Edits!Init
  <2>1. Init => store \in [Chdirs -> [Workspaces -> SUBSET Addrs]] /\ confirmed = {}
    BY DEF Init
  <2> QED
    BY <2>1 DEF Edits!Init
<1>2. Types /\ Bounded /\ AgreedFirst /\ [Next]_vars => [Edits!Next]_<<store, confirmed>>
  <2> SUFFICES ASSUME Types, Bounded, AgreedFirst, [Next]_vars
               PROVE  [Edits!Next]_<<store, confirmed>>
    OBVIOUS
  <2>1. CASE UNCHANGED vars
    BY <2>1 DEF vars
  <2>2. CASE Handled
    BY <2>2, HandledStarts DEF terraform
  <2>3. CASE Confirm
    <3>1. /\ store' = store /\ ctx.dir \in Chdirs /\ prompt.from \in SUBSET Addrs
          /\ confirmed' = confirmed \cup ({ctx.dir} \X prompt.from)
      BY <2>3 DEF Confirm, terraform, Types, Contexts, Prompts
    <3> QED
      BY <3>1 DEF Edits!Agree, Edits!Next
  <2>4. CASE \E o \in ops : Run(o)
    BY <2>4, RunEdits
  <2> QED
    BY <2>1, <2>2, <2>3, <2>4 DEF Next, Handled, Answers
<1> QED
  BY <1>1, <1>2, TypesHold, AgreedAlways, PTL DEF Spec, ImplementsConfirmedEdits, Edits!Spec

-----------------------------------------------------------------------------
(* What the list shows is there *)

\* Browser t lists what s does, or nothing.
SameRows(s, t) == t.listed = s.listed \/ t.listed = {}

\* Only a list that is read brings other rows.
LEMMA RowsOfViews ==
    ASSUME NEW s \in Browsers
    PROVE  /\ \A as \in SUBSET Addrs :
                /\ SameRows(s, PinsRead(s, as)) /\ SameRows(s, PaletteOpened(s, as))
                /\ \A q \in BOOLEAN : SameRows(s, SetFilter(s, q, as))
                /\ \A q \in BOOLEAN : SameRows(s, SetFilter([s EXCEPT !.pinnedOnly = ~@], q, as))
                /\ SameRows(s, PinsRead([s EXCEPT !.pinnedOnly = FALSE], as))
                /\ Listed(s, as).listed = as
           /\ \A a : SameRows(s, Detailed(s, a))
           /\ SameRows(s, s) /\ SameRows(s, FilterOpened(s)) /\ SameRows(s, FilterClosed(s))
           /\ SameRows(s, DetailClosed(s)) /\ SameRows(s, PaletteClosed(s))
           /\ SameRows(s, ClearFrames(s)) /\ SameRows(s, DetailFailed(s))
           /\ SameRows(s, ListFailed(s)) /\ SameRows(s, Loading(s)) /\ SameRows(s, Inspecting(s))
           /\ SameRows(s, [s EXCEPT !.mutating = TRUE])
           /\ ResetList(s).listed = {} /\ SwitchedAway(s).listed = {} /\ Refreshed(s).listed = {}
           /\ Loading(SwitchedAway(s)).listed = {} /\ MutationDone(s).listed = {}
<1>1. s \in StateState
  BY DEF Browsers
<1>2. \A t \in StateState : \A f : /\ PushFrame(t, f).listed = t.listed
                                   /\ PopFrame(t).listed = t.listed
                                   /\ Loading(t).listed = t.listed
                                   /\ ClearFrames(t).listed = t.listed
                                   /\ ResetList(t).listed = {}
  BY DEF PushFrame, PopFrame, Loading, ClearFrames, ResetList, StateState
<1>3. /\ \A t \in StateState, q \in BOOLEAN, as \in SUBSET Addrs : SetFilter(t, q, as).listed = t.listed
      /\ \A t \in StateState, as \in SUBSET Addrs : PinsRead(t, as).listed = t.listed
  <2>1. \A t \in StateState, q \in BOOLEAN, as \in SUBSET Addrs : SetFilter(t, q, as).listed = t.listed
    BY DEF SetFilter, StateState
  <2> QED
    BY <2>1 DEF PinsRead, StateState
<1>4. /\ [s EXCEPT !.pinnedOnly = ~@] \in StateState
      /\ [s EXCEPT !.pinnedOnly = ~@].listed = s.listed
      /\ [s EXCEPT !.pinnedOnly = FALSE] \in StateState
      /\ [s EXCEPT !.pinnedOnly = FALSE].listed = s.listed
      /\ [s EXCEPT !.status = "done", !.detail = {}] \in StateState
      /\ [s EXCEPT !.status = "done", !.detail = {}].listed = s.listed
      /\ [s EXCEPT !.mutating = TRUE].listed = s.listed
      /\ \A as \in SUBSET Addrs : [s EXCEPT !.targets = as] \in StateState
                                  /\ [s EXCEPT !.targets = as].listed = s.listed
  BY <1>1 DEF StateState, StateStatuses
<1>5. /\ [s EXCEPT !.filter = FALSE, !.shown = s.listed] \in StateState
      /\ [s EXCEPT !.filter = FALSE, !.shown = s.listed].listed = s.listed
  BY <1>1 DEF StateState
<1>6. ASSUME NEW as \in SUBSET Addrs
      PROVE  /\ SameRows(s, PinsRead(s, as)) /\ SameRows(s, PaletteOpened(s, as))
             /\ \A q \in BOOLEAN : SameRows(s, SetFilter(s, q, as))
             /\ \A q \in BOOLEAN : SameRows(s, SetFilter([s EXCEPT !.pinnedOnly = ~@], q, as))
             /\ SameRows(s, PinsRead([s EXCEPT !.pinnedOnly = FALSE], as))
             /\ Listed(s, as).listed = as
  <2>1. SameRows(s, PinsRead(s, as)) /\ \A q \in BOOLEAN : SameRows(s, SetFilter(s, q, as))
    BY <1>1, <1>3 DEF SameRows
  <2>2. SameRows(s, PaletteOpened(s, as))
    <3>1. PICK t : t = [s EXCEPT !.targets = as]
      OBVIOUS
    <3>2. t \in StateState /\ t.listed = s.listed
      BY <1>4, <3>1
    <3>3. PushFrame(t, "actions").listed = s.listed
      BY <1>2, <3>2
    <3> QED
      BY <3>1, <3>3 DEF PaletteOpened, SameRows
  <2>3. PICK t : t = [s EXCEPT !.pinnedOnly = ~@]
    OBVIOUS
  <2>4. PICK u : u = [s EXCEPT !.pinnedOnly = FALSE]
    OBVIOUS
  <2>5. t \in StateState /\ t.listed = s.listed /\ u \in StateState /\ u.listed = s.listed
    BY <1>4, <2>3, <2>4
  <2>6. (\A q \in BOOLEAN : SameRows(s, SetFilter(t, q, as))) /\ SameRows(s, PinsRead(u, as))
    BY <1>3, <2>5 DEF SameRows
  <2>7. Listed(s, as).listed = as
    BY <1>1 DEF Listed, StateState
  <2> QED
    BY <2>1, <2>2, <2>3, <2>4, <2>6, <2>7
<1>7. \A a : SameRows(s, Detailed(s, a))
  BY <1>1 DEF SameRows, Detailed, PushFrame, StateState
<1>8. /\ SameRows(s, s) /\ SameRows(s, FilterOpened(s)) /\ SameRows(s, FilterClosed(s))
      /\ SameRows(s, DetailClosed(s)) /\ SameRows(s, PaletteClosed(s)) /\ SameRows(s, ClearFrames(s))
  <2>1. SameRows(s, s) /\ SameRows(s, FilterClosed(s)) /\ SameRows(s, ClearFrames(s))
    BY <1>1, <1>2 DEF SameRows, FilterClosed
  <2>2. SameRows(s, FilterOpened(s))
    BY <1>1, <1>2, <1>5 DEF SameRows, FilterOpened
  <2>3. SameRows(s, DetailClosed(s))
    BY <1>1 DEF SameRows, DetailClosed, PopFrame, StateState
  <2>4. SameRows(s, PaletteClosed(s))
    BY <1>1 DEF SameRows, PaletteClosed, PopFrame, StateState
  <2> QED
    BY <2>1, <2>2, <2>3, <2>4
<1>9. /\ SameRows(s, DetailFailed(s)) /\ SameRows(s, ListFailed(s))
      /\ SameRows(s, [s EXCEPT !.mutating = TRUE])
  BY <1>1 DEF SameRows, DetailFailed, ListFailed, StateState
<1>10. SameRows(s, Loading(s)) /\ SameRows(s, Inspecting(s))
  <2>1. /\ SameRows(s, Loading(s))
        /\ PopFrame(s).listed = s.listed
    BY <1>1, <1>2 DEF SameRows
  <2>2. Inspecting(s).listed = s.listed
    BY <1>1, <2>1 DEF Inspecting, Loading, PopFrame, StateState
  <2> QED
    BY <2>1, <2>2 DEF SameRows
<1>11. ResetList(s).listed = {} /\ SwitchedAway(s).listed = {} /\ Refreshed(s).listed = {}
       /\ Loading(SwitchedAway(s)).listed = {} /\ MutationDone(s).listed = {}
  BY <1>1 DEF ResetList, SwitchedAway, Refreshed, Loading, ClearFrames, MutationDone, StateState
<1> QED
  BY <1>6, <1>7, <1>8, <1>9, <1>10, <1>11

\* A key or a message that is handled leaves the rows, takes them away, or brings those of
\* a list that has been read.
LEMMA HandledRows ==
    ASSUME Types, Bounded, Handled
    PROVE  \/ origin' = origin /\ SameRows(st, st')
           \/ \E m \in msgs : /\ m.type = "Result" /\ m.op.what = "list" /\ m.ok
                              /\ st'.listed = m.op.todo
                              /\ m.op.cut => origin' = {}
                              /\ ~ m.op.cut => origin' = {[dir |-> m.op.dir, ws |-> w] : w \in m.op.ws}
<1>1. st \in Browsers /\ pins \in SUBSET Addrs /\ pins' \in SUBSET Addrs
      /\ ActionTargets(st, pins) \subseteq SUBSET Addrs
  <2>1. Types'
    BY NextTypes DEF Handled, Next, Answers
  <2>2. st.shown \in SUBSET Addrs
    BY DEF Types, Browsers, StateState
  <2> QED
    BY <2>1, <2>2 DEF Types, ActionTargets
<1>2. /\ SameRows(st, st) /\ SameRows(st, ClearFrames(st)) /\ SameRows(st, ResetList(st))
      /\ SameRows(st, Loading(st)) /\ SameRows(st, Refreshed(st)) /\ SameRows(st, Inspecting(st))
      /\ SameRows(st, SwitchedAway(st)) /\ SameRows(st, Loading(SwitchedAway(st)))
      /\ SameRows(st, ListFailed(st)) /\ SameRows(st, DetailFailed(st)) /\ SameRows(st, MutationDone(st))
      /\ \A a : SameRows(st, Detailed(st, a))
  BY <1>1, RowsOfViews DEF SameRows
<1>3. CASE StateKeys
  <2>1. origin' = origin
    BY <1>3, StateKeysDo DEF ghosts
  <2>2. st.filter \in BOOLEAN
    BY DEF Types, Browsers, StateState
  <2>3. CASE OpenFilter \/ TypeFilter \/ ToggleTree \/ TogglePinnedOnly \/ ClearAllPins
    <3>1. CASE OpenFilter \/ TypeFilter \/ ToggleTree
      <4>1. SameRows(st, FilterOpened(st)) /\ \A q \in BOOLEAN : SameRows(st, SetFilter(st, q, pins))
        BY <1>1, RowsOfViews
      <4> QED
        BY <2>1, <2>2, <3>1, <4>1 DEF OpenFilter, TypeFilter, ToggleTree, StateKey
    <3>2. CASE TogglePinnedOnly
      <4>1. SameRows(st, SetFilter([st EXCEPT !.pinnedOnly = ~@], st.filter, pins))
        BY <1>1, <2>2, RowsOfViews
      <4> QED
        BY <2>1, <3>2, <4>1 DEF TogglePinnedOnly, StateKey
    <3>3. CASE ClearAllPins
      <4>1. SameRows(st, PinsRead([st EXCEPT !.pinnedOnly = FALSE], pins))
        BY <1>1, RowsOfViews
      <4> QED
        BY <2>1, <3>3, <4>1 DEF ClearAllPins, StateSends
    <3> QED
      BY <2>3, <3>1, <3>2, <3>3
  <2>4. CASE TogglePins \/ RequestDelete \/ RequestMove \/ Edit
    <3>1. st' = st
      BY <2>4 DEF TogglePins, RequestDelete, RequestMove, Edit, StateSends
    <3> QED
      BY <1>2, <2>1, <3>1
  <2>5. CASE OpenPalette \/ PickAction \/ CloseFrame
    <3>1. SameRows(st, st')
      BY <1>1, <2>5, RowsOfViews DEF OpenPalette, PickAction, CloseFrame, StateKey, StateSends
    <3> QED
      BY <2>1, <3>1
  <2>6. CASE Inspect \/ RefreshKey
    BY <1>2, <2>1, <2>6 DEF Inspect, RefreshKey
  <2> QED
    BY <1>3, <2>3, <2>4, <2>5, <2>6 DEF StateKeys
<1>4. ASSUME NEW v, NEW c, NEW w, NEW os, Activate(v, c, st, w, os)
      PROVE  SameRows(st, st')
  BY <1>2, <1>4 DEF Activate
<1>5. CASE SelectWorkspace \/ CreateWorkspace \/ AnswerDelete \/ RefreshWorkspaces \/ NewWorkspace
           \/ AskDelete \/ SelectMember \/ Decline \/ EnterName \/ Leave
  BY <1>2, <1>5 DEF SelectWorkspace, CreateWorkspace, AnswerDelete, RefreshWorkspaces, NewWorkspace,
                    AskDelete, SelectMember, Decline, EnterName, Leave, StateSends, ghosts
<1>6. CASE LeaveChdir \/ Quit \/ Elsewhere
  BY <1>2, <1>4, <1>6 DEF LeaveChdir, Quit, Elsewhere, GoBack, GoHome, StateKey, ghosts
<1>7. ASSUME NEW v \in {"state", "workspace", "chdir"}, Navigate(v)
      PROVE  origin' = origin /\ SameRows(st, st')
  BY <1>4, <1>7 DEF Navigate, ghosts
<1>8. ASSUME NEW m \in msgs, ReadReturns(m), ~ (m.op.what = "list" /\ m.ok)
      PROVE  origin' = origin /\ SameRows(st, st')
  BY <1>2, <1>8 DEF ReadReturns, Reading
<1>9. ASSUME NEW m \in msgs, ReadReturns(m), m.op.what = "list", m.ok
      PROVE  /\ m.type = "Result" /\ m.op.what = "list" /\ m.ok
             /\ st'.listed = m.op.todo
             /\ m.op.cut => origin' = {}
             /\ ~ m.op.cut => origin' = {[dir |-> m.op.dir, ws |-> w] : w \in m.op.ws}
  <2>1. m.type = "Result" /\ st' = Listed(st, m.op.todo)
    BY <1>9 DEF ReadReturns
  <2>2. m.op.todo \in SUBSET Addrs
    BY <2>1 DEF Types, Msgs, Message, Command
  <2>3. st'.listed = m.op.todo
    BY <1>1, <2>1, <2>2, RowsOfViews
  <2>4. /\ m.op.cut => origin' = {}
        /\ ~ m.op.cut => origin' = {[dir |-> m.op.dir, ws |-> w] : w \in m.op.ws}
    BY <1>9 DEF ReadReturns
  <2> QED
    BY <1>9, <2>1, <2>3, <2>4
<1>10. ASSUME NEW m \in msgs,
              \/ MutationReturns(m) \/ WorkspaceReturns(m) \/ RequestInput(m) \/ Refused(m)
              \/ PlanInvalidated(m)
       PROVE  origin' = origin /\ SameRows(st, st')
  BY <1>2, <1>10 DEF MutationReturns, WorkspaceReturns, RequestInput, Refused, PlanInvalidated, ghosts
<1>11. ASSUME NEW m \in msgs, ChangePins(m)
       PROVE  origin' = origin /\ SameRows(st, st')
  BY <1>1, <1>2, <1>11, RowsOfViews DEF ChangePins, ghosts
<1>12. ASSUME NEW m \in msgs, Deactivate(m)
       PROVE  origin' = origin /\ SameRows(st, st')
  BY <1>2, <1>4, <1>12 DEF Deactivate, GoBack, GoHome, ghosts
<1>13. ASSUME NEW m \in msgs, SwitchContext(m)
       PROVE  origin' = origin /\ SameRows(st, st')
  <2>1. st' \in {SwitchedAway(st), Loading(SwitchedAway(st))} /\ origin' = origin
    BY <1>13 DEF SwitchContext, GoBack, Activate, ghosts
  <2> QED
    BY <1>2, <2>1
<1> QED
  BY <1>3, <1>5, <1>6, <1>7, <1>8, <1>9, <1>10, <1>11, <1>12, <1>13 DEF Handled, WorkspaceKeys, Update

\* It brings no result, and takes that of a mutation that succeeded with the rows.
LEMMA HandledResults ==
    ASSUME Types, Handled \/ Confirm
    PROVE  /\ \A n \in msgs' : n.type = "Result" => n \in msgs
           /\ \A n \in msgs : n.type = "Result" /\ n.op.what \in Mutations /\ n.ok =>
                n \in msgs' \/ st'.listed = {}
<1>1. CASE \/ StateKeys \/ WorkspaceKeys \/ Leave \/ Quit \/ Elsewhere
           \/ \E v \in {"state", "workspace", "chdir"} : Navigate(v)
  BY <1>1, KeysAsk
<1>2. CASE Decline \/ EnterName \/ Confirm \/ CreateWorkspace
  <2>1. \A a : Request(a).type = "RequestInput"
    BY DEF Request
  <2>2. msgs = {} /\ \A n \in msgs' : n.type = "RequestInput"
    BY <1>2, <2>1 DEF Decline, EnterName, Confirm, CreateWorkspace, Answer
  <2> QED
    BY <2>2
<1>3. ASSUME NEW m \in msgs, Update(m)
      PROVE  /\ \A n \in msgs' : n.type = "Result" => n \in msgs
             /\ \A n \in msgs : n.type = "Result" /\ n.op.what \in Mutations /\ n.ok =>
                  n \in msgs' \/ st'.listed = {}
  <2>1. CASE MutationReturns(m)
    <3>1. msgs' = msgs \ {m} /\ (m.ok => st' = MutationDone(st))
      BY <2>1 DEF MutationReturns
    <3>2. MutationDone(st).listed = {}
      BY RowsOfViews DEF Types
    <3> QED
      BY <3>1, <3>2
  <2>2. CASE WorkspaceReturns(m)
    <3>1. m.op.what \in OfWorkspace
          /\ (msgs' = msgs \ {m} \/ \E d, w, i : msgs' = (msgs \ {m}) \cup {SwitchTo(d, w, i)})
      BY <2>2 DEF WorkspaceReturns
    <3>2. \A d, w, i : SwitchTo(d, w, i).type = "ContextSwitch"
      BY DEF SwitchTo
    <3> QED
      BY <3>1, <3>2 DEF OfWorkspace, Mutations
  <2>3. CASE ReadReturns(m)
    BY <2>3 DEF ReadReturns, Reading, Mutations
  <2>4. CASE Deactivate(m)
    <3>1. Signal("PinClear").type = "PinClear"
      BY DEF Signal
    <3>2. m.type = "Deactivate" /\ (msgs' = msgs \ {m} \/ msgs' = (msgs \ {m}) \cup {Signal("PinClear")})
      BY <2>4 DEF Deactivate, GoHome
    <3> QED
      BY <3>1, <3>2
  <2>5. CASE RequestInput(m) \/ Refused(m) \/ ChangePins(m) \/ SwitchContext(m) \/ PlanInvalidated(m)
    BY <2>5 DEF RequestInput, Refused, ChangePins, SwitchContext, PlanInvalidated
  <2> QED
    BY <1>3, <2>1, <2>2, <2>3, <2>4, <2>5 DEF Update
<1> QED
  BY <1>1, <1>2, <1>3 DEF Handled

\* The Context stays, or another with a service of its own takes its place.
LEMMA HandledContext ==
    ASSUME Types, Handled \/ Confirm
    PROVE  ctx' = ctx \/ ctx'.svc = ctx.svc + 1
<1>1. CASE \/ StateKeys \/ WorkspaceKeys \/ Leave \/ Quit \/ Elsewhere
           \/ \E v \in {"state", "workspace", "chdir"} : Navigate(v)
  BY <1>1, KeysAsk
<1>2. CASE Decline \/ EnterName \/ Confirm \/ CreateWorkspace
  BY <1>2 DEF Decline, EnterName, Confirm, CreateWorkspace, context
<1>3. ASSUME NEW m \in msgs, Update(m)
      PROVE  ctx' = ctx \/ ctx'.svc = ctx.svc + 1
  <2>1. CASE SwitchContext(m)
    BY <2>1 DEF SwitchContext
  <2>2. CASE ~ SwitchContext(m)
    BY <1>3, <2>2 DEF Update, ReadReturns, MutationReturns, WorkspaceReturns, RequestInput, Refused,
                      ChangePins, Deactivate, PlanInvalidated, context
  <2> QED
    BY <2>1, <2>2
<1> QED
  BY <1>1, <1>2, <1>3 DEF Handled

-----------------------------------------------------------------------------
(* Why it is: what has been read is thrown away before it can be wrong *)

\* While a mutation that nobody has stopped runs, every list that waits to be handled was
\* read by a load that has been cancelled.
NoStale ==
    (\E o \in ops : Uncut(o) /\ o.what \in Mutations) =>
      \A m \in msgs : m.type = "Result" /\ m.op.what = "list" => m.op.cut

\* A read asks a service there has been, and the one there is about the Context's directory.
Under ==
    \A o \in ops : o.what \in Reading => o.svc <= ctx.svc /\ (o.svc = ctx.svc => o.dir = ctx.dir)

\* A service to come has cached nothing.
Unserved == \A s \in Services : s > ctx.svc => cache[s] = {}

\* What was read in directory d is what is there.
Valid(d, snap) == snap.addrs = store[d][snap.ws]

\* What the service of the Context has cached, what a read can find in a cache, and what a
\* list will bring, unless its load has been cancelled.
CacheTrue == \A snap \in cache[ctx.svc] : Valid(ctx.dir, snap)

ReadsTrue ==
    \A o \in ops : o.what \in Reading /\ ~ o.cut => \A snap \in cache[o.svc] : Valid(o.dir, snap)

ListTrue(m) ==
    m.type = "Result" /\ m.op.what = "list" /\ m.ok /\ ~ m.op.cut =>
      \A w \in m.op.ws : m.op.todo = store[m.op.dir][w]

\* A mutation has changed the state and the browser does not know yet.
Written ==
    \/ \E o \in ops : o.what = "rm" /\ o.flag
    \/ \E m \in msgs : m.type = "Result" /\ m.op.what \in Mutations /\ m.ok

RowsTrue ==
    st.listed # {} /\ ~ Written => \A p \in origin : st.listed = store[p.dir][p.ws]

Orderly  == OneUncut /\ NoStale /\ Under /\ Unserved
Faithful == CacheTrue /\ ReadsTrue /\ (\A m \in msgs : ListTrue(m)) /\ RowsTrue

Trusted == Orderly /\ (~ unclean => Faithful)

\* Keys, answers and messages keep the order of loads and mutations.
LEMMA HandledOrderly ==
    ASSUME Types, Bounded, Orderly, Handled \/ Confirm
    PROVE  Orderly'
<1>1. ctx.svc \in Nat /\ ops \subseteq Ops
  BY DEF Types, Contexts, Services
<1>2. /\ \A q \in ops' : \/ \E o \in ops : After(o, q)
                         \/ q.what \in Reading => q.svc = ctx'.svc /\ q.dir = ctx'.dir
      /\ \A q \in ops' : Uncut(q) /\ q.what \in Mutations => q \in ops \/ msgs' = {}
      /\ OneUncut'
      /\ cache' = cache
  <2>1. CASE Handled
    <3>1. Starts(ctx') /\ cache' = cache
      BY <2>1, HandledStarts DEF terraform
    <3>2. /\ \A q \in ops' : (\E o \in ops : After(o, q)) \/ q \in Begun(ctx')
          /\ OneUncut'
      BY <3>1, AfterStarts DEF Orderly
    <3>3. \A q \in Begun(ctx') : q.what \notin Mutations /\ q.svc = ctx'.svc /\ q.dir = ctx'.dir
      BY DEF Begun
    <3>4. \A q \in ops' : Uncut(q) /\ q.what \in Mutations => q \in ops
      BY <3>2, <3>3 DEF Uncut, After
    <3> QED
      BY <3>1, <3>2, <3>3, <3>4
  <2>2. CASE Confirm
    <3>2. prompt.what \in Mutations /\ msgs' = {} /\ cache' = cache
      BY <2>2, ConfirmStarts
    <3>3. PICK r \in Ops : r.what = prompt.what /\ Launch(r, ops)
      BY <2>2, ConfirmStarts
    <3>4. \A q \in ops' : q = r \/ \E o \in ops : After(o, q) /\ (View(r) = View(q) => q.cut)
      BY <3>3, StartedOps
    <3>5. View(r) = "state"
      BY <3>2, <3>3 DEF View, OfState
    <3>6. \A q \in ops' : Uncut(q) => q = r
      BY <3>4, <3>5 DEF Uncut
    <3>7. OneUncut'
      BY <3>6 DEF OneUncut, Uncut, View
    <3>8. \A q \in ops' : (\E o \in ops : After(o, q)) \/ q.what \notin Reading
      BY <3>2, <3>3, <3>4 DEF After, Mutations, Reading
    <3> QED
      BY <3>2, <3>7, <3>8
  <2> QED
    BY <2>1, <2>2
<1>3. ctx' = ctx \/ ctx'.svc = ctx.svc + 1
  BY HandledContext
<1>4. NoStale'
  <2>1. \A n \in msgs' : n.type = "Result" => n \in msgs
    BY HandledResults
  <2>2. \A q : Uncut(q)' <=> Uncut(q)
    BY DEF Uncut, View
  <2> QED
    BY <1>2, <2>1, <2>2 DEF Orderly, NoStale
<1>5. Under'
  <2> SUFFICES ASSUME NEW q \in ops', q.what \in Reading
               PROVE  q.svc <= ctx'.svc /\ (q.svc = ctx'.svc => q.dir = ctx'.dir)
    BY DEF Under
  <2>1. CASE q.svc = ctx'.svc /\ q.dir = ctx'.dir
    <3>1. ctx'.svc \in Nat
      BY <1>1, <1>3
    <3> QED
      BY <2>1, <3>1
  <2>2. ASSUME NEW o \in ops, After(o, q)
        PROVE  q.svc <= ctx'.svc /\ (q.svc = ctx'.svc => q.dir = ctx'.dir)
    <3>1. o.svc = q.svc /\ o.dir = q.dir /\ o.svc <= ctx.svc /\ (o.svc = ctx.svc => o.dir = ctx.dir)
      BY <2>2 DEF After, Orderly, Under
    <3>2. o.svc \in Nat
      BY <1>1 DEF Ops, Command, Services
    <3> QED
      BY <1>1, <1>3, <3>1, <3>2
  <2> QED
    BY <1>2, <2>1, <2>2
<1>6. Unserved'
  BY <1>1, <1>2, <1>3 DEF Orderly, Unserved, Services
<1> QED
  BY <1>2, <1>4, <1>5, <1>6 DEF Orderly

\* So does a command that runs: its result is a list only where no mutation waits.
LEMMA RunOrderly ==
    ASSUME Types, Orderly, NEW o \in ops, Run(o)
    PROVE  Orderly'
<1>1. o \in Command /\ ctx' = ctx /\ ctx.svc \in Nat /\ cache \in [Services -> SUBSET Snapshot]
      /\ o.svc \in Services
  BY DEF Types, Ops, Run, context, Contexts, Services, Command
<1>2. \A q : Uncut(q)' <=> Uncut(q)
  BY DEF Uncut, View
<1>3. \/ ops' = ops \ {o}
      \/ \E q : /\ ops' = (ops \ {o}) \cup {q} /\ msgs' = msgs
                /\ q.what = o.what /\ q.what \notin Reading /\ q.cut = o.cut
  <2>1. CASE RemoveEach(o)
    <3>1. \A a : /\ [o EXCEPT !.todo = @ \ {a}, !.flag = TRUE].what = o.what
                 /\ [o EXCEPT !.todo = @ \ {a}, !.flag = TRUE].cut = o.cut
      BY <1>1 DEF Command
    <3> QED
      BY <2>1, <3>1 DEF RemoveEach, Ends, Sends, Reading
  <2>2. CASE ListWorkspaces(o)
    <3>1. /\ [o EXCEPT !.flag = TRUE, !.ws = exists[o.dir]].what = o.what
          /\ [o EXCEPT !.flag = TRUE, !.ws = exists[o.dir]].cut = o.cut
      BY <1>1 DEF Command
    <3> QED
      BY <2>2, <3>1 DEF ListWorkspaces, Fails, Ends, Sends, Reading
  <2>3. CASE Read(o) \/ Move(o) \/ SwitchWorkspace(o) \/ DeleteWorkspace(o)
    BY <2>3 DEF Read, Move, SwitchWorkspace, DeleteWorkspace, Fails, Ends, Sends
  <2> QED
    BY <2>1, <2>2, <2>3 DEF Run
<1>4. OneUncut'
  BY <1>2, <1>3 DEF Orderly, OneUncut, Uncut, View
<1>5. Under'
  BY <1>1, <1>3 DEF Orderly, Under
<1>6. \A n \in msgs' : n \in msgs \/ (n.type = "Result" /\ n.op.what = o.what /\ n.op.cut = o.cut)
  <2>1. \A r, ok : Result(r, ok).type = "Result" /\ Result(r, ok).op = r
    BY DEF Result
  <2>2. ASSUME NEW r, NEW ok, Sends(o, r, ok), r.what = o.what, r.cut = o.cut
        PROVE  \A n \in msgs' : n \in msgs \/ (n.type = "Result" /\ n.op.what = o.what /\ n.op.cut = o.cut)
    BY <2>1, <2>2 DEF Sends
  <2>3. CASE Read(o)
    <3>1. \A snap : /\ [o EXCEPT !.todo = snap.addrs, !.ws = {snap.ws}].what = o.what
                    /\ [o EXCEPT !.todo = snap.addrs, !.ws = {snap.ws}].cut = o.cut
      BY <1>1 DEF Command
    <3>2. \/ \E ok : Sends(o, o, ok)
          \/ \E snap : Sends(o, [o EXCEPT !.todo = snap.addrs, !.ws = {snap.ws}], TRUE)
      BY <2>3 DEF Read, Fails, Ends
    <3> QED
      BY <2>2, <3>1, <3>2
  <2>4. CASE ListWorkspaces(o)
    <3>1. /\ [Result(o, TRUE) EXCEPT !.now = {selected[o.dir]}].type = "Result"
          /\ [Result(o, TRUE) EXCEPT !.now = {selected[o.dir]}].op = o
      BY DEF Result
    <3>2. \/ msgs' = msgs
          \/ msgs' = msgs \cup {[Result(o, TRUE) EXCEPT !.now = {selected[o.dir]}]}
          \/ Sends(o, o, FALSE)
      BY <2>4 DEF ListWorkspaces, Fails, Ends
    <3> QED
      BY <2>2, <3>1, <3>2
  <2>5. CASE RemoveEach(o) \/ Move(o) \/ SwitchWorkspace(o) \/ DeleteWorkspace(o)
    <3>1. msgs' = msgs \/ \E ok : Sends(o, o, ok)
      BY <2>5 DEF RemoveEach, Move, SwitchWorkspace, DeleteWorkspace, Fails, Ends
    <3> QED
      BY <2>2, <3>1
  <2> QED
    BY <2>3, <2>4, <2>5 DEF Run
<1>7. NoStale'
  <2> SUFFICES ASSUME NEW p \in ops', Uncut(p), p.what \in Mutations,
                      NEW m \in msgs', m.type = "Result", m.op.what = "list"
               PROVE  m.op.cut
    BY <1>2 DEF NoStale
  <2>1. \E q \in ops : Uncut(q) /\ q.what \in Mutations /\ (o.what = "list" => q # o)
    BY <1>3 DEF Uncut, View, Mutations
  <2>2. CASE m \in msgs
    BY <2>1, <2>2 DEF Orderly, NoStale
  <2>3. CASE m.op.what = o.what /\ m.op.cut = o.cut
    <3>1. View(o) = "state"
      BY <2>3 DEF View, OfState, Reading
    <3> QED
      BY <2>1, <2>3, <3>1 DEF Orderly, OneUncut, Uncut
  <2> QED
    BY <1>6, <2>2, <2>3
<1>8. Unserved'
  <2>1. CASE Read(o)
    <3>1. o.svc <= ctx.svc
      BY <2>1 DEF Orderly, Under, Read
    <3>2. \A s \in Services : s > ctx.svc => s # o.svc
      BY <1>1, <3>1 DEF Services
    <3>3. \A s \in Services : s # o.svc => cache'[s] = cache[s]
      BY <1>1, <2>1 DEF Read, Fails, terraform
    <3> QED
      BY <1>1, <3>2, <3>3 DEF Orderly, Unserved
  <2>2. CASE RemoveEach(o) \/ Move(o) \/ SwitchWorkspace(o) \/ ListWorkspaces(o) \/ DeleteWorkspace(o)
    <3>1. Invalidate(o) \/ cache' = cache
      BY <2>2 DEF RemoveEach, Move, SwitchWorkspace, ListWorkspaces, DeleteWorkspace, Fails, terraform
    <3>2. \A s \in Services : cache'[s] = cache[s] \/ cache'[s] = {}
      BY <1>1, <3>1 DEF Invalidate
    <3> QED
      BY <1>1, <3>2 DEF Orderly, Unserved
  <2> QED
    BY <2>1, <2>2 DEF Run
<1> QED
  BY <1>4, <1>5, <1>7, <1>8 DEF Orderly

\* Keys, answers and messages leave what has been read true of the state, and show it.
LEMMA HandledFaithful ==
    ASSUME Types, Bounded, Orderly, Faithful, Handled \/ Confirm
    PROVE  Faithful'
<1>1. UNCHANGED <<store, cache>>
  BY HandledStarts, ConfirmStarts DEF terraform
<1>2. \A d, snap : Valid(d, snap)' <=> Valid(d, snap)
  BY <1>1 DEF Valid
<1>3. /\ \A q \in ops' : q.what \in Reading /\ ~ q.cut =>
           q \in ops \/ (q.svc = ctx'.svc /\ q.dir = ctx'.dir)
      /\ \A o \in ops : \E q \in ops' : After(o, q)
  <2>1. CASE Handled
    <3>1. Starts(ctx')
      BY <2>1, HandledStarts
    <3>2. /\ \A q \in ops' : (\E o \in ops : After(o, q)) \/ q \in Begun(ctx')
          /\ \A o \in ops : \E q \in ops' : After(o, q)
      BY <3>1, AfterStarts
    <3> QED
      BY <3>2 DEF After, Begun
  <2>2. CASE Confirm
    <3>1. PICK r \in Ops : r.what = prompt.what /\ Launch(r, ops) /\ prompt.what \in Mutations
      BY <2>2, ConfirmStarts
    <3>2. /\ \A q \in ops' : q = r \/ \E o \in ops : After(o, q)
          /\ \A o \in ops : \E q \in ops' : After(o, q)
      BY <3>1, StartedOps
    <3>3. r.what \notin Reading
      BY <3>1 DEF Mutations, Reading
    <3> QED
      BY <3>2, <3>3 DEF After
  <2> QED
    BY <2>1, <2>2
<1>4. CacheTrue'
  <2>1. CASE ctx' = ctx
    BY <1>1, <1>2, <2>1 DEF Faithful, CacheTrue
  <2>2. CASE ctx'.svc = ctx.svc + 1
    <3>1. ctx' \in Contexts
      BY NextTypes DEF Types, Next, Handled, Answers
    <3>2. ctx.svc \in Nat /\ ctx'.svc \in Services
      BY <3>1 DEF Types, Contexts, Services
    <3>3. cache[ctx'.svc] = {}
      BY <2>2, <3>2 DEF Orderly, Unserved
    <3> QED
      BY <1>1, <3>3 DEF CacheTrue
  <2> QED
    BY <2>1, <2>2, HandledContext
<1>5. ReadsTrue'
  <2> SUFFICES ASSUME NEW q \in ops', q.what \in Reading, ~ q.cut, NEW snap \in cache'[q.svc]
               PROVE  Valid(q.dir, snap)'
    BY DEF ReadsTrue
  <2>1. CASE q \in ops
    BY <1>1, <1>2, <2>1 DEF Faithful, ReadsTrue
  <2>2. CASE q.svc = ctx'.svc /\ q.dir = ctx'.dir
    BY <1>4, <2>2 DEF CacheTrue
  <2> QED
    BY <1>3, <2>1, <2>2
<1>6. \A n \in msgs' : ListTrue(n)'
  <2>1. \A n : ListTrue(n)' <=> ListTrue(n)
    BY <1>1 DEF ListTrue
  <2>2. \A n \in msgs' : n.type = "Result" => n \in msgs
    BY HandledResults
  <2>3. \A n : n.type # "Result" => ListTrue(n)
    BY DEF ListTrue
  <2> QED
    BY <2>1, <2>2, <2>3 DEF Faithful
<1>7. RowsTrue'
  <2> SUFFICES ASSUME st'.listed # {}, ~ Written', NEW p \in origin'
               PROVE  st'.listed = store[p.dir][p.ws]
    BY <1>1 DEF RowsTrue
  <2>1. ~ Written
    <3>1. ~ \E o \in ops : o.what = "rm" /\ o.flag
      BY <1>3 DEF Written, After
    <3>2. ~ \E m \in msgs : m.type = "Result" /\ m.op.what \in Mutations /\ m.ok
      BY HandledResults DEF Written
    <3> QED
      BY <3>1, <3>2 DEF Written
  <2>2. CASE origin' = origin /\ SameRows(st, st')
    BY <2>1, <2>2 DEF Faithful, RowsTrue, SameRows
  <2>3. ASSUME NEW m \in msgs, m.type = "Result", m.op.what = "list", m.ok, st'.listed = m.op.todo,
               m.op.cut => origin' = {},
               ~ m.op.cut => origin' = {[dir |-> m.op.dir, ws |-> w] : w \in m.op.ws}
        PROVE  st'.listed = store[p.dir][p.ws]
    <3>1. ~ m.op.cut /\ \E w \in m.op.ws : p = [dir |-> m.op.dir, ws |-> w]
      BY <2>3
    <3> QED
      BY <2>3, <3>1 DEF Faithful, ListTrue
  <2>4. CASE Confirm
    <3>1. origin' = origin /\ SameRows(st, st')
      BY <2>4, ConfirmStarts, RowsOfViews DEF Types
    <3> QED
      BY <2>2, <3>1
  <2> QED
    BY <2>2, <2>3, <2>4, HandledRows
<1> QED
  BY <1>4, <1>5, <1>6, <1>7 DEF Faithful

\* A command keeps every read true that it does not change the state under.
LEMMA RunKeepsReads ==
    ASSUME Types, Faithful, NEW o \in ops, Run(o), store' = store,
           \A s \in Services : cache'[s] \subseteq cache[s],
           \A q \in ops' : q \in ops \/ q.what \notin Reading
    PROVE  CacheTrue' /\ ReadsTrue'
<1>1. ctx' = ctx /\ ctx.svc \in Services /\ \A q \in ops : q.svc \in Services
  BY DEF Run, context, Types, Contexts, Ops, Command
<1>2. \A d, snap : Valid(d, snap)' <=> Valid(d, snap)
  BY DEF Valid
<1>3. CacheTrue'
  BY <1>1, <1>2 DEF Faithful, CacheTrue
<1>4. ReadsTrue'
  BY <1>1, <1>2 DEF Faithful, ReadsTrue
<1> QED
  BY <1>3, <1>4

\* A mutation that has changed the state leaves no read that could tell what was there:
\* the cache of its service, the one of the Context, is empty again, every other load has
\* been cancelled, and so has that of every list that waits.
LEMMA WrittenFaithful ==
    ASSUME Types, Orderly, NEW o \in ops, Run(o), Uncut(o), o.what \in Mutations,
           Invalidate(o), o.svc = ctx.svc, Written',
           \A q \in ops' : q \in ops \ {o} \/ q.what \notin Reading,
           \A n \in msgs' : n \in msgs \/ n.op.what = o.what
    PROVE  Faithful'
<1>1. ctx' = ctx /\ ctx.svc \in Services /\ cache \in [Services -> SUBSET Snapshot]
  BY DEF Run, context, Types, Contexts
<1>2. CacheTrue'
  <2>1. cache'[ctx'.svc] = {}
    BY <1>1 DEF Invalidate
  <2> QED
    BY <2>1 DEF CacheTrue
<1>3. ReadsTrue'
  <2>1. \A q \in ops' : q.what \in Reading => q.cut
    BY DEF Orderly, OneUncut, Uncut, View, OfState
  <2> QED
    BY <2>1 DEF ReadsTrue
<1>4. \A n \in msgs' : ListTrue(n)'
  <2>1. o.what # "list"
    BY DEF Mutations
  <2>2. \A n \in msgs' : n.type = "Result" /\ n.op.what = "list" => n.op.cut
    BY <2>1 DEF Orderly, NoStale
  <2> QED
    BY <2>2 DEF ListTrue
<1>5. RowsTrue'
  BY DEF RowsTrue
<1> QED
  BY <1>2, <1>3, <1>4, <1>5 DEF Faithful

\* A read finds what is cached, and that is true, or what there is.
LEMMA ReadFaithful ==
    ASSUME Types, Orderly, Faithful, NEW o \in ops, Run(o), Read(o)
    PROVE  CacheTrue' /\ ReadsTrue' /\ \A n \in msgs' : ListTrue(n)'
<1>1. /\ o \in Command /\ ctx' = ctx /\ store' = store /\ ops' = ops \ {o}
      /\ cache \in [Services -> SUBSET Snapshot] /\ ctx.svc \in Services
      /\ \A q \in ops : q.svc \in Services
  BY DEF Types, Ops, Run, Read, context, Contexts, Fails, Ends, Sends, terraform, Command
<1>2. o.what \in Reading
  BY DEF Read
<1>3. \A d, snap : Valid(d, snap)' <=> Valid(d, snap)
  BY <1>1 DEF Valid
<1>4. \A n : ListTrue(n)' <=> ListTrue(n)
  BY <1>1 DEF ListTrue
<1>5. \A r, ok : Result(r, ok).type = "Result" /\ Result(r, ok).op = r /\ Result(r, ok).ok = ok
  BY DEF Result
<1>6. CASE Fails(o)
  <2>1. cache' = cache /\ msgs' = msgs \cup {Result(o, FALSE)}
    BY <1>6 DEF Fails, Ends, Sends, terraform
  <2>2. ListTrue(Result(o, FALSE))
    BY <1>5 DEF ListTrue
  <2>3. \A n \in msgs' : ListTrue(n)'
    BY <1>4, <2>1, <2>2 DEF Faithful
  <2>4. CacheTrue' /\ ReadsTrue'
    BY <1>1, <2>1, RunKeepsReads
  <2> QED
    BY <2>3, <2>4
<1>7. ASSUME NEW snap \in Seen(o), o.cut => Seen(o) = cache[o.svc],
             cache' = [cache EXCEPT ![o.svc] = {snap}],
             IF o.what = "list"
               THEN Sends(o, [o EXCEPT !.todo = snap.addrs, !.ws = {snap.ws}], TRUE)
               ELSE Ends(o, o.todo \subseteq snap.addrs)
      PROVE  CacheTrue' /\ ReadsTrue' /\ \A n \in msgs' : ListTrue(n)'
  <2>1. ~ o.cut => Valid(o.dir, snap)
    <3>1. CASE snap \in cache[o.svc]
      BY <1>2, <3>1 DEF Faithful, ReadsTrue
    <3>2. CASE snap = [ws |-> selected[o.dir], addrs |-> Current(o)]
      BY <3>2 DEF Valid, Current
    <3> QED
      BY <1>7, <3>1, <3>2 DEF Seen
  <2>2. o.cut => snap \in cache[o.svc]
    BY <1>7
  <2>3. o.svc = ctx.svc => Valid(ctx.dir, snap)
    <3>1. o.svc = ctx.svc => o.dir = ctx.dir
      BY <1>2 DEF Orderly, Under
    <3> QED
      BY <2>1, <2>2, <3>1 DEF Faithful, CacheTrue
  <2>4. CacheTrue'
    BY <1>1, <1>3, <1>7, <2>3 DEF Faithful, CacheTrue
  <2>5. ReadsTrue'
    <3> SUFFICES ASSUME NEW q \in ops', q.what \in Reading, ~ q.cut, NEW found \in cache'[q.svc]
                 PROVE  Valid(q.dir, found)
      BY <1>3 DEF ReadsTrue
    <3>1. q \in ops /\ q # o /\ q.svc \in Services
      BY <1>1
    <3>2. CASE q.svc # o.svc
      BY <1>1, <1>7, <3>1, <3>2 DEF Faithful, ReadsTrue
    <3>3. CASE q.svc = o.svc
      <4>1. o.cut
        BY <1>2, <3>1 DEF Orderly, OneUncut, Uncut, View, OfState
      <4>2. found = snap
        BY <1>1, <1>7, <3>1, <3>3
      <4> QED
        BY <2>2, <3>1, <3>3, <4>1, <4>2 DEF Faithful, ReadsTrue
    <3> QED
      BY <3>2, <3>3
  <2>6. \A n \in msgs' : ListTrue(n)'
    <3>1. CASE o.what # "list"
      <4>1. msgs' = msgs \cup {Result(o, o.todo \subseteq snap.addrs)}
        BY <1>7, <3>1 DEF Ends, Sends
      <4>2. ListTrue(Result(o, o.todo \subseteq snap.addrs))
        BY <1>5, <3>1 DEF ListTrue
      <4> QED
        BY <1>4, <4>1, <4>2 DEF Faithful
    <3>2. CASE o.what = "list"
      <4>1. PICK r : r = [o EXCEPT !.todo = snap.addrs, !.ws = {snap.ws}]
        OBVIOUS
      <4>2. r.todo = snap.addrs /\ r.ws = {snap.ws} /\ r.dir = o.dir /\ r.cut = o.cut
        BY <1>1, <4>1 DEF Command
      <4>3. msgs' = msgs \cup {Result(r, TRUE)}
        BY <1>7, <3>2, <4>1 DEF Sends
      <4>4. ListTrue(Result(r, TRUE))
        <5>1. ~ r.cut => \A w \in r.ws : r.todo = store[r.dir][w]
          BY <2>1, <4>2 DEF Valid
        <5> QED
          BY <1>5, <5>1 DEF ListTrue
      <4> QED
        BY <1>4, <4>3, <4>4 DEF Faithful
    <3> QED
      BY <3>1, <3>2
  <2> QED
    BY <2>4, <2>5, <2>6
<1> QED
  BY <1>6, <1>7 DEF Read

\* A command that changes no state keeps what has been read true, and what is shown.
LEMMA QuietFaithful ==
    ASSUME Types, Faithful, NEW o \in ops, Run(o), store' = store,
           \A s \in Services : cache'[s] \subseteq cache[s],
           \A q \in ops' : q \in ops \/ q.what \notin Reading,
           \A q \in ops : q \in ops' \/ q.what # "rm" \/ ~ q.flag,
           msgs \subseteq msgs',
           \A n \in msgs' : n \in msgs \/ n.op.what # "list"
    PROVE  Faithful'
<1>1. CacheTrue' /\ ReadsTrue'
  BY RunKeepsReads
<1>2. \A n : ListTrue(n)' <=> ListTrue(n)
  BY DEF ListTrue
<1>3. \A n \in msgs' : ListTrue(n)'
  BY <1>2 DEF Faithful, ListTrue
<1>4. RowsTrue'
  <2>1. UNCHANGED <<st, origin>>
    BY DEF Run
  <2>2. Written => Written'
    BY DEF Written
  <2> QED
    BY <2>1, <2>2 DEF Faithful, RowsTrue
<1> QED
  BY <1>1, <1>3, <1>4 DEF Faithful

\* Whatever command runs, unless it leaves the state changed and says that it failed.
LEMMA RunFaithful ==
    ASSUME Types, Orderly, ~ unclean => Faithful, NEW o \in ops, Run(o), ~ unclean'
    PROVE  Faithful'
<1>1. /\ o \in Command /\ cache \in [Services -> SUBSET Snapshot] /\ unclean \in BOOLEAN
      /\ store \in [Chdirs -> [Workspaces -> SUBSET Addrs]]
      /\ o.dir \in Chdirs /\ o.svc \in Services /\ selected[o.dir] \in Workspaces
      /\ UNCHANGED <<st, origin>>
  BY DEF Types, Ops, Run, Command
<1>2. \A r, ok : Result(r, ok).type = "Result" /\ Result(r, ok).op = r /\ Result(r, ok).ok = ok
  BY DEF Result
<1>3. ASSUME NEW ok, Ends(o, ok)
      PROVE  /\ ops' = ops \ {o} /\ msgs' = msgs \cup {Result(o, ok)}
             /\ \A n \in msgs' : n \in msgs \/ n.op.what = o.what
             /\ ok /\ o.what \in Mutations => Written'
  BY <1>2, <1>3 DEF Ends, Sends, Written
<1>4. ASSUME Fails(o), ~ (o.what = "rm" /\ o.flag), o.what # "list", Faithful
      PROVE  Faithful'
  <2>1. UNCHANGED <<store, cache>>
    BY <1>4 DEF Fails, terraform
  <2> QED
    BY <1>3, <1>4, <2>1, QuietFaithful DEF Fails
<1>5. CASE Read(o)
  <2>1. unclean' = unclean /\ store' = store
    BY <1>5 DEF Read, Fails, terraform
  <2>2. CacheTrue' /\ ReadsTrue' /\ \A n \in msgs' : ListTrue(n)'
    BY <1>5, <2>1, ReadFaithful
  <2>3. ops' = ops \ {o} /\ msgs \subseteq msgs' /\ o.what # "rm"
    BY <1>5 DEF Read, Fails, Ends, Sends, Reading
  <2>4. Written => Written'
    BY <2>3 DEF Written
  <2>5. RowsTrue'
    BY <1>1, <2>1, <2>4 DEF Faithful, RowsTrue
  <2> QED
    BY <2>2, <2>5 DEF Faithful
<1>6. CASE RemoveEach(o)
  <2>1. ASSUME ~ o.cut, NEW a \in o.todo, Invalidate(o), unclean' = (unclean \/ Outlived(o)),
               \/ Ends(o, TRUE)
               \/ /\ ops' = (ops \ {o}) \cup {[o EXCEPT !.todo = @ \ {a}, !.flag = TRUE]}
                  /\ msgs' = msgs
        PROVE  Faithful'
    <3>1. o.what = "rm" /\ Uncut(o) /\ o.what \in Mutations
      BY <1>6, <2>1 DEF RemoveEach, Uncut, View, OfState, Mutations
    <3>2. o.svc = ctx.svc
      BY <1>1, <2>1 DEF Outlived
    <3>3. PICK r : r = [o EXCEPT !.todo = @ \ {a}, !.flag = TRUE]
      OBVIOUS
    <3>4. r.what = "rm" /\ r.flag
      BY <1>1, <3>1, <3>3 DEF Command
    <3>5. CASE Ends(o, TRUE)
      <4>1. /\ \A q \in ops' : q \in ops \ {o} \/ q.what \notin Reading
            /\ \A n \in msgs' : n \in msgs \/ n.op.what = o.what
            /\ Written'
        BY <1>3, <3>1, <3>5
      <4> QED
        BY <2>1, <3>1, <3>2, <4>1, WrittenFaithful
    <3>6. CASE ops' = (ops \ {o}) \cup {r} /\ msgs' = msgs
      <4>1. /\ \A q \in ops' : q \in ops \ {o} \/ q.what \notin Reading
            /\ \A n \in msgs' : n \in msgs \/ n.op.what = o.what
            /\ Written'
        BY <3>4, <3>6 DEF Reading, Written
      <4> QED
        BY <2>1, <3>1, <3>2, <4>1, WrittenFaithful
    <3> QED
      BY <2>1, <3>3, <3>5, <3>6
  <2>2. ASSUME Ends(o, FALSE), UNCHANGED cache, NEW as, Write(o, Current(o) \ as),
               unclean' = (unclean \/ o.flag \/ as # {})
        PROVE  Faithful'
    <3>1. ~ unclean /\ ~ o.flag /\ as = {}
      BY <1>1, <2>2
    <3>2. Current(o) \ as = store[o.dir][selected[o.dir]]
      BY <3>1 DEF Current
    <3>3. store' = store
      BY <1>1, <2>2, <3>2 DEF Write
    <3>4. o.what = "rm"
      BY <1>6 DEF RemoveEach
    <3>5. /\ \A q \in ops' : q \in ops
          /\ \A q \in ops : q \in ops' \/ q.what # "rm" \/ ~ q.flag
          /\ msgs \subseteq msgs'
          /\ \A n \in msgs' : n \in msgs \/ n.op.what # "list"
      BY <1>3, <2>2, <3>1, <3>4
    <3> QED
      BY <2>2, <3>1, <3>3, <3>5, QuietFaithful
  <2> QED
    BY <1>6, <2>1, <2>2 DEF RemoveEach
<1>7. CASE Move(o)
  <2>1. ASSUME ~ o.cut, Invalidate(o), Ends(o, TRUE), unclean' = (unclean \/ Outlived(o))
        PROVE  Faithful'
    <3>1. o.what = "mv" /\ Uncut(o) /\ o.what \in Mutations
      BY <1>7, <2>1 DEF Move, Uncut, View, OfState, Mutations
    <3>2. o.svc = ctx.svc
      BY <1>1, <2>1 DEF Outlived
    <3>3. /\ \A q \in ops' : q \in ops \ {o} \/ q.what \notin Reading
          /\ \A n \in msgs' : n \in msgs \/ n.op.what = o.what
          /\ Written'
      BY <1>3, <2>1, <3>1
    <3> QED
      BY <2>1, <3>1, <3>2, <3>3, WrittenFaithful
  <2>2. ASSUME Ends(o, FALSE), UNCHANGED <<store, unclean, cache>>
        PROVE  Faithful'
    <3>1. o.what = "mv" /\ Faithful
      BY <1>7, <2>2 DEF Move
    <3> QED
      BY <1>3, <2>2, <3>1, QuietFaithful
  <2> QED
    BY <1>7, <2>1, <2>2 DEF Move
<1>8. CASE ListWorkspaces(o)
  <2>1. unclean' = unclean /\ o.what = "wlist" /\ Faithful
    BY <1>8 DEF ListWorkspaces
  <2>2. CASE Fails(o)
    BY <1>4, <2>1, <2>2
  <2>3. CASE ops' = (ops \ {o}) \cup {[o EXCEPT !.flag = TRUE, !.ws = exists[o.dir]]}
             /\ UNCHANGED <<msgs, terraform>>
    <3>1. [o EXCEPT !.flag = TRUE, !.ws = exists[o.dir]].what = "wlist"
      BY <1>1, <2>1 DEF Command
    <3>2. PICK r : r.what = "wlist" /\ ops' = (ops \ {o}) \cup {r}
      BY <2>3, <3>1
    <3> QED
      BY <2>1, <2>3, <3>2, QuietFaithful DEF terraform, Reading
  <2>4. CASE /\ ops' = ops \ {o}
             /\ msgs' = msgs \cup {[Result(o, TRUE) EXCEPT !.now = {selected[o.dir]}]}
             /\ UNCHANGED terraform
    <3>1. [Result(o, TRUE) EXCEPT !.now = {selected[o.dir]}].op = o
      BY DEF Result
    <3>2. PICK n : n.op = o /\ msgs' = msgs \cup {n}
      BY <2>4, <3>1
    <3> QED
      BY <2>1, <2>4, <3>2, QuietFaithful DEF terraform
  <2> QED
    BY <1>8, <2>2, <2>3, <2>4 DEF ListWorkspaces
<1>9. CASE SwitchWorkspace(o)
  <2>1. unclean' = unclean /\ store' = store /\ o.what \notin {"rm", "list"} /\ Faithful
    BY <1>9 DEF SwitchWorkspace
  <2>2. \E ok : Ends(o, ok)
    BY <1>9 DEF SwitchWorkspace
  <2>3. Invalidate(o) \/ cache' = cache
    BY <1>9 DEF SwitchWorkspace
  <2>4. \A s \in Services : cache'[s] \subseteq cache[s]
    BY <1>1, <2>3 DEF Invalidate
  <2> QED
    BY <1>3, <2>1, <2>2, <2>4, QuietFaithful
<1>10. CASE DeleteWorkspace(o)
  <2>1. unclean' = unclean /\ o.what = "wdelete" /\ Faithful
    BY <1>10 DEF DeleteWorkspace
  <2>2. CASE Fails(o)
    BY <1>4, <2>1, <2>2
  <2>3. CASE Ends(o, TRUE) /\ UNCHANGED <<store, cache>>
    BY <1>3, <2>1, <2>3, QuietFaithful
  <2> QED
    BY <1>10, <2>2, <2>3 DEF DeleteWorkspace
<1> QED
  BY <1>5, <1>6, <1>7, <1>8, <1>9, <1>10 DEF Run

\* With nothing running, the resources the browser lists are those of the directory and
\* workspace it read them in: no late answer, cached read or cancelled reload leaves the
\* rows of before a removal or a move.
THEOREM ListStaysCurrent == Spec => []ListIsCurrent
<1>1. Init => Trusted
  <2> SUFFICES ASSUME Init
               PROVE  Trusted
    OBVIOUS
  <2>1. /\ ops = {} /\ msgs = {} /\ ctx.svc = 0 /\ cache = [s \in Services |-> {}]
        /\ st.listed = {}
    BY DEF Init, NewStateView
  <2>2. cache[ctx.svc] = {}
    BY <2>1, BrowserAssumption DEF Services
  <2>3. Orderly
    BY <2>1 DEF Orderly, OneUncut, NoStale, Under, Unserved
  <2>4. Faithful
    BY <2>1, <2>2 DEF Faithful, CacheTrue, ReadsTrue, RowsTrue
  <2> QED
    BY <2>3, <2>4 DEF Trusted
<1>2. Types /\ Bounded /\ Trusted /\ [Next]_vars => Trusted'
  <2> SUFFICES ASSUME Types, Bounded, Trusted, [Next]_vars
               PROVE  Trusted'
    OBVIOUS
  <2>1. CASE UNCHANGED vars
    BY <2>1 DEF vars, Trusted, Orderly, OneUncut, Uncut, NoStale, Under, Unserved, Faithful, CacheTrue,
                ReadsTrue, ListTrue, RowsTrue, Written, Valid
  <2>2. CASE Handled \/ Confirm
    <3>1. unclean' = unclean
      BY <2>2, HandledStarts, ConfirmStarts
    <3> QED
      BY <2>2, <3>1, HandledOrderly, HandledFaithful DEF Trusted
  <2>3. CASE \E o \in ops : Run(o)
    BY <2>3, RunOrderly, RunFaithful DEF Trusted
  <2> QED
    BY <2>1, <2>2, <2>3 DEF Next, Handled, Answers
<1>3. Types /\ Trusted => ListIsCurrent
  BY DEF Trusted, Faithful, RowsTrue, Written, ListIsCurrent
<1> QED
  BY <1>1, <1>2, <1>3, TypesHold, PTL DEF Spec

=============================================================================
