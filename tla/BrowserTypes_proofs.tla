--------------------------- MODULE BrowserTypes_proofs ------------------------
(***************************************************************************)
(* The types of Browser, for any number of directories, workspaces,        *)
(* resources and commands, and that no switch goes without a service.      *)
(***************************************************************************)
EXTENDS Browser, FiniteSetTheorems, SequenceTheorems, TLAPS

-----------------------------------------------------------------------------
(* The frames of the state browser *)

\* The list is at the bottom of the frames.
Rooted(s) == s.frames # <<>> /\ s.frames[1] = "list"

\* A browser as the handlers leave it: at most one resource is looked at.
Browsers == {s \in StateState : Rooted(s) /\ \E a : s.detail \subseteq {a}}

\* Frames are pushed on the list, and the list is never popped.
LEMMA FrameTypes ==
    ASSUME NEW s \in Browsers
    PROVE  /\ \A f \in StateFrames : PushFrame(s, f) \in Browsers
           /\ OnTop(s) # "list" => PopFrame(s) \in Browsers
           /\ ClearFrames(s) \in Browsers
<1>1. s.frames \in Seq(StateFrames) /\ s.frames # <<>> /\ s.frames[1] = "list"
  BY DEF Browsers, Rooted, StateState
<1>2. ASSUME NEW f \in StateFrames
      PROVE  PushFrame(s, f) \in Browsers
  <2>1. /\ Append(s.frames, f) \in Seq(StateFrames) \ {<<>>}
        /\ Append(s.frames, f)[1] = "list"
    BY <1>1, AppendProperties, EmptySeq
  <2> QED
    BY <2>1 DEF PushFrame, Browsers, Rooted, StateState
<1>3. ASSUME OnTop(s) # "list"
      PROVE  PopFrame(s) \in Browsers
  <2>1. Len(s.frames) \in Nat /\ Len(s.frames) >= 2
    BY <1>1, <1>3, EmptySeq, LenProperties DEF OnTop, Last
  <2>2. \A i \in 1 .. Len(s.frames) - 1 : s.frames[i] \in StateFrames
    BY <1>1, <2>1, ElementOfSeq
  <2>3. /\ Front(s.frames) \in Seq(StateFrames)
        /\ Len(Front(s.frames)) = Len(s.frames) - 1
        /\ Front(s.frames)[1] = "list"
    BY <1>1, <2>1, <2>2, SubSeqProperties, SMT DEF Front
  <2>4. Front(s.frames) # <<>>
    BY <2>1, <2>3, EmptySeq
  <2> QED
    BY <2>3, <2>4 DEF PopFrame, Browsers, Rooted, StateState
<1>4. ClearFrames(s) \in Browsers
  <2>1. <<Head(s.frames)>> \in Seq(StateFrames) \ {<<>>} /\ <<Head(s.frames)>>[1] = "list"
    BY <1>1 DEF StateFrames
  <2> QED
    BY <2>1 DEF ClearFrames, Browsers, Rooted, StateState
<1> QED
  BY <1>2, <1>3, <1>4

\* What the handlers make of a browser is a browser.
LEMMA ViewTypes ==
    ASSUME NEW s \in Browsers
    PROVE  /\ ResetList(s) \in Browsers /\ SwitchedAway(s) \in Browsers
           /\ Loading(s) \in Browsers /\ Refreshed(s) \in Browsers
           /\ ListFailed(s) \in Browsers /\ MutationDone(s) \in Browsers
           /\ DetailFailed(s) \in Browsers /\ FilterOpened(s) \in Browsers
           /\ [s EXCEPT !.pinnedOnly = ~@] \in Browsers
           /\ [s EXCEPT !.pinnedOnly = FALSE] \in Browsers
           /\ [s EXCEPT !.mutating = TRUE] \in Browsers
<1>2. ASSUME NEW t \in Browsers
      PROVE  ResetList(t) \in Browsers /\ Loading(t) \in Browsers
  BY DEF Browsers, Rooted, StateState, StateStatuses, ResetList, Loading
<1>3. /\ [s EXCEPT !.pinnedOnly = ~@] \in Browsers
      /\ [s EXCEPT !.pinnedOnly = FALSE] \in Browsers
      /\ [s EXCEPT !.mutating = TRUE] \in Browsers
      /\ [s EXCEPT !.mutating = FALSE] \in Browsers
      /\ ListFailed(s) \in Browsers /\ DetailFailed(s) \in Browsers
  BY DEF Browsers, Rooted, StateState, StateStatuses, ListFailed, DetailFailed
<1>4. SwitchedAway(s) \in Browsers
  BY <1>2, <1>3 DEF SwitchedAway
<1>5. ASSUME NEW t \in Browsers
      PROVE  Refreshed(t) \in Browsers
  BY <1>2, FrameTypes DEF Refreshed
<1>6. MutationDone(s) \in Browsers
  BY <1>3, <1>5 DEF MutationDone
<1>7. FilterOpened(s) \in Browsers
  <2>1. [s EXCEPT !.filter = FALSE, !.shown = s.listed] \in Browsers
    BY DEF Browsers, Rooted, StateState
  <2> QED
    BY <2>1, FrameTypes DEF FilterOpened, StateFrames
<1> QED
  BY <1>2, <1>3, <1>4, <1>5, <1>6, <1>7

\* The same of those that are told something.
LEMMA ViewTypesOf ==
    ASSUME NEW s \in Browsers
    PROVE  /\ \A as \in SUBSET Addrs :
                /\ Listed(s, as) \in Browsers
                /\ PinsRead(s, as) \in Browsers
                /\ PaletteOpened(s, as) \in Browsers
                /\ \A q \in BOOLEAN : SetFilter(s, q, as) \in Browsers
           /\ \A a \in Addrs : Detailed(s, a) \in Browsers
           /\ Inspecting(s) \in Browsers
           /\ OnTop(s) = "filter" => FilterClosed(s) \in Browsers
           /\ OnTop(s) = "inspect" => DetailClosed(s) \in Browsers
           /\ OnTop(s) = "actions" => PaletteClosed(s) \in Browsers
<1>1. ASSUME NEW as \in SUBSET Addrs
      PROVE  /\ Listed(s, as) \in Browsers
             /\ PinsRead(s, as) \in Browsers
             /\ PaletteOpened(s, as) \in Browsers
             /\ \A q \in BOOLEAN : SetFilter(s, q, as) \in Browsers
  <2>1. Listed(s, as) \in Browsers /\ [s EXCEPT !.targets = as] \in Browsers
    BY DEF Browsers, Rooted, StateState, StateStatuses, Listed
  <2>2. \A q \in BOOLEAN : SetFilter(s, q, as) \in Browsers
    BY DEF Browsers, Rooted, StateState, SetFilter
  <2>3. PinsRead(s, as) \in Browsers
    BY <2>2 DEF PinsRead, Browsers, StateState
  <2>4. PaletteOpened(s, as) \in Browsers
    BY <2>1, FrameTypes DEF PaletteOpened, StateFrames
  <2> QED
    BY <2>1, <2>2, <2>3, <2>4
<1>2. ASSUME NEW a \in Addrs
      PROVE  Detailed(s, a) \in Browsers
  <2>1. [s EXCEPT !.status = "detail", !.detail = {a}] \in Browsers
    BY DEF Browsers, Rooted, StateState, StateStatuses
  <2> QED
    BY <2>1, FrameTypes DEF Detailed, StateFrames
<1>3. Inspecting(s) \in Browsers
  BY FrameTypes, ViewTypes DEF Inspecting
<1>4. OnTop(s) = "filter" => FilterClosed(s) \in Browsers
  BY FrameTypes DEF FilterClosed
<1>5. /\ [s EXCEPT !.status = "done", !.detail = {}] \in Browsers
      /\ [s EXCEPT !.targets = {}] \in Browsers
      /\ OnTop([s EXCEPT !.status = "done", !.detail = {}]) = OnTop(s)
      /\ OnTop([s EXCEPT !.targets = {}]) = OnTop(s)
  BY DEF OnTop, Browsers, Rooted, StateState, StateStatuses
<1>6. /\ OnTop(s) = "inspect" => DetailClosed(s) \in Browsers
      /\ OnTop(s) = "actions" => PaletteClosed(s) \in Browsers
  BY <1>5, FrameTypes DEF DetailClosed, PaletteClosed
<1> QED
  BY <1>1, <1>2, <1>3, <1>4, <1>6

-----------------------------------------------------------------------------
(* Types *)

Views == {"home", "state", "workspace", "chdir"}

\* A look at a resource knows which.
Known(o) == o.what = "detail" => o.todo # {}

Ops  == {o \in Command : Known(o)}
Msgs == {m \in Message : m.type = "Result" => Known(m.op)}

Contexts == [dir : Chdirs, ws : Workspaces, svc : Services]

\* TypeOK, and what it takes to keep it.
Types ==
    /\ active \in Views /\ navStack \in Seq(Views)
    /\ ctx \in Contexts
    /\ pins \subseteq Addrs /\ prompt \in Prompts
    /\ st \in Browsers /\ wv \in WorkspaceState
    /\ ops \subseteq Ops /\ msgs \subseteq Msgs
    /\ exists \in [Chdirs -> SUBSET Workspaces] /\ selected \in [Chdirs -> Workspaces]
    /\ store \in [Chdirs -> [Workspaces -> SUBSET Addrs]]
    /\ cache \in [Services -> SUBSET Snapshot]
    /\ nextOp \in Nat /\ origin \subseteq Place
    /\ confirmed \subseteq Chdirs \X Addrs /\ unclean \in BOOLEAN

\* Commands and messages are made of what there is.
LEMMA MessageTypes ==
    ASSUME Types
    PROVE  /\ \A t \in {"Deactivate", "PinClear", "PlanInvalidated"} : Signal(t) \in Msgs
           /\ \A as \in SUBSET Addrs : PinToggle(as) \in Msgs
           /\ \A d \in Chdirs, w \in Workspaces, i \in Nat : SwitchTo(d, w, i) \in Msgs
           /\ \A a \in Prompts : Request(a) \in Msgs
           /\ \A what \in Asks, as \in SUBSET Addrs : Ask(what, as) \in Prompts
           /\ \A o \in Ops, ok \in BOOLEAN : Result(o, ok) \in Msgs
           /\ \A c \in Contexts, what \in OfState \cup OfWorkspace, as \in SUBSET Addrs,
                 ws \in SUBSET Workspaces, flag \in BOOLEAN :
                (what = "detail" => as # {}) => Cmd(c, what, as, ws, flag) \in Ops
<1>1. \A a \in Prompts : Request(a) \in Msgs
  BY DEF Request, Msgs, Message
<1>2. \A what \in Asks, as \in SUBSET Addrs : Ask(what, as) \in Prompts
  BY DEF Types, Contexts, Ask, Prompts
<1>3. \A o \in Ops, ok \in BOOLEAN : Result(o, ok) \in Msgs
  BY DEF Ops, Result, Msgs, Message
<1>4. /\ \A t \in {"Deactivate", "PinClear", "PlanInvalidated"} : Signal(t) \in Msgs
      /\ \A as \in SUBSET Addrs : PinToggle(as) \in Msgs
      /\ \A d \in Chdirs, w \in Workspaces, i \in Nat : SwitchTo(d, w, i) \in Msgs
  BY DEF Signal, PinToggle, SwitchTo, Msgs, Message
<1>5. ASSUME NEW c \in Contexts, NEW what \in OfState \cup OfWorkspace, NEW as \in SUBSET Addrs,
             NEW ws \in SUBSET Workspaces, NEW flag \in BOOLEAN, what = "detail" => as # {}
      PROVE  Cmd(c, what, as, ws, flag) \in Ops
  BY <1>5 DEF Types, Contexts, Cmd, Ops, Command, Known
<1> QED
  BY <1>1, <1>2, <1>3, <1>4, <1>5

\* A command that is told to stop is otherwise what it was.
LEMMA CutTypes ==
    ASSUME NEW os \in SUBSET Ops, NEW v
    PROVE  Cut(v, os) \subseteq Ops
BY DEF Cut, Ops, Command, Known

\* A command that is started is a command.
LEMMA LaunchTypes ==
    ASSUME Types, NEW os \in SUBSET Ops, NEW o \in Ops, Launch(o, os)
    PROVE  ops' \subseteq Ops /\ nextOp' \in Nat
<1>1. ops' = Cut(View(o), os) \cup {o} /\ nextOp' = nextOp + 1
  BY DEF Launch
<1>2. Cut(View(o), os) \subseteq Ops
  BY CutTypes
<1> QED
  BY <1>1, <1>2 DEF Types

\* The loads of the two views are commands.
LEMMA LoadTypes ==
    ASSUME Types, NEW os \in SUBSET Ops, NEW c \in Contexts
    PROVE  /\ \A skip \in BOOLEAN : LoadState(c, skip, os) => ops' \subseteq Ops /\ nextOp' \in Nat
           /\ LoadWorkspaces(c, os) => ops' \subseteq Ops /\ nextOp' \in Nat
           /\ NoLaunch(os) => ops' \subseteq Ops /\ nextOp' \in Nat
<1>1. ASSUME NEW skip \in BOOLEAN, LoadState(c, skip, os)
      PROVE  ops' \subseteq Ops /\ nextOp' \in Nat
  <2>1. Cmd(c, "list", {}, {}, skip) \in Ops
    BY MessageTypes DEF OfState, Reading
  <2> QED
    BY <1>1, <2>1, LaunchTypes DEF LoadState
<1>2. ASSUME LoadWorkspaces(c, os)
      PROVE  ops' \subseteq Ops /\ nextOp' \in Nat
  <2>1. Cmd(c, "wlist", {}, {}, FALSE) \in Ops
    BY MessageTypes DEF OfWorkspace
  <2> QED
    BY <1>2, <2>1, LaunchTypes DEF LoadWorkspaces
<1> QED
  BY <1>1, <1>2 DEF NoLaunch, Types

\* A view that is entered.
LEMMA ActivateTypes ==
    ASSUME Types, NEW v, NEW c \in Contexts, NEW s \in Browsers, NEW w \in WorkspaceState,
           NEW os \in SUBSET Ops, Activate(v, c, s, w, os)
    PROVE  st' \in Browsers /\ wv' \in WorkspaceState /\ ops' \subseteq Ops /\ nextOp' \in Nat
<1>1. Loading(s) \in Browsers
  BY ViewTypes
<1>2. WorkspacesLoading(w) \in WorkspaceState
  BY DEF WorkspacesLoading, WorkspaceState
<1>3. /\ st' \in {s, Loading(s)} /\ wv' \in {w, WorkspacesLoading(w)}
      /\ LoadState(c, FALSE, os) \/ LoadWorkspaces(c, os) \/ NoLaunch(os)
  BY DEF Activate
<1> QED
  BY <1>1, <1>2, <1>3, LoadTypes

\* A key that changes the browser only, or sends one message besides.
LEMMA KeyTypes ==
    ASSUME Types, NEW s \in Browsers
    PROVE  /\ StateKey(s) => Types'
           /\ \A m \in Msgs : StateSends(s, m) => Types'
<1>1. ASSUME StateKey(s)
      PROVE  Types'
  BY <1>1 DEF Types, StateKey, nav, context, terraform, ghosts
<1>2. ASSUME NEW m \in Msgs, StateSends(s, m)
      PROVE  Types'
  BY <1>2 DEF Types, StateSends, nav, context, terraform, ghosts
<1> QED
  BY <1>1, <1>2

\* The views that are left are there to come back to.
LEMMA BackTypes ==
    ASSUME Types, navStack # <<>>
    PROVE  Last(navStack) \in Views /\ Front(navStack) \in Seq(Views)
<1>1. navStack \in Seq(Views) /\ Len(navStack) \in Nat /\ Len(navStack) >= 1
  BY EmptySeq, LenProperties DEF Types
<1>2. \A i \in 1 .. Len(navStack) : navStack[i] \in Views
  BY <1>1, ElementOfSeq
<1>3. Last(navStack) \in Views
  BY <1>1, <1>2 DEF Last
<1>4. Front(navStack) \in Seq(Views)
  BY <1>1, <1>2, SubSeqProperties, SMT DEF Front
<1> QED
  BY <1>3, <1>4

\* What the handlers make of the workspace view is a workspace view.
LEMMA WorkspaceTypes ==
    ASSUME NEW v \in WorkspaceState, NEW w \in Workspaces, NEW ws \in SUBSET Workspaces
    PROVE  /\ ResetWorkspaces(v) \in WorkspaceState /\ WorkspacesLoading(v) \in WorkspaceState
           /\ WorkspacesListed(v, ws, w) \in WorkspaceState
           /\ WorkspacesFailed(v) \in WorkspaceState /\ WorkspaceLeft(v, w) \in WorkspaceState
           /\ WorkspaceTaken(v, w) \in WorkspaceState
           /\ Asking(v, w) \in WorkspaceState /\ Answered(v) \in WorkspaceState
BY DEF WorkspaceState, ResetWorkspaces, WorkspacesLoading, WorkspacesListed, WorkspacesFailed,
       WorkspaceLeft, WorkspaceTaken, Asking, Answered

\* Going back and going home keep the types.
LEMMA BackHomeTypes ==
    ASSUME Types, NEW c \in Contexts, NEW s \in Browsers, NEW w \in WorkspaceState,
           NEW os \in SUBSET Ops, NEW ms \in SUBSET Msgs
    PROVE  /\ GoBack(c, s, w, os) =>
                /\ active' \in Views /\ navStack' \in Seq(Views) /\ st' \in Browsers
                /\ wv' \in WorkspaceState /\ ops' \subseteq Ops /\ nextOp' \in Nat
           /\ GoHome(os, ms) =>
                /\ active' \in Views /\ navStack' \in Seq(Views) /\ st' \in Browsers
                /\ wv' \in WorkspaceState /\ ops' \subseteq Ops /\ nextOp' \in Nat
                /\ msgs' \subseteq Msgs
<1>1. ASSUME GoBack(c, s, w, os)
      PROVE  /\ active' \in Views /\ navStack' \in Seq(Views) /\ st' \in Browsers
             /\ wv' \in WorkspaceState /\ ops' \subseteq Ops /\ nextOp' \in Nat
  BY <1>1, BackTypes, ActivateTypes DEF GoBack
<1>2. ASSUME GoHome(os, ms)
      PROVE  /\ active' \in Views /\ navStack' \in Seq(Views) /\ st' \in Browsers
             /\ wv' \in WorkspaceState /\ ops' \subseteq Ops /\ nextOp' \in Nat
             /\ msgs' \subseteq Msgs
  <2>1. <<>> \in Seq(Views) /\ Signal("PinClear") \in Msgs
    BY MessageTypes
  <2> QED
    BY <1>2, <2>1 DEF GoHome, NoLaunch, Views, Types
<1> QED
  BY <1>1, <1>2

\* The keys of the state browser keep the types.
LEMMA StateKeysTypes ==
    ASSUME Types, StateKeys
    PROVE  Types'
<1>1. st \in Browsers /\ pins \in SUBSET Addrs /\ st.detail \in SUBSET Addrs
      /\ st.shown \in SUBSET Addrs /\ ctx \in Contexts /\ st.targets \in SUBSET Addrs /\ st.filter \in BOOLEAN
  BY DEF Types, Browsers, StateState
<1>2. CASE Inspect
  <2>1. PICK a \in st.shown : Launch(Cmd(ctx, "detail", {a}, {}, FALSE), ops)
    BY <1>2 DEF Inspect
  <2>2. Cmd(ctx, "detail", {a}, {}, FALSE) \in Ops
    BY <1>1, MessageTypes DEF OfState, Reading
  <2>3. ops' \subseteq Ops /\ nextOp' \in Nat
    BY <2>1, <2>2, LaunchTypes DEF Types
  <2>4. Inspecting(st) \in Browsers
    BY <1>1, ViewTypesOf
  <2> QED
    BY <1>2, <2>3, <2>4 DEF Inspect, Types, nav, context, terraform, ghosts
<1>3. CASE OpenFilter
  BY <1>1, <1>3, ViewTypes, KeyTypes DEF OpenFilter
<1>4. CASE TypeFilter
  <2>1. \A q \in BOOLEAN : SetFilter(st, q, pins) \in Browsers
    BY <1>1, ViewTypesOf
  <2> QED
    BY <1>4, <2>1, KeyTypes DEF TypeFilter
<1>5. CASE ToggleTree
  <2>1. SetFilter(st, st.filter, pins) \in Browsers
    BY <1>1, ViewTypesOf
  <2> QED
    BY <1>5, <2>1, KeyTypes DEF ToggleTree
<1>6. CASE TogglePinnedOnly
  <2>1. [st EXCEPT !.pinnedOnly = ~@] \in Browsers
    BY <1>1, ViewTypes
  <2>2. SetFilter([st EXCEPT !.pinnedOnly = ~@], st.filter, pins) \in Browsers
    BY <1>1, <2>1, ViewTypesOf
  <2> QED
    BY <1>6, <2>2, KeyTypes DEF TogglePinnedOnly
<1>7. CASE ClearAllPins
  <2>1. [st EXCEPT !.pinnedOnly = FALSE] \in Browsers
    BY <1>1, ViewTypes
  <2>2. PinsRead([st EXCEPT !.pinnedOnly = FALSE], pins) \in Browsers
    BY <1>1, <2>1, ViewTypesOf
  <2> QED
    BY <1>7, <2>2, KeyTypes, MessageTypes DEF ClearAllPins
<1>8. CASE TogglePins
  <2>1. \A as \in SUBSET st.shown : PinToggle(as) \in Msgs
    BY <1>1, MessageTypes
  <2>2. PinToggle(st.detail) \in Msgs
    BY <1>1, MessageTypes
  <2>3. PICK m \in Msgs : StateSends(st, m)
    BY <1>8, <2>1, <2>2 DEF TogglePins
  <2> QED
    BY <1>1, <2>3, KeyTypes
<1>9. CASE RefreshKey
  <2>1. Refreshed(st) \in Browsers /\ ops' \subseteq Ops /\ nextOp' \in Nat
    BY <1>1, <1>9, ViewTypes, LoadTypes DEF RefreshKey, Types
  <2> QED
    BY <1>9, <2>1 DEF RefreshKey, Types, nav, context, terraform, ghosts
<1>10. Aimed \subseteq SUBSET Addrs
  BY <1>1 DEF Aimed
<1>11. CASE RequestDelete \/ RequestMove
  <2>1. PICK what \in Asks, as \in SUBSET Addrs : StateSends(st, Request(Ask(what, as)))
    BY <1>10, <1>11 DEF RequestDelete, RequestMove, Asks
  <2> QED
    BY <1>1, <2>1, KeyTypes, MessageTypes
<1>12. CASE Edit
  BY <1>1, <1>12, KeyTypes, MessageTypes DEF Edit
<1>13. CASE OpenPalette
  <2>1. ActionTargets(st, pins) \subseteq SUBSET Addrs
    BY <1>1 DEF ActionTargets
  <2>2. \A as \in SUBSET Addrs : PaletteOpened(st, as) \in Browsers
    BY <1>1, ViewTypesOf
  <2> QED
    BY <1>13, <2>1, <2>2, KeyTypes DEF OpenPalette
<1>14. CASE PickAction
  <2>1. PaletteClosed(st) \in Browsers
    BY <1>1, <1>14, ViewTypesOf DEF PickAction
  <2>2. StateKey(PaletteClosed(st))
        \/ \E what \in Asks, as \in SUBSET Addrs :
             StateSends(PaletteClosed(st), Request(Ask(what, as)))
    BY <1>1, <1>14 DEF PickAction, Asks
  <2> QED
    BY <2>1, <2>2, KeyTypes, MessageTypes
<1>15. CASE CloseFrame
  <2>1. PICK s \in Browsers : StateKey(s)
    BY <1>1, <1>15, ViewTypesOf DEF CloseFrame
  <2> QED
    BY <2>1, KeyTypes
<1> QED
  BY <1>2, <1>3, <1>4, <1>5, <1>6, <1>7, <1>8, <1>9, <1>11, <1>12, <1>13, <1>14, <1>15
     DEF StateKeys

\* Answers to prompts keep the types.
LEMMA AnswersTypes ==
    ASSUME Types, Answers
    PROVE  Types'
<1>1. NoPrompt \in Prompts /\ ctx \in Contexts
  BY BrowserAssumption DEF NoPrompt, Prompts, Asks, Services, Types
<1>2. CASE Decline
  BY <1>1, <1>2 DEF Decline, Types, nav, context, terraform, ghosts
<1>3. CASE EnterName
  <2>1. PICK to \in Addrs :
          msgs' = IF {to} = prompt.from THEN {} ELSE {Request([prompt EXCEPT !.what = "mv", !.to = {to}])}
    BY <1>3 DEF EnterName
  <2>2. [prompt EXCEPT !.what = "mv", !.to = {to}] \in Prompts
    BY DEF Types, Prompts, Asks
  <2>3. msgs' \subseteq Msgs
    BY <2>1, <2>2, MessageTypes
  <2> QED
    BY <1>1, <1>3, <2>3 DEF EnterName, Types, nav, context, terraform, ghosts
<1>4. CASE Confirm
  <2> DEFINE o == [Cmd(prompt, prompt.what, prompt.to, {}, FALSE) EXCEPT !.todo = Agreed]
  <2>1. o \in Ops
    BY <1>4 DEF Confirm, Types, Cmd, Ops, Command, Known, Prompts, Agreed, Mutations, OfState
  <2>2. ops' \subseteq Ops /\ nextOp' \in Nat
    <3>1. Launch(o, ops)
      BY <1>4 DEF Confirm
    <3> HIDE DEF o
    <3> QED
      BY <2>1, <3>1, LaunchTypes DEF Types
  <2>3. [st EXCEPT !.mutating = TRUE] \in Browsers
    BY ViewTypes DEF Types
  <2>4. confirmed' \subseteq Chdirs \X Addrs
    BY <1>4 DEF Confirm, Types, Contexts, Prompts
  <2> QED
    BY <1>1, <1>4, <2>2, <2>3, <2>4 DEF Confirm, Types, nav, context, terraform, ghosts
<1>5. CASE CreateWorkspace
  <2>1. PICK w \in Workspaces : Launch(Cmd(ctx, "wnew", {}, {w}, FALSE), ops)
    BY <1>5 DEF CreateWorkspace
  <2>2. Cmd(ctx, "wnew", {}, {w}, FALSE) \in Ops
    BY <1>1, MessageTypes DEF OfWorkspace
  <2>3. ops' \subseteq Ops /\ nextOp' \in Nat
    BY <2>1, <2>2, LaunchTypes DEF Types
  <2>4. WorkspacesLoading(wv) \in WorkspaceState
    BY WorkspaceTypes DEF Types
  <2> QED
    BY <1>1, <1>5, <2>3, <2>4 DEF CreateWorkspace, Types, nav, context, terraform, ghosts
<1> QED
  BY <1>2, <1>3, <1>4, <1>5 DEF Answers

\* The keys of the workspace view and of the picker keep the types.
LEMMA WorkspaceKeysTypes ==
    ASSUME Types, WorkspaceKeys
    PROVE  Types'
<1>1. /\ wv \in WorkspaceState /\ st \in Browsers /\ ops \in SUBSET Ops /\ msgs \in SUBSET Msgs
      /\ ctx \in Contexts
      /\ wv.list \in SUBSET Workspaces /\ wv.confirm \in SUBSET Workspaces
  BY DEF Types, WorkspaceState
<1>2. CASE SelectWorkspace
  <2>1. PICK w \in Selectable(wv), back \in BOOLEAN :
          Launch(Cmd(ctx, "wselect", {}, {w}, back), ops)
    BY <1>2 DEF SelectWorkspace
  <2>2. w \in Workspaces
    BY <1>1 DEF Selectable
  <2>3. Cmd(ctx, "wselect", {}, {w}, back) \in Ops
    BY <1>1, <2>2, MessageTypes DEF OfWorkspace
  <2>4. ops' \subseteq Ops /\ nextOp' \in Nat
    BY <1>1, <2>1, <2>3, LaunchTypes
  <2>5. WorkspacesLoading(wv) \in WorkspaceState
    BY <1>1, <2>2, WorkspaceTypes
  <2> QED
    BY <1>2, <2>4, <2>5 DEF SelectWorkspace, Types, nav, context, terraform, ghosts
<1>3. CASE NewWorkspace
  <2>1. Request(Ask("wnew", {})) \in Msgs
    BY MessageTypes DEF Asks
  <2> QED
    BY <1>1, <1>3, <2>1, KeyTypes DEF NewWorkspace
<1>4. CASE AskDelete
  <2>1. PICK w \in Deletable(wv) : wv' = Asking(wv, w)
    BY <1>4 DEF AskDelete
  <2>2. w \in Workspaces
    BY <1>1 DEF Deletable
  <2>3. Asking(wv, w) \in WorkspaceState
    BY <1>1, <2>2, WorkspaceTypes
  <2> QED
    BY <1>4, <2>1, <2>3 DEF AskDelete, Types, nav, context, terraform, ghosts
<1>5. Answered(wv) \in WorkspaceState /\ WorkspacesLoading(Answered(wv)) \in WorkspaceState
      /\ WorkspacesLoading(wv) \in WorkspaceState
  BY <1>1 DEF Answered, WorkspacesLoading, WorkspaceState
<1>6. CASE AnswerDelete
  <2>1. Cmd(ctx, "wdelete", {}, wv.confirm, FALSE) \in Ops
    BY <1>1, MessageTypes DEF OfWorkspace
  <2>2. wv' \in WorkspaceState
        /\ (Launch(Cmd(ctx, "wdelete", {}, wv.confirm, FALSE), ops) \/ NoLaunch(ops))
    BY <1>5, <1>6 DEF AnswerDelete
  <2>3. ops' \subseteq Ops /\ nextOp' \in Nat
    BY <1>1, <2>1, <2>2, LaunchTypes, LoadTypes
  <2> QED
    BY <1>6, <2>2, <2>3 DEF AnswerDelete, Types, nav, context, terraform, ghosts
<1>7. CASE RefreshWorkspaces
  <2>1. ops' \subseteq Ops /\ nextOp' \in Nat
    BY <1>1, <1>7, LoadTypes DEF RefreshWorkspaces
  <2> QED
    BY <1>5, <1>7, <2>1 DEF RefreshWorkspaces, Types, nav, context, terraform, ghosts
<1>8. CASE SelectMember
  <2>1. \A d \in Chdirs : SwitchTo(d, Default, 0) \in Msgs
    BY MessageTypes, WorkspaceViewAssumption
  <2> QED
    BY <1>1, <1>8, <2>1, KeyTypes DEF SelectMember
<1>9. CASE LeaveChdir
  <2>1. /\ active' \in Views /\ navStack' \in Seq(Views) /\ st' \in Browsers
        /\ wv' \in WorkspaceState /\ ops' \subseteq Ops /\ nextOp' \in Nat
        /\ msgs' \subseteq Msgs
    BY <1>1, <1>9, BackHomeTypes DEF LeaveChdir
  <2> QED
    BY <1>9, <2>1 DEF LeaveChdir, Types, context, terraform, ghosts
<1> QED
  BY <1>2, <1>3, <1>4, <1>6, <1>7, <1>8, <1>9 DEF WorkspaceKeys

\* Navigation keeps the types.
LEMMA NavigationTypes ==
    ASSUME Types,
           (\E v \in {"state", "workspace", "chdir"} : Navigate(v)) \/ Leave \/ Quit \/ Elsewhere
    PROVE  Types'
<1>1. st \in Browsers /\ wv \in WorkspaceState /\ ops \in SUBSET Ops /\ msgs \in SUBSET Msgs
      /\ Cut(active, ops) \in SUBSET Ops /\ ctx \in Contexts
  BY CutTypes DEF Types
<1>2. ASSUME NEW v \in {"state", "workspace", "chdir"}, Navigate(v)
      PROVE  Types'
  <2>1. navStack' \in Seq(Views)
    BY <1>2, AppendProperties DEF Navigate, Types, Views
  <2>2. st' \in Browsers /\ wv' \in WorkspaceState /\ ops' \subseteq Ops /\ nextOp' \in Nat
    BY <1>1, <1>2, ActivateTypes DEF Navigate
  <2> QED
    BY <1>2, <2>1, <2>2 DEF Navigate, Types, Views, context, terraform, ghosts
<1>3. CASE Leave
  BY <1>1, <1>3, KeyTypes, MessageTypes DEF Leave
<1>4. CASE Quit
  <2>1. CASE StateKey(ClearFrames(st))
    BY <1>1, <2>1, FrameTypes, KeyTypes
  <2>2. CASE /\ GoHome(IF active = "state" /\ StateBusy(st) THEN ops ELSE Cut(active, ops), msgs)
             /\ UNCHANGED <<context, prompt, terraform, ghosts>>
    <3>1. /\ active' \in Views /\ navStack' \in Seq(Views) /\ st' \in Browsers
          /\ wv' \in WorkspaceState /\ ops' \subseteq Ops /\ nextOp' \in Nat
          /\ msgs' \subseteq Msgs
      BY <1>1, <2>2, BackHomeTypes
    <3> QED
      BY <2>2, <3>1 DEF Types, context, terraform, ghosts
  <2> QED
    BY <1>4, <2>1, <2>2 DEF Quit
<1>5. CASE Elsewhere
  BY <1>1, <1>5, ViewTypes, KeyTypes DEF Elsewhere
<1> QED
  BY <1>2, <1>3, <1>4, <1>5

\* What a command sends when it is over, and what it leaves, are as they should be.
LEMMA SendsTypes ==
    ASSUME Types, NEW o, NEW r \in Ops, NEW ok \in BOOLEAN
    PROVE  Sends(o, r, ok) => ops' \subseteq Ops /\ msgs' \subseteq Msgs
BY MessageTypes DEF Sends, Types

\* A write to the state of the directory of a command.
LEMMA WriteTypes ==
    ASSUME Types, NEW o \in ops
    PROVE  /\ Current(o) \in SUBSET Addrs
           /\ \A as \in SUBSET Addrs :
                Write(o, as) => store' \in [Chdirs -> [Workspaces -> SUBSET Addrs]]
           /\ Invalidate(o) => cache' \in [Services -> SUBSET Snapshot]
           /\ UNCHANGED cache => cache' \in [Services -> SUBSET Snapshot]
<1>1. o.dir \in Chdirs /\ o.svc \in Services /\ selected[o.dir] \in Workspaces
  BY DEF Types, Ops, Command
<1>2. store[o.dir] \in [Workspaces -> SUBSET Addrs]
  BY <1>1 DEF Types
<1>3. ASSUME NEW as \in SUBSET Addrs, Write(o, as)
      PROVE  store' \in [Chdirs -> [Workspaces -> SUBSET Addrs]]
  <2>1. store' = [store EXCEPT ![o.dir] = [store[o.dir] EXCEPT ![selected[o.dir]] = as]]
    BY <1>3 DEF Write
  <2>2. [store[o.dir] EXCEPT ![selected[o.dir]] = as] \in [Workspaces -> SUBSET Addrs]
    BY <1>2
  <2> QED
    BY <2>1, <2>2 DEF Types
<1>4. cache \in [Services -> SUBSET Snapshot]
      /\ [cache EXCEPT ![o.svc] = {}] \in [Services -> SUBSET Snapshot]
  BY DEF Types
<1> QED
  BY <1>1, <1>2, <1>3, <1>4 DEF Current, Invalidate

\* A command that runs keeps the types.
LEMMA RunTypes ==
    ASSUME Types, NEW o \in ops, Run(o)
    PROVE  Types'
<1>1. /\ o \in Ops /\ o.dir \in Chdirs /\ o.svc \in Services /\ o.todo \in SUBSET Addrs
      /\ o.addrs \in SUBSET Addrs /\ o.ws \in SUBSET Workspaces
      /\ selected[o.dir] \in Workspaces /\ exists[o.dir] \in SUBSET Workspaces
  BY DEF Types, Ops, Command
<1>2. /\ st \in Browsers /\ wv \in WorkspaceState /\ ops \subseteq Ops /\ msgs \subseteq Msgs
      /\ Current(o) \in SUBSET Addrs
  BY WriteTypes DEF Types
<1>3. SUFFICES /\ ops' \subseteq Ops /\ msgs' \subseteq Msgs
               /\ exists' \in [Chdirs -> SUBSET Workspaces] /\ selected' \in [Chdirs -> Workspaces]
               /\ store' \in [Chdirs -> [Workspaces -> SUBSET Addrs]]
               /\ cache' \in [Services -> SUBSET Snapshot]
               /\ unclean' \in BOOLEAN
  BY DEF Types, Run, nav, context
<1>4. ASSUME NEW ok \in BOOLEAN, Ends(o, ok)
      PROVE  ops' \subseteq Ops /\ msgs' \subseteq Msgs
  BY <1>1, <1>4, SendsTypes DEF Ends
<1>5. ASSUME Fails(o), UNCHANGED unclean
      PROVE  /\ ops' \subseteq Ops /\ msgs' \subseteq Msgs
             /\ exists' \in [Chdirs -> SUBSET Workspaces] /\ selected' \in [Chdirs -> Workspaces]
             /\ store' \in [Chdirs -> [Workspaces -> SUBSET Addrs]]
             /\ cache' \in [Services -> SUBSET Snapshot]
             /\ unclean' \in BOOLEAN
  BY <1>4, <1>5 DEF Fails, terraform, Types
<1>6. CASE Read(o)
  <2>1. CASE Fails(o) /\ UNCHANGED unclean
    BY <1>5, <2>1
  <2>2. ASSUME NEW snap \in Seen(o),
               cache' = [cache EXCEPT ![o.svc] = {snap}],
               IF o.what = "list"
                 THEN Sends(o, [o EXCEPT !.todo = snap.addrs, !.ws = {snap.ws}], TRUE)
                 ELSE Ends(o, o.todo \subseteq snap.addrs),
               UNCHANGED <<exists, selected, store, unclean>>
        PROVE  /\ ops' \subseteq Ops /\ msgs' \subseteq Msgs
               /\ exists' \in [Chdirs -> SUBSET Workspaces] /\ selected' \in [Chdirs -> Workspaces]
               /\ store' \in [Chdirs -> [Workspaces -> SUBSET Addrs]]
               /\ cache' \in [Services -> SUBSET Snapshot]
               /\ unclean' \in BOOLEAN
    <3>1. snap \in Snapshot
      BY <1>1, <1>2 DEF Seen, Types, Snapshot
    <3>2. ASSUME o.what = "list"
          PROVE  [o EXCEPT !.todo = snap.addrs, !.ws = {snap.ws}] \in Ops
      BY <1>1, <3>1, <3>2 DEF Snapshot, Ops, Command, Known
    <3>3. ops' \subseteq Ops /\ msgs' \subseteq Msgs
      BY <1>4, <2>2, <3>2, SendsTypes
    <3> QED
      BY <1>1, <2>2, <3>1, <3>3 DEF Types
  <2> QED
    BY <1>6, <2>1, <2>2 DEF Read
<1>7. CASE RemoveEach(o)
  <2>1. \A a \in o.todo, as \in SUBSET Addrs : Current(o) \ as \in SUBSET Addrs
    BY <1>2
  <2>2. [o EXCEPT !.flag = TRUE] \in Ops
        /\ \A a : [o EXCEPT !.todo = @ \ {a}, !.flag = TRUE] \in Ops
    BY <1>1, <1>7 DEF RemoveEach, Ops, Command, Known
  <2>3. ops' \subseteq Ops /\ msgs' \subseteq Msgs
    BY <1>2, <1>4, <1>7, <2>2 DEF RemoveEach
  <2>4. \E as \in SUBSET Addrs : Write(o, Current(o) \ as)
    BY <1>1, <1>7 DEF RemoveEach
  <2>5. Invalidate(o) \/ UNCHANGED cache
    BY <1>7 DEF RemoveEach
  <2>6. unclean' \in BOOLEAN
    BY <1>7 DEF RemoveEach
  <2> QED
    BY <1>2, <1>7, <2>3, <2>4, <2>5, <2>6, WriteTypes DEF RemoveEach, Types
<1>8. CASE Move(o)
  <2>1. (Current(o) \ o.todo) \cup o.addrs \in SUBSET Addrs
    BY <1>1, <1>2
  <2>2. ops' \subseteq Ops /\ msgs' \subseteq Msgs
    BY <1>4, <1>8 DEF Move
  <2>3. Write(o, (Current(o) \ o.todo) \cup o.addrs) \/ UNCHANGED store
    BY <1>8 DEF Move
  <2>4. Invalidate(o) \/ UNCHANGED cache
    BY <1>8 DEF Move
  <2>5. unclean' \in BOOLEAN
    BY <1>8 DEF Move, Types
  <2> QED
    BY <1>8, <2>1, <2>2, <2>3, <2>4, <2>5, WriteTypes DEF Move, Types
<1>9. CASE ListWorkspaces(o)
  <2>1. CASE Fails(o) /\ UNCHANGED unclean
    BY <1>5, <2>1
  <2>2. ASSUME ops' = (ops \ {o}) \cup {[o EXCEPT !.flag = TRUE, !.ws = exists[o.dir]]},
               UNCHANGED <<msgs, terraform, unclean>>
        PROVE  ops' \subseteq Ops /\ msgs' \subseteq Msgs
    <3>1. [o EXCEPT !.flag = TRUE, !.ws = exists[o.dir]] \in Ops
      BY <1>1 DEF Ops, Command, Known
    <3> QED
      BY <1>2, <2>2, <3>1
  <2>3. ASSUME ops' = ops \ {o},
               msgs' = msgs \cup {[Result(o, TRUE) EXCEPT !.now = {selected[o.dir]}]}
        PROVE  ops' \subseteq Ops /\ msgs' \subseteq Msgs
    <3>1. [Result(o, TRUE) EXCEPT !.now = {selected[o.dir]}] \in Msgs
      BY <1>1 DEF Ops, Result, Msgs, Message
    <3> QED
      BY <1>2, <2>3, <3>1
  <2> QED
    BY <1>9, <2>1, <2>2, <2>3 DEF ListWorkspaces, terraform, Types
<1>10. CASE SwitchWorkspace(o)
  <2>1. PICK w \in o.ws :
             \/ /\ Ends(o, TRUE)
                /\ selected' = [selected EXCEPT ![o.dir] = w]
                /\ exists' = [exists EXCEPT ![o.dir] = @ \cup {w}]
                /\ Invalidate(o) \/ UNCHANGED cache
             \/ /\ Ends(o, FALSE)
                /\ \/ UNCHANGED <<exists, selected>>
                   \/ /\ selected' = [selected EXCEPT ![o.dir] = w]
                      /\ exists' = [exists EXCEPT ![o.dir] = @ \cup {w}]
                /\ UNCHANGED cache
    BY <1>10 DEF SwitchWorkspace
  <2>2. ops' \subseteq Ops /\ msgs' \subseteq Msgs
    BY <1>4, <2>1
  <2>3. cache' \in [Services -> SUBSET Snapshot]
    BY <2>1, WriteTypes
  <2>4. w \in Workspaces
    BY <1>1
  <2>5. /\ [selected EXCEPT ![o.dir] = w] \in [Chdirs -> Workspaces]
        /\ [exists EXCEPT ![o.dir] = @ \cup {w}] \in [Chdirs -> SUBSET Workspaces]
    BY <1>1, <2>4 DEF Types
  <2>6. exists' \in [Chdirs -> SUBSET Workspaces] /\ selected' \in [Chdirs -> Workspaces]
    BY <2>1, <2>5 DEF Types
  <2> QED
    BY <1>10, <2>2, <2>3, <2>6 DEF SwitchWorkspace, Types
<1>11. CASE DeleteWorkspace(o)
  <2>1. CASE Fails(o) /\ UNCHANGED unclean
    BY <1>5, <2>1
  <2>2. ASSUME NEW w \in o.ws, Ends(o, TRUE),
               exists' = [exists EXCEPT ![o.dir] = @ \ {w}],
               UNCHANGED <<selected, store, cache, unclean>>
        PROVE  /\ ops' \subseteq Ops /\ msgs' \subseteq Msgs
               /\ exists' \in [Chdirs -> SUBSET Workspaces] /\ selected' \in [Chdirs -> Workspaces]
               /\ store' \in [Chdirs -> [Workspaces -> SUBSET Addrs]]
               /\ cache' \in [Services -> SUBSET Snapshot]
               /\ unclean' \in BOOLEAN
    BY <1>1, <1>4, <2>2 DEF Types
  <2> QED
    BY <1>11, <2>1, <2>2 DEF DeleteWorkspace
<1> QED
  BY <1>6, <1>7, <1>8, <1>9, <1>10, <1>11 DEF Run

-----------------------------------------------------------------------------
(* The services there can be *)

\* A switch of workspace that is under way: its command, its result, or the
\* switch of Context that follows.
Switchers == {"wselect", "wnew"}

Switching(os)  == {o \in os : o.what \in Switchers}
Announcing(ms) == {m \in ms : m.type = "ContextSwitch" \/ (m.type = "Result" /\ m.op.what \in Switchers)}

\* The user is being asked for the name of a new workspace.
Naming ==
    prompt.what = "wnew" \/ \E m \in msgs : m.type = "RequestInput" /\ m.ask.what = "wnew"

\* Every switch under way has its service in Services.
Bounded ==
    /\ IsFiniteSet(ops) /\ IsFiniteSet(msgs)
    /\ ctx.svc + Cardinality(Switching(ops)) + Cardinality(Announcing(msgs))
         + (IF Naming THEN 1 ELSE 0) <= MaxSwitches

\* A set with one element more, or less.
LEMMA OneMoreOrLess ==
    ASSUME NEW S, IsFiniteSet(S), NEW T, NEW x
    PROVE  /\ Cardinality(S) \in Nat
           /\ T = S \/ T = S \cup {x} => Cardinality(T) <= Cardinality(S) + 1
           /\ T = S \ {x} => Cardinality(T) <= Cardinality(S)
           /\ T = S \ {x} /\ x \in S => Cardinality(T) = Cardinality(S) - 1
<1>1. Cardinality(S) \in Nat
  BY FS_CardinalityType
<1>2. T = S \cup {x} => Cardinality(T) <= Cardinality(S) + 1
  BY <1>1, FS_AddElement
<1>3. T = S \ {x} => Cardinality(T) = IF x \in S THEN Cardinality(S) - 1 ELSE Cardinality(S)
  BY FS_RemoveElement
<1> QED
  BY <1>1, <1>2, <1>3

\* How the number of switches under way changes with the commands.
LEMMA CountCommands ==
    ASSUME NEW os \in SUBSET Ops, IsFiniteSet(os)
    PROVE  /\ Cardinality(Switching(os)) \in Nat
           /\ \A v : /\ IsFiniteSet(Cut(v, os)) /\ Cut(v, os) \in SUBSET Ops
                     /\ Cardinality(Switching(Cut(v, os))) <= Cardinality(Switching(os))
           /\ \A o : /\ IsFiniteSet(os \cup {o}) /\ IsFiniteSet(os \ {o})
                     /\ Cardinality(Switching(os \cup {o})) <= Cardinality(Switching(os)) + 1
                     /\ o.what \notin Switchers =>
                          Cardinality(Switching(os \cup {o})) = Cardinality(Switching(os))
                     /\ Cardinality(Switching(os \ {o})) <= Cardinality(Switching(os))
                     /\ o \in Switching(os) =>
                          Cardinality(Switching(os \ {o})) = Cardinality(Switching(os)) - 1
<1>1. Switching(os) \subseteq os /\ IsFiniteSet(Switching(os)) /\ Cardinality(Switching(os)) \in Nat
  BY FS_Subset, FS_CardinalityType DEF Switching
<1>2. ASSUME NEW v
      PROVE  /\ IsFiniteSet(Cut(v, os)) /\ Cut(v, os) \in SUBSET Ops
             /\ Cardinality(Switching(Cut(v, os))) <= Cardinality(Switching(os))
  <2> DEFINE c(o) == [o EXCEPT !.cut = @ \/ View(o) = v]
             f == [o \in os |-> c(o)]
             g == [o \in Switching(os) |-> c(o)]
  <2>1. f \in Surjection(os, Cut(v, os))
    BY DEF Cut, Surjection
  <2>2. IsFiniteSet(Cut(v, os))
    BY <2>1, FS_Surjection
  <2>3. \A o \in os : c(o).what = o.what
    BY DEF Ops, Command
  <2>4. Switching(Cut(v, os)) = {c(o) : o \in Switching(os)}
    BY <2>3 DEF Switching, Cut
  <2>5. g \in Surjection(Switching(os), Switching(Cut(v, os)))
    BY <2>4 DEF Surjection
  <2>6. Cardinality(Switching(Cut(v, os))) <= Cardinality(Switching(os))
    BY <1>1, <2>5, FS_Surjection
  <2> QED
    BY <2>2, <2>6, CutTypes
<1>3. ASSUME NEW o
      PROVE  /\ IsFiniteSet(os \cup {o}) /\ IsFiniteSet(os \ {o})
             /\ Cardinality(Switching(os \cup {o})) <= Cardinality(Switching(os)) + 1
             /\ o.what \notin Switchers =>
                  Cardinality(Switching(os \cup {o})) = Cardinality(Switching(os))
             /\ Cardinality(Switching(os \ {o})) <= Cardinality(Switching(os))
             /\ o \in Switching(os) =>
                  Cardinality(Switching(os \ {o})) = Cardinality(Switching(os)) - 1
  <2>1. IsFiniteSet(os \cup {o}) /\ IsFiniteSet(os \ {o})
    BY FS_AddElement, FS_RemoveElement
  <2>2. (Switching(os \cup {o}) = Switching(os) \/ Switching(os \cup {o}) = Switching(os) \cup {o})
        /\ (o.what \notin Switchers => Switching(os \cup {o}) = Switching(os))
    BY DEF Switching
  <2>3. Switching(os \ {o}) = Switching(os) \ {o}
    BY DEF Switching
  <2>4. Cardinality(Switching(os \cup {o})) <= Cardinality(Switching(os)) + 1
    BY <1>1, <2>2, OneMoreOrLess
  <2>5. o.what \notin Switchers => Cardinality(Switching(os \cup {o})) = Cardinality(Switching(os))
    BY <2>2
  <2>6. /\ Cardinality(Switching(os \ {o})) <= Cardinality(Switching(os))
        /\ o \in Switching(os) =>
             Cardinality(Switching(os \ {o})) = Cardinality(Switching(os)) - 1
    BY <1>1, <2>3, OneMoreOrLess
  <2> QED
    BY <2>1, <2>4, <2>5, <2>6
<1> QED
  BY <1>1, <1>2, <1>3

\* How it changes with the messages.
LEMMA CountMessages ==
    ASSUME NEW ms, IsFiniteSet(ms)
    PROVE  /\ Cardinality(Announcing(ms)) \in Nat
           /\ \A m : /\ IsFiniteSet(ms \cup {m}) /\ IsFiniteSet(ms \ {m})
                     /\ Cardinality(Announcing(ms \cup {m})) <= Cardinality(Announcing(ms)) + 1
                     /\ m \notin Announcing({m}) =>
                          Cardinality(Announcing(ms \cup {m})) = Cardinality(Announcing(ms))
                     /\ Cardinality(Announcing(ms \ {m})) <= Cardinality(Announcing(ms))
                     /\ m \in Announcing(ms) =>
                          Cardinality(Announcing(ms \ {m})) = Cardinality(Announcing(ms)) - 1
<1>1. Announcing(ms) \subseteq ms /\ IsFiniteSet(Announcing(ms)) /\ Cardinality(Announcing(ms)) \in Nat
  BY FS_Subset, FS_CardinalityType DEF Announcing
<1>2. ASSUME NEW m
      PROVE  /\ IsFiniteSet(ms \cup {m}) /\ IsFiniteSet(ms \ {m})
             /\ Cardinality(Announcing(ms \cup {m})) <= Cardinality(Announcing(ms)) + 1
             /\ m \notin Announcing({m}) =>
                  Cardinality(Announcing(ms \cup {m})) = Cardinality(Announcing(ms))
             /\ Cardinality(Announcing(ms \ {m})) <= Cardinality(Announcing(ms))
             /\ m \in Announcing(ms) =>
                  Cardinality(Announcing(ms \ {m})) = Cardinality(Announcing(ms)) - 1
  <2>1. IsFiniteSet(ms \cup {m}) /\ IsFiniteSet(ms \ {m})
    BY FS_AddElement, FS_RemoveElement
  <2>2. (Announcing(ms \cup {m}) = Announcing(ms) \/ Announcing(ms \cup {m}) = Announcing(ms) \cup {m})
        /\ (m \notin Announcing({m}) => Announcing(ms \cup {m}) = Announcing(ms))
    BY DEF Announcing
  <2>3. Announcing(ms \ {m}) = Announcing(ms) \ {m}
    BY DEF Announcing
  <2>4. Cardinality(Announcing(ms \cup {m})) <= Cardinality(Announcing(ms)) + 1
    BY <1>1, <2>2, OneMoreOrLess
  <2>5. m \notin Announcing({m}) => Cardinality(Announcing(ms \cup {m})) = Cardinality(Announcing(ms))
    BY <2>2
  <2>6. /\ Cardinality(Announcing(ms \ {m})) <= Cardinality(Announcing(ms))
        /\ m \in Announcing(ms) =>
             Cardinality(Announcing(ms \ {m})) = Cardinality(Announcing(ms)) - 1
    BY <1>1, <2>3, OneMoreOrLess
  <2> QED
    BY <2>1, <2>4, <2>5, <2>6
<1> QED
  BY <1>1, <1>2

\* A command that is started adds to them when it is a switch, a load never does.
LEMMA LaunchCount ==
    ASSUME Types, Bounded, NEW v, NEW os \in {ops, Cut(v, ops)}
    PROVE  /\ IsFiniteSet(os) /\ os \in SUBSET Ops
           /\ Cardinality(Switching(os)) <= Cardinality(Switching(ops))
           /\ \A o \in Ops : Launch(o, os) =>
                /\ IsFiniteSet(ops')
                /\ Cardinality(Switching(ops')) <= Cardinality(Switching(ops)) + 1
                /\ o.what \notin Switchers =>
                     Cardinality(Switching(ops')) <= Cardinality(Switching(ops))
<1>1. /\ ops \in SUBSET Ops /\ IsFiniteSet(ops) /\ Cardinality(Switching(ops)) \in Nat
  BY CountCommands DEF Types, Bounded
<1>2. /\ os \in SUBSET Ops /\ IsFiniteSet(os) /\ Cardinality(Switching(os)) \in Nat
      /\ Cardinality(Switching(os)) <= Cardinality(Switching(ops))
  BY <1>1, CountCommands
<1>3. ASSUME NEW o \in Ops, Launch(o, os)
      PROVE  /\ IsFiniteSet(ops')
             /\ Cardinality(Switching(ops')) <= Cardinality(Switching(ops)) + 1
             /\ o.what \notin Switchers =>
                  Cardinality(Switching(ops')) <= Cardinality(Switching(ops))
  <2> DEFINE ks == Cut(View(o), os)
  <2>1. /\ ks \in SUBSET Ops /\ IsFiniteSet(ks) /\ Cardinality(Switching(ks)) \in Nat
        /\ Cardinality(Switching(ks)) <= Cardinality(Switching(os))
    BY <1>2, CountCommands
  <2>2. ops' = ks \cup {o}
    BY <1>3 DEF Launch
  <2> HIDE DEF ks
  <2>3. /\ IsFiniteSet(ops') /\ Cardinality(Switching(ops')) \in Nat
        /\ Cardinality(Switching(ops')) <= Cardinality(Switching(ks)) + 1
        /\ o.what \notin Switchers => Cardinality(Switching(ops')) = Cardinality(Switching(ks))
    <3>1. ks \cup {o} \in SUBSET Ops
      BY <2>1
    <3> QED
      BY <2>1, <2>2, <3>1, CountCommands
  <2> QED
    BY <1>1, <1>2, <2>1, <2>3
<1> QED
  BY <1>2, <1>3

\* The loads, and what starts nothing.
LEMMA LoadCount ==
    ASSUME Types, Bounded, NEW v, NEW os \in {ops, Cut(v, ops)}, NEW c \in Contexts,
           \/ \E skip \in BOOLEAN : LoadState(c, skip, os)
           \/ LoadWorkspaces(c, os)
           \/ NoLaunch(os)
           \/ \E u, s, w : Activate(u, c, s, w, os)
    PROVE  IsFiniteSet(ops') /\ Cardinality(Switching(ops')) <= Cardinality(Switching(ops))
<1>1. \/ \E skip \in BOOLEAN : LoadState(c, skip, os)
      \/ LoadWorkspaces(c, os)
      \/ NoLaunch(os)
  BY DEF Activate
<1>2. ASSUME NEW skip \in BOOLEAN, LoadState(c, skip, os)
      PROVE  IsFiniteSet(ops') /\ Cardinality(Switching(ops')) <= Cardinality(Switching(ops))
  <2>1. Cmd(c, "list", {}, {}, skip) \in Ops /\ Cmd(c, "list", {}, {}, skip).what \notin Switchers
    BY MessageTypes DEF OfState, Reading, Cmd, Switchers
  <2> QED
    BY <1>2, <2>1, LaunchCount DEF LoadState
<1>3. ASSUME LoadWorkspaces(c, os)
      PROVE  IsFiniteSet(ops') /\ Cardinality(Switching(ops')) <= Cardinality(Switching(ops))
  <2>1. Cmd(c, "wlist", {}, {}, FALSE) \in Ops /\ Cmd(c, "wlist", {}, {}, FALSE).what \notin Switchers
    BY MessageTypes DEF OfWorkspace, Cmd, Switchers
  <2> QED
    BY <1>3, <2>1, LaunchCount DEF LoadWorkspaces
<1>4. ASSUME NoLaunch(os)
      PROVE  IsFiniteSet(ops') /\ Cardinality(Switching(ops')) <= Cardinality(Switching(ops))
  BY <1>4, LaunchCount DEF NoLaunch
<1> QED
  BY <1>1, <1>2, <1>3, <1>4

\* A step that begins no switch, and completes none.
LEMMA QuietBound ==
    ASSUME Types, Bounded, ctx'.svc = ctx.svc, Naming' => Naming,
           ops' \in SUBSET Ops, IsFiniteSet(ops'),
           Cardinality(Switching(ops')) <= Cardinality(Switching(ops)),
           IsFiniteSet(msgs'),
           Cardinality(Announcing(msgs')) <= Cardinality(Announcing(msgs))
    PROVE  Bounded'
<1>1. /\ Cardinality(Switching(ops)) \in Nat /\ Cardinality(Switching(ops')) \in Nat
      /\ Cardinality(Announcing(msgs)) \in Nat /\ Cardinality(Announcing(msgs')) \in Nat
  BY CountCommands, CountMessages DEF Types, Bounded
<1>2. ctx.svc \in Nat /\ MaxSwitches \in Nat
  BY BrowserAssumption DEF Types, Contexts, Services
<1> QED
  BY <1>1, <1>2 DEF Bounded

\* What the keys of the state browser start and send.
LEMMA StateKeysDo ==
    ASSUME Types, StateKeys
    PROVE  /\ msgs = {} /\ prompt = NoPrompt
           /\ UNCHANGED <<nav, context, prompt, wv, terraform, ghosts>>
           /\ \/ UNCHANGED <<ops, msgs, nextOp>>
              \/ UNCHANGED msgs /\ \E a \in Addrs : Launch(Cmd(ctx, "detail", {a}, {}, FALSE), ops)
              \/ UNCHANGED msgs /\ LoadState(ctx, TRUE, ops)
              \/ /\ UNCHANGED <<ops, nextOp>>
                 /\ \E m \in Msgs : m.type \in {"PinToggle", "PinClear", "PlanInvalidated"} /\ msgs' = {m}
              \/ /\ UNCHANGED <<ops, nextOp>>
                 /\ \E what \in {"rm", "mvTo"}, as \in SUBSET Addrs :
                      /\ what = "mvTo" => \E a : as \subseteq {a}
                      /\ msgs' = {Request(Ask(what, as))}
<1>1. /\ st.shown \in SUBSET Addrs /\ st.detail \in SUBSET Addrs /\ st.targets \in SUBSET Addrs
      /\ \E a : st.detail \subseteq {a}
  BY DEF Types, Browsers, StateState
<1>2. ASSUME NEW as \in Aimed
      PROVE  as \in SUBSET Addrs /\ \E a : as \subseteq {a}
  <2>1. CASE as = st.detail
    BY <1>1, <2>1
  <2>2. ASSUME NEW a \in st.shown, as = {a}
        PROVE  as \in SUBSET Addrs /\ \E b : as \subseteq {b}
    BY <1>1, <2>2
  <2> QED
    BY <2>1, <2>2 DEF Aimed
<1>3. \A as \in SUBSET Addrs : PinToggle(as) \in Msgs /\ PinToggle(as).type = "PinToggle"
  BY MessageTypes DEF PinToggle
<1>4. \A t \in {"PinClear", "PlanInvalidated"} : Signal(t) \in Msgs /\ Signal(t).type = t
  BY MessageTypes DEF Signal
<1>5. CASE Inspect
  BY <1>1, <1>5 DEF Inspect, Browsing, KeyIn, Key
<1>6. CASE OpenFilter \/ TypeFilter \/ ToggleTree \/ TogglePinnedOnly \/ OpenPalette \/ CloseFrame
  BY <1>6 DEF OpenFilter, TypeFilter, ToggleTree, TogglePinnedOnly, OpenPalette, CloseFrame,
              StateKey, OnList, Browsing, KeyIn, Key
<1>7. CASE ClearAllPins \/ Edit
  BY <1>4, <1>7 DEF ClearAllPins, Edit, StateSends, OnList, KeyIn, Key
<1>8. CASE TogglePins
  <2>1. PICK as \in SUBSET Addrs : StateSends(st, PinToggle(as)) /\ Key
    BY <1>1, <1>8 DEF TogglePins, Browsing, KeyIn
  <2> QED
    BY <1>3, <2>1 DEF StateSends, Key
<1>9. CASE RefreshKey
  BY <1>9 DEF RefreshKey, OnList, KeyIn, Key
<1>10. CASE RequestDelete \/ RequestMove
  <2>1. PICK what \in {"rm", "mvTo"}, as \in Aimed : StateSends(st, Request(Ask(what, as))) /\ Key
    BY <1>10 DEF RequestDelete, RequestMove, KeyIn
  <2>2. as \in SUBSET Addrs /\ \E a : as \subseteq {a}
    BY <1>2
  <2> QED
    BY <2>1, <2>2 DEF StateSends, Key
<1>11. CASE PickAction
  BY <1>1, <1>11 DEF PickAction, StateKey, StateSends, KeyIn, Key
<1> QED
  BY <1>5, <1>6, <1>7, <1>8, <1>9, <1>10, <1>11 DEF StateKeys

\* The keys of the state browser begin no switch.
LEMMA StateKeysBound ==
    ASSUME Types, Bounded, StateKeys
    PROVE  Bounded'
<1>1. /\ msgs = {} /\ prompt' = prompt /\ ctx' = ctx
      /\ ops \in SUBSET Ops /\ IsFiniteSet(ops) /\ ctx \in Contexts
      /\ ops' \in SUBSET Ops
  BY StateKeysTypes, StateKeysDo DEF context, Types, Bounded
<1>2. IsFiniteSet(ops') /\ Cardinality(Switching(ops')) <= Cardinality(Switching(ops))
  <2>1. CASE ops' = ops
    BY <1>1, <2>1, CountCommands
  <2>2. ASSUME NEW a \in Addrs, Launch(Cmd(ctx, "detail", {a}, {}, FALSE), ops)
        PROVE  IsFiniteSet(ops') /\ Cardinality(Switching(ops')) <= Cardinality(Switching(ops))
    <3>1. /\ Cmd(ctx, "detail", {a}, {}, FALSE) \in Ops
          /\ Cmd(ctx, "detail", {a}, {}, FALSE).what \notin Switchers
      BY <1>1, MessageTypes DEF OfState, Reading, Cmd, Switchers
    <3> QED
      BY <2>2, <3>1, LaunchCount
  <2>3. CASE LoadState(ctx, TRUE, ops)
    BY <1>1, <2>3, LoadCount
  <2> QED
    BY <2>1, <2>2, <2>3, StateKeysDo
<1>3. msgs' = {} \/ \E m : msgs' = {m} /\ m.type # "ContextSwitch" /\ m.type # "Result"
                                /\ (m.type = "RequestInput" => m.ask.what # "wnew")
  <2>1. \A what \in {"rm", "mvTo"}, as \in SUBSET Addrs :
          Request(Ask(what, as)).type = "RequestInput" /\ Request(Ask(what, as)).ask.what # "wnew"
    BY DEF Request, Ask
  <2> QED
    BY <1>1, <2>1, StateKeysDo
<1>4. Announcing(msgs') = {} /\ Announcing(msgs) = {} /\ IsFiniteSet(msgs')
  BY <1>1, <1>3, FS_EmptySet, FS_Singleton DEF Announcing
<1>5. Naming' => Naming
  BY <1>1, <1>3 DEF Naming
<1>6. Cardinality({}) = 0
  BY FS_EmptySet
<1> QED
  BY <1>1, <1>2, <1>4, <1>5, <1>6, QuietBound

\* The numbers these proofs are about.
LEMMA Counts ==
    ASSUME Types, Bounded
    PROVE  /\ ops \in SUBSET Ops /\ IsFiniteSet(ops) /\ ctx \in Contexts /\ IsFiniteSet(msgs)
           /\ Announcing({}) = {} /\ Cardinality({}) = 0 /\ IsFiniteSet({})
           /\ Cardinality(Switching(ops)) \in Nat /\ Cardinality(Announcing(msgs)) \in Nat
           /\ ctx.svc \in Nat /\ MaxSwitches \in Nat
<1>1. ops \in SUBSET Ops /\ IsFiniteSet(ops) /\ IsFiniteSet(msgs) /\ ctx \in Contexts
  BY DEF Types, Bounded
<1>2. ctx.svc \in Nat /\ MaxSwitches \in Nat
  BY <1>1, BrowserAssumption DEF Contexts, Services
<1>3. Announcing({}) = {}
  BY DEF Announcing
<1> QED
  BY <1>1, <1>2, <1>3, CountCommands, CountMessages, FS_EmptySet

\* An answer turns the question for a name into the command, and begins no other switch.
LEMMA AnswersBound ==
    ASSUME Types, Bounded, Answers
    PROVE  Bounded'
<1>1. /\ msgs = {} /\ ctx' = ctx /\ prompt' = NoPrompt
      /\ ops \in SUBSET Ops /\ IsFiniteSet(ops) /\ ctx \in Contexts /\ ops' \in SUBSET Ops
      /\ Announcing({}) = {} /\ Cardinality({}) = 0 /\ IsFiniteSet({})
      /\ Cardinality(Switching(ops)) \in Nat /\ ctx.svc \in Nat /\ MaxSwitches \in Nat
  <2>1. msgs = {} /\ ctx' = ctx /\ prompt' = NoPrompt
    BY DEF context, Answers, Answer, Decline, EnterName, Confirm, CreateWorkspace
  <2>2. ops' \in SUBSET Ops
    BY AnswersTypes DEF Types
  <2> QED
    BY <2>1, <2>2, Counts
<1>2. NoPrompt.what # "wnew"
  BY DEF NoPrompt
<1>3. CASE Decline
  <2>1. ops' = ops /\ msgs' = {}
    BY <1>1, <1>3 DEF Decline
  <2>2. ~ Naming'
    BY <1>1, <1>2, <2>1 DEF Naming
  <2> QED
    BY <1>1, <2>1, <2>2, QuietBound
<1>4. CASE EnterName
  <2>1. ops' = ops /\ (msgs' = {} \/ \E q : msgs' = {Request([q EXCEPT !.what = "mv"])} /\ q \in Prompts)
    <3>1. \A to \in Addrs : [prompt EXCEPT !.to = {to}] \in Prompts
            /\ [prompt EXCEPT !.what = "mv", !.to = {to}] = [[prompt EXCEPT !.to = {to}] EXCEPT !.what = "mv"]
      BY DEF Types, Prompts
    <3> QED
      BY <1>4, <3>1 DEF EnterName
  <2>2. \A q \in Prompts : /\ Request([q EXCEPT !.what = "mv"]).type = "RequestInput"
                           /\ Request([q EXCEPT !.what = "mv"]).ask.what # "wnew"
    BY DEF Request, Prompts
  <2>3. ~ Naming' /\ Announcing(msgs') = {} /\ IsFiniteSet(msgs')
    BY <1>1, <1>2, <2>1, <2>2, FS_Singleton DEF Naming, Announcing
  <2> QED
    BY <1>1, <2>1, <2>3, QuietBound
<1>5. CASE Confirm
  <2> DEFINE o == [Cmd(prompt, prompt.what, prompt.to, {}, FALSE) EXCEPT !.todo = Agreed]
  <2>1. Launch(o, ops) /\ msgs' = {}
    BY <1>1, <1>5 DEF Confirm
  <2>2. o.what \notin Switchers /\ o \in Ops
    BY <1>5 DEF Confirm, Cmd, Switchers, Mutations, Types, Ops, Command, Known, Prompts, Agreed, OfState
  <2> HIDE DEF o
  <2>3. IsFiniteSet(ops') /\ Cardinality(Switching(ops')) <= Cardinality(Switching(ops))
    BY <2>1, <2>2, LaunchCount
  <2>4. ~ Naming'
    BY <1>1, <1>2, <2>1 DEF Naming
  <2> QED
    BY <1>1, <2>1, <2>3, <2>4, QuietBound
<1>6. CASE CreateWorkspace
  <2>1. PICK w \in Workspaces : Launch(Cmd(ctx, "wnew", {}, {w}, FALSE), ops)
    BY <1>6 DEF CreateWorkspace
  <2>2. Cmd(ctx, "wnew", {}, {w}, FALSE) \in Ops
    BY <1>1, MessageTypes DEF OfWorkspace
  <2>3. IsFiniteSet(ops') /\ Cardinality(Switching(ops')) <= Cardinality(Switching(ops)) + 1
    BY <2>1, <2>2, LaunchCount
  <2>4. Naming /\ msgs' = {} /\ ~ Naming'
    BY <1>1, <1>2, <1>6 DEF Naming, CreateWorkspace
  <2>5. Cardinality(Switching(ops')) \in Nat
    BY <1>1, <2>3, CountCommands
  <2> QED
    BY <1>1, <2>3, <2>4, <2>5 DEF Bounded
<1> QED
  BY <1>3, <1>4, <1>5, <1>6 DEF Answers

\* The keys of the workspace view and of the picker begin a switch only where there is
\* a service left.
LEMMA WorkspaceKeysBound ==
    ASSUME Types, Bounded, WorkspaceKeys
    PROVE  Bounded'
<1>1. /\ msgs = {} /\ ctx' = ctx /\ prompt = NoPrompt /\ prompt' = prompt
      /\ ops \in SUBSET Ops /\ IsFiniteSet(ops) /\ ctx \in Contexts /\ ops' \in SUBSET Ops
      /\ Announcing({}) = {} /\ Cardinality({}) = 0 /\ IsFiniteSet({})
      /\ Cardinality(Switching(ops)) \in Nat /\ ctx.svc \in Nat /\ MaxSwitches \in Nat
  <2>1. msgs = {} /\ ctx' = ctx /\ prompt = NoPrompt /\ prompt' = prompt
    BY DEF context, WorkspaceKeys, SelectWorkspace, NewWorkspace, AskDelete, AnswerDelete,
           RefreshWorkspaces, SelectMember, LeaveChdir, InWorkspaces, KeyIn, Key, StateSends
  <2>2. ops' \in SUBSET Ops
    BY WorkspaceKeysTypes DEF Types
  <2> QED
    BY <2>1, <2>2, Counts
<1>2. ~ Naming /\ (msgs' = {} => ~ Naming')
  BY <1>1 DEF Naming, NoPrompt
<1>3. MaySwitch => ctx.svc + Cardinality(Switching(ops)) < MaxSwitches
  BY DEF MaySwitch, Switching, Switchers
<1>4. CASE SelectWorkspace
  <2>1. PICK w \in Selectable(wv), back \in BOOLEAN :
          Launch(Cmd(ctx, "wselect", {}, {w}, back), ops)
    BY <1>4 DEF SelectWorkspace
  <2>2. w \in Workspaces
    BY DEF Selectable, Types, WorkspaceState
  <2>3. Cmd(ctx, "wselect", {}, {w}, back) \in Ops
    BY <1>1, <2>2, MessageTypes DEF OfWorkspace
  <2>4. IsFiniteSet(ops') /\ Cardinality(Switching(ops')) <= Cardinality(Switching(ops)) + 1
    BY <2>1, <2>3, LaunchCount
  <2>5. msgs' = {} /\ MaySwitch
    BY <1>1, <1>4 DEF SelectWorkspace
  <2>6. Cardinality(Switching(ops')) \in Nat
    BY <1>1, <2>4, CountCommands
  <2> QED
    BY <1>1, <1>2, <1>3, <2>4, <2>5, <2>6 DEF Bounded
<1>5. CASE NewWorkspace
  <2>1. MaySwitch /\ ops' = ops /\ \E p : msgs' = {Request(p)}
    BY <1>5 DEF NewWorkspace, StateSends
  <2>2. \A p : Request(p).type = "RequestInput"
    BY DEF Request
  <2>3. Announcing(msgs') = {} /\ IsFiniteSet(msgs')
    BY <2>1, <2>2, FS_Singleton DEF Announcing
  <2>4. Cardinality(Announcing(msgs')) = 0 /\ Cardinality(Switching(ops')) = Cardinality(Switching(ops))
    BY <1>1, <2>1, <2>3
  <2>5. ctx'.svc + Cardinality(Switching(ops')) + Cardinality(Announcing(msgs'))
          + (IF Naming' THEN 1 ELSE 0) <= MaxSwitches
    <3>1. ctx'.svc = ctx.svc /\ ctx.svc + Cardinality(Switching(ops)) + 1 <= MaxSwitches
      BY <1>1, <1>3, <2>1
    <3>2. CASE Naming'
      BY <1>1, <2>4, <3>1, <3>2
    <3>3. CASE ~ Naming'
      BY <1>1, <2>4, <3>1, <3>3
    <3> QED
      BY <3>2, <3>3
  <2> QED
    BY <1>1, <2>1, <2>3, <2>5 DEF Bounded
<1>6. CASE SelectMember
  <2>1. MaySwitch /\ ops' = ops /\ \E d : msgs' = {SwitchTo(d, Default, 0)}
    BY <1>6 DEF SelectMember, StateSends
  <2>2. \A d : SwitchTo(d, Default, 0).type = "ContextSwitch"
    BY DEF SwitchTo
  <2>3. ~ Naming'
    BY <1>1, <2>1, <2>2 DEF Naming, NoPrompt
  <2>4. PICK m : msgs' = {m} /\ m.type = "ContextSwitch"
    BY <2>1, <2>2
  <2>5. Announcing(msgs') = {m}
    BY <2>4 DEF Announcing
  <2>6. IsFiniteSet(msgs') /\ Cardinality(Announcing(msgs')) = 1
    BY <2>4, <2>5, FS_Singleton
  <2> QED
    BY <1>1, <1>3, <2>1, <2>3, <2>6 DEF Bounded
<1>7. CASE AskDelete \/ RefreshWorkspaces
  <2>1. msgs' = {} /\ (ops' = ops \/ LoadWorkspaces(ctx, ops))
    BY <1>1, <1>7 DEF AskDelete, RefreshWorkspaces
  <2> QED
    BY <1>1, <1>2, <2>1, LoadCount, QuietBound
<1>8. CASE AnswerDelete
  <2>1. msgs' = {} /\ (Launch(Cmd(ctx, "wdelete", {}, wv.confirm, FALSE), ops) \/ NoLaunch(ops))
    BY <1>1, <1>8 DEF AnswerDelete
  <2>2. /\ Cmd(ctx, "wdelete", {}, wv.confirm, FALSE) \in Ops
        /\ Cmd(ctx, "wdelete", {}, wv.confirm, FALSE).what \notin Switchers
    <3>1. wv.confirm \in SUBSET Workspaces
      BY DEF Types, WorkspaceState
    <3> QED
      BY <1>1, <3>1, MessageTypes DEF OfWorkspace, Cmd, Switchers
  <2>3. IsFiniteSet(ops') /\ Cardinality(Switching(ops')) <= Cardinality(Switching(ops))
    BY <1>1, <2>1, <2>2, LaunchCount, LoadCount
  <2> QED
    BY <1>1, <1>2, <2>1, <2>3, QuietBound
<1>9. CASE LeaveChdir
  <2>1. \/ msgs' = {} /\ \E u, s, w : Activate(u, ctx, s, w, ops)
        \/ msgs' = {Signal("PinClear")} /\ NoLaunch(ops)
    BY <1>1, <1>9 DEF LeaveChdir, GoBack, GoHome
  <2>2. Signal("PinClear").type = "PinClear"
    BY DEF Signal
  <2>3. ~ Naming' /\ Announcing(msgs') = {} /\ IsFiniteSet(msgs')
    BY <1>1, <1>2, <2>1, <2>2, FS_Singleton DEF Naming, NoPrompt, Announcing
  <2> QED
    BY <1>1, <2>1, <2>3, LoadCount, QuietBound
<1> QED
  BY <1>4, <1>5, <1>6, <1>7, <1>8, <1>9 DEF WorkspaceKeys

\* Navigation begins no switch.
LEMMA NavigationBound ==
    ASSUME Types, Bounded,
           (\E v \in {"state", "workspace", "chdir"} : Navigate(v)) \/ Leave \/ Quit \/ Elsewhere
    PROVE  Bounded'
<1>1. msgs = {} /\ ctx' = ctx /\ prompt = NoPrompt /\ prompt' = prompt
  BY DEF context, Navigate, Leave, Quit, Elsewhere, OnList, KeyIn, Key, StateSends, StateKey
<1>2. ops' \in SUBSET Ops
  BY NavigationTypes DEF Types
<1>3. \A t : Signal(t).type = t
  BY DEF Signal
<1>4. msgs' = {} \/ \E t \in {"Deactivate", "PinClear"} : msgs' = {Signal(t)}
  BY <1>1 DEF Navigate, Leave, Quit, Elsewhere, StateSends, StateKey, GoHome
<1>5. ~ Naming' /\ Announcing(msgs') = {} /\ IsFiniteSet(msgs')
  <2>1. CASE msgs' = {}
    BY <1>1, <2>1, FS_EmptySet DEF Naming, NoPrompt, Announcing
  <2>2. ASSUME NEW m, msgs' = {m}, m.type \in {"Deactivate", "PinClear"}
        PROVE  ~ Naming' /\ Announcing(msgs') = {} /\ IsFiniteSet(msgs')
    BY <1>1, <2>2, FS_Singleton DEF Naming, NoPrompt, Announcing
  <2> QED
    BY <1>3, <1>4, <2>1, <2>2
<1>6. \E os \in {ops, Cut(active, ops)} :
        NoLaunch(os) \/ \E u, s, w : Activate(u, ctx, s, w, os)
  BY DEF Navigate, Leave, Quit, Elsewhere, StateSends, StateKey, GoHome, NoLaunch
<1>7. IsFiniteSet(ops') /\ Cardinality(Switching(ops')) <= Cardinality(Switching(ops))
  BY <1>6, Counts, LoadCount
<1> QED
  BY <1>1, <1>2, <1>5, <1>7, Counts, QuietBound

\* A command that has run: one less, and its result.
LEMMA SendsCount ==
    ASSUME Types, Bounded, NEW o \in ops, NEW r, NEW ok, r.what = o.what,
           ops' = ops \ {o}, \E m : msgs' = msgs \cup {m} /\ m.type = "Result" /\ m.op.what = o.what,
           prompt' = prompt, ctx' = ctx, ops' \in SUBSET Ops
    PROVE  Bounded'
<1>1. PICK m : msgs' = msgs \cup {m} /\ m.type = "Result" /\ m.op.what = o.what
  OBVIOUS
<1>2. Naming' => Naming
  BY <1>1 DEF Naming
<1>3. IsFiniteSet(ops') /\ IsFiniteSet(msgs') /\ Cardinality(Announcing(msgs')) \in Nat
      /\ Cardinality(Switching(ops')) \in Nat
      /\ Cardinality(Switching(ops')) <= Cardinality(Switching(ops))
      /\ Cardinality(Announcing(msgs')) <= Cardinality(Announcing(msgs)) + 1
  BY <1>1, Counts, CountCommands, CountMessages
<1>4. CASE o.what \in Switchers
  <2>1. Cardinality(Switching(ops')) = Cardinality(Switching(ops)) - 1
    BY <1>4, Counts, CountCommands DEF Switching
  <2>2. (IF Naming' THEN 1 ELSE 0) <= (IF Naming THEN 1 ELSE 0)
    BY <1>2
  <2>3. ctx.svc + Cardinality(Switching(ops)) + Cardinality(Announcing(msgs))
          + (IF Naming THEN 1 ELSE 0) <= MaxSwitches
    BY DEF Bounded
  <2>4. ctx'.svc + Cardinality(Switching(ops')) + Cardinality(Announcing(msgs'))
          + (IF Naming' THEN 1 ELSE 0) <= MaxSwitches
    BY <1>3, <2>1, <2>2, <2>3, Counts
  <2> QED
    BY <1>3, <2>4 DEF Bounded
<1>5. CASE o.what \notin Switchers
  <2>1. m \notin Announcing({m})
    BY <1>1, <1>5 DEF Announcing
  <2>2. Cardinality(Announcing(msgs')) = Cardinality(Announcing(msgs))
    BY <1>1, <2>1, Counts, CountMessages
  <2> QED
    BY <1>2, <1>3, <2>2, Counts, QuietBound
<1> QED
  BY <1>4, <1>5

\* A command that runs turns into its result, or goes on as it is.
LEMMA RunSends ==
    ASSUME Types, NEW o \in ops, Run(o)
    PROVE  \/ \E r, ok : Sends(o, r, ok) /\ r.what = o.what
           \/ \E r : /\ ops' = (ops \ {o}) \cup {r} /\ msgs' = msgs
                     /\ r.what = o.what /\ r.what \notin Switchers
           \/ /\ ops' = ops \ {o}
              /\ \E m : msgs' = msgs \cup {m} /\ m.type = "Result" /\ m.op.what = o.what
<1>1. o \in Command
  BY DEF Types, Ops
<1>2. CASE Move(o) \/ SwitchWorkspace(o) \/ DeleteWorkspace(o)
  BY <1>2 DEF Move, SwitchWorkspace, DeleteWorkspace, Fails, Ends
<1>5. CASE Read(o)
  <2>1. \A snap : [o EXCEPT !.todo = snap.addrs, !.ws = {snap.ws}].what = o.what
    BY <1>1 DEF Command
  <2>2. \/ Fails(o)
        \/ \E snap : Sends(o, [o EXCEPT !.todo = snap.addrs, !.ws = {snap.ws}], TRUE)
        \/ \E ok : Ends(o, ok)
    BY <1>5 DEF Read
  <2> QED
    BY <2>1, <2>2 DEF Fails, Ends
<1>3. CASE RemoveEach(o)
  <2>1. \A a : [o EXCEPT !.todo = @ \ {a}, !.flag = TRUE].what = o.what
    BY <1>1 DEF Command
  <2> QED
    BY <1>3, <2>1 DEF RemoveEach, Ends, Switchers
<1>4. CASE ListWorkspaces(o)
  <2>1. /\ [o EXCEPT !.flag = TRUE, !.ws = exists[o.dir]].what = o.what
        /\ [Result(o, TRUE) EXCEPT !.now = {selected[o.dir]}].type = "Result"
        /\ [Result(o, TRUE) EXCEPT !.now = {selected[o.dir]}].op.what = o.what
    BY <1>1 DEF Command, Result
  <2> QED
    BY <1>4, <2>1 DEF ListWorkspaces, Fails, Ends, Switchers
<1> QED
  BY <1>2, <1>3, <1>4, <1>5 DEF Run

\* A command that runs begins no switch.
LEMMA RunBound ==
    ASSUME Types, Bounded, NEW o \in ops, Run(o)
    PROVE  Bounded'
<1>1. prompt' = prompt /\ ctx' = ctx /\ ops' \in SUBSET Ops
  BY RunTypes DEF Run, Types, context
<1>2. \A r, ok : Result(r, ok).type = "Result" /\ Result(r, ok).op.what = r.what
  BY DEF Result
<1>4. ASSUME NEW r, ops' = (ops \ {o}) \cup {r}, msgs' = msgs, r.what = o.what, r.what \notin Switchers
      PROVE  Bounded'
  <2>1. Naming' => Naming
    BY <1>1, <1>4 DEF Naming
  <2>2. Switching(ops') = Switching(ops) /\ IsFiniteSet(ops')
    BY <1>4, Counts, FS_RemoveElement, FS_AddElement DEF Switching
  <2> QED
    BY <1>1, <1>4, <2>1, <2>2, Counts, QuietBound
<1> QED
  BY <1>1, <1>2, <1>4, RunSends, SendsCount DEF Sends

\* There is a service for the switch that is handled.
LEMMA ServiceLeft ==
    ASSUME Types, Bounded, NEW m \in msgs, m.type = "ContextSwitch"
    PROVE  [dir |-> m.dir, ws |-> m.ws, svc |-> ctx.svc + 1] \in Contexts
<1>1. m \in Announcing(msgs) /\ m.dir \in Chdirs /\ m.ws \in Workspaces
  BY DEF Announcing, Types, Msgs, Message
<1>2. Cardinality(Announcing(msgs)) # 0
  BY <1>1, Counts, FS_EmptySet, FS_Subset DEF Announcing
<1>3. ctx.svc + 1 <= MaxSwitches
  BY <1>2, Counts DEF Bounded
<1> QED
  BY <1>1, <1>3, Counts DEF Contexts, Services

\* A message that is handled keeps the types.
LEMMA UpdateTypes ==
    ASSUME Types, Bounded, NEW m \in msgs, Update(m)
    PROVE  Types'
<1>1. /\ m \in Msgs /\ st \in Browsers /\ wv \in WorkspaceState /\ ops \in SUBSET Ops
      /\ msgs \in SUBSET Msgs /\ msgs \ {m} \in SUBSET Msgs /\ ctx \in Contexts
      /\ Cut(active, ops) \in SUBSET Ops /\ ResetWorkspaces(wv) \in WorkspaceState
  BY CutTypes DEF Types, ResetWorkspaces, WorkspaceState
<1>2. CASE ReadReturns(m)
  <2>1. /\ m.op \in Ops /\ m.op.todo \in SUBSET Addrs /\ m.op.ws \in SUBSET Workspaces
        /\ m.op.dir \in Chdirs /\ (m.op.what = "detail" => m.op.todo # {})
    BY <1>1, <1>2 DEF ReadReturns, Msgs, Message, Ops, Command, Known
  <2>2. m.op.what = "detail" => (CHOOSE a \in m.op.todo : TRUE) \in Addrs
    BY <2>1
  <2>3. st' \in {Listed(st, m.op.todo), ListFailed(st), DetailFailed(st)}
        \/ (m.op.what = "detail" /\ st' = Detailed(st, CHOOSE a \in m.op.todo : TRUE))
    BY <1>2 DEF ReadReturns, Reading
  <2>4. st' \in Browsers
    BY <1>1, <2>1, <2>2, <2>3, ViewTypes, ViewTypesOf
  <2>5. origin' \subseteq Place
    BY <1>2, <2>1 DEF ReadReturns, Place, Types
  <2> QED
    BY <1>2, <2>4, <2>5 DEF ReadReturns, NoLaunch, Types, nav, context, terraform
<1>3. CASE MutationReturns(m)
  <2>1. st' \in Browsers /\ ops' \subseteq Ops /\ nextOp' \in Nat
    BY <1>1, <1>3, ViewTypes, LoadTypes DEF MutationReturns
  <2> QED
    BY <1>1, <1>3, <2>1 DEF MutationReturns, Types, nav, context, terraform, ghosts
<1>4. CASE WorkspaceReturns(m)
  <2>1. /\ m.op.ws \in SUBSET Workspaces /\ m.now \in SUBSET Workspaces /\ m.op.id \in Nat
    BY <1>1, <1>4 DEF WorkspaceReturns, Msgs, Message, Command
  <2>2. \A w \in Workspaces : SwitchTo(ctx.dir, w, m.op.id) \in Msgs
    BY <1>1, <2>1, MessageTypes DEF Contexts
  <2>3. \/ msgs' = msgs \ {m}
        \/ \E w \in m.op.ws : msgs' = (msgs \ {m}) \cup {SwitchTo(ctx.dir, w, m.op.id)}
    BY <1>4 DEF WorkspaceReturns
  <2>4. msgs' \subseteq Msgs
    BY <1>1, <2>1, <2>2, <2>3
  <2>5. \/ wv' = WorkspacesFailed(wv) \/ wv' = WorkspacesLoading(wv)
        \/ \E w \in m.now : wv' = WorkspacesListed(wv, m.op.ws \cup {w}, w)
        \/ \E w \in m.op.ws : wv' = WorkspaceLeft(wv, w) \/ wv' = WorkspaceTaken(wv, w)
    BY <1>4 DEF WorkspaceReturns
  <2>6. wv' \in WorkspaceState
    <3>1. WorkspacesFailed(wv) \in WorkspaceState /\ WorkspacesLoading(wv) \in WorkspaceState
      BY <1>1 DEF WorkspacesFailed, WorkspacesLoading, WorkspaceState
    <3>2. \A w \in m.now : w \in Workspaces /\ m.op.ws \cup {w} \in SUBSET Workspaces
      BY <2>1
    <3> QED
      BY <1>1, <2>1, <2>5, <3>1, <3>2, WorkspaceTypes
  <2>7. NoLaunch(ops) \/ LoadWorkspaces(ctx, ops)
    BY <1>4 DEF WorkspaceReturns
  <2>8. ops' \subseteq Ops /\ nextOp' \in Nat
    BY <1>1, <2>7, LoadTypes
  <2> QED
    BY <1>4, <2>4, <2>6, <2>8 DEF WorkspaceReturns, Types, nav, context, terraform, ghosts
<1>5. CASE RequestInput(m)
  <2>1. m.ask \in Prompts
    BY <1>1, <1>5 DEF RequestInput, Msgs, Message
  <2> QED
    BY <1>1, <1>5, <2>1 DEF RequestInput, Types, nav, context, terraform, ghosts
<1>6. CASE Refused(m)
  BY <1>1, <1>6 DEF Refused, Types, nav, context, terraform, ghosts
<1>7. CASE ChangePins(m)
  <2>1. pins' \in SUBSET Addrs
    <3>1. m.type = "PinToggle" => m.addrs \in SUBSET Addrs
      BY <1>1 DEF Msgs, Message
    <3> QED
      BY <1>7, <3>1 DEF ChangePins, Toggled, Types
  <2>2. st' \in Browsers /\ wv' \in WorkspaceState
    BY <1>1, <1>7, <2>1, ViewTypesOf DEF ChangePins
  <2> QED
    BY <1>1, <1>7, <2>1, <2>2 DEF ChangePins, Types, nav, terraform, ghosts
<1>8. CASE SwitchContext(m)
  <2>1. ctx' \in Contexts
    BY <1>8, ServiceLeft DEF SwitchContext
  <2>2. SwitchedAway(st) \in Browsers
    BY <1>1, ViewTypes
  <2>3. /\ active' \in Views /\ navStack' \in Seq(Views) /\ st' \in Browsers
        /\ wv' \in WorkspaceState /\ ops' \subseteq Ops /\ nextOp' \in Nat
    <3>1. CASE GoBack(ctx', SwitchedAway(st), ResetWorkspaces(wv), ops)
      BY <1>1, <2>1, <2>2, <3>1, BackHomeTypes
    <3>2. CASE /\ st' = SwitchedAway(st) /\ wv' = ResetWorkspaces(wv)
               /\ NoLaunch(ops) /\ UNCHANGED nav
      BY <1>1, <2>2, <3>2 DEF NoLaunch, nav, Types
    <3> QED
      BY <1>8, <3>1, <3>2 DEF SwitchContext
  <2> QED
    BY <1>1, <1>8, <2>1, <2>3 DEF SwitchContext, Types, terraform, ghosts
<1>9. CASE Deactivate(m)
  <2>1. /\ active' \in Views /\ navStack' \in Seq(Views) /\ st' \in Browsers
        /\ wv' \in WorkspaceState /\ ops' \subseteq Ops /\ nextOp' \in Nat
        /\ msgs' \subseteq Msgs
    BY <1>1, <1>9, BackHomeTypes DEF Deactivate
  <2> QED
    BY <1>9, <2>1 DEF Deactivate, Types, context, terraform, ghosts
<1>10. CASE PlanInvalidated(m)
  BY <1>1, <1>10, ViewTypes DEF PlanInvalidated, Types, nav, context, terraform, ghosts
<1> QED
  BY <1>2, <1>3, <1>4, <1>5, <1>6, <1>7, <1>8, <1>9, <1>10 DEF Update

\* A message that is handled, with what it may start.
LEMMA HandledBound ==
    ASSUME Types, Bounded, NEW m \in msgs, ctx' = ctx, ops' \in SUBSET Ops,
           IsFiniteSet(ops'), Cardinality(Switching(ops')) <= Cardinality(Switching(ops)),
           \/ msgs' = msgs \ {m}
           \/ \E t : msgs' = (msgs \ {m}) \cup {Signal(t)} /\ t \in {"PinClear"}
           \/ /\ m \in Announcing(msgs)
              /\ \E d, w, i : msgs' = (msgs \ {m}) \cup {SwitchTo(d, w, i)},
           prompt' = prompt \/ (m.type = "RequestInput" /\ prompt' = m.ask)
    PROVE  Bounded'
<1> DEFINE ms == msgs \ {m}
<1>1. /\ IsFiniteSet(ms) /\ Cardinality(Announcing(ms)) \in Nat
      /\ Cardinality(Announcing(ms)) <= Cardinality(Announcing(msgs))
      /\ m \in Announcing(msgs) => Cardinality(Announcing(ms)) = Cardinality(Announcing(msgs)) - 1
  BY Counts, CountMessages
<1>2. \A n : n \in msgs' /\ n \notin msgs => n.type # "RequestInput"
  BY DEF Signal, SwitchTo
<1>3. Naming' => Naming
  BY <1>2 DEF Naming
<1>4. \A t \in {"PinClear"} : Signal(t) \notin Announcing({Signal(t)})
  BY DEF Signal, Announcing
<1>5. \/ msgs' = ms
      \/ \E n : msgs' = ms \cup {n} /\ n \notin Announcing({n})
      \/ m \in Announcing(msgs) /\ \E n : msgs' = ms \cup {n}
  BY <1>4
<1> HIDE DEF ms
<1>6. /\ IsFiniteSet(msgs')
      /\ Cardinality(Announcing(msgs')) <= Cardinality(Announcing(msgs))
  <2>1. ASSUME NEW n, msgs' = ms \cup {n}
        PROVE  /\ IsFiniteSet(msgs')
               /\ Cardinality(Announcing(msgs')) \in Nat
               /\ Cardinality(Announcing(msgs')) <= Cardinality(Announcing(ms)) + 1
               /\ n \notin Announcing({n}) =>
                    Cardinality(Announcing(msgs')) = Cardinality(Announcing(ms))
    BY <1>1, <2>1, CountMessages
  <2>2. Cardinality(Announcing(msgs)) \in Nat
    BY Counts
  <2>3. CASE msgs' = ms
    BY <1>1, <2>3
  <2>4. ASSUME NEW n, msgs' = ms \cup {n}, n \notin Announcing({n})
        PROVE  /\ IsFiniteSet(msgs')
               /\ Cardinality(Announcing(msgs')) <= Cardinality(Announcing(msgs))
    BY <1>1, <2>1, <2>2, <2>4
  <2>5. ASSUME NEW n, msgs' = ms \cup {n}, m \in Announcing(msgs)
        PROVE  /\ IsFiniteSet(msgs')
               /\ Cardinality(Announcing(msgs')) <= Cardinality(Announcing(msgs))
    <3>1. IsFiniteSet(msgs') /\ Cardinality(Announcing(msgs')) \in Nat
          /\ Cardinality(Announcing(msgs')) <= Cardinality(Announcing(ms)) + 1
      BY <2>1, <2>5
    <3>2. Cardinality(Announcing(ms)) \in Nat
          /\ Cardinality(Announcing(ms)) = Cardinality(Announcing(msgs)) - 1
      BY <1>1, <2>5
    <3> QED
      BY <2>2, <3>1, <3>2
  <2> QED
    BY <1>5, <2>3, <2>4, <2>5
<1> QED
  BY <1>3, <1>6, QuietBound

\* A message that is handled, the switch of Context among them, keeps within the services.
LEMMA UpdateBound ==
    ASSUME Types, Bounded, NEW m \in msgs, Update(m)
    PROVE  Bounded'
<1>1. /\ ops' \in SUBSET Ops /\ IsFiniteSet(ops) /\ ops \in SUBSET Ops /\ ctx \in Contexts
  BY UpdateTypes, Counts DEF Types
<1>2. CASE SwitchContext(m)
  <2>1. ctx' \in Contexts /\ ctx'.svc = ctx.svc + 1 /\ msgs' = msgs \ {m} /\ prompt' = prompt
    BY <1>2, ServiceLeft DEF SwitchContext
  <2>2. NoLaunch(ops) \/ \E u, s, w : Activate(u, ctx', s, w, ops)
    BY <1>2 DEF SwitchContext, GoBack
  <2>3. /\ IsFiniteSet(ops') /\ Cardinality(Switching(ops')) <= Cardinality(Switching(ops))
        /\ Cardinality(Switching(ops')) \in Nat
    BY <1>1, <2>1, <2>2, LoadCount, CountCommands
  <2>4. m \in Announcing(msgs)
    BY <1>2 DEF SwitchContext, Announcing
  <2>5. /\ IsFiniteSet(msgs') /\ Cardinality(Announcing(msgs')) \in Nat
        /\ Cardinality(Announcing(msgs')) = Cardinality(Announcing(msgs)) - 1
    BY <2>1, <2>4, Counts, CountMessages
  <2>6. (IF Naming' THEN 1 ELSE 0) <= (IF Naming THEN 1 ELSE 0)
    BY <2>1 DEF Naming
  <2>7. ctx'.svc + Cardinality(Switching(ops')) + Cardinality(Announcing(msgs'))
          + (IF Naming' THEN 1 ELSE 0) <= MaxSwitches
    <3>1. ctx.svc + Cardinality(Switching(ops)) + Cardinality(Announcing(msgs))
            + (IF Naming THEN 1 ELSE 0) <= MaxSwitches
      BY DEF Bounded
    <3> QED
      BY <2>1, <2>3, <2>5, <2>6, <3>1, Counts
  <2> QED
    BY <2>3, <2>5, <2>7 DEF Bounded
<1>3. CASE ~ SwitchContext(m)
  <2>1. ctx' = ctx
    BY <1>3 DEF Update, ReadReturns, MutationReturns, WorkspaceReturns, RequestInput, Refused,
                ChangePins, Deactivate, PlanInvalidated, context
  <2>2. prompt' = prompt \/ (m.type = "RequestInput" /\ prompt' = m.ask)
    BY <1>3 DEF Update, ReadReturns, MutationReturns, WorkspaceReturns, RequestInput, Refused,
                ChangePins, Deactivate, PlanInvalidated
  <2>3. \E os \in {ops, Cut(active, ops)} :
          \/ LoadState(ctx, TRUE, os) \/ LoadWorkspaces(ctx, os) \/ NoLaunch(os)
          \/ \E u, s, w : Activate(u, ctx, s, w, os)
    <3>1. CASE Deactivate(m)
      BY <3>1 DEF Deactivate, GoBack, GoHome
    <3>2. CASE RequestInput(m) \/ Refused(m) \/ ChangePins(m) \/ PlanInvalidated(m)
      BY <3>2 DEF RequestInput, Refused, ChangePins, PlanInvalidated, NoLaunch
    <3> QED
      BY <1>3, <3>1, <3>2 DEF Update, ReadReturns, MutationReturns, WorkspaceReturns
  <2>4. IsFiniteSet(ops') /\ Cardinality(Switching(ops')) <= Cardinality(Switching(ops))
    BY <1>1, <2>3, LoadCount
  <2>5. \/ msgs' = msgs \ {m}
        \/ \E t : msgs' = (msgs \ {m}) \cup {Signal(t)} /\ t \in {"PinClear"}
        \/ /\ m \in Announcing(msgs)
           /\ \E d, w, i : msgs' = (msgs \ {m}) \cup {SwitchTo(d, w, i)}
    <3>1. CASE WorkspaceReturns(m)
      BY <3>1 DEF WorkspaceReturns, Announcing, Switchers
    <3>2. CASE Deactivate(m)
      BY <3>2 DEF Deactivate, GoHome
    <3> QED
      BY <1>3, <3>1, <3>2 DEF Update, ReadReturns, MutationReturns, RequestInput, Refused,
                              ChangePins, PlanInvalidated
  <2> QED
    BY <1>1, <2>1, <2>2, <2>4, <2>5, HandledBound
<1> QED
  BY <1>2, <1>3

-----------------------------------------------------------------------------
(* Type correctness *)

\* The browser starts so.
LEMMA InitTypes ==
    ASSUME Init
    PROVE  Types /\ Bounded
<1>1. <<>> \in Seq(Views) /\ <<"list">> \in Seq(StateFrames) \ {<<>>}
  BY DEF StateFrames
<1>2. st \in Browsers
  BY <1>1 DEF Init, NewStateView, Browsers, Rooted, StateState, StateStatuses
<1>3. /\ ctx \in Contexts /\ prompt \in Prompts /\ wv \in WorkspaceState
      /\ 0 \in Services /\ MaxSwitches \in Nat
  BY BrowserAssumption, WorkspaceViewAssumption
     DEF Init, Contexts, Services, NoPrompt, Prompts, Asks, NewWorkspaceView, WorkspaceState
<1>4. /\ exists \in [Chdirs -> SUBSET Workspaces] /\ selected \in [Chdirs -> Workspaces]
      /\ store \in [Chdirs -> [Workspaces -> SUBSET Addrs]]
      /\ cache \in [Services -> SUBSET Snapshot]
  BY WorkspaceViewAssumption DEF Init
<1>5. Types
  BY <1>1, <1>2, <1>3, <1>4 DEF Init, Types, Views
<1>6. Bounded
  <2>1. /\ ops = {} /\ msgs = {} /\ ctx.svc = 0 /\ ~ Naming
        /\ Switching({}) = {} /\ Announcing({}) = {}
    BY DEF Init, Naming, NoPrompt, Switching, Announcing
  <2> QED
    BY <1>3, <2>1, FS_EmptySet DEF Bounded
<1> QED
  BY <1>5, <1>6

\* Every step of the browser keeps it so.
LEMMA NextTypes ==
    ASSUME Types, Bounded, [Next]_vars
    PROVE  Types' /\ Bounded'
<1>1. CASE UNCHANGED vars
  BY <1>1 DEF vars, Types, Bounded, Naming
<1>2. CASE StateKeys
  BY <1>2, StateKeysTypes, StateKeysBound
<1>3. CASE WorkspaceKeys
  BY <1>3, WorkspaceKeysTypes, WorkspaceKeysBound
<1>4. CASE Answers
  BY <1>4, AnswersTypes, AnswersBound
<1>5. CASE (\E v \in {"state", "workspace", "chdir"} : Navigate(v)) \/ Leave \/ Quit \/ Elsewhere
  BY <1>5, NavigationTypes, NavigationBound
<1>6. CASE \E o \in ops : Run(o)
  BY <1>6, RunTypes, RunBound
<1>7. CASE \E m \in msgs : Update(m)
  BY <1>7, UpdateTypes, UpdateBound
<1> QED
  BY <1>1, <1>2, <1>3, <1>4, <1>5, <1>6, <1>7 DEF Next

\* Types and Bounded hold of every state.
THEOREM TypesHold == Spec => [](Types /\ Bounded)
<1>1. Init => Types /\ Bounded
  BY InitTypes
<1>2. Types /\ Bounded /\ [Next]_vars => (Types /\ Bounded)'
  BY NextTypes
<1> QED
  BY <1>1, <1>2, PTL DEF Spec

\* Every variable keeps the shape the handlers give it: whatever is pressed and in
\* whatever order results come in, no switch asks for a service there is not, and no
\* frame is popped from under the list.
THEOREM TypesCorrect == Spec => []TypeOK
<1>1. Types => TypeOK
  BY DEF Types, TypeOK, Views, Contexts, Browsers, Ops, Msgs
<1> QED
  BY <1>1, TypesHold, PTL

=============================================================================
