----------------------------- MODULE ChangeList -----------------------------
(***************************************************************************)
(* plugins/plan as the user browses its result: the change list with its   *)
(* filter, its tree and its pins, from the messages that fill it to the    *)
(* keys that walk it, and App where it owns the pins.  App (the module)    *)
(* looks at the same plugin for its runs and what is applied; here a run   *)
(* is only the result it will send.                                        *)
(*                                                                         *)
(* Other plugins are idle.  Their events (a plan made invalid, a lock      *)
(* cleared) may arrive at any time, requests in any order.                 *)
(***************************************************************************)
EXTENDS Tree, Bags

CONSTANTS
    Queries,      \* what can be typed into the filter; "" is the empty query
    Matching,     \* the addresses a query matches
    ByPlan,       \* the order of terraform's plan
    ByScore,      \* the order of the filter's scores, best first
    Plans,        \* the sets of changes a plan may come to
    MaxPlans,     \* bound on the plans started
    MaxRequests   \* bound on the requests on their way when a key sends one

ASSUME ChangeListAssumption ==
    /\ "" \in Queries
    /\ Matching \in [Queries -> SUBSET Addrs] /\ Matching[""] = Addrs
    /\ ByPlan \in Seq(Addrs) /\ ByScore \in Seq(Addrs)
    /\ ToSet(ByPlan) = Addrs /\ IsInjective(ByPlan)
    /\ ToSet(ByScore) = Addrs /\ IsInjective(ByScore)
    /\ Plans \subseteq SUBSET Addrs
    /\ MaxPlans \in Nat /\ MaxRequests \in Nat

Frames == {"list", "filter", "inspect", "stream"}

NoAddr == <<>>

VARIABLES
    list,       \* the plan plugin
    home,       \* the home screen is shown, not the plan
    pins,       \* holder.current.Pins
    running,    \* plans that will send a result
    requests,   \* requests on their way to Update
    started,    \* history: plans started
    current     \* history: the list is not one a result left as it came

vars == <<list, home, pins, running, requests, started, current>>

Request ==
    [type : {"PinToggle"}, addrs : SUBSET Addrs] \cup [type : {"PinClear", "Deactivate"}]

PinToggle(as) == [type |-> "PinToggle", addrs |-> as]
PinClear      == [type |-> "PinClear"]
Deactivate    == [type |-> "Deactivate"]

ListState ==
    [status     : {"idle", "loading", "done", "error"},
     stale      : BOOLEAN,
     changes    : SUBSET Addrs,     \* summary.Changes
     filter     : Queries,
     pinnedOnly : BOOLEAN,
     treeMode   : BOOLEAN,
     filtered   : Seq(Addrs),
     tree       : TreeState,
     detail     : Addrs \cup {NoAddr},
     frames     : Seq(Frames) \ {<<>>}]

Empty == [items |-> <<>>, nested |-> TRUE, open |-> {}, rows |-> <<>>, cursor |-> 1]

NewList ==
    [status |-> "idle", stale |-> FALSE, changes |-> {}, filter |-> "",
     pinnedOnly |-> FALSE, treeMode |-> FALSE, filtered |-> <<>>, tree |-> Empty,
     detail |-> NoAddr, frames |-> <<"list">>]

-----------------------------------------------------------------------------
(* What the handlers make of the plugin's state *)

Top(l) == Last(l.frames)

PushFrame(l, f) == [l EXCEPT !.frames = Append(@, f)]
PopFrame(l)     == [l EXCEPT !.frames = Front(@)]

\* Stack.Clear
Cleared(l) == [l EXCEPT !.frames = <<Head(@)>>]

\* Those of `as' in the given order: the n-th one is where n of them have been
\* met.  (SelectSeq, which the prover does not know.)
InOrder(order, as) ==
    LET met(k) == {j \in DOMAIN order : j <= k /\ order[j] \in as}
        nth(n) == CHOOSE k \in DOMAIN order : order[k] \in as /\ Cardinality(met(k)) = n
    IN  [n \in 1 .. Cardinality(met(Len(order))) |-> order[nth(n)]]

\* sourceChanges
Source(l, ps) == IF l.pinnedOnly THEN l.changes \cap ps ELSE l.changes

\* rebuildTree
Rebuilt(l) ==
    LET t == NewTree(l.filtered, l.treeMode)
    IN  [l EXCEPT !.tree = IF l.treeMode /\ l.filter # "" THEN ExpandAll(t) ELSE t]

\* SetFilter; by score only where the tree does not sort.
SetFilter(l, q, ps) ==
    Rebuilt([l EXCEPT !.filter = q,
                      !.filtered = InOrder(IF q # "" /\ ~l.treeMode THEN ByScore ELSE ByPlan,
                                           Source(l, ps) \cap Matching[q])])

\* Mutant: a detail stays open when the plan it is of goes.
ResetKeepsFrames(l) ==
    [l EXCEPT !.status = "idle", !.stale = FALSE, !.changes = {}, !.filter = "",
              !.filtered = <<>>, !.tree = Empty, !.detail = NoAddr]

\* reset: neither `pinnedOnly' nor `treeMode'.
Reset(l) ==
    Cleared([l EXCEPT !.status = "idle", !.stale = FALSE, !.changes = {}, !.filter = "",
                      !.filtered = <<>>, !.tree = Empty, !.detail = NoAddr])

\* runPlan: the log is put on the list.
LogShown(l) == PushFrame(Cleared(l), "stream")

\* Activate: what was listed stays.
WantsPlan(l) == l.status \in {"idle", "error"} \/ l.stale
Activated(l) == LogShown([l EXCEPT !.status = "loading", !.stale = FALSE])

\* startReplan: what was listed goes, `pinnedOnly' and `stale' stay.
Replanned(l) ==
    LogShown([l EXCEPT !.status = "loading", !.changes = {}, !.filter = "",
                       !.filtered = <<>>, !.tree = Empty, !.detail = NoAddr])

\* PlanResultMsg: all changes, whatever `filter' and `pinnedOnly' say.
Completed(l, as) ==
    PushFrame(Cleared(Rebuilt([l EXCEPT !.status = "done", !.changes = as,
                                        !.filtered = InOrder(ByPlan, as)])), "list")

Failed(l) == PushFrame(Cleared([l EXCEPT !.status = "error"]), "list")

\* HandlePlanInvalidated
Invalidated(l) == IF l.status = "done" THEN [l EXCEPT !.stale = TRUE] ELSE Reset(l)

\* Mutant: the rows are not read again.
PinsReadLate(l, ps) == [l EXCEPT !.stale = TRUE]

\* HandleContextChanged after a change of pins.
PinsRead(l, ps) ==
    LET m == [l EXCEPT !.stale = TRUE]
    IN  IF l.pinnedOnly THEN SetFilter(m, l.filter, ps) ELSE m

\* inspectSelected, from the list or the filter.
Inspected(l) ==
    LET m == IF Top(l) = "filter" THEN PopFrame(l) ELSE l
    IN  PushFrame([m EXCEPT !.detail = CursorRow(l.tree)], "inspect")

\* Pins.Toggle: a group is completed before it is cleared.
Toggled(ps, as) == IF as \subseteq ps THEN ps \ as ELSE ps \cup as

\* pruneStalePins
StalePins(ps, as) == ps \ as

-----------------------------------------------------------------------------
(* Keys *)

Sent(ms) == requests (+) SetToBag(ms)

Key     == ~home
CanSend == BagCardinality(requests) < MaxRequests

\* A key that only changes the plugin.
Locally(l) ==
    /\ Key
    /\ list' = l
    /\ UNCHANGED <<home, pins, running, requests, started>>

\* A key whose command sends one request.
Sends(m) ==
    /\ Key /\ CanSend
    /\ requests' = Sent({m})
    /\ UNCHANGED <<home, pins, running, started>>

Walk ==
    /\ Top(list) \in {"list", "filter"}
    /\ \E c \in Moves(list.tree) : Locally([list EXCEPT !.tree.cursor = c])
    /\ UNCHANGED current

\* enter: on a module it is opened or closed, on a change its details are shown.
Enter ==
    /\ Top(list) \in {"list", "filter"}
    /\ \/ OnBranch(list.tree) /\ Locally([list EXCEPT !.tree = ToggleNode(@)])
       \/ OnLeaf(list.tree) /\ Locally(Inspected(list))
    /\ UNCHANGED current

\* ] and [
Unfold ==
    /\ Top(list) \in {"list", "filter"} /\ list.treeMode
    /\ \E t \in {ExpandAll(list.tree), CollapseAll(list.tree)} : Locally([list EXCEPT !.tree = t])
    /\ UNCHANGED current

\* ctrl+t and ctrl+p
ToggleTree ==
    /\ Top(list) \in {"list", "filter"}
    /\ Locally(SetFilter([list EXCEPT !.treeMode = ~@], list.filter, pins))
    /\ current' = TRUE

TogglePinned ==
    /\ Top(list) \in {"list", "filter"}
    /\ Locally(SetFilter([list EXCEPT !.pinnedOnly = ~@], list.filter, pins))
    /\ current' = TRUE

\* `/': the last query is forgotten.
OpenFilter ==
    /\ Top(list) = "list"
    /\ Locally(PushFrame(SetFilter(list, "", pins), "filter"))
    /\ current' = TRUE

Type ==
    /\ Top(list) = "filter"
    /\ \E q \in Queries : Locally(SetFilter(list, q, pins))
    /\ current' = TRUE

\* esc off a filter or a detail.
Close ==
    /\ Top(list) \in {"filter", "inspect"}
    /\ Locally(PopFrame(IF Top(list) = "inspect" THEN [list EXCEPT !.detail = NoAddr] ELSE list))
    /\ UNCHANGED current

\* space: pins are App's, the plugin only asks.
Pin ==
    /\ \E as \in CASE Top(list) = "inspect" -> {{list.detail}}
                   [] Top(list) \in {"list", "filter"} /\ CursorRow(list.tree) # Root ->
                          {PinAddresses(list.tree, CursorRow(list.tree))}
                   [] OTHER -> {} :
         Sends(PinToggle(as))
    /\ UNCHANGED <<list, current>>

\* ctrl+u: leaves the pinned-only view at once, the pins go when App says so.
Unpin ==
    /\ Top(list) = "list"
    /\ Sends(PinClear)
    /\ IF list.pinnedOnly
       THEN /\ list' = SetFilter([list EXCEPT !.pinnedOnly = FALSE], list.filter, pins)
            /\ current' = TRUE
       ELSE UNCHANGED <<list, current>>

\* esc on the list.
Leave == Top(list) = "list" /\ Sends(Deactivate) /\ UNCHANGED <<list, current>>

\* q clears the frames first; then it goes home, and the pins are to go.
Quit ==
    \/ Len(list.frames) > 1 /\ Locally(Cleared(list)) /\ UNCHANGED current
    \/ /\ Key /\ CanSend
       /\ Len(list.frames) = 1
       /\ home' = TRUE
       /\ requests' = Sent({PinClear})
       /\ UNCHANGED <<list, pins, running, started, current>>

StartPlan == started < MaxPlans /\ started' = started + 1 /\ running' = running + 1

\* ctrl+r, or `a' on results that are out of date.
Replan ==
    /\ Key
    /\ Top(list) = "list" /\ list.status \in {"done", "error"}
    /\ list' = Replanned(list)
    /\ current' = TRUE
    /\ StartPlan
    /\ UNCHANGED <<home, pins, requests>>

\* The plan is chosen on the home screen.
Open ==
    /\ home /\ list.status # "loading"
    /\ home' = FALSE
    /\ IF WantsPlan(list) THEN list' = Activated(list) /\ StartPlan
                          ELSE UNCHANGED <<list, running, started>>
    /\ UNCHANGED <<pins, requests, current>>

-----------------------------------------------------------------------------
(* Messages *)

PlanCompletes ==
    /\ running > 0
    /\ running' = running - 1
    /\ \E as \in Plans :
         /\ list' = Completed(list, as)
         /\ requests' = LET gone == StalePins(pins, as)
                        IN  IF gone = {} THEN requests ELSE Sent({PinToggle(gone)})
    /\ current' = (~list.pinnedOnly /\ list.filter = "")
    /\ UNCHANGED <<home, pins, started>>

PlanFails ==
    /\ running > 0
    /\ running' = running - 1
    /\ list' = Failed(list)
    /\ UNCHANGED <<home, pins, requests, started, current>>

Received(m) == requests' = requests (-) SetToBag({m})

\* requireIdle: a request that meets a running plan is dropped.
Refuse(m) ==
    /\ m # Deactivate
    /\ list.status = "loading"
    /\ Received(m)
    /\ UNCHANGED <<list, home, pins, running, started, current>>

ReplacePins(ps) ==
    /\ pins' = ps
    /\ list' = PinsRead(list, ps)
    /\ current' = (current \/ list.pinnedOnly)
    /\ UNCHANGED <<home, running, started>>

TogglePins(m) ==
    /\ m.type = "PinToggle" /\ list.status # "loading"
    /\ ReplacePins(Toggled(pins, m.addrs))
    /\ Received(m)

\* Without pins there is nothing to tell the plugins.
ClearPins(m) ==
    /\ m = PinClear /\ list.status # "loading"
    /\ IF pins = {} THEN UNCHANGED <<list, home, pins, running, started, current>>
                    ELSE ReplacePins({})
    /\ Received(m)

GoHome(m) ==
    /\ m = Deactivate
    /\ home' = TRUE
    /\ requests' = (requests (-) SetToBag({m})) (+) SetToBag(IF home THEN {} ELSE {PinClear})
    /\ UNCHANGED <<list, pins, running, started, current>>

\* PlanInvalidatedEvent and LockClearedEvent of other plugins.
Hear ==
    /\ list' \in {Invalidated(list), Reset(list)}
    /\ current' = (current \/ list' = Reset(list))
    /\ UNCHANGED <<home, pins, running, requests, started>>

\* Another directory or workspace: a context without pins.
SwitchContext ==
    /\ home /\ list.status # "loading"
    /\ pins' = {}
    /\ list' = Reset(list)
    /\ current' = TRUE
    /\ UNCHANGED <<home, running, requests, started>>

-----------------------------------------------------------------------------
Init ==
    /\ list = NewList
    /\ home = TRUE
    /\ pins = {}
    /\ running = 0 /\ started = 0
    /\ requests = EmptyBag
    /\ current = TRUE

User ==
    \/ Walk \/ Enter \/ Unfold \/ ToggleTree \/ TogglePinned \/ OpenFilter \/ Type
    \/ Close \/ Pin \/ Unpin \/ Leave \/ Quit \/ Replan \/ Open

Receive(m) == Refuse(m) \/ TogglePins(m) \/ ClearPins(m) \/ GoHome(m)

Next ==
    \/ User \/ PlanCompletes \/ PlanFails
    \/ \E m \in BagToSet(requests) : Receive(m)
    \/ Hear \/ SwitchContext

Spec == Init /\ [][Next]_vars

-----------------------------------------------------------------------------
(* Properties *)

\* Types; the cursor is on a row, if there are any.
TypeOK ==
    /\ list \in ListState
    /\ list.tree.cursor \in 1 .. Len(list.tree.rows) \cup {1}
    /\ ToSet(list.filtered) \subseteq list.changes
    /\ home \in BOOLEAN /\ current \in BOOLEAN
    /\ pins \subseteq Addrs
    /\ running \in 0 .. MaxPlans /\ started \in 0 .. MaxPlans
    /\ IsABag(requests) /\ BagToSet(requests) \subseteq Request

\* The rows kept with the tree are, without repetition, the modules and the
\* changes under open modules only, each below its module, modules before
\* changes, in the order of their labels, whatever was opened, closed or listed.
RowsAreExact ==
    LET t == list.tree
        seen == {r \in (Paths(t) \ {Root}) \cup ToSet(t.items) :
                   ~t.nested \/ \A n \in 1 .. Len(r) - 1 : SubSeq(r, 1, n) \in t.open}
        before(r, s) ==
          \/ IsStrictPrefix(r, s)
          \/ \E n \in 1 .. Len(r) :
               /\ n <= Len(s) /\ SubSeq(r, 1, n - 1) = SubSeq(s, 1, n - 1) /\ r[n] # s[n]
               /\ LET rl == IsLeaf(t, r) /\ n = Len(r)
                      sl == IsLeaf(t, s) /\ n = Len(s)
                  IN  (~rl /\ sl) \/ (rl = sl /\ r[n] < s[n])
    IN  /\ ToSet(t.rows) = seen /\ Len(t.rows) = Cardinality(seen)
        /\ t.nested => \A i, j \in DOMAIN t.rows : i < j => before(t.rows[i], t.rows[j])

\* A detail on the screen, and what space on it pins, is a change of the plan
\* listed, whatever happened to the plan since it was opened.
DetailIsListed == Top(list) = "inspect" => list.detail \in list.changes

\* The list follows the query, the pinned-only view and the pins, except that a
\* result is listed as it comes.
ListIsCurrent ==
    current => ToSet(list.filtered) = Source(list, pins) \cap Matching[list.filter]

\* The mark of a row tells what space will do to it: a row marked full loses all
\* its pins, any other becomes full, modules included, open or not.
MarkTellsGesture ==
    \A r \in ToSet(list.tree.rows) :
      PinStateOf(list.tree, r, Toggled(pins, PinAddresses(list.tree, r)))
        = IF PinStateOf(list.tree, r, pins) = "full" THEN "none" ELSE "full"

\* "In pinned-only view the filtered slice is derived from the pin set", says
\* HandleContextChanged; a plan's result is not derived from it.
PinnedViewIsDerived ==
    list.status = "done" /\ list.pinnedOnly => ToSet(list.filtered) \subseteq pins
=============================================================================
