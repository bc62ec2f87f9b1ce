----------------------------- MODULE StateView -----------------------------
(***************************************************************************)
(* plugins/state: the state of the state browser and what each of its      *)
(* handlers makes of it.  A resource is its address.  The cursor is on any *)
(* row shown; the tree, the panels and the scrolling are left out, and the *)
(* filter is either empty or a word that matches `Matching'.               *)
(***************************************************************************)
EXTENDS Sequences, SequencesExt

CONSTANTS
    Addrs,      \* resource addresses
    Matching    \* those the typed filter matches

ASSUME StateViewAssumption == Matching \subseteq Addrs

\* "detail" is StatusShowingDetail.
StateStatuses == {"idle", "loading", "done", "error", "detail"}

\* The IDs of the frames above and including the root.
StateFrames == {"list", "filter", "inspect", "actions"}

StateState ==
    [status     : StateStatuses,
     mutating   : BOOLEAN,
     listed     : SUBSET Addrs,     \* resources
     shown      : SUBSET Addrs,     \* filtered
     filter     : BOOLEAN,          \* the filter is not empty
     pinnedOnly : BOOLEAN,
     detail     : SUBSET Addrs,     \* detailAddr, {} standing for ""
     targets    : SUBSET Addrs,     \* what the action palette was opened for
     frames     : Seq(StateFrames) \ {<<>>}]

NewStateView ==
    [status |-> "idle", mutating |-> FALSE, listed |-> {}, shown |-> {},
     filter |-> FALSE, pinnedOnly |-> FALSE,
     detail |-> {}, targets |-> {}, frames |-> <<"list">>]

StateBusy(s) == s.mutating

OnTop(s) == Last(s.frames)

PushFrame(s, f) == [s EXCEPT !.frames = Append(@, f)]
PopFrame(s)     == [s EXCEPT !.frames = Front(@)]

\* Mutant: Stack.Reset for Stack.Clear, which takes the list away too.
ClearFramesAll(s) == [s EXCEPT !.frames = <<>>, !.targets = {}]

\* Stack.Clear
ClearFrames(s) == [s EXCEPT !.frames = <<Head(@)>>, !.targets = {}]

\* reset: neither the frames, nor `mutating', nor `pinnedOnly'.
ResetList(s) ==
    [s EXCEPT !.status = "idle", !.listed = {}, !.shown = {}, !.filter = FALSE,
              !.detail = {}]

\* HandleContextChanged after a switch of directory or workspace.
SwitchedAway(s) == ResetList([s EXCEPT !.pinnedOnly = FALSE])

\* Activate loads when there is nothing to come back to.
WantsList(s) == s.status \in {"idle", "error"}

Loading(s) == [s EXCEPT !.status = "loading"]

\* Refresh
Refreshed(s) == Loading(ClearFrames(ResetList(s)))

\* StateListMsg: whatever the filter, every resource is shown.
Listed(s, as) ==
    [s EXCEPT !.mutating = FALSE, !.status = "done", !.listed = as, !.shown = as]

\* Mutant: a failed removal leaves the view busy.
ListFailedStaysBusy(s) == [s EXCEPT !.status = "error"]

ListFailed(s) == [s EXCEPT !.mutating = FALSE, !.status = "error"]

\* Mutant: the view keeps its list after a removal or a move.
MutationDoneNoRefresh(s) == [s EXCEPT !.mutating = FALSE]

\* StateDeletedMsg, StateMovedMsg
MutationDone(s) == Refreshed([s EXCEPT !.mutating = FALSE])

\* ResourceDetailMsg
Detailed(s, a)  == PushFrame([s EXCEPT !.status = "detail", !.detail = {a}], "inspect")
DetailFailed(s) == [s EXCEPT !.status = "done"]

\* SetFilter: q says whether the query is not empty.
SetFilter(s, q, pins) ==
    [s EXCEPT !.filter = q,
              !.shown = {a \in s.listed : (s.pinnedOnly => a \in pins) /\ (q => a \in Matching)}]

\* HandleContextChanged after a change of pins.
PinsRead(s, pins) == IF s.pinnedOnly THEN SetFilter(s, s.filter, pins) ELSE s

\* InspectSelected, from the list or the filter.
Inspecting(s) ==
    Loading(IF OnTop(s) = "filter" THEN PopFrame(s) ELSE s)

\* `/'
FilterOpened(s) ==
    PushFrame([s EXCEPT !.filter = FALSE, !.shown = s.listed], "filter")

\* esc on the filter, and on a detail.
FilterClosed(s) == PopFrame(s)
DetailClosed(s) == PopFrame([s EXCEPT !.status = "done", !.detail = {}])

\* actionTargets, the cursor being on one of the rows shown.
ActionTargets(s, pins) == IF pins # {} THEN {pins} ELSE {{a} : a \in s.shown}

\* `!', and a choice or esc.
PaletteOpened(s, as) == PushFrame([s EXCEPT !.targets = as], "actions")
PaletteClosed(s)     == PopFrame([s EXCEPT !.targets = {}])
=============================================================================
