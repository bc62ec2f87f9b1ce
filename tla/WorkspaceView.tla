--------------------------- MODULE WorkspaceView ---------------------------
(***************************************************************************)
(* plugins/workspace: the state of the workspace view and what each of its *)
(* handlers makes of it.  It has no busy flag: requireIdle never waits for *)
(* a switch, a creation or a deletion.                                     *)
(***************************************************************************)

CONSTANTS
    Workspaces,   \* workspace names
    Default       \* WorkspaceDefault

ASSUME WorkspaceViewAssumption == Default \in Workspaces

WorkspaceState ==
    [status  : {"idle", "loading", "done", "error"},
     list    : SUBSET Workspaces,
     current : SUBSET Workspaces,    \* {} standing for ""
     confirm : SUBSET Workspaces]    \* what the ConfirmFrame on top asks to delete

NewWorkspaceView == [status |-> "idle", list |-> {}, current |-> {}, confirm |-> {}]

\* reset, which leaves the frames.
ResetWorkspaces(v) == [v EXCEPT !.status = "idle", !.list = {}, !.current = {}]

WantsWorkspaces(v) == v.status \in {"idle", "error"}

\* Refresh, and the start of any operation.
WorkspacesLoading(v) == [v EXCEPT !.status = "loading"]

WorkspacesListed(v, ws, w) == [v EXCEPT !.status = "done", !.list = ws, !.current = {w}]
WorkspacesFailed(v)        == [v EXCEPT !.status = "error"]

\* WorkspaceSwitchMsg with PopBack: the view is left.
WorkspaceLeft(v, w)  == [v EXCEPT !.status = "idle", !.current = {w}]

\* WorkspaceSwitchMsg without it, WorkspaceCreateMsg: the list is read again.
WorkspaceTaken(v, w) == WorkspacesLoading([v EXCEPT !.current = {w}])

\* Those enter and s switch to, and those d deletes.
Selectable(v) == v.list \ v.current
Deletable(v)  == v.list \ (v.current \cup {Default})

Asking(v, w) == [v EXCEPT !.confirm = {w}]
Answered(v)  == [v EXCEPT !.confirm = {}]
=============================================================================
