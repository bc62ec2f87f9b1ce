----------------------------- MODULE PlanPlugin -----------------------------
(***************************************************************************)
(* plugins/plan: the state of the plan view and what each of its handlers  *)
(* makes of it.  A plan run is known by a number; the temporary file it    *)
(* writes and the summary it returns carry the same number, 0 standing for *)
(* none.  The handlers' effects outside the plugin (the run they start,    *)
(* the file they remove, the messages they send) are the App's actions.    *)
(***************************************************************************)
EXTENDS Naturals

Statuses == {"idle", "loading", "done", "error"}

\* What `a' or `A' left to be done once the replan succeeds.
Deferred == {"no", "ask", "auto"}

PlanState ==
    [status  : Statuses,
     stale   : BOOLEAN,      \* the results shown are out of date
     pending : Deferred,     \* pendingApply and pendingAutoApprove
     file    : Nat,          \* planFile
     shown   : Nat,          \* the run whose summary is shown
     changes : BOOLEAN,      \* that summary has changes
     locked  : BOOLEAN]      \* lockInfo: the last run met a held state lock

NewPlan ==
    [status |-> "idle", stale |-> FALSE, pending |-> "no", file |-> 0,
     shown |-> 0, changes |-> FALSE, locked |-> FALSE]

PlanBusy(pl) == pl.status = "loading"

\* clearPendingApply, which is all that Cancel does to the plugin's own state.
ClearPending(pl) == [pl EXCEPT !.pending = "no"]

\* reset: a context switch, a cleared lock, or an invalidation with nothing shown.
Reset(pl) == NewPlan

PinsChanged(pl) == ClearPending([pl EXCEPT !.stale = TRUE])

PlanInvalidated(pl) ==
    IF pl.status = "done" THEN [pl EXCEPT !.stale = TRUE] ELSE Reset(pl)

\* Activate runs a plan unless there are results, or a run, to come back to.
WantsRun(pl) == pl.status \in {"idle", "error"} \/ pl.stale

Activated(pl, run) ==
    [pl EXCEPT !.status = "loading", !.stale = FALSE, !.file = run]

\* startReplan: drops what was shown, but not `stale'.
Replanned(pl, run) ==
    [pl EXCEPT !.status = "loading", !.file = run,
               !.shown = 0, !.changes = FALSE, !.locked = FALSE]

\* Mutant: an error is not the end of the replan an apply waits for.
FailedKeepsPending(pl, lock) == [pl EXCEPT !.status = "error", !.locked = lock]

\* Mutant: a held lock is offered to be cleared before the run is over.
FailedStaysBusy(pl, lock) ==
    [ClearPending(pl) EXCEPT !.status = IF lock THEN @ ELSE "error", !.locked = lock]

\* A result that is an error.
Failed(pl, lock) ==
    [ClearPending(pl) EXCEPT !.status = "error", !.locked = lock]

\* A result with a summary: that of `run', whichever run is the latest.
Completed(pl, run, hasChanges) ==
    [ClearPending(pl) EXCEPT !.status = "done", !.shown = run, !.changes = hasChanges]

\* The keys `a' and `A' ask to apply results that have changes ...
CanApply(pl) == pl.status = "done" /\ pl.changes

\* ... and hand the file over at once unless it is out of date.
Fresh(pl) == ~pl.stale /\ pl.file # 0

\* The replan succeeded and the apply deferred to it is due.
ApplyDue(pl, hasChanges) == pl.pending # "no" /\ hasChanges /\ pl.file # 0
=============================================================================
