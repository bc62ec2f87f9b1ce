---------------------------- MODULE ApplyPlugin ----------------------------
(***************************************************************************)
(* plugins/apply: the state of the apply view, and what its handlers make  *)
(* of it.  `file' is the staged plan file, by the number of its plan run   *)
(* (0: none).  The frames on the view's stack are logs of streamed output, *)
(* each known by the number of its apply run; the top one takes the keys.  *)
(***************************************************************************)
EXTENDS Naturals, Sequences

ApplyState ==
    [status : {"idle", "confirming", "loading", "done", "error"},
     file   : Nat,
     stack  : Seq(Nat),
     last   : Nat]          \* lastStream: the log that `l' shows again (0: none)

NewApply == [status |-> "idle", file |-> 0, stack |-> <<>>, last |-> 0]

ApplyBusy(ap) == ap.status = "loading"

SetPlanFile(ap, file) == [ap EXCEPT !.file = file]

RequestApply(ap) == [ap EXCEPT !.status = "confirming"]

\* Stack.Clear: all but the bottom frame goes.
Cleared(stack) == IF Len(stack) > 1 THEN <<Head(stack)>> ELSE stack

\* AutoApply and Confirm: the run starts and its log goes on the stack.
Applying(ap, run) ==
    [ap EXCEPT !.status = "loading", !.stack = Append(Cleared(@), run), !.last = run]

\* n or esc: back to idle; the staged file is kept.
Abort(ap) == [ap EXCEPT !.status = "idle"]

\* ApplyResultMsg: the reference to the file goes, on success and on error.
Applied(ap, ok) ==
    [ap EXCEPT !.status = IF ok THEN "done" ELSE "error", !.file = 0, !.stack = <<>>]

\* `l': the last log goes back on the stack.
ShowLog(ap) == [ap EXCEPT !.stack = <<ap.last>>]

\* Mutant: the staged plan file outlives the directory it was made in.
SwitchedKeepsFile(ap) == [ap EXCEPT !.status = "idle"]

\* A switch of directory drops the staged file; a change of pins does not.
Switched(ap) == [ap EXCEPT !.status = "idle", !.file = 0]
=============================================================================
