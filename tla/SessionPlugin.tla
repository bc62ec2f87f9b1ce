--------------------------- MODULE SessionPlugin ---------------------------
(* The plugins of a command run from the shell ("tfui plan", "tfui taint        *)
(* addr", ...): what each does when it is activated, when terraform answers,    *)
(* when a tape presses a key, and what it prints when the session is over.      *)
(*                                                                              *)
(* in is the plugin's typed Input with the session's flags around it; p is the  *)
(* plugin. A handler returns the plugin after it and the commands to run next,  *)
(* in the order of its tea.Batch: the name of a terraform operation, "lines"    *)
(* (wait for a line of its output), "tick" (wait for the timer), "submit" (the  *)
(* init form), "refused" (a failure found without terraform), a request to the  *)
(* app (to open a prompt, to push apply or a runner, to deactivate), "stale"    *)
(* (PlanInvalidatedEvent) and "event" (a message nobody here handles).          *)
EXTENDS Naturals, Sequences

Runners   == {"taint", "untaint", "import"}
StateCLI  == {"rm", "mv", "state-taint", "state-untaint", "bogus"}
Verbs     == {"plan", "apply", "state", "init", "validate", "output", "version"}
                 \cup Runners \cup StateCLI
Statuses  == {"Idle", "Loading", "Planning", "Confirming", "Done", "Error"}

\* Operations of sdk.Service a plugin of this module calls: "mutate" for the
\* command line's addresses or a runner's, "edit" for a confirmed rm or mv of the
\* state list.
Operations == {"plan", "preview", "apply", "read", "mutate", "edit", "init"}

\* Requests to the app: the prompts it opens, the plugins it pushes.
Prompts  == {"confirm", "dest", "address", "id"}
Applies  == {"requestApply", "autoApply"}

(* data: what the last answer left to print. front: the frame on top of the     *)
(* plugin's stack ("none": the stack is empty; "home": the app has left the     *)
(* plugin). stale, pending: the plan's, out of date and with an apply deferred. *)
NewPlugin == [status |-> "Idle", timer |-> FALSE, data |-> "none",
              front  |-> "none", channel |-> FALSE,
              stale  |-> FALSE,  pending |-> "none"]

Then(p, commands) == [p |-> p, then |-> commands]
Started(p, st)    == [p EXCEPT !.status = st, !.timer = TRUE]
Stopped(p, st)    == [p EXCEPT !.status = st, !.timer = FALSE]
Answered(p, st, d) == [Stopped(p, st) EXCEPT !.data = d]

-----------------------------------------------------------------------------
(* plan *)

RunPlan(in, p) ==
    IF in.json
    THEN [p EXCEPT !.front = "list"]
    ELSE [p EXCEPT !.front = "stream", !.channel = TRUE]

PlanActivated(in, p) ==
    Then(RunPlan(in, Started(p, "Loading")),
         IF in.json THEN <<"plan", "tick">> ELSE <<"plan", "lines", "tick">>)

\* Mutant: the deferred apply is not spent by the replan that fires it.
PlanAnsweredAgain(in, p, answer) ==
    LET q == [p EXCEPT !.front = "list"]
    IN  CASE answer = "failed"  -> Then(Stopped(q, "Error"), <<"event">>)
          [] answer = "garbled" -> Then(Answered(q, "Error", "garbled"), <<>>)
          [] OTHER -> Then(Answered(q, "Done", answer),
                           IF in.json THEN <<>>
                           ELSE IF p.pending # "none" /\ answer = "changes"
                           THEN <<"event", "event", p.pending>>
                           ELSE <<"event", "event">>)

\* The deferred apply is fired by a replan with changes and dropped by any other.
PlanAnswered(in, p, answer) ==
    LET q == [p EXCEPT !.front = "list", !.pending = "none"]
    IN  CASE answer = "failed"  -> Then(Stopped(q, "Error"), <<"event">>)
          [] answer = "garbled" -> Then(Answered(q, "Error", "garbled"), <<>>)
          [] OTHER -> Then(Answered(q, "Done", answer),
                           IF in.json THEN <<>>
                           ELSE IF p.pending # "none" /\ answer = "changes"
                           THEN <<"event", "event", p.pending>>
                           ELSE <<"event", "event">>)

\* startReplan waits for a line of the stream whether or not the run has one.
Replanned(in, p, pending) ==
    LET q == [p EXCEPT !.data = IF in.json THEN @ ELSE "none", !.pending = pending]
    IN  Then(RunPlan(in, Started(q, "Loading")), <<"plan", "lines", "tick">>)

PlanRefreshed(in, p) == Replanned(in, p, "none")

\* a and A, in the list or in the palette: a plan out of date is replanned first.
ApplyOrReplan(in, p, request) ==
    IF p.stale THEN Replanned(in, p, request) ELSE Then(p, <<request>>)

\* reset leaves the bottom of the stack, the stream of the first run.
PlanReset(in, p) ==
    [p EXCEPT !.status = "Idle", !.data = "none", !.channel = FALSE,
              !.stale = FALSE, !.pending = "none",
              !.front = IF in.json THEN "list" ELSE "stream"]
PlanInvalidated(in, p) ==
    IF p.status = "Done" THEN [p EXCEPT !.stale = TRUE] ELSE PlanReset(in, p)

\* Activated again when a plugin pushed over it is popped.
PlanReactivated(in, p) ==
    IF p.stale \/ p.status \in {"Idle", "Error"}
    THEN PlanActivated(in, [p EXCEPT !.stale = FALSE]) ELSE Then(p, <<>>)

\* The rows a key can act on; a plan -json keeps none.
PlanRows(in, p) == p.status = "Done" /\ p.data = "changes" /\ ~in.json

PlanKey(in, p, key) ==
    IF p.front # "list" THEN Then(p, <<>>) ELSE
    CASE key = "esc" -> Then(p, <<"deactivate">>)
      [] key = "ctrl+r" /\ p.status \in {"Done", "Error"} -> PlanRefreshed(in, p)
      [] key = "a" /\ PlanRows(in, p) -> ApplyOrReplan(in, p, "requestApply")
      [] key = "A" /\ PlanRows(in, p) -> ApplyOrReplan(in, p, "autoApply")
      [] key = "t" /\ PlanRows(in, p) -> Then(p, <<"taint">>)
      [] key = "T" /\ PlanRows(in, p) -> Then(p, <<"untaint">>)
      [] OTHER -> Then(p, <<>>)

PlanStdout(in, p) ==
    IF p.data = "none" THEN "empty" ELSE IF in.json THEN "document" ELSE "summary"
\* Mutant: changes are no outcome of their own.
PlanExitFailed(p) == IF p.status = "Error" THEN 1 ELSE 0

PlanExit(p) ==
    IF p.status = "Error" THEN 1 ELSE IF p.data = "changes" THEN 2 ELSE 0

-----------------------------------------------------------------------------
(* apply *)

RunApply(p) == [Started(p, "Loading") EXCEPT !.front = "stream", !.channel = TRUE]

\* Mutant: the timer's ticks come before the run that ends them.
ApplyActivatedTickFirst(in, p) ==
    IF in.auto
    THEN Then(RunApply(p), <<"tick", "apply", "lines">>)
    ELSE Then([Started(p, "Planning") EXCEPT !.front = "stream", !.channel = TRUE],
              <<"tick", "preview", "lines">>)

ApplyActivated(in, p) ==
    IF in.auto
    THEN Then(RunApply(p), <<"apply", "lines", "tick">>)
    ELSE Then([Started(p, "Planning") EXCEPT !.front = "stream", !.channel = TRUE],
              <<"preview", "lines", "tick">>)

PreviewAnswered(p, answer) ==
    LET q == [p EXCEPT !.front = "none"]
    IN  CASE answer = "failed"  -> Then(Stopped(q, "Error"), <<>>)
          [] answer = "clean"   -> Then(Answered(q, "Done", "clean"), <<>>)
          [] answer = "changes" -> Then(Answered(q, "Confirming", "changes"), <<>>)

ApplyAnswered(p, answer) ==
    LET q == [p EXCEPT !.front = "none"]
    IN  IF answer = "failed"
        THEN Then(Stopped(q, "Error"), <<"event">>)
        ELSE Then(Stopped(q, "Done"), <<"stale", "event">>)

\* Pushed over the plan with its plan file: RequestApply or AutoApply.
ApplyPushed(request) ==
    IF request = "autoApply"
    THEN Then(RunApply(NewPlugin), <<"apply", "lines", "tick">>)
    ELSE Then([NewPlugin EXCEPT !.status = "Confirming"], <<>>)

ApplyKey(p, key) ==
    CASE p.status = "Idle" /\ key = "enter" -> Then([p EXCEPT !.status = "Confirming"], <<>>)
      [] p.status = "Confirming" /\ key \in {"y", "enter"} ->
             Then(RunApply(p), <<"apply", "lines", "tick">>)
      [] p.status = "Confirming" /\ key \in {"n", "esc"} ->
             Then([p EXCEPT !.status = "Idle"], <<"deactivate">>)
      [] p.status = "Error" /\ key = "ctrl+r"   -> Then(RunApply(p), <<"apply", "lines", "tick">>)
      [] p.status = "Done" /\ key = "ctrl+r"    -> Then(p, <<"event">>)
      [] p.status \in {"Done", "Error"} /\ key = "esc" -> Then(p, <<"deactivate">>)
      [] OTHER -> Then(p, <<>>)

ApplyStderr(p) ==
    CASE p.status = "Error" -> "error"
      [] p.status = "Done"  -> IF p.data = "clean" THEN "no changes" ELSE "outcome"
      [] OTHER              -> "empty"

-----------------------------------------------------------------------------
(* The state plugin: the list, and "tfui state rm|mv|taint|untaint". *)

\* What "tfui state <verb>" makes of its arguments; mv takes exactly two.
Refuses(in) ==
    \/ in.verb = "bogus"
    \/ in.verb = "mv" /\ in.args # 2
    \/ in.verb \in StateCLI /\ in.args = 0

StateActivated(in, p) ==
    CASE in.verb = "state" -> Then(Started(p, "Loading"), <<"read", "tick">>)
      [] Refuses(in)       -> Then([p EXCEPT !.status = "Error"], <<"refused">>)
      [] OTHER             -> Then([p EXCEPT !.status = "Loading"], <<"mutate">>)

StateListed(p, answer) ==
    IF answer = "failed" THEN Then(Stopped(p, "Error"), <<>>)
                         ELSE Then(Answered(p, "Done", answer), <<"event">>)

CLIDone(p, answer) ==
    Then(Stopped(p, IF answer = "failed" THEN "Error" ELSE "Done"), <<>>)

StateRefreshed(p) ==
    Then([Started(p, "Loading") EXCEPT !.data = "none"], <<"read", "tick">>)

\* HandlePlanInvalidated and HandleLockCleared of the state plugin.
StateReset(p) == [p EXCEPT !.status = "Idle", !.data = "none"]

\* StateDeletedMsg and StateMovedMsg reload; a failure shows as that of a list.
StateEdited(p, answer) ==
    IF answer = "failed" THEN StateListed(p, answer) ELSE StateRefreshed(p)

\* Activated again: with the default Input, so never the command's own subcommand.
StateReactivated(p) ==
    IF p.status \in {"Idle", "Error"} THEN Then(Started(p, "Loading"), <<"read", "tick">>)
                                      ELSE Then(p, <<>>)

\* The keys on a resource need the row that the seeded list gives.
StateKey(p, key) ==
    CASE key = "esc" -> Then(p, <<"deactivate">>)
      [] key = "ctrl+r" /\ p.status \in {"Done", "Error"} -> StateRefreshed(p)
      [] key = "d" /\ p.data = "rows" -> Then(p, <<"confirm">>)
      [] key = "m" /\ p.data = "rows" -> Then(p, <<"dest">>)
      [] key = "t" /\ p.data = "rows" -> Then(p, <<"taint">>)
      [] key = "T" /\ p.data = "rows" -> Then(p, <<"untaint">>)
      [] key = "n" /\ p.data = "rows" -> Then(p, <<"import">>)
      [] OTHER -> Then(p, <<>>)

StateStdout(in, p) ==
    IF in.json THEN "document" ELSE IF p.data = "listed" THEN "lines" ELSE "empty"

-----------------------------------------------------------------------------
(* The actions with a runner of their own: taint, untaint, import. *)

RunnerActivated(p) == Then(Started(p, "Loading"), <<"mutate", "tick">>)

RunnerAnswered(in, p, answer) ==
    IF answer = "failed"
    THEN Then(Stopped(p, "Error"), <<>>)
    ELSE Then(Stopped(p, "Done"),
              IF in.verb = "import" THEN <<"event", "stale">> ELSE <<"stale">>)

\* Pushed over a list, with no AutoConfirm: taint and untaint ask for the
\* confirmation, import for an address first.
RunnerPushed(verb) ==
    Then(NewPlugin, IF verb = "import" THEN <<"address">> ELSE <<"confirm">>)

RunnerKey(p, key) ==
    CASE p.status = "Error" /\ key = "ctrl+r" -> Then(Started(p, "Loading"), <<"mutate", "tick">>)
      [] key = "esc" -> Then(p, <<"deactivate">>)
      [] OTHER       -> Then(p, <<>>)

RunnerStderr(p) ==
    CASE p.status = "Done"  -> "outcome"
      [] p.status = "Error" -> "error"
      [] OTHER              -> "empty"

-----------------------------------------------------------------------------
(* init: a form, then a frame with the result on top of it. *)

InitActivated(in, p) ==
    Then([p EXCEPT !.front = "form"], IF in.flags THEN <<"submit">> ELSE <<>>)

InitSubmitted(p) ==
    Then([Started(p, "Loading") EXCEPT !.front = "result", !.channel = TRUE],
         <<"init", "tick", "lines">>)

InitAnswered(p, answer) ==
    IF answer = "failed" THEN Then(Stopped(p, "Error"), <<>>)
                         ELSE Then(Stopped(p, "Done"), <<"event">>)

\* The form popped from under an empty stack sends the app home.
InitKey(p, key) ==
    CASE p.front = "form" /\ key = "enter" -> Then(p, <<"submit">>)
      [] p.front = "form" /\ key = "esc"   -> Then([p EXCEPT !.front = "home"], <<>>)
      [] p.front = "result" /\ p.status = "Error" /\ key \in {"esc", "enter"} ->
             Then([p EXCEPT !.front = "form"], <<>>)
      [] p.front = "result" /\ p.status = "Done" /\ key = "esc" -> Then(p, <<"deactivate">>)
      [] OTHER -> Then(p, <<>>)

InitOutcome(p) == IF p.front = "result" THEN p.status ELSE "Idle"
\* Mutant: success is printed whatever happened.
InitStdoutAlways(p) == "success"

InitStdout(p) == IF InitOutcome(p) = "Error" THEN "empty" ELSE "success"

-----------------------------------------------------------------------------
(* validate, output, version *)

ReaderActivated(in, p) ==
    IF in.verb = "version" THEN Then([p EXCEPT !.status = "Loading"], <<"read">>)
                           ELSE Then(Started(p, "Loading"), <<"read", "tick">>)

ReaderAnswered(p, answer) ==
    IF answer = "failed" THEN Then(Stopped(p, "Error"), <<>>)
                         ELSE Then(Answered(p, "Done", answer), <<>>)

ReaderRefreshed(p) == Then([Started(p, "Loading") EXCEPT !.data = "none"], <<"read", "tick">>)

\* validate, without -json: no diagnostics read as a valid configuration.
ValidateStdout(in, p) ==
    IF in.json THEN (IF p.data = "none" THEN "empty" ELSE "document")
    ELSE IF p.status = "Error" THEN "empty"
    ELSE IF p.data = "invalid" THEN "diagnostics" ELSE "success"
ValidateExit(in, p) ==
    IF p.status = "Error" \/ (~in.json /\ p.data = "invalid") THEN 1 ELSE 0

OutputStdout(in, p) ==
    IF p.data = "none" THEN "empty" ELSE IF in.json THEN "document" ELSE "lines"
VersionStdout(in, p) ==
    IF ~in.json THEN "version" ELSE IF p.data = "none" THEN "empty" ELSE "document"

-----------------------------------------------------------------------------
(* The ports the session uses. *)

Activated(in, p) ==
    CASE in.verb = "plan"                 -> PlanActivated(in, p)
      [] in.verb = "apply"                -> ApplyActivated(in, p)
      [] in.verb \in Runners              -> RunnerActivated(p)
      [] in.verb = "init"                 -> InitActivated(in, p)
      [] in.verb \in {"state"} \cup StateCLI -> StateActivated(in, p)
      [] OTHER                            -> ReaderActivated(in, p)

Answer(in, p, op, answer) ==
    CASE op = "plan"             -> PlanAnswered(in, p, answer)
      [] op = "preview"          -> PreviewAnswered(p, answer)
      [] op = "apply"            -> ApplyAnswered(p, answer)
      [] op = "init"             -> InitAnswered(p, answer)
      [] op = "mutate" /\ in.verb \in Runners    -> RunnerAnswered(in, p, answer)
      [] op = "mutate" /\ in.verb \notin Runners -> CLIDone(p, answer)
      [] op = "edit"             -> StateEdited(p, answer)
      [] op = "read" /\ in.verb \in {"state"} \cup StateCLI -> StateListed(p, answer)
      [] OTHER                   -> ReaderAnswered(p, answer)

\* ctrl+r in the list of output and in validate; esc of validate does nothing.
ReaderKey(in, p, key) ==
    CASE key = "ctrl+r" /\ in.verb # "version" /\ p.status \in {"Done", "Error"} ->
             ReaderRefreshed(p)
      [] key = "esc" /\ in.verb # "validate" -> Then(p, <<"deactivate">>)
      [] OTHER -> Then(p, <<>>)

\* The keys a tape plays: those a view or a prompt acts on. Not played are the
\* keys that move, filter, fold, pin or open a detail, which run nothing and whose
\* frames act on d, m, t, T, n as the list does; l and q, after which a list shows
\* a log that only scrolls; e, for no editor runs in the driver; u, which needs a
\* lock error.
TapeKeys == {"y", "n", "enter", "esc", "ctrl+r", "a", "A", "t", "T", "d", "m"}

\* A key in the view of the plugin, with no prompt open.
Pressed(in, p, key) ==
    CASE in.verb = "apply"       -> ApplyKey(p, key)
      [] in.verb \in Runners     -> RunnerKey(p, key)
      [] in.verb = "init"        -> InitKey(p, key)
      [] in.verb = "plan"        -> PlanKey(in, p, key)
      [] in.verb \in {"state"} \cup StateCLI -> StateKey(p, key)
      [] OTHER                   -> ReaderKey(in, p, key)

\* What is asked for by pressing it: the changes nothing further is asked about.
\* count: the addresses of a runner.
Asks(in, p, key, count) ==
    CASE in.verb = "plan" /\ key = "A" /\ p.front = "list" /\ PlanRows(in, p) -> <<"apply">>
      [] in.verb = "apply" /\ \/ p.status = "Confirming" /\ key \in {"y", "enter"}
                              \/ p.status = "Error" /\ key = "ctrl+r" -> <<"apply">>
      [] in.verb \in Runners /\ p.status = "Error" /\ key = "ctrl+r" ->
             [k \in 1..count |-> "mutate"]
      [] in.verb = "init" /\ p.front = "form" /\ key = "enter" -> <<"init">>
      [] OTHER -> <<>>

\* An event a tape emits, as the plugin's handler takes it.
Emitted(in, p, event) ==
    CASE event = "lock-clear" /\ in.verb = "plan" -> PlanReset(in, p)
      [] event = "stale" /\ in.verb = "plan"      -> PlanInvalidated(in, p)
      [] event \in {"stale", "lock-clear"}
             /\ in.verb \in {"state"} \cup StateCLI -> StateReset(p)
      [] OTHER                                    -> p

\* Mutant: a list is activated again with the Input of the command.
ReactivatedSame(in, p) == Activated(in, p)

\* App.activate, for what a pushed plugin may cover: the lists.
Reactivated(in, p) ==
    IF in.verb = "plan" THEN PlanReactivated(in, p) ELSE StateReactivated(p)

\* Plugin.Ready; init is always ready.
Ready(in, p) == in.verb = "init" \/ p.status = "Done"

\* Mutant: an error is not an end.
TerminalDone(in, p) == in.verb \notin {"init", "version"} /\ p.status = "Done"

\* terminalStatus: init and version do not tell their status.
Terminal(in, p) == in.verb \notin {"init", "version"} /\ p.status \in {"Done", "Error"}

Stdout(in, p) ==
    CASE in.verb = "plan"                    -> PlanStdout(in, p)
      [] in.verb \in {"state"} \cup StateCLI -> StateStdout(in, p)
      [] in.verb = "init"                    -> InitStdout(p)
      [] in.verb = "validate"                -> ValidateStdout(in, p)
      [] in.verb = "output"                  -> OutputStdout(in, p)
      [] in.verb = "version"                 -> VersionStdout(in, p)
      [] OTHER                               -> "empty"

Stderr(in, p) ==
    CASE in.verb \in {"output", "version"}     -> "empty"
      [] in.verb = "apply"                     -> ApplyStderr(p)
      [] in.verb \in Runners                   -> RunnerStderr(p)
      [] OTHER -> IF (IF in.verb = "init" THEN InitOutcome(p) ELSE p.status) = "Error"
                  THEN "error" ELSE "empty"

ExitCode(in, p) ==
    CASE in.verb = "plan"                   -> PlanExit(p)
      [] in.verb = "validate"               -> ValidateExit(in, p)
      [] in.verb \in {"output", "version"}  -> 0
      [] in.verb = "init"                   -> IF InitOutcome(p) = "Error" THEN 1 ELSE 0
      [] OTHER                              -> IF p.status = "Error" THEN 1 ELSE 0
=============================================================================
