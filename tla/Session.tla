------------------------------ MODULE Session ------------------------------
(* One headless command of tfui, from the parsed flags to the exit code: the    *)
(* checks before dispatch, the synchronous driver that runs the model's         *)
(* commands one by one, the wait for the plugin to settle, or the macro tape    *)
(* played against a service that only records, and what is printed.             *)
(*                                                                              *)
(* The driver is depth first: a command is run, its message handled, and the    *)
(* commands that come back run before the rest. That recursion is agenda, a     *)
(* sequence whose head is the command being run.                                *)
EXTENDS SessionPlugin, FiniteSets

CONSTANTS
    MaxSteps,   \* tape commands played
    MaxLines,   \* lines of output one run writes to its stream
    MaxRounds   \* ticks of WaitUntil before its deadline has passed

ASSUME BoundsAssumption == /\ MaxSteps \in Nat /\ MaxLines \in Nat
                           /\ MaxRounds \in Nat \ {0}

VARIABLES
    in,         \* the command line, as cobra and the root flags parsed it
    phase,      \* "start", "run", "tape", "ended"
    svc,        \* the service of the session: its kind, and the file its cache holds
    bound,      \* the service the plugins were given
    p,          \* the plugin of the command
    over,       \* the plugin pushed over it by a key: apply, a runner, or "none"
    g,          \* that plugin
    prompt,     \* the app's prompt
    typed,      \* the tape has typed into it
    count,      \* addresses the next mutation goes through
    agenda,     \* the driver's commands, the one being run first
    lines,      \* lines left in the stream of the last run
    closed,     \* its LineWriter has been closed
    rounds,     \* ticks WaitUntil has sent
    steps,      \* tape commands played without an error
    frames,     \* frames captured by the recorder
    finalized,  \* the recording has been written
    touched,    \* terraform has been run
    changes,    \* the changes it made or, in a dry run, that were written down
    asked,      \* the changes the command line, a key or an answer asked for
    worked,     \* targets of the command terraform has done
    failed,     \* a terraform operation has failed
    out         \* what the process has written, and its exit code

app      == <<over, g, prompt, typed, count>>
services == <<svc, bound>>
stream   == <<lines, closed>>
tape     == <<steps, frames, finalized>>
deeds    == <<touched, changes, worked, failed>>
vars == <<in, phase, services, p, app, agenda, stream, rounds, tape, deeds, asked, out>>

-----------------------------------------------------------------------------
(* The command line *)

Flag == BOOLEAN
\* A flag a verb does not have is FALSE, and so are the arguments it ignores.
Fits(i) ==
    /\ i.auto  => i.verb = "apply"
    /\ i.flags => i.verb = "init"
    /\ i.args # 1 => i.verb \in StateCLI \cup {"taint", "untaint"}
    /\ i.json => i.verb \notin Runners \cup {"apply", "init"}

Inputs ==
    {i \in [verb : Verbs, json : Flag, auto : Flag, flags : Flag, args : 0..2,
            tape : {"none", "played", "missing", "garbled"}, record : Flag,
            seed : {"none", "plan", "state", "unreadable"},
            chdir : {"none", "member", "bad"}, disabled : Flag] : Fits(i)}

\* --macro: what the command does is to be written down, not done.
DryRun == in.tape # "none"

\* Addresses the command names, one terraform call each.
Targets == IF in.verb \in {"mv", "import"} THEN 1 ELSE in.args

\* A run that nobody could be asked to approve.
Unconfirmable(i) == i.verb = "apply" /\ ~i.auto /\ i.tape = "none"

\* The refusals before the plugin is activated, and their exit code: cobra's
\* arity and apply's approval, then validatePlugin, the tape and the seeds.
Early(i)   == \/ Unconfirmable(i)
              \/ i.verb \in {"taint", "untaint"} /\ i.args = 0
Refused(i) == \/ Early(i)
              \/ i.chdir = "bad" \/ i.disabled
              \/ i.tape \in {"missing", "garbled"}
              \/ i.seed = "unreadable"
RefusalCode(i) ==
    IF ~Early(i) /\ i.chdir # "bad" /\ ~i.disabled /\ i.tape = "garbled" THEN 2 ELSE 1

Wrote(o, e, code) == [stdout |-> o, stderr |-> e, exit |-> code]
Quiet == Wrote("empty", "empty", 0)

NoService == [kind |-> "none", seed |-> "none"]

Init ==
    /\ in \in Inputs
    /\ phase = "start" /\ svc = NoService /\ bound = NoService
    /\ p = NewPlugin /\ over = "none" /\ g = NewPlugin
    /\ prompt = "none" /\ typed = FALSE /\ count = Targets
    /\ agenda = <<>> /\ lines = 0 /\ closed = TRUE
    /\ rounds = 0 /\ steps = 0 /\ frames = 0 /\ finalized = FALSE
    /\ touched = FALSE /\ changes = <<>> /\ asked = <<>>
    /\ worked = 0 /\ failed = FALSE
    /\ out = Quiet

-----------------------------------------------------------------------------
(* Before dispatch *)

Ended(o) == /\ phase' = "ended" /\ out' = o
            /\ UNCHANGED <<in, services, p, app, agenda, stream, rounds, deeds, asked>>

Refuse ==
    /\ phase = "start" /\ Refused(in)
    /\ Ended(Wrote("empty", "error", RefusalCode(in)))
    /\ UNCHANGED tape

\* RunPlugin: terraform behind an ExecService, or a MacroService that records.
NewService(i) == [kind |-> IF i.tape = "none" THEN "exec" ELSE "macro", seed |-> i.seed]

\* Mutant: another directory's service is always terraform's.
WithDirLive(s) == [kind |-> "exec", seed |-> "none"]

\* A service for another directory: the same kind, with an empty cache.
WithDir(s) == [s EXCEPT !.seed = "none"]

\* App.Init gives the plugins their service, its own or one for --chdir; its
\* batch is the workspace, then the start of the plugin.
Begin ==
    /\ phase = "start" /\ ~Refused(in)
    /\ phase' = "run"
    /\ svc' = NewService(in)
    /\ bound' = IF in.chdir = "none" THEN svc' ELSE WithDir(svc')
    /\ agenda' = <<"workspace", "startup">>
    /\ UNCHANGED <<in, p, app, stream, rounds, tape, deeds, asked, out>>

-----------------------------------------------------------------------------
(* The driver runs the head of the agenda *)

Heads(c) == phase = "run" /\ agenda # <<>> /\ Head(agenda) = c

\* SendMsg: the commands a handler returns run before what is left of the batch.
Queued(commands) ==
    /\ agenda' = commands \o Tail(agenda)
    /\ UNCHANGED <<in, phase, services, rounds, tape, out>>

\* The plugin on the screen takes keys, lines and ticks; results reach them all.
Active == IF over = "none" THEN p ELSE g
\* The pushed plugin's Input: that of its verb, and no -json reaches it.
Guest  == [in EXCEPT !.verb = over, !.json = FALSE]
Becomes(q) == IF over = "none" THEN p' = q /\ UNCHANGED g ELSE g' = q /\ UNCHANGED p

\* A stream opened by the handler starts with no line and no Close.
Opened(q) == IF q.front \in {"stream", "result"} /\ q.status \in {"Loading", "Planning"}
             THEN lines' = 0 /\ closed' = FALSE
             ELSE UNCHANGED stream

\* The workspace's name, from the app's own service.
LoadWorkspace ==
    /\ Heads("workspace") /\ Queued(<<>>)
    /\ touched' = (touched \/ svc.kind = "exec")
    /\ UNCHANGED <<p, app, stream, changes, worked, failed, asked>>

Handled(step) ==
    /\ Queued(step.then) /\ p' = step.p /\ Opened(step.p)
    /\ UNCHANGED <<app, deeds>>

Repeat(op, n) == [k \in 1..n |-> op]

\* What the command line asks for by itself: its own mutation, an apply with
\* -auto-approve, an init with flags.
Commanded ==
    CASE in.verb = "apply" -> IF in.auto THEN <<"apply">> ELSE <<>>
      [] in.verb = "init"  -> IF in.flags THEN <<"init">> ELSE <<>>
      [] in.verb \in StateCLI -> IF Refuses(in) THEN <<>> ELSE Repeat("mutate", Targets)
      [] in.verb \in Runners  -> Repeat("mutate", Targets)
      [] OTHER -> <<>>

Startup ==
    /\ Heads("startup") /\ Handled(Activated(in, p))
    /\ asked' = asked \o Commanded
Submit        == Heads("submit")  /\ Handled(InitSubmitted(p)) /\ UNCHANGED asked
ReportRefusal == Heads("refused") /\ Handled(CLIDone(p, "failed")) /\ UNCHANGED asked

\* A broadcast no handler takes, NavigateMsg for a plugin a standalone session
\* does not push.
PassEvent ==
    /\ Heads("event") /\ Queued(<<>>)
    /\ UNCHANGED <<p, app, stream, deeds, asked>>

\* PlanInvalidatedEvent, which apply and the runners emit when they have succeeded.
Invalidate ==
    /\ Heads("stale") /\ Queued(<<>>)
    /\ p' = Emitted(in, p, "stale")
    /\ UNCHANGED <<app, stream, deeds, asked>>

\* DeactivateMsg pops a pushed plugin and activates the one below; the command's
\* own is left with tea.Quit, which the driver does not obey.
Deactivate ==
    /\ Heads("deactivate")
    /\ IF over = "none"
       THEN Queued(<<>>) /\ UNCHANGED <<p, app, stream>>
       ELSE LET step == Reactivated(in, p)
            IN  /\ Queued(step.then) /\ p' = step.p /\ Opened(step.p)
                /\ over' = "none" /\ g' = NewPlugin
                /\ UNCHANGED <<prompt, typed, count>>
    /\ UNCHANGED <<deeds, asked>>

\* ApplyRequestMsg, and the requests of taint, untaint and import.
Push(verb, step) ==
    /\ Queued(step.then) /\ over' = verb /\ g' = step.p /\ Opened(step.p)
    /\ UNCHANGED <<p, prompt, typed, count, deeds, asked>>
PushApply  == \E request \in Applies : Heads(request) /\ Push("apply", ApplyPushed(request))
PushRunner == \E verb \in Runners : Heads(verb) /\ Push(verb, RunnerPushed(verb))

\* RequestInputMsg.
OpenPrompt ==
    \E kind \in Prompts :
        /\ Heads(kind) /\ Queued(<<>>)
        /\ prompt' = kind /\ typed' = FALSE
        /\ UNCHANGED <<p, over, g, count, stream, deeds, asked>>

\* Timer.Tick: the chain of ticks goes on while the timer runs.
Tick ==
    /\ Heads("tick") /\ Queued(IF Active.timer THEN <<"tick">> ELSE <<>>)
    /\ UNCHANGED <<p, app, stream, deeds, asked>>

\* WaitForLine blocks until there is a line or the channel is closed; on the nil
\* channel of a plugin that opened no stream, for ever. Only a frame that shows
\* the stream asks for the next line.
ReadLine ==
    /\ Heads("lines") /\ (p.channel \/ g.channel)
    /\ lines > 0 \/ closed
    /\ lines' = IF lines > 0 THEN lines - 1 ELSE 0
    /\ Queued(IF lines > 0 /\ Active.front \in {"stream", "result"} THEN <<"lines">> ELSE <<>>)
    /\ UNCHANGED <<p, app, closed, deeds, asked>>

\* The cache of the service the plugins hold has been seeded with it.
Seeded(what) == bound.seed = what

\* What terraform can answer. validate -json of an invalid configuration exits
\* non-zero, and its document is lost.
Answers(op) ==
    CASE op = "plan"    -> {"clean", "changes", "failed"} \cup (IF in.json THEN {"garbled"} ELSE {})
      [] op = "preview" -> {"clean", "changes", "failed"}
      [] op = "read" /\ in.verb = "validate" ->
             {"valid", "failed"} \cup (IF in.json THEN {} ELSE {"invalid"})
      [] op = "read" /\ in.verb = "state" /\ Seeded("state") -> {"listed"}
      [] OTHER -> {"listed", "failed"}

\* What MacroService answers: the seeded plan or rows, or none; never a failure.
Recorded(op) ==
    CASE op \in {"plan", "preview"} ->
             IF ~in.json /\ Seeded("plan") THEN "changes" ELSE "clean"
      [] op = "read" /\ in.verb = "validate" -> "valid"
      [] op = "read" /\ in.verb \in {"state"} \cup StateCLI /\ Seeded("state") -> "rows"
      [] OTHER -> "listed"

\* What an operation changes: each address of a mutation, an apply, an init.
Mutations == {"mutate", "edit"}
Change(op, n) == IF op \in Mutations THEN Repeat(op, n)
                 ELSE IF op \in {"apply", "init"} THEN <<op>> ELSE <<>>

\* The operation runs, its writer is closed, and its message is handled: by the
\* pushed plugin when it is its own.
Ran(op, answer) ==
    LET pushed == over # "none" /\ op \in {"apply", "mutate"}
        step   == IF pushed THEN Answer(Guest, g, op, answer) ELSE Answer(in, p, op, answer)
    IN  /\ Queued(step.then)
        /\ IF pushed THEN g' = step.p /\ UNCHANGED p ELSE p' = step.p /\ UNCHANGED g
        /\ closed' = TRUE
        /\ UNCHANGED <<over, prompt, typed, count, asked>>

\* A seeded list is the only answer ExecService gives without terraform.
Terraform(op) ==
    /\ Heads(op) /\ bound.kind = "exec" /\ op \notin Mutations
    /\ \E answer \in Answers(op) :
          /\ Ran(op, answer)
          /\ failed' = (failed \/ answer = "failed")
          /\ worked' = IF answer = "failed" THEN worked ELSE worked + 1
    /\ lines' \in IF p.channel THEN 0..MaxLines ELSE {lines}
    /\ touched' = (touched \/ ~(op = "read" /\ in.verb = "state" /\ Seeded("state")))
    /\ changes' = changes \o Change(op, 1)

\* The loop over the addresses stops at the first that fails.
Mutate(op) ==
    /\ Heads(op) /\ bound.kind = "exec"
    /\ \E done \in 0..count :
          LET failing == done < count
          IN  /\ Ran(op, IF failing THEN "failed" ELSE "listed")
              /\ worked' = worked + done
              /\ failed' = (failed \/ failing)
              /\ changes' = changes \o Change(op, IF failing THEN done + 1 ELSE done)
    /\ touched' = TRUE
    /\ UNCHANGED lines

\* MacroService writes the change down, and nothing to the stream.
Record(op) ==
    /\ Heads(op) /\ bound.kind = "macro"
    /\ Ran(op, Recorded(op))
    /\ changes' = changes \o Change(op, count)
    /\ UNCHANGED <<lines, touched, worked, failed>>

-----------------------------------------------------------------------------
(* Without a tape: wait until the plugin is ready, then print *)

Idle == phase = "run" /\ agenda = <<>>

Settled == Ready(in, p) \/ Terminal(in, p)

\* Mutant: the deadline is not looked at.
WaitOn ==
    /\ Idle /\ ~DryRun /\ ~Settled
    /\ rounds' = rounds + 1
    /\ UNCHANGED <<in, phase, services, p, app, agenda, stream, tape, deeds, asked, out>>

\* WaitUntil: another tick, which no plugin handles.
Wait ==
    /\ Idle /\ ~DryRun /\ ~Settled /\ rounds < MaxRounds
    /\ rounds' = rounds + 1
    /\ UNCHANGED <<in, phase, services, p, app, agenda, stream, tape, deeds, asked, out>>

\* The error is the driver's own; what terraform said is not printed.
Deadline ==
    /\ Idle /\ ~DryRun /\ ~Settled /\ rounds = MaxRounds
    /\ Ended(Wrote("empty", "timeout", 1))
    /\ UNCHANGED tape

PrintResult ==
    /\ Idle /\ ~DryRun /\ Settled
    /\ Ended(Wrote(Stdout(in, p), Stderr(in, p), ExitCode(in, p)))
    /\ UNCHANGED tape

-----------------------------------------------------------------------------
(* With a tape: one command after the other, a frame after each *)

Captured == frames' = IF in.record THEN frames + 1 ELSE frames

\* Execute, after Init and after each command that did not fail.
Capture ==
    /\ Idle /\ DryRun
    /\ phase' = "tape" /\ Captured
    /\ UNCHANGED <<in, services, p, app, agenda, stream, rounds, steps, finalized,
                   deeds, asked, out>>

Playing == phase = "tape" /\ steps < MaxSteps

Played(commands) ==
    /\ Playing
    /\ phase' = "run" /\ steps' = steps + 1
    /\ agenda' = commands
    /\ UNCHANGED <<in, services, rounds, frames, finalized, deeds, out>>

Requests == Prompts \cup Runners

\* A key in a view. d, t and T go through two addresses when the palette (!) is
\* open over rows pinned before; the keys that pin and open it are not played.
\* Nor are those of the home screen.
PlayKey ==
    \E key \in TapeKeys, n \in 1..2 :
        /\ prompt = "none" /\ p.front # "home"
        /\ n = 2 => key \in {"d", "t", "T"}
        /\ LET i    == IF over = "none" THEN in ELSE Guest
               step == Pressed(i, Active, key)
           IN  /\ Played(step.then) /\ Becomes(step.p) /\ Opened(step.p)
               /\ count' = IF step.then # <<>> /\ Head(step.then) \in Requests THEN n ELSE count
               /\ asked' = asked \o Asks(i, Active, key, count)
        /\ UNCHANGED <<over, prompt, typed>>

\* The answers to a prompt: esc and no, the yes of a confirmation, the enter and
\* the letters of a text (backspaces are not played).
PlayCancel ==
    \E key \in {"esc"} \cup (IF prompt = "confirm" THEN {"n"} ELSE {}) :
        /\ prompt # "none" /\ Played(<<>>)
        /\ prompt' = "none"
        /\ UNCHANGED <<p, over, g, typed, count, stream, asked>>

\* A runner starts; the list's own rm or mv is run without leaving Done.
PlayYes ==
    \E key \in {"y", "enter"} :
        /\ prompt = "confirm"
        /\ IF over = "none" THEN Played(<<"edit">>) /\ UNCHANGED g
                            ELSE Played(<<"mutate", "tick">>) /\ g' = Started(g, "Loading")
        /\ asked' = asked \o Repeat(IF over = "none" THEN "edit" ELSE "mutate", count)
        /\ prompt' = "none"
        /\ UNCHANGED <<p, over, typed, count, stream>>

\* An unchanged destination moves nothing; an import without an ID is given up,
\* and with one it is confirmed.
PlayEnter ==
    /\ prompt \in {"dest", "address", "id"}
    /\ Played(CASE prompt = "address"          -> <<"id">>
                [] prompt = "id" /\ ~typed     -> <<"deactivate">>
                [] prompt = "dest" /\ ~typed   -> <<>>
                [] OTHER                       -> <<"confirm">>)
    /\ prompt' = "none"
    /\ UNCHANGED <<p, over, g, typed, count, stream, asked>>

PlayType ==
    \E key \in TapeKeys \ {"enter", "esc", "ctrl+r"} :
        /\ prompt \in {"dest", "address", "id"} /\ Played(<<>>)
        /\ typed' = TRUE
        /\ UNCHANGED <<p, over, g, prompt, count, stream, asked>>

PlayEmit ==
    \E event \in {"stale", "refreshed", "lock", "lock-clear"} :
        /\ Played(<<>>)
        /\ p' = Emitted(in, p, event)
        /\ UNCHANGED <<app, stream, asked>>

\* resize, sleep, a wait or an assertion that holds, a screenshot written.
PlayOther ==
    /\ Played(<<>>)
    /\ UNCHANGED <<p, app, stream, asked>>

\* Mutant: an error leaves before the recording is written.
PlayFailsUnwritten ==
    /\ Playing
    /\ \E code \in {1, 3} : Ended(Wrote("empty", "error", code))
    /\ UNCHANGED tape

\* A wait that runs into its timeout (3), an assertion that does not hold or a
\* screenshot that cannot be written (1): the tape stops, the recording is
\* written, and the commands are not printed.
PlayFails ==
    /\ Playing
    /\ \E code \in {1, 3} : Ended(Wrote("empty", "error", code))
    /\ finalized' = in.record
    /\ UNCHANGED <<steps, frames>>

\* The tape is over: WriteRecordedCommands.
EndOfTape ==
    /\ phase = "tape"
    /\ Ended(Wrote("commands", "empty", 0))
    /\ finalized' = in.record
    /\ UNCHANGED <<steps, frames>>

-----------------------------------------------------------------------------
Driver == \/ LoadWorkspace \/ Startup \/ Submit \/ ReportRefusal \/ PassEvent
          \/ Invalidate \/ Deactivate \/ PushApply \/ PushRunner \/ OpenPrompt
          \/ Tick \/ ReadLine
          \/ \E op \in Mutations : Mutate(op)
          \/ \E op \in Operations : Terraform(op) \/ Record(op)
Live   == Wait \/ Deadline \/ PrintResult
Tape   == \/ Capture \/ PlayKey \/ PlayCancel \/ PlayYes \/ PlayEnter \/ PlayType
          \/ PlayEmit \/ PlayOther \/ PlayFails \/ EndOfTape
Next   == Refuse \/ Begin \/ Driver \/ Live \/ Tape

\* One goroutine runs the whole session: a step it can take, it takes.
Spec == Init /\ [][Next]_vars /\ WF_vars(Next)

-----------------------------------------------------------------------------
(* Properties *)

Over == phase = "ended"

\* Everything the session keeps has its type.
TypeOK ==
    /\ in \in Inputs
    /\ phase \in {"start", "run", "tape", "ended"}
    /\ \A q \in {p, g} : /\ q.status \in Statuses /\ q.timer \in BOOLEAN /\ q.channel \in BOOLEAN
                         /\ q.stale \in BOOLEAN /\ q.pending \in Applies \cup {"none"}
    /\ over \in Runners \cup {"apply", "none"}
    /\ prompt \in Prompts \cup {"none"} /\ typed \in BOOLEAN /\ count \in 0..2
    /\ lines \in 0..MaxLines /\ closed \in BOOLEAN
    /\ rounds \in 0..MaxRounds /\ steps \in 0..MaxSteps
    /\ frames \in 0..(MaxSteps + 1) /\ finalized \in BOOLEAN
    /\ touched \in BOOLEAN /\ out.exit \in 0..3

\* A macro generates commands and never runs one: whatever its keys open, and in
\* whatever directory, a session with --macro runs no terraform, not even for the
\* workspace's name; and neither does one refused before dispatch.
DryRunTouchesNothing == DryRun \/ Refused(in) => ~touched

\* Nothing is changed, and nothing written down for a shell to change, that was
\* not asked for: the n-th change is the n-th that the command line, a yes to a
\* prompt or to apply's own question, or the key A asked for. An apply fired by a
\* replan, a retry or a plugin activated again is no exception.
ChangesOnlyAsked ==
    \A k \in DOMAIN changes : k \in DOMAIN asked /\ changes[k] = asked[k]

\* What the command owes: a call for each address, and one for the rest.
Owed == IF in.verb \in StateCLI \cup Runners THEN Targets ELSE 1
\* output and version report no failure, init does nothing without a flag.
Candid == in.verb # "output" /\ (in.verb = "init" => in.flags)

\* The exit code tells what terraform did: a live 0 means that everything the
\* command asked for was done, nothing failed and a plan has no change; a live 2
\* means a plan with changes. In a dry run 0 means that the tape was played to its
\* end and the commands printed, and any other code that they were not.
ExitTellsOutcome ==
    Over /\ Candid =>
        /\ out.exit = 0 /\ ~DryRun => /\ worked = Owed /\ ~failed
                                      /\ in.verb = "plan" => p.data = "clean"
        /\ out.exit = 2 /\ ~DryRun => in.verb = "plan" /\ p.data = "changes" /\ ~failed
        /\ out.exit = 0 /\ DryRun  => out.stdout = "commands"
        /\ out.exit # 0 /\ DryRun  => out.stdout = "empty"

\* When terraform has failed, stdout is empty and the exit code is 1, and stderr
\* has terraform's error; or, of a version, only the driver's timeout. Left out are
\* the commands that report no failure, or print a document all the same.
FailureIsReported ==
    Over /\ failed /\ in.verb # "output" /\ ~(in.json /\ in.verb \in {"state"} \cup StateCLI) =>
        out = Wrote("empty", IF in.verb = "version" THEN "timeout" ELSE "error", 1)

\* A live command is settled as soon as its commands are run: the ten minutes
\* of the deadline are waited for only by a version that terraform failed.
SettlesWithoutDeadline == rounds > 0 => in.verb = "version" /\ failed

\* A dry run writes down every change that was asked for exactly once, in order,
\* for its list is piped to a shell: none is dropped by a replan or by a plugin
\* pushed and popped, and none is written twice, whichever of TapeKeys are played.
AskedRecordedOnce ==
    Over /\ DryRun => changes = asked

\* A recording has one frame for the start and one for every command that was
\* played, and it is written whether or not the tape failed.
RecordingIsComplete ==
    /\ Over /\ DryRun /\ ~Refused(in) =>
           /\ finalized = in.record
           /\ frames = IF in.record THEN steps + 1 ELSE 0
    /\ ~DryRun => ~finalized /\ frames = 0

\* The driver waits for a line of a stream no plugin has opened: the replan of
\* "plan -json", which a tape asks for with ctrl+r.
WaitsOnNoStream ==
    phase = "run" /\ agenda # <<>> /\ Head(agenda) = "lines" /\ ~p.channel /\ ~g.channel

\* Every session ends, whatever terraform answers and the tape holds, except
\* for that one.
SessionsEnd ==
    <>(Over \/ (WaitsOnNoStream /\ in.verb = "plan" /\ in.json /\ DryRun /\ steps > 0))

\* Documented: terraform's error on stderr, empty stdout, exit 1 - always.
DocFailureRows == Over /\ failed => out.exit = 1 /\ out.stderr = "error"

\* Documented: the commands of a tape are printed when the macro completes.
DocMacroCompletes == <>Over

=============================================================================
