# terraform-ui in TLA+

terraform-ui (`tfui`) is a terminal user interface around the `terraform`
command line. This directory holds a formal model of the parts of it where the
order of events matters, the configurations that model-check it with TLC, and
proofs checked with the TLA+ proof system (TLAPS).

Paths below are relative to `src/`. `PROJECT.json` maps every definition to the
lines it stands for, names a mutation that breaks each checked property, and
lists components, hazards and findings.

1. [The system](#1-the-system)
2. [The modules](#2-the-modules)
3. [The service: ServiceCache, ExecService](#3-the-service)
4. [The user interface: PlanPlugin, ApplyPlugin, ActionRunner, App](#4-the-user-interface)
5. [The logs: StreamLog](#5-the-logs)
6. [The state browser and the workspaces: StateView, WorkspaceView, Browser, ConfirmedEdits](#6-the-state-browser-and-the-workspaces)
7. [The change list: Tree, ChangeList](#7-the-change-list)
8. [Headless sessions and tapes: SessionPlugin, Session](#8-headless-sessions-and-tapes)
9. [Configuration: Settings](#9-configuration)
10. [Runs](#10-runs)
11. [Proofs](#11-proofs)
12. [Where the documentation and the code disagree](#12-where-the-documentation-and-the-code-disagree)
13. [What is left out, and what comes next](#13-what-is-left-out-and-what-comes-next)

## 1. The system

The program is a [BubbleTea](https://github.com/charmbracelet/bubbletea)
application. One goroutine runs `App.Update`, which takes one message at a
time and returns commands (`tea.Cmd`). BubbleTea runs every command in a goroutine of
its own and sends what it returns back to `Update` as a message. So the state of
the interface is never touched by two goroutines, but **messages arrive in any
order**, and a terraform run that takes minutes reports to an interface that has
moved on. The commands call a `Service`, which they share: there, goroutines
really do run concurrently.

### Components

| component | state it keeps | operations | talks to |
|---|---|---|---|
| `internal/terraform/exec` ExecService | a `ServiceCache`, the shared `DirLock` | one method per terraform command, `WithDir` | terraform (external), the plugins |
| `internal/terraform/exec/dir_lock.go` DirLock | a mutex per directory | `Acquire`, `Release` | every ExecService of the process |
| `internal/terraform/service_cache.go` ServiceCache | five entries, each with its source | seed, get, set, invalidate | ExecService, MacroService |
| `internal/ui/app.go` App | `activePlugin`, `navStack`, `activeInput`, the holder of the Context (working directory, pins, configuration) | `Update`, `handleKey`, `navigateTo`, `navigateBack`, `goHome`, `replaceContext`, `requireIdle` | all plugins, through messages, the `Busy`/`Cancel`/`Activate` interfaces and the event bus |
| `plugins/plan` | the view's status, `stale`, `pendingApply`, the temporary plan file, summary, lock info | plan, replan, pin, hand over to apply | service, apply (by `ApplyRequestMsg`), taint |
| `plugins/apply` | status, staged plan file, the stack of logs | confirm, apply, retry, show log | service, plan (by `PlanInvalidatedEvent`) |
| `plugins/taint`, `untaint`, `import`, `forceunlock` | a `pkg/sdk` ActionRunner each, a prompt | arm, start, report | service, plan |
| `plugins/chdir` | a list of members | pick (`ContextSwitchMsg`) | App |
| `plugins/state` | the list of resources, selection, one busy flag, one cancel function | list, show, rm, mv, taint, import, in batches | service, App |
| `plugins/workspace` | the list of workspaces | select, create, delete | service, App |
| `pkg/sdk/stack.go`, `pkg/sdk/frames/stream.go` | a stack of frames per view; per command a bounded channel of output lines and the log that shows them | push, pop, clear; write, close, wait for a line | plan, apply, init; App, which routes the lines |
| `internal/terraform/macro_service.go` MacroService | a log of commands, a seeded cache | every operation of the service, recorded instead of run | the plugins of a session with `--macro` |
| `internal/macro` | a tape, the driver's pending commands, frames | play, wait, capture, finalize | App, MacroService |
| `cmd/tfui` Session | the parsed command line, the plugin it activates | validate, seed, run, print, exit | App without a terminal, the driver |
| `internal/config`, `cmd/tfui/root.go`, `registry.go` | the root's `tfui.hcl`, the member's, the overrides | load, resolve, build the registry | App (`rebuildContext`), plan (`runPlan`) |
| `pkg/sdk/pins.go`, `pkg/sdk/ui/tree`, `pkg/sdk/ui/filter.go` | the pins of the Context; a tree's nodes, flattened rows and cursor | toggle, unfold, filter | plan, state |
| risk, phantom changes, blast radius, parsers, tally | none (pure) | — | plugins |

`PROJECT.json` lists them all, with what is modelled of each.

### What is hard, and what makes each part correct

*The service.* Goroutines share caches and directories. `StateList` and
`loadState` look at the cache outside the directory's mutex and do not look again
inside it; an explicit refresh invalidates outside it too; a plan is two commands over one
file; services made by `WithDir` have caches of their own but must share the
mutex. It is correct if terraform runs once at a time in a directory
(ADR-0016), reads see the service's own writes, a cache filled from terraform
never goes back in time, a plan reads the file it wrote, and nobody waits for
ever.

*The interface.* A busy plugin blocks nearly every command (`requireIdle`), so
a plugin that never stops being busy locks the program; and a plugin that stops
being busy too early lets a directory switch through under a running command.
Results carry no sender: a plan result is taken for the latest plan's, an
`actionResultMsg` by every runner. An apply may be *deferred* to a replan and
must then fire for that replan or never. Plan files are made in one plugin,
handed by message to another, and outlive the directory and the pins they were
made for. It is correct if busy flags have something to end them, a plan file
is applied only when the user asked for that one and only in its own
directory, and navigation stays rooted at the home screen.

*The lists.* What a row shows and what a key does to it are computed from five
pieces of state that change at different times: the plan's changes, the query,
the pinned-only switch, the unfolded modules and the pins, which are App's. The
rows are kept beside the nodes. It is correct if the rows are the right ones in
the right order, the list follows query and pins, and a mark tells what the key will do.

*The state browser.* Loads, details, removals and moves share one cancel
function, one flag and one error state; batches stop halfway; a workspace is
switched in terraform first and in the Context later, if the guard lets it. It is
correct if terraform's state loses only what the user agreed to lose, in that
directory, and the list on screen is the state's once everything is quiet.

*Sessions without a terminal.* A driver runs the commands of the interface one by
one in its own goroutine; commands that wait for each other would stop it. A dry
run goes through the same plugins as a live one. It is correct if it ends, tells
what happened by its exit code, runs nothing when it is dry and records all it would run.

*Configuration.* Three layers of files, read at different times, and flags. It is
correct if a plan gets the values of the layers that apply to it.

*Failure.* Every terraform command can fail, before or after it changed
something, and can be cancelled, which only makes it report an error later.
There is no crash recovery to model: nothing but terraform's own files is
persistent.

Each of these places is a hazard in `PROJECT.json`, at its line, with the
properties that cover it.

## 2. The modules

    ServiceCache ── ExecService ──┬── MCExecService      (TLC)
                                  └── ExecService_proofs (TLAPS)

    PlanPlugin ───┐
    ApplyPlugin ──┼── App ──┬── MCApp                    (TLC)
    ActionRunner ─┘         └── App_proofs               (TLAPS)

    StreamLog ── StreamLog_proofs                        (TLC, TLAPS)

    StateView ─────┬── Browser ──┬── MCBrowser           (TLC)
    WorkspaceView ─┘      │      └── BrowserTypes_proofs ── Browser_proofs (TLAPS)
                          └─implements─▶ ConfirmedEdits

    Tree ── ChangeList ──┬── MCChangeList                (TLC)
                         └── ChangeList_proofs           (TLAPS)

    SessionPlugin ── Session ── Session_proofs           (TLC, TLAPS)

    Settings ──┬── MCSettings                            (TLC)
               └── Settings_proofs                       (TLAPS)

Seven state machines, one for each place where the order of events matters. `ExecService`
looks at goroutines inside the service, one step per atomic action (a cache
operation under the cache's mutex, an acquisition, a command). `App` looks at
the messages between `Update` and the commands; a terraform run is one entry of
`runs` from its start to its end. What `ExecService` establishes (mutual exclusion
per directory, every call returns) is what `App` assumes of a run: it ends, at
an arbitrary time, with an arbitrary result. `App` does not serialise runs of
one directory, so it allows every order the mutex allows and more. `StreamLog` is the
side of a run that `App` leaves out: its output, from the command's goroutine through
a channel and `Update` to the log on the screen.

The other four look at one part each, with the rest reduced to the messages it can
send: `Browser` at the views that change terraform's state and workspace,
`ChangeList` at the list a plan is read in, `Session` at a run without a terminal,
where the order of commands is fixed and the inputs are not, and `Settings` at
where the options of a plan come from.

`PlanPlugin`, `ApplyPlugin` and `ActionRunner` hold what the plugins' handlers
make of the plugins' own state, as operators on a record; the actions of `App`
are the whole handlers: what `Update` does before it delegates, the plugin's part,
the plugins that an event on the bus reaches within the same step, and the
messages that go out. `StateView` and `WorkspaceView`, `Tree`, and `SessionPlugin`
stand to `Browser`, `ChangeList` and `Session` in the same way.

## 3. The service

### State

| variable | code |
|---|---|
| `lock[d]` | `DirLock.locks[dir]`, the mutex of a directory, by its holder |
| `cache[s]` | `ExecService.cache`; an entry is its source (`none`, `file`, `stdin`, `exec`) and a version of the state in place of the data |
| `backend[d]` | external: the version of the terraform state of a directory; every write makes a new one |
| `planOut[d]` | external: whose plan `<dir>/tfplan.out` holds |
| `pc`, `call`, `got` | where a goroutine is in its call, its operation and service, its answer so far |
| `acked`, `floor`, `seen` | history variables, only read by properties |

### Actions

`Call` starts an operation. A read goes through `ListResources` (StateList's
`GetResources`), `SkipCache` (the option's invalidation) and `LoadState`
(`GetState`) as far as the code does, and leaves with cached data, or queues
(`Acquire`). Under the mutex: `RunShow` then `Fill` for reads; `RunStateOp`
then `InvalidateCache` for state operations (state only) and Refresh, Init and
WorkspaceSelect (everything); `RunApply` for Apply and WorkspaceNew, which leave the
cache as it is; `RunPlan` then `ShowPlanFile` for a plan without a file of its own;
`RunQuery` for the rest. `RunFails` and `RunFailsHalfway` are an error before and after
terraform wrote. `Release` is the deferred unlock, `Return` the answer.
`StrangerWrites` is someone else using the same backend.

Operations that differ only in the terraform subcommand share a name: `StateOp`
stands for StateRm, StateMove, Import, Taint, Untaint; `AllOp` for Refresh, Init and
WorkspaceSelect; `Apply` also for WorkspaceNew; `Query` for Validate, Output,
Version, Workspace, WorkspaceList, WorkspaceDelete, ForceUnlock and the JSON
forms. `EmptyStates` are the versions with no resources, which `GetResources`
takes for a miss although `GetState` hits. A seed that is a file is read again on
invalidation and dropped if that fails: `readable` is that choice.

### Properties

`OneTerraformPerDir`, `ReadYourWrites`, `PlanReadsItsOwnFile`,
`StdinSeedNeverShellsOut`, `CacheNeverGoesBack` (an action property),
`EveryCallReturns` (liveness) and `SkipCacheReReads`, which holds while only
this program writes and fails otherwise (section 12).

*Fairness*: weak on a goroutine's steps — the Go scheduler runs what can run, and
a command ends, by itself or by cancellation — and strong on taking the mutex:
Go's `sync.Mutex` goes into starvation mode, where a waiter that keeps losing
is handed the mutex. Nothing is assumed of who calls or writes next. The calls
`EveryCallReturns` is about are those the run's `Workload` makes.

## 4. The user interface

### State

| variable | code |
|---|---|
| `active`, `navStack` | `App.activePlugin` (`"home"` for nil), `App.navStack` |
| `prompt` | `App.activeInput`: the verb whose confirmation has the keys |
| `dir`, `pins` | `holder.current.WorkingDir`, `.Pins`; the atomic replacement of the Context is one step |
| `plan`, `apply`, `verb` | the records of `PlanPlugin`, `ApplyPlugin`, and an `ActionRunner` for taint and forceunlock |
| `runs` | terraform commands running: whose, its number, the plan file given, the directory, cancelled or not |
| `msgs` | a bag: messages on their way to `Update`, in no order |
| `disk` | external: the temporary plan files that exist |
| `nextRun`, `made`, `intent`, `unlocked` | history: a fresh number per run, the directory and pins a plan was made for, what the user last asked of each plan file, whether a force-unlock succeeded |

A plan run, the temporary file `allocPlanFile` reserves for it and the summary it
returns carry one number, 0 standing for none.

### Actions

*Keys* (`User`): `Open` (menu, command line), `Quit` and `ClearLogs` (q),
the plan view's `PlanEsc`, `AskApply`, `ReplanAndApply` (a, A), `Refresh` (ctrl+r)
and `PlanKey` (pin, clear, taint, edit, unlock); the apply view's `EnterApply`,
`Confirm`, `Decline`, `ApplyKey`, `OpenLog`, `CloseLog`; the picker's
`PickMember`, `LeaveChdir`; `VerbKey`, `RetryTaint`, `RetryUnlock`; `AnswerYes`
and `AnswerNo` on a prompt. *terraform* ends runs: `PlanEnds`, `ApplyEnds`,
`ActionEnds`, with success (never for a cancelled run, nor for an apply whose
plan file is gone) or failure (a plan may still have left its file, and may report a held
lock). *Update* takes one message from the bag: a result
(`PlanFails`, `PlanSucceeds`, `ApplyReturns`, `ActionReturns`), a request that is
refused while something is busy (`Refused`) or else served (`TogglePins`,
`ClearPins`, `SwitchContext`, `FollowLink`), an event (`InvalidatePlan`,
`ClearLock`), or one that is served busy or not (`Deactivate`, `ShowPrompt`,
`RequestTaint`, `StartUnlock`, `HandOver`).

`Activate` is the shared tail: a view that is entered again may start a run
(`plan`) or ask for its prompt (`forceunlock`).

### Abstractions

- `untaint` and `import` are `taint` in other words (one prompt, one runner, the same
  event). forceunlock's entry of a lock id by hand is one prompt here.
- Frames that only show things are left out; the apply view's logs are
  kept because q and esc depend on them. A log ends with its run here; how it
  really ends is what `StreamLog` is about.
- An edit in `$EDITOR` is the one message its end sends.
- Activating the picker a second time pushes a second list (`plugins/chdir/chdir.go:57`), and the first esc
  then only takes that away; here esc always leaves.
- `PlanCompletedEvent`, `StateRefreshedEvent` and `LockDetectedEvent` update the
  header and other read-only views and are left out.
- `RetryTaint` without a spec: `Start` calls a nil function. The model starts a
  run of nothing there, so that what follows is still examined.

### Properties

`BusyHasRun`, `PendingOnlyWhileReplanning`, `ApplyWasAsked`,
`AppliesInItsOwnDir`, `HomeIsRoot`, the liveness property `BusyEnds`, and the five
statements of section 12 that are about it.

*Fairness*: every terraform command ends (per kind of command), and results are
delivered (BubbleTea's channel). Nothing is assumed of the user, who may do
nothing, and nothing of requests and events, which `BusyEnds` does not need.

### Attentive and hasty users

Requests and events reach `Update` within microseconds, keys come a hundred times
slower; results of terraform come whenever they come. With `Hasty = FALSE` a key
is pressed only when nothing but results is on its way: the user sees the screen
that their last key made. With `Hasty = TRUE` keys may overtake requests (keys pasted, or
replayed from a tape), and `BusyEnds` is checked. The safety properties are
checked for an attentive user only; for two of them that is needed: a request to apply that is
overtaken by a replan *and* a switch of directory would hand over a file of the old
directory.

## 5. The logs

`StreamLog` follows the output of plan and apply commands. A command writes to a
`LineWriter`, which offers each line to a channel and drops it if the channel is full.
`WaitForLine(ch)` is a command that takes *one* line and sends it to
`Update`; App hands it to the active view only, the view to the top frame of its
stack, and a `StreamFrame` that gets it shows it and asks for the next line *of its
own channel*. So reading is a chain through three parties, with nothing to restart
it, and neither message says which run it belongs to.

| variable | code |
|---|---|
| `left`, `closed` | the command's goroutine: lines to come; `LineWriter.closed` |
| `chan` | the channel of a run |
| `readers` | goroutines in `WaitForLine`, by channel |
| `lineMsgs`, `doneMsgs`, `results` | messages on their way to `Update` |
| `log`, `done` | `StreamFrame.lines`, `.done` |
| `stack`, `last`, `busy` | the view's stack (the plan view's without the list at its bottom), `lastStream`, whether its status is a running one |
| `active` | `App.activePlugin` |
| `view`, `nextRun` | which view started a run; a fresh number per run |
| `taken`, `strays` | history: what a channel took; which run's messages reached which other frame, or none |

`Write`, `End` (with `Close`) are the command's goroutine, `Receive` the goroutine
that waits, `UpdateLine`, `UpdateDone`, `UpdateResult`, `Reset` the messages,
`Start`, `Navigate`, `ShowLog` (l), `CloseLog` (esc), `ClearLogs` (q) the user. `Start` has the plan view
wait for its run to end; that `Activate` runs a plan that is stale although one is loading
(`plugins/plan/plan.go:222`) is left to `App`.

*Abstractions.* A line is its run and its number, counted from the end of the
output. One step writes one line; a `Write` with several is several steps. A run
that starts because a view is entered is a `Navigate` and a `Start`, with
messages in between that the code would handle after both. `Navigate` is not held
to `requireIdle`, since going home and back is not; a `Reset` of the plan view may
come at any time (an event from elsewhere). Init's log, which is wrapped in a frame of
its own, is not one of the views; nor is scrolling. The `ConfirmFrame` of a second
ctrl+c never opens in the interface, as `App.handleKey` takes ctrl+c to quit.

*Properties.* `LogIsFaithful`: a log to which no other run's message went shows an
initial part of what its channel took, and all of it when it is `done` — however
often it was closed, reopened and left meanwhile. `OutputEnds`: every command ends
although nobody reads its output, and no goroutine waits for ever. `LogEnds`: a log
learns that its command is over, unless a message of the run missed it. That
messages may miss it is what the code does: section 12.

*Fairness*: commands write and end, a goroutine that can receive does, BubbleTea
delivers stream messages. Nothing of the user, or of the order of results and lines.

## 6. The state browser and the workspaces

`Browser` composes the state browser (`StateView`), the workspace view
(`WorkspaceView`), the chdir picker and what `App` does with their messages, over
the terraform they run.

| variable | code |
|---|---|
| `active`, `navStack`, `prompt` | as in `App`; a prompt keeps its addresses, directory and service, as the closures of `requestDelete` and `requestMove` do |
| `ctx`, `pins` | `holder.current`: directory, workspace, and the number of the service `rebuildContext` made for it; its pins |
| `st`, `wv` | the two plugins, as records |
| `ops` | commands started and not over: kind, directory, service, what remains of a batch, cancelled or not |
| `msgs` | messages on their way to `Update` |
| `exists`, `selected`, `store` | external: the workspaces of a directory, the selected one, the resources in the state of each |
| `cache` | what each service has cached of the state |
| `nextOp`, `origin`, `confirmed`, `unclean` | history: a number per command; the place where the list shown was read; what the user agreed to lose, and where; whether a write ended in a way that leaves the list behind |

*Actions.* `Navigate`, `Leave`, `Quit` and the keys of the views (`StateKeys`,
`WorkspaceKeys`, `Answers`) are the user. `Run` is terraform: a read, one address of
a batch (`RemoveEach` is one step per address, since the mutex is given back
between two), a move, a switch; each can fail before or after it wrote. The operators
after *Messages received* are what `Update` makes of a result, a prompt, a change of pins, a switch
of Context, a `DeactivateMsg`, a plan made invalid. `Activate` is the tail they share.

*Abstractions.* A command runs terraform in one step: `ExecService` is where it
is shown that nobody else is in the directory meanwhile. Details, the tree, the cursor's
place and the panels are left out; the cursor may be on any row shown. Keys are
pressed when no message waits, while any number of commands run, and results come in any
order. Views not in the module count as home, and what they announce comes from there
(`Elsewhere`). Taint from the browser goes by `App` and is modelled there.

*Properties.* `ImplementsConfirmedEdits` is a refinement: with `agreed` mapped to
`confirmed`, every behaviour of `Browser` is one of `ConfirmedEdits`, whose only
steps are that the user agrees and that one resource they agreed to leaves a
state or is renamed in it. `ListIsCurrent`: once everything is quiet, the list
is that of the directory and workspace it was read in — not so after a
removal that failed halfway or outlived its Context, which `unclean` excludes, nor
for the answer of a load that had been cancelled (`origin` is empty). `WaitingHasRun`: whoever
waits, waits for a command there is. Two more statements do not hold (section 12).

*Bounds.* Two directories, two workspaces, two resources of which one matches the filter, three
commands, one switch of Context. Three commands are a removal, its reload and
something that overlaps both; two resources make a batch that stops halfway; a second
directory is the wrong one. 3.2 M states.

## 7. The change list

`ChangeList` is the plan plugin as its result is read: `Tree` is
`pkg/sdk/ui/tree`, the rest the filter, the pinned-only switch, the details and the
pins, which belong to `App` and change only when `Update` handles the request
a key sent. `App` (the module) looks at the same plugin for its runs; here a run is
only a result that will come.

| variable | code |
|---|---|
| `list` | `plan.Plugin`: status, `stale`, `summary.Changes`, `filter`, `pinnedOnly`, `treeMode`, `filtered`, `tree`, the address inspected, the frames |
| `home`, `pins` | whether the home screen is shown; `holder.current.Pins` |
| `running`, `requests` | plans that will send a result; requests on their way |
| `started`, `current` | history: plans started; whether the list is one that `SetFilter` computed, not one a result left as it came |

In `Tree` an address is the sequence of its segments, and a segment its rank among
the labels: `SplitTerraform` cuts an address, sorting is by label. The rows are a
variable, as `flattened` is a field: an operation that forgets to compute them
again would show. `WalkTree` is a recursive function.

*Actions*: one per key of the list, filter and inspect frames that changes what is listed or pinned
(not `l`, which shows the last log again, nor `!`, a palette of the same requests, nor the keys of App's
requests: A, t, T, e, u); `PlanCompletes`, which
lists every change whatever filter and switch say and asks for stale pins to be toggled;
`PlanFails`; `Refuse`, `TogglePins`, `ClearPins`, `GoHome` for requests; `Hear` for
other plugins' events; `SwitchContext`.

*Abstractions.* The score of a fuzzy match is a fixed order. Other plugins are
idle. A log ends with its run (`StreamLog` tells how it really ends).

*Properties.* `RowsAreExact` compares the rows kept with a definition of what
they should be that knows nothing of nodes and walking. `ListIsCurrent`: the list
follows query, switch and pins. `DetailIsListed`: space on a detail pins a
change of the plan on the screen. `MarkTellsGesture`: a module marked full is
emptied by space, any other is filled, unfolded or not.

*Bounds.* Two resources in a module of a module and one beside it; two queries; plans of
no, two and three changes; two plans; one request on its way when a key sends one
(results may add more). A pin can be stale, a group half pinned, a module
closed over a pin. 0.7 M states.

## 8. Headless sessions and tapes

`Session` is one run of `tfui <command>` without a terminal, from the parsed flags to
the exit code; `SessionPlugin` holds what the plugins do in one. There is one
goroutine and no race. What is hard here is the *number of cases*: fifteen verbs
(`state rm`, `mv`, `taint`, `untaint` and an unknown subcommand counted one each), flags,
seeds, failures, and tapes whose keys open prompts and push other plugins, in one protocol.

| variable | code |
|---|---|
| `in` | the command line: verb, `-json`, `-auto-approve`, flags of init, number of addresses, `--macro`, `--record`, `--plan`/`--state`, `--chdir`, a plugin that is disabled |
| `svc`, `bound` | the service the session made (`cmd/tfui/session.go:202`) and the one the plugins were given, a `WithDir` of it after `--chdir`: what kind each is, and what its cache was seeded with |
| `p` | the command's plugin: status, timer, last answer, front frame, whether it opened a stream, the plan's `stale` and `pendingApply` |
| `over`, `g` | a plugin pushed over it by a key, and its state: apply over the plan, taint, untaint or import over a list |
| `prompt`, `typed`, `count` | `App.activeInput`, whether its text was changed, how many addresses the question is about |
| `agenda` | the commands `syncDriver` has yet to run. It runs depth first: what a message's handler returns comes before the rest of the batch |
| `lines`, `closed` | the channel of the last run |
| `rounds` | ticks of `WaitUntil` |
| `steps`, `frames`, `finalized` | tape commands played, frames captured, recording written |
| `touched`, `changes` | terraform was run; the changes it made or, in a dry run, that `MacroService` wrote down |
| `asked`, `worked`, `failed` | history: the changes the command line, a key or an answer asked for; addresses done; a failure |
| `out` | stdout, stderr, exit code |

*Actions.* `Refuse` (arity, approval, plugin, tape, seeds, in that order), `Begin`; the
driver's commands (`Terraform` and `Mutate` if the plugins' service is an ExecService, `Record` if it is
a MacroService; `PushApply`, `PushRunner`, `OpenPrompt`, `Deactivate`, `Invalidate` for the
requests to App; `Tick`, `ReadLine`, `PassEvent` the rest); `Wait`, `Deadline`, `PrintResult`
without a tape; with one, `PlayKey` in a view, `PlayCancel`, `PlayYes`, `PlayEnter` and `PlayType` in a
prompt, `PlayEmit`, `PlayOther`, and `Capture`, `PlayFails`, `EndOfTape`.

*Abstractions.* What is printed is `empty`, `commands`, `summary` and the like, terraform's
`error` or the driver's `timeout`. A wait or assertion of a tape about the screen may hold or not.

The keys played are `TapeKeys`: y, n, enter, esc, ctrl+r, and the keys of the lists that ask App for
something: a, A, t, T of the plan, d, m, t, T, n of the state. Not played are

- the keys that move, filter, fold, pin or open a detail. They run nothing, and a detail or the
  pinned rows act on the other keys as the list does. That d, t and T go through *all* pinned rows is
  kept: `count` may be 2;
- l and q, after which a list shows a log that only scrolls; e, as no editor runs in the
  driver; u, which needs a lock error, and a recording service fails at nothing;
- keys on the home screen, where a tape gets by esc on the form of `init` only; backspaces in a prompt;
  the `!` and `:` of the interface, whose entries are the same requests.

Plugins other than the command's are taken as enabled. A command run on a terminal is not
modelled; its difference is that the user presses the keys.

*Properties.*

- `DryRunTouchesNothing`: no key of a tape and no directory gets a plugin a service that runs terraform, and App itself has none.
- `ChangesOnlyAsked` and `AskedRecordedOnce`: what is done or written down is what was asked for, one
  for one and in order, at each moment and (in a dry run, where nothing fails) at the end. Asking
  is the command itself, the yes to a prompt or to apply's question, a retry, and the key A of the plan
  list: `tfui plan --plan f --macro` whose tape presses A writes an `apply` with no further question
  (`plugins/plan/plan.go:1030`, `internal/ui/app.go:442`), and
  `tfui state rm a --state=s --macro` with ctrl+r, d, y writes a second `state rm`. What must not happen
  is a change nobody asked for: by a replan that fires its deferred apply again, by a plugin that is activated again
  when another is popped, by a `Start` that runs twice.
- `ExitTellsOutcome`, `FailureIsReported`, `SettlesWithoutDeadline`, `RecordingIsComplete` and, as
  liveness, `SessionsEnd`.

Several name the commands that do not keep the promise (`Candid`; a version that failed, of which
the driver reports its own timeout and terraform's error is lost; a replan under `plan -json`, which waits
for a line of a stream that was never opened): section 12.

*Fairness*: weak on `Next`: one goroutine, and terraform answers.
*Bounds*: six tape commands (a reload, a key, an answer to what it opened, a key there, and
two more; a deferred apply takes an emitted event, a or A, and y), two lines of output,
two ticks before the deadline. 262 thousand states.

## 9. Configuration

`Settings` follows the options of a plan from the files: `LoadRoot`, `LoadChild`,
`Resolve`, `matchWorkspace`, the registry that is built from them, the Context, and
`PlanOptions` when a plan is run.

| variable | code |
|---|---|
| `launch` | flags and `--config` overrides |
| `disk`, `selected`, `edits` | external: the `tfui.hcl` of each directory (absent, broken, or what it says), terraform's workspace there, how often someone edited a file |
| `phase` | start, refused, boot, the member picker, home, or a command |
| `root`, `child`, `registry`, `ctx` | `App.rootCfg`, `.childCfg`, the plugins built and their options, `holder.current` |
| `asked`, `busy`, `used` | switches on their way; a plan runs; the options of the last one |

The root's file is read once, a member's at each switch, by which time it may have been
edited. A member's file that holds a block of the root's, or does not parse, counts as no file.

*Properties.* `ResolveIsChain` states the resolution chain of
`docs/guides/configuration.md` directly — layers in order; files appended; a variable or an option
from the last layer that has one; of two matching workspace blocks the exact
one — and holds of `Resolve` for every pair of files and every workspace.
`SwitchReadsMember` is an action property: after a switch to a member, the
Context carries what the member's file says *then*, whatever was there before.
That the plan *run* carries it is another matter: section 12.

*Abstractions.* Paths and values are opaque, glob patterns a table. Which of
several `workspace select` commands ends first is left to `Browser`. At
most one switch is on its way.

*Bounds.* The project's directory and one member, each with any of six files (absent,
broken, a root, a root that takes a plugin away, a member with a glob block
before an exact one, a member with a bad block), two workspaces, one edit, five
command lines. 0.7 M states.

## 10. Runs

`PROJECT.json` lists these runs; all take less than three minutes with two workers
(`tlc -workers 2 -config <cfg> <module>`).

| run | what it shows | instance, and why it is enough |
|---|---|---|
| `exec_service` | types, mutual exclusion, read-your-writes, a plan's own file, the cache never goes back | 2 goroutines, root service (seeded from a file) and a `WithDir` child of one directory, every operation, states 0–2 with state 1 empty, strangers writing. Each property is about two goroutines and one cache, or two caches and one mutex; two writes are needed for an old and a new state to race. 4.6 M states |
| `exec_alone` | an explicit refresh is fresh while only this program writes; data from stdin serves every read without terraform | as `exec_service`, without strangers; the root is seeded from stdin, the child is not, so one service has an entry that must survive and the other one that must be re-read |
| `exec_liveness` | every call returns | 3 goroutines for one mutex, so that two wait; refreshes and state operations, which go through every wait there is |
| `app` | types, busy flags, the deferred apply, only asked-for plan files are applied, in their own directory, home is the root | plan, apply and chdir from the menu (taint and forceunlock by the plan view's keys), two directories, one address, 3 runs, navigation stack of 2, one message waiting when a key is pressed. A plan, a replan and the apply of either are 3 runs; two directories are a right and a wrong one. 2.1 M states |
| `app_hasty` | no plugin is busy for ever, with keys overtaking requests | plan, taint and forceunlock from the command line (one plugin with results of its own type and two that share one), 2 runs, one directory, fair |
| `stream_log` | types and capacities; unmixed logs are faithful; output ends, logs end | 2 runs, of one view or of two, of 0 or 2 lines each, a channel of 1: two lines overflow it, one run's lines can reach the other's log, a log can be reopened. Fair. 0.6 M states |
| `browser` | types, the browser implements `ConfirmedEdits`, its list is current, nobody waits for nothing | section 6 |
| `change_list` | types, rows, details, filter and pins, marks | section 7 |
| `headless` | types, dry runs, changes asked for, exit codes, failures, recordings; sessions end | section 8. Fair |
| `settings` | types, the resolution chain, a switch reads the member's file | section 9 |
| `doc_withdrawn_apply`, `doc_settings` | expected to fail: section 12 | as `app`, as `settings` |

The bounds: `MaxVersion` stops writes, `MaxRuns` the start of runs, `MaxDepth`
pushes on the navigation stack, `MaxWaiting` keys while more messages than that
wait. A step a bound forbids is one the bounded model does not explore; no
property depends on it being forbidden. In the later
modules it is `MaxOps`, `MaxSwitches` (commands and switches asked for), `MaxPlans`,
`MaxRequests` (keys that send), `MaxSteps`, `MaxLines`, `MaxRounds` (tape, output,
ticks) and `MaxEdits`. `CHECK_DEADLOCK FALSE` is set for `App`, `Browser`, `ChangeList`,
`Settings` and `Session`: in the first four, when a bound is used up and nothing is left to press, the bounded
model stops, as the program does when the user leaves; a session ends. That a session does
not stop before its end is `SessionsEnd`. In `exec_*` and `stream_log` deadlock is checked.

Symmetry is used on goroutines, in safety runs only.

Every property of a passing run has a mutant (in `PROJECT.json`): a plausible mistake in the code
that TLC finds to violate it, such as a `WithDir` with a lock of its own, a
cache filled after unlocking, an error that leaves `pendingApply` set, a switch
that keeps the staged file, a batch aimed at the pins of the moment it runs. The ones that need a
definition have it beside the one they change, under "Mutant".

## 11. Proofs

TLC explores one small instance of each module; the theorems here hold for every
value of the constants that satisfies the assumptions each module names. 37 of them are
listed in `PROJECT.json`; 35 state a property that a run checks. Every safety
property and every refinement of a passing run is proved; liveness is not.

### The service: `ExecService_proofs`

It proves, for any number of goroutines, services and
directories, any workload and any bound:

| theorem | statement |
|---|---|
| `TypeCorrect` | `Spec => []TypeOK` |
| `Invariance` | `Spec => []IInv` |
| `MutualExclusion` | `Spec => []OneTerraformPerDir` |
| `ReadsSeeOwnWrites` | `Spec => []ReadYourWrites` |
| `PlansReadOwnFile` | `Spec => []PlanReadsItsOwnFile` |
| `CacheMovesForward` | `Spec => CacheNeverGoesBack` |
| `RefreshIsFresh` | `~Strangers => (Spec => []SkipCacheReReads)` |
| `StdinServesReads` | `Spec => []StdinSeedNeverShellsOut` |

*Assumptions*: `ServicesAssumption` (the root is a service, each service has a
directory, `Nobody` is not a goroutine, the workload is of operations there are) and
`EmptyStatesAssumption`. TLC evaluates both in every run.

*The invariant.* None of the properties is inductive: that two goroutines are not
both past `Acquire` says nothing unless both are known to be the recorded holder.
`IInv` is `TypeOK` and, of every goroutine and service:

- `PlaceInv`: who is past `Acquire` is the recorded holder of the directory's
  mutex; only reads look at the cache, only writers invalidate it. From this,
  `MutualExclusion` at once.
- `AnswerInv`: `floor <= acked`, and an answer from terraform is at least `floor`.
  At `fill` — after `show` and before the cache is written — the answer is between
  what is acknowledged and the directory's state, and *no older than what is cached*:
  this is what the mutex gives, as whoever could make either newer is held out.
- `PlanInv`: between its two commands a plan's file is its own.
- `CacheInv`: a cached state from terraform is no older than what the service has
  acknowledged and no newer than the directory's. Hence a cached read, outside the
  mutex, still sees the service's writes.

`CacheMovesForward` follows from `AnswerInv` at `fill`; invalidation removes an
`exec` entry and creates none (`InvalidatedState`). `RefreshIsFresh` adds
`AloneInv`: without strangers, every state of a directory is written under the
mutex, so `show`'s answer is *equal* to the directory's state at `fill`, and any refill
of the cache after a refresh began is at least as new as the refresh requires.
The absence of `Strangers` is really needed: `DocRefresh` is the
counterexample with them. `StdinServesReads` needs an invariant of its own, `StdinInv`:
no step of any goroutine replaces or empties the state given on stdin, and so a
read of that service returns with it before it queues for the mutex.

### The logs: `StreamLog_proofs`

It proves, for channels of any capacity, commands of any length
and any number of them (`StreamAssumption`):

| theorem | statement |
|---|---|
| `TypeCorrect` | `Spec => []TypeOK`, no channel over its capacity among it |
| `Invariance` | `Spec => []IInv` |
| `FaithfulLogs` | `Spec => []LogIsFaithful` |

*The invariant.* That a log is an initial part of what its channel took is not
inductive: what comes next must be the line after it. `ChainInv` says where that line
is. For every unmixed log there is at most one link — a goroutine that
waits (`Waits`), the next line on its way (`Carries`), or the message that there are
no more (`Finishes`), or nothing, for good (`Quiet`) — and the channel holds exactly
what comes behind it. A log that is `done` has no link. `ChanInv` (a channel holds lines
of its own run), `UntouchedInv` (nothing is under way for a run that has not
started) and `FrameInv` (only started runs have frames on a stack) support it.
Each step is either one of the run itself, with a lemma that moves the link
(`CommandChain`, `ReceiveChain`, `LineChain`, `DoneChain`, `StartChain`), or leaves
everything about the run alone (`Same`); `StaysMixed` shows that a stray message
to a frame ends the obligation for good.

### The interface: `App_proofs`

For any directories, addresses and menus, any number of runs, any depth of the
navigation stack and any number of messages waiting (`AppAssumption`):

| theorem | statement |
|---|---|
| `AppTypesCorrect` | `Spec => []TypeOK` |
| `HomeStaysRoot` | `Spec => []HomeIsRoot` |
| `DeferredEndsWithReplan` | `Spec => []PendingOnlyWhileReplanning` |
| `BusyPluginsHaveRuns` | `Spec => []BusyHasRun` |
| `AppliesWereAsked` | `~Hasty => (Spec => []ApplyWasAsked)` |
| `AppliesStayInDir` | `~Hasty => (Spec => []AppliesInItsOwnDir)` |

*The invariant.* `Typed` is `TypeOK` and the order of numbers: a plan file that a
plugin, a run or a message refers to is that of a run started before. The first four
theorems need nothing else; `BusyHasRun` is inductive because no step both ends a
run and leaves its plugin busy, which takes a look at every action, as results
of one type end every runner.

The last two are about what the user meant, and need `Attended`: `Typed`,
`PendingOnlyWhileReplanning`, and

- `Ordered`: while an apply waits for a replan the user is on the plan view or has gone
  home, and no message is on its way that would take over (a request to taint,
  apply or switch); a request to apply never waits beside a switch of directory;
- `Asked`: the plan an apply waits for is one the user asked to apply;
- `Homed`: every plan file still referred to, whether shown, staged, on its way or
  being applied, was made in the directory it is for.

`Ordered` is what an attentive user gives, and why `~Hasty` is assumed: a key is
pressed when nothing but results waits, so two requests never wait together. `Hasty` users do break
`AppliesInItsOwnDir`, section 4.

### The state browser: `BrowserTypes_proofs`, `Browser_proofs`

For any directories, workspaces and resources, any number of commands and switches
(`BrowserAssumption`):

| theorem | statement |
|---|---|
| `TypesCorrect` | `Spec => []TypeOK` |
| `WaitingIsHeard` | `Spec => []WaitingHasRun` |
| `BrowserImplementsConfirmedEdits` | `Spec => ImplementsConfirmedEdits` |
| `ListStaysCurrent` | `Spec => []ListIsCurrent` |

*The invariants.* `Types` is `TypeOK` and what keeps it: the list is the lowest
frame, at most one resource is inspected. `Bounded` says that the services in use,
those of the switches under way and the one a prompt may lead to are within the
bound, so that every switch finds a service of its own.

*The refinement* needs `AgreedFirst`: a question that has the keys, or is on its way to
them, is about the directory of the Context, for as long as it is not answered (no switch under
way leads elsewhere); and what remains of each removal or move is confirmed for
its directory. With it, initial states map to initial states; the answer yes is
`Agree`, one address of a batch is `Lose` or `Rename`, and everything else leaves
terraform's state alone, a stutter.

*The list.* `ListIsCurrent` compares the list with terraform's state, which
a removal changes long before the list is read again. `Trusted` follows the rows
back to where they come from: caches of the service in use hold what is in the
state (`CacheTrue`), reads that are not cancelled will find no other
(`ReadsTrue`), results on their way bring it (`ListTrue`), and the rows shown are it
unless a mutation has written and the browser has not heard (`RowsTrue`,
`Written`). All that is thrown away in time because at most one uncancelled
command of the browser runs (`OneUncut`), every list that waits while a mutation runs was
cancelled (`NoStale`), and reads ask a service there has been (`Under`,
`Unserved`). Each is inductive only with the rest.

### Sessions: `Session_proofs`

For tapes, outputs and deadlines of any length (`BoundsAssumption`):

| theorem | statement |
|---|---|
| `SessionTypesCorrect` | `Spec => []TypeOK` |
| `RecordingsComplete` | `Spec => []RecordingIsComplete` |
| `DryRunsTouchNothing` | `Spec => []DryRunTouchesNothing` |
| `OnlyAskedChanges` | `Spec => []ChangesOnlyAsked` |
| `AskedListedOnce` | `Spec => []AskedRecordedOnce` |
| `SettlesAtOnce` | `Spec => []SettlesWithoutDeadline` |
| `FailuresReported` | `Spec => []FailureIsReported` |
| `ExitsTellOutcomes` | `Spec => []ExitTellsOutcome` |

*The invariants.* The driver is depth first, and so the shape of the agenda carries the
argument: it is harmless commands with at most one that matters among them (`Carries`). Lemmas about
sequences (`CarriedBefore` and its kin) say how that shape passes from a list to its tail and to what a
handler puts before it.

- `Sound` is the types (`Shown`, `Counted`), the phases (`Phased`), the recorder's count of frames (`Framed`), and
  `Wired`: App and its plugins hold services of the kind the command line called for. From `Wired` and the driver, which
  runs terraform only by an ExecService, follows `DryRunsTouchNothing`.
- `Balanced`: either nothing is owed (`Even`: the agenda is harmless, what was changed was asked for and, in a dry run,
  the reverse), or the agenda carries one command that matters and `asked` is `changes` and what that command owes (`Owing`),
  or an apply was asked for by A and waits for the replan at the head, which will fire it (`Deferred`). `Seeds` says that a recorded
  plan has changes only where a plan was seeded, so that this replan cannot come back without.
- `Alone` and `Answering`, of a live session, which no key interrupts: before the command's operation it is `Opening`,
  then `Awaiting`, having neither done nor failed at anything; when nothing is left to run it
  stands in one of four ways (`Outcome`: failed and showing it, done in full, an answer or command line that cannot be
  read, an `init` without anything to do), and what it prints and the exit code are those of
  that way (`Reported`).

### The change list: `ChangeList_proofs`

For any finite plan or list of addresses, none of which continues another, any queries, scores
and pins (`TreeAssumption`, `ChangeListAssumption`: an order lists each address once, which
leaves out a deposed object beside the one that replaces it):

| theorem | statement |
|---|---|
| `ListTypes` | `Spec => []TypeOK` |
| `DetailsAreListed` | `Spec => []DetailIsListed` |
| `ListFollows` | `Spec => []ListIsCurrent` |
| `RowsShown` | `Spec => []RowsAreExact` |
| `MarksTell` | `Spec => []MarkTellsGesture` |

*The rows.* `WalkTree` is a recursive function over the paths of a tree, and TLA+ chooses some
function that satisfies the equation, if there is one. `WalkExists` builds it from the
longest paths up, as a module's walk asks for longer paths only. `WalkLists` and `WalkIsExact` say
what it lists, by a longest path for which it would not: under each path, the modules and
addresses that extend it and are not below a closed module, each once, in order.
`RowsAreExact` speaks of ranks where the walk sorts a level at a time; `ByLabelSorts` and
`FlattenSorts` connect them.

*The invariants.* `Followed`: the list is `Sound`, and follows query, switch and pins as long as
`SetFilter` made it. `Sound` has the shape of the plugin (`Shaped`), in which the tree is
`Grown`: its items are listed once, its rows are those of a walk of it *as it is now*, the cursor is
on one of them; and that what is listed, shown or pinned from a detail is of the plan
(`Listed`, `Standing`, `Detailed`). Each operation of the tree ends with new rows
or leaves alone what they were made of. `Counted` bounds plans and requests. `MarkTellsGesture` then follows
of any tree: the mark counts the pinned addresses under a module, as the gesture does.

### Configuration: `Settings_proofs`

For any directories, files, command lines and workspaces. `SettingsAssumption`: a file that
can be read names directories there are and a number for parallelism, and so do the flags; its
workspace blocks are a sequence; a workspace has a name, which as a pattern matches itself (a
name terraform accepts has no character that is special to `filepath.Match`).

| theorem | statement |
|---|---|
| `SettingsTypesCorrect` | `Spec => []TypeOK` |
| `SwitchesReadMember` | `Spec => SwitchReadsMember` |
| `ChainResolved` | `Spec => []ResolveIsChain` |

*The invariants.* `Settled`: the members of the root, the requests under way and the
Context are made of those directories, whatever was edited since they were
read; a plan runs only with options it was given. `Rooted`: the root's file has brought no
variables.

*The chain.* `ResolvesChain` is an equation of operators, for every root, file and workspace.
`MatchIsBest` follows the loop of `matchWorkspace`: after each block `Found` says which exact
and which glob match it has seen, and at the end its choice is the one block the guide prefers. So
there are one, two or three layers (`LayersAre`); `Resolve` merges them from the first to the last
(`ResolveLayers`), and the chain takes the files of all in their order and everything else from
the last layer that sets it (`FilesInOrder`, `VarsOfLast`, `OptionOfLast`), which is the same.

### What stays with TLC

Liveness only: `EveryCallReturns`, `BusyEnds`, `OutputEnds`, `LogEnds`, `SessionsEnd`. Fairness
and ENABLED are beyond the prover. (And, of course, what a run expected to fail shows.)

### What the proofs changed

The proofs made some changes to the model. A command that a switch of Context
starts runs under the new Context (`Browser.Cmd`; `internal/ui/app.go:305`): with the old
one, a reload would have asked a service that is gone. Conditions of `SessionPlugin`,
`Session` and `Settings` that overlapped in a CASE, where TLA+ leaves the choice
open, are now taken in the order of the code. `AskedRecordedOnce` says what is
written down at every end, not only at some. Three definitions say the same in a form the provers
read: `Tree.ByLabel` sorts by ranks, `Settings.MatchWorkspace` is the loop as a recursive
function, and `Settings.Over` copies one map into another.

## 12. Where the documentation and the code disagree

Two runs each check one statement of a document or comment of the repository
and find it violated; the finding in `PROJECT.json` quotes the line and tells the
story of the counterexample.

| run | the statement | what happens |
|---|---|---|
| `doc_withdrawn_apply` | an aborted replan never fires its apply (`plugins/plan/plan.go:1061`) | the result is handled before esc's `DeactivateMsg` |
| `doc_settings` | a plan is run with what the chain root, member, workspace block, flags resolves to (`docs/guides/configuration.md:106`) | the Context made at boot carries nothing of `tfui.hcl`, and a command never leaves it |

Nine more configurations do the same for other statements. They are not part of
the runs above; each is run by hand with its module and ends in a counterexample.

| configuration, module | the statement | what happens |
|---|---|---|
| `DocRefresh`, `MCExecService` | SkipCache re-reads from the backend | another read fills the cache between the invalidation and the look-up |
| `DocStrandedRun`, `MCApp` | a switch never strands a running command | an event resets a loading plan plugin; it is idle, its run is not |
| `DocMatchesPins`, `MCApp` | the plan file matches the pins | a staged file survives a change of pins |
| `DocRetry`, `MCApp` | a failed apply can be retried with its file | the reference is dropped on failure too |
| `DocUnlock`, `MCApp` | a plugin handles only its own results | a taint's success announces a cleared lock |
| `DocWorkspace`, `MCBrowser` | each member has a workspace of its own | picking a member switches the Context to `default`, whatever terraform has selected there |
| `DocFailureRows`, `Session` | terraform's error on stderr, exit 1, always | `tfui output` prints an empty result and exits 0 |
| `DocMacroCompletes`, `Session` | the commands of a tape are printed when it completes | ctrl+r under `plan -json` waits for a line of a stream nobody opened |
| `DocPinnedView`, `MCChangeList` | the pinned-only list is derived from the pins | a plan's result lists every change |

None of these statements is assumed anywhere else.

Smaller ones, which reading the code shows and the model follows without a run
of their own.

*Plan and apply.* `startReplan` leaves `stale` set, so a fresh plan is planned
again instead of handed over (`plugins/plan/plan.go:1044`); enter and y on `:apply`
run terraform without a plan file (`plugins/apply/apply.go:407`); every replan
leaves a temporary file behind (`plugins/plan/plan.go:336`); leaving for home while
anything is busy keeps the pins (`internal/ui/app.go:258`); going back to a
view, or handing over to apply, starts a run without `requireIdle`
(`internal/ui/app.go:352`); another runner's failure brings a runner that was never
armed to its error state, where ctrl+r starts it (`pkg/sdk/action_runner.go:175`).

*Logs.* A log whose last message came after the result, or while the user was elsewhere,
never becomes `done`: reopened with `l` its chain is not resumed, its hint stays
"^c cancel" and esc does not close it, though `docs/reference/tui-ux.md:238` says
"`Esc back` when done"; and lines of an older run that is still going are shown in the log on top
(`internal/ui/app.go:495`).

*Change list.* After the first plan the frames are two lists, so q must be pressed
twice to go home. q on a filter clears the frames and leaves the filter's switch on. `q`, `:`
and `C` cannot be typed into a filter, since `App` takes them. `pruneStalePins`
(`plugins/plan/plan.go:583`) toggles: served after a `PinClear`, it pins again what it was to
remove; and it removes the last pin of a targeted plan, so that the next `a` plans without targets.

*State browser.* `mutating` is one flag for all commands: the end of a load or an
earlier removal clears it while another removal runs. A browser that is reset
while it is on screen stays empty and idle until a key reloads it. (`BusyWhileMutating`
and `ActiveIsNeverIdle` in `Browser` state the opposite and do not hold.)

*Sessions.* `tfui state` with `-json` prints `[]` when terraform fails; a failed
`tfui version` waits the ten minutes of the deadline and then prints "timeout after ..."
(`internal/macro/driver.go:68`), where `docs/reference/cli-io-contract.md:99` promises terraform's error;
a plan seeded with `--plan` is run all the same, as only a dry run's `Plan` asks the cache
(`internal/terraform/exec/service.go:86`), though `docs/reference/cli-io-contract.md:121` has it read from there; `tfui init` without flags runs
nothing and reports success, though `docs/reference/cli-reference.md:160` has it run;
`validate -json` loses the document of an invalid configuration, as terraform exits with 1;
with `--chdir` the data of `--plan` and `--state` are dropped with the service they were
put in; `tfui apply -lock=...` is documented and not passed on (`internal/terraform/exec/service.go:134`);
`--record` is ignored without a tape.

*Configuration.* Plugin blocks of a member or workspace never reach the registry,
which is built once from the root's; one without `enabled` counts as enabled and so
undoes the root's `enabled = false` in `Resolve`. A workspace switch after a start with
`basedir` goes to the project's directory and keeps the child configuration it had
(`internal/ui/app.go:297`). The variables and files of the layers are resolved into the Context
by a switch only, and the switch at startup takes the block of `default`, whatever
terraform's workspace is. A workspace block with an unknown attribute loses all its settings without a message.

## 13. What is left out, and what comes next

Not modelled, for good:

- rendering, key help, panels, the timer's text, the home screen's and the header's
  widgets, logging, the editor, the AI explanation, scaffolding: no state that another
  part depends on, or input and output only;
- the conversion of terraform's JSON and HCL and the text of fuzzy scores, which table
  tests cover well, and the reading of tapes, seeds and URIs;
- risk, phantom changes, blast radius and the apply tally: pure functions of one
  plan or one line of output, without an order of events in them. Their reference definitions
  would restate them.

Partly modelled: a command on a terminal (`SessionPlugin` has its plugin, but the user's
keys are only those of a tape); the init form and the console, whose logs are those of
`StreamLog`; the views that only read.

Next, in this order:

1. **Abstract specifications** of what plan and apply promise together (a plan
   file is made, asked for, applied at most once, dropped), with `App` shown to implement
   it; and of the service (a register whose reads see acknowledged writes).
2. **Pure algorithms** against reference definitions: `Pins.Toggle` on sequences, risk,
   the blast radius.
