----------------------------- MODULE StreamLog -----------------------------
(***************************************************************************)
(* The output of a terraform command on its way to the screen:             *)
(* pkg/sdk/frames/stream.go, pkg/sdk/stack.go, and what the plan plugin,   *)
(* the apply plugin and App do with them.                                  *)
(*                                                                         *)
(* A command writes to a LineWriter, which splits its output into lines    *)
(* and offers them to a channel.  WaitForLine is a command that takes one  *)
(* line from the channel and sends it to Update as a message; App gives it *)
(* to the active view, that view to the top frame of its stack, and only   *)
(* a StreamFrame that gets it asks for the next line of its own channel.   *)
(*                                                                         *)
(* A run, its channel and its frame carry one number.  Of the plan view's  *)
(* stack only the logs above its list are kept.  Neither message says      *)
(* which run it comes from: `of' is read by the history variable alone.    *)
(* The apply view's preview of a plan is one of its runs.                  *)
(***************************************************************************)
EXTENDS Naturals, Sequences, SequencesExt

CONSTANTS
    Capacity,     \* lines a channel holds (256)
    Lengths,      \* the numbers of lines a command may write
    MaxRuns       \* bound on the commands started

ASSUME StreamAssumption ==
    /\ Capacity \in Nat \ {0}
    /\ Lengths \subseteq Nat
    /\ MaxRuns \in Nat

Runs  == 1 .. MaxRuns
Views == {"plan", "apply"}
Elsewhere == "elsewhere"      \* home, and the views without a stream
None  == 0

Line == Runs \X Nat           \* a line, by the run that writes it

VARIABLES
    nextRun,    \* the number of the next run
    view,       \* the view that started a run
    left,       \* lines a command has yet to write
    chan,       \* the lines in the channel
    closed,     \* the LineWriter is closed
    readers,    \* WaitForLine goroutines on a channel
    lineMsgs,   \* StreamLineMsgs on their way: the reader's channel, the line
    doneMsgs,   \* StreamDoneMsgs on their way, by channel
    results,    \* runs whose result is on its way
    log,        \* StreamFrame.lines
    done,       \* StreamFrame.done
    stack,      \* the logs on a view's stack
    last,       \* lastStream
    busy,       \* the view's status is Loading (Planning)
    active,     \* activePlugin
    taken,      \* history: the lines a channel has taken, in order
    strays      \* history: <<r, f>>, a message of run r reached frame f # r

pipes   == <<left, chan, closed, taken>>
frames  == <<log, done>>
nav     == <<stack, last, busy, active>>
vars    == <<nextRun, view, pipes, readers, lineMsgs, doneMsgs, results,
             frames, nav, strays>>

-----------------------------------------------------------------------------
(* The LineWriter, in the goroutine of the command *)

\* Mutant: the channel has no limit.
OfferUnbounded(r, l) ==
    /\ chan' = [chan EXCEPT ![r] = Append(@, l)]
    /\ taken' = [taken EXCEPT ![r] = Append(@, l)]

\* A full channel takes no more lines: Write drops them and does not block.
Offer(r, l) ==
    IF Len(chan[r]) < Capacity
    THEN /\ chan' = [chan EXCEPT ![r] = Append(@, l)]
         /\ taken' = [taken EXCEPT ![r] = Append(@, l)]
    ELSE UNCHANGED <<chan, taken>>

Running(r) == r < nextRun /\ ~closed[r]

\* The line that run r writes next, numbered from the end of its output.
NextLine(r) == <<r, left[r]>>

\* One line of Write; a call with several is as many steps.
Write(r) ==
    /\ Running(r)
    /\ left[r] > 0
    /\ left' = [left EXCEPT ![r] = @ - 1]
    /\ Offer(r, NextLine(r))
    /\ UNCHANGED <<nextRun, view, closed, readers, lineMsgs, doneMsgs, results,
                   frames, nav, strays>>

\* Mutant: the command's goroutine does not close the LineWriter.
CloseForgotten(r) == UNCHANGED closed

\* Close flushes a last line that had no newline, then closes the channel.
Close(r) == closed' = [closed EXCEPT ![r] = TRUE]

\* The command is over, the goroutine closes the writer and sends the result.
End(r) ==
    /\ Running(r)
    /\ r \notin results
    /\ \/ left[r] = 0 /\ UNCHANGED <<left, chan, taken>>
       \/ /\ left[r] = 1
          /\ left' = [left EXCEPT ![r] = 0]
          /\ Offer(r, NextLine(r))
    /\ Close(r)
    /\ results' = results \cup {r}
    /\ UNCHANGED <<nextRun, view, readers, lineMsgs, doneMsgs, frames, nav, strays>>

-----------------------------------------------------------------------------
(* WaitForLine, in a goroutine of its own *)

Receive(r) ==
    /\ readers[r] > 0
    /\ readers' = [readers EXCEPT ![r] = @ - 1]
    /\ \/ /\ chan[r] # <<>>
          /\ lineMsgs' = lineMsgs \cup {Head(chan[r])}
          /\ chan' = [chan EXCEPT ![r] = Tail(@)]
          /\ UNCHANGED doneMsgs
       \/ /\ chan[r] = <<>> /\ closed[r]
          /\ doneMsgs' = [doneMsgs EXCEPT ![r] = @ + 1]
          /\ UNCHANGED <<lineMsgs, chan>>
    /\ UNCHANGED <<nextRun, view, left, closed, taken, results, frames, nav, strays>>

-----------------------------------------------------------------------------
(* Update: messages *)

\* The frame a stream message reaches: the top one of the active view, if it
\* is a log (0 if not; the plan view's list ignores the message).
Reached == IF active \in Views /\ stack[active] # <<>> THEN Last(stack[active]) ELSE None

Stray(r, f) == strays' = IF f = r THEN strays ELSE strays \cup {<<r, f>>}

WaitForLine(f) == readers' = [readers EXCEPT ![f] = @ + 1]

\* Mutant: a line does not make the frame ask for the next one.
LineIsTheLast(f, l) ==
    /\ log' = [log EXCEPT ![f] = Append(@, l)]
    /\ UNCHANGED readers

\* StreamFrame.Update of a line: the next one comes from the frame's own channel.
ShowLine(f, l) ==
    /\ log' = [log EXCEPT ![f] = Append(@, l)]
    /\ WaitForLine(f)

UpdateLine(l) ==
    /\ l \in lineMsgs
    /\ lineMsgs' = lineMsgs \ {l}
    /\ IF Reached # None THEN ShowLine(Reached, l) ELSE UNCHANGED <<log, readers>>
    /\ Stray(l[1], Reached)
    /\ UNCHANGED <<nextRun, view, pipes, doneMsgs, results, done, nav>>

UpdateDone(r) ==
    /\ doneMsgs[r] > 0
    /\ doneMsgs' = [doneMsgs EXCEPT ![r] = @ - 1]
    /\ done' = IF Reached # None THEN [done EXCEPT ![Reached] = TRUE] ELSE done
    /\ Stray(r, Reached)
    /\ UNCHANGED <<nextRun, view, pipes, readers, lineMsgs, results, log, nav>>

\* Stack.Clear: all frames but the bottom one, which is the list in the plan view.
Cleared(v, s) == IF v = "plan" THEN <<>> ELSE SubSeq(s, 1, IF s = <<>> THEN 0 ELSE 1)

\* A result is broadcast; its view takes whatever logs it shows off the screen.
UpdateResult(r) ==
    /\ r \in results
    /\ results' = results \ {r}
    /\ busy' = [busy EXCEPT ![view[r]] = FALSE]
    /\ stack' = [stack EXCEPT ![view[r]] = <<>>]
    /\ UNCHANGED <<nextRun, view, pipes, readers, lineMsgs, doneMsgs, frames,
                   last, active, strays>>

\* The plan plugin's reset, on an event: a run that goes on is forgotten.
Reset ==
    /\ busy' = [busy EXCEPT !["plan"] = FALSE]
    /\ stack' = [stack EXCEPT !["plan"] = Cleared("plan", @)]
    /\ last' = [last EXCEPT !["plan"] = None]
    /\ UNCHANGED <<nextRun, view, pipes, readers, lineMsgs, doneMsgs, results,
                   frames, active, strays>>

-----------------------------------------------------------------------------
(* Update: keys, and what they lead to *)

\* runPlan, runPlanPreview, runApply.  The plan view waits for its run to end,
\* the apply view starts another when it is handed a plan file.
Start(v) ==
    /\ nextRun \in Runs
    /\ v = "plan" => ~busy[v]
    /\ nextRun' = nextRun + 1
    /\ view' = [view EXCEPT ![nextRun] = v]
    /\ \E n \in Lengths : left' = [left EXCEPT ![nextRun] = n]
    /\ WaitForLine(nextRun)
    /\ stack' = [stack EXCEPT ![v] = Append(Cleared(v, @), nextRun)]
    /\ last' = [last EXCEPT ![v] = nextRun]
    /\ busy' = [busy EXCEPT ![v] = TRUE]
    /\ active' = v
    /\ UNCHANGED <<chan, closed, taken, lineMsgs, doneMsgs, results, frames, strays>>

\* The user goes to another view; a run that starts there is a step of its own.
GoTo(v) ==
    /\ active' = v
    /\ UNCHANGED <<nextRun, view, pipes, readers, lineMsgs, doneMsgs, results,
                   frames, stack, last, busy, strays>>

Navigate == \E v \in Views \cup {Elsewhere} : v # active /\ GoTo(v)

\* Mutant: the log asks for a line when it is opened.
OpenLogAndWait(v) ==
    /\ stack' = [stack EXCEPT ![v] = Append(@, last[v])]
    /\ WaitForLine(last[v])

OpenLog(v) ==
    /\ stack' = [stack EXCEPT ![v] = Append(@, last[v])]
    /\ UNCHANGED readers

\* l, when the view shows no log.  (The apply view ignores it after a refusal too,
\* which is not told apart here from waiting for an answer.)
ShowLog(v) ==
    /\ active = v
    /\ stack[v] = <<>>
    /\ last[v] # None
    /\ v = "apply" => ~busy[v]
    /\ OpenLog(v)
    /\ UNCHANGED <<nextRun, view, pipes, lineMsgs, doneMsgs, results, frames,
                   last, busy, active, strays>>

\* esc on a log that is done; the apply view is left with its last frame.
CloseLog(v) ==
    /\ active = v
    /\ stack[v] # <<>>
    /\ done[Last(stack[v])]
    /\ stack' = [stack EXCEPT ![v] = Front(@)]
    /\ IF v = "apply" /\ Len(stack[v]) = 1
       THEN active' \in {"plan", Elsewhere}
       ELSE UNCHANGED active
    /\ UNCHANGED <<nextRun, view, pipes, readers, lineMsgs, doneMsgs, results,
                   frames, last, busy, strays>>

\* q with frames above the bottom one; with none it is a Navigate.
ClearLogs(v) ==
    /\ active = v
    /\ Cleared(v, stack[v]) # stack[v]
    /\ stack' = [stack EXCEPT ![v] = Cleared(v, @)]
    /\ UNCHANGED <<nextRun, view, pipes, readers, lineMsgs, doneMsgs, results,
                   frames, last, busy, active, strays>>

-----------------------------------------------------------------------------

Init ==
    /\ nextRun = 1
    /\ view = [r \in Runs |-> "plan"]
    /\ left = [r \in Runs |-> 0]
    /\ chan = [r \in Runs |-> <<>>]
    /\ closed = [r \in Runs |-> FALSE]
    /\ readers = [r \in Runs |-> 0]
    /\ lineMsgs = {}
    /\ doneMsgs = [r \in Runs |-> 0]
    /\ results = {}
    /\ log = [r \in Runs |-> <<>>]
    /\ done = [r \in Runs |-> FALSE]
    /\ stack = [v \in Views |-> <<>>]
    /\ last = [v \in Views |-> None]
    /\ busy = [v \in Views |-> FALSE]
    /\ active = Elsewhere
    /\ taken = [r \in Runs |-> <<>>]
    /\ strays = {}

Command(r) == Write(r) \/ End(r)

Stream(r) == UpdateDone(r) \/ \E l \in lineMsgs : l[1] = r /\ UpdateLine(l)

Keys == Navigate \/ \E v \in Views : Start(v) \/ ShowLog(v) \/ CloseLog(v) \/ ClearLogs(v)

Next ==
    \/ \E r \in Runs : Command(r) \/ Receive(r) \/ Stream(r) \/ UpdateResult(r)
    \/ Reset
    \/ Keys

Spec == Init /\ [][Next]_vars

\* A command writes and ends, a goroutine that can receive does, BubbleTea
\* delivers what it is sent.  The user need not do anything.
Fairness ==
    \A r \in Runs : WF_vars(Command(r)) /\ WF_vars(Receive(r)) /\ WF_vars(Stream(r))

FairSpec == Spec /\ Fairness

-----------------------------------------------------------------------------

CommandTypes ==
    /\ nextRun \in 1 .. MaxRuns + 1
    /\ view \in [Runs -> Views]
    /\ left \in [Runs -> Nat]
    /\ chan \in [Runs -> Seq(Line)]
    /\ closed \in [Runs -> BOOLEAN]
    /\ taken \in [Runs -> Seq(Line)]

MessageTypes ==
    /\ readers \in [Runs -> Nat]
    /\ lineMsgs \subseteq Line
    /\ doneMsgs \in [Runs -> Nat]
    /\ results \subseteq Runs
    /\ strays \subseteq Runs \X (Runs \cup {None})

ScreenTypes ==
    /\ log \in [Runs -> Seq(Line)]
    /\ done \in [Runs -> BOOLEAN]
    /\ stack \in [Views -> Seq(Runs)]
    /\ last \in [Views -> Runs \cup {None}]
    /\ busy \in [Views -> BOOLEAN]
    /\ active \in Views \cup {Elsewhere}

WithinCapacity == \A r \in Runs : Len(chan[r]) <= Capacity

TypeOK == CommandTypes /\ MessageTypes /\ ScreenTypes /\ WithinCapacity

\* Nothing of another run has reached the frame of run r.
Unmixed(r) == \A s \in strays : s[2] # r

\* Nothing of run r has missed its frame.
Unbroken(r) == \A s \in strays : s[1] # r

\* A log that got no other run's messages shows the lines its channel took, in
\* their order and without a gap, whatever the user did meanwhile; one that is
\* done shows them all.  WaitForLine's chain has one link at a time.
LogIsFaithful ==
    \A r \in Runs : Unmixed(r) =>
        /\ IsPrefix(log[r], taken[r])
        /\ done[r] => closed[r] /\ log[r] = taken[r]

\* A command ends even if nobody reads its output (Write drops, it never
\* blocks), and no goroutine waits for its lines for ever (Close wakes them).
OutputEnds == \A r \in Runs : r < nextRun ~> closed[r] /\ readers[r] = 0

\* The chain never stops by itself: a log learns that its command is over,
\* unless a message of the run has missed its frame.
LogEnds == \A r \in Runs : r < nextRun ~> done[r] \/ ~Unbroken(r)
=============================================================================
