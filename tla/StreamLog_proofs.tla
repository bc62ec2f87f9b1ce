-------------------------- MODULE StreamLog_proofs --------------------------
(***************************************************************************)
(* Proofs about StreamLog, for channels of any capacity, commands of any   *)
(* length and any number of them.                                          *)
(***************************************************************************)
EXTENDS StreamLog, SequenceTheorems, TLAPS

-----------------------------------------------------------------------------
(* The inductive invariant *)

\* The lines of run r that are on their way to Update.
Sent(r) == {l \in lineMsgs : l[1] = r}

\* Nothing is under way from channel r to a frame.
Quiet(r) == readers[r] = 0 /\ Sent(r) = {} /\ doneMsgs[r] = 0

\* Nothing has been done with run r.
Untouched(r) ==
    /\ Quiet(r)
    /\ chan[r] = <<>> /\ taken[r] = <<>> /\ log[r] = <<>>
    /\ ~closed[r] /\ ~done[r]

\* A channel holds lines of its own run only.
ChanInv == \A r \in Runs : \A i \in 1 .. Len(chan[r]) : chan[r][i][1] = r

\* Nothing is done with a run before it starts.
UntouchedInv == \A r \in Runs : r >= nextRun => Untouched(r)

\* The frames of stack s belong to runs before n.
Below(s, n) == \A i \in 1 .. Len(s) : s[i] < n

\* Frames are made when their run starts.
FrameInv ==
    /\ \A v \in Views : last[v] < nextRun
    /\ \A v \in Views : Below(stack[v], nextRun)

\* The log is an initial part of what the channel took.
Shown(r) ==
    /\ Len(log[r]) <= Len(taken[r])
    /\ \A i \in 1 .. Len(log[r]) : log[r][i] = taken[r][i]

\* Sequence c is what sequence t has after its first n elements.
Behind(t, n, c) ==
    /\ Len(t) = n + Len(c)
    /\ \A i \in 1 .. Len(c) : c[i] = t[n + i]

\* The channel holds what it took, but for the log and k lines more.
Held(r, k) == Behind(taken[r], Len(log[r]) + k, chan[r])

\* The link of the chain is a goroutine that waits for a line ...
Waits(r) == readers[r] = 1 /\ Sent(r) = {} /\ doneMsgs[r] = 0 /\ Held(r, 0)

\* ... or the line the log lacks, on its way ...
Carries(r) ==
    /\ readers[r] = 0 /\ doneMsgs[r] = 0
    /\ Held(r, 1)
    /\ Sent(r) = {taken[r][Len(log[r]) + 1]}

\* ... or the message that there are no more lines.
Finishes(r) ==
    /\ readers[r] = 0 /\ Sent(r) = {} /\ doneMsgs[r] = 1
    /\ closed[r] /\ Len(log[r]) = Len(taken[r])

\* A log that got no other run's messages: its chain has one link, or none
\* when it has ended or a message went astray.
Chain(r) ==
    /\ Shown(r)
    /\ Waits(r) \/ Carries(r) \/ Finishes(r) \/ Quiet(r)
    /\ done[r] => Quiet(r) /\ closed[r] /\ Len(log[r]) = Len(taken[r])

ChainInv == \A r \in Runs : Unmixed(r) => Chain(r)

IInv == TypeOK /\ ChanInv /\ UntouchedInv /\ FrameInv /\ ChainInv

-----------------------------------------------------------------------------
(* Type correctness *)

\* Stack.Clear leaves an initial part of the stack.
LEMMA ClearedProperties ==
    ASSUME NEW v \in Views, NEW s \in Seq(Runs)
    PROVE  /\ Cleared(v, s) \in Seq(Runs)
           /\ Len(Cleared(v, s)) <= Len(s)
           /\ \A i \in 1 .. Len(Cleared(v, s)) : Cleared(v, s)[i] = s[i]
<1>1. CASE v = "plan"
  BY <1>1 DEF Cleared
<1>2. CASE v # "plan" /\ s = <<>>
  BY <1>2, SubSeqEmpty DEF Cleared
<1>3. CASE v # "plan" /\ s # <<>>
  <2>1. Len(s) \in Nat \ {0}
    BY <1>3, EmptySeq
  <2>2. \A i \in 1 .. 1 : s[i] \in Runs
    BY <2>1
  <2>3. Cleared(v, s) = SubSeq(s, 1, 1)
    BY <1>3 DEF Cleared
  <2> QED
    BY <2>1, <2>2, <2>3, SubSeqProperties
<1> QED
  BY <1>1, <1>2, <1>3

\* Popping a frame leaves an initial part of the stack.
LEMMA FrontProperties ==
    ASSUME NEW s \in Seq(Runs), s # <<>>
    PROVE  /\ Front(s) \in Seq(Runs)
           /\ Len(Front(s)) <= Len(s)
           /\ \A i \in 1 .. Len(Front(s)) : Front(s)[i] = s[i]
<1>1. Len(s) \in Nat \ {0}
  BY EmptySeq
<1>2. \A i \in 1 .. Len(s) - 1 : s[i] \in Runs
  BY <1>1
<1> QED
  BY <1>1, <1>2, SubSeqProperties DEF Front

\* A stream message reaches a frame, or none.
LEMMA ReachedType ==
    ASSUME ScreenTypes
    PROVE  Reached \in Runs \cup {None}
BY DEF Reached, ScreenTypes, Last

\* No run has the number that stands for no frame.
LEMMA NoneIsNoRun == None \notin Runs
BY DEF None, Runs

\* A stray message is one of a run, at a frame or at none.
LEMMA StrayType ==
    ASSUME MessageTypes, NEW r \in Runs, NEW f \in Runs \cup {None}, Stray(r, f)
    PROVE  strays' \subseteq Runs \X (Runs \cup {None})
<1>1. <<r, f>> \in Runs \X (Runs \cup {None})
  OBVIOUS
<1>2. strays' = strays \/ strays' = strays \cup {<<r, f>>}
  BY DEF Stray
<1> QED
  BY <1>1, <1>2 DEF MessageTypes

\* Every variable starts with its type.
LEMMA InitTypeOK == Init => TypeOK
BY StreamAssumption
   DEF Init, TypeOK, CommandTypes, MessageTypes, ScreenTypes, WithinCapacity,
       Views, None, Elsewhere

\* Offering a line to a channel keeps the types, and the channel's capacity.
LEMMA OfferTypes ==
    ASSUME CommandTypes, WithinCapacity, NEW r \in Runs, Offer(r, NextLine(r))
    PROVE  /\ chan' \in [Runs -> Seq(Line)]
           /\ taken' \in [Runs -> Seq(Line)]
           /\ WithinCapacity'
<1>1. NextLine(r) \in Line
  BY DEF NextLine, Line, CommandTypes
<1>2. CASE Len(chan[r]) < Capacity
  <2>1. Len(Append(chan[r], NextLine(r))) <= Capacity
    BY <1>1, <1>2, StreamAssumption DEF CommandTypes
  <2>2. /\ chan' = [chan EXCEPT ![r] = Append(@, NextLine(r))]
        /\ taken' = [taken EXCEPT ![r] = Append(@, NextLine(r))]
    BY <1>2 DEF Offer
  <2> QED
    BY <1>1, <2>1, <2>2 DEF CommandTypes, WithinCapacity
<1>3. CASE ~(Len(chan[r]) < Capacity)
  BY <1>3 DEF Offer, CommandTypes, WithinCapacity
<1> QED
  BY <1>2, <1>3

\* Every step keeps the types of what belongs to the commands.
LEMMA NextCommandTypes ==
    ASSUME TypeOK, [Next]_vars
    PROVE  CommandTypes' /\ WithinCapacity'
<1> USE DEF CommandTypes, WithinCapacity
<1>a. CommandTypes /\ WithinCapacity
  BY DEF TypeOK
<1>1. ASSUME NEW r \in Runs, Write(r) PROVE CommandTypes' /\ WithinCapacity'
  BY <1>a, <1>1, OfferTypes DEF Write
<1>2. ASSUME NEW r \in Runs, End(r) PROVE CommandTypes' /\ WithinCapacity'
  <2>1. closed' \in [Runs -> BOOLEAN]
    BY <1>a, <1>2 DEF End, Close
  <2>2. CASE UNCHANGED <<left, chan, taken>>
    BY <1>a, <1>2, <2>1, <2>2 DEF End
  <2>3. CASE left' = [left EXCEPT ![r] = 0] /\ Offer(r, NextLine(r))
    BY <1>a, <1>2, <2>1, <2>3, OfferTypes DEF End
  <2> QED
    BY <1>2, <2>2, <2>3 DEF End
<1>3. ASSUME NEW r \in Runs, Receive(r) PROVE CommandTypes' /\ WithinCapacity'
  <2>1. CASE chan[r] # <<>> /\ chan' = [chan EXCEPT ![r] = Tail(@)]
    <3>1. /\ Tail(chan[r]) \in Seq(Line)
          /\ Len(Tail(chan[r])) = Len(chan[r]) - 1
      BY <1>a, <2>1, HeadTailProperties
    <3>2. Len(Tail(chan[r])) <= Capacity
      BY <1>a, <3>1, StreamAssumption, LenProperties
    <3> QED
      BY <1>a, <1>3, <2>1, <3>1, <3>2 DEF Receive
  <2>2. CASE UNCHANGED chan
    BY <1>a, <1>3, <2>2 DEF Receive
  <2> QED
    BY <1>3, <2>1, <2>2 DEF Receive
<1>4. ASSUME NEW v \in Views, Start(v) PROVE CommandTypes' /\ WithinCapacity'
  <2>1. nextRun' \in 1 .. MaxRuns + 1
    BY <1>a, <1>4, StreamAssumption DEF Start, Runs
  <2>2. left' \in [Runs -> Nat] /\ view' \in [Runs -> Views]
    BY <1>a, <1>4, StreamAssumption DEF Start
  <2> QED
    BY <1>a, <1>4, <2>1, <2>2 DEF Start
<1>5. CASE UNCHANGED <<nextRun, view, pipes>>
  BY <1>a, <1>5 DEF pipes
<1>6. ASSUME NEW l \in lineMsgs, UpdateLine(l) PROVE UNCHANGED <<nextRun, view, pipes>>
  BY <1>6 DEF UpdateLine
<1>7. ASSUME NEW r \in Runs, UpdateDone(r) \/ UpdateResult(r)
      PROVE  UNCHANGED <<nextRun, view, pipes>>
  BY <1>7 DEF UpdateDone, UpdateResult
<1>8. ASSUME NEW v \in Views, ShowLog(v) \/ CloseLog(v) \/ ClearLogs(v)
      PROVE  UNCHANGED <<nextRun, view, pipes>>
  BY <1>8 DEF ShowLog, CloseLog, ClearLogs
<1>9. CASE Navigate \/ Reset \/ UNCHANGED vars
  BY <1>5, <1>9 DEF Navigate, GoTo, Reset, vars
<1> QED
  BY <1>1, <1>2, <1>3, <1>4, <1>5, <1>6, <1>7, <1>8, <1>9 DEF Next, Command, Stream, Keys

\* Every step keeps the types of the messages.
LEMMA NextMessageTypes ==
    ASSUME TypeOK, [Next]_vars
    PROVE  MessageTypes'
<1> USE DEF MessageTypes
<1>a. CommandTypes /\ MessageTypes /\ ScreenTypes
  BY DEF TypeOK
<1>1. ASSUME NEW r \in Runs, Write(r) \/ End(r) PROVE MessageTypes'
  BY <1>a, <1>1 DEF Write, End
<1>2. ASSUME NEW r \in Runs, Receive(r) PROVE MessageTypes'
  <2>1. CASE chan[r] # <<>> /\ lineMsgs' = lineMsgs \cup {Head(chan[r])} /\ UNCHANGED doneMsgs
    <3>1. Head(chan[r]) \in Line
      BY <1>a, <2>1, HeadTailProperties DEF CommandTypes
    <3> QED
      BY <1>a, <1>2, <2>1, <3>1 DEF Receive
  <2>2. CASE doneMsgs' = [doneMsgs EXCEPT ![r] = @ + 1] /\ UNCHANGED lineMsgs
    BY <1>a, <1>2, <2>2 DEF Receive
  <2> QED
    BY <1>2, <2>1, <2>2 DEF Receive
<1>3. ASSUME NEW l \in lineMsgs, UpdateLine(l) PROVE MessageTypes'
  <2>1. l[1] \in Runs
    BY <1>a DEF Line
  <2>2. strays' \subseteq Runs \X (Runs \cup {None})
    BY <1>a, <1>3, <2>1, ReachedType, StrayType DEF UpdateLine
  <2>3. readers' \in [Runs -> Nat]
    <3>1. CASE Reached = None
      BY <1>a, <1>3, <3>1 DEF UpdateLine
    <3>2. CASE Reached # None
      <4>1. PICK f \in Runs : readers' = [readers EXCEPT ![f] = @ + 1]
        BY <1>a, <1>3, <3>2, ReachedType DEF UpdateLine, ShowLine, WaitForLine
      <4> QED
        BY <1>a, <4>1
    <3> QED
      BY <3>1, <3>2
  <2> QED
    BY <1>a, <1>3, <2>2, <2>3 DEF UpdateLine
<1>4. ASSUME NEW r \in Runs, UpdateDone(r) PROVE MessageTypes'
  <2>1. strays' \subseteq Runs \X (Runs \cup {None})
    BY <1>a, <1>4, ReachedType, StrayType DEF UpdateDone
  <2> QED
    BY <1>a, <1>4, <2>1 DEF UpdateDone
<1>5. ASSUME NEW r \in Runs, UpdateResult(r) PROVE MessageTypes'
  BY <1>a, <1>5 DEF UpdateResult
<1>6. ASSUME NEW v \in Views, Start(v) PROVE MessageTypes'
  BY <1>a, <1>6 DEF Start, WaitForLine
<1>7. ASSUME NEW v \in Views, ShowLog(v) \/ CloseLog(v) \/ ClearLogs(v) PROVE MessageTypes'
  BY <1>a, <1>7 DEF ShowLog, OpenLog, CloseLog, ClearLogs
<1>8. CASE Navigate \/ Reset \/ UNCHANGED vars
  BY <1>a, <1>8 DEF Navigate, GoTo, Reset, vars
<1> QED
  BY <1>1, <1>2, <1>3, <1>4, <1>5, <1>6, <1>7, <1>8 DEF Next, Command, Stream, Keys

\* Every step keeps the types of what is on the screen.
LEMMA NextScreenTypes ==
    ASSUME TypeOK, [Next]_vars
    PROVE  ScreenTypes'
<1> USE DEF ScreenTypes
<1>a. CommandTypes /\ MessageTypes /\ ScreenTypes
  BY DEF TypeOK
<1>1. ASSUME NEW r \in Runs, Write(r) \/ End(r) \/ Receive(r) PROVE ScreenTypes'
  BY <1>a, <1>1 DEF Write, End, Receive, frames, nav
<1>2. ASSUME NEW l \in lineMsgs, UpdateLine(l) PROVE ScreenTypes'
  <2>1. log' \in [Runs -> Seq(Line)]
    <3>1. l \in Line
      BY <1>a DEF MessageTypes
    <3>2. CASE Reached = None
      BY <1>a, <1>2, <3>2 DEF UpdateLine
    <3>3. CASE Reached # None
      <4>1. PICK f \in Runs : log' = [log EXCEPT ![f] = Append(@, l)]
        BY <1>a, <1>2, <3>3, ReachedType DEF UpdateLine, ShowLine
      <4> QED
        BY <1>a, <3>1, <4>1
    <3> QED
      BY <3>2, <3>3
  <2> QED
    BY <1>a, <1>2, <2>1 DEF UpdateLine, nav
<1>3. ASSUME NEW r \in Runs, UpdateDone(r) PROVE ScreenTypes'
  <2>1. done' \in [Runs -> BOOLEAN]
    BY <1>a, <1>3, ReachedType DEF UpdateDone
  <2> QED
    BY <1>a, <1>3, <2>1 DEF UpdateDone, nav
<1>4. ASSUME NEW r \in Runs, UpdateResult(r) PROVE ScreenTypes'
  BY <1>a, <1>4 DEF UpdateResult, frames, CommandTypes
<1>5. CASE Reset
  BY <1>a, <1>5, ClearedProperties DEF Reset, frames, Views
<1>6. ASSUME NEW v \in Views, Start(v) PROVE ScreenTypes'
  <2>1. stack' \in [Views -> Seq(Runs)]
    BY <1>a, <1>6, ClearedProperties DEF Start
  <2> QED
    BY <1>a, <1>6, <2>1 DEF Start, frames
<1>7. CASE Navigate
  BY <1>a, <1>7 DEF Navigate, GoTo, frames
<1>8. ASSUME NEW v \in Views, ShowLog(v) PROVE ScreenTypes'
  BY <1>a, <1>8 DEF ShowLog, OpenLog, frames
<1>9. ASSUME NEW v \in Views, CloseLog(v) PROVE ScreenTypes'
  <2>1. stack' \in [Views -> Seq(Runs)]
    BY <1>a, <1>9, FrontProperties DEF CloseLog
  <2> QED
    BY <1>a, <1>9, <2>1 DEF CloseLog, frames, Views
<1>10. ASSUME NEW v \in Views, ClearLogs(v) PROVE ScreenTypes'
  BY <1>a, <1>10, ClearedProperties DEF ClearLogs, frames
<1>11. CASE UNCHANGED vars
  BY <1>a, <1>11 DEF vars, frames, nav
<1> QED
  BY <1>1, <1>2, <1>3, <1>4, <1>5, <1>6, <1>7, <1>8, <1>9, <1>10, <1>11
     DEF Next, Command, Stream, Keys

\* Every step keeps the types.
LEMMA NextTypeOK == TypeOK /\ [Next]_vars => TypeOK'
BY NextCommandTypes, NextMessageTypes, NextScreenTypes DEF TypeOK

\* Every variable keeps its type, and no channel holds more than its capacity.
THEOREM TypeCorrect == Spec => []TypeOK
BY InitTypeOK, NextTypeOK, PTL DEF Spec

-----------------------------------------------------------------------------
(* Channels hold lines of their own run *)

\* Every step keeps to it: only a run's own command fills its channel.
LEMMA NextChanInv ==
    ASSUME TypeOK, ChanInv, [Next]_vars
    PROVE  ChanInv'
<1>a. CommandTypes
  BY DEF TypeOK
<1>b. ASSUME NEW r \in Runs, Offer(r, NextLine(r)) PROVE ChanInv'
  <2>1. NextLine(r) \in Line /\ NextLine(r)[1] = r
    BY <1>a DEF NextLine, Line, CommandTypes
  <2>2. CASE chan' = [chan EXCEPT ![r] = Append(@, NextLine(r))]
    BY <1>a, <2>1, <2>2 DEF ChanInv, CommandTypes
  <2>3. CASE UNCHANGED chan
    BY <2>3 DEF ChanInv
  <2> QED
    BY <1>b, <2>2, <2>3 DEF Offer
<1>c. CASE UNCHANGED chan
  BY <1>c DEF ChanInv
<1>1. ASSUME NEW r \in Runs, Write(r) \/ End(r) PROVE ChanInv'
  BY <1>1, <1>b, <1>c DEF Write, End
<1>2. ASSUME NEW r \in Runs, Receive(r) PROVE ChanInv'
  <2>1. CASE chan[r] # <<>> /\ chan' = [chan EXCEPT ![r] = Tail(@)]
    <3>1. /\ Len(Tail(chan[r])) = Len(chan[r]) - 1
          /\ \A i \in 1 .. Len(Tail(chan[r])) : Tail(chan[r])[i] = chan[r][i + 1]
      BY <1>a, <2>1, HeadTailProperties DEF CommandTypes
    <3>2. Len(chan[r]) \in Nat
      BY <1>a, LenProperties DEF CommandTypes
    <3>3. \A i \in 1 .. Len(Tail(chan[r])) : Tail(chan[r])[i][1] = r
      BY <3>1, <3>2 DEF ChanInv
    <3> QED
      BY <1>a, <2>1, <3>3 DEF ChanInv, CommandTypes
  <2> QED
    BY <1>2, <1>c, <2>1 DEF Receive
<1>3. ASSUME NEW l \in lineMsgs, UpdateLine(l) PROVE UNCHANGED chan
  BY <1>3 DEF UpdateLine, pipes
<1>4. ASSUME NEW r \in Runs, UpdateDone(r) \/ UpdateResult(r) PROVE UNCHANGED chan
  BY <1>4 DEF UpdateDone, UpdateResult, pipes
<1>5. ASSUME NEW v \in Views, Start(v) \/ ShowLog(v) \/ CloseLog(v) \/ ClearLogs(v)
      PROVE  UNCHANGED chan
  BY <1>5 DEF Start, ShowLog, CloseLog, ClearLogs, pipes
<1>6. CASE Navigate \/ Reset \/ UNCHANGED vars
  BY <1>6, <1>c DEF Navigate, GoTo, Reset, vars, pipes
<1> QED
  BY <1>1, <1>2, <1>3, <1>4, <1>5, <1>6, <1>c DEF Next, Command, Stream, Keys

-----------------------------------------------------------------------------
(* What a step does to the runs it is not about *)

\* Nothing the invariant says of run q changes.
Same(q) ==
    /\ chan'[q] = chan[q] /\ taken'[q] = taken[q]
    /\ closed'[q] = closed[q]
    /\ log'[q] = log[q] /\ done'[q] = done[q]
    /\ readers'[q] = readers[q] /\ doneMsgs'[q] = doneMsgs[q]
    /\ Sent(q)' = Sent(q)

\* What holds of a run goes on holding while nothing happens to it.
LEMMA SameProperties ==
    ASSUME NEW q \in Runs, Same(q)
    PROVE  /\ Untouched(q) => Untouched(q)'
           /\ Chain(q) => Chain(q)'
BY DEF Same, Untouched, Quiet, Chain, Shown, Waits, Carries, Finishes, Held

\* The steps of a command change no other run.
LEMMA CommandSame ==
    ASSUME TypeOK, NEW r \in Runs, Command(r), NEW q \in Runs, q # r
    PROVE  Same(q)
<1>1. /\ chan'[q] = chan[q] /\ taken'[q] = taken[q]
      /\ closed'[q] = closed[q]
  BY DEF Command, Write, End, Close, Offer, TypeOK, CommandTypes
<1>2. UNCHANGED <<readers, lineMsgs, doneMsgs, log, done>>
  BY DEF Command, Write, End, frames
<1> QED
  BY <1>1, <1>2 DEF Same, Sent

\* Nor do those of a reader: the line it takes is of its channel's run.
LEMMA ReceiveSame ==
    ASSUME TypeOK, ChanInv, NEW r \in Runs, Receive(r), NEW q \in Runs, q # r
    PROVE  Same(q)
<1>1. /\ chan'[q] = chan[q] /\ readers'[q] = readers[q] /\ doneMsgs'[q] = doneMsgs[q]
  BY DEF Receive, TypeOK, CommandTypes, MessageTypes
<1>2. UNCHANGED <<taken, closed, log, done>>
  BY DEF Receive, frames
<1>3. Sent(q)' = Sent(q)
  <2>1. CASE chan[r] # <<>> /\ lineMsgs' = lineMsgs \cup {Head(chan[r])}
    <3>1. Len(chan[r]) \in Nat \ {0} /\ Head(chan[r]) = chan[r][1]
      BY <2>1, EmptySeq DEF TypeOK, CommandTypes
    <3>2. Head(chan[r])[1] = r
      BY <3>1 DEF ChanInv
    <3> QED
      BY <2>1, <3>2 DEF Sent
  <2>2. CASE UNCHANGED lineMsgs
    BY <2>2 DEF Sent
  <2> QED
    BY <2>1, <2>2 DEF Receive
<1> QED
  BY <1>1, <1>2, <1>3 DEF Same

\* A line changes its own run and the one whose frame it reaches.
LEMMA LineSame ==
    ASSUME TypeOK, NEW l \in lineMsgs, UpdateLine(l),
           NEW q \in Runs, q # l[1], q # Reached
    PROVE  Same(q)
<1>1. log'[q] = log[q] /\ readers'[q] = readers[q]
  <2>1. CASE Reached = None
    BY <2>1 DEF UpdateLine
  <2>2. CASE Reached # None
    BY <2>2 DEF UpdateLine, ShowLine, WaitForLine, TypeOK, ScreenTypes, MessageTypes
  <2> QED
    BY <2>1, <2>2
<1>2. UNCHANGED <<chan, taken, closed, done, doneMsgs>>
  BY DEF UpdateLine, pipes
<1>3. Sent(q)' = Sent(q)
  BY DEF UpdateLine, Sent
<1> QED
  BY <1>1, <1>2, <1>3 DEF Same

\* So does the message that there are no more.
LEMMA DoneSame ==
    ASSUME TypeOK, NEW r \in Runs, UpdateDone(r),
           NEW q \in Runs, q # r, q # Reached
    PROVE  Same(q)
<1>1. done'[q] = done[q] /\ doneMsgs'[q] = doneMsgs[q]
  BY DEF UpdateDone, TypeOK, ScreenTypes, MessageTypes
<1>2. UNCHANGED <<chan, taken, closed, log, readers, lineMsgs>>
  BY DEF UpdateDone, pipes
<1> QED
  BY <1>1, <1>2 DEF Same, Sent

\* A start changes the run it starts.
LEMMA StartSame ==
    ASSUME TypeOK, NEW v \in Views, Start(v), NEW q \in Runs, q # nextRun
    PROVE  Same(q)
BY DEF Start, WaitForLine, TypeOK, MessageTypes, Same, Sent, frames

\* What the other steps change is none of a run's.
RunsUnchanged == UNCHANGED <<chan, taken, closed, log, done, readers, doneMsgs, lineMsgs>>

\* They change nothing of any run.
LEMMA RunsUnchangedSame ==
    ASSUME RunsUnchanged, NEW q \in Runs
    PROVE  Same(q)
BY DEF RunsUnchanged, Same, Sent

\* The steps that only move frames, results and views.
LEMMA OtherSteps ==
    /\ \A r \in Runs : UpdateResult(r) => RunsUnchanged
    /\ Reset \/ Navigate \/ UNCHANGED vars => RunsUnchanged
    /\ \A v \in Views : ShowLog(v) \/ CloseLog(v) \/ ClearLogs(v) => RunsUnchanged
BY DEF RunsUnchanged, UpdateResult, Reset, Navigate, GoTo, ShowLog, OpenLog, CloseLog,
       ClearLogs, vars, pipes, frames

-----------------------------------------------------------------------------
(* Frames belong to runs that have started *)

\* The frame a message reaches is that of a run that has started.
LEMMA ReachedStarted ==
    ASSUME TypeOK, FrameInv
    PROVE  Reached < nextRun
<1>1. nextRun > 0
  BY StreamAssumption DEF TypeOK, CommandTypes
<1>2. CASE active \in Views /\ stack[active] # <<>>
  <2>1. Len(stack[active]) \in Nat \ {0}
    BY <1>2, EmptySeq DEF TypeOK, ScreenTypes
  <2>2. Reached = stack[active][Len(stack[active])]
    BY <1>2 DEF Reached, Last
  <2> QED
    BY <1>2, <2>1, <2>2 DEF FrameInv, Below
<1> QED
  BY <1>1, <1>2 DEF Reached, None

\* A run that has not started is not touched by any step but its start.
LEMMA NextUntouched ==
    ASSUME TypeOK, ChanInv, UntouchedInv, FrameInv, [Next]_vars,
           NEW q \in Runs, q >= nextRun'
    PROVE  Untouched(q)'
<1>1. nextRun \in Nat /\ q \in Nat
  BY StreamAssumption DEF TypeOK, CommandTypes, Runs
<1>2. nextRun' = nextRun \/ (nextRun' = nextRun + 1 /\ \E v \in Views : Start(v))
  BY DEF Next, Command, Write, End, Receive, Stream, UpdateLine, UpdateDone, UpdateResult,
         Reset, Keys, Navigate, GoTo, Start, ShowLog, CloseLog, ClearLogs, vars
<1>3. q >= nextRun /\ Untouched(q)
  BY <1>1, <1>2 DEF UntouchedInv
<1>4. Reached # q
  BY <1>1, <1>3, ReachedStarted, ReachedType DEF TypeOK, None, Runs
<1>5. ASSUME NEW r \in Runs, Command(r) PROVE Same(q)
  <2>1. r # q
    BY <1>1, <1>3, <1>5 DEF Command, Write, End, Running, Runs
  <2> QED
    BY <1>5, <2>1, CommandSame
<1>6. ASSUME NEW r \in Runs, Receive(r) PROVE Same(q)
  <2>1. r # q
    BY <1>3, <1>6 DEF Receive, Untouched, Quiet
  <2> QED
    BY <1>6, <2>1, ReceiveSame
<1>7. ASSUME NEW l \in lineMsgs, UpdateLine(l) PROVE Same(q)
  <2>1. l[1] # q
    BY <1>3 DEF Untouched, Quiet, Sent
  <2> QED
    BY <1>4, <1>7, <2>1, LineSame
<1>8. ASSUME NEW r \in Runs, UpdateDone(r) PROVE Same(q)
  <2>1. r # q
    BY <1>3, <1>8 DEF UpdateDone, Untouched, Quiet
  <2> QED
    BY <1>4, <1>8, <2>1, DoneSame
<1>9. ASSUME NEW v \in Views, Start(v) PROVE Same(q)
  <2>1. q # nextRun
    BY <1>1, <1>9 DEF Start
  <2> QED
    BY <1>9, <2>1, StartSame
<1>10. ASSUME RunsUnchanged PROVE Same(q)
  BY <1>10, RunsUnchangedSame
<1>11. Same(q)
  BY <1>5, <1>6, <1>7, <1>8, <1>9, <1>10, OtherSteps DEF Next, Stream, Keys
<1> QED
  BY <1>3, <1>11, SameProperties

\* An initial part of a stack has no frame that the stack does not have.
LEMMA BelowPart ==
    ASSUME NEW n \in Nat, NEW s \in Seq(Runs), NEW t \in Seq(Runs), Below(s, n),
           Len(t) <= Len(s), \A i \in 1 .. Len(t) : t[i] = s[i]
    PROVE  Below(t, n)
BY LenProperties DEF Below

\* Pushing the frame of a run that starts.
LEMMA BelowAppend ==
    ASSUME NEW n \in Runs, NEW s \in Seq(Runs), Below(s, n)
    PROVE  Below(Append(s, n), n + 1)
<1>1. n \in Nat /\ Len(s) \in Nat /\ Len(Append(s, n)) = Len(s) + 1
  BY LenProperties DEF Runs
<1>2. ASSUME NEW i \in 1 .. Len(s) PROVE Append(s, n)[i] < n + 1
  <2>1. s[i] \in Runs
    BY ElementOfSeq
  <2>2. Append(s, n)[i] = s[i]
    OBVIOUS
  <2> QED
    BY <1>1, <2>1, <2>2 DEF Below, Runs
<1>3. Append(s, n)[Len(s) + 1] < n + 1
  BY <1>1
<1> QED
  BY <1>1, <1>2, <1>3 DEF Below

\* The steps that leave the stacks alone.
NavUnchanged == UNCHANGED <<nextRun, stack, last>>

\* A stack only gets the frame of a run that starts or of the view's last run.
LEMMA NextFrameInv ==
    ASSUME TypeOK, FrameInv, [Next]_vars
    PROVE  FrameInv'
<1> USE DEF FrameInv
<1>a. nextRun \in Nat /\ 0 < nextRun
  BY StreamAssumption DEF TypeOK, CommandTypes
<1>b. ScreenTypes /\ MessageTypes /\ CommandTypes
  BY DEF TypeOK
<1>c. ASSUME NavUnchanged PROVE FrameInv'
  BY <1>c DEF NavUnchanged
<1>d. ASSUME NEW v \in Views, NEW s \in Seq(Runs), Below(s, nextRun),
             stack' = [stack EXCEPT ![v] = s], UNCHANGED nextRun,
             UNCHANGED last \/ last' = [last EXCEPT ![v] = None]
      PROVE  FrameInv'
  <2>1. \A w \in Views : Below(stack'[w], nextRun)
    BY <1>b, <1>d DEF ScreenTypes
  <2>2. \A w \in Views : last'[w] < nextRun
    BY <1>a, <1>b, <1>d DEF ScreenTypes, None
  <2> QED
    BY <1>d, <2>1, <2>2
<1>e. \A n \in Nat : Below(<<>>, n)
  BY DEF Below
<1>1. ASSUME NEW r \in Runs, Command(r) \/ Receive(r) PROVE FrameInv'
  BY <1>1, <1>c DEF Command, Write, End, Receive, NavUnchanged, nav
<1>2. ASSUME NEW l \in lineMsgs, UpdateLine(l) PROVE FrameInv'
  BY <1>2, <1>c DEF UpdateLine, NavUnchanged, nav
<1>3. ASSUME NEW r \in Runs, UpdateDone(r) PROVE FrameInv'
  BY <1>3, <1>c DEF UpdateDone, NavUnchanged, nav
<1>4. ASSUME NEW r \in Runs, UpdateResult(r) PROVE FrameInv'
  <2>1. view[r] \in Views /\ <<>> \in Seq(Runs)
    BY <1>b DEF CommandTypes
  <2> QED
    BY <1>a, <1>4, <1>d, <1>e, <2>1 DEF UpdateResult
<1>5. ASSUME Reset PROVE FrameInv'
  <2>1. "plan" \in Views /\ stack["plan"] \in Seq(Runs)
    BY <1>b DEF ScreenTypes, Views
  <2>2. /\ Cleared("plan", stack["plan"]) \in Seq(Runs)
        /\ Below(Cleared("plan", stack["plan"]), nextRun)
    BY <1>a, <2>1, ClearedProperties, BelowPart
  <2> QED
    BY <1>5, <1>d, <2>1, <2>2 DEF Reset
<1>6. ASSUME NEW v \in Views, Start(v) PROVE FrameInv'
  <2> DEFINE c == Cleared(v, stack[v])
  <2>1. nextRun \in Runs /\ nextRun' = nextRun + 1
    BY <1>6 DEF Start
  <2>2. stack[v] \in Seq(Runs) /\ Below(stack[v], nextRun)
    BY <1>b DEF ScreenTypes
  <2>3. c \in Seq(Runs) /\ Below(c, nextRun)
    BY <1>a, <2>2, ClearedProperties, BelowPart
  <2>4. Below(Append(c, nextRun), nextRun + 1)
    BY <2>1, <2>3, BelowAppend
  <2>5. \A w \in Views : Below(stack[w], nextRun + 1)
    <3>1. ASSUME NEW w \in Views, NEW i \in 1 .. Len(stack[w])
          PROVE  stack[w][i] < nextRun + 1
      <4>1. stack[w] \in Seq(Runs) /\ Below(stack[w], nextRun)
        BY <1>b DEF ScreenTypes
      <4>2. stack[w][i] \in Runs /\ stack[w][i] < nextRun
        BY <3>1, <4>1, ElementOfSeq DEF Below
      <4> QED
        BY <1>a, <4>2 DEF Runs
    <3> QED
      BY <3>1 DEF Below
  <2>6. stack' = [stack EXCEPT ![v] = Append(c, nextRun)] /\ last' = [last EXCEPT ![v] = nextRun]
    BY <1>6 DEF Start
  <2>7. \A w \in Views : Below(stack'[w], nextRun + 1)
    BY <1>b, <2>4, <2>5, <2>6 DEF ScreenTypes
  <2>8. \A w \in Views : last[w] \in Nat
    BY <1>b DEF ScreenTypes, Runs, None
  <2>9. \A w \in Views : last'[w] < nextRun + 1
    BY <1>a, <1>b, <2>6, <2>8 DEF ScreenTypes
  <2> QED
    BY <2>1, <2>7, <2>9
<1>7. ASSUME Navigate \/ UNCHANGED vars PROVE FrameInv'
  BY <1>7, <1>c DEF Navigate, GoTo, vars, nav, NavUnchanged
<1>8. ASSUME NEW v \in Views, ShowLog(v) PROVE FrameInv'
  <2>1. last[v] \in Runs /\ last[v] < nextRun /\ stack[v] = <<>>
    BY <1>b, <1>8 DEF ShowLog, ScreenTypes
  <2>2. Below(<<last[v]>>, nextRun) /\ <<last[v]>> \in Seq(Runs)
    BY <2>1 DEF Below
  <2>3. Append(<<>>, last[v]) = <<last[v]>>
    BY <2>1
  <2>4. stack' = [stack EXCEPT ![v] = <<last[v]>>] /\ UNCHANGED <<nextRun, last>>
    BY <1>8, <2>1, <2>3 DEF ShowLog, OpenLog
  <2> QED
    BY <1>d, <2>2, <2>4
<1>9. ASSUME NEW v \in Views, CloseLog(v) PROVE FrameInv'
  <2>1. stack[v] \in Seq(Runs) /\ stack[v] # <<>> /\ Below(stack[v], nextRun)
    BY <1>b, <1>9 DEF ScreenTypes, CloseLog
  <2>2. Front(stack[v]) \in Seq(Runs) /\ Below(Front(stack[v]), nextRun)
    BY <1>a, <2>1, FrontProperties, BelowPart
  <2> QED
    BY <1>9, <1>d, <2>2 DEF CloseLog
<1>10. ASSUME NEW v \in Views, ClearLogs(v) PROVE FrameInv'
  <2>1. stack[v] \in Seq(Runs) /\ Below(stack[v], nextRun)
    BY <1>b DEF ScreenTypes
  <2>2. Cleared(v, stack[v]) \in Seq(Runs) /\ Below(Cleared(v, stack[v]), nextRun)
    BY <1>a, <2>1, ClearedProperties, BelowPart
  <2> QED
    BY <1>10, <1>d, <2>2 DEF ClearLogs
<1> QED
  BY <1>1, <1>2, <1>3, <1>4, <1>5, <1>6, <1>7, <1>8, <1>9, <1>10
     DEF Next, Stream, Keys

-----------------------------------------------------------------------------
(* The chain *)

\* The sequences of a run have lengths, and its counters are numbers.
LEMMA RunTypes ==
    ASSUME TypeOK, NEW q \in Runs
    PROVE  /\ chan[q] \in Seq(Line) /\ Len(chan[q]) \in Nat
           /\ taken[q] \in Seq(Line) /\ Len(taken[q]) \in Nat
           /\ log[q] \in Seq(Line) /\ Len(log[q]) \in Nat
           /\ readers[q] \in Nat /\ doneMsgs[q] \in Nat
           /\ closed[q] \in BOOLEAN /\ done[q] \in BOOLEAN
BY LenProperties DEF TypeOK, CommandTypes, MessageTypes, ScreenTypes

\* What is appended to both stays behind.
LEMMA BehindAppend ==
    ASSUME NEW t \in Seq(Line), NEW n \in Nat, NEW c \in Seq(Line), NEW l \in Line,
           Behind(t, n, c)
    PROVE  Behind(Append(t, l), n, Append(c, l))
<1>1. Len(t) \in Nat /\ Len(c) \in Nat /\ Len(t) = n + Len(c)
  BY LenProperties DEF Behind
<1>2. Len(Append(t, l)) = Len(t) + 1 /\ Len(Append(c, l)) = Len(c) + 1
  OBVIOUS
<1>3. ASSUME NEW i \in 1 .. Len(c) PROVE Append(c, l)[i] = Append(t, l)[n + i]
  <2>1. n + i \in 1 .. Len(t)
    BY <1>1
  <2>2. Append(c, l)[i] = c[i] /\ Append(t, l)[n + i] = t[n + i]
    BY <1>1, <2>1
  <2> QED
    BY <2>2 DEF Behind
<1>4. Append(c, l)[Len(c) + 1] = Append(t, l)[n + (Len(c) + 1)]
  BY <1>1
<1>5. \A i \in 1 .. Len(c) + 1 : i \in 1 .. Len(c) \/ i = Len(c) + 1
  BY <1>1
<1> QED
  BY <1>1, <1>2, <1>3, <1>4, <1>5 DEF Behind

\* The first element behind comes next, the others stay behind.
LEMMA BehindTail ==
    ASSUME NEW t \in Seq(Line), NEW n \in Nat, NEW c \in Seq(Line), c # <<>>,
           Behind(t, n, c)
    PROVE  /\ Head(c) = t[n + 1]
           /\ Behind(t, n + 1, Tail(c))
<1>1. Len(t) \in Nat /\ Len(c) \in Nat \ {0} /\ Len(t) = n + Len(c)
  BY LenProperties, EmptySeq DEF Behind
<1>2. Head(c) = c[1]
  BY <1>1
<1>3. /\ Len(Tail(c)) = Len(c) - 1
      /\ \A i \in 1 .. Len(Tail(c)) : Tail(c)[i] = c[i + 1]
  BY HeadTailProperties
<1>4. ASSUME NEW i \in 1 .. Len(c) - 1 PROVE c[i + 1] = t[n + 1 + i]
  <2>1. i + 1 \in 1 .. Len(c) /\ n + (i + 1) = n + 1 + i
    BY <1>1
  <2> QED
    BY <2>1 DEF Behind
<1>5. Len(t) = n + 1 + Len(Tail(c))
  BY <1>1, <1>3
<1>6. \A i \in 1 .. Len(Tail(c)) : Tail(c)[i] = t[n + 1 + i]
  BY <1>3, <1>4
<1>7. c[1] = t[n + 1]
  BY <1>1 DEF Behind
<1> QED
  BY <1>2, <1>5, <1>6, <1>7 DEF Behind

\* A line that its channel takes goes behind those it holds; one that is dropped
\* leaves the chain as it is.
LEMMA CommandChain ==
    ASSUME TypeOK, NEW q \in Runs, Command(q), Chain(q)
    PROVE  Chain(q)'
<1> DEFINE l == NextLine(q)
<1>a. /\ chan[q] \in Seq(Line) /\ taken[q] \in Seq(Line)
      /\ Len(log[q]) \in Nat /\ Len(taken[q]) \in Nat /\ Len(chan[q]) \in Nat
      /\ l \in Line
  BY RunTypes DEF NextLine, Line, TypeOK, CommandTypes
<1>b. UNCHANGED <<readers, lineMsgs, doneMsgs, log, done>>
  BY DEF Command, Write, End, frames
<1>c. ~closed[q] /\ ~done[q]
  BY RunTypes DEF Command, Write, End, Running, Chain
<1>1. CASE UNCHANGED <<chan[q], taken[q]>>
  BY <1>1, <1>b, <1>c DEF Chain, Shown, Waits, Carries, Finishes, Quiet, Held, Sent
<1>2. CASE chan'[q] = Append(chan[q], l) /\ taken'[q] = Append(taken[q], l)
  <2>1. /\ Len(taken'[q]) = Len(taken[q]) + 1
        /\ \A i \in 1 .. Len(taken[q]) : taken'[q][i] = taken[q][i]
    BY <1>a, <1>2
  <2>2. Shown(q)'
    BY <1>a, <1>b, <2>1 DEF Chain, Shown
  <2>3. ASSUME NEW k \in Nat, Held(q, k) PROVE Held(q, k)'
    <3>1. Len(log[q]) + k \in Nat
      BY <1>a
    <3> QED
      <4>1. Behind(Append(taken[q], l), Len(log[q]) + k, Append(chan[q], l))
        BY <1>a, <2>3, <3>1, BehindAppend DEF Held
      <4> QED
        BY <1>b, <1>2, <4>1 DEF Held
  <2>4. Sent(q)' = Sent(q)
    BY <1>b DEF Sent
  <2>5. Waits(q) => Waits(q)'
    BY <1>b, <2>3, <2>4 DEF Waits
  <2>6. Carries(q) => Carries(q)'
    <3>1. ASSUME Held(q, 1) PROVE Len(log[q]) + 1 \in 1 .. Len(taken[q])
      <4>1. Len(taken[q]) = (Len(log[q]) + 1) + Len(chan[q])
        BY <3>1 DEF Held, Behind
      <4>2. \A i, j, k \in Nat : k = (i + 1) + j => i + 1 \in 1 .. k
        OBVIOUS
      <4> QED
        BY <1>a, <4>1, <4>2
    <3>2. Held(q, 1) => taken'[q][Len(log[q]) + 1] = taken[q][Len(log[q]) + 1]
      BY <2>1, <3>1
    <3> QED
      BY <1>b, <2>3, <2>4, <3>2 DEF Carries
  <2>7. ~Finishes(q) /\ (Quiet(q) => Quiet(q)')
    BY <1>b, <1>c, <2>4 DEF Finishes, Quiet
  <2> QED
    BY <1>b, <1>c, <2>2, <2>5, <2>6, <2>7 DEF Chain
<1> QED
  BY <1>1, <1>2 DEF Command, Write, End, Offer, TypeOK, CommandTypes

\* The goroutine that waits takes the first line of the channel, or learns that
\* there are no more.
LEMMA ReceiveChain ==
    ASSUME TypeOK, ChanInv, NEW q \in Runs, Receive(q), Chain(q)
    PROVE  Chain(q)'
<1>a. /\ chan[q] \in Seq(Line) /\ taken[q] \in Seq(Line)
      /\ Len(log[q]) \in Nat /\ Len(taken[q]) \in Nat
  BY RunTypes
<1>b. UNCHANGED <<taken, closed, log, done>>
  BY DEF Receive, frames
<1>c. readers[q] > 0
  BY DEF Receive
<1>1. Waits(q) /\ ~done[q] /\ Behind(taken[q], Len(log[q]), chan[q])
  BY <1>a, <1>c, RunTypes DEF Chain, Waits, Carries, Finishes, Quiet, Held
<1>2. readers'[q] = 0
  BY <1>1 DEF Receive, Waits, TypeOK, MessageTypes
<1>3. Shown(q)'
  BY <1>b DEF Chain, Shown
<1>4. CASE /\ chan[q] # <<>> /\ lineMsgs' = lineMsgs \cup {Head(chan[q])}
           /\ chan' = [chan EXCEPT ![q] = Tail(@)] /\ UNCHANGED doneMsgs
  <2> DEFINE l == Head(chan[q])
  <2>1. Len(chan[q]) \in Nat \ {0} /\ l = chan[q][1]
    BY <1>a, <1>4, EmptySeq
  <2>2. l[1] = q
    BY <2>1 DEF ChanInv
  <2>3. Sent(q)' = {l}
    BY <1>1, <1>4, <2>2 DEF Waits, Sent
  <2>4. /\ l = taken[q][Len(log[q]) + 1]
        /\ Behind(taken[q], Len(log[q]) + 1, Tail(chan[q]))
    BY <1>a, <1>1, <1>4, BehindTail
  <2>5. chan'[q] = Tail(chan[q])
    BY <1>4 DEF TypeOK, CommandTypes
  <2>6. Carries(q)'
    BY <1>1, <1>2, <1>4, <1>b, <2>3, <2>4, <2>5 DEF Waits, Carries, Held
  <2> QED
    BY <1>1, <1>3, <1>b, <2>6 DEF Chain
<1>5. CASE /\ chan[q] = <<>> /\ closed[q]
           /\ doneMsgs' = [doneMsgs EXCEPT ![q] = @ + 1] /\ UNCHANGED <<lineMsgs, chan>>
  <2>1. doneMsgs'[q] = 1 /\ Sent(q)' = {}
    BY <1>1, <1>5 DEF Waits, Sent, TypeOK, MessageTypes
  <2>2. Len(taken[q]) = Len(log[q])
    BY <1>1, <1>5, <1>a DEF Behind
  <2>3. Finishes(q)'
    BY <1>2, <1>5, <1>b, <2>1, <2>2 DEF Finishes
  <2> QED
    BY <1>1, <1>3, <1>b, <2>3 DEF Chain
<1> QED
  BY <1>4, <1>5 DEF Receive

\* What the log gets when it is given the line after those it has.
LEMMA ShownAppend ==
    ASSUME NEW g \in Seq(Line), NEW t \in Seq(Line), NEW c \in Seq(Line),
           Behind(t, Len(g) + 1, c), t[Len(g) + 1] \in Line,
           \A i \in 1 .. Len(g) : g[i] = t[i]
    PROVE  /\ Len(Append(g, t[Len(g) + 1])) = Len(g) + 1
           /\ Len(g) + 1 <= Len(t)
           /\ \A i \in 1 .. Len(g) + 1 : Append(g, t[Len(g) + 1])[i] = t[i]
<1>1. Len(g) \in Nat /\ Len(t) \in Nat /\ Len(c) \in Nat
  BY LenProperties
<1>2. Len(t) = (Len(g) + 1) + Len(c)
  BY DEF Behind
<1>3. \A i, j, k \in Nat : k = (i + 1) + j => i + 1 <= k
  OBVIOUS
<1>4. \A i \in 1 .. Len(g) + 1 : i \in 1 .. Len(g) \/ i = Len(g) + 1
  BY <1>1
<1>5. Append(g, t[Len(g) + 1])[Len(g) + 1] = t[Len(g) + 1]
  BY <1>1
<1>6. \A i \in 1 .. Len(g) : Append(g, t[Len(g) + 1])[i] = g[i]
  BY <1>1
<1> QED
  BY <1>1, <1>2, <1>3, <1>4, <1>5, <1>6

\* A line that reaches its own frame is the next one, and the frame waits again;
\* one that misses it leaves the chain without a link.
LEMMA LineChain ==
    ASSUME TypeOK, NEW l \in lineMsgs, UpdateLine(l), NEW q \in Runs, l[1] = q, Chain(q)
    PROVE  Chain(q)'
<1>a. /\ chan[q] \in Seq(Line) /\ taken[q] \in Seq(Line) /\ log[q] \in Seq(Line)
      /\ Len(log[q]) \in Nat /\ l \in Line
  BY RunTypes DEF TypeOK, MessageTypes
<1>b. UNCHANGED <<taken, chan, closed, done, doneMsgs>>
  BY DEF UpdateLine, pipes
<1>1. Carries(q) /\ ~done[q] /\ l \in Sent(q)
  BY DEF Chain, Waits, Carries, Finishes, Quiet, Sent
<1>2. l = taken[q][Len(log[q]) + 1]
  BY <1>1 DEF Carries
<1>3. Sent(q)' = {}
  BY <1>1 DEF UpdateLine, Sent, Carries
<1>4. CASE Reached = q
  <2>1. log'[q] = Append(log[q], l) /\ readers'[q] = 1
    <3>1. Reached # None
      BY <1>4, NoneIsNoRun
    <3> QED
      BY <1>1, <1>4, <3>1
         DEF UpdateLine, ShowLine, WaitForLine, TypeOK, ScreenTypes, MessageTypes, Carries
  <2>2. Behind(taken[q], Len(log[q]) + 1, chan[q])
    BY <1>1 DEF Carries, Held
  <2>3. /\ Len(log'[q]) = Len(log[q]) + 1
        /\ Len(log[q]) + 1 <= Len(taken[q])
        /\ \A i \in 1 .. Len(log[q]) + 1 : log'[q][i] = taken[q][i]
    BY <1>2, <1>a, <2>1, <2>2, ShownAppend DEF Chain, Shown
  <2>4. Shown(q)'
    BY <1>b, <2>3 DEF Shown
  <2>5. Held(q, 0)'
    <3>1. Len(log'[q]) + 0 = Len(log[q]) + 1
      BY <1>a, <2>3
    <3> QED
      BY <1>b, <2>2, <3>1 DEF Held
  <2>6. Waits(q)'
    BY <1>1, <1>3, <1>b, <2>1, <2>5 DEF Waits, Carries
  <2> QED
    BY <1>1, <1>b, <2>4, <2>6 DEF Chain
<1>5. CASE Reached # q
  <2>1. log'[q] = log[q] /\ readers'[q] = readers[q]
    <3>1. CASE Reached = None
      BY <3>1 DEF UpdateLine
    <3>2. CASE Reached # None
      BY <1>5, <3>2 DEF UpdateLine, ShowLine, WaitForLine, TypeOK, ScreenTypes, MessageTypes
    <3> QED
      BY <3>1, <3>2
  <2>2. Quiet(q)'
    BY <1>1, <1>3, <1>b, <2>1 DEF Quiet, Carries
  <2>3. Shown(q)'
    BY <1>b, <2>1 DEF Chain, Shown
  <2> QED
    BY <1>1, <1>b, <2>2, <2>3 DEF Chain
<1> QED
  BY <1>4, <1>5

\* The message that there are no more lines finds all of them in the log.
LEMMA DoneChain ==
    ASSUME TypeOK, NEW q \in Runs, UpdateDone(q), Chain(q)
    PROVE  Chain(q)'
<1>b. UNCHANGED <<taken, chan, closed, log, readers, lineMsgs>>
  BY DEF UpdateDone, pipes
<1>1. Finishes(q)
  BY DEF UpdateDone, Chain, Waits, Carries, Finishes, Quiet
<1>2. Quiet(q)'
  BY <1>1, <1>b DEF UpdateDone, Finishes, Quiet, Sent, TypeOK, MessageTypes
<1>3. Shown(q)'
  BY <1>b DEF Chain, Shown
<1> QED
  BY <1>1, <1>2, <1>3, <1>b DEF Chain, Finishes

\* A run starts with a goroutine that waits.
LEMMA StartChain ==
    ASSUME TypeOK, NEW v \in Views, Start(v), NEW q \in Runs, q = nextRun, Untouched(q)
    PROVE  Chain(q)'
<1>1. readers'[q] = 1
  BY DEF Start, WaitForLine, Untouched, Quiet, TypeOK, MessageTypes
<1>2. UNCHANGED <<chan, taken, closed, log, done, doneMsgs, lineMsgs>>
  BY DEF Start, frames
<1>3. Len(<<>>) = 0
  OBVIOUS
<1>4. Sent(q)' = {} /\ doneMsgs'[q] = 0 /\ ~done'[q]
  BY <1>2 DEF Untouched, Quiet, Sent
<1>5. chan'[q] = <<>> /\ taken'[q] = <<>> /\ log'[q] = <<>>
  BY <1>2 DEF Untouched
<1>6. Behind(<<>>, 0 + 0, <<>>)
  BY <1>3 DEF Behind
<1>7. Held(q, 0)'
  BY <1>3, <1>5, <1>6 DEF Held
<1>8. Shown(q)'
  BY <1>3, <1>5 DEF Shown
<1> QED
  BY <1>1, <1>4, <1>7, <1>8 DEF Chain, Waits

\* A frame that gets another run's message is no longer unmixed, and never will be.
LEMMA StaysMixed ==
    ASSUME [Next]_vars, NEW q \in Runs, Unmixed(q)'
    PROVE  /\ Unmixed(q)
           /\ \A l \in lineMsgs : UpdateLine(l) /\ l[1] # q => Reached # q
           /\ \A r \in Runs : UpdateDone(r) /\ r # q => Reached # q
<1>1. strays \subseteq strays'
  BY DEF Next, Command, Write, End, Receive, Stream, UpdateLine, UpdateDone, Stray, UpdateResult,
         Reset, Keys, Navigate, GoTo, Start, ShowLog, CloseLog, ClearLogs, vars
<1>2. ASSUME NEW r, Stray(r, q), r # q PROVE FALSE
  <2>1. <<r, q>> \in strays'
    BY <1>2 DEF Stray
  <2>2. <<r, q>>[2] = q
    OBVIOUS
  <2> QED
    BY <2>1, <2>2 DEF Unmixed
<1> QED
  BY <1>1, <1>2 DEF Unmixed, UpdateLine, UpdateDone

\* Every step keeps the chains of the unmixed logs.
LEMMA NextChainInv ==
    ASSUME IInv, [Next]_vars
    PROVE  ChainInv'
<1>a. TypeOK /\ ChanInv /\ UntouchedInv /\ FrameInv /\ ChainInv
  BY DEF IInv
<1> SUFFICES ASSUME NEW q \in Runs, Unmixed(q)' PROVE Chain(q)'
  BY DEF ChainInv
<1>b. Chain(q)
  BY <1>a, StaysMixed DEF ChainInv
<1>c. ASSUME Same(q) PROVE Chain(q)'
  BY <1>b, <1>c, SameProperties
<1>1. ASSUME NEW r \in Runs, Command(r) PROVE Chain(q)'
  BY <1>a, <1>b, <1>c, <1>1, CommandChain, CommandSame
<1>2. ASSUME NEW r \in Runs, Receive(r) PROVE Chain(q)'
  BY <1>a, <1>b, <1>c, <1>2, ReceiveChain, ReceiveSame
<1>3. ASSUME NEW l \in lineMsgs, UpdateLine(l) PROVE Chain(q)'
  BY <1>a, <1>b, <1>c, <1>3, LineChain, LineSame, StaysMixed
<1>4. ASSUME NEW r \in Runs, UpdateDone(r) PROVE Chain(q)'
  BY <1>a, <1>b, <1>c, <1>4, DoneChain, DoneSame, StaysMixed
<1>5. ASSUME NEW v \in Views, Start(v) PROVE Chain(q)'
  <2>1. CASE q = nextRun
    <3>1. Untouched(q)
      BY <1>a, <2>1 DEF UntouchedInv, Runs
    <3> QED
      BY <1>a, <1>5, <2>1, <3>1, StartChain
  <2>2. CASE q # nextRun
    BY <1>a, <1>c, <1>5, <2>2, StartSame
  <2> QED
    BY <2>1, <2>2
<1>6. ASSUME RunsUnchanged PROVE Chain(q)'
  BY <1>6, <1>c, RunsUnchangedSame
<1> QED
  BY <1>1, <1>2, <1>3, <1>4, <1>5, <1>6, OtherSteps DEF Next, Stream, Keys

-----------------------------------------------------------------------------
(* The theorems *)

\* The invariant holds at the start.
LEMMA InitIInv == Init => IInv
<1> SUFFICES ASSUME Init PROVE IInv
  OBVIOUS
<1>1. ChanInv /\ UntouchedInv
  BY DEF Init, ChanInv, UntouchedInv, Untouched, Quiet, Sent
<1>2. FrameInv
  BY DEF Init, FrameInv, Below, None
<1>3. ChainInv
  BY DEF Init, ChainInv, Chain, Shown, Quiet, Sent
<1> QED
  BY <1>1, <1>2, <1>3, InitTypeOK DEF IInv

\* Every step keeps it.
LEMMA NextIInv == IInv /\ [Next]_vars => IInv'
<1> SUFFICES ASSUME IInv, [Next]_vars PROVE IInv'
  OBVIOUS
<1>1. UntouchedInv'
  BY NextUntouched DEF IInv, UntouchedInv
<1> QED
  BY <1>1, NextTypeOK, NextChanInv, NextFrameInv, NextChainInv DEF IInv

\* The chain of an unmixed log has at most one link, in every reachable state.
THEOREM Invariance == Spec => []IInv
BY InitIInv, NextIInv, PTL DEF Spec

\* The invariant says that unmixed logs are faithful.
LEMMA IInvFaithful == IInv => LogIsFaithful
<1> SUFFICES ASSUME IInv, NEW r \in Runs, Unmixed(r)
             PROVE  /\ IsPrefix(log[r], taken[r])
                    /\ done[r] => closed[r] /\ log[r] = taken[r]
  BY DEF LogIsFaithful
<1>a. TypeOK /\ Chain(r)
  BY DEF IInv, ChainInv
<1>b. /\ log[r] \in Seq(Line) /\ taken[r] \in Seq(Line)
      /\ Len(log[r]) \in Nat /\ Len(taken[r]) \in Nat
  BY <1>a, RunTypes
<1>1. Len(log[r]) <= Len(taken[r]) /\ \A i \in 1 .. Len(log[r]) : log[r][i] = taken[r][i]
  BY <1>a DEF Chain, Shown
<1>2. IsPrefix(log[r], taken[r])
  <2> DEFINE a == SubSeq(log[r], 1, Len(log[r]))
             b == SubSeq(taken[r], 1, Len(log[r]))
  <2>1. /\ \A i \in 1 .. Len(log[r]) : log[r][i] \in Line
        /\ \A i \in 1 .. Len(log[r]) : taken[r][i] \in Line
    BY <1>1, <1>b, ElementOfSeq
  <2>2. /\ a \in Seq(Line) /\ b \in Seq(Line)
        /\ Len(a) = Len(log[r]) /\ Len(b) = Len(log[r])
        /\ \A i \in 1 .. Len(log[r]) : a[i] = log[r][i] /\ b[i] = taken[r][i]
    BY <1>b, <2>1, SubSeqProperties
  <2>3. a = b
    BY <1>1, <2>2, SeqEqual
  <2> QED
    BY <1>1, <2>3 DEF IsPrefix
<1>3. ASSUME done[r] PROVE closed[r] /\ log[r] = taken[r]
  BY <1>1, <1>3, <1>a, <1>b, SeqEqual DEF Chain
<1> QED
  BY <1>2, <1>3

\* A log that got no other run's messages shows the lines that its channel took, in
\* order and without a gap, and all of them when it is done: for any capacity, any
\* output and any number of runs (WaitForLine, StreamFrame.Update).
THEOREM FaithfulLogs == Spec => []LogIsFaithful
BY Invariance, IInvFaithful, PTL
=============================================================================
