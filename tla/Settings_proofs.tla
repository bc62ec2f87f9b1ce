--------------------------- MODULE Settings_proofs ---------------------------
(***************************************************************************)
(* Proofs about the configuration (Settings): the Context and the options  *)
(* of a plan are always values a plan can be run with, a switch of context *)
(* reads the file of the member it goes to, and what Resolve gives is the  *)
(* resolution chain.  For the first two the block that matches a workspace *)
(* plays no part; for the third the loop that looks for it (MatchWorkspace)*)
(* is followed block by block, and the layers merged one after the other   *)
(* (Resolve) are compared with the last layer that says something (Chain-  *)
(* Files, ChainVars, ChainOption).                                         *)
(***************************************************************************)
EXTENDS Settings, FiniteSetTheorems, FunctionTheorems, SequenceTheorems, WellFoundedInduction,
        TLAPS

-----------------------------------------------------------------------------
(* What a Context, a request and a root are made of *)

Contexts(c) ==
    [chdir : Dirs \cup {""}, workspace : Names, pins : SUBSET Addrs, dir : Dirs,
     varFiles : {c.varFiles}, vars : {c.vars}, parallelism : Nat, lock : Locks,
     timeout : {c.timeout}]

Requests == [chdir : Dirs \cup {""}, workspace : Names]

RootOK(r) == r # NoRoot => ToSet(r.members) \subseteq Dirs /\ r.parallelism \in Nat

UsedOK(u) == u # NoPlan => u.dir \in Dirs /\ u.lock \in Locks

\* The inductive invariant: the files and the command line stay those of the
\* assumption, and so do the members, the requests and the Context made of them.
Settled ==
    /\ phase \in {"start", "refused", "boot", "picker", "home", "command"}
    /\ selected \in [Dirs -> Names] /\ edits \in 0 .. MaxEdits
    /\ launch \in Launches /\ disk \in [Dirs -> Texts]
    /\ RootOK(root) /\ DOMAIN registry \subseteq Registered
    /\ ctx \in Contexts(ctx)
    /\ asked \subseteq Requests /\ IsFiniteSet(asked) /\ Cardinality(asked) <= MaxRequests
    /\ UsedOK(used) /\ (busy => used # NoPlan)

\* What the constants are, apart from the files and the command lines.
LEMMA Bounds ==
  /\ MaxRequests \in Nat /\ MaxEdits \in Nat
  /\ "." \in Dirs /\ Default \in Names
BY SettingsAssumption

\* A root file that is read names directories and a parallelism.
LEMMA LoadRootOK ==
  ASSUME NEW text \in Texts, text.kind # "broken"
  PROVE  RootOK(LoadRoot(text))
<1>1. CASE text.kind = "absent"
  BY <1>1 DEF LoadRoot, RootOK
<1>2. CASE text.kind # "absent"
  <2> DEFINE r == LoadRoot(text)
  <2>1. text \notin {Absent, Broken}
    BY <1>2 DEF Absent, Broken
  <2>2. ToSet(text.members) \subseteq Dirs /\ text.defaults.parallelism \in Nat
    BY <2>1, SettingsAssumption
  <2>3. /\ r.members = IF text.members = <<>> THEN <<".">> ELSE text.members
        /\ r.parallelism = text.defaults.parallelism
    BY <1>2 DEF LoadRoot
  <2> HIDE DEF r
  <2>4. ToSet(<<".">>) \subseteq Dirs
    <3>1. DOMAIN <<".">> = {1} /\ <<".">>[1] = "."
      OBVIOUS
    <3> QED
      BY <3>1, SettingsAssumption DEF ToSet
  <2>5. RootOK(r)
    BY <2>2, <2>3, <2>4 DEF RootOK
  <2> QED
    BY <2>5 DEF r
<1> QED
  BY <1>1, <1>2

\* No layer touches the parallelism or the lock of the root.
LEMMA ResolveKeeps ==
  ASSUME NEW r, NEW c, NEW name, RootOK(r)
  PROVE  /\ r = NoRoot => Resolve(r, c, name) = Unresolved
         /\ Resolve(r, c, name).parallelism \in Nat
<1>1. r = NoRoot => Resolve(r, c, name) = Unresolved
  BY DEF Resolve
<1>2. CASE r = NoRoot
  <2>1. Unresolved.parallelism = 0
    BY DEF Unresolved
  <2> QED
    BY <1>1, <1>2, <2>1
<1>3. CASE r # NoRoot
  <2> DEFINE Layered(l) ==
               /\ DOMAIN l = {"varFiles", "vars", "plugins", "parallelism", "lock", "timeout"}
               /\ l = [k \in DOMAIN l |-> l[k]]
               /\ l.parallelism = r.parallelism
  <2>1. Layered(FromDefaults(r))
    BY DEF FromDefaults, Unresolved
  <2>2. ASSUME NEW l, Layered(l), NEW layer
        PROVE  Layered(Merge(l, layer))
    BY <2>2 DEF Merge
  <2>3. ASSUME NEW l, Layered(l), NEW t
        PROVE  Layered([l EXCEPT !.timeout = t])
    BY <2>3
  <2>4. Layered(Resolve(r, c, name))
    <3> DEFINE top == Merge(FromDefaults(r), c)
               i   == IF name = "" THEN 0 ELSE MatchWorkspace(c.blocks, name)
               low == Merge(top, c.blocks[i])
    <3>1. Layered(top)
      <4> HIDE DEF Layered
      <4> QED
        BY <2>1, <2>2
    <3>2. \E t : \/ Resolve(r, c, name) \in {FromDefaults(r), top}
                 \/ Resolve(r, c, name) = [low EXCEPT !.timeout = t]
      BY <1>3 DEF Resolve
    <3> HIDE DEF top, Layered
    <3>3. Layered(low)
      BY <2>2, <3>1
    <3> HIDE DEF low
    <3> QED
      BY <2>1, <2>3, <3>1, <3>2, <3>3
  <2> QED
    BY <1>3, <2>4 DEF RootOK
<1> QED
  BY <1>1, <1>2, <1>3

\* The options of a plan, from a Context that is one.
LEMMA PlanOptionsOK ==
  ASSUME Settled
  PROVE  UsedOK(PlanOptions) /\ PlanOptions # NoPlan
<1>1. PlanOptions.dir = ctx.dir /\ PlanOptions.lock = Or(launch.lock, "default", ctx.lock)
  BY DEF PlanOptions
<1>2. ctx.dir \in Dirs /\ ctx.lock \in Locks
  BY DEF Settled, Contexts
<1>3. launch.lock \in Locks
  BY SettingsAssumption DEF Settled
<1>4. PlanOptions # NoPlan
  <2>1. "dir" \in DOMAIN PlanOptions
    BY DEF PlanOptions
  <2>2. "dir" \notin DOMAIN NoPlan
    BY DEF NoPlan
  <2> QED
    BY <2>1, <2>2
<1> QED
  BY <1>1, <1>2, <1>3, <1>4 DEF UsedOK, Or

-----------------------------------------------------------------------------
(* The steps *)

\* Where the program works when nothing is said, and where a request leads.
LEMMA DirsKnown ==
  ASSUME Settled
  PROVE  /\ WorkingDir \in Dirs
         /\ \A chdir \in Dirs \cup {""} : DirOf(chdir) \in Dirs
         /\ launch.chdir \in Dirs \cup {""}
<1>1. "." \in Dirs /\ Override("basedir", "") \in Dirs \cup {""}
  BY SettingsAssumption DEF Settled, Override
<1>2. WorkingDir \in Dirs
  BY <1>1 DEF WorkingDir, BaseDir
<1> QED
  BY <1>1, <1>2, SettingsAssumption DEF DirOf, Settled

\* A Context made for a request, whatever the member's file says.
LEMMA RebuiltIsContext ==
  ASSUME Settled, NEW request \in Requests, NEW c
  PROVE  RebuildContext(request, c) \in Contexts(RebuildContext(request, c))
<1>1. ASSUME NEW chdir \in Dirs \cup {""}, NEW workspace \in Names, NEW dir \in Dirs,
             NEW files, NEW vs, NEW number \in Nat, NEW lock \in Locks, NEW timeout,
             NEW new, new = [chdir |-> chdir, workspace |-> workspace, pins |-> {}, dir |-> dir,
                             varFiles |-> files, vars |-> vs, parallelism |-> number,
                             lock |-> lock, timeout |-> timeout]
      PROVE  new \in Contexts(new)
  BY <1>1 DEF Contexts
<1>2. Resolve(root, c, request.workspace).parallelism \in Nat
  BY ResolveKeeps DEF Settled
<1>3. LockModeFromPtr(Resolve(root, c, request.workspace).lock) \in Locks
  BY DEF LockModeFromPtr, Locks
<1>4. DirOf(request.chdir) \in Dirs /\ request.chdir \in Dirs \cup {""} /\ request.workspace \in Names
  BY DirsKnown DEF Requests
<1> QED
  BY <1>1, <1>2, <1>3, <1>4 DEF RebuildContext

\* A request more or less keeps the requests what they are.
LEMMA AskedKeeps ==
  ASSUME Settled, NEW r \in Requests, Cardinality(asked) < MaxRequests
  PROVE  LET more == asked \cup {r}
         IN  more \subseteq Requests /\ IsFiniteSet(more) /\ Cardinality(more) <= MaxRequests
<1>1. asked \subseteq Requests /\ IsFiniteSet(asked)
  BY DEF Settled
<1>2. /\ IsFiniteSet(asked \cup {r})
      /\ r \notin asked => Cardinality(asked \cup {r}) = Cardinality(asked) + 1
  BY <1>1, FS_AddElement
<1>3. r \in asked => asked \cup {r} = asked
  OBVIOUS
<1>4. Cardinality(asked) \in Nat /\ MaxRequests \in Nat
  BY <1>1, FS_CardinalityType, Bounds
<1>5. asked \cup {r} \subseteq Requests
  BY <1>1
<1>6. Cardinality(asked \cup {r}) <= MaxRequests
  BY <1>2, <1>3, <1>4
<1> QED
  BY <1>2, <1>5, <1>6

\* So do the requests a step sends.
LEMMA AskKeeps ==
  ASSUME Settled, NEW chdir \in Dirs \cup {""}, NEW name \in Names, Ask(chdir, name)
  PROVE  asked' \subseteq Requests /\ IsFiniteSet(asked') /\ Cardinality(asked') <= MaxRequests
<1> DEFINE r == [chdir |-> chdir, workspace |-> name]
<1>1. asked' = asked \cup {r} /\ r \in Requests /\ Cardinality(asked) < MaxRequests
  BY DEF Ask, Requests
<1> HIDE DEF r
<1> QED
  BY <1>1, AskedKeeps

\* Starting reads the root's file and builds the plugins.
LEMMA StartSettles == Settled /\ Start => Settled'
<1> SUFFICES ASSUME Settled, Start PROVE Settled'
  OBVIOUS
<1>1. /\ UNCHANGED <<launch, disk, selected, edits, ctx, asked, busy, used>>
      /\ phase' \in {"start", "refused", "boot", "picker", "home", "command"}
  BY DEF Start, external
<1>2. disk["."] \in Texts
  BY SettingsAssumption DEF Settled
<1>3. RootOK(root') /\ DOMAIN registry' \subseteq Registered
  <2>1. CASE disk["."].kind = "broken"
    BY <2>1 DEF Start, Settled
  <2>2. CASE disk["."].kind # "broken"
    <3>1. root' = LoadRoot(disk["."]) /\ registry' = Build(Resolve(root', NoChild, "").plugins)
      BY <2>2 DEF Start
    <3>2. RootOK(root')
      BY <1>2, <2>2, <3>1, LoadRootOK
    <3>3. DOMAIN registry' \subseteq Registered
      BY <3>1 DEF Build
    <3> QED
      BY <3>2, <3>3
  <2> QED
    BY <2>1, <2>2
<1> QED
  BY <1>1, <1>3 DEF Settled, RootOK, UsedOK

\* The members are directories.
LEMMA MembersKnown == Settled => Members \subseteq Dirs
BY DEF Settled, Members, RootOK

\* Every other step keeps the settings too: requests are for members and known
\* names, a Context is made of them, and a plan takes its options from it.
LEMMA StepSettles == Settled /\ [Next]_vars => Settled'
<1> SUFFICES ASSUME Settled, [Next]_vars PROVE Settled'
  OBVIOUS
<1>d. Default \in Names
  BY SettingsAssumption
<1> DEFINE Same == /\ UNCHANGED <<launch, disk, selected, edits, root, registry>>
                   /\ phase' \in {"start", "refused", "boot", "picker", "home", "command"}
           AskedOK == /\ asked' \subseteq Requests /\ IsFiniteSet(asked')
                      /\ Cardinality(asked') <= MaxRequests
           CtxOK == ctx' \in Contexts(ctx')
           UseOK == UsedOK(used') /\ (busy' => used' # NoPlan)
<1>s. ASSUME Same, AskedOK, CtxOK, UseOK PROVE Settled'
  BY <1>s DEF Settled, RootOK, UsedOK, Contexts
<1>c. UNCHANGED ctx => CtxOK
  BY DEF Settled, Contexts
<1>a. UNCHANGED asked => AskedOK
  BY DEF Settled
<1>u. UNCHANGED <<busy, used>> => UseOK
  BY DEF Settled, UsedOK
<1>r. Run => UseOK
  BY PlanOptionsOK DEF Run, UsedOK
<1> HIDE DEF CtxOK, AskedOK, UseOK
<1>1. CASE Start
  BY <1>1, StartSettles
<1>2. CASE Opened
  <2>1. Same /\ UNCHANGED ctx
    BY <1>2 DEF Opened, loaded, external, Settled
  <2>2. Run \/ UNCHANGED <<busy, used>>
    BY <1>2 DEF Opened
  <2>3. \/ UNCHANGED asked
        \/ Ask(launch.chdir, Default)
        \/ \E m \in Members : Ask(m, Default)
    BY <1>2 DEF Opened
  <2>4. AskedOK
    BY <1>a, <1>d, <2>3, AskKeeps, DirsKnown, MembersKnown DEF AskedOK
  <2> QED
    BY <1>c, <1>r, <1>s, <1>u, <2>1, <2>2, <2>4
<1>3. CASE PickMember
  <2>1. Same /\ UNCHANGED <<ctx, busy, used>>
    BY <1>3 DEF PickMember, loaded, external
  <2>2. AskedOK
    BY <1>3, <1>d, AskKeeps, MembersKnown DEF PickMember, AskedOK
  <2> QED
    BY <1>c, <1>s, <1>u, <2>1, <2>2
<1>4. CASE LeavePicker
  <2>1. Same /\ UNCHANGED <<ctx, busy, used, asked>>
    BY <1>4 DEF LeavePicker, loaded, external
  <2> QED
    BY <1>a, <1>c, <1>s, <1>u, <2>1
<1>5. CASE Plan
  <2>1. Same /\ UNCHANGED <<ctx, asked>> /\ Run
    BY <1>5 DEF Plan, loaded, external, Settled
  <2> QED
    BY <1>a, <1>c, <1>r, <1>s, <2>1
<1>6. CASE PlanEnds
  <2>1. Same /\ UNCHANGED <<ctx, asked>> /\ used' = used /\ busy' = FALSE
    BY <1>6 DEF PlanEnds, loaded, external, Settled
  <2>2. UseOK
    BY <2>1 DEF UseOK, Settled, UsedOK
  <2> QED
    BY <1>a, <1>c, <1>s, <2>1, <2>2
<1>7. ASSUME NEW w \in Names, PickWorkspace(w) PROVE Settled'
  <2>1. /\ UNCHANGED <<launch, disk, edits, root, registry, ctx, busy, used, phase>>
        /\ selected' = [selected EXCEPT ![ctx.dir] = w] /\ Ask(ctx.chdir, w)
    BY <1>7 DEF PickWorkspace, loaded
  <2>2. ctx.chdir \in Dirs \cup {""}
    BY DEF Settled, Contexts
  <2>3. asked' \subseteq Requests /\ IsFiniteSet(asked') /\ Cardinality(asked') <= MaxRequests
    BY <2>1, <2>2, AskKeeps
  <2>4. selected' \in [Dirs -> Names]
    BY <2>1 DEF Settled
  <2> QED
    BY <2>1, <2>3, <2>4 DEF Settled, RootOK, UsedOK, Contexts
<1>8. ASSUME NEW request \in asked, Switch(request) PROVE Settled'
  <2>1. Same /\ UNCHANGED <<busy, used>> /\ asked' = asked \ {request}
    BY <1>8 DEF Switch, loaded, external, Settled
  <2>2. AskedOK
    <3>1. asked \subseteq Requests /\ IsFiniteSet(asked) /\ Cardinality(asked) <= MaxRequests
      BY DEF Settled
    <3>2. asked' \subseteq asked
      BY <2>1
    <3>3. IsFiniteSet(asked') /\ Cardinality(asked') <= Cardinality(asked)
      BY <3>1, <3>2, FS_Subset
    <3>4. Cardinality(asked') \in Nat /\ Cardinality(asked) \in Nat /\ MaxRequests \in Nat
      BY <3>1, <3>3, FS_CardinalityType, SettingsAssumption
    <3> QED
      BY <3>1, <3>2, <3>3, <3>4 DEF AskedOK
  <2>3. CtxOK
    <3>1. CASE busy
      BY <1>8, <1>c, <3>1 DEF Switch
    <3>2. CASE ~busy
      <4>1. ctx' = RebuildContext(request, child') /\ request \in Requests
        BY <1>8, <3>2 DEF Switch, Settled
      <4> QED
        BY <4>1, RebuiltIsContext DEF CtxOK
    <3> QED
      BY <3>1, <3>2
  <2> QED
    BY <1>s, <1>u, <2>1, <2>2, <2>3
<1>9. ASSUME NEW a \in Addrs, TogglePins(a) PROVE Settled'
  <2>1. Same /\ UNCHANGED <<asked, busy, used>>
        /\ ctx' = [ctx EXCEPT !.pins = IF a \in @ THEN @ \ {a} ELSE @ \cup {a}]
    BY <1>9 DEF TogglePins, loaded, external, Settled
  <2>2. CtxOK
    BY <2>1 DEF CtxOK, Settled, Contexts
  <2> QED
    BY <1>a, <1>s, <1>u, <2>1, <2>2
<1>10. ASSUME NEW d \in Dirs, Edit(d) PROVE Settled'
  <2>1. /\ UNCHANGED <<launch, selected, root, registry, ctx, asked, busy, used, phase>>
        /\ edits < MaxEdits /\ edits' = edits + 1
        /\ \E text \in Texts : disk' = [disk EXCEPT ![d] = text]
    BY <1>10 DEF Edit, loaded
  <2>2. disk' \in [Dirs -> Texts]
    BY <2>1 DEF Settled
  <2>3. edits' \in 0 .. MaxEdits
    <3>1. edits \in 0 .. MaxEdits
      BY DEF Settled
    <3> QED
      BY <2>1, <3>1, Bounds
  <2> QED
    BY <2>1, <2>2, <2>3 DEF Settled, RootOK, UsedOK, Contexts
<1>11. CASE UNCHANGED vars
  BY <1>11 DEF vars, Settled, RootOK, UsedOK, Contexts
<1> QED
  BY <1>1, <1>2, <1>3, <1>4, <1>5, <1>6, <1>7, <1>8, <1>9, <1>10, <1>11 DEF Next

-----------------------------------------------------------------------------
(* The theorems *)

\* Nothing is read and nothing is asked at first.
LEMMA SettledAtFirst == Init => Settled
<1> SUFFICES ASSUME Init PROVE Settled
  OBVIOUS
<1>1. /\ launch \in Launches /\ disk \in [Dirs -> Texts] /\ selected \in [Dirs -> Names]
      /\ edits \in 0 .. MaxEdits /\ phase = "start" /\ busy = FALSE
  <2>1. 0 \in 0 .. MaxEdits
    BY Bounds
  <2> QED
    BY <2>1 DEF Init
<1>2. RootOK(root) /\ UsedOK(used) /\ DOMAIN registry \subseteq Registered
  BY DEF Init, RootOK, UsedOK, Nothing
<1>3. asked = {} /\ IsFiniteSet(asked) /\ Cardinality(asked) <= MaxRequests
  <2>1. IsFiniteSet({}) /\ Cardinality({}) = 0
    BY FS_EmptySet
  <2>2. asked = {}
    BY DEF Init
  <2> QED
    BY <2>1, <2>2, Bounds
<1>4. ctx \in Contexts(ctx)
  <2>1. launch.chdir \in Dirs \cup {""} /\ Override("basedir", "") \in Dirs \cup {""} /\ "." \in Dirs
    BY <1>1, SettingsAssumption DEF Override
  <2>2. (IF launch.chdir = "" THEN WorkingDir ELSE DirOf(launch.chdir)) \in Dirs
    BY <2>1 DEF WorkingDir, BaseDir, DirOf
  <2>3. ctx = BootContext
    BY DEF Init
  <2> QED
    BY <2>2, <2>3, SettingsAssumption DEF BootContext, Contexts, Locks
<1> QED
  BY <1>1, <1>2, <1>3, <1>4 DEF Settled

\* The Context and what a plan was run with are values a plan can be run with:
\* a known directory and workspace, one of the three lock modes, a number.
THEOREM SettingsTypesCorrect == Spec => []TypeOK
<1>1. Settled => TypeOK
  BY DEF Settled, TypeOK, Contexts, UsedOK
<1> QED
  BY <1>1, SettledAtFirst, StepSettles, PTL DEF Spec

\* A switch reads the file of the member it goes to: no other step takes a
\* request off, and what the switch resolves is what is on disk, whatever was
\* loaded before.
THEOREM SwitchesReadMember == Spec => SwitchReadsMember
<1> DEFINE Reads == \A request \in asked \ asked' :
              ~busy /\ request.chdir # "" =>
                  SettingsOf(ctx') = ResolvedFor(DirOf(request.chdir), request.workspace)
<1>1. ASSUME NEW request \in asked \ asked', [Next]_vars, ~busy, request.chdir # ""
      PROVE  SettingsOf(ctx') = ResolvedFor(DirOf(request.chdir), request.workspace)
  <2>1. Switch(request)
    <3>1. asked \subseteq asked' \/ \E r \in asked : Switch(r)
      BY <1>1 DEF Next, vars, external, Start, Opened, PickMember, LeavePicker, Plan, PlanEnds,
                  PickWorkspace, TogglePins, Edit, Ask
    <3>2. PICK r \in asked : Switch(r)
      BY <1>1, <3>1
    <3>3. asked' = asked \ {r}
      BY <3>2 DEF Switch
    <3> QED
      BY <1>1, <3>2, <3>3
  <2>2. child' = ChildFor(request) /\ ctx' = RebuildContext(request, child')
    BY <1>1, <2>1 DEF Switch
  <2>3. Resolve(root, child', request.workspace)
          = Resolve(root, LoadChild(disk[DirOf(request.chdir)]), request.workspace)
    <3>1. CASE root = NoRoot
      BY <3>1 DEF Resolve
    <3>2. CASE root # NoRoot
      BY <1>1, <2>2, <3>2 DEF ChildFor
    <3> QED
      BY <3>1, <3>2
  <2> QED
    BY <2>2, <2>3 DEF RebuildContext, SettingsOf, ResolvedFor
<1>2. [Next]_vars => [Reads]_vars
  BY <1>1
<1> HIDE DEF Reads
<1>3. Spec => [][Reads]_vars
  BY <1>2, PTL DEF Spec
<1> QED
  BY <1>3 DEF SwitchReadsMember, Reads

-----------------------------------------------------------------------------
(* Least elements *)

\* None of the sets X is inside of T.
Minimal(T, X) == \A U \in X : U \subseteq T => U = T

\* Among subsets of a finite set there is one with none of the others inside.
LEMMA LeastSubset ==
  ASSUME NEW S, IsFiniteSet(S), NEW X, X \subseteq SUBSET S, X # {}
  PROVE  \E T \in X : Minimal(T, X)
<1>1. IsWellFoundedOn(StrictSubsetOrdering(S), SUBSET S)
  BY FS_StrictSubsetOrderingWellFounded, FS_FiniteSubsetsOfFinite
<1>2. PICK T \in X : \A U \in X : ~(<<U, T>> \in StrictSubsetOrdering(S))
  BY <1>1, WFMin
<1>3. \A U \in X : U \subseteq T /\ U # T => <<U, T>> \in StrictSubsetOrdering(S)
  <2> TAKE U \in X
  <2>1. U \in SUBSET S /\ T \in SUBSET S
    OBVIOUS
  <2> QED
    BY <2>1 DEF StrictSubsetOrdering
<1>4. Minimal(T, X)
  BY <1>2, <1>3 DEF Minimal
<1> QED
  BY <1>4

\* Among natural numbers there is a least one.
LEMMA LeastNumber ==
  ASSUME NEW X, X \subseteq Nat, X # {}
  PROVE  \E n \in X : \A m \in X : n <= m
<1>1. PICK k \in X : TRUE
  OBVIOUS
<1> DEFINE Y == {1 .. m : m \in {m \in X : m <= k}}
<1>2. k \in Nat /\ IsFiniteSet(1 .. k)
  BY <1>1, FS_Interval
<1>3. Y \subseteq SUBSET (1 .. k)
  BY <1>2
<1>4. Y # {}
  <2>1. 1 .. k \in Y
    BY <1>1, <1>2
  <2> QED
    BY <2>1
<1>5. PICK T \in Y : Minimal(T, Y)
  <2>1. IsFiniteSet(1 .. k)
    BY <1>2
  <2> HIDE DEF Y
  <2> QED
    BY <2>1, <1>3, <1>4, LeastSubset
<1>6. PICK n \in X : n <= k /\ T = 1 .. n
  OBVIOUS
<1>7. ASSUME NEW m \in X, m < n
      PROVE  FALSE
  <2>1. 1 .. m \in Y /\ m \in Nat /\ n \in Nat
    BY <1>2, <1>6, <1>7
  <2>2. 1 .. m \subseteq 1 .. n
    BY <1>7, <2>1
  <2>3. 1 .. m = 1 .. n
    BY <1>5, <1>6, <2>1, <2>2 DEF Minimal
  <2>4. n \in 1 .. n /\ n \notin 1 .. m
    BY <1>7, <2>1
  <2> QED
    BY <2>3, <2>4
<1>8. \A m \in X : n <= m
  BY <1>6, <1>7
<1> QED
  BY <1>8

-----------------------------------------------------------------------------
(* How a block is matched *)

\* One turn of MatchWorkspace's loop, after m, at the i-th block.
Look(blocks, name, m, i) ==
  IF m.exact # 0 THEN m
  ELSE IF blocks[i].name = name THEN [m EXCEPT !.exact = i]
  ELSE IF m.glob = 0 /\ name \in MatchedBy(blocks[i].name) THEN [m EXCEPT !.glob = i] ELSE m

\* f is what the loop has found after each of n turns.
Looks(f, blocks, name, n) ==
  f = [i \in 0 .. n |-> IF i = 0 THEN [exact |-> 0, glob |-> 0]
                        ELSE Look(blocks, name, f[i - 1], i)]

\* Such a function there is for any number of turns.
LEMMA LooksExist ==
  ASSUME NEW blocks, NEW name, NEW N \in Nat
  PROVE  \E f : Looks(f, blocks, name, N)
<1> DEFINE none == [exact |-> 0, glob |-> 0]
           X == {m \in Nat : ~ \E f : Looks(f, blocks, name, m)}
<1>1. SUFFICES ASSUME X # {} PROVE FALSE
  OBVIOUS
<1>2. PICK m \in X : \A k \in X : m <= k
  <2>1. X \subseteq Nat
    OBVIOUS
  <2> HIDE DEF X
  <2> QED
    BY <1>1, <2>1, LeastNumber
<1>3. m \in Nat /\ ~ \E f : Looks(f, blocks, name, m)
  OBVIOUS
<1>4. m # 0
  <2> DEFINE f == [i \in 0 .. 0 |-> none]
  <2>1. f = [i \in 0 .. 0 |-> IF i = 0 THEN none ELSE Look(blocks, name, f[i - 1], i)]
    <3>1. \A i \in 0 .. 0 : i = 0
      OBVIOUS
    <3> DEFINE a(i) == IF i = 0 THEN none ELSE Look(blocks, name, f[i - 1], i)
    <3>2. \A i \in 0 .. 0 : a(i) = none
      BY <3>1
    <3> HIDE DEF a, none
    <3>3. f = [i \in 0 .. 0 |-> a(i)]
      BY <3>2
    <3> QED
      BY <3>3 DEF a
  <2> HIDE DEF f
  <2>2. Looks(f, blocks, name, 0)
    BY <2>1 DEF Looks
  <2> QED
    BY <1>3, <2>2
<1>5. m - 1 \in Nat /\ m - 1 \notin X
  <2>1. m - 1 \in Nat /\ ~(m <= m - 1)
    BY <1>3, <1>4
  <2> QED
    BY <1>2, <2>1
<1>6. PICK f : Looks(f, blocks, name, m - 1)
  BY <1>5
<1> DEFINE a(i) == IF i = 0 THEN none ELSE Look(blocks, name, f[i - 1], i)
           g == [i \in 0 .. m |-> a(i)]
           b(i) == IF i = 0 THEN none ELSE Look(blocks, name, g[i - 1], i)
<1>7. \A i \in 0 .. m - 1 : g[i] = f[i]
  <2>1. f = [i \in 0 .. m - 1 |-> a(i)]
    BY <1>6 DEF Looks
  <2>2. \A i \in 0 .. m - 1 : i \in 0 .. m
    BY <1>3
  <2> HIDE DEF a
  <2>3. \A i \in 0 .. m - 1 : f[i] = a(i)
    BY <2>1
  <2> QED
    BY <2>2, <2>3
<1>8. \A i \in 0 .. m : i # 0 => i - 1 \in 0 .. m - 1
  BY <1>3
<1>9. \A i \in 0 .. m : a(i) = b(i)
  <2> HIDE DEF g
  <2> QED
    BY <1>7, <1>8
<1>10. g = [i \in 0 .. m |-> b(i)]
  <2> HIDE DEF b, a
  <2> QED
    BY <1>9
<1> HIDE DEF g, a
<1>11. Looks(g, blocks, name, m)
  BY <1>10 DEF Looks
<1> QED
  BY <1>3, <1>11

\* The block taken is what such a function has found in the end.
LEMMA MatchLooks ==
  ASSUME NEW blocks, Len(blocks) \in Nat, NEW name
  PROVE  \E f : /\ Looks(f, blocks, name, Len(blocks))
               /\ MatchWorkspace(blocks, name)
                    = IF f[Len(blocks)].exact # 0 THEN f[Len(blocks)].exact
                      ELSE f[Len(blocks)].glob
<1> DEFINE W == CHOOSE f : f =
              [i \in 0 .. Len(blocks) |->
                 IF i = 0 THEN [exact |-> 0, glob |-> 0]
                 ELSE IF f[i - 1].exact # 0 THEN f[i - 1]
                 ELSE IF blocks[i].name = name THEN [f[i - 1] EXCEPT !.exact = i]
                 ELSE IF f[i - 1].glob = 0 /\ name \in MatchedBy(blocks[i].name)
                 THEN [f[i - 1] EXCEPT !.glob = i] ELSE f[i - 1]]
<1>1. MatchWorkspace(blocks, name)
        = IF W[Len(blocks)].exact # 0 THEN W[Len(blocks)].exact ELSE W[Len(blocks)].glob
  BY DEF MatchWorkspace
<1>2. W = CHOOSE f : Looks(f, blocks, name, Len(blocks))
  BY DEF Looks, Look
<1> HIDE DEF W
<1>3. \E f : Looks(f, blocks, name, Len(blocks))
  BY LooksExist
<1>4. Looks(W, blocks, name, Len(blocks))
  BY <1>2, <1>3
<1> QED
  BY <1>1, <1>4

\* What the loop has found after i turns: the first block with the name itself,
\* and until there is one the first that matches at all.
Found(blocks, name, m, i) ==
  /\ m \in [exact : 0 .. i, glob : 0 .. i]
  /\ m.exact = 0 => \A j \in 1 .. i : blocks[j].name # name
  /\ m.exact # 0 => /\ blocks[m.exact].name = name
                    /\ \A j \in 1 .. m.exact - 1 : blocks[j].name # name
  /\ m.exact = 0 /\ m.glob = 0 => \A j \in 1 .. i : name \notin MatchedBy(blocks[j].name)
  /\ m.exact = 0 /\ m.glob # 0 =>
       /\ name \in MatchedBy(blocks[m.glob].name)
       /\ \A j \in 1 .. m.glob - 1 : name \notin MatchedBy(blocks[j].name)

\* One turn more finds that of one block more.
LEMMA LookFinds ==
  ASSUME NEW blocks, NEW name, NEW i \in Nat \ {0}, NEW m, Found(blocks, name, m, i - 1)
  PROVE  Found(blocks, name, Look(blocks, name, m, i), i)
<1> DEFINE u == Look(blocks, name, m, i)
<1>1. /\ m \in [exact : 0 .. i - 1, glob : 0 .. i - 1] /\ m.exact \in 0 .. i - 1
      /\ m.glob \in 0 .. i - 1
  BY DEF Found
<1>2. /\ 0 .. i - 1 \subseteq 0 .. i /\ i \in 0 .. i /\ i # 0
      /\ \A j \in 1 .. i : j = i \/ j \in 1 .. i - 1
  OBVIOUS
<1>3. CASE m.exact # 0
  <2>1. u = m
    BY <1>3 DEF Look
  <2> HIDE DEF u
  <2> QED
    BY <1>1, <1>2, <1>3, <2>1 DEF Found, u
<1>4. CASE m.exact = 0 /\ blocks[i].name = name
  <2>1. u = [m EXCEPT !.exact = i]
    BY <1>4 DEF Look
  <2>2. u \in [exact : 0 .. i, glob : 0 .. i] /\ u.exact = i
    BY <1>1, <1>2, <2>1
  <2> HIDE DEF u
  <2> QED
    BY <1>2, <1>4, <2>2 DEF Found, u
<1>5. CASE /\ m.exact = 0 /\ blocks[i].name # name
           /\ m.glob = 0 /\ name \in MatchedBy(blocks[i].name)
  <2>1. u = [m EXCEPT !.glob = i]
    BY <1>5 DEF Look
  <2>2. u \in [exact : 0 .. i, glob : 0 .. i] /\ u.exact = 0 /\ u.glob = i
    BY <1>1, <1>2, <1>5, <2>1
  <2> HIDE DEF u
  <2> QED
    BY <1>2, <1>5, <2>2 DEF Found, u
<1>6. CASE /\ m.exact = 0 /\ blocks[i].name # name
           /\ ~(m.glob = 0 /\ name \in MatchedBy(blocks[i].name))
  <2>1. u = m
    BY <1>6 DEF Look
  <2> HIDE DEF u
  <2> QED
    BY <1>1, <1>2, <1>6, <2>1 DEF Found, u
<1> QED
  BY <1>3, <1>4, <1>5, <1>6

\* So the loop finds what it is to find, after any number of turns.
LEMMA LoopFinds ==
  ASSUME NEW blocks, NEW name, NEW n \in Nat, NEW f, Looks(f, blocks, name, n), NEW k \in 0 .. n
  PROVE  Found(blocks, name, f[k], k)
<1> DEFINE none == [exact |-> 0, glob |-> 0]
           X == {i \in 0 .. n : ~ Found(blocks, name, f[i], i)}
<1>1. \A i \in 0 .. n : f[i] = IF i = 0 THEN none ELSE Look(blocks, name, f[i - 1], i)
  <2>1. f = [i \in 0 .. n |-> IF i = 0 THEN none ELSE Look(blocks, name, f[i - 1], i)]
    BY DEF Looks
  <2> HIDE DEF none
  <2> QED
    BY <2>1
<1>2. Found(blocks, name, none, 0)
  BY DEF Found
<1> HIDE DEF none
<1>3. X = {}
  <2>1. SUFFICES ASSUME X # {} PROVE FALSE
    OBVIOUS
  <2>2. PICK i \in X : \A j \in X : i <= j
    <3>1. X \subseteq Nat
      OBVIOUS
    <3> HIDE DEF X
    <3> QED
      BY <2>1, <3>1, LeastNumber
  <2>3. i \in 0 .. n /\ ~ Found(blocks, name, f[i], i)
    OBVIOUS
  <2>4. i # 0
    BY <1>1, <1>2, <2>3
  <2>5. i \in Nat \ {0} /\ i - 1 \in 0 .. n /\ i - 1 \notin X
    <3>1. i \in Nat \ {0} /\ i - 1 \in 0 .. n /\ ~(i <= i - 1)
      BY <2>3, <2>4
    <3> QED
      BY <2>2, <3>1
  <2>6. Found(blocks, name, f[i - 1], i - 1)
    BY <2>5
  <2>7. Found(blocks, name, Look(blocks, name, f[i - 1], i), i)
    BY <2>5, <2>6, LookFinds
  <2> QED
    BY <1>1, <2>3, <2>4, <2>7
<1> QED
  BY <1>3

\* The blocks that match a name, and of them the one the guide prefers, as Layers
\* has them.
Hits(blocks, name) == {i \in DOMAIN blocks : name \in MatchedBy(blocks[i].name)}
Best(blocks, name) ==
  {i \in Hits(blocks, name) : \A j \in Hits(blocks, name) : Prefers(blocks, name, i, j)}

\* MatchWorkspace takes the one preferred, if any matches.
LEMMA MatchIsBest ==
  ASSUME NEW blocks, Len(blocks) \in Nat, DOMAIN blocks = 1 .. Len(blocks),
         NEW name, name \in MatchedBy(name)
  PROVE  LET m == MatchWorkspace(blocks, name)
         IN  \/ m = 0 /\ Best(blocks, name) = {}
             \/ m # 0 /\ m \in DOMAIN blocks /\ Best(blocks, name) = {m}
<1> DEFINE n == Len(blocks)
           m == MatchWorkspace(blocks, name)
           H == Hits(blocks, name)
<1>1. PICK f : Looks(f, blocks, name, n) /\ m = IF f[n].exact # 0 THEN f[n].exact ELSE f[n].glob
  BY MatchLooks
<1> DEFINE e == f[n].exact
           g == f[n].glob
<1>2. Found(blocks, name, f[n], n)
  <2>1. n \in 0 .. n
    OBVIOUS
  <2> QED
    BY <1>1, <2>1, LoopFinds
<1>3. /\ e \in 0 .. n /\ g \in 0 .. n
      /\ e = 0 => \A j \in 1 .. n : blocks[j].name # name
      /\ e # 0 => blocks[e].name = name /\ \A j \in 1 .. e - 1 : blocks[j].name # name
      /\ e = 0 /\ g = 0 => \A j \in 1 .. n : name \notin MatchedBy(blocks[j].name)
      /\ e = 0 /\ g # 0 => /\ name \in MatchedBy(blocks[g].name)
                           /\ \A j \in 1 .. g - 1 : name \notin MatchedBy(blocks[j].name)
  BY <1>2 DEF Found
<1>4. /\ H \subseteq 1 .. n /\ n \in Nat
      /\ \A j \in 1 .. n : j \in H <=> name \in MatchedBy(blocks[j].name)
      /\ \A j \in 1 .. n : blocks[j].name = name => j \in H
  BY DEF Hits
<1>5. m = IF e # 0 THEN e ELSE g
  BY <1>1
<1> HIDE DEF e, g, m, n, H
<1>6. CASE e # 0
  <2>1. e \in 1 .. n /\ e \in H /\ blocks[e].name = name
    BY <1>3, <1>4, <1>6
  <2>2. ASSUME NEW j \in H
        PROVE  Prefers(blocks, name, e, j)
    <3>1. CASE blocks[j].name = name
      <4>1. e <= j
        BY <1>3, <1>4, <1>6, <2>1, <3>1
      <4> QED
        BY <2>1, <3>1, <4>1 DEF Prefers, Exact
    <3>2. CASE blocks[j].name # name
      BY <2>1, <3>2 DEF Prefers, Exact
    <3> QED
      BY <3>1, <3>2
  <2>3. ASSUME NEW i \in H, Prefers(blocks, name, i, e)
        PROVE  i = e
    <3>1. blocks[i].name = name /\ i <= e
      BY <2>1, <2>3 DEF Prefers, Exact
    <3> QED
      BY <1>3, <1>4, <1>6, <2>1, <3>1
  <2>4. Best(blocks, name) = {e}
    BY <2>1, <2>2, <2>3 DEF Best, H
  <2> QED
    BY <1>5, <1>6, <2>1, <2>4 DEF m, n
<1>7. CASE e = 0 /\ g # 0
  <2>1. g \in 1 .. n /\ g \in H
    BY <1>3, <1>4, <1>7
  <2>2. \A j \in H : g <= j /\ blocks[j].name # name
    BY <1>3, <1>4, <1>7, <2>1
  <2>3. \A i, j \in H : Prefers(blocks, name, i, j) <=> i <= j
    BY <2>2 DEF Prefers, Exact
  <2>4. \A i \in H : i <= g => i = g
    BY <1>4, <2>1, <2>2
  <2>5. Best(blocks, name) = {g}
    BY <2>1, <2>2, <2>3, <2>4 DEF Best, H
  <2> QED
    BY <1>5, <1>7, <2>1, <2>5 DEF m, n
<1>8. CASE e = 0 /\ g = 0
  <2>1. H = {}
    BY <1>3, <1>4, <1>8
  <2>2. Best(blocks, name) = {}
    BY <2>1 DEF Best, H
  <2> QED
    BY <1>5, <1>8, <2>2 DEF m
<1> QED
  BY <1>6, <1>7, <1>8

-----------------------------------------------------------------------------
(* The resolution chain *)

\* Sets of one element as sequences.
LEMMA OneToSeq ==
  ASSUME NEW b
  PROVE  SetToSeq({b}) = <<b>>
<1> DEFINE F == [1 .. Cardinality({b}) -> {b}]
           one == [i \in 1 .. 1 |-> b]
<1>1. Cardinality({b}) = 1
  BY FS_Singleton
<1>2. \A f \in F : f = one
  BY <1>1
<1>3. one \in F /\ IsInjective(one)
  BY <1>1 DEF IsInjective
<1>4. SetToSeq({b}) \in F
  BY <1>3 DEF SetToSeq
<1>5. one = <<b>>
  OBVIOUS
<1> QED
  BY <1>2, <1>4, <1>5

\* The set without elements as a sequence.
LEMMA NoneToSeq == SetToSeq({}) = <<>>
<1> DEFINE F == [1 .. Cardinality({}) -> {}]
           none == [i \in 1 .. 0 |-> 0]
<1>1. Cardinality({}) = 0
  BY FS_EmptySet
<1>2. \A f \in F : f = none
  BY <1>1
<1>3. none \in F /\ IsInjective(none)
  BY <1>1 DEF IsInjective
<1>4. SetToSeq({}) \in F
  BY <1>3 DEF SetToSeq
<1>5. none = <<>>
  OBVIOUS
<1> QED
  BY <1>2, <1>4, <1>5

\* A pair and one more.
LEMMA OneMore ==
  ASSUME NEW a, NEW b, NEW c
  PROVE  <<a, b>> \o <<c>> = <<a, b, c>>
<1> DEFINE X == {a, b, c}
           s == <<a, b>>
           t == <<c>>
           u == <<a, b, c>>
           w == s \o t
<1>1. /\ s \in Seq(X) /\ Len(s) = 2 /\ s[1] = a /\ s[2] = b
      /\ t \in Seq(X) /\ Len(t) = 1 /\ t[1] = c
      /\ u \in Seq(X) /\ Len(u) = 3 /\ u[1] = a /\ u[2] = b /\ u[3] = c
  OBVIOUS
<1> HIDE DEF X, s, t, u
<1>2. /\ w \in Seq(X) /\ Len(w) = Len(s) + Len(t)
      /\ \A i \in 1 .. Len(s) + Len(t) : w[i] = IF i <= Len(s) THEN s[i] ELSE t[i - Len(s)]
  BY <1>1, ConcatProperties, Zenon
<1> HIDE DEF w
<1>3. Len(w) = 3
  BY <1>1, <1>2
<1>4. w[1] = a /\ w[2] = b /\ w[3] = c
  BY <1>1, <1>2
<1>5. w = u
  <2>1. \A i \in 1 .. 3 : w[i] = u[i]
    BY <1>1, <1>4
  <2> QED
    BY <1>1, <1>2, <1>3, <2>1, SeqEqual
<1> QED
  BY <1>5 DEF s, t, u, w

\* The layers: the root, the member's file if it loads, the block that matches.
LEMMA LayersAre ==
  ASSUME NEW r, NEW c, NEW name, name \in MatchedBy(name),
         c # NoChild => Len(c.blocks) \in Nat /\ DOMAIN c.blocks = 1 .. Len(c.blocks)
  PROVE  LET m == MatchWorkspace(c.blocks, name)
         IN  /\ c = NoChild => Layers(r, c, name) = <<r>>
             /\ c # NoChild /\ m = 0 => Layers(r, c, name) = <<r, c>>
             /\ c # NoChild /\ m # 0 => Layers(r, c, name) = <<r, c, c.blocks[m]>>
<1> DEFINE m == MatchWorkspace(c.blocks, name)
           B == Best(c.blocks, name)
           S == SetToSeq({c.blocks[i] : i \in B})
<1>1. Layers(r, c, name) = IF c = NoChild THEN <<r>> ELSE <<r, c>> \o S
  BY DEF Layers, Best, Hits
<1>2. ASSUME c # NoChild
      PROVE  \/ m = 0 /\ B = {}
             \/ m # 0 /\ B = {m}
  BY <1>2, MatchIsBest
<1>3. ASSUME B = {}
      PROVE  S = <<>>
  <2>1. {c.blocks[i] : i \in B} = {}
    BY <1>3
  <2> QED
    BY <2>1, NoneToSeq
<1>4. ASSUME B = {m}
      PROVE  S = <<c.blocks[m]>>
  <2>1. {c.blocks[i] : i \in B} = {c.blocks[m]}
    BY <1>4
  <2> QED
    BY <2>1, OneToSeq
<1> HIDE DEF m, B, S
<1>5. <<r, c>> \o <<>> = <<r, c>>
  OBVIOUS
<1>6. /\ c = NoChild => Layers(r, c, name) = <<r>>
      /\ c # NoChild /\ m = 0 => Layers(r, c, name) = <<r, c>>
      /\ c # NoChild /\ m # 0 => Layers(r, c, name) = <<r, c, c.blocks[m]>>
  BY <1>1, <1>2, <1>3, <1>4, <1>5, OneMore
<1> QED
  BY <1>6 DEF m

\* A sequence and one after it, which the proofs below have no need to look into.
Then(files, more) == files \o more

\* The files of up to three layers, in their order.
LEMMA FilesInOrder ==
  ASSUME NEW s, NEW n \in 1 .. 3, DOMAIN s = 1 .. n
  PROVE  /\ n = 1 => ChainFiles(s) = s[1].varFiles
         /\ n = 2 => ChainFiles(s) = Then(s[1].varFiles, s[2].varFiles)
         /\ n = 3 => ChainFiles(s) = Then(Then(s[1].varFiles, s[2].varFiles), s[3].varFiles)
<1> DEFINE all == [i \in DOMAIN s |-> s[i].varFiles]
           one == s[1].varFiles
           two == Then(s[1].varFiles, s[2].varFiles)
           three == Then(two, s[3].varFiles)
           Flat(f) == f = [i \in 1 .. Len(all) |-> IF i = 1 THEN all[i] ELSE Then(f[i - 1], all[i])]
           f == CHOOSE h : Flat(h)
           g == [i \in 1 .. n |-> IF i = 1 THEN one ELSE IF i = 2 THEN two ELSE three]
<1>1. Len(all) = n /\ \A i \in 1 .. n : all[i] = s[i].varFiles
  OBVIOUS
<1>2. ChainFiles(s) = FlattenSeq(all)
  BY DEF ChainFiles
<1>3. FlattenSeq(all) = IF Len(all) = 0 THEN all ELSE f[Len(all)]
  BY Zenon DEF FlattenSeq, Then
<1>4. ChainFiles(s) = f[n]
  <2> HIDE DEF all, f
  <2> QED
    BY <1>1, <1>2, <1>3
<1> HIDE DEF all
<1>5. Flat(g)
  <2> HIDE DEF one, two, three
  <2>1. /\ n >= 2 => g[2] = Then(g[1], s[2].varFiles)
        /\ n >= 3 => g[3] = Then(g[2], s[3].varFiles)
        /\ g[1] = s[1].varFiles
    BY DEF one, two, three
  <2>2. g = [i \in 1 .. n |-> g[i]]
    OBVIOUS
  <2> HIDE DEF g
  <2>3. ASSUME NEW i \in 1 .. n
        PROVE  g[i] = IF i = 1 THEN all[i] ELSE Then(g[i - 1], all[i])
    <3>1. i = 1 \/ (i = 2 /\ i - 1 = 1 /\ n >= 2) \/ (i = 3 /\ i - 1 = 2 /\ n >= 3)
      OBVIOUS
    <3> QED
      BY <1>1, <2>1, <3>1
  <2> QED
    BY <1>1, <2>2, <2>3
<1>6. Flat(f)
  <2> HIDE DEF g, Flat
  <2> QED
    BY <1>5
<1> HIDE DEF f
<1>7. /\ f[1] = one
      /\ n >= 2 => f[2] = Then(f[1], s[2].varFiles)
      /\ n >= 3 => f[3] = Then(f[2], s[3].varFiles)
  <2>1. \A i \in 1 .. n : f[i] = IF i = 1 THEN all[i] ELSE Then(f[i - 1], all[i])
    BY <1>1, <1>6
  <2>2. f[1] = all[1]
    BY <2>1
  <2>3. n >= 2 => f[2] = Then(f[1], all[2])
    BY <2>1
  <2>4. n >= 3 => f[3] = Then(f[2], all[3])
    BY <2>1
  <2> QED
    BY <1>1, <2>2, <2>3, <2>4
<1> QED
  BY <1>4, <1>7

\* The last of up to three layers in a set.
LEMMA LastOfThree ==
  ASSUME NEW n \in 1 .. 3, NEW H, H \subseteq 1 .. n, H # {}
  PROVE  \E l \in H : /\ \A j \in l + 1 .. n : j \notin H
                      /\ \A i \in H : (\A j \in i + 1 .. n : j \notin H) => i = l
                      /\ l = IF 3 \in H THEN 3 ELSE IF 2 \in H THEN 2 ELSE 1
<1> DEFINE l == IF 3 \in H THEN 3 ELSE IF 2 \in H THEN 2 ELSE 1
<1>1. \A i \in H : i \in {1, 2, 3}
  OBVIOUS
<1>2. l \in H
  BY <1>1
<1>3. \A i \in H : i <= l
  BY <1>1
<1>4. \A j \in l + 1 .. n : j \notin H
  BY <1>3
<1>5. ASSUME NEW i \in H, \A j \in i + 1 .. n : j \notin H
      PROVE  i = l
  BY <1>2, <1>3, <1>5
<1> QED
  BY <1>2, <1>4, <1>5

\* Of a variable the value of the last layer that gives one.
LEMMA VarsOfLast ==
  ASSUME NEW s, NEW n \in 1 .. 3, DOMAIN s = 1 .. n, Len(s) = n
  PROVE  /\ n = 1 => ChainVars(s) = [k \in DOMAIN s[1].vars |-> s[1].vars[k]]
         /\ n = 2 => ChainVars(s) = Over(s[2].vars, s[1].vars)
         /\ n = 3 => ChainVars(s) = Over(s[3].vars, Over(s[2].vars, s[1].vars))
<1> DEFINE H(k) == {i \in 1 .. n : k \in DOMAIN s[i].vars}
           Is(k, i) == k \in DOMAIN s[i].vars /\ \A j \in i + 1 .. Len(s) : ~(k \in DOMAIN s[j].vars)
           at(k) == CHOOSE i \in DOMAIN s : Is(k, i)
           Keys == UNION {DOMAIN s[i].vars : i \in DOMAIN s}
<1>1. ChainVars(s) = [k \in Keys |-> s[at(k)].vars[k]]
  BY Zenon DEF ChainVars, LastOf
<1>2. ASSUME NEW k \in Keys
      PROVE  at(k) = IF 3 \in H(k) THEN 3 ELSE IF 2 \in H(k) THEN 2 ELSE 1
  <2>1. H(k) \subseteq 1 .. n /\ H(k) # {}
    BY <1>2
  <2>2. \A i \in DOMAIN s : Is(k, i) <=> i \in H(k) /\ \A j \in i + 1 .. n : j \notin H(k)
    OBVIOUS
  <2> HIDE DEF Is, H
  <2>3. PICK l \in H(k) :
          /\ \A j \in l + 1 .. n : j \notin H(k)
          /\ \A i \in H(k) : (\A j \in i + 1 .. n : j \notin H(k)) => i = l
          /\ l = IF 3 \in H(k) THEN 3 ELSE IF 2 \in H(k) THEN 2 ELSE 1
    BY <2>1, LastOfThree
  <2>4. l \in DOMAIN s /\ Is(k, l)
    BY <2>1, <2>2, <2>3
  <2>5. at(k) \in DOMAIN s /\ Is(k, at(k))
    BY <2>4
  <2> HIDE DEF at
  <2> QED
    BY <2>2, <2>3, <2>5
<1> HIDE DEF at
<1>3. \A k : k \in Keys <=> \E i \in 1 .. n : k \in DOMAIN s[i].vars
  OBVIOUS
<1>4. \A k : \A i \in 1 .. 3 : i \in H(k) <=> i <= n /\ k \in DOMAIN s[i].vars
  OBVIOUS
<1> HIDE DEF Keys, H
<1>5. CASE n = 1
  <2>1. Keys = DOMAIN s[1].vars
    BY <1>3, <1>5
  <2>2. \A k \in Keys : at(k) = 1
    BY <1>2, <1>4, <1>5
  <2> QED
    BY <1>1, <1>5, <2>1, <2>2
<1>6. CASE n = 2
  <2>1. Keys = DOMAIN s[2].vars \cup DOMAIN s[1].vars
    BY <1>3, <1>6
  <2>2. \A k \in Keys : at(k) = IF k \in DOMAIN s[2].vars THEN 2 ELSE 1
    BY <1>2, <1>4, <1>6
  <2>3. \A k \in Keys : s[at(k)].vars[k] = IF k \in DOMAIN s[2].vars THEN s[2].vars[k] ELSE s[1].vars[k]
    BY <2>2
  <2> QED
    BY <1>1, <1>6, <2>1, <2>3 DEF Over
<1>7. CASE n = 3
  <2> DEFINE low == Over(s[2].vars, s[1].vars)
  <2>1. Keys = DOMAIN s[3].vars \cup (DOMAIN s[2].vars \cup DOMAIN s[1].vars)
    BY <1>3, <1>7
  <2>2. \A k \in Keys : at(k) = IF k \in DOMAIN s[3].vars THEN 3
                                ELSE IF k \in DOMAIN s[2].vars THEN 2 ELSE 1
    BY <1>2, <1>4, <1>7
  <2>3. /\ DOMAIN low = DOMAIN s[2].vars \cup DOMAIN s[1].vars
        /\ \A k \in DOMAIN low :
              low[k] = IF k \in DOMAIN s[2].vars THEN s[2].vars[k] ELSE s[1].vars[k]
    BY DEF Over
  <2> HIDE DEF low
  <2>4. \A k \in Keys : s[at(k)].vars[k] = IF k \in DOMAIN s[3].vars THEN s[3].vars[k] ELSE low[k]
    BY <2>1, <2>2, <2>3
  <2>5. ChainVars(s) = Over(s[3].vars, low)
    BY <1>1, <2>1, <2>3, <2>4 DEF Over
  <2> QED
    BY <1>7, <2>5 DEF low
<1> QED
  BY <1>5, <1>6, <1>7

\* What a layer says of an option.
Sets(plugins, p, o) == p \in DOMAIN plugins /\ o \in DOMAIN plugins[p].options

\* A layer laid over others sets its own options and leaves the rest.
LEMMA MergeOption ==
  ASSUME NEW have, NEW more, NEW p, NEW o
  PROVE  LET merged == MergePlugins(have, more)
         IN  /\ Sets(merged, p, o) <=> Sets(have, p, o) \/ Sets(more, p, o)
             /\ Sets(merged, p, o) =>
                  merged[p].options[o] = IF Sets(more, p, o) THEN more[p].options[o]
                                         ELSE have[p].options[o]
<1> DEFINE merged == MergePlugins(have, more)
<1>1. DOMAIN merged = DOMAIN have \cup DOMAIN more
  BY DEF MergePlugins
<1>2. CASE p \notin DOMAIN have \cup DOMAIN more
  BY <1>1, <1>2 DEF Sets
<1>3. CASE p \in DOMAIN have /\ p \notin DOMAIN more
  <2>1. merged[p] = have[p]
    BY <1>3 DEF MergePlugins
  <2> QED
    BY <1>1, <1>3, <2>1 DEF Sets
<1>4. CASE p \in DOMAIN more /\ p \notin DOMAIN have
  <2>1. merged[p] = more[p]
    BY <1>4 DEF MergePlugins
  <2> QED
    BY <1>1, <1>4, <2>1 DEF Sets
<1>5. CASE p \in DOMAIN more /\ p \in DOMAIN have
  <2>1. merged[p].options = Over(more[p].options, have[p].options)
    BY <1>5 DEF MergePlugins
  <2> QED
    BY <1>1, <1>5, <2>1 DEF Sets, Over
<1> QED
  BY <1>2, <1>3, <1>4, <1>5

\* Of an option of a plugin the value of the last layer that sets it.
LEMMA OptionOfLast ==
  ASSUME NEW s, NEW n \in 1 .. 3, DOMAIN s = 1 .. n, Len(s) = n, NEW p, NEW o
  PROVE  LET two   == MergePlugins(s[1].plugins, s[2].plugins)
             three == MergePlugins(two, s[3].plugins)
         IN  /\ n = 1 /\ Sets(s[1].plugins, p, o) =>
                  ChainOption(s, p, o) = s[1].plugins[p].options[o]
             /\ n = 2 /\ Sets(two, p, o) => ChainOption(s, p, o) = two[p].options[o]
             /\ n = 3 /\ Sets(three, p, o) => ChainOption(s, p, o) = three[p].options[o]
<1> DEFINE two   == MergePlugins(s[1].plugins, s[2].plugins)
           three == MergePlugins(two, s[3].plugins)
           H == {i \in 1 .. n : Sets(s[i].plugins, p, o)}
           Is(i) == /\ p \in DOMAIN s[i].plugins /\ o \in DOMAIN s[i].plugins[p].options
                    /\ \A j \in i + 1 .. Len(s) :
                          ~(p \in DOMAIN s[j].plugins /\ o \in DOMAIN s[j].plugins[p].options)
           at == CHOOSE i \in DOMAIN s : Is(i)
<1>1. ChainOption(s, p, o) = s[at].plugins[p].options[o]
  BY Zenon DEF ChainOption, LastOf
<1>2. ASSUME H # {}
      PROVE  at = IF 3 \in H THEN 3 ELSE IF 2 \in H THEN 2 ELSE 1
  <2>1. H \subseteq 1 .. n
    OBVIOUS
  <2>2. \A i \in DOMAIN s : Is(i) <=> i \in H /\ \A j \in i + 1 .. n : j \notin H
    BY DEF Sets
  <2> HIDE DEF Is, H
  <2>3. PICK l \in H :
          /\ \A j \in l + 1 .. n : j \notin H
          /\ \A i \in H : (\A j \in i + 1 .. n : j \notin H) => i = l
          /\ l = IF 3 \in H THEN 3 ELSE IF 2 \in H THEN 2 ELSE 1
    BY <1>2, <2>1, LastOfThree
  <2>4. l \in DOMAIN s /\ Is(l)
    BY <2>1, <2>2, <2>3
  <2>5. at \in DOMAIN s /\ Is(at)
    BY <2>4
  <2> HIDE DEF at
  <2> QED
    BY <2>2, <2>3, <2>5
<1> HIDE DEF at
<1>3. \A i \in 1 .. 3 : i \in H <=> i <= n /\ Sets(s[i].plugins, p, o)
  OBVIOUS
<1> HIDE DEF H
<1>4. /\ Sets(two, p, o) <=> Sets(s[1].plugins, p, o) \/ Sets(s[2].plugins, p, o)
      /\ Sets(two, p, o) =>
            two[p].options[o] = IF Sets(s[2].plugins, p, o) THEN s[2].plugins[p].options[o]
                                ELSE s[1].plugins[p].options[o]
  BY MergeOption
<1>5. /\ Sets(three, p, o) <=> Sets(two, p, o) \/ Sets(s[3].plugins, p, o)
      /\ Sets(three, p, o) =>
            three[p].options[o] = IF Sets(s[3].plugins, p, o) THEN s[3].plugins[p].options[o]
                                  ELSE two[p].options[o]
  <2> HIDE DEF two
  <2> QED
    BY MergeOption
<1> HIDE DEF two, three
<1>6. CASE n = 1
  <2>1. Sets(s[1].plugins, p, o) => 1 \in H /\ at = 1
    BY <1>2, <1>3, <1>6
  <2> QED
    BY <1>1, <1>6, <2>1
<1>7. CASE n = 2
  <2>1. Sets(two, p, o) => H # {} /\ at = IF Sets(s[2].plugins, p, o) THEN 2 ELSE 1
    BY <1>2, <1>3, <1>4, <1>7
  <2>2. n = 2 /\ Sets(two, p, o) => ChainOption(s, p, o) = two[p].options[o]
    BY <1>1, <1>4, <2>1
  <2> QED
    BY <1>7, <2>2 DEF two
<1>8. CASE n = 3
  <2>1. Sets(three, p, o) => H # {}
    BY <1>3, <1>4, <1>5, <1>8
  <2>2. Sets(three, p, o) => at = IF Sets(s[3].plugins, p, o) THEN 3
                                  ELSE IF Sets(s[2].plugins, p, o) THEN 2 ELSE 1
    BY <1>2, <1>3, <1>8, <2>1
  <2>3. n = 3 /\ Sets(three, p, o) => ChainOption(s, p, o) = three[p].options[o]
    BY <1>1, <1>4, <1>5, <2>2
  <2> QED
    BY <1>8, <2>3 DEF two, three
<1> QED
  BY <1>6, <1>7, <1>8

\* A record with the fields of a resolved configuration.
Fielded(q) == DOMAIN q = DOMAIN Unresolved /\ q = [k \in DOMAIN q |-> q[k]]

\* A layer laid over what is there.
LEMMA MergeIs ==
  ASSUME NEW low, Fielded(low), NEW layer
  PROVE  LET top == Merge(low, layer)
         IN  /\ Fielded(top)
             /\ top.varFiles = Then(low.varFiles, layer.varFiles)
             /\ top.vars = Over(layer.vars, low.vars)
             /\ top.plugins = MergePlugins(low.plugins, layer.plugins)
             /\ top.parallelism = low.parallelism /\ top.lock = low.lock
             /\ top.timeout = low.timeout
<1> DEFINE files == Then(low.varFiles, layer.varFiles)
           vs == Over(layer.vars, low.vars)
           ps == MergePlugins(low.plugins, layer.plugins)
           top == [low EXCEPT !.varFiles = files, !.vars = vs, !.plugins = ps]
<1>1. Merge(low, layer) = top
  BY DEF Merge, Then
<1> HIDE DEF files, vs, ps
<1>2. DOMAIN Unresolved = {"varFiles", "vars", "plugins", "parallelism", "lock", "timeout"}
  BY DEF Unresolved
<1>3. /\ Fielded(top)
      /\ top.varFiles = files /\ top.vars = vs /\ top.plugins = ps
      /\ top.parallelism = low.parallelism /\ top.lock = low.lock
      /\ top.timeout = low.timeout
  BY <1>2 DEF Fielded
<1> HIDE DEF top
<1> QED
  BY <1>1, <1>3 DEF files, vs, ps

\* A configuration q is the layers laid one over the other: the root r, the file c of
\* the member unless there is none, and of its blocks the m-th unless none matches.
LaidOver(q, r, c, m, b) ==
  /\ q.parallelism = r.parallelism /\ q.lock = r.lock
  /\ c = NoChild => /\ q.varFiles = r.varFiles /\ q.vars = r.vars
                    /\ q.plugins = r.plugins /\ q.timeout = ""
  /\ c # NoChild /\ m = 0 => /\ q.varFiles = Then(r.varFiles, c.varFiles)
                             /\ q.vars = Over(c.vars, r.vars)
                             /\ q.plugins = MergePlugins(r.plugins, c.plugins)
                             /\ q.timeout = ""
  /\ c # NoChild /\ m # 0 =>
       /\ q.varFiles = Then(Then(r.varFiles, c.varFiles), b.varFiles)
       /\ q.vars = Over(b.vars, Over(c.vars, r.vars))
       /\ q.plugins = MergePlugins(MergePlugins(r.plugins, c.plugins), b.plugins)
       /\ q.timeout = b.timeout

\* That is what Resolve does.
LEMMA ResolveLayers ==
  ASSUME NEW r, r # NoRoot, NEW c, NEW name, name # ""
  PROVE  LET m == MatchWorkspace(c.blocks, name)
         IN  LaidOver(Resolve(r, c, name), r, c, m, c.blocks[m])
<1> DEFINE q == Resolve(r, c, name)
           m == MatchWorkspace(c.blocks, name)
           b == c.blocks[m]
           base == FromDefaults(r)
           top == Merge(base, c)
           low == Merge(top, b)
           end == [low EXCEPT !.timeout = IF b.timeout = "" THEN @ ELSE b.timeout]
<1>1. /\ c = NoChild => q = base
      /\ c # NoChild /\ m = 0 => q = top
      /\ c # NoChild /\ m # 0 => q = end
  BY DEF Resolve
<1>2. /\ Fielded(base)
      /\ base.varFiles = r.varFiles /\ base.vars = r.vars /\ base.plugins = r.plugins
      /\ base.parallelism = r.parallelism /\ base.lock = r.lock /\ base.timeout = ""
  BY DEF FromDefaults, Unresolved, Fielded
<1> HIDE DEF q, m, b, base
<1>3. /\ Fielded(top)
      /\ top.varFiles = Then(r.varFiles, c.varFiles) /\ top.vars = Over(c.vars, r.vars)
      /\ top.plugins = MergePlugins(r.plugins, c.plugins)
      /\ top.parallelism = r.parallelism /\ top.lock = r.lock /\ top.timeout = ""
  <2>1. /\ Fielded(top)
        /\ top.varFiles = Then(base.varFiles, c.varFiles) /\ top.vars = Over(c.vars, base.vars)
        /\ top.plugins = MergePlugins(base.plugins, c.plugins)
        /\ top.parallelism = base.parallelism /\ top.lock = base.lock
        /\ top.timeout = base.timeout
    BY <1>2, MergeIs, Zenon
  <2> HIDE DEF top
  <2> QED
    BY <1>2, <2>1
<1> HIDE DEF top
<1>4. /\ Fielded(low)
      /\ low.varFiles = Then(top.varFiles, b.varFiles) /\ low.vars = Over(b.vars, top.vars)
      /\ low.plugins = MergePlugins(top.plugins, b.plugins)
      /\ low.parallelism = r.parallelism /\ low.lock = r.lock /\ low.timeout = ""
  <2>1. /\ Fielded(low)
        /\ low.varFiles = Then(top.varFiles, b.varFiles) /\ low.vars = Over(b.vars, top.vars)
        /\ low.plugins = MergePlugins(top.plugins, b.plugins)
        /\ low.parallelism = top.parallelism /\ low.lock = top.lock
        /\ low.timeout = top.timeout
    BY <1>3, MergeIs, Zenon
  <2> HIDE DEF low
  <2> QED
    BY <1>3, <2>1
<1> HIDE DEF low
<1>5. /\ end.varFiles = low.varFiles /\ end.vars = low.vars /\ end.plugins = low.plugins
      /\ end.parallelism = low.parallelism /\ end.lock = low.lock
      /\ end.timeout = IF b.timeout = "" THEN low.timeout ELSE b.timeout
  <2>1. DOMAIN low = {"varFiles", "vars", "plugins", "parallelism", "lock", "timeout"}
    BY <1>4 DEF Unresolved, Fielded
  <2> QED
    BY <2>1
<1> HIDE DEF end
<1>6. end.timeout = b.timeout
  BY <1>4, <1>5
<1>7. q.parallelism = r.parallelism /\ q.lock = r.lock
  BY <1>1, <1>2, <1>3, <1>4, <1>5
<1>8. c = NoChild => /\ q.varFiles = r.varFiles /\ q.vars = r.vars
                     /\ q.plugins = r.plugins /\ q.timeout = ""
  BY <1>1, <1>2
<1>9. c # NoChild /\ m = 0 =>
         /\ q.varFiles = Then(r.varFiles, c.varFiles)
         /\ q.vars = Over(c.vars, r.vars)
         /\ q.plugins = MergePlugins(r.plugins, c.plugins)
         /\ q.timeout = ""
  BY <1>1, <1>3
<1>10. c # NoChild /\ m # 0 =>
         /\ q.varFiles = Then(Then(r.varFiles, c.varFiles), b.varFiles)
         /\ q.vars = Over(b.vars, Over(c.vars, r.vars))
         /\ q.plugins = MergePlugins(MergePlugins(r.plugins, c.plugins), b.plugins)
         /\ q.timeout = b.timeout
  BY <1>1, <1>3, <1>4, <1>5, <1>6
<1> QED
  BY <1>7, <1>8, <1>9, <1>10 DEF LaidOver, q, m, b

\* The root read by PersistentPreRunE brings no variables of its own.
Rooted == root # NoRoot => root.vars = Nothing

\* At first nothing is read.
LEMMA RootedAtFirst == Init => Rooted
BY DEF Init, Rooted

\* Only Start reads the root.
LEMMA StepRooted == Rooted /\ [Next]_vars => Rooted'
<1> SUFFICES ASSUME Rooted, [Next]_vars PROVE Rooted'
  OBVIOUS
<1>1. UNCHANGED root \/ root' = LoadRoot(disk["."])
  BY DEF Next, vars, external, loaded, Start, Opened, PickMember, LeavePicker, Plan, PlanEnds,
         PickWorkspace, Switch, TogglePins, Edit
<1>2. LoadRoot(disk["."]) # NoRoot => LoadRoot(disk["."]).vars = Nothing
  BY DEF LoadRoot
<1> QED
  BY <1>1, <1>2 DEF Rooted

\* The blocks of a file that loads are a sequence.
LEMMA BlocksAreListed ==
  ASSUME NEW text \in Texts, LoadChild(text) # NoChild
  PROVE  LET blocks == LoadChild(text).blocks
         IN  Len(blocks) \in Nat /\ DOMAIN blocks = 1 .. Len(blocks)
<1> DEFINE n == Len(text.blocks)
           blocks == LoadChild(text).blocks
<1>1. text.kind = "text"
  BY DEF LoadChild
<1>2. text \notin {Absent, Broken}
  BY <1>1 DEF Absent, Broken
<1>3. text.blocks \in Seq(ToSet(text.blocks))
  BY <1>2, SettingsAssumption
<1>4. n \in Nat /\ DOMAIN text.blocks = 1 .. n
  BY <1>3, LenProperties
<1>5. blocks = [i \in DOMAIN text.blocks |-> ConvertWorkspaceBlock(text.blocks[i])]
  BY DEF LoadChild
<1> HIDE DEF n, blocks
<1>6. Len(blocks) = n /\ DOMAIN blocks = 1 .. n
  BY <1>4, <1>5
<1> QED
  BY <1>4, <1>6 DEF blocks

\* What Resolve gives is the chain of the layers, for a root and a member's file.
LEMMA ResolvesChain ==
  ASSUME NEW r, r # NoRoot, r.vars = Nothing, NEW text \in Texts, NEW name \in Names
  PROVE  LET c == LoadChild(text)
             q == Resolve(r, c, name)
             layers == Layers(r, c, name)
         IN  /\ q.varFiles = ChainFiles(layers)
             /\ q.vars = ChainVars(layers)
             /\ q.parallelism = r.parallelism /\ q.lock = r.lock
             /\ \A p \in DOMAIN q.plugins :
                   \A o \in DOMAIN q.plugins[p].options :
                       q.plugins[p].options[o] = ChainOption(layers, p, o)
             /\ q.timeout = IF Len(layers) = 3 THEN layers[3].timeout ELSE ""
<1> DEFINE c == LoadChild(text)
           q == Resolve(r, c, name)
           m == MatchWorkspace(c.blocks, name)
           b == c.blocks[m]
           s == Layers(r, c, name)
           Chain == /\ q.varFiles = ChainFiles(s)
                    /\ q.vars = ChainVars(s)
                    /\ q.parallelism = r.parallelism /\ q.lock = r.lock
                    /\ \A p \in DOMAIN q.plugins :
                          \A o \in DOMAIN q.plugins[p].options :
                              q.plugins[p].options[o] = ChainOption(s, p, o)
                    /\ q.timeout = IF Len(s) = 3 THEN s[3].timeout ELSE ""
<1>1. name # "" /\ name \in MatchedBy(name)
  BY SettingsAssumption DEF MatchedBy
<1>2. c # NoChild => Len(c.blocks) \in Nat /\ DOMAIN c.blocks = 1 .. Len(c.blocks)
  BY BlocksAreListed
<1> HIDE DEF c
<1>3. /\ c = NoChild => s = <<r>>
      /\ c # NoChild /\ m = 0 => s = <<r, c>>
      /\ c # NoChild /\ m # 0 => s = <<r, c, b>>
  BY <1>1, <1>2, LayersAre
<1>4. LaidOver(q, r, c, m, b)
  BY <1>1, ResolveLayers, Zenon
<1> HIDE DEF q, m, b, s
<1>5. ASSUME \A p, o : Sets(q.plugins, p, o) => q.plugins[p].options[o] = ChainOption(s, p, o),
             q.varFiles = ChainFiles(s), q.vars = ChainVars(s),
             q.timeout = IF Len(s) = 3 THEN s[3].timeout ELSE ""
      PROVE  Chain
  BY <1>4, <1>5 DEF Sets, LaidOver
<1> HIDE DEF Chain
<1>6. ASSUME c = NoChild
      PROVE  Chain
  <2>1. s = <<r>>
    BY <1>3, <1>6
  <2>2. DOMAIN s = 1 .. 1 /\ Len(s) = 1 /\ s[1] = r
    BY <2>1
  <2>3. 1 \in 1 .. 3
    OBVIOUS
  <2>4. ChainFiles(s) = s[1].varFiles
    BY <2>2, <2>3, FilesInOrder
  <2>5. ChainVars(s) = [k \in DOMAIN s[1].vars |-> s[1].vars[k]]
    BY <2>2, <2>3, VarsOfLast
  <2>6. q.vars = ChainVars(s)
    <3>1. r.vars = [k \in DOMAIN r.vars |-> r.vars[k]]
      BY DEF Nothing
    <3>2. q.vars = r.vars
      BY <1>4, <1>6 DEF LaidOver
    <3> QED
      BY <2>2, <2>5, <3>1, <3>2
  <2>7. \A p, o : Sets(s[1].plugins, p, o) => s[1].plugins[p].options[o] = ChainOption(s, p, o)
    BY <2>2, <2>3, OptionOfLast
  <2>8. q.timeout = IF Len(s) = 3 THEN s[3].timeout ELSE ""
    <3>1. Len(s) # 3
      BY <2>2
    <3>2. q.timeout = ""
      BY <1>4, <1>6 DEF LaidOver
    <3> QED
      BY <3>1, <3>2
  <2>9. q.varFiles = r.varFiles /\ q.plugins = r.plugins
    BY <1>4, <1>6 DEF LaidOver
  <2> QED
    BY <1>5, <2>2, <2>4, <2>6, <2>7, <2>8, <2>9
<1>7. ASSUME c # NoChild /\ m = 0
      PROVE  Chain
  <2>1. s = <<r, c>>
    BY <1>3, <1>7
  <2>2. DOMAIN s = 1 .. 2 /\ Len(s) = 2 /\ s[1] = r /\ s[2] = c
    BY <2>1
  <2>3. 2 \in 1 .. 3
    OBVIOUS
  <2>4. ChainFiles(s) = Then(s[1].varFiles, s[2].varFiles)
    BY <2>2, <2>3, FilesInOrder
  <2>5. ChainVars(s) = Over(s[2].vars, s[1].vars)
    BY <2>2, <2>3, VarsOfLast
  <2> DEFINE two == MergePlugins(s[1].plugins, s[2].plugins)
  <2>6. \A p, o : Sets(two, p, o) => two[p].options[o] = ChainOption(s, p, o)
    BY <2>2, <2>3, OptionOfLast
  <2>7. q.plugins = two
    BY <1>4, <1>7, <2>2 DEF LaidOver
  <2> HIDE DEF two
  <2>8. q.timeout = IF Len(s) = 3 THEN s[3].timeout ELSE ""
    <3>1. Len(s) # 3
      BY <2>2
    <3>2. q.timeout = ""
      BY <1>4, <1>7 DEF LaidOver
    <3> QED
      BY <3>1, <3>2
  <2> QED
    BY <1>4, <1>5, <1>7, <2>2, <2>4, <2>5, <2>6, <2>7, <2>8 DEF LaidOver
<1>8. ASSUME c # NoChild /\ m # 0
      PROVE  Chain
  <2>1. s = <<r, c, b>>
    BY <1>3, <1>8
  <2>2. DOMAIN s = 1 .. 3 /\ Len(s) = 3 /\ s[1] = r /\ s[2] = c /\ s[3] = b
    BY <2>1
  <2>3. 3 \in 1 .. 3
    OBVIOUS
  <2>4. ChainFiles(s) = Then(Then(s[1].varFiles, s[2].varFiles), s[3].varFiles)
    BY <2>2, <2>3, FilesInOrder
  <2>5. ChainVars(s) = Over(s[3].vars, Over(s[2].vars, s[1].vars))
    BY <2>2, <2>3, VarsOfLast
  <2> DEFINE three == MergePlugins(MergePlugins(s[1].plugins, s[2].plugins), s[3].plugins)
  <2>6. \A p, o : Sets(three, p, o) => three[p].options[o] = ChainOption(s, p, o)
    BY <2>2, <2>3, OptionOfLast
  <2>7. q.plugins = three
    BY <1>4, <1>8, <2>2 DEF LaidOver
  <2> HIDE DEF three
  <2> QED
    BY <1>4, <1>5, <1>8, <2>2, <2>4, <2>5, <2>6, <2>7 DEF LaidOver
<1>9. Chain
  BY <1>6, <1>7, <1>8
<1> QED
  BY <1>9 DEF Chain, c, q, s

\* Resolve gives the values of the resolution chain: var files in the order of the
\* layers, a variable and an option of the last layer that sets them, whatever the
\* files say and whichever workspace is active.
THEOREM ChainResolved == Spec => []ResolveIsChain
<1>1. ASSUME Settled, Rooted
      PROVE  ResolveIsChain
  <2>1. ASSUME root # NoRoot, NEW d \in Dirs, NEW name \in Names
        PROVE  LET c == LoadChild(disk[d])
                   q == Resolve(root, c, name)
                   layers == Layers(root, c, name)
               IN  /\ q.varFiles = ChainFiles(layers)
                   /\ q.vars = ChainVars(layers)
                   /\ q.parallelism = root.parallelism /\ q.lock = root.lock
                   /\ \A p \in DOMAIN q.plugins :
                         \A o \in DOMAIN q.plugins[p].options :
                             q.plugins[p].options[o] = ChainOption(layers, p, o)
                   /\ q.timeout = IF Len(layers) = 3 THEN layers[3].timeout ELSE ""
    <3>1. disk[d] \in Texts
      BY <1>1, <2>1 DEF Settled
    <3>2. root.vars = Nothing
      BY <1>1, <2>1 DEF Rooted
    <3> QED
      BY <2>1, <3>1, <3>2, ResolvesChain, Zenon
  <2> QED
    BY <2>1, Zenon DEF ResolveIsChain
<1>2. Settled /\ Rooted /\ [Next]_vars => Settled' /\ Rooted'
  BY StepSettles, StepRooted
<1> QED
  BY <1>1, <1>2, SettledAtFirst, RootedAtFirst, PTL DEF Spec
=============================================================================
