------------------------------ MODULE Settings ------------------------------
(***************************************************************************)
(* Configuration: how tfui.hcl files and flags become the options of a     *)
(* plan (internal/config, cmd/tfui/root.go, registry.go, workdir.go, the   *)
(* Context in internal/ui/app.go, runPlan in plugins/plan/plan.go).        *)
(*                                                                         *)
(* The root file is read once, when the program starts; a member's file is *)
(* read at every switch of context, and may have been edited since.  Paths *)
(* and variables are opaque; a file is Absent, Broken or what its blocks   *)
(* say.  A path in a chdir or member block is relative to the project ".". *)
(***************************************************************************)
EXTENDS Naturals, SequencesExt

CONSTANTS
    Dirs,         \* directories a file or a command line names, "." the project's own
    Names,        \* terraform workspaces
    Default,      \* sdk.WorkspaceDefault
    Globs,        \* [pattern -> the names it matches], see filepath.Match
    Texts,        \* what a tfui.hcl may hold
    Launches,     \* command lines
    Addrs,        \* resources that can be pinned
    MaxRequests,  \* bound on the requests in flight
    MaxEdits      \* bound on the edits of files while the program runs

Nothing  == [k \in {} |-> k]
NoRoot   == [kind |-> "no root"]
NoChild  == [kind |-> "no child"]
NoPlan   == [kind |-> "no plan"]
Absent   == [kind |-> "absent"]
Broken   == [kind |-> "broken"]
Locks    == {"default", "enabled", "disabled"}

ASSUME SettingsAssumption ==
    /\ "." \in Dirs
    /\ Default \in Names
    \* No workspace is without a name, and each matches its own name.
    /\ "" \notin Names /\ \A name \in Names \cap DOMAIN Globs : name \in Globs[name]
    /\ \A text \in Texts \ {Absent, Broken} :
          /\ ToSet(text.members) \subseteq Dirs /\ text.defaults.parallelism \in Nat
          /\ text.blocks \in Seq(ToSet(text.blocks))
    /\ \A line \in Launches :
          /\ line.chdir \in Dirs \cup {""} /\ line.lock \in Locks
          /\ "basedir" \in DOMAIN line.config => line.config["basedir"] \in Dirs \cup {""}
    /\ MaxRequests \in Nat /\ MaxEdits \in Nat

VARIABLES
    launch,    \* the command line
    disk,      \* external: the tfui.hcl of each directory
    selected,  \* external: the workspace terraform has selected there
    edits,     \* how often a file was edited
    phase,     \* how far the program is: "start" .. "home"
    root,      \* App.rootCfg
    child,     \* App.childCfg
    registry,  \* the plugins built, with the options they were given
    ctx,       \* holder.current
    asked,     \* ContextSwitchRequestMsg on their way
    busy,      \* a plan runs
    used       \* the options of the last plan, the directory and the
               \* workspace it ran in

vars == <<launch, disk, selected, edits, phase, root, child, registry, ctx,
          asked, busy, used>>
external == <<launch, disk, selected, edits>>
loaded   == <<root, registry>>

-----------------------------------------------------------------------------
(* What a file says. *)

PluginSettings(block) ==
    [enabled |-> block.enabled # "false", options |-> block.options]

PluginMap(blocks) == [p \in DOMAIN blocks |-> PluginSettings(blocks[p])]

LoadRoot(text) ==
    IF text.kind = "absent" THEN NoRoot
    ELSE [bin         |-> text.bin,
          members     |-> IF text.members = <<>> THEN <<".">> ELSE text.members,
          parallelism |-> text.defaults.parallelism,
          lock        |-> text.defaults.lock,
          varFiles    |-> text.defaults.varFiles,
          vars        |-> Nothing,
          plugins     |-> PluginMap(text.defaults.plugins)]

(* A workspace block with an attribute it does not know keeps its name only. *)
ConvertWorkspaceBlock(block) ==
    [name     |-> block.name,
     varFiles |-> IF block.bad THEN <<>> ELSE block.varFiles,
     vars     |-> IF block.bad THEN Nothing ELSE block.vars,
     plugins  |-> IF block.bad THEN Nothing ELSE PluginMap(block.plugins),
     timeout  |-> IF block.bad THEN "" ELSE block.timeout]

(* A block of the root's makes the whole file an error, which is logged. *)
LoadChild(text) ==
    IF text.kind # "text" \/ text.locked THEN NoChild
    ELSE [varFiles |-> text.varFiles,
          vars     |-> text.vars,
          plugins  |-> PluginMap(text.plugins),
          blocks   |-> [i \in DOMAIN text.blocks |->
                            ConvertWorkspaceBlock(text.blocks[i])]]

-----------------------------------------------------------------------------
(* Resolve, layer on layer. *)

(* A map, and another copied into it. *)
Over(more, have) ==
    [k \in DOMAIN more \cup DOMAIN have |-> IF k \in DOMAIN more THEN more[k] ELSE have[k]]

MergePlugins(have, more) ==
    [p \in DOMAIN have \cup DOMAIN more |->
        CASE p \notin DOMAIN more -> have[p]
          [] p \notin DOMAIN have -> more[p]
          [] OTHER -> [enabled |-> more[p].enabled,
                       options |-> Over(more[p].options, have[p].options)]]

Merge(r, layer) ==
    [r EXCEPT !.varFiles = @ \o layer.varFiles,
              !.vars     = Over(layer.vars, @),
              !.plugins  = MergePlugins(@, layer.plugins)]

MatchedBy(pattern) == IF pattern \in DOMAIN Globs THEN Globs[pattern] ELSE {pattern}

(* Mutant: the first block that matches in any way. *)
MatchFirst(blocks, name) ==
    LET hits == {i \in 1 .. Len(blocks) : name \in MatchedBy(blocks[i].name)}
    IN IF hits = {} THEN 0 ELSE CHOOSE i \in hits : \A j \in hits : i <= j

(* The loop, after so many blocks: the first glob that matches, and the exact *)
(* match that ends it.  0 stands for nil.                                     *)
MatchWorkspace(blocks, name) ==
    LET seen[i \in 0 .. Len(blocks)] ==
            IF i = 0 THEN [exact |-> 0, glob |-> 0]
            ELSE IF seen[i - 1].exact # 0 THEN seen[i - 1]
            ELSE IF blocks[i].name = name THEN [seen[i - 1] EXCEPT !.exact = i]
            ELSE IF seen[i - 1].glob = 0 /\ name \in MatchedBy(blocks[i].name)
            THEN [seen[i - 1] EXCEPT !.glob = i] ELSE seen[i - 1]
        end == seen[Len(blocks)]
    IN IF end.exact # 0 THEN end.exact ELSE end.glob

Unresolved ==
    [varFiles |-> <<>>, vars |-> Nothing, plugins |-> Nothing,
     parallelism |-> 0, lock |-> "nil", timeout |-> ""]

FromDefaults(r) ==
    [Unresolved EXCEPT !.varFiles = r.varFiles, !.vars = r.vars,
                       !.plugins = r.plugins, !.lock = r.lock,
                       !.parallelism = r.parallelism]

Resolve(r, c, workspace) ==
    IF r = NoRoot THEN Unresolved
    ELSE IF c = NoChild THEN FromDefaults(r)
    ELSE LET top == Merge(FromDefaults(r), c)
             i   == IF workspace = "" THEN 0 ELSE MatchWorkspace(c.blocks, workspace)
         IN IF i = 0 THEN top
            ELSE [Merge(top, c.blocks[i]) EXCEPT
                      !.timeout = IF c.blocks[i].timeout = "" THEN @
                                  ELSE c.blocks[i].timeout]

(* Mutant: a conversion that forgets the pointer may be nil. *)
LockModeOfValue(p) == IF p = "true" THEN "enabled" ELSE p

LockModeFromPtr(p) ==
    CASE p = "nil" -> "default" [] p = "true" -> "enabled" [] OTHER -> "disabled"

Or(value, none, fallback) == IF value = none THEN fallback ELSE value

-----------------------------------------------------------------------------
(* The program around it. *)

(* --config wins over the flag it repeats. *)
Override(key, flag) ==
    IF key \in DOMAIN launch.config THEN launch.config[key] ELSE flag

BaseDir    == Override("basedir", "")
WorkingDir == IF BaseDir = "" THEN "." ELSE BaseDir
DirOf(chdir) == IF chdir = "" THEN "." ELSE chdir

TerraformBinary(r) ==
    LET given == Override("bin", launch.bin)
    IN IF given # "" THEN given
       ELSE IF r # NoRoot /\ r.bin # "" THEN r.bin ELSE "terraform"

Registered == {"chdir", "plan"}

(* Only the root's plugin blocks reach the registry. *)
Build(configs) ==
    [id \in {p \in Registered : p \in DOMAIN configs => configs[p].enabled} |->
        IF id \in DOMAIN configs THEN configs[id].options ELSE Nothing]

CfgTargets ==
    IF "targets" \in DOMAIN registry["plan"] THEN registry["plan"].targets ELSE {}

(* The Context at boot names its directory and nothing of tfui.hcl. *)
BootContext ==
    [chdir |-> "", workspace |-> Default, pins |-> {},
     dir |-> IF launch.chdir = "" THEN WorkingDir ELSE DirOf(launch.chdir),
     varFiles |-> <<>>, vars |-> Nothing, parallelism |-> 0,
     lock |-> "default", timeout |-> ""]

RebuildContext(request, c) ==
    LET resolved == Resolve(root, c, request.workspace)
    IN [chdir |-> request.chdir, workspace |-> request.workspace, pins |-> {},
        dir |-> DirOf(request.chdir),
        varFiles |-> resolved.varFiles, vars |-> resolved.vars,
        parallelism |-> resolved.parallelism,
        lock |-> LockModeFromPtr(resolved.lock), timeout |-> resolved.timeout]

(* launch's flags belong to the command; the plugin of the TUI has none. *)
PlanOptions ==
    LET targets == ctx.pins \cup launch.targets
    IN [dir |-> ctx.dir, workspace |-> selected[ctx.dir],
        bin |-> TerraformBinary(root),
        targets |-> IF targets = {} THEN CfgTargets ELSE targets,
        varFiles |-> ctx.varFiles, vars |-> ctx.vars,
        parallelism |-> ctx.parallelism,
        lock |-> Or(launch.lock, "default", ctx.lock),
        timeout |-> Or(launch.timeout, "", ctx.timeout)]

-----------------------------------------------------------------------------
Init ==
    /\ launch \in Launches
    /\ disk \in [Dirs -> Texts]
    /\ selected \in [Dirs -> Names]
    /\ edits = 0 /\ phase = "start"
    /\ root = NoRoot /\ child = NoChild /\ registry = Nothing
    /\ ctx = BootContext
    /\ asked = {} /\ busy = FALSE /\ used = NoPlan

(* PersistentPreRunE, buildRegistry, NewApp and App.Init. *)
Start ==
    /\ phase = "start"
    /\ IF disk["."].kind = "broken"
       THEN phase' = "refused" /\ UNCHANGED <<root, child, registry>>
       ELSE /\ root' = LoadRoot(disk["."])
            /\ registry' = Build(Resolve(root', NoChild, "").plugins)
            /\ child' = IF root' = NoRoot THEN NoChild ELSE LoadChild(disk[WorkingDir])
            /\ phase' = IF launch.command /\ "plan" \notin DOMAIN registry'
                        THEN "refused" ELSE "boot"
    /\ UNCHANGED <<ctx, asked, busy, used, external>>

Members == IF root = NoRoot THEN {} ELSE ToSet(root.members)

(* Sends a plan off with the options of this moment. *)
Run == busy' = TRUE /\ used' = PlanOptions

Ask(chdir, workspace) ==
    /\ Cardinality(asked) < MaxRequests
    /\ asked' = asked \cup {[chdir |-> chdir, workspace |-> workspace]}

(* openContextOnStartupMsg: a command runs at once; otherwise the given      *)
(* directory, loaded data, a lone member or the user's choice.               *)
Opened ==
    /\ phase = "boot"
    /\ IF launch.command
       THEN phase' = "command" /\ Run /\ UNCHANGED asked
       ELSE /\ UNCHANGED <<busy, used>>
            /\ IF launch.chdir # ""
               THEN phase' = "home" /\ Ask(launch.chdir, Default)
               ELSE IF launch.preloaded \/ "chdir" \notin DOMAIN registry
               THEN phase' = "home" /\ UNCHANGED asked
               ELSE \/ /\ Cardinality(Members) = 1
                       /\ phase' = "home"
                       /\ \E m \in Members : Ask(m, Default)
                    \/ /\ Cardinality(Members) # 1
                       /\ phase' = "picker" /\ UNCHANGED asked
    /\ UNCHANGED <<loaded, child, ctx, external>>

(* The user picks a member, at startup or later. *)
PickMember ==
    /\ phase \in {"picker", "home"} /\ "chdir" \in DOMAIN registry
    /\ \E m \in Members : Ask(m, Default)
    /\ phase' = "home"
    /\ UNCHANGED <<loaded, child, ctx, busy, used, external>>

LeavePicker ==
    /\ phase = "picker" /\ phase' = "home"
    /\ UNCHANGED <<loaded, child, ctx, asked, busy, used, external>>

(* terraform workspace select, then the request of the workspace view. *)
PickWorkspace(w) ==
    /\ phase = "home" /\ ~busy
    /\ selected' = [selected EXCEPT ![ctx.dir] = w]
    /\ Ask(ctx.chdir, w)
    /\ UNCHANGED <<loaded, child, ctx, busy, used, phase, launch, disk, edits>>

(* Mutant: the old configuration stays when the new one cannot be loaded. *)
ChildOrOld(request) ==
    IF root # NoRoot /\ request.chdir # "" /\ LoadChild(disk[DirOf(request.chdir)]) # NoChild
    THEN LoadChild(disk[DirOf(request.chdir)]) ELSE child

ChildFor(request) ==
    IF root # NoRoot /\ request.chdir # "" THEN LoadChild(disk[DirOf(request.chdir)])
    ELSE child

(* The busy guard drops a request that comes while a plan runs. *)
Switch(request) ==
    /\ request \in asked /\ asked' = asked \ {request}
    /\ IF busy THEN UNCHANGED <<child, ctx>>
       ELSE child' = ChildFor(request) /\ ctx' = RebuildContext(request, child')
    /\ UNCHANGED <<loaded, busy, used, phase, external>>

TogglePins(a) ==
    /\ phase \in {"home", "command"} /\ ~busy
    /\ ctx' = [ctx EXCEPT !.pins = IF a \in @ THEN @ \ {a} ELSE @ \cup {a}]
    /\ UNCHANGED <<loaded, child, asked, busy, used, phase, external>>

Plan ==
    /\ phase \in {"home", "command"} /\ ~busy /\ "plan" \in DOMAIN registry
    /\ Run
    /\ UNCHANGED <<loaded, child, ctx, asked, phase, external>>

PlanEnds ==
    /\ busy /\ busy' = FALSE
    /\ UNCHANGED <<loaded, child, ctx, asked, used, phase, external>>

(* Someone rewrites, creates or removes a file while the program runs. *)
Edit(d) ==
    /\ phase # "start" /\ edits < MaxEdits
    /\ \E text \in Texts \ {disk[d]} : disk' = [disk EXCEPT ![d] = text]
    /\ edits' = edits + 1
    /\ UNCHANGED <<launch, selected, loaded, child, ctx, asked, busy, used, phase>>

Next ==
    \/ Start \/ Opened \/ PickMember \/ LeavePicker \/ Plan \/ PlanEnds
    \/ \E w \in Names : PickWorkspace(w)
    \/ \E request \in asked : Switch(request)
    \/ \E a \in Addrs : TogglePins(a)
    \/ \E d \in Dirs : Edit(d)

Spec == Init /\ [][Next]_vars

-----------------------------------------------------------------------------
(* One type invariant: the settings of the Context are values PlanOptions    *)
(* may carry, the lock mode is one of the three, the directory exists.       *)
TypeOK ==
    /\ phase \in {"start", "refused", "boot", "picker", "home", "command"}
    /\ selected \in [Dirs -> Names] /\ edits \in 0 .. MaxEdits
    /\ ctx.dir \in Dirs /\ ctx.workspace \in Names /\ ctx.pins \subseteq Addrs
    /\ ctx.lock \in Locks /\ ctx.parallelism \in Nat
    /\ DOMAIN registry \subseteq Registered
    /\ Cardinality(asked) <= MaxRequests
    /\ used # NoPlan => used.dir \in Dirs /\ used.lock \in Locks
    /\ busy => used # NoPlan

Exact(block, name) == block.name = name

(* Of two blocks that match, which one the guide prefers. *)
Prefers(blocks, name, i, j) ==
    IF Exact(blocks[i], name) = Exact(blocks[j], name) THEN i <= j
    ELSE Exact(blocks[i], name)

(* The layers a value can come from, weakest first. *)
Layers(r, c, name) ==
    LET blocks == c.blocks
        hits   == {i \in DOMAIN blocks : name \in MatchedBy(blocks[i].name)}
        best   == {i \in hits : \A j \in hits : Prefers(blocks, name, i, j)}
    IN IF c = NoChild THEN <<r>>
       ELSE <<r, c>> \o SetToSeq({blocks[i] : i \in best})

LastOf(layers, Has(_)) ==
    CHOOSE i \in DOMAIN layers :
        Has(layers[i]) /\ \A j \in i + 1 .. Len(layers) : ~Has(layers[j])

(* What the guide calls the resolution chain: var files of all layers in     *)
(* their order, of a variable or a plugin's option the value of the last     *)
(* layer that gives one.                                                     *)
ChainFiles(layers) == FlattenSeq([i \in DOMAIN layers |-> layers[i].varFiles])

ChainVars(layers) ==
    [k \in UNION {DOMAIN layers[i].vars : i \in DOMAIN layers} |->
        LET Has(layer) == k \in DOMAIN layer.vars
        IN layers[LastOf(layers, Has)].vars[k]]

ChainOption(layers, p, o) ==
    LET Has(layer) == p \in DOMAIN layer.plugins /\ o \in DOMAIN layer.plugins[p].options
    IN layers[LastOf(layers, Has)].plugins[p].options[o]

(* Resolve gives, whatever the root and the files in the members are and     *)
(* whichever workspace is active, the values of the resolution chain.  At    *)
(* boot every root meets every member's file, so it is looked at only then.  *)
ResolveIsChain ==
    phase = "boot" /\ root # NoRoot =>
        \A d \in Dirs, name \in Names :
            LET c == LoadChild(disk[d])
                r == Resolve(root, c, name)
                layers == Layers(root, c, name)
            IN /\ r.varFiles = ChainFiles(layers)
               /\ r.vars = ChainVars(layers)
               /\ r.parallelism = root.parallelism /\ r.lock = root.lock
               /\ \A p \in DOMAIN r.plugins :
                     \A o \in DOMAIN r.plugins[p].options :
                         r.plugins[p].options[o] = ChainOption(layers, p, o)
               /\ r.timeout = IF Len(layers) = 3 THEN layers[3].timeout ELSE ""

SettingsOf(c) == <<c.varFiles, c.vars, c.parallelism, c.lock, c.timeout>>
ResolvedFor(dir, name) ==
    LET r == Resolve(root, LoadChild(disk[dir]), name)
    IN <<r.varFiles, r.vars, r.parallelism, LockModeFromPtr(r.lock), r.timeout>>

(* A switch to a member takes the member's file as it is then: nothing of    *)
(* the member before it or of the file before an edit stays, even when the   *)
(* new file is missing, does not parse or holds a block of the root's.       *)
SwitchReadsMember ==
    [][\A request \in asked \ asked' :
          ~busy /\ request.chdir # "" =>
              SettingsOf(ctx') = ResolvedFor(DirOf(request.chdir), request.workspace)]_vars

(* docs/guides/configuration.md:106: "Root defaults -> Child top-level ->     *)
(* Workspace block -> CLI flags" are what a plan is run with, for the        *)
(* directory and the workspace terraform runs it in.                         *)
PlanFollowsChain ==
    used # NoPlan /\ root # NoRoot =>
        LET chain == ResolvedFor(used.dir, used.workspace)
        IN /\ used.varFiles = chain[1] /\ used.vars = chain[2]
           /\ used.parallelism = chain[3]
           /\ used.lock = Or(launch.lock, "default", chain[4])
           /\ used.timeout = Or(launch.timeout, "", chain[5])
=============================================================================
