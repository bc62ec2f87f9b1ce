----------------------------- MODULE MCSettings -----------------------------
(* Settings with a project directory, one member below it and six files.    *)
EXTENDS Settings

TwoDirs == {".", "m"}
TwoNames == {"default", "dev-1"}
OneGlob  == "dev-*" :> {"dev-1"}

Text     == [kind |-> "text", locked |-> FALSE, bin |-> "", members |-> <<>>,
             defaults |-> [parallelism |-> 0, lock |-> "nil",
                           varFiles |-> <<>>, plugins |-> Nothing],
             varFiles |-> <<>>, vars |-> Nothing, plugins |-> Nothing,
             blocks |-> <<>>]
Block(name, file) ==
    [name |-> name, varFiles |-> <<file>>, vars |-> "k" :> file,
     plugins |-> Nothing, timeout |-> "", bad |-> FALSE]

(* A root with two members and defaults; one that takes a plugin away. *)
RootText == [Text EXCEPT !.locked = TRUE, !.bin = "tofu", !.members = <<".", "m">>,
                         !.defaults = [parallelism |-> 5, lock |-> "false",
                                       varFiles |-> <<"d">>,
                                       plugins |-> "plan" :> [enabled |-> "unset",
                                           options |-> [targets |-> {"a"}]]]]
NoPicker == [Text EXCEPT !.locked = TRUE,
                         !.defaults.plugins = "chdir" :> [enabled |-> "false",
                                                          options |-> Nothing]]
(* A member with a glob before the exact block, and one with a bad block. *)
MemberText == [Text EXCEPT !.varFiles = <<"c">>, !.vars = "k" :> "c",
                           !.plugins = "plan" :> [enabled |-> "unset",
                                           options |-> [targets |-> {"b"}]],
                           !.blocks = <<Block("dev-*", "g"),
                                        [Block("dev-1", "w") EXCEPT
                                             !.timeout = "5m"]>>]
BadBlock   == [Text EXCEPT !.vars = "k" :> "b",
                           !.blocks = <<[Block("default", "x") EXCEPT !.bad = TRUE]>>]
SixTexts   == {Absent, Broken, RootText, NoPicker, MemberText, BadBlock}

Launch == [command |-> FALSE, chdir |-> "", preloaded |-> FALSE, bin |-> "",
           config |-> Nothing, targets |-> {}, lock |-> "default", timeout |-> ""]
FiveLaunches ==
    {Launch,
     [Launch EXCEPT !.chdir = "m"],
     [Launch EXCEPT !.preloaded = TRUE, !.config = "basedir" :> "m"],
     [Launch EXCEPT !.command = TRUE, !.chdir = "m"],
     [Launch EXCEPT !.command = TRUE, !.bin = "tf", !.targets = {"a"},
                    !.lock = "enabled", !.timeout = "1m"]}
=============================================================================
