----------------------------- MODULE MCBrowser -----------------------------
(* Browser with two members, two resources and two workspaces. *)
EXTENDS Browser

CONSTANTS d1, d2, a1, a2, w1, w2

TwoChdirs     == {d1, d2}
TwoAddrs      == {a1, a2}
OneMatch      == {a1}
TwoWorkspaces == {w1, w2}
=============================================================================
