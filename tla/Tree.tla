-------------------------------- MODULE Tree --------------------------------
(***************************************************************************)
(* pkg/sdk/ui/tree: the navigator the plan and state views are built on.   *)
(* An address is the sequence of its segments, a segment is its rank among *)
(* the labels; a module is a proper prefix of an address.  `nested' is     *)
(* SplitTerraform with sorting, its absence one segment per address in the *)
(* order given.  A row is the path of a module or the address of a leaf.   *)
(* The cursor counts from 1.                                               *)
(***************************************************************************)
EXTENDS Naturals, Sequences, SequencesExt, FiniteSets

CONSTANT Addrs      \* resource addresses

ASSUME TreeAssumption ==
    /\ Addrs \subseteq Seq(Nat) \ {<<>>}
    /\ \A a, b \in Addrs : IsPrefix(a, b) => a = b

Root == <<>>

\* insert: every module on the way to an address, and the root.
ModulesOf(as) == {Root} \cup UNION {{SubSeq(a, 1, n) : n \in 1 .. Len(a) - 1} : a \in as}

Paths(t) == IF t.nested THEN ModulesOf(ToSet(t.items)) ELSE {Root}

TreeState ==
    [items  : Seq(Addrs),
     nested : BOOLEAN,
     open   : SUBSET ModulesOf(Addrs),          \* expanded
     rows   : Seq(ModulesOf(Addrs) \cup Addrs), \* flattened
     cursor : Nat \ {0}]

\* sortNodes: the children of one node, by label: the n-th is the one whose label
\* is not below n of theirs.  (SetToSortSeq, which the prover does not know.)
ByLabel(ps) ==
    LET rank(p) == Cardinality({q \in ps : Last(q) <= Last(p)})
    IN  [n \in 1 .. Cardinality(ps) |-> CHOOSE p \in ps : rank(p) = n]

Children(ps, p) == ByLabel({q \in ps \ {Root} : Front(q) = p})

Leaves(t, p) ==
    IF t.nested THEN ByLabel({a \in ToSet(t.items) : Front(a) = p}) ELSE t.items

\* Mutant: the resources of a module come before its modules.
WalkLeavesFirst(t) ==
    LET ps == Paths(t)
        walk[p \in ps] ==
          LET cs == Children(ps, p)
          IN  Leaves(t, p) \o
              FlattenSeq([k \in DOMAIN cs |->
                  <<cs[k]>> \o IF cs[k] \in t.open THEN walk[cs[k]] ELSE <<>>])
    IN  walk[Root]

\* walkChildren from the root
WalkTree(t) ==
    LET ps == Paths(t)
        walk[p \in ps] ==
          LET cs == Children(ps, p)
          IN  FlattenSeq([k \in DOMAIN cs |->
                  <<cs[k]>> \o IF cs[k] \in t.open THEN walk[cs[k]] ELSE <<>>])
              \o Leaves(t, p)
    IN  walk[Root]

\* flatten: the rows anew, the cursor on one of them.
Flattened(t) ==
    LET rows == WalkTree(t)
    IN  [t EXCEPT !.rows = rows,
                  !.cursor = IF @ <= Len(rows) THEN @ ELSE IF rows = <<>> THEN 1 ELSE Len(rows)]

NewTree(items, nested) ==
    Flattened([items |-> items, nested |-> nested, open |-> {}, rows |-> <<>>, cursor |-> 1])

\* CursorNode, Root standing for nil; an empty tree has no row.
CursorRow(t) == IF t.cursor <= Len(t.rows) THEN t.rows[t.cursor] ELSE Root
IsLeaf(t, row) == row \in ToSet(t.items)
OnLeaf(t)      == IsLeaf(t, CursorRow(t))
OnBranch(t)    == CursorRow(t) # Root /\ ~OnLeaf(t)

\* Mutant: the last row is not the end.
MovesTooFar(t) == {t.cursor + 1, IF t.cursor > 1 THEN t.cursor - 1 ELSE 1, 1}

\* MoveDown, MoveUp, MoveToStart, MoveToEnd: where the cursor may go.
Moves(t) ==
    {IF t.cursor < Len(t.rows) THEN t.cursor + 1 ELSE t.cursor,
     IF t.cursor > 1 THEN t.cursor - 1 ELSE 1,
     1,
     IF t.rows = <<>> THEN t.cursor ELSE Len(t.rows)}

\* Toggle on a module.
ToggleNode(t) ==
    LET n == CursorRow(t)
    IN  Flattened([t EXCEPT !.open = IF n \in @ THEN @ \ {n} ELSE @ \cup {n}])

\* The loop opens what it sees until it sees nothing closed.
ExpandAll(t)   == Flattened([t EXCEPT !.open = @ \cup (Paths(t) \ {Root})])
CollapseAll(t) == [Flattened([t EXCEPT !.open = {}]) EXCEPT !.cursor = 1]

\* Mutant: a module's pin takes the rows on the screen.
PinAddressesShown(t, row) ==
    IF IsLeaf(t, row) THEN {row}
    ELSE {a \in ToSet(t.rows) \cap ToSet(t.items) : IsPrefix(row, a)}

\* What pinning a row is about: a leaf, or all the leaves below, shown or not.
PinAddresses(t, row) ==
    IF IsLeaf(t, row) THEN {row} ELSE {a \in ToSet(t.items) : IsPrefix(row, a)}

\* PinStateOf, in the order of its cases.
PinStateOf(t, row, pins) ==
    LET as == PinAddresses(t, row)
    IN  IF as \subseteq pins THEN "full"
        ELSE IF as \cap pins # {} THEN "partial" ELSE "none"
=============================================================================
