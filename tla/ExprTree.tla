------------------------------ MODULE ExprTree ------------------------------
(***************************************************************************)
(* Expression trees: tree_type (core/components.hpp), a binary tree whose  *)
(* nodes point to their children and back to their root, how the parser    *)
(* builds one from the signals and objects of an expression (parser.cpp),  *)
(* and how the compiler rewrites it afterwards (compiler.cpp).             *)
(*                                                                         *)
(* The nodes of a parsed expression are the positions of its tokens: the   *)
(* i-th signal is 2 * i, the objects around it are 2 * i - 1 and 2 * i + 1 *)
(* (an object that is missing is a token, the null pointer).               *)
(***************************************************************************)
EXTENDS Sequences, Integers, FiniteSets

CONSTANTS Signals,      \* the operators
          Level,        \* signal_level_map: operator -> its level
          Assigns,      \* signal_left_associative: the assignments
          MaxSignals,   \* bound: operators of an expression
          Spare         \* bound: nodes for the copy that merge() makes

ASSUME ExprTreeAssumption ==
    /\ Level \in [Signals -> Nat]
    /\ Assigns \subseteq Signals
    /\ \A s, t \in Signals : Level[s] = Level[t] => (s \in Assigns <=> t \in Assigns)
    /\ MaxSignals \in Nat \ {0}
    /\ IsFiniteSet(Spare) /\ Spare \subseteq Nat
    /\ Spare \cap (0 .. (2 * MaxSignals + 1)) = {}

VARIABLES
    signals,  \* the operators of the expression, in source order
    next,     \* how many of them build_tree() has placed, or Built
    tree,     \* mRoot and the nodes
    rightmost \* the node that the next object goes under

exprTreeVars == <<signals, next, tree, rightmost>>

NoNode == 0
AllBuilt == -1
Nodes == (1 .. (2 * MaxSignals + 1)) \cup Spare
Sides == {"left", "right"}
Other(side) == IF side = "left" THEN "right" ELSE "left"
TreeNode == [root : Nodes \cup {NoNode}, left : Nodes \cup {NoNode},
         right : Nodes \cup {NoNode}, live : BOOLEAN]
DeadNode == [root |-> NoNode, left |-> NoNode, right |-> NoNode, live |-> FALSE]
EmptyTree == [top |-> NoNode, node |-> [n \in Nodes |-> DeadNode]]
Leaf(root) == [root |-> root, left |-> NoNode, right |-> NoNode, live |-> TRUE]

(* The nodes under `it` and itself, those that destroy(it) deletes.        *)
Child(t, it, side) == IF it = NoNode THEN NoNode ELSE t.node[it][side]
ChildrenOf(t, ns) == {t.node[n][side] : n \in ns, side \in Sides} \ {NoNode}
Subtree(t, it) ==
    LET under[k \in Nat] ==
            IF k = 0 THEN {it} \ {NoNode}
            ELSE LET above == under[k - 1] IN above \cup ChildrenOf(t, above)
    IN under[Cardinality(Nodes)]
Delete(t, gone) == [t EXCEPT !.node = [n \in Nodes |-> IF n \in gone THEN DeadNode ELSE @[n]]]

(* The link of the root of `it` that leads to `it`.                        *)
SideOf(t, it) == IF t.node[t.node[it].root].left = it THEN "left" ELSE "right"
-----------------------------------------------------------------------------
(* emplace_root_left() and insert_root_left(), and their right versions:   *)
(* the new node takes the place of `it`, which becomes its child.          *)
InsertRootForgets(t, it, new, side) == \* MUTANT: it.mData->root keeps the old root
    LET up == IF it = t.top THEN NoNode ELSE t.node[it].root
        placed == [t EXCEPT !.node[new] = [Leaf(up) EXCEPT ![side] = it]]
    IN IF it = t.top THEN [placed EXCEPT !.top = new]
       ELSE [placed EXCEPT !.node[up][SideOf(t, it)] = new]

InsertRoot(t, it, new, side) ==
    LET up == IF it = t.top THEN NoNode ELSE t.node[it].root
        placed == [t EXCEPT !.node[new] = [Leaf(up) EXCEPT ![side] = it]]
        linked == IF it = t.top THEN [placed EXCEPT !.top = new]
                  ELSE [placed EXCEPT !.node[up][SideOf(t, it)] = new]
    IN IF it = NoNode THEN linked ELSE [linked EXCEPT !.node[it].root = new]

(* emplace_left_left() to insert_right_right(): a new child of `it`, which *)
(* takes the old one as its own.                                           *)
InsertChild(t, it, child, new, side) ==
    LET old == t.node[it][child]
        placed == [t EXCEPT !.node[new] = [Leaf(it) EXCEPT ![side] = old],
                            !.node[it][child] = new]
    IN IF old = NoNode THEN placed ELSE [placed EXCEPT !.node[old].root = new]

(* reserve_left() and reserve_right(): the child takes the place of `it`.  *)
Reserve(t, it, side) ==
    LET keep == t.node[it][side]
        up == t.node[it].root
        lifted == [t EXCEPT !.node[keep].root = up, !.node[it][side] = NoNode]
        linked == IF up = NoNode THEN lifted
                  ELSE [lifted EXCEPT !.node[up][SideOf(t, it)] = keep]
        cut == Delete(linked, Subtree(lifted, it))
    IN IF it = t.top THEN [cut EXCEPT !.top = keep] ELSE cut

(* erase_left() and erase_right(), both before a folded node gets a value. *)
EraseChildren(t, it) ==
    [Delete(t, Subtree(t, it) \ {it}) EXCEPT !.node[it].left = NoNode, !.node[it].right = NoNode]

(* merge(): `it` becomes a copy of the root of another tree, here one with *)
(* two leaves, and loses its own children.                                 *)
Merge(t, it, l, r) ==
    [EraseChildren(t, it) EXCEPT
        !.node[it].left = l, !.node[it].right = r, !.node[l] = Leaf(it), !.node[r] = Leaf(it)]
-----------------------------------------------------------------------------
Signal(i) == 2 * i
Object(i) == 2 * i - 1
SignalAt(n) == signals[n \div 2]

ExprTreeInit ==
    /\ signals \in UNION {[1 .. k -> Signals] : k \in 1 .. MaxSignals}
    /\ next = 0
    /\ tree = EmptyTree
    /\ rightmost = NoNode

(* build_tree(): the first signal with the first object at its left.       *)
BuildFirst ==
    /\ next = 0
    /\ tree' = InsertChild(InsertRoot(tree, tree.top, Signal(1), "left"),
                           Signal(1), "left", Object(1), "left")
    /\ rightmost' = Signal(1)
    /\ next' = 1
    /\ UNCHANGED signals

(* The next signal: the walk goes down the right edge to the first node    *)
(* that has no right child, the level of the signal, or a higher one.      *)
Edge(t) ==
    LET at[k \in 0 .. Cardinality(Nodes)] ==
        IF k = 0 THEN t.top ELSE Child(t, at[k - 1], "right")
    IN at
StopsAt(t, n, s) ==
    \/ t.node[n].right = NoNode
    \/ Level[SignalAt(n)] >= Level[s]
Stop(t, s) ==
    LET k == CHOOSE k \in 0 .. Cardinality(Nodes) :
                 /\ StopsAt(t, Edge(t)[k], s)
                 /\ \A j \in 0 .. (k - 1) : ~StopsAt(t, Edge(t)[j], s)
    IN Edge(t)[k]
PlacedAbove(t, n, new, s) == \* MUTANT: is_left_associative() is not asked
    InsertRoot(t, n, new, "left")

Placed(t, n, new, s) ==
    IF /\ t.node[n].right # NoNode
       /\ Level[SignalAt(n)] = Level[s] /\ SignalAt(n) \in Assigns
    THEN InsertChild(t, n, "right", new, "left")
    ELSE InsertRoot(t, n, new, "left")

BuildNext ==
    /\ next \in 1 .. (Len(signals) - 1)
    /\ LET t == InsertChild(tree, rightmost, "right", Object(next + 1), "right")
           s == signals[next + 1]
       IN tree' = Placed(t, Stop(t, s), Signal(next + 1), s)
    /\ rightmost' = Signal(next + 1)
    /\ next' = next + 1
    /\ UNCHANGED signals

BuildLast ==
    /\ next = Len(signals)
    /\ tree' = InsertChild(tree, rightmost, "right", Object(next + 1), "right")
    /\ rightmost' = NoNode
    /\ next' = AllBuilt
    /\ UNCHANGED signals

Rewrites(t) == next = AllBuilt /\ tree' = t /\ UNCHANGED <<signals, next, rightmost>>
Live == {n \in Nodes : tree.node[n].live}

(* opt_expr(): a signal whose operands are constant becomes a value, and   *)
(* of a choice with a constant condition one branch stays.  trim_expr():   *)
(* an expression in brackets takes the place of its token.                 *)
Fold == \E it \in Live : tree.node[it].left # NoNode /\ Rewrites(EraseChildren(tree, it))
Choose ==
    \E it \in Live, side \in Sides :
        LET pair == tree.node[it].right
        IN /\ Child(tree, pair, side) # NoNode
           /\ Rewrites(Reserve(Reserve(tree, pair, side), it, "right"))
Expand ==
    \E it \in Live, l, r \in Spare :
        /\ tree.node[it].left = NoNode
        /\ l < r /\ {l, r} \cap Live = {}
        /\ Rewrites(Merge(tree, it, l, r))

ExprTreeNext == BuildFirst \/ BuildNext \/ BuildLast \/ Fold \/ Choose \/ Expand

ExprTreeSpec == ExprTreeInit /\ [][ExprTreeNext]_exprTreeVars
-----------------------------------------------------------------------------
(* The tree has nodes.                                                     *)
ExprTreeTypeOK ==
    /\ tree.top \in Nodes \cup {NoNode}
    /\ tree.node \in [Nodes -> TreeNode]
    /\ next \in -1 .. MaxSignals
    /\ rightmost \in Nodes \cup {NoNode}

(* Every node is reached from the root on one path and points back along   *)
(* it, through every insertion and rewriting: none is lost, none is reached*)
(* twice, and erasing through a parent finds the right link.               *)
TreeIsLinked ==
    /\ tree.top # NoNode => tree.node[tree.top].root = NoNode
    /\ Live = Subtree(tree, tree.top)
    /\ \A n \in Live, side \in Sides :
           LET c == tree.node[n][side]
           IN c # NoNode => tree.node[c].root = n /\ tree.node[n][Other(side)] # c

(* Signal j is under signal i exactly if every signal from i to j binds     *)
(* tighter than i, or equally and associates towards j; and the order of   *)
(* the nodes is the order of the tokens.                                   *)
Binds(i, j) ==
    \A k \in (IF i < j THEN (i + 1) .. j ELSE j .. (i - 1)) :
        \/ Level[signals[k]] > Level[signals[i]]
        \/ /\ Level[signals[k]] = Level[signals[i]]
           /\ (i < j) <=> (signals[i] \in Assigns)
WholeTree == next = AllBuilt /\ Live = 1 .. (2 * Len(signals) + 1)
FollowsLevels ==
    /\ \A i, j \in DOMAIN signals :
           i # j => (Signal(j) \in Subtree(tree, Signal(i)) <=> Binds(i, j))
    /\ \A n \in Live : /\ \A m \in Subtree(tree, tree.node[n].left) : m < n
                       /\ \A m \in Subtree(tree, tree.node[n].right) : m > n

(* The tree of an expression is the one that the levels describe, for      *)
(* every row of operators with no more than two assignments.  (With three, *)
(* as in a = b = c = d, the walk stops at the first of them and the third  *)
(* gets the second as its left operand.)                                   *)
Assignments == {i \in DOMAIN signals : signals[i] \in Assigns}
TreeFollowsLevels == WholeTree /\ Cardinality(Assignments) <= 2 => FollowsLevels

(* A tree of tokens is a tree, through every insertion, erasure and merge  *)
(* (tree_type).                                                            *)
ExprTreeInv ==
    /\ ExprTreeTypeOK
    /\ TreeIsLinked
=============================================================================
