------------------------------ MODULE GroupTree ------------------------------
(***************************************************************************)
(* The hierarchy of groups.  Every row of the groups table says twice      *)
(* where its group hangs: by parent_id, and by depth and path, the ids     *)
(* from the root joined with "/", which the subtree queries are made of.   *)
(*                                                                         *)
(* CreateSubgroup and MoveGroup are transactions at READ COMMITTED that    *)
(* read rows without locking them and write what they computed from them.  *)
(* Each read is a step here; the updates that end a transaction are one.   *)
(*                                                                         *)
(* Names, members and the group's other columns do not matter here.        *)
(***************************************************************************)
EXTENDS Integers, FiniteSets, SequencesExt

CONSTANTS
  Groups,       \* group ids, each given to one group
  NoGroup,      \* parent_id NULL
  Blank,        \* the empty string before the first "/" of a path
  MaxDepth,     \* GroupMaxDepth
  Changes,      \* slots for transactions that run at the same time
  MaxChanges    \* bound on the changes made to the hierarchy

ASSUME TreeAssumption ==
  /\ NoGroup \notin Groups
  /\ Blank \notin Groups
  /\ MaxDepth \in Nat
  /\ MaxChanges \in Nat

VARIABLES
  row,          \* the groups table, by id
  used,         \* ids given out
  tx,           \* the transaction in each slot
  left,         \* changes left
  raced,        \* history: a move ran while another change was under way
  wandered      \* history: a group without a path was moved

vars == <<row, used, tx, left, raced, wandered>>

\* The column's default '' is the path of a group that nobody gave one.
Path     == Seq(Groups \cup {Blank})
Pathless == <<Blank>>

Row == [parent : Groups \cup {NoGroup}, depth : Nat, path : Path, local : BOOLEAN]

NoTx == [pc |-> "idle", group |-> NoGroup, parent |-> NoGroup,
         from |-> Pathless, was |-> 0, to |-> Pathless, depth |-> 0]

\* from, was: the path and depth read of the group that moves; to, depth: the
\* ones it will have.
Tx == [pc : {"idle", "insert", "parent", "subtree", "write"},
       group : Groups \cup {NoGroup}, parent : Groups \cup {NoGroup},
       from : Path, was : Int, to : Path, depth : Int]

TypeOK ==
  /\ used \subseteq Groups
  /\ DOMAIN row \subseteq used
  /\ row \in [DOMAIN row -> Row]
  /\ tx \in [Changes -> Tx]
  /\ left \in 0..MaxChanges
  /\ raced \in BOOLEAN
  /\ wandered \in BOOLEAN

Init ==
  /\ row = [g \in {} |-> NoTx]
  /\ used = {}
  /\ tx = [c \in Changes |-> NoTx]
  /\ left = MaxChanges
  /\ raced = FALSE
  /\ wandered = FALSE

-----------------------------------------------------------------------------
(* Queries                                                                 *)

\* path LIKE p || '/%'
Below(p) == {g \in DOMAIN row : IsStrictPrefix(p, row[g].path)}

Children(g) == {h \in DOMAIN row : row[h].parent = g}

\* maxDescendantDepth, which is a depth in the whole tree.
MaxDescendantDepth(p) == Max({0} \cup {row[g].depth : g \in Below(p)})

\* The strings' common prefix; '' is a prefix of every path.
LiesUnder(parentPath, path) == path = Pathless \/ IsPrefix(path, parentPath)

-----------------------------------------------------------------------------
(* Groups come and go.                                                     *)

Spend == left > 0 /\ left' = left - 1

Fresh(g) == g \notin used /\ used' = used \cup {g}

Insert(g, r) == row' = [h \in DOMAIN row \cup {g} |-> IF h = g THEN r ELSE row[h]]

RootRow(path, local) == [parent |-> NoGroup, depth |-> 0, path |-> path, local |-> local]

Create(g) ==
  /\ Spend /\ Fresh(g)
  /\ Insert(g, RootRow(<<g>>, TRUE))
  /\ UNCHANGED <<tx, raced, wandered>>

\* CreateAndJoin and AddToDefault make a local group, a sign-in through an
\* identity provider one that is not; none of them sets the path.
CreatePathless(g) ==
  /\ Spend /\ Fresh(g)
  /\ \E local \in BOOLEAN : Insert(g, RootRow(Pathless, local))
  /\ UNCHANGED <<tx, raced, wandered>>

\* A sign-in whose provider knows a group of the same name takes it over.
Mirror(g) ==
  /\ Spend
  /\ g \in DOMAIN row /\ row[g].local
  /\ row' = [row EXCEPT ![g].local = FALSE]
  /\ UNCHANGED <<used, tx, raced, wandered>>

\* Local groups only; parent_id is ON DELETE RESTRICT.
Delete(g) ==
  /\ Spend
  /\ g \in DOMAIN row /\ row[g].local /\ Children(g) = {}
  /\ row' = Restrict(row, DOMAIN row \ {g})
  /\ UNCHANGED <<used, tx, raced, wandered>>

-----------------------------------------------------------------------------
(* CreateSubgroup and MoveGroup                                            *)

Busy == {c \in Changes : tx[c].pc # "idle"}
Moving == {c \in Busy : tx[c].pc # "insert"}

Begin(c, t) == tx[c].pc = "idle" /\ tx' = [tx EXCEPT ![c] = t]

End(c) == tx' = [tx EXCEPT ![c] = NoTx]

\* Mutant: one level too many.
ReadSubgroupParentDeep(c) ==
  \E g \in Groups, p \in DOMAIN row :
    /\ Spend /\ Fresh(g)
    /\ row[p].depth <= MaxDepth
    /\ Begin(c, [NoTx EXCEPT !.pc = "insert", !.group = g, !.parent = p,
                             !.to = Append(row[p].path, g), !.depth = row[p].depth + 1])
    /\ raced' = (raced \/ Moving # {})
    /\ UNCHANGED <<row, wandered>>

ReadSubgroupParent(c) ==
  \E g \in Groups, p \in DOMAIN row :
    /\ Spend /\ Fresh(g)
    /\ row[p].depth < MaxDepth
    /\ Begin(c, [NoTx EXCEPT !.pc = "insert", !.group = g, !.parent = p,
                             !.to = Append(row[p].path, g), !.depth = row[p].depth + 1])
    /\ raced' = (raced \/ Moving # {})
    /\ UNCHANGED <<row, wandered>>

\* The insert fails when the parent is gone.
InsertSubgroup(c) ==
  LET t == tx[c] IN
  /\ t.pc = "insert"
  /\ End(c)
  /\ IF t.parent \in DOMAIN row
     THEN Insert(t.group, [parent |-> t.parent, depth |-> t.depth, path |-> t.to, local |-> TRUE])
     ELSE UNCHANGED row
  /\ UNCHANGED <<used, left, raced, wandered>>

\* newParentID is another group's id, the group's own, or NULL.
ReadMoved(c) ==
  \E g \in DOMAIN row, p \in used \cup {NoGroup} :
    /\ Spend
    /\ Begin(c, [pc |-> IF p = NoGroup THEN "write" ELSE "parent", group |-> g, parent |-> p,
                 from |-> row[g].path, was |-> row[g].depth, to |-> <<g>>, depth |-> 0])
    /\ raced' = (raced \/ Busy # {})
    /\ UNCHANGED <<row, used, wandered>>

\* Mutant: no look at where the new parent hangs.
ReadMoveParentUnchecked(c) ==
  LET t == tx[c] IN
  /\ t.pc = "parent"
  /\ IF t.parent \in DOMAIN row /\ t.parent # t.group
     THEN tx' = [tx EXCEPT ![c].pc = "subtree",
                           ![c].to = Append(row[t.parent].path, t.group),
                           ![c].depth = row[t.parent].depth + 1]
     ELSE End(c)
  /\ UNCHANGED <<row, used, left, raced, wandered>>

\* Refused when the parent is not there or lies under the group.
ReadMoveParent(c) ==
  LET t == tx[c] IN
  /\ t.pc = "parent"
  /\ IF t.parent \in DOMAIN row /\ ~LiesUnder(row[t.parent].path, t.from)
     THEN tx' = [tx EXCEPT ![c].pc = "subtree",
                           ![c].to = Append(row[t.parent].path, t.group),
                           ![c].depth = row[t.parent].depth + 1]
     ELSE End(c)
  /\ UNCHANGED <<row, used, left, raced, wandered>>

ReadSubtree(c) ==
  LET t == tx[c] IN
  /\ t.pc = "subtree"
  /\ IF t.depth + MaxDescendantDepth(t.from) <= MaxDepth
     THEN tx' = [tx EXCEPT ![c].pc = "write"]
     ELSE End(c)
  /\ UNCHANGED <<row, used, left, raced, wandered>>

\* newPath || substring(path FROM len(oldPrefix) + 1)
Rebase(path, old, new) == new \o SubSeq(path, Len(old) + 1, Len(path))

\* The two updates, then the commit; they fail when the parent is gone.
WriteMove(c) ==
  LET t == tx[c] IN
  /\ t.pc = "write"
  /\ End(c)
  /\ \/ /\ t.parent \in DOMAIN row \cup {NoGroup}
        /\ row' = [h \in DOMAIN row |->
                     CASE h = t.group ->
                            [row[h] EXCEPT !.parent = t.parent, !.path = t.to, !.depth = t.depth]
                       [] h # t.group /\ h \in Below(t.from) ->
                            [row[h] EXCEPT !.path = Rebase(@, t.from, t.to),
                                           !.depth = @ + (t.depth - t.was)]
                       [] OTHER -> row[h]]
        /\ wandered' = (wandered \/ t.from = Pathless)
     \/ /\ t.parent \notin DOMAIN row \cup {NoGroup}
        /\ UNCHANGED <<row, wandered>>
  /\ UNCHANGED <<used, left, raced>>

Next ==
  \/ \E g \in Groups : Create(g) \/ CreatePathless(g) \/ Mirror(g) \/ Delete(g)
  \/ \E c \in Changes :
       \/ ReadSubgroupParent(c) \/ InsertSubgroup(c)
       \/ ReadMoved(c) \/ ReadMoveParent(c) \/ ReadSubtree(c) \/ WriteMove(c)

Spec == Init /\ [][Next]_vars

-----------------------------------------------------------------------------
(* Safety                                                                  *)

\* The two descriptions of the tree agree: a root's path is its own id (or was
\* never set) and its depth 0, a child's continue its parent's.  True as long
\* as no move overlaps another change, which it may have read half-way, and
\* none moves a group without a path, whose prefix is everybody's
\* (CreateSubgroup, MoveGroup, "updating path and depth for the group and all
\* its descendants").
PathsTrue ==
  (~raced /\ ~wandered) =>
    \A g \in DOMAIN row :
      LET r == row[g] IN
        IF r.parent = NoGroup
        THEN r.path \in {<<g>>, Pathless} /\ r.depth = 0
        ELSE /\ r.parent \in DOMAIN row
             /\ r.path = Append(row[r.parent].path, g)
             /\ r.depth = row[r.parent].depth + 1

\* "the maximum nesting level allowed": no depth passes it, although a move
\* only looks at the deepest row under the group and adds a difference to all.
DepthBounded == ~raced => \A g \in DOMAIN row : row[g].depth \in 0..MaxDepth

=============================================================================
