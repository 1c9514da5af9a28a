--------------------------- MODULE GroupTreeProofs ---------------------------
(***************************************************************************)
(* Proofs about GroupTree: the types, that no group lies deeper than       *)
(* MaxDepth, and that paths and depths tell where a group hangs, for any   *)
(* groups and any number of transactions.                                  *)
(***************************************************************************)
EXTENDS GroupTree, SequenceTheorems, WellFoundedInduction, TLAPS

-----------------------------------------------------------------------------
(* The invariant                                                           *)

\* A depth is one less than the length of the path beside it, whatever raced:
\* they are read, computed and written together.
Measured ==
  /\ \A g \in DOMAIN row : row[g].depth = Len(row[g].path) - 1
  /\ \A c \in Changes : /\ Len(tx[c].from) > 0 /\ tx[c].was = Len(tx[c].from) - 1
                        /\ Len(tx[c].to) > 0   /\ tx[c].depth = Len(tx[c].to) - 1

\* A transaction is about groups that have been there.
Named ==
  \A c \in Busy : tx[c].group \in used /\ tx[c].parent \in used \cup {NoGroup}

\* A group that waits for its insertion is nobody else's, and nobody's parent.
InsertsFresh ==
  \A c \in Changes : tx[c].pc = "insert" =>
    /\ tx[c].group \in used \ DOMAIN row
    /\ tx[c].parent \in used
    /\ tx[c].depth <= MaxDepth
    /\ \A d \in Changes : tx[d].pc = "insert" =>
         /\ tx[d].parent # tx[c].group
         /\ tx[d].group = tx[c].group => d = c

\* Without a race a move is the only transaction there is.
MovesAlone == ~raced => \A c \in Moving : Busy = {c}

\* What a move has looked at when it is about to write.
RoomBelow ==
  ~raced => \A c \in Changes : tx[c].pc = "write" =>
    \/ tx[c].parent = NoGroup /\ tx[c].depth = 0
    \/ /\ tx[c].depth <= MaxDepth
       /\ \A h \in Below(tx[c].from) : tx[c].depth + row[h].depth <= MaxDepth

\* a is the group at position i of g's path, so its own path ends there.
IsAncestor(a, g, i) ==
  /\ a \in DOMAIN row
  /\ Len(row[a].path) = i
  /\ \A j \in 1..i : row[a].path[j] = row[g].path[j]

\* All groups along a path are there.
PathOK(g) ==
  \A i \in 1..Len(row[g].path) :
    (row[g].path[i] = Blank /\ i = 1) \/ IsAncestor(row[g].path[i], g, i)

HangsRight(g) ==
  LET r == row[g] IN
    IF r.parent = NoGroup
    THEN r.path \in {<<g>>, Pathless} /\ r.depth = 0
    ELSE /\ r.parent \in DOMAIN row
         /\ r.path = Append(row[r.parent].path, g)
         /\ r.depth = row[r.parent].depth + 1

\* What a transaction has read is still so, if its rows are still there.
StillTrue(c) ==
  LET t == tx[c]
      At(p) == p \in DOMAIN row => t.to = Append(row[p].path, t.group)
  IN
  /\ t.pc = "insert" => At(t.parent)
  /\ c \in Moving =>
       /\ t.from = Pathless \/ t.from[Len(t.from)] = t.group
       /\ t.group \in DOMAIN row => row[t.group].path = t.from
  /\ t.pc \in {"subtree", "write"} =>
       IF t.parent = NoGroup THEN t.to = <<t.group>>
       ELSE /\ At(t.parent)
            /\ t.parent \in DOMAIN row => ~LiesUnder(row[t.parent].path, t.from)

Tree ==
  (~raced /\ ~wandered) =>
    /\ \A g \in DOMAIN row : HangsRight(g) /\ PathOK(g)
    /\ \A c \in Changes : StillTrue(c)

Inv == TypeOK /\ Measured /\ Named /\ InsertsFresh /\ MovesAlone /\ DepthBounded /\ RoomBelow /\ Tree

-----------------------------------------------------------------------------
(* Paths                                                                   *)

\* A path's positions, and that equal positions make equal paths.
LEMMA PathFacts ==
  ASSUME NEW p \in Path
  PROVE  /\ Len(p) \in Nat /\ DOMAIN p = 1..Len(p)
         /\ \A i \in 1..Len(p) : p[i] \in Groups \cup {Blank}
         /\ \A q \in Path :
              (Len(q) = Len(p) /\ \A i \in 1..Len(p) : q[i] = p[i]) => q = p
BY SeqEqual, ElementOfSeq, LenProperties DEF Path

LEMMA PathlessFacts == Pathless \in Path /\ Len(Pathless) = 1 /\ Pathless[1] = Blank
BY DEF Path, Pathless

LEMMA OwnPath ==
  ASSUME NEW g \in Groups
  PROVE  <<g>> \in Path /\ Len(<<g>>) = 1 /\ <<g>>[1] = g
BY DEF Path

\* What IsPrefix compares.
LEMMA PrefixFacts ==
  ASSUME NEW p \in Path, NEW q \in Path
  PROVE  /\ IsPrefix(p, q) <=> Len(p) <= Len(q) /\ \A i \in 1..Len(p) : p[i] = q[i]
         /\ IsStrictPrefix(p, q) <=> Len(p) < Len(q) /\ \A i \in 1..Len(p) : p[i] = q[i]
<1> DEFINE s == SubSeq(p, 1, Len(p))
           t == SubSeq(q, 1, Len(p))
<1>1. Len(p) \in Nat /\ Len(q) \in Nat
  BY LenProperties DEF Path
<1>2. s = p
  BY SubSeqFull DEF Path
<1>3. ASSUME Len(p) <= Len(q)
      PROVE  /\ t \in Path /\ Len(t) = Len(p)
             /\ \A i \in 1..Len(p) : t[i] = q[i]
  <2>1. \A i \in 1..Len(p) : q[i] \in Groups \cup {Blank}
    BY <1>1, <1>3, PathFacts
  <2>2. 1 \in Int /\ Len(p) \in Int
    BY <1>1
  <2>3. /\ t \in Seq(Groups \cup {Blank})
        /\ Len(t) = IF 1 <= Len(p) THEN Len(p) - 1 + 1 ELSE 0
        /\ \A i \in 1 .. Len(p) - 1 + 1 : t[i] = q[1 + i - 1]
    BY <2>1, <2>2, SubSeqProperties
  <2> HIDE DEF t
  <2>4. QED
    BY <1>1, <2>3 DEF Path
<1>4. IsPrefix(p, q) <=> Len(p) <= Len(q) /\ \A i \in 1..Len(p) : p[i] = q[i]
  <2> HIDE DEF t
  <2>1. IsPrefix(p, q) <=> Len(p) <= Len(q) /\ p = t
    BY <1>2 DEF IsPrefix, t
  <2>2. QED
    BY <1>1, <1>3, <2>1, PathFacts
<1>5. p = q <=> Len(p) = Len(q) /\ \A i \in 1..Len(p) : p[i] = q[i]
  BY PathFacts
<1>6. QED
  BY <1>1, <1>4, <1>5 DEF IsStrictPrefix

LEMMA AppendFacts ==
  ASSUME NEW p \in Path, NEW g \in Groups
  PROVE  /\ Append(p, g) \in Path
         /\ Len(Append(p, g)) = Len(p) + 1
         /\ \A i \in 1..Len(p) : Append(p, g)[i] = p[i]
         /\ Append(p, g)[Len(p) + 1] = g
BY AppendProperties DEF Path

\* Rebase exchanges a path's beginning.
LEMMA RebaseFacts ==
  ASSUME NEW p \in Path, NEW old \in Path, NEW new \in Path, Len(old) <= Len(p)
  PROVE  LET q == Rebase(p, old, new)
         IN  /\ q \in Path
             /\ Len(q) = Len(new) + (Len(p) - Len(old))
             /\ \A i \in 1..Len(new) : q[i] = new[i]
             /\ \A i \in (Len(old) + 1)..Len(p) : q[i + (Len(new) - Len(old))] = p[i]
<1> DEFINE t == SubSeq(p, Len(old) + 1, Len(p))
<1>1. Len(p) \in Nat /\ Len(old) \in Nat /\ Len(new) \in Nat
  BY LenProperties DEF Path
<1>2. /\ t \in Path
      /\ Len(t) = Len(p) - Len(old)
      /\ \A i \in 1 .. (Len(p) - Len(old)) : t[i] = p[Len(old) + i]
  <2>1. \A i \in (Len(old) + 1)..Len(p) : p[i] \in Groups \cup {Blank}
    BY <1>1, PathFacts
  <2>2. Len(old) + 1 \in Int /\ Len(p) \in Int
    BY <1>1
  <2>3. /\ t \in Seq(Groups \cup {Blank})
        /\ Len(t) = IF Len(old) + 1 <= Len(p) THEN Len(p) - (Len(old) + 1) + 1 ELSE 0
        /\ \A i \in 1 .. Len(p) - (Len(old) + 1) + 1 : t[i] = p[Len(old) + 1 + i - 1]
    BY <2>1, <2>2, SubSeqProperties
  <2> HIDE DEF t
  <2>4. QED
    BY <1>1, <2>3 DEF Path
<1> HIDE DEF t
<1>3. /\ new \o t \in Path
      /\ Len(new \o t) = Len(new) + Len(t)
      /\ \A i \in 1 .. Len(new) + Len(t) :
           (new \o t)[i] = IF i <= Len(new) THEN new[i] ELSE t[i - Len(new)]
  BY <1>2, ConcatProperties DEF Path
<1>4. Rebase(p, old, new) = new \o t
  BY DEF Rebase, t
<1> DEFINE q == new \o t
<1> HIDE DEF q
<1>5. \A i \in 1..Len(new) : q[i] = new[i]
  BY <1>1, <1>2, <1>3 DEF q
<1>6. \A i \in (Len(old) + 1)..Len(p) : q[i + (Len(new) - Len(old))] = p[i]
  <2> TAKE i \in (Len(old) + 1)..Len(p)
  <2> DEFINE k == i + (Len(new) - Len(old))
  <2>1. /\ i \in Int /\ k \in Int /\ k \in 1 .. Len(new) + Len(t) /\ ~(k <= Len(new))
        /\ k - Len(new) = i - Len(old)
        /\ i - Len(old) \in 1..(Len(p) - Len(old)) /\ Len(old) + (i - Len(old)) = i
    BY <1>1, <1>2
  <2> HIDE DEF k
  <2>2. q[k] = t[k - Len(new)]
    BY <1>3, <2>1 DEF q
  <2>3. QED
    BY <1>2, <2>1, <2>2 DEF k
<1>7. QED
  BY <1>1, <1>2, <1>3, <1>4, <1>5, <1>6 DEF q

-----------------------------------------------------------------------------
(* The deepest row                                                         *)

\* A set of numbers up to n that has a member has a largest one.
LEMMA LargestBelow ==
  ASSUME NEW n \in Nat, NEW S, S \subseteq 0..n, S # {}
  PROVE  Max(S) \in S /\ \A x \in S : x <= Max(S)
<1> DEFINE R == OpToRel(<, Nat)
           T == {n - x : x \in S}
<1>1. IsWellFoundedOn(R, Nat)
  BY NatLessThanWellFounded
<1>2. T \subseteq Nat /\ T # {}
  <2>1. \A x \in S : n - x \in Nat
    OBVIOUS
  <2>2. QED
    BY <2>1, Zenon
<1>3. PICK y \in T : \A z \in T : ~(<<z, y>> \in R)
  <2> HIDE DEF T, R
  <2>1. QED
    BY <1>1, <1>2, WFMin
<1>4. \A z \in T : ~(z < y)
  BY <1>2, <1>3 DEF OpToRel
<1>5. PICK x \in S : y = n - x
  OBVIOUS
<1>6. \A z \in S : x >= z
  <2> TAKE z \in S
  <2>1. n - z \in T
    OBVIOUS
  <2>2. QED
    BY <1>4, <1>5, <2>1
<1>7. QED
  BY <1>6 DEF Max

-----------------------------------------------------------------------------
(* What the actions do                                                     *)

\* The table with another row, with less of one, and after a move.
Added(g, r) ==
  /\ row' \in [DOMAIN row \cup {g} -> Row]
  /\ row'[g] = r
  /\ \A h \in DOMAIN row : h # g => row'[h] = row[h]

Removed(g) ==
  /\ row' \in [DOMAIN row \ {g} -> Row]
  /\ \A h \in DOMAIN row : h # g => row'[h] = row[h]

Placed(r, q) == r.parent = q.parent /\ r.path = q.path /\ r.depth = q.depth

Moved(t) ==
  /\ row' \in [DOMAIN row -> Row]
  /\ \A h \in DOMAIN row :
       /\ h = t.group =>
            row'[h].parent = t.parent /\ row'[h].path = t.to /\ row'[h].depth = t.depth
       /\ h # t.group /\ h \in Below(t.from) =>
            /\ row'[h].parent = row[h].parent
            /\ row'[h].path = Rebase(row[h].path, t.from, t.to)
            /\ row'[h].depth = row[h].depth + (t.depth - t.was)
       /\ h # t.group /\ h \notin Below(t.from) => row'[h] = row[h]

\* A slot with another transaction in it.
Slot(c, t) ==
  /\ tx' \in [Changes -> Tx]
  /\ tx'[c] = t
  /\ \A d \in Changes : d # c => tx'[d] = tx[d]

NewRoot(g) ==
  /\ g \in Groups \ used /\ used' = used \cup {g}
  /\ \E r \in Row : /\ r.parent = NoGroup /\ r.depth = 0 /\ r.path \in {<<g>>, Pathless}
                    /\ Added(g, r)
  /\ UNCHANGED <<tx, raced, wandered>>

Relabelled ==
  /\ row' \in [DOMAIN row -> Row]
  /\ \A h \in DOMAIN row : Placed(row'[h], row[h])
  /\ UNCHANGED <<used, tx, raced, wandered>>

Gone(g) ==
  /\ g \in DOMAIN row /\ Children(g) = {} /\ Removed(g)
  /\ UNCHANGED <<used, tx, raced, wandered>>

\* The transaction as ReadSubgroupParent and ReadMoved begin it.
Joining(g, p) ==
  [NoTx EXCEPT !.pc = "insert", !.group = g, !.parent = p,
               !.to = Append(row[p].path, g), !.depth = row[p].depth + 1]

Departing(g, p) ==
  [pc |-> IF p = NoGroup THEN "write" ELSE "parent", group |-> g, parent |-> p,
   from |-> row[g].path, was |-> row[g].depth, to |-> <<g>>, depth |-> 0]

Joins(c) ==
  \E g \in Groups \ used, p \in DOMAIN row :
    /\ tx[c].pc = "idle" /\ Slot(c, Joining(g, p)) /\ Joining(g, p) \in Tx
    /\ used' = used \cup {g}
    /\ row[p].depth < MaxDepth
    /\ raced' = (raced \/ Moving # {})
    /\ UNCHANGED <<row, wandered>>

Inserts(c) ==
  LET t == tx[c]
      r == [parent |-> t.parent, depth |-> t.depth, path |-> t.to, local |-> TRUE]
  IN
  /\ t.pc = "insert" /\ Slot(c, NoTx)
  /\ \/ t.parent \in DOMAIN row /\ t.group \in used /\ r \in Row /\ Added(t.group, r)
     \/ UNCHANGED row
  /\ UNCHANGED <<used, raced, wandered>>

Departs(c) ==
  \E g \in DOMAIN row, p \in used \cup {NoGroup} :
    /\ tx[c].pc = "idle" /\ Slot(c, Departing(g, p)) /\ Departing(g, p) \in Tx
    /\ raced' = (raced \/ Busy # {})
    /\ UNCHANGED <<row, used, wandered>>

\* ReadMoveParent and ReadSubtree, when they go on.
Aimed(t) ==
  [t EXCEPT !.pc = "subtree", !.to = Append(row[t.parent].path, t.group),
            !.depth = row[t.parent].depth + 1]

Ready(t) == [t EXCEPT !.pc = "write"]

Aims(c) ==
  LET t == tx[c] IN
  /\ t.pc = "parent"
  /\ t.parent \in DOMAIN row /\ ~LiesUnder(row[t.parent].path, t.from)
  /\ Slot(c, Aimed(t)) /\ Aimed(t) \in Tx
  /\ UNCHANGED <<row, used, raced, wandered>>

Fits(c) ==
  LET t == tx[c] IN
  /\ t.pc = "subtree" /\ t.depth + MaxDescendantDepth(t.from) <= MaxDepth
  /\ Slot(c, Ready(t))
  /\ UNCHANGED <<row, used, raced, wandered>>

Stops(c) ==
  /\ tx[c].pc # "idle" /\ Slot(c, NoTx)
  /\ UNCHANGED <<row, used, raced, wandered>>

Commits(c) ==
  LET t == tx[c] IN
  /\ t.pc = "write" /\ Slot(c, NoTx)
  /\ t.parent \in DOMAIN row \cup {NoGroup} /\ Moved(t)
  /\ wandered' = (wandered \/ t.from = Pathless)
  /\ UNCHANGED <<used, raced>>

-----------------------------------------------------------------------------

LEMMA RowType ==
  ASSUME TypeOK, NEW g \in DOMAIN row
  PROVE  /\ row[g] \in Row /\ row[g].path \in Path /\ row[g].depth \in Nat
         /\ row[g].parent \in Groups \cup {NoGroup} /\ g \in Groups /\ g \in used
BY DEF TypeOK, Row

LEMMA TxType ==
  ASSUME TypeOK, NEW c \in Changes
  PROVE  /\ tx[c] \in Tx /\ tx[c].from \in Path /\ tx[c].to \in Path
         /\ tx[c].group \in Groups \cup {NoGroup} /\ tx[c].parent \in Groups \cup {NoGroup}
         /\ tx[c].was \in Int /\ tx[c].depth \in Int
BY DEF TypeOK, Tx

LEMMA NoTxType == NoTx \in Tx
BY PathlessFacts DEF NoTx, Tx

LEMMA SlotStep ==
  ASSUME TypeOK, NEW c \in Changes, NEW t \in Tx, tx' = [tx EXCEPT ![c] = t]
  PROVE  Slot(c, t)
BY DEF TypeOK, Slot

LEMMA InsertStep ==
  ASSUME TypeOK, NEW g \in Groups, NEW r \in Row, Insert(g, r)
  PROVE  Added(g, r)
BY DEF TypeOK, Insert, Added

LEMMA CreateStep ==
  ASSUME TypeOK, NEW g \in Groups, Create(g) \/ CreatePathless(g)
  PROVE  NewRoot(g)
<1>1. <<g>> \in Path /\ Pathless \in Path
  BY OwnPath, PathlessFacts
<1>2. g \in Groups \ used /\ used' = used \cup {g} /\ UNCHANGED <<tx, raced, wandered>>
  BY DEF Create, CreatePathless, Fresh
<1>3. \A path \in Path, local \in BOOLEAN :
        LET r == RootRow(path, local)
        IN  r \in Row /\ r.parent = NoGroup /\ r.depth = 0 /\ r.path = path
  BY DEF RootRow, Row
<1>4. \E path \in {<<g>>, Pathless}, local \in BOOLEAN : Insert(g, RootRow(path, local))
  BY DEF Create, CreatePathless
<1>5. QED
  BY <1>1, <1>2, <1>3, <1>4, InsertStep DEF NewRoot

LEMMA MirrorStep ==
  ASSUME TypeOK, NEW g \in Groups, Mirror(g)
  PROVE  Relabelled
<1> DEFINE q == [row[g] EXCEPT !.local = FALSE]
<1>1. g \in DOMAIN row /\ row' = [row EXCEPT ![g] = q]
  BY DEF Mirror
<1>2. q \in Row /\ Placed(q, row[g])
  BY <1>1, RowType DEF Row, Placed
<1> HIDE DEF q
<1>3. row' \in [DOMAIN row -> Row] /\ \A h \in DOMAIN row : Placed(row'[h], row[h])
  BY <1>1, <1>2 DEF TypeOK, Placed
<1>4. QED
  BY <1>3 DEF Relabelled, Mirror

LEMMA DeleteStep ==
  ASSUME TypeOK, NEW g \in Groups, Delete(g)
  PROVE  Gone(g)
<1>1. g \in DOMAIN row /\ Children(g) = {} /\ row' = [h \in DOMAIN row \ {g} |-> row[h]]
  BY DEF Delete, Restrict
<1>2. Removed(g)
  BY <1>1 DEF Removed, TypeOK
<1>3. QED
  BY <1>1, <1>2 DEF Gone, Delete

LEMMA JoinStep ==
  ASSUME TypeOK, NEW c \in Changes, ReadSubgroupParent(c)
  PROVE  Joins(c)
<1>1. PICK g \in Groups, p \in DOMAIN row :
        /\ Spend /\ Fresh(g) /\ row[p].depth < MaxDepth
        /\ Begin(c, Joining(g, p))
        /\ raced' = (raced \/ Moving # {})
        /\ UNCHANGED <<row, wandered>>
  BY DEF ReadSubgroupParent, Joining
<1>2. Append(row[p].path, g) \in Path /\ row[p].depth + 1 \in Int /\ p \in Groups
  BY RowType, AppendFacts
<1>3. Joining(g, p) \in Tx
  BY <1>2, NoTxType DEF Joining, Tx, NoTx
<1>4. QED
  BY <1>1, <1>3, SlotStep DEF Joins, Fresh, Begin

LEMMA InsertSubgroupStep ==
  ASSUME TypeOK, Measured, InsertsFresh, NEW c \in Changes, InsertSubgroup(c)
  PROVE  Inserts(c)
<1> DEFINE t == tx[c]
           r == [parent |-> t.parent, depth |-> t.depth, path |-> t.to, local |-> TRUE]
<1>1. t.pc = "insert" /\ Slot(c, NoTx) /\ UNCHANGED <<used, raced, wandered>>
  BY NoTxType, SlotStep DEF InsertSubgroup, End
<1>2. t.depth \in Nat
  BY TxType, PathFacts DEF Measured
<1>3. r \in Row
  BY <1>2, TxType DEF Row
<1>4. t.group \in used /\ t.group \in Groups
  BY <1>1 DEF InsertsFresh, TypeOK
<1>5. \/ t.parent \in DOMAIN row /\ Insert(t.group, r)
      \/ UNCHANGED row
  BY DEF InsertSubgroup
<1>6. QED
  BY <1>1, <1>3, <1>4, <1>5, InsertStep DEF Inserts

LEMMA DepartStep ==
  ASSUME TypeOK, NEW c \in Changes, ReadMoved(c)
  PROVE  Departs(c)
<1>1. PICK g \in DOMAIN row, p \in used \cup {NoGroup} :
        /\ Begin(c, Departing(g, p))
        /\ raced' = (raced \/ Busy # {})
        /\ UNCHANGED <<row, used, wandered>>
  BY DEF ReadMoved, Departing
<1>2. /\ g \in Groups /\ p \in Groups \cup {NoGroup}
      /\ row[g].path \in Path /\ row[g].depth \in Int /\ <<g>> \in Path
  BY RowType, OwnPath DEF TypeOK
<1>3. Departing(g, p) \in Tx
  BY <1>2 DEF Departing, Tx
<1>4. QED
  BY <1>1, <1>3, SlotStep DEF Departs, Begin

LEMMA AimStep ==
  ASSUME TypeOK, Named, NEW c \in Changes, ReadMoveParent(c)
  PROVE  Aims(c) \/ Stops(c)
<1> DEFINE t == tx[c]
<1>1. CASE t.parent \in DOMAIN row /\ ~LiesUnder(row[t.parent].path, t.from)
  <2>1. t.group \in Groups
    BY DEF Named, Busy, TypeOK, ReadMoveParent
  <2>2. Append(row[t.parent].path, t.group) \in Path /\ row[t.parent].depth + 1 \in Int
    BY <1>1, <2>1, RowType, AppendFacts
  <2>3. Aimed(t) \in Tx
    BY <2>2, TxType DEF Aimed, Tx
  <2>4. tx' = [tx EXCEPT ![c] = Aimed(t)]
    BY <1>1 DEF ReadMoveParent, Aimed
  <2>5. QED
    BY <1>1, <2>3, <2>4, SlotStep DEF Aims, ReadMoveParent
<1>2. CASE ~(t.parent \in DOMAIN row /\ ~LiesUnder(row[t.parent].path, t.from))
  BY <1>2, SlotStep, NoTxType DEF ReadMoveParent, Stops, End
<1>3. QED
  BY <1>1, <1>2

LEMMA FitStep ==
  ASSUME TypeOK, NEW c \in Changes, ReadSubtree(c)
  PROVE  Fits(c) \/ Stops(c)
<1> DEFINE t == tx[c]
           u == Ready(t)
<1>1. u \in Tx
  BY TxType DEF Ready, Tx
<1>2. CASE t.depth + MaxDescendantDepth(t.from) <= MaxDepth
  <2>1. tx' = [tx EXCEPT ![c] = u]
    BY <1>2 DEF ReadSubtree, Ready
  <2>2. QED
    BY <1>1, <1>2, <2>1, SlotStep DEF Fits, ReadSubtree
<1>3. CASE ~(t.depth + MaxDescendantDepth(t.from) <= MaxDepth)
  BY <1>3, SlotStep, NoTxType DEF ReadSubtree, Stops, End
<1>4. QED
  BY <1>2, <1>3

LEMMA CommitStep ==
  ASSUME TypeOK, Measured, Named, NEW c \in Changes, WriteMove(c)
  PROVE  Commits(c) \/ Stops(c)
<1> DEFINE t == tx[c]
           at(h) == [row[h] EXCEPT !.parent = t.parent, !.path = t.to, !.depth = t.depth]
           below(h) == [row[h] EXCEPT !.path = Rebase(@, t.from, t.to),
                                      !.depth = @ + (t.depth - t.was)]
<1>1. t.pc = "write" /\ Slot(c, NoTx) /\ UNCHANGED <<used, raced>>
  BY NoTxType, SlotStep DEF WriteMove, End
<1>2. CASE t.parent \notin DOMAIN row \cup {NoGroup}
  BY <1>1, <1>2 DEF WriteMove, Stops
<1>3. CASE t.parent \in DOMAIN row \cup {NoGroup}
  <2>1. /\ row' = [h \in DOMAIN row |-> CASE h = t.group -> at(h)
                                          [] h # t.group /\ h \in Below(t.from) -> below(h)
                                          [] OTHER -> row[h]]
        /\ wandered' = (wandered \/ t.from = Pathless)
    BY <1>3 DEF WriteMove
  <2>2. ASSUME NEW h \in DOMAIN row
        PROVE  /\ at(h) \in Row /\ at(h).parent = t.parent /\ at(h).path = t.to /\ at(h).depth = t.depth
    <3>1. t.depth \in Nat
      BY TxType, PathFacts DEF Measured
    <3>2. QED
      BY <3>1, RowType, TxType DEF Row
  <2>3. ASSUME NEW h \in Below(t.from)
        PROVE  /\ below(h) \in Row /\ below(h).parent = row[h].parent
               /\ below(h).path = Rebase(row[h].path, t.from, t.to)
               /\ below(h).depth = row[h].depth + (t.depth - t.was)
    <3> DEFINE p == row[h].path
    <3>1. h \in DOMAIN row /\ p \in Path /\ row[h] \in Row /\ t.from \in Path /\ t.to \in Path
      BY RowType, TxType DEF Below
    <3>2. Len(t.from) < Len(p)
      BY <3>1, PrefixFacts DEF Below
    <3>3. /\ Len(p) \in Nat /\ Len(t.from) \in Nat /\ Len(t.to) \in Nat
          /\ row[h].depth = Len(p) - 1 /\ t.depth = Len(t.to) - 1 /\ t.was = Len(t.from) - 1
          /\ Len(t.to) > 0
      BY <3>1, PathFacts DEF Measured
    <3>4. row[h].depth + (t.depth - t.was) \in Nat
      <4>1. \A k, m, n \in Nat : (m < k /\ n > 0) => (k - 1) + ((n - 1) - (m - 1)) \in Nat
        OBVIOUS
      <4> HIDE DEF t, p
      <4>2. QED
        BY <3>2, <3>3, <4>1
    <3>5. Rebase(p, t.from, t.to) \in Path
      BY <3>1, <3>2, <3>3, RebaseFacts
    <3>6. QED
      BY <3>1, <3>4, <3>5 DEF Row
  <2> HIDE DEF at, below
  <2>4. row' \in [DOMAIN row -> Row]
    BY <2>1, <2>2, <2>3, RowType
  <2>5. Moved(t)
    BY <2>1, <2>2, <2>3, <2>4 DEF Moved
  <2>6. QED
    BY <1>1, <1>3, <2>1, <2>5 DEF Commits
<1>4. QED
  BY <1>2, <1>3

\* What a step may be.
Settled == \E g \in Groups : NewRoot(g) \/ Gone(g)

Proceeds(c) ==
  Joins(c) \/ Inserts(c) \/ Departs(c) \/ Aims(c) \/ Fits(c) \/ Stops(c) \/ Commits(c)

LEMMA Kinds ==
  ASSUME TypeOK, Measured, Named, InsertsFresh, Next
  PROVE  Settled \/ Relabelled \/ \E c \in Changes : Proceeds(c)
<1>1. CASE \E g \in Groups : Create(g) \/ CreatePathless(g) \/ Mirror(g) \/ Delete(g)
  BY <1>1, CreateStep, MirrorStep, DeleteStep DEF Settled
<1>2. ASSUME NEW c \in Changes,
             \/ ReadSubgroupParent(c) \/ InsertSubgroup(c)
             \/ ReadMoved(c) \/ ReadMoveParent(c) \/ ReadSubtree(c) \/ WriteMove(c)
      PROVE  Proceeds(c)
  BY <1>2, JoinStep, InsertSubgroupStep, DepartStep, AimStep, FitStep, CommitStep DEF Proceeds
<1>3. QED
  BY <1>1, <1>2 DEF Next

LEMMA LeftStep ==
  ASSUME TypeOK, Next
  PROVE  left' \in 0..MaxChanges
<1>1. UNCHANGED left \/ Spend
  BY DEF Next, Create, CreatePathless, Mirror, Delete, ReadSubgroupParent, InsertSubgroup,
         ReadMoved, ReadMoveParent, ReadSubtree, WriteMove
<1>2. QED
  BY <1>1, TreeAssumption DEF TypeOK, Spend

\* The invariant without what holds only as long as nothing raced.
Shaped == TypeOK /\ Measured /\ Named /\ InsertsFresh

\* The rest of the state, whatever the slot's step was.
LEMMA TypeStep ==
  ASSUME Shaped, Next
  PROVE  TypeOK'
<1>1. left' \in 0..MaxChanges
  BY LeftStep DEF Shaped
<1>2. ASSUME used' \subseteq Groups, DOMAIN row' \subseteq used', row' \in [DOMAIN row' -> Row],
             tx' \in [Changes -> Tx], raced' \in BOOLEAN, wandered' \in BOOLEAN
      PROVE  TypeOK'
  BY <1>1, <1>2 DEF TypeOK
<1>3. CASE Settled
  <2>1. PICK g \in Groups : NewRoot(g) \/ Gone(g)
    BY <1>3 DEF Settled
  <2>2. CASE NewRoot(g)
    BY <1>2, <2>2 DEF NewRoot, Added, TypeOK, Shaped
  <2>3. CASE Gone(g)
    BY <1>2, <2>3 DEF Gone, Removed, TypeOK, Shaped
  <2>4. QED
    BY <2>1, <2>2, <2>3
<1>4. CASE Relabelled
  BY <1>2, <1>4 DEF Relabelled, TypeOK, Shaped
<1>5. ASSUME NEW c \in Changes, Proceeds(c)
      PROVE  TypeOK'
  <2>1. CASE Joins(c)
    BY <1>2, <2>1 DEF Joins, Slot, TypeOK, Shaped
  <2>2. CASE Inserts(c)
    BY <1>2, <2>2 DEF Inserts, Added, Slot, TypeOK, Shaped
  <2>3. CASE Departs(c)
    BY <1>2, <2>3 DEF Departs, Slot, TypeOK, Shaped
  <2>4. CASE Aims(c) \/ Fits(c) \/ Stops(c)
    BY <1>2, <2>4 DEF Aims, Fits, Stops, Slot, TypeOK, Shaped
  <2>5. CASE Commits(c)
    BY <1>2, <2>5 DEF Commits, Moved, Slot, TypeOK, Shaped
  <2>6. QED
    BY <1>5, <2>1, <2>2, <2>3, <2>4, <2>5 DEF Proceeds
<1>6. QED
  BY <1>3, <1>4, <1>5, Kinds DEF Shaped

\* Depths and lengths of one row and of one transaction.
RowMeasured(r) == r.depth = Len(r.path) - 1

TxMeasured(t) ==
  /\ Len(t.from) > 0 /\ t.was = Len(t.from) - 1
  /\ Len(t.to) > 0   /\ t.depth = Len(t.to) - 1

LEMMA MeasuredFacts ==
  ASSUME Shaped
  PROVE  /\ \A g \in DOMAIN row : RowMeasured(row[g]) /\ Len(row[g].path) \in Nat \ {0}
         /\ \A c \in Changes : TxMeasured(tx[c])
         /\ TxMeasured(NoTx)
<1>1. \A g \in DOMAIN row : Len(row[g].path) \in Nat \ {0}
  BY RowType, PathFacts DEF Shaped, Measured
<1>2. QED
  BY <1>1, PathlessFacts DEF Shaped, Measured, RowMeasured, TxMeasured, NoTx

LEMMA MeasuredStep ==
  ASSUME Shaped, Next
  PROVE  Measured'
<1>1. SUFFICES /\ \A g \in DOMAIN row' : RowMeasured(row'[g])
               /\ \A c \in Changes : TxMeasured(tx'[c])
  BY DEF Measured, RowMeasured, TxMeasured
<1>2. ASSUME NEW c \in Changes, NEW t, Slot(c, t), TxMeasured(t)
      PROVE  \A d \in Changes : TxMeasured(tx'[d])
  BY <1>2, MeasuredFacts DEF Slot
<1>3. ASSUME NEW g, NEW r, Added(g, r), RowMeasured(r)
      PROVE  \A h \in DOMAIN row' : RowMeasured(row'[h])
  BY <1>3, MeasuredFacts DEF Added
<1>4. CASE Settled
  <2>1. PICK g \in Groups : NewRoot(g) \/ Gone(g)
    BY <1>4 DEF Settled
  <2>2. CASE NewRoot(g)
    <3>1. PICK r \in Row : r.depth = 0 /\ r.path \in {<<g>>, Pathless} /\ Added(g, r)
      BY <2>2 DEF NewRoot
    <3>2. RowMeasured(r)
      BY <3>1, OwnPath, PathlessFacts DEF RowMeasured
    <3>3. QED
      BY <1>3, <2>2, <3>1, <3>2, MeasuredFacts DEF NewRoot
  <2>3. CASE Gone(g)
    BY <2>3, MeasuredFacts DEF Gone, Removed
  <2>4. QED
    BY <2>1, <2>2, <2>3
<1>5. CASE Relabelled
  BY <1>5, MeasuredFacts DEF Relabelled, Placed, RowMeasured
<1>6. ASSUME NEW c \in Changes, Proceeds(c)
      PROVE  /\ \A g \in DOMAIN row' : RowMeasured(row'[g])
             /\ \A d \in Changes : TxMeasured(tx'[d])
  <2> DEFINE t == tx[c]
  <2>1. CASE Joins(c)
    <3>1. PICK g \in Groups, p \in DOMAIN row : Slot(c, Joining(g, p)) /\ UNCHANGED row
      BY <2>1 DEF Joins
    <3>2. TxMeasured(Joining(g, p))
      BY RowType, AppendFacts, MeasuredFacts, PathlessFacts
         DEF Joining, TxMeasured, RowMeasured, NoTx, Shaped
    <3>3. QED
      BY <1>2, <3>1, <3>2, MeasuredFacts
  <2>2. CASE Inserts(c)
    BY <1>2, <1>3, <2>2, MeasuredFacts DEF Inserts, RowMeasured, TxMeasured
  <2>3. CASE Departs(c)
    <3>1. PICK g \in DOMAIN row, p \in used \cup {NoGroup} : Slot(c, Departing(g, p)) /\ UNCHANGED row
      BY <2>3 DEF Departs
    <3>2. TxMeasured(Departing(g, p))
      BY RowType, OwnPath, MeasuredFacts DEF Departing, TxMeasured, RowMeasured, Shaped
    <3>3. QED
      BY <1>2, <3>1, <3>2, MeasuredFacts
  <2>4. CASE Aims(c)
    <3>1. t.group \in Groups /\ t.parent \in DOMAIN row /\ t \in Tx
      BY <2>4, TxType DEF Aims, Shaped, Named, Busy, TypeOK
    <3>2. TxMeasured(Aimed(t))
      BY <3>1, RowType, AppendFacts, MeasuredFacts DEF Aimed, TxMeasured, RowMeasured, Tx, Shaped
    <3>3. QED
      BY <1>2, <2>4, <3>2, MeasuredFacts DEF Aims
  <2>5. CASE Fits(c)
    <3>1. TxMeasured(Ready(t))
      BY TxType, MeasuredFacts DEF TxMeasured, Ready, Tx, Shaped
    <3>2. QED
      BY <1>2, <2>5, <3>1, MeasuredFacts DEF Fits
  <2>6. CASE Stops(c)
    BY <1>2, <2>6, MeasuredFacts DEF Stops
  <2>7. CASE Commits(c)
    <3>1. ASSUME NEW h \in DOMAIN row
          PROVE  RowMeasured(row'[h])
      <4>1. Moved(t) /\ TxMeasured(t) /\ RowMeasured(row[h])
        BY <2>7, MeasuredFacts DEF Commits
      <4>2. CASE h = t.group
        BY <4>1, <4>2 DEF Moved, RowMeasured, TxMeasured
      <4>3. CASE h # t.group /\ h \notin Below(t.from)
        BY <4>1, <4>3 DEF Moved
      <4>4. CASE h # t.group /\ h \in Below(t.from)
        <5> DEFINE p == row[h].path
                   q == Rebase(p, t.from, t.to)
        <5>1. /\ row'[h].path = q
              /\ row'[h].depth = row[h].depth + (t.depth - t.was)
          BY <4>1, <4>4 DEF Moved
        <5>2. p \in Path /\ t.from \in Path /\ t.to \in Path
          BY RowType, TxType DEF Shaped
        <5>3. Len(t.from) < Len(p) /\ Len(p) \in Nat /\ Len(t.from) \in Nat /\ Len(t.to) \in Nat
          BY <4>4, <5>2, PrefixFacts, PathFacts DEF Below
        <5>4. Len(q) = Len(t.to) + (Len(p) - Len(t.from))
          <6>1. Len(t.from) <= Len(p)
            BY <5>3
          <6> HIDE DEF p, t
          <6>2. QED
            BY <5>2, <6>1, RebaseFacts DEF q
        <5>5. row[h].depth = Len(p) - 1 /\ t.depth = Len(t.to) - 1 /\ t.was = Len(t.from) - 1
          BY <4>1 DEF RowMeasured, TxMeasured
        <5>6. \A k, m, n \in Nat : (k - 1) + ((n - 1) - (m - 1)) = n + (k - m) - 1
          OBVIOUS
        <5> HIDE DEF q, p, t
        <5>7. row'[h].depth = Len(row'[h].path) - 1
          BY <5>1, <5>3, <5>4, <5>5, <5>6
        <5>8. QED
          BY <5>7 DEF RowMeasured
      <4>5. QED
        BY <4>2, <4>3, <4>4
    <3>2. QED
      BY <1>2, <2>7, <3>1, MeasuredFacts DEF Commits, Moved
  <2>8. QED
    BY <1>6, <2>1, <2>2, <2>3, <2>4, <2>5, <2>6, <2>7 DEF Proceeds
<1>7. QED
  BY <1>4, <1>5, <1>6, Kinds DEF Shaped

LEMMA JoiningFields ==
  ASSUME NEW g, NEW p
  PROVE  LET t == Joining(g, p)
         IN  /\ t.pc = "insert" /\ t.group = g /\ t.parent = p
             /\ t.to = Append(row[p].path, g) /\ t.depth = row[p].depth + 1
BY DEF Joining, NoTx

LEMMA DepartingFields ==
  ASSUME NEW g, NEW p
  PROVE  LET t == Departing(g, p)
         IN  /\ t.pc = IF p = NoGroup THEN "write" ELSE "parent"
             /\ t.group = g /\ t.parent = p /\ t.from = row[g].path /\ t.was = row[g].depth
             /\ t.to = <<g>> /\ t.depth = 0
BY DEF Departing

LEMMA AimedFields ==
  ASSUME NEW t \in Tx
  PROVE  LET u == Aimed(t)
         IN  /\ u.pc = "subtree" /\ u.group = t.group /\ u.parent = t.parent /\ u.from = t.from
             /\ u.to = Append(row[t.parent].path, t.group) /\ u.depth = row[t.parent].depth + 1
BY DEF Aimed, Tx

LEMMA ReadyFields ==
  ASSUME NEW t \in Tx
  PROVE  LET u == Ready(t)
         IN  /\ u.pc = "write" /\ u.group = t.group /\ u.parent = t.parent /\ u.from = t.from
             /\ u.to = t.to /\ u.depth = t.depth
BY DEF Ready, Tx

LEMMA NamedStep ==
  ASSUME Shaped, Next
  PROVE  Named'
<1>1. SUFFICES \A d \in Changes : tx'[d].pc # "idle" =>
                 tx'[d].group \in used' /\ tx'[d].parent \in used' \cup {NoGroup}
  BY DEF Named, Busy
<1>2. \A d \in Changes : tx[d].pc # "idle" =>
        tx[d].group \in used /\ tx[d].parent \in used \cup {NoGroup}
  BY DEF Shaped, Named, Busy
<1>3. CASE Settled \/ Relabelled
  BY <1>2, <1>3 DEF Settled, NewRoot, Gone, Relabelled
<1>4. ASSUME NEW c \in Changes, Proceeds(c)
      PROVE  \A d \in Changes : tx'[d].pc # "idle" =>
               tx'[d].group \in used' /\ tx'[d].parent \in used' \cup {NoGroup}
  <2>1. CASE Joins(c)
    <3>1. PICK g \in Groups, p \in DOMAIN row : Slot(c, Joining(g, p)) /\ used' = used \cup {g}
      BY <2>1 DEF Joins
    <3>2. p \in used
      BY RowType DEF Shaped
    <3>3. QED
      BY <1>2, <3>1, <3>2, JoiningFields DEF Slot
  <2>2. CASE Departs(c)
    <3>1. PICK g \in DOMAIN row, p \in used \cup {NoGroup} : Slot(c, Departing(g, p)) /\ used' = used
      BY <2>2 DEF Departs
    <3>2. g \in used
      BY RowType DEF Shaped
    <3>3. QED
      BY <1>2, <3>1, <3>2, DepartingFields DEF Slot
  <2>3. CASE Aims(c) \/ Fits(c)
    <3>1. tx[c] \in Tx
      BY TxType DEF Shaped
    <3>2. QED
      <4>1. PICK u : /\ Slot(c, u) /\ u.group = tx[c].group /\ u.parent = tx[c].parent
                     /\ tx[c].pc # "idle" /\ used' = used
        BY <2>3, <3>1, AimedFields, ReadyFields DEF Aims, Fits
      <4>2. QED
        BY <1>2, <4>1 DEF Slot
  <2>4. CASE Inserts(c) \/ Stops(c) \/ Commits(c)
    BY <1>2, <2>4 DEF Inserts, Stops, Commits, Slot, NoTx
  <2>5. QED
    BY <1>4, <2>1, <2>2, <2>3, <2>4 DEF Proceeds
<1>5. QED
  BY <1>3, <1>4, Kinds DEF Shaped

\* What InsertsFresh says of one transaction and of two.
LEMMA FreshStep ==
  ASSUME Shaped, Next
  PROVE  InsertsFresh'
<1> DEFINE Wait(t, U, D) ==
             t.pc = "insert" => t.group \in U \ D /\ t.parent \in U /\ t.depth <= MaxDepth
           Apart(t, u) ==
             t.pc = "insert" /\ u.pc = "insert" => u.parent # t.group
           Differ(t, u) ==
             t.pc = "insert" /\ u.pc = "insert" => u.group # t.group
           All(x, U, D) ==
             /\ \A d \in Changes : Wait(x[d], U, D)
             /\ \A d, e \in Changes : Apart(x[d], x[e])
             /\ \A d, e \in Changes : d # e => Differ(x[d], x[e])
<1>1. All(tx, used, DOMAIN row)
  BY Zenon DEF Shaped, InsertsFresh
<1>2. SUFFICES All(tx', used', DOMAIN row')
  BY Zenon DEF InsertsFresh
<1>3. ASSUME NEW c \in Changes, NEW t, Slot(c, t), t.pc # "insert",
             used \subseteq used', \A g \in DOMAIN row' : g \in DOMAIN row \/ g \notin used
      PROVE  All(tx', used', DOMAIN row')
  BY <1>1, <1>3 DEF Slot
<1>4. CASE Settled
  <2>1. PICK g \in Groups : NewRoot(g) \/ Gone(g)
    BY <1>4 DEF Settled
  <2>2. CASE NewRoot(g)
    BY <1>1, <2>2 DEF NewRoot, Added
  <2>3. CASE Gone(g)
    BY <1>1, <2>3 DEF Gone, Removed
  <2>4. QED
    BY <2>1, <2>2, <2>3
<1>5. CASE Relabelled
  BY <1>1, <1>5 DEF Relabelled
<1>6. ASSUME NEW c \in Changes, Proceeds(c)
      PROVE  All(tx', used', DOMAIN row')
  <2>1. CASE Joins(c)
    <3>1. PICK g \in Groups \ used, p \in DOMAIN row :
            /\ tx[c].pc = "idle" /\ Slot(c, Joining(g, p)) /\ used' = used \cup {g}
            /\ row[p].depth < MaxDepth /\ UNCHANGED row
      BY <2>1 DEF Joins
    <3> DEFINE t == Joining(g, p)
    <3>2. /\ t.pc = "insert" /\ t.group = g /\ t.parent = p
          /\ t.depth = row[p].depth + 1
      BY DEF Joining, NoTx
    <3> HIDE DEF t
    <3>3. p \in used /\ DOMAIN row \subseteq used /\ row[p].depth \in Nat /\ p # g
      BY <3>1, RowType DEF Shaped, TypeOK
    <3>4. t.depth <= MaxDepth
      BY <3>1, <3>2, <3>3, TreeAssumption
    <3>5. \A d \in Changes : d # c => tx'[d] = tx[d]
      BY <3>1 DEF Slot
    <3>6. tx'[c] = t
      BY <3>1 DEF Slot, t
    <3>7. \A d \in Changes : Wait(tx'[d], used', DOMAIN row')
      BY <1>1, <3>1, <3>2, <3>3, <3>4, <3>5, <3>6
    <3>8. \A d \in Changes : tx[d].pc = "insert" =>
            tx[d].group # g /\ tx[d].parent # g /\ tx[d].group # p
      BY <1>1, <3>1
    <3>9. /\ \A d, e \in Changes : Apart(tx'[d], tx'[e])
          /\ \A d, e \in Changes : d # e => Differ(tx'[d], tx'[e])
      BY <1>1, <3>2, <3>3, <3>5, <3>6, <3>8
    <3>10. QED
      BY <3>7, <3>9
  <2>2. CASE Departs(c)
    <3>1. PICK g \in DOMAIN row, p \in used \cup {NoGroup} : Slot(c, Departing(g, p))
      BY <2>2 DEF Departs
    <3>2. Departing(g, p).pc # "insert"
      BY DEF Departing
    <3>3. QED
      BY <1>3, <2>2, <3>1, <3>2 DEF Departs
  <2>3. CASE Aims(c) \/ Fits(c)
    <3>1. tx[c] \in Tx
      BY TxType DEF Shaped
    <3>2. Aimed(tx[c]).pc = "subtree" /\ Ready(tx[c]).pc = "write"
      BY <3>1, AimedFields, ReadyFields
    <3>3. QED
      BY <1>3, <2>3, <3>2 DEF Aims, Fits
  <2>4. CASE Inserts(c)
    <3> DEFINE t == tx[c]
    <3>1. /\ t.pc = "insert" /\ Slot(c, NoTx) /\ used' = used
          /\ DOMAIN row' \subseteq DOMAIN row \cup {t.group}
      BY <2>4 DEF Inserts, Added
    <3>2. \A d \in Changes : d # c => tx'[d] = tx[d]
      BY <3>1 DEF Slot
    <3>3. tx'[c].pc = "idle"
      BY <3>1 DEF Slot, NoTx
    <3>4. QED
      BY <1>1, <3>1, <3>2, <3>3
  <2>5. CASE Stops(c) \/ Commits(c)
    <3>1. NoTx.pc # "insert"
      BY DEF NoTx
    <3>2. QED
      BY <1>3, <2>5, <3>1 DEF Stops, Commits, Moved
  <2>6. QED
    BY <1>6, <2>1, <2>2, <2>3, <2>4, <2>5 DEF Proceeds
<1>7. QED
  BY <1>4, <1>5, <1>6, Kinds DEF Shaped

\* A race is remembered.
LEMMA RacedStep ==
  ASSUME Shaped, Next
  PROVE  (raced => raced') /\ (wandered => wandered')
<1>1. raced \in BOOLEAN /\ wandered \in BOOLEAN
  BY DEF Shaped, TypeOK
<1>2. CASE Settled \/ Relabelled
  BY <1>2 DEF Settled, NewRoot, Gone, Relabelled
<1>3. ASSUME NEW c \in Changes, Proceeds(c)
      PROVE  (raced => raced') /\ (wandered => wandered')
  <2>1. CASE Joins(c) \/ Departs(c)
    <3>1. /\ raced' = (raced \/ Moving # {}) \/ raced' = (raced \/ Busy # {})
          /\ wandered' = wandered
      BY <2>1, Zenon DEF Joins, Departs
    <3>2. QED
      BY <3>1, Zenon
  <2>2. CASE Inserts(c) \/ Aims(c) \/ Fits(c) \/ Stops(c)
    BY <2>2 DEF Inserts, Aims, Fits, Stops
  <2>3. CASE Commits(c)
    BY <2>3 DEF Commits
  <2>4. QED
    BY <1>3, <2>1, <2>2, <2>3 DEF Proceeds
<1>4. QED
  BY <1>2, <1>3, Kinds DEF Shaped

\* Who is busy and who moves after a step of c.
LEMMA AloneStep ==
  ASSUME Shaped, MovesAlone, Next, ~raced'
  PROVE  MovesAlone'
<1> DEFINE Alone(x) ==
             \A c \in Changes : (x[c].pc # "idle" /\ x[c].pc # "insert") =>
               \A d \in Changes : x[d].pc # "idle" => d = c
<1>1. Alone(tx)
  BY RacedStep DEF MovesAlone, Moving, Busy
<1>2. SUFFICES Alone(tx')
  BY DEF MovesAlone, Moving, Busy
<1>3. CASE Settled \/ Relabelled
  BY <1>1, <1>3 DEF Settled, NewRoot, Gone, Relabelled
<1>4. ASSUME NEW c \in Changes, Proceeds(c)
      PROVE  Alone(tx')
  <2>1. CASE Joins(c)
    <3>1. PICK g \in Groups, p \in DOMAIN row :
            Slot(c, Joining(g, p)) /\ raced' = (raced \/ Moving # {})
      BY <2>1 DEF Joins
    <3>2. \A d \in Changes : tx[d].pc = "idle" \/ tx[d].pc = "insert"
      BY <3>1 DEF Moving, Busy
    <3>3. Joining(g, p).pc = "insert"
      BY DEF Joining, NoTx
    <3>4. QED
      BY <3>1, <3>2, <3>3 DEF Slot
  <2>2. CASE Departs(c)
    <3>1. PICK g \in DOMAIN row, p \in used \cup {NoGroup} :
            Slot(c, Departing(g, p)) /\ raced' = (raced \/ Busy # {})
      BY <2>2 DEF Departs
    <3>2. \A d \in Changes : tx[d].pc = "idle"
      BY <3>1 DEF Busy
    <3>3. QED
      BY <3>1, <3>2 DEF Slot
  <2>3. CASE Aims(c) \/ Fits(c)
    <3>1. \A d \in Changes : d # c => tx[d].pc = "idle"
      BY <1>1, <2>3 DEF Aims, Fits
    <3>2. \A d \in Changes : d # c => tx'[d] = tx[d]
      BY <2>3 DEF Aims, Fits, Slot
    <3>3. QED
      BY <3>1, <3>2
  <2>4. CASE Inserts(c) \/ Stops(c) \/ Commits(c)
    BY <1>1, <2>4 DEF Inserts, Stops, Commits, Slot, NoTx
  <2>5. QED
    BY <1>4, <2>1, <2>2, <2>3, <2>4 DEF Proceeds
<1>5. QED
  BY <1>3, <1>4, Kinds DEF Shaped

-----------------------------------------------------------------------------
(* How deep groups lie                                                     *)

\* As long as nothing raced the maximum that a move computes is one.
LEMMA DeepestBelow ==
  ASSUME Shaped, DepthBounded, ~raced, NEW p
  PROVE  /\ MaxDescendantDepth(p) \in Nat
         /\ \A h \in Below(p) : row[h].depth <= MaxDescendantDepth(p)
<1> DEFINE S == {0} \cup {row[g].depth : g \in Below(p)}
<1>1. S \subseteq 0..MaxDepth /\ S # {}
  BY TreeAssumption DEF DepthBounded, Below
<1>2. Max(S) \in S /\ \A x \in S : x <= Max(S)
  <2> HIDE DEF S
  <2>1. QED
    BY <1>1, LargestBelow, TreeAssumption
<1>3. \A h \in Below(p) : row[h].depth \in S
  OBVIOUS
<1>4. MaxDescendantDepth(p) = Max(S)
  BY DEF MaxDescendantDepth
<1> HIDE DEF S
<1>5. Max(S) \in Nat
  <2>1. \A x \in 0..MaxDepth : x \in Nat
    BY TreeAssumption
  <2>2. Max(S) \in S
    BY <1>2
  <2>3. QED
    BY <1>1, <2>1, <2>2, Zenon
<1>6. \A h \in Below(p) : row[h].depth <= Max(S)
  BY <1>2, <1>3
<1>7. QED
  BY <1>4, <1>5, <1>6

\* A transaction has room for itself, and for what lies below it.
Room(t) ==
  \/ t.parent = NoGroup /\ t.depth = 0
  \/ /\ t.depth <= MaxDepth
     /\ \A h \in Below(t.from) : t.depth + row[h].depth <= MaxDepth

LEMMA DepthStep ==
  ASSUME Shaped, DepthBounded, RoomBelow, Next, ~raced'
  PROVE  DepthBounded'
<1> USE TreeAssumption
<1>1. ~raced /\ \A g \in DOMAIN row : row[g].depth \in 0..MaxDepth
  BY RacedStep DEF DepthBounded
<1>2. SUFFICES \A g \in DOMAIN row' : row'[g].depth \in 0..MaxDepth
  BY DEF DepthBounded
<1>3. CASE Settled
  BY <1>1, <1>3 DEF Settled, NewRoot, Gone, Added, Removed
<1>4. CASE Relabelled
  BY <1>1, <1>4 DEF Relabelled, Placed
<1>5. ASSUME NEW c \in Changes, Proceeds(c), NEW g \in DOMAIN row'
      PROVE  row'[g].depth \in 0..MaxDepth
  <2> DEFINE t == tx[c]
  <2>1. CASE Joins(c) \/ Departs(c) \/ Aims(c) \/ Fits(c) \/ Stops(c)
    BY <1>1, <2>1 DEF Joins, Departs, Aims, Fits, Stops
  <2>2. CASE Inserts(c)
    <3>1. t.depth \in 0..MaxDepth
      <4>1. t.depth <= MaxDepth
        BY <2>2 DEF Inserts, Shaped, InsertsFresh
      <4>2. Len(t.to) \in Nat /\ TxMeasured(t)
        BY TxType, PathFacts, MeasuredFacts DEF Shaped
      <4>3. QED
        BY <4>1, <4>2 DEF TxMeasured
    <3>2. QED
      BY <1>1, <2>2, <3>1 DEF Inserts, Added
  <2>3. CASE Commits(c)
    <3>1. Moved(t) /\ Room(t) /\ TxMeasured(t) /\ g \in DOMAIN row
      BY <1>1, <2>3, MeasuredFacts DEF Commits, Moved, RoomBelow, Room
    <3>2. t.to \in Path /\ t.from \in Path /\ Len(t.to) \in Nat /\ Len(t.from) \in Nat
      BY TxType, PathFacts DEF Shaped
    <3>3. t.depth \in Nat /\ t.was \in Nat /\ row[g].depth \in 0..MaxDepth
      BY <1>1, <3>1, <3>2 DEF TxMeasured
    <3>4. t.depth <= MaxDepth
      BY <3>1 DEF Room
    <3>5. CASE g = t.group
      BY <3>1, <3>3, <3>4, <3>5 DEF Moved
    <3>6. CASE g # t.group /\ g \in Below(t.from)
      <4>1. row'[g].depth = row[g].depth + (t.depth - t.was)
        BY <3>1, <3>6 DEF Moved
      <4>2. row[g].depth + t.depth <= MaxDepth
        BY <3>1, <3>3, <3>6 DEF Room
      <4>3. t.was <= row[g].depth
        <5>1. row[g].path \in Path /\ RowMeasured(row[g])
          BY <3>1, RowType, MeasuredFacts DEF Shaped
        <5>2. Len(t.from) < Len(row[g].path) /\ Len(row[g].path) \in Nat
          BY <3>2, <3>6, <5>1, PrefixFacts, PathFacts DEF Below
        <5>3. QED
          BY <3>1, <3>2, <5>1, <5>2 DEF RowMeasured, TxMeasured
      <4> HIDE DEF t
      <4>4. QED
        BY <3>3, <4>1, <4>2, <4>3
    <3>7. CASE g # t.group /\ g \notin Below(t.from)
      BY <1>1, <3>1, <3>7 DEF Moved
    <3>8. QED
      BY <3>5, <3>6, <3>7
  <2>4. QED
    BY <1>5, <2>1, <2>2, <2>3 DEF Proceeds
<1>6. QED
  BY <1>3, <1>4, <1>5, Kinds DEF Shaped

\* While c is about to move, only single groups come and go, above everything
\* that may lie below c's.
LEMMA RoomStep ==
  ASSUME Shaped, MovesAlone, DepthBounded, RoomBelow, Next, ~raced'
  PROVE  RoomBelow'
<1> USE TreeAssumption
<1>1. /\ ~raced
      /\ \A g \in DOMAIN row : row[g].depth \in 0..MaxDepth
      /\ \A c \in Changes : tx[c].pc = "write" => Room(tx[c])
      /\ \A c, d \in Changes : tx[c].pc = "write" /\ tx[d].pc # "idle" => d = c
  BY RacedStep DEF DepthBounded, RoomBelow, Room, MovesAlone, Moving, Busy
<1>2. SUFFICES ASSUME NEW c \in Changes, tx'[c].pc = "write"
               PROVE  Room(tx[c])' \/ (tx'[c].parent = NoGroup /\ tx'[c].depth = 0)
  BY DEF RoomBelow, Room
<1>3. ASSUME tx' = tx,
             \A h \in DOMAIN row' : \/ h \in DOMAIN row /\ Placed(row'[h], row[h])
                                    \/ Len(row'[h].path) = 1 /\ row'[h].path \in Path
      PROVE  Room(tx[c])'
  <2>1. Room(tx[c]) /\ tx[c].from \in Path /\ Len(tx[c].from) \in Nat /\ Len(tx[c].from) > 0
    BY <1>1, <1>2, <1>3, TxType, PathFacts DEF Shaped, Measured
  <2>2. ASSUME NEW h \in DOMAIN row', IsStrictPrefix(tx[c].from, row'[h].path)
        PROVE  h \in Below(tx[c].from) /\ row'[h].depth = row[h].depth
    <3>1. CASE h \in DOMAIN row /\ Placed(row'[h], row[h])
      BY <2>2, <3>1 DEF Below, Placed
    <3>2. CASE Len(row'[h].path) = 1 /\ row'[h].path \in Path
      BY <2>1, <2>2, <3>2, PrefixFacts
    <3>3. QED
      BY <1>3, <3>1, <3>2
  <2>3. /\ tx[c]' = tx[c]
        /\ \A h \in Below(tx[c].from)' : h \in Below(tx[c].from) /\ row'[h].depth = row[h].depth
    BY <1>3, <2>2 DEF Below
  <2>4. QED
    BY <2>1, <2>3 DEF Room
<1>4. CASE Settled
  <2>1. PICK g \in Groups : NewRoot(g) \/ Gone(g)
    BY <1>4 DEF Settled
  <2>2. CASE NewRoot(g)
    <3>1. <<g>> \in Path /\ Len(<<g>>) = 1 /\ Pathless \in Path /\ Len(Pathless) = 1
      BY OwnPath, PathlessFacts
    <3>2. QED
      BY <1>2, <1>3, <2>2, <3>1 DEF NewRoot, Added, Placed
  <2>3. CASE Gone(g)
    BY <1>2, <1>3, <2>3 DEF Gone, Removed, Placed
  <2>4. QED
    BY <2>1, <2>2, <2>3
<1>5. CASE Relabelled
  BY <1>2, <1>3, <1>5 DEF Relabelled
<1>6. ASSUME NEW d \in Changes, Proceeds(d)
      PROVE  Room(tx[c])' \/ (tx'[c].parent = NoGroup /\ tx'[c].depth = 0)
  <2>1. CASE Joins(d)
    <3>1. PICK g \in Groups, p \in DOMAIN row :
            tx[d].pc = "idle" /\ Slot(d, Joining(g, p)) /\ raced' = (raced \/ Moving # {})
      BY <2>1 DEF Joins
    <3>2. c # d
      BY <1>2, <3>1, JoiningFields DEF Slot
    <3>3. c \in Moving
      BY <1>2, <3>1, <3>2 DEF Moving, Busy, Slot
    <3>4. QED
      BY <3>1, <3>3
  <2>2. CASE Departs(d)
    <3>1. PICK g \in DOMAIN row, p \in used \cup {NoGroup} :
            Slot(d, Departing(g, p)) /\ raced' = (raced \/ Busy # {})
      BY <2>2 DEF Departs
    <3>2. CASE c # d
      BY <1>2, <3>1, <3>2 DEF Busy, Slot
    <3>3. CASE c = d
      BY <1>2, <3>1, <3>3, DepartingFields DEF Slot
    <3>4. QED
      BY <3>2, <3>3
  <2>3. CASE Fits(d) /\ c = d
    <3> DEFINE t == tx[c]
               u == Ready(t)
    <3>1. t.depth + MaxDescendantDepth(t.from) <= MaxDepth /\ tx'[c] = u /\ row' = row
      BY <2>3 DEF Fits, Slot
    <3>2. /\ t \in Tx /\ u.from = t.from /\ u.depth = t.depth
          /\ Len(t.to) \in Nat /\ TxMeasured(t)
      BY ReadyFields, TxType, PathFacts, MeasuredFacts DEF Shaped
    <3>3. t.depth \in Nat
      BY <3>2 DEF TxMeasured
    <3>4. /\ MaxDescendantDepth(t.from) \in Nat
          /\ \A h \in Below(t.from) : row[h].depth <= MaxDescendantDepth(t.from) /\ row[h].depth \in Nat
      BY <1>1, DeepestBelow DEF Below
    <3> HIDE DEF t, u
    <3>5. t.depth <= MaxDepth /\ \A h \in Below(t.from) : t.depth + row[h].depth <= MaxDepth
      BY <3>1, <3>3, <3>4
    <3>6. Below(tx[c].from)' = Below(t.from)
      BY <3>1, <3>2 DEF Below
    <3>7. QED
      BY <3>1, <3>2, <3>5, <3>6 DEF Room
  <2>4. CASE (Inserts(d) \/ Aims(d) \/ Fits(d) \/ Stops(d) \/ Commits(d)) /\ ~(Fits(d) /\ c = d)
    <3>1. tx[d].pc # "idle"
      BY <2>4 DEF Inserts, Aims, Fits, Stops, Commits
    <3>2. CASE c = d
      BY <1>2, <2>4, <3>2, AimedFields, TxType
         DEF Inserts, Aims, Stops, Commits, Slot, NoTx, Shaped
    <3>3. CASE c # d
      <4>1. tx'[c] = tx[c]
        BY <2>4, <3>3 DEF Inserts, Aims, Fits, Stops, Commits, Slot
      <4>2. QED
        BY <1>1, <1>2, <3>1, <3>3, <4>1
    <3>4. QED
      BY <3>2, <3>3
  <2>5. QED
    BY <1>6, <2>1, <2>2, <2>3, <2>4 DEF Proceeds
<1>7. QED
  BY <1>4, <1>5, <1>6, Kinds DEF Shaped

-----------------------------------------------------------------------------
(* Where groups hang                                                       *)

\* A tree in which paths are true.
Truthful == \A g \in DOMAIN row : HangsRight(g) /\ PathOK(g)

\* What a parent and a child have to do with one another.
LEMMA ChildPath ==
  ASSUME Shaped, Truthful, NEW h \in DOMAIN row, row[h].parent # NoGroup
  PROVE  LET q == row[h].parent
             p == row[h].path
         IN  /\ q \in DOMAIN row /\ p = Append(row[q].path, h)
             /\ row[q].path \in Path /\ p \in Path /\ h \in Groups
             /\ Len(row[q].path) \in Nat \ {0} /\ Len(p) = Len(row[q].path) + 1
             /\ \A i \in 1..Len(row[q].path) : p[i] = row[q].path[i]
             /\ p[Len(p)] = h
<1> DEFINE q == row[h].parent
<1>1. q \in DOMAIN row /\ row[h].path = Append(row[q].path, h)
  BY DEF Truthful, HangsRight
<1>2. row[q].path \in Path /\ Len(row[q].path) \in Nat \ {0} /\ h \in Groups
  BY <1>1, RowType, MeasuredFacts DEF Shaped
<1>3. QED
  BY <1>1, <1>2, AppendFacts

LEMMA RootPath ==
  ASSUME Shaped, Truthful, NEW h \in DOMAIN row, row[h].parent = NoGroup
  PROVE  row[h].path \in {<<h>>, Pathless} /\ Len(row[h].path) = 1
<1>1. row[h].path \in {<<h>>, Pathless} /\ h \in Groups
  BY RowType DEF Truthful, HangsRight, Shaped
<1>2. QED
  BY <1>1, OwnPath, PathlessFacts

\* A path that was set ends with its group, so it tells which one it is.
LEMMA OwnLast ==
  ASSUME Shaped, Truthful, NEW h \in DOMAIN row, row[h].path # Pathless
  PROVE  row[h].path[Len(row[h].path)] = h
<1>1. CASE row[h].parent = NoGroup
  BY <1>1, RootPath, OwnPath, RowType DEF Shaped
<1>2. CASE row[h].parent # NoGroup
  BY <1>2, ChildPath
<1>3. QED
  BY <1>1, <1>2

\* Whoever has g in its path is g, if g has no children.
LEMMA NobodyBelow ==
  ASSUME Shaped, Truthful, NEW g \in DOMAIN row, Children(g) = {},
         NEW h \in DOMAIN row, NEW i \in 1..Len(row[h].path), row[h].path[i] = g
  PROVE  h = g
<1> DEFINE p == row[h].path
<1>0. /\ p \in Path /\ Len(p) \in Nat \ {0} /\ i \in Nat \ {0} /\ g \in Groups
      /\ g # Blank
  BY RowType, MeasuredFacts, TreeAssumption DEF Shaped
<1>1. IsAncestor(g, h, i)
  BY <1>0 DEF Truthful, PathOK
<1>2. CASE i = Len(p)
  <2>1. p # Pathless
    BY <1>0, <1>2, PathlessFacts
  <2>2. QED
    BY <1>2, <2>1, OwnLast
<1>3. CASE i # Len(p)
  <2> DEFINE k == p[i + 1]
  <2>1. i + 1 \in 1..Len(p) /\ i + 1 # 1 /\ i \in 1..(i + 1)
    BY <1>0, <1>3
  <2>2. IsAncestor(k, h, i + 1)
    BY <2>1 DEF Truthful, PathOK
  <2>3. k \in DOMAIN row /\ Len(row[k].path) = i + 1 /\ \A j \in 1..(i + 1) : row[k].path[j] = p[j]
    BY <2>2 DEF IsAncestor
  <2> HIDE DEF k
  <2>4. row[k].parent # NoGroup
    BY <1>0, <2>1, <2>3, RootPath
  <2> DEFINE q == row[k].parent
  <2>5. /\ q \in DOMAIN row /\ row[q].path \in Path /\ Len(row[q].path) = i
        /\ \A j \in 1..i : row[k].path[j] = row[q].path[j]
    BY <1>0, <2>3, <2>4, ChildPath
  <2>6. /\ Len(row[g].path) = i /\ \A j \in 1..i : row[g].path[j] = p[j]
        /\ row[g].path \in Path
    BY <1>1, RowType DEF IsAncestor, Shaped
  <2>7. row[q].path = row[g].path
    <3>1. \A j \in 1..i : row[q].path[j] = row[g].path[j]
      BY <1>0, <2>3, <2>5, <2>6
    <3>2. QED
      BY <2>5, <2>6, <3>1, PathFacts
  <2>8. row[g].path # Pathless
    <3>1. row[g].path[i] = g
      BY <1>0, <2>6
    <3>2. QED
      BY <1>0, <2>6, <3>1, PathlessFacts
  <2>9. q = g
    BY <2>5, <2>7, <2>8, OwnLast
  <2>10. k \in Children(g)
    BY <2>3, <2>9 DEF Children
  <2>11. QED
    BY <2>10
<1>4. QED
  BY <1>2, <1>3

\* Rows that come and go elsewhere.
LEMMA TruthfulElsewhere ==
  ASSUME Shaped, Truthful, NEW h \in DOMAIN row, h \in DOMAIN row', Placed(row'[h], row[h]),
         row[h].parent # NoGroup => row[h].parent \in DOMAIN row',
         \A i \in 1..Len(row[h].path) :
           row[h].path[i] \in DOMAIN row => row[h].path[i] \in DOMAIN row',
         \A a \in DOMAIN row \cap DOMAIN row' : Placed(row'[a], row[a])
  PROVE  HangsRight(h)' /\ PathOK(h)'
<1>1. HangsRight(h) /\ PathOK(h)
  BY DEF Truthful
<1>2. HangsRight(h)'
  BY <1>1 DEF HangsRight, Placed
<1>3. PathOK(h)'
  <2>1. SUFFICES ASSUME NEW i \in 1..Len(row[h].path), ~(row[h].path[i] = Blank /\ i = 1)
                 PROVE  IsAncestor(row[h].path[i], h, i)'
    BY DEF PathOK, Placed
  <2>2. IsAncestor(row[h].path[i], h, i)
    BY <1>1, <2>1 DEF PathOK
  <2>3. row'[h].path = row[h].path
    BY DEF Placed
  <2>4. QED
    BY <2>2, <2>3 DEF IsAncestor, Placed
<1>4. QED
  BY <1>2, <1>3

LEMMA NewRootTruthful ==
  ASSUME Shaped, Truthful, NEW g \in Groups, NewRoot(g)
  PROVE  Truthful'
<1>1. PICK r \in Row : /\ r.parent = NoGroup /\ r.depth = 0 /\ r.path \in {<<g>>, Pathless}
                       /\ Added(g, r)
  BY DEF NewRoot
<1>2. g \notin DOMAIN row
  BY DEF NewRoot, Shaped, TypeOK
<1>3. ASSUME NEW h \in DOMAIN row
      PROVE  HangsRight(h)' /\ PathOK(h)'
  <2>1. /\ row'[h] = row[h] /\ DOMAIN row \subseteq DOMAIN row'
        /\ \A a \in DOMAIN row : row'[a] = row[a]
    BY <1>1, <1>2 DEF Added
  <2>2. row[h].parent # NoGroup => row[h].parent \in DOMAIN row
    BY DEF Truthful, HangsRight
  <2>3. QED
    BY <2>1, <2>2, TruthfulElsewhere DEF Placed
<1>4. HangsRight(g)' /\ PathOK(g)'
  <2>1. row'[g] = r /\ g \in DOMAIN row'
    BY <1>1 DEF Added
  <2>2. HangsRight(g)'
    BY <1>1, <2>1 DEF HangsRight
  <2>3. /\ Len(r.path) = 1 /\ r.path[1] \in {g, Blank}
    BY <1>1, OwnPath, PathlessFacts
  <2>4. PathOK(g)'
    BY <2>1, <2>3 DEF PathOK, IsAncestor
  <2>5. QED
    BY <2>2, <2>4
<1>5. DOMAIN row' = DOMAIN row \cup {g}
  BY <1>1 DEF Added
<1>6. QED
  BY <1>3, <1>4, <1>5 DEF Truthful

LEMMA RelabelledTruthful ==
  ASSUME Shaped, Truthful, DOMAIN row' = DOMAIN row,
         \A h \in DOMAIN row : Placed(row'[h], row[h])
  PROVE  Truthful'
<1>1. \A h \in DOMAIN row : row[h].parent # NoGroup => row[h].parent \in DOMAIN row
  BY DEF Truthful, HangsRight
<1>2. QED
  BY <1>1, TruthfulElsewhere DEF Truthful

LEMMA GoneTruthful ==
  ASSUME Shaped, Truthful, NEW g \in Groups, Gone(g)
  PROVE  Truthful'
<1>1. /\ g \in DOMAIN row /\ Children(g) = {} /\ DOMAIN row' = DOMAIN row \ {g}
      /\ \A h \in DOMAIN row' : Placed(row'[h], row[h])
  BY DEF Gone, Removed, Placed
<1>2. ASSUME NEW h \in DOMAIN row'
      PROVE  HangsRight(h)' /\ PathOK(h)'
  <2>1. h \in DOMAIN row /\ h # g /\ row[h].parent # g
    BY <1>1 DEF Children
  <2>2. row[h].parent # NoGroup => row[h].parent \in DOMAIN row'
    BY <1>1, <2>1 DEF Truthful, HangsRight
  <2>3. \A i \in 1..Len(row[h].path) : row[h].path[i] # g
    BY <1>1, <2>1, NobodyBelow
  <2>4. QED
    BY <1>1, <2>1, <2>2, <2>3, TruthfulElsewhere
<1>3. QED
  BY <1>2 DEF Truthful

\* A subgroup continues its parent's path, which is still what was read.
LEMMA SubgroupTruthful ==
  ASSUME Shaped, Truthful, NEW g \in Groups, g \notin DOMAIN row, NEW q \in DOMAIN row,
         NEW r \in Row, Added(g, r),
         r.parent = q, r.path = Append(row[q].path, g), r.depth = row[q].depth + 1
  PROVE  Truthful'
<1> DEFINE p == row[q].path
<1>1. /\ row'[g] = r /\ DOMAIN row' = DOMAIN row \cup {g}
      /\ \A a \in DOMAIN row : row'[a] = row[a]
  BY DEF Added
<1>2. ASSUME NEW h \in DOMAIN row
      PROVE  HangsRight(h)' /\ PathOK(h)'
  <2>1. row[h].parent # NoGroup => row[h].parent \in DOMAIN row
    BY DEF Truthful, HangsRight
  <2>2. QED
    BY <1>1, <2>1, TruthfulElsewhere DEF Placed
<1>3. /\ p \in Path /\ Len(p) \in Nat \ {0} /\ q # NoGroup
      /\ Len(r.path) = Len(p) + 1 /\ r.path[Len(p) + 1] = g
      /\ \A i \in 1..Len(p) : r.path[i] = p[i]
  BY RowType, MeasuredFacts, AppendFacts, TreeAssumption DEF Shaped
<1>4. HangsRight(g)'
  BY <1>1, <1>3 DEF HangsRight
<1>5. PathOK(g)'
  <2>1. SUFFICES ASSUME NEW i \in 1..Len(r.path)
                 PROVE  (r.path[i] = Blank /\ i = 1) \/ IsAncestor(r.path[i], g, i)'
    BY <1>1 DEF PathOK
  <2>2. CASE i = Len(p) + 1
    BY <1>1, <1>3, <2>2 DEF IsAncestor
  <2>3. CASE i # Len(p) + 1
    <3>1. i \in 1..Len(p) /\ 1..i \subseteq 1..Len(p)
      BY <1>3, <2>3
    <3>2. (p[i] = Blank /\ i = 1) \/ IsAncestor(p[i], q, i)
      BY <3>1 DEF Truthful, PathOK
    <3>3. r.path[i] = p[i]
      BY <1>3, <3>1
    <3>4. ASSUME NEW a, IsAncestor(a, q, i)
          PROVE  IsAncestor(a, g, i)'
      BY <1>1, <1>3, <3>1, <3>4 DEF IsAncestor
    <3>5. QED
      BY <3>2, <3>3, <3>4
  <2>4. QED
    BY <2>2, <2>3
<1>6. QED
  BY <1>1, <1>2, <1>4, <1>5 DEF Truthful

LEMMA InsertTruthful ==
  ASSUME Shaped, Truthful, NEW c \in Changes, Inserts(c), StillTrue(c)
  PROVE  Truthful'
<1> DEFINE t == tx[c]
           r == [parent |-> t.parent, depth |-> t.depth, path |-> t.to, local |-> TRUE]
<1>1. CASE UNCHANGED row
  BY <1>1 DEF Truthful, HangsRight, PathOK, IsAncestor
<1>2. CASE t.parent \in DOMAIN row /\ r \in Row /\ Added(t.group, r)
  <2>1. t.group \notin DOMAIN row /\ t.group \in Groups /\ t.pc = "insert"
    BY DEF Inserts, Shaped, InsertsFresh, TypeOK
  <2>2. t.to = Append(row[t.parent].path, t.group)
    BY <1>2, <2>1 DEF StillTrue
  <2>3. t.depth = row[t.parent].depth + 1
    <3> DEFINE p == row[t.parent].path
    <3>1. p \in Path /\ Len(p) \in Nat /\ Len(t.to) = Len(p) + 1
      BY <1>2, <2>1, <2>2, RowType, PathFacts, AppendFacts DEF Shaped
    <3>2. t.depth = Len(t.to) - 1 /\ row[t.parent].depth = Len(p) - 1
      BY <1>2, MeasuredFacts DEF RowMeasured, TxMeasured
    <3> HIDE DEF p, t
    <3>3. QED
      BY <3>1, <3>2
  <2>4. r.parent = t.parent /\ r.path = t.to /\ r.depth = t.depth
    OBVIOUS
  <2> HIDE DEF r, t
  <2>5. QED
    BY <1>2, <2>1, <2>2, <2>3, <2>4, SubgroupTruthful
<1>3. QED
  BY <1>1, <1>2 DEF Inserts

\* Where the group that moves and those below it are going: the move is of a
\* group that is there, to the root or to where it does not lie itself.
Sound(t) ==
  /\ t.from # Pathless
  /\ t.group \in DOMAIN row /\ row[t.group].path = t.from
  /\ IF t.parent = NoGroup THEN t.to = <<t.group>>
     ELSE /\ t.parent \in DOMAIN row
          /\ t.to = Append(row[t.parent].path, t.group)
          /\ ~IsPrefix(t.from, row[t.parent].path)

Within(t, h) == h \in DOMAIN row /\ IsPrefix(t.from, row[h].path)

\* p as it is rebased.
Shifted(q, p, old, new) ==
  /\ Len(q) = Len(new) + (Len(p) - Len(old))
  /\ \A i \in 1..Len(new) : q[i] = new[i]
  /\ \A i \in (Len(old) + 1)..Len(p) : q[i + (Len(new) - Len(old))] = p[i]

LEMMA RebaseShifts ==
  ASSUME NEW p \in Path, NEW old \in Path, NEW new \in Path, Len(old) <= Len(p)
  PROVE  Shifted(Rebase(p, old, new), p, old, new)
<1> DEFINE q == Rebase(p, old, new)
<1>1. /\ Len(q) = Len(new) + (Len(p) - Len(old))
      /\ \A i \in 1..Len(new) : q[i] = new[i]
      /\ \A i \in (Len(old) + 1)..Len(p) : q[i + (Len(new) - Len(old))] = p[i]
  BY RebaseFacts
<1> HIDE DEF q
<1>2. Shifted(q, p, old, new)
  BY <1>1, Zenon DEF Shifted
<1>3. QED
  BY <1>2 DEF q

LEMMA ShiftedSelf ==
  ASSUME NEW old \in Path, NEW new \in Path
  PROVE  Shifted(new, old, old, new)
<1>1. Len(old) \in Nat /\ Len(new) \in Nat
  BY PathFacts
<1>2. Len(new) = Len(new) + (Len(old) - Len(old))
  BY <1>1
<1>3. (Len(old) + 1)..Len(old) = {}
  BY <1>1
<1>4. QED
  BY <1>2, <1>3 DEF Shifted

\* What lies within has the beginning that is exchanged.
LEMMA WithinFacts ==
  ASSUME Shaped, NEW t \in Tx, NEW h \in DOMAIN row
  PROVE  Within(t, h) <=> /\ Len(t.from) <= Len(row[h].path)
                          /\ \A i \in 1..Len(t.from) : t.from[i] = row[h].path[i]
BY RowType, PrefixFacts DEF Within, Tx, Shaped

\* Rows within are moved, others stay.
LEMMA MovedWithin ==
  ASSUME Shaped, Truthful, NEW t \in Tx, Sound(t), Moved(t), NEW h \in DOMAIN row
  PROVE  /\ Within(t, t.group)
         /\ row'[t.group].path = t.to /\ row'[t.group].parent = t.parent
         /\ ~Within(t, h) => row'[h] = row[h]
         /\ Within(t, h) => Shifted(row'[h].path, row[h].path, t.from, t.to)
         /\ Within(t, h) /\ h # t.group =>
              row'[h].parent = row[h].parent /\ Len(row[h].path) > Len(t.from)
<1> DEFINE g == t.group
           p == row[h].path
<1>1. /\ g \in DOMAIN row /\ row[g].path = t.from /\ t.from # Pathless
      /\ t.from \in Path /\ t.to \in Path /\ p \in Path
      /\ Len(t.from) \in Nat /\ Len(t.to) \in Nat /\ Len(p) \in Nat
  BY RowType, PathFacts DEF Sound, Tx, Shaped
<1>2. Within(t, g)
  BY <1>1, WithinFacts
<1>3. row'[g].path = t.to /\ row'[g].parent = t.parent
  BY <1>1 DEF Moved
<1>4. ASSUME Within(t, h), h # g
      PROVE  h \in Below(t.from)
  <2>1. p # t.from
    <3>1. ASSUME p = t.from
          PROVE  FALSE
      BY <1>1, <1>4, <3>1, OwnLast
    <3>2. QED
      BY <3>1
  <2>2. IsStrictPrefix(t.from, p)
    BY <1>4, <2>1 DEF Within, IsStrictPrefix
  <2>3. QED
    BY <2>2 DEF Below
<1>5. ASSUME h \in Below(t.from)
      PROVE  Within(t, h)
  BY <1>5 DEF Within, Below, IsStrictPrefix
<1>6. ~Within(t, h) => row'[h] = row[h]
  BY <1>2, <1>5 DEF Moved
<1>7. Within(t, h) /\ h # g => row'[h].parent = row[h].parent /\ Len(p) > Len(t.from)
  <2>1. h \in Below(t.from) => Len(t.from) < Len(p)
    BY <1>1, PrefixFacts DEF Below
  <2>2. QED
    BY <1>1, <1>4, <2>1 DEF Moved
<1>8. CASE h = g
  <2>1. p = t.from /\ row'[h].path = t.to
    BY <1>1, <1>3, <1>8
  <2>2. Shifted(t.to, t.from, t.from, t.to)
    BY <1>1, ShiftedSelf
  <2>3. QED
    BY <1>2, <1>3, <1>6, <1>7, <2>1, <2>2
<1>9. CASE h # g
  <2>1. ASSUME Within(t, h)
        PROVE  Shifted(row'[h].path, p, t.from, t.to)
    <3>1. row'[h].path = Rebase(p, t.from, t.to)
      BY <1>4, <1>9, <2>1 DEF Moved
    <3>2. Len(t.from) <= Len(p)
      BY <1>1, <1>7, <1>9, <2>1
    <3> HIDE DEF p
    <3>3. QED
      BY <1>1, <3>1, <3>2, RebaseShifts DEF p
  <2>2. QED
    BY <1>2, <1>3, <1>6, <1>7, <2>1
<1>10. QED
  BY <1>8, <1>9

\* Appending commutes with rebasing.
LEMMA ShiftedChild ==
  ASSUME NEW old \in Path, NEW new \in Path, NEW h \in Groups,
         NEW p \in Path, NEW p1 \in Path, NEW q \in Path, NEW q1 \in Path,
         p = Append(q, h), Len(old) <= Len(q),
         Shifted(p1, p, old, new), Shifted(q1, q, old, new)
  PROVE  p1 = Append(q1, h)
<1> DEFINE d == Len(new) - Len(old)
<1>1. /\ Len(old) \in Nat /\ Len(new) \in Nat /\ Len(q) \in Nat /\ Len(p) = Len(q) + 1
      /\ \A i \in 1..Len(q) : p[i] = q[i]
      /\ p[Len(q) + 1] = h
  BY PathFacts, AppendFacts
<1>2. Len(q1) = Len(q) + d /\ Len(p1) = Len(q) + d + 1
  BY <1>1 DEF Shifted
<1> DEFINE a == Append(q1, h)
<1>3. /\ a \in Path /\ Len(a) = Len(q1) + 1
      /\ \A i \in 1..Len(q1) : a[i] = q1[i]
      /\ a[Len(q1) + 1] = h
  BY AppendFacts
<1> HIDE DEF a
<1>4. ASSUME NEW i \in 1..Len(p1)
      PROVE  p1[i] = a[i]
  <2>1. CASE i <= Len(new)
    BY <1>1, <1>2, <1>3, <2>1 DEF Shifted
  <2>2. CASE i > Len(new)
    <3> DEFINE j == i - d
    <3>1. j \in (Len(old) + 1)..Len(p) /\ j + d = i /\ i \in Int
      BY <1>1, <1>2, <2>2
    <3>2. p1[i] = p[j]
      BY <3>1 DEF Shifted
    <3>3. CASE j = Len(q) + 1
      BY <1>1, <1>2, <1>3, <3>1, <3>2, <3>3
    <3>4. CASE j # Len(q) + 1
      <4>1. j \in (Len(old) + 1)..Len(q) /\ j \in 1..Len(q) /\ i \in 1..Len(q1)
        BY <1>1, <1>2, <3>1, <3>4
      <4>2. q1[i] = q[j]
        BY <3>1, <4>1 DEF Shifted
      <4>3. QED
        BY <1>1, <1>3, <3>2, <4>1, <4>2
    <3>5. QED
      BY <3>3, <3>4
  <2>3. QED
    BY <1>1, <1>2, <2>1, <2>2
<1>5. QED
  BY <1>1, <1>2, <1>3, <1>4, PathFacts DEF a

\* A child lies within if its parent does, and only then, unless it is the
\* group that moves.
LEMMA WithinChild ==
  ASSUME Shaped, Truthful, NEW t \in Tx, Sound(t),
         NEW h \in DOMAIN row, row[h].parent # NoGroup
  PROVE  /\ Within(t, row[h].parent) => Within(t, h)
         /\ Within(t, h) /\ h # t.group => Within(t, row[h].parent)
<1> DEFINE q == row[h].parent
           p == row[h].path
           F == Len(t.from)
<1>1. /\ q \in DOMAIN row /\ Len(row[q].path) \in Nat /\ Len(p) = Len(row[q].path) + 1
      /\ \A i \in 1..Len(row[q].path) : p[i] = row[q].path[i]
      /\ p \in Path /\ t.from \in Path /\ F \in Nat
  BY ChildPath, PathFacts DEF Tx
<1>2. /\ Within(t, h) <=> F <= Len(p) /\ \A i \in 1..F : t.from[i] = p[i]
      /\ Within(t, q) <=> F <= Len(row[q].path) /\ \A i \in 1..F : t.from[i] = row[q].path[i]
  BY <1>1, WithinFacts
<1>3. ASSUME Within(t, q)
      PROVE  Within(t, h)
  BY <1>1, <1>2, <1>3
<1>4. ASSUME Within(t, h), h # t.group
      PROVE  Within(t, q)
  <2>1. F # Len(p)
    <3>1. SUFFICES ASSUME F = Len(p)
                   PROVE  FALSE
      OBVIOUS
    <3>2. p = t.from
      BY <1>1, <1>2, <1>4, <3>1, PathFacts
    <3>3. p # Pathless /\ row[t.group].path = t.from /\ t.group \in DOMAIN row
      BY <3>2 DEF Sound
    <3>4. h = t.group
      BY <3>2, <3>3, OwnLast
    <3>5. QED
      BY <1>4, <3>4
  <2>2. F <= Len(row[q].path)
    BY <1>1, <1>2, <1>4, <2>1
  <2>3. QED
    BY <1>1, <1>2, <1>4, <2>2
<1>5. QED
  BY <1>3, <1>4

\* An ancestor of a group that stays stays.
LEMMA AncestorStays ==
  ASSUME Shaped, Truthful, NEW t \in Tx, Sound(t), Moved(t),
         NEW h \in DOMAIN row, ~Within(t, h), NEW i \in 1..Len(row[h].path),
         NEW a, IsAncestor(a, h, i)
  PROVE  a \in DOMAIN row /\ row'[a] = row[a]
<1>1. /\ a \in DOMAIN row /\ Len(row[a].path) = i
      /\ \A j \in 1..i : row[a].path[j] = row[h].path[j]
  BY DEF IsAncestor
<1>2. Len(row[h].path) \in Nat /\ Len(t.from) \in Nat
  BY RowType, PathFacts DEF Shaped, Tx
<1>3. ~Within(t, a)
  BY <1>1, <1>2, WithinFacts
<1>4. QED
  BY <1>1, <1>3, MovedWithin

\* All groups along the path that the move makes are there.
LEMMA MovePathOK ==
  ASSUME Shaped, Truthful, NEW t \in Tx, Sound(t), Moved(t), NEW i \in 1..Len(t.to)
  PROVE  \/ t.to[i] = Blank /\ i = 1
         \/ /\ t.to[i] \in DOMAIN row /\ Len(row'[t.to[i]].path) = i
            /\ \A j \in 1..i : row'[t.to[i]].path[j] = t.to[j]
<1> DEFINE g == t.group
<1>1. g \in DOMAIN row /\ row'[g].path = t.to /\ g \in Groups
  BY MovedWithin, RowType DEF Sound, Shaped
<1>2. CASE t.parent = NoGroup
  <2>1. t.to = <<g>> /\ Len(t.to) = 1 /\ t.to[1] = g
    BY <1>1, <1>2, OwnPath DEF Sound
  <2>2. i = 1
    BY <2>1
  <2>3. QED
    BY <1>1, <2>1, <2>2
<1>3. CASE t.parent # NoGroup
  <2> DEFINE q == t.parent
             p == row[q].path
  <2>1. q \in DOMAIN row /\ ~Within(t, q) /\ t.to = Append(p, g)
    BY <1>3 DEF Sound, Within
  <2>2. /\ p \in Path /\ Len(p) \in Nat /\ Len(t.to) = Len(p) + 1 /\ t.to[Len(p) + 1] = g
        /\ \A j \in 1..Len(p) : t.to[j] = p[j]
    <3>1. p \in Path
      BY <2>1, RowType DEF Shaped
    <3>2. t.to = Append(p, g) /\ g \in Groups
      BY <1>1, <2>1
    <3> HIDE DEF p, g
    <3>3. QED
      BY <3>1, <3>2, PathFacts, AppendFacts
  <2>3. CASE i = Len(p) + 1
    BY <1>1, <2>2, <2>3
  <2>4. CASE i # Len(p) + 1
    <3>1. i \in 1..Len(p) /\ 1..i \subseteq 1..Len(p)
      BY <2>2, <2>4
    <3>2. (p[i] = Blank /\ i = 1) \/ IsAncestor(p[i], q, i)
      BY <2>1, <3>1 DEF Truthful, PathOK
    <3>3. ASSUME IsAncestor(p[i], q, i)
          PROVE  /\ p[i] \in DOMAIN row /\ Len(row'[p[i]].path) = i
                 /\ \A j \in 1..i : row'[p[i]].path[j] = p[j]
      <4>1. p[i] \in DOMAIN row /\ row'[p[i]] = row[p[i]]
        BY <2>1, <3>1, <3>3, AncestorStays
      <4>2. QED
        BY <3>3, <4>1 DEF IsAncestor
    <3>4. QED
      BY <2>2, <3>1, <3>2, <3>3
  <2>5. QED
    BY <2>3, <2>4
<1>4. QED
  BY <1>2, <1>3

\* Where a rebased path's later positions come from.
LEMMA ShiftedAt ==
  ASSUME NEW p \in Path, NEW old \in Path, NEW new \in Path, NEW q, Len(old) <= Len(p),
         Shifted(q, p, old, new)
  PROVE  \A i \in 1..Len(q) : i > Len(new) =>
           /\ i - (Len(new) - Len(old)) \in (Len(old) + 1)..Len(p)
           /\ q[i] = p[i - (Len(new) - Len(old))]
<1> SUFFICES ASSUME NEW i \in 1..Len(q), i > Len(new)
             PROVE  /\ i - (Len(new) - Len(old)) \in (Len(old) + 1)..Len(p)
                    /\ q[i] = p[i - (Len(new) - Len(old))]
  OBVIOUS
<1>1. Len(p) \in Nat /\ Len(old) \in Nat /\ Len(new) \in Nat /\ i \in Int
  BY PathFacts DEF Shifted
<1> DEFINE k == i - (Len(new) - Len(old))
<1>2. k \in (Len(old) + 1)..Len(p) /\ k + (Len(new) - Len(old)) = i
  BY <1>1 DEF Shifted
<1>3. q[k + (Len(new) - Len(old))] = p[k]
  BY <1>2 DEF Shifted
<1>4. QED
  BY <1>2, <1>3

Begins(b, p) == Len(b) <= Len(p) /\ \A j \in 1..Len(b) : b[j] = p[j]

\* A beginning of p, not shorter than what is exchanged, is rebased as p is.
LEMMA ShiftedBeginning ==
  ASSUME NEW p \in Path, NEW old \in Path, NEW new \in Path, NEW q, Len(old) <= Len(p),
         NEW b \in Path, NEW e, Shifted(q, p, old, new), Shifted(e, b, old, new),
         Len(old) <= Len(b), Begins(b, p)
  PROVE  /\ Len(e) = Len(b) + (Len(new) - Len(old))
         /\ \A j \in 1..Len(e) : e[j] = q[j]
<1>1. /\ Len(p) \in Nat /\ Len(old) \in Nat /\ Len(new) \in Nat /\ Len(b) \in Nat
      /\ Len(e) = Len(b) + (Len(new) - Len(old)) /\ Len(q) = Len(p) + (Len(new) - Len(old))
  BY PathFacts DEF Shifted
<1>2. ASSUME NEW j \in 1..Len(e)
      PROVE  e[j] = q[j]
  <2>1. CASE j <= Len(new)
    BY <1>1, <2>1 DEF Shifted
  <2>2. CASE j > Len(new)
    <3> DEFINE k == j - (Len(new) - Len(old))
    <3>1. j \in 1..Len(q)
      BY <1>1 DEF Begins
    <3>2. k \in (Len(old) + 1)..Len(b) /\ e[j] = b[k] /\ q[j] = p[k]
      BY <2>2, <3>1, ShiftedAt
    <3>3. k \in 1..Len(b)
      BY <1>1, <3>2
    <3>4. QED
      BY <3>2, <3>3 DEF Begins
  <2>3. QED
    BY <1>1, <2>1, <2>2
<1>3. QED
  BY <1>1, <1>2

LEMMA MovedPathOK ==
  ASSUME Shaped, Truthful, NEW t \in Tx, Sound(t), Moved(t), NEW h \in DOMAIN row
  PROVE  PathOK(h)'
<1> DEFINE p == row[h].path
           q == row'[h].path
           old == t.from
           new == t.to
<1>1. /\ old \in Path /\ new \in Path /\ p \in Path
      /\ Len(old) \in Nat \ {0} /\ Len(new) \in Nat /\ Len(p) \in Nat
  <2>1. t.group \in DOMAIN row /\ row[t.group].path = t.from
    BY DEF Sound
  <2>2. QED
    BY <2>1, RowType, PathFacts, MeasuredFacts DEF Shaped, Tx
<1>2. DOMAIN row' = DOMAIN row
  BY DEF Moved
<1>3. CASE ~Within(t, h)
  <2>1. row'[h] = row[h]
    BY <1>3, MovedWithin
  <2>2. ASSUME NEW i \in 1..Len(p), IsAncestor(p[i], h, i)
        PROVE  p[i] \in DOMAIN row /\ row'[p[i]] = row[p[i]]
    BY <1>3, <2>2, AncestorStays
  <2>3. \A i \in 1..Len(p) : (p[i] = Blank /\ i = 1) \/ IsAncestor(p[i], h, i)
    BY DEF Truthful, PathOK
  <2>4. QED
    BY <1>2, <2>1, <2>2, <2>3 DEF PathOK, IsAncestor
<1>4. CASE Within(t, h)
  <2>1. Shifted(q, p, old, new) /\ Len(old) <= Len(p) /\ \A i \in 1..Len(old) : old[i] = p[i]
    BY <1>4, MovedWithin, WithinFacts
  <2>2. SUFFICES ASSUME NEW i \in 1..Len(q)
                 PROVE  \/ q[i] = Blank /\ i = 1
                        \/ /\ q[i] \in DOMAIN row /\ Len(row'[q[i]].path) = i
                           /\ \A j \in 1..i : row'[q[i]].path[j] = q[j]
    BY <1>2 DEF PathOK, IsAncestor
  <2>3. i \in Int /\ i >= 1 /\ \A j \in 1..Len(new) : q[j] = new[j]
    BY <1>1, <2>1 DEF Shifted
  <2>4. CASE i <= Len(new)
    <3>1. i \in 1..Len(new) /\ 1..i \subseteq 1..Len(new)
      BY <1>1, <2>3, <2>4
    <3>2. QED
      BY <2>3, <3>1, MovePathOK, SMTT(40)
  <2>5. CASE i > Len(new)
    <3> DEFINE k == i - (Len(new) - Len(old))
               a == p[k]
    <3>1. k \in (Len(old) + 1)..Len(p) /\ q[i] = a
      <4> HIDE DEF old, new, p, q
      <4>1. QED
        BY <1>1, <2>1, <2>5, ShiftedAt
    <3>2. /\ k \in 1..Len(p) /\ k # 1 /\ k \in Nat /\ Len(old) <= k /\ k <= Len(p)
          /\ k + (Len(new) - Len(old)) = i
      <4> HIDE DEF old, new, p
      <4>1. QED
        BY <1>1, <2>3, <3>1
    <3> HIDE DEF k
    <3>3. IsAncestor(a, h, k)
      BY <3>2 DEF Truthful, PathOK
    <3>4. /\ a \in DOMAIN row /\ Len(row[a].path) = k /\ row[a].path \in Path
          /\ \A j \in 1..k : row[a].path[j] = p[j]
      BY <3>3, RowType DEF IsAncestor, Shaped
    <3> HIDE DEF a
    <3>5. Within(t, a)
      <4>1. \A j \in 1..Len(old) : old[j] = row[a].path[j]
        <5> HIDE DEF old, p
        <5>1. QED
          BY <1>1, <2>1, <3>2, <3>4
      <4>2. QED
        BY <3>2, <3>4, <4>1, WithinFacts
    <3>6. Shifted(row'[a].path, row[a].path, old, new)
      BY <3>4, <3>5, MovedWithin
    <3> HIDE DEF old, new, p, q
    <3>7. Len(row'[a].path) = i /\ \A j \in 1..i : row'[a].path[j] = q[j]
      <4> DEFINE b == row[a].path
                 e == row'[a].path
      <4>1. b \in Path /\ Len(old) <= Len(b) /\ Len(b) = k /\ Begins(b, p)
        BY <3>2, <3>4 DEF Begins
      <4>2. Shifted(e, b, old, new) /\ Shifted(q, p, old, new) /\ Len(old) <= Len(p)
        BY <2>1, <3>6
      <4> HIDE DEF b, e
      <4>3. /\ Len(e) = Len(b) + (Len(new) - Len(old))
            /\ \A m \in 1..Len(e) : e[m] = q[m]
        BY <1>1, <4>1, <4>2, ShiftedBeginning
      <4>4. QED
        BY <3>2, <4>1, <4>3 DEF e
    <3>8. QED
      BY <3>1, <3>4, <3>7
  <2>6. QED
    BY <1>1, <2>3, <2>4, <2>5
<1>5. QED
  BY <1>3, <1>4

LEMMA MovedHangsRight ==
  ASSUME Shaped, Truthful, Measured', NEW t \in Tx, Sound(t), Moved(t), NEW h \in DOMAIN row
  PROVE  HangsRight(h)'
<1> DEFINE g == t.group
<1>0. /\ DOMAIN row' = DOMAIN row /\ h \in Groups /\ row'[h].path \in Path
      /\ row'[h].depth = Len(row'[h].path) - 1
  BY RowType DEF Moved, Row, Measured, Shaped
\* Depths follow from paths.
<1>1. ASSUME row'[h].parent = NoGroup, row'[h].path \in {<<h>>, Pathless}
      PROVE  HangsRight(h)'
  <2>1. Len(row'[h].path) = 1
    BY <1>0, <1>1, OwnPath, PathlessFacts
  <2>2. QED
    BY <1>0, <1>1, <2>1 DEF HangsRight
<1>2. ASSUME NEW q \in DOMAIN row, row'[h].parent = q, row'[h].path = Append(row'[q].path, h)
      PROVE  HangsRight(h)'
  <2>1. row'[q].path \in Path /\ row'[q].depth = Len(row'[q].path) - 1 /\ q # NoGroup
    BY <1>0, RowType, TreeAssumption DEF Moved, Row, Measured, Shaped
  <2>2. Len(row'[h].path) = Len(row'[q].path) + 1 /\ Len(row'[q].path) \in Nat
    BY <1>0, <1>2, <2>1, AppendFacts, PathFacts
  <2>3. row'[h].depth = row'[q].depth + 1
    BY <1>0, <2>1, <2>2
  <2>4. QED
    BY <1>0, <1>2, <2>1, <2>3 DEF HangsRight
<1>3. CASE h = g
  <2>1. row'[h].path = t.to /\ row'[h].parent = t.parent
    BY <1>3, MovedWithin
  <2>2. CASE t.parent = NoGroup
    BY <1>1, <1>3, <2>1, <2>2 DEF Sound
  <2>3. CASE t.parent # NoGroup
    <3>1. /\ t.parent \in DOMAIN row /\ t.to = Append(row[t.parent].path, g)
          /\ ~Within(t, t.parent)
      BY <2>3 DEF Sound, Within
    <3>2. row'[t.parent] = row[t.parent]
      BY <3>1, MovedWithin
    <3>3. QED
      BY <1>2, <1>3, <2>1, <3>1, <3>2
  <2>4. QED
    BY <2>2, <2>3
<1>4. CASE h # g /\ row[h].parent = NoGroup
  <2>1. row[h].path \in {<<h>>, Pathless} /\ Len(row[h].path) = 1
    BY <1>4, RootPath
  <2>2. ~Within(t, h)
    <3>1. Len(t.from) \in Nat \ {0}
      BY MeasuredFacts DEF Sound
    <3>2. Within(t, h) => Len(row[h].path) > Len(t.from)
      BY <1>4, MovedWithin
    <3>3. QED
      BY <2>1, <3>1, <3>2
  <2>3. row'[h] = row[h]
    BY <2>2, MovedWithin
  <2>4. QED
    BY <1>1, <1>4, <2>1, <2>3
<1>5. CASE h # g /\ row[h].parent # NoGroup
  <2> DEFINE q == row[h].parent
             p == row[h].path
  <2>1. /\ q \in DOMAIN row /\ p = Append(row[q].path, h)
        /\ row[q].path \in Path /\ p \in Path
    BY <1>5, ChildPath
  <2>2. CASE Within(t, h)
    <3>1. Within(t, q)
      BY <1>5, <2>2, WithinChild
    <3>2. row'[h].parent = q /\ Shifted(row'[h].path, p, t.from, t.to)
      BY <1>5, <2>2, MovedWithin
    <3>3. Shifted(row'[q].path, row[q].path, t.from, t.to)
      BY <2>1, <3>1, MovedWithin
    <3>4. Len(t.from) <= Len(row[q].path)
      BY <2>1, <3>1, WithinFacts
    <3>5. t.from \in Path /\ t.to \in Path /\ row'[q].path \in Path
      BY <2>1 DEF Tx, Moved, Row
    <3>6. row'[h].path = Append(row'[q].path, h)
      <4> DEFINE p1 == row'[h].path
                 q1 == row'[q].path
                 b == row[q].path
      <4>1. /\ p1 \in Path /\ q1 \in Path /\ b \in Path /\ p \in Path /\ p = Append(b, h)
            /\ Len(t.from) <= Len(b)
            /\ Shifted(p1, p, t.from, t.to) /\ Shifted(q1, b, t.from, t.to)
        BY <1>0, <2>1, <3>2, <3>3, <3>4, <3>5
      <4> HIDE DEF p1, q1, b, p
      <4>2. p1 = Append(q1, h)
        BY <1>0, <3>5, <4>1, ShiftedChild
      <4>3. QED
        BY <4>2 DEF p1, q1
    <3>7. QED
      BY <1>2, <2>1, <3>2, <3>6
  <2>3. CASE ~Within(t, h)
    <3>1. ~Within(t, q)
      BY <1>5, <2>3, WithinChild
    <3>2. row'[h] = row[h] /\ row'[q] = row[q]
      BY <2>1, <2>3, <3>1, MovedWithin
    <3>3. QED
      BY <1>2, <2>1, <3>2
  <2>4. QED
    BY <2>2, <2>3
<1>6. QED
  BY <1>3, <1>4, <1>5

\* A commit, of a group that is still there or is gone.
LEMMA CommitTruthful ==
  ASSUME Shaped, Truthful, Measured', NEW c \in Changes, Commits(c), StillTrue(c), ~wandered'
  PROVE  Truthful'
<1> DEFINE t == tx[c]
<1>1. /\ t \in Tx /\ t.from # Pathless /\ Moved(t) /\ t.pc = "write" /\ c \in Moving
      /\ t.parent \in DOMAIN row \cup {NoGroup} /\ DOMAIN row' = DOMAIN row
  BY TxType DEF Commits, Shaped, Moving, Busy, Moved
<1>2. CASE t.group \in DOMAIN row
  <2>1. Sound(t)
    BY <1>1, <1>2 DEF StillTrue, Sound, LiesUnder
  <2> HIDE DEF t
  <2>2. QED
    BY <1>1, <2>1, MovedHangsRight, MovedPathOK DEF Truthful
<1>3. CASE t.group \notin DOMAIN row
  <2>1. t.from[Len(t.from)] = t.group /\ t.from \in Path /\ Len(t.from) \in Nat \ {0}
    BY <1>1, TxType, PathFacts DEF StillTrue, Shaped, Measured
  <2>2. t.group # Blank
    BY <1>1, TreeAssumption DEF Shaped, Named, Moving, TypeOK
  <2>3. ASSUME NEW h \in Below(t.from)
        PROVE  FALSE
    <3> DEFINE i == Len(t.from)
    <3>1. h \in DOMAIN row /\ row[h].path \in Path /\ Len(row[h].path) \in Nat
      BY RowType, PathFacts DEF Below, Shaped
    <3>2. i \in 1..Len(row[h].path) /\ row[h].path[i] = t.group
      BY <2>1, <3>1, PrefixFacts DEF Below
    <3>3. t.group \in DOMAIN row
      BY <2>2, <3>1, <3>2 DEF Truthful, PathOK, IsAncestor
    <3>4. QED
      BY <1>3, <3>3
  <2>4. \A h \in DOMAIN row : row'[h] = row[h]
    BY <1>1, <1>3, <2>3 DEF Moved
  <2>5. QED
    BY <1>1, <2>4, RelabelledTruthful DEF Placed
<1>4. QED
  BY <1>2, <1>3

-----------------------------------------------------------------------------
(* What transactions have read                                             *)

\* Nobody's parent or group is touched by rows that come and go elsewhere.
LEMMA StillTrueElsewhere ==
  ASSUME Shaped, NEW c \in Changes, StillTrue(c), tx'[c] = tx[c],
         \A h \in DOMAIN row' : h \in {tx[c].group, tx[c].parent} =>
           h \in DOMAIN row /\ Placed(row'[h], row[h])
  PROVE  StillTrue(c)'
BY DEF StillTrue, Placed, Moving, Busy

LEMMA IdleStillTrue ==
  ASSUME NEW c \in Changes, tx'[c].pc = "idle"
  PROVE  StillTrue(c)'
BY DEF StillTrue, Moving, Busy

LEMMA StillTrueStep ==
  ASSUME Shaped, MovesAlone, Truthful, \A c \in Changes : StillTrue(c), Next, ~raced',
         NEW c \in Changes
  PROVE  StillTrue(c)'
<1>0. /\ ~raced
      /\ \A d \in Changes : tx[d].pc # "idle" =>
           tx[d].group \in used /\ tx[d].parent \in used \cup {NoGroup}
      /\ \A d, e \in Changes :
           (tx[d].pc # "idle" /\ tx[d].pc # "insert" /\ tx[e].pc # "idle") => e = d
  BY RacedStep DEF Shaped, Named, MovesAlone, Moving, Busy
<1>1. CASE tx'[c].pc = "idle"
  BY <1>1, IdleStillTrue
<1>2. CASE tx'[c].pc # "idle"
  <2>1. ASSUME tx' = tx, DOMAIN row' \cap used \subseteq DOMAIN row,
               \A h \in DOMAIN row' \cap DOMAIN row : Placed(row'[h], row[h])
        PROVE  StillTrue(c)'
    <3>1. ASSUME NEW h \in DOMAIN row', h \in {tx[c].group, tx[c].parent}
          PROVE  h \in DOMAIN row /\ Placed(row'[h], row[h])
      <4>1. h # NoGroup => h \in used
        BY <1>0, <1>2, <2>1, <3>1
      <4>2. h # NoGroup
        BY <3>1, TypeStep, TreeAssumption DEF Shaped, TypeOK
      <4>3. QED
        BY <2>1, <3>1, <4>1, <4>2
    <3>2. QED
      BY <2>1, <3>1, StillTrueElsewhere
  <2>2. CASE Settled
    <3>1. PICK g \in Groups : NewRoot(g) \/ Gone(g)
      BY <2>2 DEF Settled
    <3>2. CASE NewRoot(g)
      <4>1. /\ tx' = tx /\ g \notin used /\ DOMAIN row' = DOMAIN row \cup {g}
            /\ \A h \in DOMAIN row : h # g => row'[h] = row[h]
        BY <3>2 DEF NewRoot, Added, Fresh
      <4>2. DOMAIN row \subseteq used
        BY DEF Shaped, TypeOK
      <4>3. QED
        BY <2>1, <4>1, <4>2 DEF Placed
    <3>3. CASE Gone(g)
      <4>1. /\ tx' = tx /\ DOMAIN row' = DOMAIN row \ {g}
            /\ \A h \in DOMAIN row : h # g => row'[h] = row[h]
        BY <3>3 DEF Gone, Removed
      <4>2. QED
        BY <2>1, <4>1 DEF Placed
    <3>4. QED
      BY <3>1, <3>2, <3>3
  <2>3. CASE Relabelled
    BY <2>1, <2>3 DEF Relabelled
  <2>4. ASSUME NEW d \in Changes, Proceeds(d), d # c
        PROVE  StillTrue(c)'
    <3>1. tx'[c] = tx[c]
      BY <2>4 DEF Proceeds, Joins, Inserts, Departs, Aims, Fits, Stops, Commits, Slot
    <3>2. CASE UNCHANGED row
      BY <3>1, <3>2, StillTrueElsewhere DEF Placed
    <3>3. CASE Inserts(d) /\ ~UNCHANGED row
      <4> DEFINE g == tx[d].group
      <4>1. /\ tx[d].pc = "insert" /\ DOMAIN row' = DOMAIN row \cup {g}
            /\ \A h \in DOMAIN row : h # g => row'[h] = row[h]
        BY <3>3 DEF Inserts, Added
      <4>2. tx[c].pc = "insert"
        BY <1>0, <1>2, <2>4, <3>1, <4>1
      <4>3. tx[c].group # g /\ tx[c].parent # g
        BY <2>4, <4>1, <4>2 DEF Shaped, InsertsFresh
      <4> HIDE DEF g
      <4>4. QED
        BY <3>1, <4>1, <4>3, StillTrueElsewhere DEF Placed
    <3>4. CASE Commits(d)
      BY <1>0, <1>2, <2>4, <3>1, <3>4 DEF Commits
    <3>5. QED
      BY <2>4, <3>2, <3>3, <3>4 DEF Proceeds, Joins, Departs, Aims, Fits, Stops
  <2>5. CASE Proceeds(c)
    <3> DEFINE t == tx[c]
    <3>1. CASE Joins(c)
      <4>1. PICK g \in Groups, p \in DOMAIN row : tx'[c] = Joining(g, p) /\ row' = row
        BY <3>1 DEF Joins, Slot
      <4>2. QED
        BY <4>1, JoiningFields DEF StillTrue, Moving, Busy
    <3>2. CASE Departs(c)
      <4>1. PICK g \in DOMAIN row, p \in used \cup {NoGroup} : tx'[c] = Departing(g, p) /\ row' = row
        BY <3>2 DEF Departs, Slot
      <4>2. row[g].path = Pathless \/ row[g].path[Len(row[g].path)] = g
        BY OwnLast
      <4>3. QED
        BY <4>1, <4>2, DepartingFields DEF StillTrue, Moving, Busy
    <3>3. CASE Aims(c)
      <4>1. /\ t.pc = "parent" /\ tx'[c] = Aimed(t) /\ row' = row /\ t \in Tx
            /\ t.parent \in DOMAIN row /\ ~LiesUnder(row[t.parent].path, t.from) /\ c \in Moving
        BY <3>3, TxType DEF Aims, Slot, Moving, Busy, Shaped
      <4>2. StillTrue(c) /\ t.parent # NoGroup
        BY <4>1, RowType, TreeAssumption DEF Shaped
      <4>3. QED
        BY <4>1, <4>2, AimedFields, SMTT(40) DEF StillTrue
    <3>4. CASE Fits(c)
      <4>1. t.pc = "subtree" /\ tx'[c] = Ready(t) /\ row' = row /\ t \in Tx /\ c \in Moving
            /\ StillTrue(c)
        BY <3>4, TxType DEF Fits, Slot, Moving, Busy, Shaped
      <4>2. QED
        BY <4>1, ReadyFields, ZenonT(60) DEF StillTrue
    <3>5. CASE Inserts(c) \/ Stops(c) \/ Commits(c)
      BY <1>2, <3>5 DEF Inserts, Stops, Commits, Slot, NoTx
    <3>6. QED
      BY <2>5, <3>1, <3>2, <3>3, <3>4, <3>5 DEF Proceeds
  <2>6. QED
    BY <2>2, <2>3, <2>4, <2>5, Kinds DEF Shaped
<1>3. QED
  BY <1>1, <1>2

-----------------------------------------------------------------------------
(* Theorems                                                                *)

LEMMA TreeStep ==
  ASSUME Shaped, MovesAlone, Tree, Next
  PROVE  Tree'
<1>1. SUFFICES ASSUME ~raced', ~wandered'
               PROVE  Truthful' /\ \A c \in Changes : StillTrue(c)'
  BY DEF Tree, Truthful
<1>2. Truthful /\ \A c \in Changes : StillTrue(c)
  BY <1>1, RacedStep DEF Tree, Truthful
<1>3. \A c \in Changes : StillTrue(c)'
  BY <1>1, <1>2, StillTrueStep
<1> SUFFICES Truthful'
  BY <1>3
<1>4. CASE Settled
  <2>1. PICK g \in Groups : NewRoot(g) \/ Gone(g)
    BY <1>4 DEF Settled
  <2>2. QED
    BY <1>2, <2>1, NewRootTruthful, GoneTruthful
<1>5. CASE Relabelled
  <2>1. DOMAIN row' = DOMAIN row /\ \A h \in DOMAIN row : Placed(row'[h], row[h])
    BY <1>5 DEF Relabelled
  <2>2. QED
    BY <1>2, <2>1, RelabelledTruthful
<1>6. ASSUME NEW c \in Changes, Proceeds(c)
      PROVE  Truthful'
  <2>1. CASE Inserts(c)
    BY <1>2, <2>1, InsertTruthful
  <2>2. CASE Commits(c)
    BY <1>1, <1>2, <2>2, CommitTruthful, MeasuredStep
  <2>3. CASE Joins(c) \/ Departs(c) \/ Aims(c) \/ Fits(c) \/ Stops(c)
    <3>1. UNCHANGED row
      BY <2>3 DEF Joins, Departs, Aims, Fits, Stops
    <3>2. QED
      BY <1>2, <3>1, RelabelledTruthful DEF Placed
  <2>4. QED
    BY <1>6, <2>1, <2>2, <2>3 DEF Proceeds
<1>7. QED
  BY <1>3, <1>4, <1>5, <1>6, Kinds DEF Shaped

LEMMA InitInv ==
  ASSUME Init
  PROVE  Inv
<1>1. /\ DOMAIN row = {} /\ \A c \in Changes : tx[c] = NoTx
      /\ ~raced /\ ~wandered
  BY DEF Init
<1>2. TypeOK
  <2>0. used = {} /\ raced \in BOOLEAN /\ wandered \in BOOLEAN
    BY Zenon DEF Init
  <2>1. left \in 0..MaxChanges
    BY TreeAssumption DEF Init
  <2>2. row \in [{} -> Row]
    BY DEF Init
  <2>3. tx \in [Changes -> Tx]
    BY NoTxType DEF Init
  <2>4. QED
    BY <1>1, <2>0, <2>1, <2>2, <2>3 DEF TypeOK
<1>3. Measured
  <2>1. /\ Len(NoTx.from) = 1 /\ NoTx.was = 0
        /\ Len(NoTx.to) = 1 /\ NoTx.depth = 0
    BY PathlessFacts DEF NoTx
  <2>2. /\ Len(NoTx.from) > 0 /\ NoTx.was = Len(NoTx.from) - 1
        /\ Len(NoTx.to) > 0   /\ NoTx.depth = Len(NoTx.to) - 1
    <3> HIDE DEF NoTx
    <3>1. QED
      BY <2>1
  <2>3. \A c \in Changes : /\ Len(tx[c].from) > 0 /\ tx[c].was = Len(tx[c].from) - 1
                           /\ Len(tx[c].to) > 0   /\ tx[c].depth = Len(tx[c].to) - 1
    BY <1>1, <2>2, Zenon
  <2>4. QED
    BY <1>1, <2>3 DEF Measured
<1>4. Busy = {}
  BY <1>1 DEF Busy, NoTx
<1>5. Moving = {}
  BY <1>4 DEF Moving
<1>6. Named /\ InsertsFresh /\ MovesAlone
  BY <1>1, <1>4, <1>5 DEF Named, InsertsFresh, MovesAlone, NoTx
<1>7. DepthBounded /\ RoomBelow
  BY <1>1 DEF DepthBounded, RoomBelow, NoTx
<1>8. Tree
  BY <1>1, <1>5 DEF Tree, StillTrue, NoTx
<1>9. QED
  BY <1>2, <1>3, <1>6, <1>7, <1>8 DEF Inv

LEMMA Inductive ==
  ASSUME Inv, [Next]_vars
  PROVE  Inv'
<1>1. Shaped
  BY DEF Inv, Shaped
<1>2. CASE Next
  <2>1. TypeOK' /\ Measured' /\ Named' /\ InsertsFresh'
    BY <1>1, <1>2, TypeStep, MeasuredStep, NamedStep, FreshStep
  <2>2. Tree'
    BY <1>1, <1>2, TreeStep DEF Inv
  <2>3. CASE ~raced'
    BY <1>1, <1>2, <2>1, <2>2, <2>3, AloneStep, DepthStep, RoomStep DEF Inv
  <2>4. CASE raced'
    BY <2>1, <2>2, <2>4 DEF Inv, MovesAlone, DepthBounded, RoomBelow
  <2>5. QED
    BY <2>3, <2>4
<1>3. CASE UNCHANGED vars
  <2>1. /\ row' = row /\ used' = used /\ tx' = tx /\ left' = left
        /\ raced' = raced /\ wandered' = wandered
    BY <1>3 DEF vars
  <2>2. Busy' = Busy
    BY <2>1 DEF Busy
  <2>3. Moving' = Moving
    BY <2>1, <2>2 DEF Moving
  <2>4. TypeOK' /\ Measured' /\ InsertsFresh' /\ DepthBounded'
    BY <2>1 DEF Inv, TypeOK, Measured, InsertsFresh, DepthBounded
  <2>5. Named' /\ MovesAlone'
    BY <2>1, <2>2, <2>3 DEF Inv, Named, MovesAlone
  <2>6. RoomBelow'
    BY <2>1 DEF Inv, RoomBelow, Below
  <2>7. Tree'
    <3>1. Tree => Tree'
      BY <2>1, <2>3 DEF Tree, HangsRight, PathOK, IsAncestor, StillTrue
    <3>2. QED
      BY <3>1 DEF Inv
  <2>8. QED
    BY <2>4, <2>5, <2>6, <2>7 DEF Inv
<1>4. QED
  BY <1>2, <1>3

LEMMA InvAlways == Spec => []Inv
BY InitInv, Inductive, PTL DEF Spec

\* The tables and the transactions keep their types: depths are natural
\* numbers, whatever difference a move adds to them.
THEOREM TypeCorrect == Spec => []TypeOK
BY InvAlways, PTL DEF Inv

\* Even when changes race, a group's depth is the number of ids that its path
\* has after the first (CreateSubgroup and MoveGroup compute both from one read,
\* and an update moves both by the same amount).
THEOREM DepthIsLength == Spec => [](\A g \in DOMAIN row : row[g].depth = Len(row[g].path) - 1)
<1>1. Inv => \A g \in DOMAIN row : row[g].depth = Len(row[g].path) - 1
  BY DEF Inv, Measured
<1>2. QED
  BY <1>1, InvAlways, PTL

\* No group lies deeper than GroupMaxDepth unless changes raced: a move's look
\* at the deepest row under the group is enough for all of them.
THEOREM DepthAlwaysBounded == Spec => []DepthBounded
BY InvAlways, PTL DEF Inv

\* parent_id, path and depth describe the same tree, as long as no move
\* overlapped another change and none was of a group without a path.
THEOREM PathsAlwaysTrue == Spec => []PathsTrue
<1>1. Inv => PathsTrue
  BY DEF Inv, Tree, HangsRight, PathsTrue
<1>2. QED
  BY <1>1, InvAlways, PTL

=============================================================================
