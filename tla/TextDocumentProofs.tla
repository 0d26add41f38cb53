------------------------ MODULE TextDocumentProofs -------------------------
(***************************************************************************)
(* The piece table, for any number of owners, cells and characters and     *)
(* texts of any length.                                                    *)
(*                                                                         *)
(* Copy-on-write is enough: no step changes what a living snapshot refers  *)
(* to.  The argument needs little of the piece table: which cell is        *)
(* written, and that it is nobody else's.                                  *)
(*                                                                         *)
(* The pieces are right: splitting, erasing, inserting and merging leave   *)
(* pieces that fit their buffers and spell exactly the edited text.  With  *)
(* the first result this makes the shared buffers implement plain strings. *)
(***************************************************************************)
EXTENDS TextDocument, FiniteSetTheorems, WellFoundedInduction, NaturalsInduction, SequenceTheorems, TLAPS

\* What a Holding is, without the bookkeeping of lengths.
Slot == [original : Seq(Char), add : Cell, pieces : Cell, length : Int, version : Int]

\* The inductive invariant: every owner points to cells, the add buffers are
\* texts, and the document is never taken for a snapshot or a copy.
Shape ==
    /\ role \in [Owner -> Role]
    /\ role[Main] = "main"
    /\ own \in [Owner -> Slot]
    /\ addText \in [Cell -> Seq(Char)]
    /\ pieceList = [c \in Cell |-> pieceList[c]]
    /\ mutated \in BOOLEAN

-----------------------------------------------------------------------------
\* A set of cells one per owner leaves a cell over.
LEMMA NewCellIsNew ==
    ASSUME NEW f \in [Owner -> Cell], NEW S \in SUBSET Owner, NEW used,
           used = {f[o] : o \in S}
    PROVE  NewCell(used) \in Cell \ used
<1>1. IsFiniteSet(S) /\ Cardinality(S) \in Nat /\ Cardinality(S) <= Cardinality(Owner)
    BY FS_Subset, FS_CardinalityType, DocumentAssumption
<1>2. DEFINE g == [o \in S |-> f[o]]
<1>3. g \in Surjection(S, used)
    BY DEF Surjection
<1>4. Cardinality(used) <= Cardinality(S) /\ IsFiniteSet(used)
    BY <1>1, <1>3, FS_Surjection
<1>5. used # Cell
    <2>1. Cardinality(used) \in Nat /\ Cardinality(Cell) \in Nat /\ Cardinality(Owner) \in Nat
        BY <1>4, FS_CardinalityType, DocumentAssumption
    <2> QED
        BY <1>1, <1>4, <2>1, DocumentAssumption
<1>6. used \subseteq Cell
    OBVIOUS
<1>7. \E c \in Cell : c \notin used
    BY <1>5, <1>6
<1> QED
    BY <1>7 DEF NewCell

\* The cells an owner writes to are cells, and no other owner's.
LEMMA TargetsArePrivate ==
    ASSUME Shape, NEW w \in Owner
    PROVE  /\ AddTarget(w) \in Cell /\ PieceTarget(w) \in Cell
           /\ \A o \in Live \ {w} : AddTarget(w) # own[o].add /\ PieceTarget(w) # own[o].pieces
<1>1. NewCell(AddCells) \in Cell \ AddCells
    <2> DEFINE f == [o \in Owner |-> own[o].add]
    <2>1. f \in [Owner -> Cell]
        BY DEF Shape, Slot
    <2>2. AddCells = {f[o] : o \in Live}
        BY DEF AddCells, Live
    <2> QED
        BY <2>1, <2>2, NewCellIsNew DEF Live
<1>2. NewCell(PieceCells) \in Cell \ PieceCells
    <2> DEFINE f == [o \in Owner |-> own[o].pieces]
    <2>1. f \in [Owner -> Cell]
        BY DEF Shape, Slot
    <2>2. PieceCells = {f[o] : o \in Live}
        BY DEF PieceCells, Live
    <2> QED
        BY <2>1, <2>2, NewCellIsNew DEF Live
<1>3. own[w].add \in Cell /\ own[w].pieces \in Cell
    BY DEF Shape, Slot
<1>4. AddTarget(w) \in Cell /\ \A o \in Live \ {w} : AddTarget(w) # own[o].add
    BY <1>1, <1>3 DEF AddTarget, AddShared, AddCells
<1>5. PieceTarget(w) \in Cell /\ \A o \in Live \ {w} : PieceTarget(w) # own[o].pieces
    BY <1>2, <1>3 DEF PieceTarget, PiecesShared, PieceCells
<1> QED
    BY <1>4, <1>5

\* Inserted texts and whole texts are sequences of characters.
LEMMA InsertsAreTexts == Inserts \subseteq Seq(Char) /\ Wholes \subseteq Seq(Char)
<1>1. MaxInsert \in Nat /\ MaxWhole \in Nat
    BY DocumentAssumption
<1>2. ASSUME NEW max \in Nat, NEW t \in UNION {[1..n -> Char] : n \in 0..max}
      PROVE  t \in Seq(Char)
    <2>1. PICK n \in 0..max : t \in [1..n -> Char]
        OBVIOUS
    <2>2. n \in Nat
        OBVIOUS
    <2> QED
        BY <2>1, <2>2
<1>3. Inserts \subseteq Seq(Char)
    BY <1>1, <1>2 DEF Inserts
<1>4. Wholes \subseteq Seq(Char)
    BY <1>1, <1>2 DEF Wholes
<1> QED
    BY <1>3, <1>4
-----------------------------------------------------------------------------
\* What the writing actions have in common: w is exchanged for a slot, the
\* cells of all other living owners keep their contents.
Writes(w) ==
    /\ \A o \in Owner \ {w} : own'[o] = own[o]
    /\ \A o \in Live \ {w} : /\ addText'[own[o].add] = addText[own[o].add]
                             /\ pieceList'[own[o].pieces] = pieceList[own[o].pieces]

\* The part of Shape that the writing actions could disturb.
Cells ==
    /\ own \in [Owner -> Slot]
    /\ addText \in [Cell -> Seq(Char)]
    /\ pieceList = [c \in Cell |-> pieceList[c]]

\* A splice writes only to cells of its own: replaceNoVersionBump() after
\* ensureUnique() and ensureUniquePieces().
LEMMA DoSpliceWrites ==
    ASSUME Shape, NEW w \in Owner, NEW s \in Nat, NEW e \in Nat, NEW x \in Inserts, NEW v \in Int,
           DoSplice(w, s, e, x, v)
    PROVE  Writes(w) /\ Cells'
<1> DEFINE from == Clamped(s, own[w].length)
           to   == Clamped(e, own[w].length)
           a    == IF x = <<>> THEN own[w].add ELSE AddTarget(w)
           p    == IF x = <<>> /\ from = to THEN own[w].pieces ELSE PieceTarget(w)
           y    == SplicedPieces(w, from, to, x)
           n    == LengthAfter(w, s, e, x)
<1>1. /\ addText' = [addText EXCEPT ![a] = addText[own[w].add] \o x]
      /\ pieceList' = [pieceList EXCEPT ![p] = y]
      /\ own' = [own EXCEPT ![w].add = a, ![w].pieces = p, ![w].version = v, ![w].length = n]
    BY DEF DoSplice
<1>2. x \in Seq(Char)
    BY InsertsAreTexts
<1>3. /\ own[w] \in Slot /\ own[w].add \in Cell /\ own[w].pieces \in Cell /\ own[w].length \in Int
      /\ addText[own[w].add] \in Seq(Char)
    BY DEF Shape, Slot
<1>4. n \in Int /\ from \in Int /\ to \in Int
    BY <1>2, <1>3 DEF LengthAfter, Clamped
<1>5. a \in Cell /\ p \in Cell
    BY <1>3, TargetsArePrivate
<1> HIDE DEF a, p, n, y
<1>6. \A o \in Owner \ {w} : own'[o] = own[o]
    BY <1>1 DEF Shape
<1>7. Cells'
    <2>1. own' \in [Owner -> Slot]
        BY <1>1, <1>3, <1>4, <1>5 DEF Shape, Slot
    <2>2. addText' \in [Cell -> Seq(Char)]
        <3>1. addText[own[w].add] \o x \in Seq(Char)
            BY <1>2, <1>3
        <3> QED
            BY <1>1, <3>1 DEF Shape
    <2>3. pieceList' = [c \in Cell |-> pieceList'[c]]
        BY <1>1 DEF Shape
    <2> QED
        BY <2>1, <2>2, <2>3 DEF Cells
<1>8. ASSUME NEW o \in Live \ {w}
      PROVE  addText'[own[o].add] = addText[own[o].add]
    <2>1. own[o].add \in Cell
        BY DEF Shape, Slot, Live
    <2>2. CASE x = <<>>
        BY <1>1, <1>3, <2>1, <2>2 DEF a, Shape
    <2>3. CASE x # <<>>
        BY <1>1, <1>5, <2>1, <2>3, TargetsArePrivate DEF a, Shape
    <2> QED
        BY <2>2, <2>3
<1>9. ASSUME NEW o \in Live \ {w}
      PROVE  pieceList'[own[o].pieces] = pieceList[own[o].pieces]
    <2>1. own[o].pieces \in Cell
        BY DEF Shape, Slot, Live
    <2>2. CASE x = <<>> /\ from = to
        <3>1. y = pieceList[own[w].pieces]
            BY <2>2, <1>4 DEF y, SplicedPieces
        <3> QED
            BY <1>1, <1>3, <2>1, <2>2, <3>1 DEF p, Shape
    <2>3. CASE ~(x = <<>> /\ from = to)
        BY <1>1, <1>5, <2>1, <2>3, TargetsArePrivate DEF p, Shape
    <2> QED
        BY <2>2, <2>3
<1> QED
    BY <1>6, <1>7, <1>8, <1>9 DEF Writes

\* So does initializeFromOriginal().
LEMMA RenewedWrites ==
    ASSUME Shape, NEW t \in Seq(Char), NEW v \in Int, Renewed(t, v)
    PROVE  Writes(Main) /\ Cells'
<1> DEFINE a == AddTarget(Main)
           p == PieceTarget(Main)
           whole == IF t = <<>> THEN <<>>
                    ELSE << [source |-> "Original", start |-> 0, length |-> Len(t)] >>
<1>1. /\ addText' = [addText EXCEPT ![a] = <<>>]
      /\ pieceList' = [pieceList EXCEPT ![p] = whole]
      /\ own' = [own EXCEPT ![Main] = [original |-> t, add |-> a, pieces |-> p,
                                       length |-> Len(t), version |-> v]]
    BY DEF Renewed
<1>2. a \in Cell /\ p \in Cell /\ \A o \in Live \ {Main} : a # own[o].add /\ p # own[o].pieces
    BY TargetsArePrivate, DocumentAssumption
<1> HIDE DEF a, p, whole
<1>3. \A o \in Live \ {Main} : own[o].add \in Cell /\ own[o].pieces \in Cell
    BY DEF Shape, Slot, Live
<1>4. Writes(Main)
    BY <1>1, <1>2, <1>3 DEF Writes, Shape
<1>5. own' \in [Owner -> Slot]
    <2>1. Len(t) \in Int
        OBVIOUS
    <2>2. [original |-> t, add |-> a, pieces |-> p, length |-> Len(t), version |-> v] \in Slot
        BY <1>2, <2>1 DEF Slot
    <2> QED
        BY <1>1, <2>2 DEF Shape
<1>6. addText' \in [Cell -> Seq(Char)] /\ pieceList' = [c \in Cell |-> pieceList'[c]]
    <2>1. <<>> \in Seq(Char)
        OBVIOUS
    <2> QED
        BY <1>1, <2>1 DEF Shape
<1> QED
    BY <1>4, <1>5, <1>6 DEF Cells
-----------------------------------------------------------------------------
\* Every step keeps Shape, and every snapshot's buffers.
LEMMA Step ==
    ASSUME Shape, [Next]_vars
    PROVE  /\ Shape'
           /\ \A o \in Owner : role[o] = "snapshot" /\ role'[o] = "snapshot" => Seen(o)' = Seen(o)
<1> DEFINE Frozen == \A o \in Owner : role[o] = "snapshot" /\ role'[o] = "snapshot" => Seen(o)' = Seen(o)
<1> USE DocumentAssumption
<1>1. ASSUME NEW w \in Owner, Writes(w), Cells', role' = role, role[w] # "snapshot", mutated' \in BOOLEAN
      PROVE  Shape' /\ Frozen
    <2>1. Shape'
        BY <1>1 DEF Shape, Cells
    <2>2. ASSUME NEW o \in Owner, role[o] = "snapshot"
          PROVE  Seen(o)' = Seen(o)
        <3>1. o \in Live \ {w}
            BY <1>1, <2>2 DEF Live
        <3> QED
            BY <1>1, <3>1 DEF Writes, Seen
    <2> QED
        BY <2>1, <2>2
<1>2. ASSUME UNCHANGED <<own, addText, pieceList>>, role' = role, mutated' \in BOOLEAN
      PROVE  Shape' /\ Frozen
    BY <1>2 DEF Shape, Seen
<1>3. role[Main] # "snapshot"
    BY DEF Shape
<1>4. ASSUME NEW s \in Nat, NEW e \in Nat, NEW x \in Inserts, Splice(s, e, x)
      PROVE  Shape' /\ Frozen
    <2>1. own[Main].version \in Int /\ mutated' \in BOOLEAN
        BY <1>4 DEF Shape, Slot, Splice
    <2>2. DoSplice(Main, s, e, x, own[Main].version) /\ role' = role
        BY <1>4 DEF Splice
    <2> QED
        BY <1>1, <1>3, <2>1, <2>2, DoSpliceWrites
<1>5. ASSUME NEW o \in Owner, NEW s \in Nat, NEW e \in Nat, NEW x \in Inserts, CopySplice(o, s, e, x)
      PROVE  Shape' /\ Frozen
    <2> DEFINE v == IF Mutates(o, s, e, x) THEN own[o].version + 1 ELSE own[o].version
    <2>1. v \in Int
        BY SMTT(30) DEF Shape, Slot
    <2>2. /\ DoSplice(o, s, e, x, v)
          /\ role' = role /\ mutated' = mutated /\ role[o] = "copy"
        BY <1>5 DEF CopySplice
    <2>3. mutated' \in BOOLEAN
        BY <2>2 DEF Shape
    <2> HIDE DEF v
    <2> QED
        BY <1>1, <2>1, <2>2, <2>3, DoSpliceWrites
<1>6. ASSUME NEW t \in Wholes, SetText(t)
      PROVE  Shape' /\ Frozen
    <2>1. role' = role /\ mutated' \in BOOLEAN
        BY <1>6 DEF SetText, Shape
    <2>2. CASE UNCHANGED <<own, addText, pieceList>>
        BY <1>2, <2>1, <2>2
    <2>3. CASE Renewed(t, own[Main].version)
        <3>1. t \in Seq(Char) /\ own[Main].version \in Int
            BY InsertsAreTexts DEF Shape, Slot
        <3> QED
            BY <1>1, <1>3, <2>1, <2>3, <3>1, RenewedWrites
    <2> QED
        BY <1>6, <2>2, <2>3 DEF SetText
<1>7. ASSUME NEW t \in Wholes, Exchange(t)
      PROVE  Shape' /\ Frozen
    <2>1. role' = role /\ mutated' \in BOOLEAN /\ Renewed(t, own[Main].version + 1)
        BY <1>7 DEF Exchange, Shape
    <2>2. t \in Seq(Char) /\ own[Main].version + 1 \in Int
        BY InsertsAreTexts DEF Shape, Slot
    <2> QED
        BY <1>1, <1>3, <2>1, <2>2, RenewedWrites
<1>8. CASE Commit
    <2>1. Writes(Main) /\ role' = role /\ mutated' \in BOOLEAN
        BY <1>8 DEF Commit, Writes, Shape
    <2>2. own' \in [Owner -> Slot]
        <3>1. own[Main] \in Slot /\ own[Main].version \in Int
            BY DEF Shape, Slot
        <3>2. [own[Main] EXCEPT !.version = IF mutated THEN @ + 1 ELSE @] \in Slot
            BY <3>1, SMTT(30) DEF Slot
        <3> QED
            BY <1>8, <3>2 DEF Commit, Shape
    <2>3. Cells'
        BY <1>8, <2>2 DEF Commit, Cells, Shape
    <2> QED
        BY <1>1, <1>3, <2>1, <2>3
<1>9. ASSUME NEW o \in Owner, NEW r \in {"snapshot", "copy"}, Take(o, r)
      PROVE  Shape' /\ Frozen
    <2>1. Shape'
        BY <1>9 DEF Take, Shape, Role
    <2>2. Frozen
        BY <1>9 DEF Take, Seen, Shape
    <2> QED
        BY <2>1, <2>2
<1>10. ASSUME NEW o \in Owner, Restore(o)
       PROVE  Shape' /\ Frozen
    <2>1. role' = role /\ mutated' \in BOOLEAN
        BY <1>10 DEF Restore, Shape
    <2>2. CASE UNCHANGED <<own, addText, pieceList>>
        BY <1>2, <2>1, <2>2
    <2>3. CASE Renewed(<<>>, own[Main].version)
        <3>1. <<>> \in Seq(Char) /\ own[Main].version \in Int
            BY DEF Shape, Slot
        <3> QED
            BY <1>1, <1>3, <2>1, <2>3, <3>1, RenewedWrites
    <2>4. CASE /\ own' = [own EXCEPT ![Main] = own[o]]
               /\ addText' = Reclaimed(addText, {own'[q].add : q \in Live})
               /\ pieceList' = Reclaimed(pieceList, {own'[q].pieces : q \in Live})
        <3>1. own' \in [Owner -> Slot]
            BY <2>4 DEF Shape
        <3>2. Cells'
            BY <2>4, <3>1 DEF Cells, Reclaimed, Shape
        <3>3. \A q \in Owner \ {Main} : own'[q] = own[q]
            BY <2>4 DEF Shape
        <3>4. \A q \in Live \ {Main} : /\ own[q].add \in Cell /\ own[q].pieces \in Cell
                                       /\ own[q].add \in {own'[r].add : r \in Live}
                                       /\ own[q].pieces \in {own'[r].pieces : r \in Live}
            BY <3>3 DEF Shape, Slot, Live
        <3>5. Writes(Main)
            BY <2>4, <3>3, <3>4 DEF Writes, Reclaimed
        <3> QED
            BY <1>1, <1>3, <2>1, <3>2, <3>5
    <2> QED
        BY <1>10, <2>2, <2>3, <2>4 DEF Restore
<1>11. ASSUME NEW o \in Owner, Drop(o)
       PROVE  Shape' /\ Frozen
    <2>1. NewCell({}) \in Cell
        <3> DEFINE f == [q \in Owner |-> own[q].add]
        <3>1. f \in [Owner -> Cell] /\ {} = {f[q] : q \in {}}
            BY DEF Shape, Slot
        <3> QED
            BY <3>1, NewCellIsNew
    <2>2. own' \in [Owner -> Slot]
        BY <1>11, <2>1 DEF Drop, Shape, Slot
    <2>3. addText' \in [Cell -> Seq(Char)] /\ pieceList' = [c \in Cell |-> pieceList'[c]]
        BY <1>11 DEF Drop, Reclaimed, Shape
    <2>4. Shape'
        BY <1>11, <2>2, <2>3 DEF Drop, Shape, Role
    <2>5. ASSUME NEW q \in Owner, role[q] = "snapshot", role'[q] = "snapshot"
          PROVE  Seen(q)' = Seen(q)
        <3>1. q \in Live \ {o}
            BY <1>11, <2>5 DEF Drop, Live, Shape
        <3>2. own'[q] = own[q] /\ own[q].add \in Cell /\ own[q].pieces \in Cell
            BY <1>11, <3>1 DEF Drop, Shape, Slot
        <3> QED
            BY <1>11, <3>1, <3>2 DEF Drop, Reclaimed, Seen
    <2> QED
        BY <2>4, <2>5
<1>12. CASE UNCHANGED vars
    BY <1>12, <1>2 DEF vars, Shape
<1>13. 0..MaxLength \subseteq Nat
    OBVIOUS
<1> QED
    BY <1>4, <1>5, <1>6, <1>7, <1>8, <1>9, <1>10, <1>11, <1>12, <1>13 DEF Next, Edit, OtherOwner

\* The initial document has the shape.
LEMMA InitShape == Init => Shape
<1> SUFFICES ASSUME Init PROVE Shape
    OBVIOUS
<1>1. \E c \in Cell : TRUE
    BY FS_EmptySet, FS_CardinalityType, DocumentAssumption
<1>2. NewCell({}) \in Cell
    BY <1>1 DEF NewCell
<1>3. <<>> \in Seq(Char)
    OBVIOUS
<1>4. own \in [Owner -> Slot]
    BY <1>2, <1>3 DEF Init, Slot
<1>5. addText \in [Cell -> Seq(Char)] /\ pieceList = [c \in Cell |-> pieceList[c]]
    BY <1>3 DEF Init
<1> QED
    BY <1>4, <1>5, DocumentAssumption DEF Init, Shape, Role

\* Workers read immutable snapshots: in every behaviour of the piece table,
\* whatever the document and the workers' copies write, the buffers, the piece
\* list and the length a living snapshot has do not change.
THEOREM SnapshotIsolation == Spec => SnapshotsFrozen
<1>1. Spec => []Shape
    <2>1. Shape /\ [Next]_vars => Shape'
        BY Step
    <2> QED
        BY InitShape, <2>1, PTL DEF Spec
<1>2. Shape /\ [Next]_vars => [\A o \in Owner : role[o] = "snapshot" /\ role'[o] = "snapshot" => Seen(o)' = Seen(o)]_vars
    BY Step
<1> QED
    BY <1>1, <1>2, PTL DEF Spec, SnapshotsFrozen
-----------------------------------------------------------------------------
(***************************************************************************)
(* Counting.  The library's induction theorems take an operator, which the *)
(* provers cannot instantiate; the least counterexample is an element of a *)
(* set.                                                                    *)
(***************************************************************************)

\* A set of numbers that is not empty has a least one.
LEMMA LeastNumber ==
    ASSUME NEW S, S \subseteq Nat, S # {}
    PROVE  \E x \in S : \A y \in S : ~(y < x)
<1> DEFINE Less == {p \in Nat \X Nat : p[1] < p[2]}
<1>1. IsWellFoundedOn(Less, Nat)
    BY NatLessThanWellFounded DEF OpToRel
<1>2. \A x, y \in Nat : y < x => <<y, x>> \in Less
    OBVIOUS
<1>3. PICK x \in S : \A y \in S : ~(<<y, x>> \in Less)
    <2> HIDE DEF Less
    <2> QED
        BY <1>1, WFMin
<1> HIDE DEF Less
<1> QED
    BY <1>2, <1>3, Zenon

\* What holds of 0 and passes from each number to the next holds up to n.
LEMMA UpTo ==
    ASSUME NEW n \in Nat, NEW S \in SUBSET (0..n), 0 \in S,
           \A i \in 1..n : i - 1 \in S => i \in S
    PROVE  S = 0..n
<1> SUFFICES ASSUME (0..n) \ S # {}  PROVE FALSE
    OBVIOUS
<1>1. PICK x \in (0..n) \ S : \A y \in (0..n) \ S : ~(y < x)
    <2> DEFINE T == (0..n) \ S
    <2>1. T \subseteq Nat /\ T # {}
        OBVIOUS
    <2> HIDE DEF T
    <2>2. \E x \in T : \A y \in T : ~(y < x)
        BY <2>1, LeastNumber
    <2> QED
        BY <2>2 DEF T
<1>2. x \in 1..n /\ x - 1 \in 0..n /\ x - 1 < x
    BY <1>1
<1> QED
    BY <1>1, <1>2
-----------------------------------------------------------------------------
(***************************************************************************)
(* Sequences with a part exchanged.                                        *)
(***************************************************************************)

\* s with the elements m + 1 to n exchanged for mid; texts and piece lists are
\* both edited this way
Exchanged(s, m, n, mid) == SubSeq(s, 1, m) \o mid \o SubSeq(s, n + 1, Len(s))

\* The same element by element.
Elementwise(r, s, m, n, mid) ==
    /\ Len(r) = m + Len(mid) + (Len(s) - n)
    /\ \A k \in 1..m : r[k] = s[k]
    /\ \A k \in 1..Len(mid) : r[m + k] = mid[k]
    /\ \A k \in (m + Len(mid) + 1)..(m + Len(mid) + (Len(s) - n)) : r[k] = s[k - m - Len(mid) + n]

\* Both agree: exchanging is what it says of each element.
LEMMA ExchangedIs ==
    ASSUME NEW S, NEW s \in Seq(S), NEW mid \in Seq(S),
           NEW m \in 0..Len(s), NEW n \in m..Len(s)
    PROVE  Exchanged(s, m, n, mid) \in Seq(S) /\ Elementwise(Exchanged(s, m, n, mid), s, m, n, mid)
<1> DEFINE a == SubSeq(s, 1, m)
           c == SubSeq(s, n + 1, Len(s))
           ab == a \o mid
           r == ab \o c
<1>1. /\ Len(s) \in Nat /\ Len(mid) \in Nat /\ m \in Nat /\ n \in Nat /\ m <= n /\ n <= Len(s)
      /\ \A i \in 1..Len(s) : s[i] \in S
    OBVIOUS
<1>2. a \in Seq(S) /\ Len(a) = m /\ \A k \in 1..m : a[k] = s[k]
    <2>1. \A i \in 1..m : s[i] \in S
        BY <1>1
    <2>2. /\ a \in Seq(S) /\ Len(a) = IF 1 <= m THEN m - 1 + 1 ELSE 0
          /\ \A i \in 1..(m - 1 + 1) : a[i] = s[1 + i - 1]
        <3> HIDE DEF a
        <3> QED
            BY <1>1, <2>1, SubSeqProperties DEF a
    <2> HIDE DEF a
    <2> QED
        BY <1>1, <2>2
<1>3. c \in Seq(S) /\ Len(c) = Len(s) - n /\ \A k \in 1..(Len(s) - n) : c[k] = s[n + k]
    <2>1. \A i \in (n + 1)..Len(s) : s[i] \in S
        BY <1>1
    <2>2. /\ c \in Seq(S) /\ Len(c) = IF n + 1 <= Len(s) THEN Len(s) - (n + 1) + 1 ELSE 0
          /\ \A i \in 1..(Len(s) - (n + 1) + 1) : c[i] = s[n + 1 + i - 1]
        <3>1. n + 1 \in Int /\ Len(s) \in Int
            BY <1>1
        <3> QED
            BY <2>1, <3>1, SubSeqProperties
    <2> HIDE DEF c
    <2> QED
        BY <1>1, <2>2
<1> HIDE DEF a, c
<1>4. /\ ab \in Seq(S) /\ Len(ab) = m + Len(mid)
      /\ \A i \in 1..(m + Len(mid)) : ab[i] = IF i <= m THEN a[i] ELSE mid[i - m]
    BY <1>2, ConcatProperties
<1>9. r = Exchanged(s, m, n, mid)
    BY DEF a, c, Exchanged
<1> HIDE DEF ab
<1>5. /\ r \in Seq(S) /\ Len(r) = m + Len(mid) + (Len(s) - n)
      /\ \A i \in 1..(m + Len(mid) + (Len(s) - n)) :
            r[i] = IF i <= m + Len(mid) THEN ab[i] ELSE c[i - (m + Len(mid))]
    BY <1>3, <1>4, ConcatProperties
<1> HIDE DEF r
<1>6. \A k \in 1..m : r[k] = s[k]
    BY <1>1, <1>2, <1>4, <1>5
<1>7. \A k \in 1..Len(mid) : r[m + k] = mid[k]
    <2> SUFFICES ASSUME NEW k \in 1..Len(mid)  PROVE r[m + k] = mid[k]
        OBVIOUS
    <2>1. m + k \in 1..(m + Len(mid)) /\ ~(m + k <= m) /\ m + k - m = k /\ m + k <= m + Len(mid)
          /\ m + k \in 1..(m + Len(mid) + (Len(s) - n))
        BY <1>1
    <2> DEFINE i == m + k
    <2> HIDE DEF i
    <2>2. r[i] = ab[i]
        BY <1>5, <2>1 DEF i
    <2>3. ab[i] = mid[i - m]
        BY <1>4, <2>1 DEF i
    <2> QED
        BY <2>1, <2>2, <2>3 DEF i
<1>8. \A k \in (m + Len(mid) + 1)..Len(r) : r[k] = s[k - m - Len(mid) + n]
    <2> SUFFICES ASSUME NEW k \in (m + Len(mid) + 1)..Len(r)  PROVE r[k] = s[k - m - Len(mid) + n]
        OBVIOUS
    <2> DEFINE j == k - (m + Len(mid))
    <2>1. j \in 1..(Len(s) - n) /\ n + j = k - m - Len(mid) + n
        BY <1>1, <1>5
    <2>2. r[k] = c[j]
        BY <1>1, <1>5
    <2> HIDE DEF j
    <2>3. c[j] = s[n + j]
        BY <1>3, <2>1
    <2> QED
        BY <2>1, <2>2, <2>3
<1> QED
    BY <1>5, <1>6, <1>7, <1>8, <1>9 DEF Elementwise

\* Exchanging a part for itself changes nothing.
LEMMA ExchangedForItself ==
    ASSUME NEW S, NEW s \in Seq(S), NEW m \in 0..Len(s), NEW n \in m..Len(s)
    PROVE  /\ SubSeq(s, m + 1, n) \in Seq(S) /\ Len(SubSeq(s, m + 1, n)) = n - m
           /\ \A k \in 1..(n - m) : SubSeq(s, m + 1, n)[k] = s[m + k]
           /\ Exchanged(s, m, n, SubSeq(s, m + 1, n)) = s
<1> DEFINE x == SubSeq(s, m + 1, n)
<1>1. Len(s) \in Nat /\ m \in Nat /\ n \in Nat /\ m <= n /\ n <= Len(s)
    OBVIOUS
<1>2. x \in Seq(S) /\ Len(x) = n - m /\ \A k \in 1..(n - m) : x[k] = s[m + k]
    <2>1. \A i \in (m + 1)..n : s[i] \in S
        BY <1>1
    <2>2. /\ x \in Seq(S) /\ Len(x) = IF m + 1 <= n THEN n - (m + 1) + 1 ELSE 0
          /\ \A i \in 1..(n - (m + 1) + 1) : x[i] = s[m + 1 + i - 1]
        <3>1. m + 1 \in Int /\ n \in Int
            BY <1>1
        <3> QED
            BY <2>1, <3>1, SubSeqProperties
    <2> HIDE DEF x
    <2> QED
        BY <1>1, <2>2
<1> HIDE DEF x
<1> DEFINE r == Exchanged(s, m, n, x)
<1>x. r \in Seq(S) /\ Elementwise(r, s, m, n, x)
    BY <1>2, ExchangedIs, Zenon
<1>3. /\ r \in Seq(S) /\ Len(r) = m + Len(x) + (Len(s) - n)
      /\ \A k \in 1..m : r[k] = s[k]
      /\ \A k \in 1..Len(x) : r[m + k] = x[k]
      /\ \A k \in (m + Len(x) + 1)..(m + Len(x) + (Len(s) - n)) : r[k] = s[k - m - Len(x) + n]
    BY <1>x DEF Elementwise
<1> HIDE DEF r
<1>4. Len(r) = Len(s)
    BY <1>1, <1>2, <1>3
<1>5. \A i \in 1..Len(r) : r[i] = s[i]
    <2> SUFFICES ASSUME NEW i \in 1..Len(r) PROVE r[i] = s[i]
        OBVIOUS
    <2>1. CASE i <= m
        BY <1>1, <1>3, <2>1
    <2>2. CASE i > m /\ i <= n
        <3>1. i - m \in 1..Len(x) /\ m + (i - m) = i /\ i - m \in 1..(n - m)
            BY <1>1, <1>2, <2>2
        <3>2. r[m + (i - m)] = x[i - m] /\ x[i - m] = s[m + (i - m)]
            BY <1>2, <1>3, <3>1
        <3> QED
            BY <3>1, <3>2
    <2>3. CASE i > n
        <3>1. i \in (m + Len(x) + 1)..(m + Len(x) + (Len(s) - n)) /\ i - m - Len(x) + n = i
            <4>1. Len(x) = n - m /\ i <= Len(s) /\ i \in Nat
                BY <1>2, <1>4
            <4> QED
                BY <1>1, <2>3, <4>1
        <3> QED
            BY <1>3, <3>1
    <2> QED
        BY <1>1, <2>1, <2>2, <2>3
<1>6. r = s
    BY <1>3, <1>4, <1>5, SeqEqual
<1> QED
    BY <1>2, <1>6 DEF x, r

\* Erasing a part and inserting x there exchanges it for x.
LEMMA ExchangedTwice ==
    ASSUME NEW S, NEW s \in Seq(S), NEW x \in Seq(S), NEW m \in 0..Len(s), NEW n \in m..Len(s)
    PROVE  /\ m \in 0..Len(Exchanged(s, m, n, <<>>))
           /\ Exchanged(Exchanged(s, m, n, <<>>), m, m, x) = Exchanged(s, m, n, x)
<1> DEFINE u == Exchanged(s, m, n, <<>>)
           r == Exchanged(s, m, n, x)
           q == Exchanged(u, m, m, x)
<1>1. Len(s) \in Nat /\ Len(x) \in Nat /\ m \in Nat /\ n \in Nat /\ m <= n /\ n <= Len(s)
    OBVIOUS
<1>0. <<>> \in Seq(S) /\ Len(<<>>) = 0
    BY EmptySeq
<1>2. /\ u \in Seq(S) /\ Len(u) = m + 0 + (Len(s) - n)
      /\ \A k \in 1..m : u[k] = s[k]
      /\ \A k \in (m + 0 + 1)..(m + 0 + (Len(s) - n)) : u[k] = s[k - m - 0 + n]
    <2>1. u \in Seq(S) /\ Elementwise(u, s, m, n, <<>>)
        BY <1>0, ExchangedIs, Zenon
    <2> HIDE DEF u
    <2> QED
        BY <1>0, <2>1 DEF Elementwise
<1>3. r \in Seq(S) /\ Elementwise(r, s, m, n, x)
    BY ExchangedIs, Zenon
<1> HIDE DEF u
<1>4. m \in 0..Len(u) /\ m \in m..Len(u)
    BY <1>1, <1>2
<1>5. q \in Seq(S) /\ Elementwise(q, u, m, m, x)
    BY <1>2, <1>4, ExchangedIs, Zenon
<1> USE DEF Elementwise
<1> HIDE DEF q, r
<1>6. Len(q) = Len(r)
    BY <1>1, <1>2, <1>3, <1>5
<1>7. \A i \in 1..Len(q) : q[i] = r[i]
    <2> SUFFICES ASSUME NEW i \in 1..Len(q) PROVE q[i] = r[i]
        OBVIOUS
    <2>1. CASE i <= m
        BY <1>1, <1>2, <1>3, <1>5, <2>1
    <2>2. CASE i > m /\ i <= m + Len(x)
        <3>1. i - m \in 1..Len(x) /\ m + (i - m) = i
            BY <1>1, <2>2
        <3>2. q[m + (i - m)] = x[i - m] /\ r[m + (i - m)] = x[i - m]
            BY <1>3, <1>5, <3>1, Zenon
        <3> QED
            BY <3>1, <3>2
    <2>3. CASE i > m + Len(x)
        <3>1. /\ i \in (m + Len(x) + 1)..(m + Len(x) + (Len(u) - m))
              /\ i \in (m + Len(x) + 1)..(m + Len(x) + (Len(s) - n))
            BY <1>1, <1>2, <1>3, <1>5, <1>6, <2>3
        <3>2. i - m - Len(x) + m \in (m + 0 + 1)..(m + 0 + (Len(s) - n))
              /\ (i - m - Len(x) + m) - m - 0 + n = i - m - Len(x) + n
            <4>1. Len(u) = m + 0 + (Len(s) - n)
                BY <1>2
            <4> QED
                BY <1>1, <3>1, <4>1
        <3>3. u[i - m - Len(x) + m] = s[(i - m - Len(x) + m) - m - 0 + n]
            BY <1>2, <3>2
        <3> QED
            BY <1>3, <1>5, <3>1, <3>2, <3>3
    <2> QED
        BY <1>1, <2>1, <2>2, <2>3
<1> QED
    BY <1>3, <1>4, <1>5, <1>6, <1>7, SeqEqual DEF u, q, r
-----------------------------------------------------------------------------
(***************************************************************************)
(* Where pieces end, and what they spell.                                  *)
(***************************************************************************)

\* The pieces of a list.
LEMMA PiecesAre ==
    ASSUME NEW ps \in Seq(Piece), NEW i \in 1..Len(ps)
    PROVE  ps[i] \in Piece /\ ps[i].start \in Nat /\ ps[i].length \in Nat
<1>1. ps[i] \in Piece
    BY ElementOfSeq
<1> QED
    BY <1>1 DEF Piece

\* The ends are the sums of the lengths.
LEMMA EndsSteps ==
    ASSUME NEW ps \in Seq(Piece)
    PROVE  /\ Len(ps) \in Nat
           /\ \A i \in 0..Len(ps) : Ends(ps)[i] \in Nat
           /\ Ends(ps)[0] = 0
           /\ \A i \in 1..Len(ps) : Ends(ps)[i] = Ends(ps)[i - 1] + ps[i].length
<1> DEFINE Is(g, n) == g = [i \in 0..n |-> IF i = 0 THEN 0 ELSE g[i - 1] + ps[i].length]
           N == Len(ps)
           S == {n \in 0..N : \E g : Is(g, n)}
<1>1. N \in Nat
    OBVIOUS
<1>w. \A n \in 0..N : \A g : Is(g, n) => n \in S
    <2> HIDE DEF Is, N
    <2> QED
        OBVIOUS
<1>2. 0 \in S
    <2>1. Is([i \in 0..0 |-> 0], 0)
        OBVIOUS
    <2>2. 0 \in 0..N
        BY <1>1
    <2> HIDE DEF Is, N, S
    <2> QED
        BY <1>w, <2>1, <2>2
<1>3. ASSUME NEW n \in 1..N, n - 1 \in S  PROVE n \in S
    <2>1. PICK g : Is(g, n - 1)
        BY <1>3
    <2> DEFINE h == [i \in 0..n |-> IF i = n THEN g[n - 1] + ps[n].length ELSE g[i]]
    <2>2. Is(h, n)
        <3>1. \A i \in 0..(n - 1) : g[i] = IF i = 0 THEN 0 ELSE g[i - 1] + ps[i].length
            BY <2>1
        <3>2. \A i \in 0..n : i # 0 => h[i - 1] = g[i - 1]
            BY <1>1
        <3>3. \A i \in 0..n : h[i] = IF i = 0 THEN 0 ELSE h[i - 1] + ps[i].length
            BY <1>1, <3>1, <3>2
        <3> QED
            BY <3>3
    <2>3. n \in 0..N
        BY <1>1
    <2> HIDE DEF Is, h, N, S
    <2> QED
        BY <1>w, <2>2, <2>3
<1>4. \E g : Is(g, N)
    <2>1. S \in SUBSET (0..N)
        OBVIOUS
    <2>2. S = 0..N
        <3> HIDE DEF S, N
        <3> QED
            BY <1>1, <1>2, <1>3, <2>1, UpTo
    <2> QED
        BY <1>1, <2>2
<1>5. Ends(ps) = CHOOSE g : Is(g, N)
    BY DEF Ends
<1>6. Is(Ends(ps), N)
    <2> HIDE DEF Is
    <2> QED
        BY <1>4, <1>5
<1> DEFINE e == Ends(ps)
           T == {i \in 0..N : e[i] \in Nat}
<1>7. e[0] = 0 /\ \A i \in 1..N : e[i] = e[i - 1] + ps[i].length
    BY <1>1, <1>6
<1>8. \A i \in 1..N : ps[i].length \in Nat
    BY PiecesAre
<1>9. T = 0..N
    <2> HIDE DEF e
    <2>1. T \in SUBSET (0..N) /\ 0 \in T
        BY <1>1, <1>7
    <2>2. \A i \in 1..N : i - 1 \in T => i \in T
        <3> SUFFICES ASSUME NEW i \in 1..N, e[i - 1] \in Nat PROVE i \in T
            OBVIOUS
        <3>1. i \in 0..N
            BY <1>1
        <3> DEFINE ep == e[i - 1]
                   li == ps[i].length
        <3>2. ep \in Nat /\ li \in Nat /\ e[i] = ep + li
            BY <1>7, <1>8
        <3> HIDE DEF ep, li
        <3>3. e[i] \in Nat
            BY <3>2
        <3> QED
            BY <3>1, <3>3
    <2> HIDE DEF T, N
    <2> QED
        BY <1>1, <2>1, <2>2, UpTo
<1> QED
    BY <1>7, <1>9

\* What satisfies the same equations are the ends.
LEMMA EndsAre ==
    ASSUME NEW ps \in Seq(Piece), NEW f, f[0] = 0,
           \A i \in 1..Len(ps) : f[i] = f[i - 1] + ps[i].length
    PROVE  \A i \in 0..Len(ps) : Ends(ps)[i] = f[i]
<1> DEFINE N == Len(ps)
           T == {i \in 0..N : Ends(ps)[i] = f[i]}
<1>1. N \in Nat
    OBVIOUS
<1>2. T \in SUBSET (0..N) /\ 0 \in T
    BY <1>1, EndsSteps
<1>3. \A i \in 1..N : i - 1 \in T => i \in T
    BY <1>1, EndsSteps
<1>4. T = 0..N
    <2> HIDE DEF T, N
    <2> QED
        BY <1>1, <1>2, <1>3, UpTo
<1> QED
    BY <1>4

\* No piece is empty.
Full(ps) == \A i \in 1..Len(ps) : ps[i].length > 0

\* So each piece ends behind the ones before it.
LEMMA EndsGrow ==
    ASSUME NEW ps \in Seq(Piece), Full(ps)
    PROVE  \A i, j \in 0..Len(ps) : i < j => Ends(ps)[i] < Ends(ps)[j]
<1> SUFFICES ASSUME NEW i \in 0..Len(ps)
             PROVE  \A j \in 0..Len(ps) : i < j => Ends(ps)[i] < Ends(ps)[j]
    OBVIOUS
<1> DEFINE N == Len(ps)
           e == Ends(ps)
           T == {j \in 0..N : i < j => e[i] < e[j]}
<1>1. N \in Nat
    OBVIOUS
<1>2. /\ \A j \in 0..N : e[j] \in Nat
      /\ \A j \in 1..N : e[j] = e[j - 1] + ps[j].length /\ ps[j].length \in Nat /\ ps[j].length > 0
    <2>1. \A j \in 1..N : ps[j].length \in Nat
        BY PiecesAre
    <2> QED
        BY <2>1, EndsSteps DEF Full
<1> HIDE DEF e
<1>3. T \in SUBSET (0..N) /\ 0 \in T
    BY <1>1
<1>4. ASSUME NEW j \in 1..N, j - 1 \in T  PROVE j \in T
    <2>0. e[i] \in Nat /\ e[j - 1] \in Nat /\ e[j] = e[j - 1] + ps[j].length /\ ps[j].length \in Nat
          /\ ps[j].length > 0 /\ j \in 0..N
        BY <1>1, <1>2
    <2>1. CASE i < j - 1
        <3>1. e[i] < e[j - 1]
            BY <1>4, <2>1
        <3> QED
            BY <2>0, <3>1
    <2>2. CASE i = j - 1
        BY <2>0, <2>2
    <2>3. CASE i > j - 1
        BY <1>1, <2>3
    <2> QED
        BY <1>1, <2>1, <2>2, <2>3
<1>5. T = 0..N
    <2> HIDE DEF T, N
    <2> QED
        BY <1>1, <1>3, <1>4, UpTo
<1> QED
    BY <1>5 DEF e

\* Ends never decrease.
LEMMA EndsInOrder ==
    ASSUME NEW ps \in Seq(Piece), Full(ps)
    PROVE  \A i, j \in 0..Len(ps) : i <= j => Ends(ps)[i] <= Ends(ps)[j]
<1> SUFFICES ASSUME NEW i \in 0..Len(ps), NEW j \in 0..Len(ps), i <= j
             PROVE  Ends(ps)[i] <= Ends(ps)[j]
    OBVIOUS
<1>1. Ends(ps)[i] \in Nat /\ Ends(ps)[j] \in Nat
    BY EndsSteps
<1>2. CASE i = j
    BY <1>1, <1>2
<1>3. CASE i # j
    <2>1. i < j
        BY <1>3
    <2>2. Ends(ps)[i] < Ends(ps)[j]
        BY <2>1, EndsGrow
    <2> QED
        BY <1>1, <2>2
<1> QED
    BY <1>2, <1>3

\* splitAt() finds the first piece that ends at the offset or behind it.
LEMMA SplitIndexIs ==
    ASSUME NEW ps \in Seq(Piece), NEW off \in 0..Ends(ps)[Len(ps)]
    PROVE  /\ SplitIndex(ps, off) \in 0..Len(ps)
           /\ Ends(ps)[SplitIndex(ps, off)] >= off
           /\ \A j \in 0..(SplitIndex(ps, off) - 1) : Ends(ps)[j] < off
<1> DEFINE N == Len(ps)
           e == Ends(ps)
           T == {i \in 0..N : e[i] >= off}
<1>1. N \in Nat /\ \A i \in 0..N : e[i] \in Nat
    BY EndsSteps
<1>2. off \in Nat /\ off <= e[N]
    BY <1>1
<1>5. SplitIndex(ps, off) = CHOOSE i \in 0..N : e[i] >= off /\ \A j \in 0..(i - 1) : e[j] < off
    BY DEF SplitIndex
<1> HIDE DEF e, N
<1>3. T \subseteq Nat /\ T # {}
    BY <1>1, <1>2
<1>4. PICK x \in T : \A y \in T : ~(y < x)
    <2> HIDE DEF T
    <2> QED
        BY <1>3, LeastNumber
<1>6. x \in 0..N /\ e[x] >= off /\ \A j \in 0..(x - 1) : e[j] < off
    BY <1>1, <1>2, <1>4
<1>7. LET i == SplitIndex(ps, off) IN i \in 0..N /\ e[i] >= off /\ \A j \in 0..(i - 1) : e[j] < off
    BY <1>5, <1>6
<1> QED
    BY <1>7 DEF e, N

\* At the end of the c-th piece that is c.
LEMMA SplitIndexAtCut ==
    ASSUME NEW ps \in Seq(Piece), Full(ps), NEW c \in 0..Len(ps)
    PROVE  /\ Ends(ps)[c] \in 0..Ends(ps)[Len(ps)]
           /\ SplitIndex(ps, Ends(ps)[c]) = c
<1> DEFINE N == Len(ps)
           e == Ends(ps)
           i == SplitIndex(ps, e[c])
<1>1. N \in Nat /\ \A k \in 0..N : e[k] \in Nat
    BY EndsSteps
<1>2. \A k, j \in 0..N : k < j => e[k] < e[j]
    BY EndsGrow
<1>3. e[c] \in 0..e[N]
    <2> HIDE DEF e
    <2> QED
        BY <1>1, <1>2
<1>4. i \in 0..N /\ e[i] >= e[c] /\ \A j \in 0..(i - 1) : e[j] < e[c]
    BY <1>3, SplitIndexIs
<1> HIDE DEF e, i
<1>5. i = c
    BY <1>1, <1>2, <1>4
<1> QED
    BY <1>3, <1>5 DEF e, i

\* the buffer a piece lies in
BufferOf(p, original, added) == IF p.source = "Original" THEN original ELSE added

\* A piece list whose pieces lie in their buffers and are not empty.
Fits(ps, original, added) ==
    /\ ps \in Seq(Piece)
    /\ Full(ps)
    /\ \A i \in 1..Len(ps) : ps[i].start + ps[i].length <= Len(BufferOf(ps[i], original, added))

\* The text t is what the pieces spell: at each place the character that the
\* piece there has in its buffer.
Spells(ps, original, added, t) ==
    /\ t \in Seq(Char)
    /\ Len(t) = Ends(ps)[Len(ps)]
    /\ \A i \in 1..Len(ps) : \A k \in 1..ps[i].length :
          t[Ends(ps)[i - 1] + k] = BufferOf(ps[i], original, added)[ps[i].start + k]

\* Pieces spell one text.
LEMMA OneText ==
    ASSUME NEW ps \in Seq(Piece), NEW original, NEW added, NEW t, NEW u,
           Spells(ps, original, added, t), Spells(ps, original, added, u)
    PROVE  t = u
<1> DEFINE N == Len(ps)
           e == Ends(ps)
<1>1. N \in Nat /\ \A i \in 0..N : e[i] \in Nat
    BY EndsSteps
<1>2. \A i \in 1..N : e[i] = e[i - 1] + ps[i].length /\ ps[i].length \in Nat
    <2>1. \A i \in 1..N : ps[i].length \in Nat
        BY PiecesAre
    <2> QED
        BY <2>1, EndsSteps
<1>3. e[0] = 0
    BY EndsSteps
<1>4. t \in Seq(Char) /\ u \in Seq(Char) /\ Len(t) = e[N] /\ Len(u) = e[N]
    BY DEF Spells
<1>5. ASSUME NEW n \in 1..Len(t)  PROVE t[n] = u[n]
    <2> DEFINE i == SplitIndex(ps, n)
    <2>1. n \in 0..e[N] /\ n > 0
        BY <1>1, <1>4
    <2>2. i \in 0..N /\ e[i] >= n /\ \A j \in 0..(i - 1) : e[j] < n
        BY <2>1, SplitIndexIs
    <2> HIDE DEF i, e
    <2>3. i \in 1..N /\ i - 1 \in 0..N /\ i - 1 \in 0..(i - 1)
        BY <1>1, <1>3, <2>1, <2>2
    <2>4. e[i - 1] < n /\ n <= e[i] /\ e[i - 1] \in Nat /\ e[i] \in Nat
        BY <1>1, <2>2, <2>3
    <2> DEFINE k == n - e[i - 1]
    <2>5. k \in 1..ps[i].length /\ e[i - 1] + k = n
        <3> DEFINE ep == e[i - 1]
                   li == ps[i].length
        <3>1. n \in Nat /\ ep \in Nat /\ li \in Nat /\ ep < n /\ n <= ep + li
            BY <1>2, <2>1, <2>3, <2>4
        <3>2. k = n - ep
            OBVIOUS
        <3> HIDE DEF ep, li, k
        <3>3. k \in 1..li /\ ep + k = n
            BY <3>1, <3>2
        <3> QED
            BY <3>3 DEF ep, li
    <2> HIDE DEF k
    <2>6. t[e[i - 1] + k] = BufferOf(ps[i], original, added)[ps[i].start + k]
        BY <2>3, <2>5 DEF Spells, e
    <2>7. u[e[i - 1] + k] = BufferOf(ps[i], original, added)[ps[i].start + k]
        BY <2>3, <2>5 DEF Spells, e
    <2> QED
        BY <2>5, <2>6, <2>7
<1> HIDE DEF e, N
<1> QED
    BY <1>4, <1>5, SeqEqual

\* What FlattenSeq() returns, step by step.
LEMMA FlattenSteps ==
    ASSUME NEW S, NEW ss \in Seq(Seq(S)), Len(ss) # 0
    PROVE  \E g : /\ FlattenSeq(ss) = g[Len(ss)]
                  /\ g[1] = ss[1]
                  /\ \A i \in 2..Len(ss) : g[i] = g[i - 1] \o ss[i]
<1> DEFINE Is(g, n) == g = [i \in 1..n |-> IF i = 1 THEN ss[i] ELSE g[i - 1] \o ss[i]]
           N == Len(ss)
           T == {0} \cup {n \in 1..N : \E g : Is(g, n)}
<1>1. N \in Nat /\ N > 0
    OBVIOUS
<1>w. \A n \in 1..N : \A g : Is(g, n) => n \in T
    <2> HIDE DEF Is, N
    <2> QED
        OBVIOUS
<1>3. ASSUME NEW n \in 1..N, n - 1 \in T  PROVE n \in T
    <2>1. CASE n = 1
        <3>1. Is([i \in 1..1 |-> ss[i]], n)
            BY <2>1
        <3> HIDE DEF Is, N, T
        <3> QED
            BY <1>w, <3>1
    <2>2. CASE n # 1
        <3>0. n - 1 \in 1..N /\ n - 1 # 0
            BY <1>1, <2>2
        <3>1. PICK g : Is(g, n - 1)
            BY <1>3, <3>0
        <3> DEFINE h == [i \in 1..n |-> IF i = n THEN g[n - 1] \o ss[n] ELSE g[i]]
        <3>2. Is(h, n)
            <4>1. \A i \in 1..(n - 1) : g[i] = IF i = 1 THEN ss[i] ELSE g[i - 1] \o ss[i]
                BY <3>1
            <4>2. \A i \in 1..n : i # 1 => h[i - 1] = g[i - 1]
                BY <1>1
            <4>3. \A i \in 1..n : h[i] = IF i = 1 THEN ss[i] ELSE h[i - 1] \o ss[i]
                BY <1>1, <2>2, <4>1, <4>2
            <4> QED
                BY <4>3
        <3> HIDE DEF Is, h, N, T
        <3> QED
            BY <1>w, <3>2
    <2> QED
        BY <2>1, <2>2
<1>4. \E g : Is(g, N)
    <2> HIDE DEF Is, N
    <2>1. T \in SUBSET (0..N) /\ 0 \in T
        BY <1>1
    <2>2. T = 0..N
        <3> HIDE DEF T
        <3> QED
            BY <1>1, <1>3, <2>1, UpTo
    <2>3. N \in T /\ N # 0
        <3> HIDE DEF T
        <3> QED
            BY <1>1, <2>2
    <2> QED
        BY <2>3
<1> DEFINE f == CHOOSE g : Is(g, N)
<1>5. FlattenSeq(ss) = f[N]
    BY DEF FlattenSeq
<1>6. Is(f, N)
    <2> HIDE DEF Is
    <2> QED
        BY <1>4
<1> HIDE DEF f
<1>7. f[1] = ss[1] /\ \A i \in 2..N : f[i] = f[i - 1] \o ss[i]
    <2>1. f = [i \in 1..N |-> IF i = 1 THEN ss[i] ELSE f[i - 1] \o ss[i]]
        BY <1>6
    <2>2. 1 \in 1..N
        BY <1>1
    <2>3. ASSUME NEW i \in 2..N  PROVE f[i] = f[i - 1] \o ss[i]
        <3>1. i \in 1..N /\ i # 1
            BY <1>1
        <3> QED
            BY <2>1, <3>1, Zenon
    <2>4. f[1] = ss[1]
        BY <2>1, <2>2, Zenon
    <2> QED
        BY <2>3, <2>4
<1> QED
    BY <1>5, <1>7

\* the text of a piece list: text()
Text(ps, original, added) == FlattenSeq([i \in 1..Len(ps) |-> PieceText(ps[i], original, added)])

\* A piece has the characters of its buffer.
LEMMA PieceTextIs ==
    ASSUME NEW original \in Seq(Char), NEW added \in Seq(Char), NEW p \in Piece,
           p.start + p.length <= Len(BufferOf(p, original, added))
    PROVE  /\ PieceText(p, original, added) \in Seq(Char)
           /\ Len(PieceText(p, original, added)) = p.length
           /\ \A k \in 1..p.length : PieceText(p, original, added)[k] = BufferOf(p, original, added)[p.start + k]
<1> DEFINE b == BufferOf(p, original, added)
           m == p.start
           n == p.start + p.length
<1>1. b \in Seq(Char)
    BY DEF BufferOf
<1>2. m \in Nat /\ p.length \in Nat
    BY DEF Piece
<1>3. PieceText(p, original, added) = SubSeq(b, m + 1, n)
    BY DEF PieceText, BufferOf
<1>4. n \in Nat /\ n - m = p.length
    BY <1>2
<1>5. n <= Len(b)
    OBVIOUS
<1> HIDE DEF b, m, n
<1>6. m \in 0..Len(b) /\ n \in m..Len(b)
    BY <1>1, <1>2, <1>4, <1>5
<1>7. /\ SubSeq(b, m + 1, n) \in Seq(Char) /\ Len(SubSeq(b, m + 1, n)) = n - m
      /\ \A k \in 1..(n - m) : SubSeq(b, m + 1, n)[k] = b[m + k]
    BY <1>1, <1>6, ExchangedForItself
<1> QED
    BY <1>3, <1>4, <1>7 DEF b, m

\* Pieces that lie in their buffers spell the text of the list.
LEMMA TextIsSpelled ==
    ASSUME NEW original \in Seq(Char), NEW added \in Seq(Char), NEW ps, Fits(ps, original, added)
    PROVE  Spells(ps, original, added, Text(ps, original, added))
<1> DEFINE ss == [i \in 1..Len(ps) |-> PieceText(ps[i], original, added)]
           N == Len(ps)
           e == Ends(ps)
           B(i, k) == BufferOf(ps[i], original, added)[ps[i].start + k]
<1>1. ps \in Seq(Piece) /\ N \in Nat
    BY DEF Fits
<1>2. /\ \A i \in 0..N : e[i] \in Nat
      /\ e[0] = 0
      /\ \A i \in 1..N : e[i] = e[i - 1] + ps[i].length /\ ps[i].length \in Nat
    BY <1>1, EndsSteps, PiecesAre
<1>3. \A i \in 1..N : ss[i] \in Seq(Char) /\ Len(ss[i]) = ps[i].length /\ \A k \in 1..ps[i].length : ss[i][k] = B(i, k)
    <2> SUFFICES ASSUME NEW i \in 1..N
                 PROVE  ss[i] \in Seq(Char) /\ Len(ss[i]) = ps[i].length /\ \A k \in 1..ps[i].length : ss[i][k] = B(i, k)
        OBVIOUS
    <2>1. ps[i] \in Piece /\ ps[i].start + ps[i].length <= Len(BufferOf(ps[i], original, added))
        BY <1>1, PiecesAre DEF Fits
    <2>2. ss[i] = PieceText(ps[i], original, added)
        OBVIOUS
    <2> HIDE DEF ss
    <2>3. /\ PieceText(ps[i], original, added) \in Seq(Char)
          /\ Len(PieceText(ps[i], original, added)) = ps[i].length
          /\ \A k \in 1..ps[i].length : PieceText(ps[i], original, added)[k] = B(i, k)
        BY <2>1, PieceTextIs, Zenon
    <2> QED
        BY <2>2, <2>3, Zenon
<1>4. ss \in Seq(Seq(Char)) /\ Len(ss) = N
    BY <1>1, <1>3
<1>5. Text(ps, original, added) = FlattenSeq(ss)
    BY DEF Text
<1>6. CASE N = 0
    <2>1. FlattenSeq(ss) = ss
        BY <1>4, <1>6 DEF FlattenSeq
    <2>2. ss = <<>>
        BY <1>4, <1>6
    <2>3. Text(ps, original, added) = <<>>
        BY <1>5, <2>1, <2>2
    <2>4. <<>> \in Seq(Char) /\ Len(<<>>) = Ends(ps)[Len(ps)]
        BY <1>2, <1>6
    <2>5. \A i \in 1..Len(ps) : FALSE
        BY <1>6
    <2> QED
        BY <2>3, <2>4, <2>5, Zenon DEF Spells
<1>7. CASE N # 0
    <2> HIDE DEF ss, e, B, N
    <2>1. PICK g : /\ FlattenSeq(ss) = g[Len(ss)]
                   /\ g[1] = ss[1]
                   /\ \A i \in 2..Len(ss) : g[i] = g[i - 1] \o ss[i]
        BY <1>4, <1>7, FlattenSteps
    <2> DEFINE Ok(n) == /\ g[n] \in Seq(Char) /\ Len(g[n]) = e[n]
                        /\ \A i \in 1..n : \A k \in 1..ps[i].length : g[n][e[i - 1] + k] = B(i, k)
               T == {0} \cup {n \in 1..N : Ok(n)}
    <2>2. ASSUME NEW n \in 1..N, n - 1 \in T  PROVE n \in T
        <3>0. n \in Nat /\ n >= 1 /\ n <= N /\ e[n] = e[n - 1] + ps[n].length /\ ps[n].length \in Nat
              /\ e[n - 1] \in Nat
            <4>1. n \in Nat /\ n >= 1 /\ n <= N /\ n - 1 \in 0..N
                BY <1>1
            <4>2. e[n] = e[n - 1] + ps[n].length /\ ps[n].length \in Nat
                BY <1>2, Zenon
            <4>3. e[n - 1] \in Nat
                BY <1>2, <4>1, Zenon
            <4> QED
                BY <4>1, <4>2, <4>3
        <3>00. ss[n] \in Seq(Char) /\ Len(ss[n]) = ps[n].length /\ \A k \in 1..ps[n].length : ss[n][k] = B(n, k)
            BY <1>3
        <3>1. CASE n = 1
            <4>1. g[n] = ss[n] /\ e[n - 1] = 0
                BY <1>2, <2>1, <3>1
            <4>2. \A i \in 1..n : i = n
                BY <3>1
            <4>3. \A k \in 1..ps[n].length : g[n][e[n - 1] + k] = B(n, k)
                BY <3>0, <3>00, <4>1
            <4>4. Ok(n)
                <5>1. g[n] \in Seq(Char) /\ Len(g[n]) = e[n]
                    BY <3>0, <3>00, <4>1
                <5>2. \A i \in 1..n : \A k \in 1..ps[i].length : g[n][e[i - 1] + k] = B(i, k)
                    BY <4>2, <4>3, Zenon
                <5> QED
                    BY <5>1, <5>2
            <4> HIDE DEF Ok
            <4> QED
                BY <4>4
        <3>2. CASE n # 1
            <4>0. n - 1 # 0 /\ n \in 2..N
                BY <3>0, <3>2
            <4>1. Ok(n - 1)
                <5> HIDE DEF Ok
                <5> QED
                    BY <2>2, <4>0
            <4> DEFINE a == g[n - 1]
                       b == ss[n]
            <4>2. g[n] = a \o b
                BY <1>4, <2>1, <4>0
            <4>3. a \in Seq(Char) /\ Len(a) = e[n - 1] /\ b \in Seq(Char) /\ Len(b) = ps[n].length
                BY <3>00, <4>1
            <4>4. \A i \in 1..(n - 1) : \A k \in 1..ps[i].length : a[e[i - 1] + k] = B(i, k)
                BY <4>1
            <4>5. \A k \in 1..ps[n].length : b[k] = B(n, k)
                BY <3>00
            <4> HIDE DEF a, b
            <4>6. /\ a \o b \in Seq(Char) /\ Len(a \o b) = Len(a) + Len(b)
                  /\ \A i \in 1..(Len(a) + Len(b)) : (a \o b)[i] = IF i <= Len(a) THEN a[i] ELSE b[i - Len(a)]
                BY <4>3, ConcatProperties
            <4>7. ASSUME NEW i \in 1..n, NEW k \in 1..ps[i].length
                  PROVE  g[n][e[i - 1] + k] = B(i, k)
                <5>0. i \in 1..N /\ i - 1 \in 0..N /\ e[i - 1] \in Nat /\ ps[i].length \in Nat
                      /\ e[i] = e[i - 1] + ps[i].length /\ k \in Nat /\ k >= 1 /\ k <= ps[i].length
                    <6>1. i \in 1..N /\ i - 1 \in 0..N
                        BY <1>1, <3>0
                    <6>2. e[i - 1] \in Nat /\ ps[i].length \in Nat /\ e[i] = e[i - 1] + ps[i].length
                        BY <1>2, <6>1
                    <6> QED
                        BY <6>1, <6>2
                <5> DEFINE j == e[i - 1] + k
                <5>1. CASE i < n
                    <6>1. i \in 0..N /\ n - 1 \in 0..N /\ (i < n - 1 \/ i = n - 1)
                        BY <1>1, <3>0, <5>0, <5>1
                    <6>a. i < n - 1 => e[i] < e[n - 1]
                        BY <1>1, <6>1, EndsGrow DEF Fits, e, N
                    <6>b. e[i] \in Nat
                        BY <1>2, <6>1
                    <6>2. e[i] <= e[n - 1]
                        BY <3>0, <6>1, <6>a, <6>b
                    <6>3. j \in 1..(Len(a) + Len(b)) /\ j <= Len(a)
                        <7>1. /\ e[i - 1] \in Nat /\ e[n - 1] \in Nat /\ ps[n].length \in Nat /\ ps[i].length \in Nat
                              /\ k \in Nat /\ k >= 1 /\ k <= ps[i].length
                              /\ e[i - 1] + ps[i].length <= e[n - 1]
                            BY <3>0, <5>0, <6>2
                        <7>2. Len(a) = e[n - 1] /\ Len(b) = ps[n].length
                            BY <4>3
                        <7>3. \A x, y, z, l, q \in Nat : l >= 1 /\ l <= z /\ x + z <= y => x + l \in 1..(y + q) /\ x + l <= y
                            OBVIOUS
                        <7>4. j \in 1..(e[n - 1] + ps[n].length) /\ j <= e[n - 1]
                            BY <7>1, <7>3
                        <7> HIDE DEF j
                        <7> QED
                            BY <7>2, <7>4
                    <6> HIDE DEF j
                    <6>4. (a \o b)[j] = a[j]
                        BY <4>6, <6>3
                    <6>5. i \in 1..(n - 1)
                        BY <3>0, <5>1
                    <6> QED
                        BY <4>2, <4>4, <6>4, <6>5 DEF j
                <5>2. CASE i = n
                    <6>1. j \in 1..(Len(a) + Len(b)) /\ ~(j <= Len(a)) /\ j - Len(a) = k /\ k \in 1..ps[n].length
                        BY <3>0, <4>3, <5>0, <5>2
                    <6> HIDE DEF j
                    <6>2. (a \o b)[j] = b[k]
                        BY <4>6, <6>1
                    <6>3. b[k] = B(i, k)
                        BY <4>5, <5>2, <6>1
                    <6> QED
                        BY <4>2, <6>2, <6>3 DEF j
                <5> QED
                    BY <3>0, <5>1, <5>2
            <4>8. g[n] \in Seq(Char) /\ Len(g[n]) = e[n]
                BY <3>0, <4>2, <4>3, <4>6
            <4>9. Ok(n)
                BY <4>7, <4>8
            <4> HIDE DEF Ok
            <4> QED
                BY <4>9
        <3> QED
            BY <3>1, <3>2
    <2>3. T \in SUBSET (0..N) /\ 0 \in T
        <3> HIDE DEF Ok
        <3> QED
            BY <1>1
    <2>4. T = 0..N
        <3> HIDE DEF T
        <3> QED
            BY <1>1, <2>2, <2>3, UpTo
    <2>5. Ok(N)
        <3>1. N \in T /\ N # 0
            <4> HIDE DEF T
            <4> QED
                BY <1>1, <1>7, <2>4
        <3> HIDE DEF Ok
        <3> QED
            BY <3>1
    <2> QED
        BY <1>4, <1>5, <2>1, <2>5 DEF Spells, N, e, B
<1> QED
    BY <1>6, <1>7
-----------------------------------------------------------------------------
(***************************************************************************)
(* Every operation on a piece list exchanges a part of it for other        *)
(* pieces, and does the same to the text.                                  *)
(***************************************************************************)

\* The ends before the part stay, the ends behind it move.
LEMMA ExchangedEnds ==
    ASSUME NEW ps \in Seq(Piece), NEW mid \in Seq(Piece),
           NEW m \in 0..Len(ps), NEW n \in m..Len(ps), NEW r, r = Exchanged(ps, m, n, mid)
    PROVE  /\ \A k \in 0..m : Ends(r)[k] = Ends(ps)[k]
           /\ \A k \in m..(m + Len(mid)) : Ends(r)[k] = Ends(ps)[m] + Ends(mid)[k - m]
           /\ \A k \in (m + Len(mid))..Len(r) :
                 Ends(r)[k] = Ends(ps)[k - m - Len(mid) + n] - Ends(ps)[n] + Ends(ps)[m] + Ends(mid)[Len(mid)]
<1> DEFINE N == Len(ps)
           L == Len(mid)
           e == Ends(ps)
           d == Ends(mid)
           f == [k \in 0..Len(r) |-> IF k <= m THEN e[k] ELSE IF k <= m + L THEN e[m] + d[k - m]
                                     ELSE e[k - m - L + n] - e[n] + e[m] + d[L]]
<1>1. r \in Seq(Piece) /\ Elementwise(r, ps, m, n, mid)
    BY ExchangedIs, Zenon
<1>2. /\ N \in Nat /\ L \in Nat /\ m \in Nat /\ n \in Nat /\ m <= n /\ n <= N
      /\ Len(r) = m + L + (N - n) /\ Len(r) \in Nat
    BY <1>1 DEF Elementwise
<1>3. /\ \A k \in 0..N : e[k] \in Nat
      /\ e[0] = 0
      /\ \A k \in 1..N : e[k] = e[k - 1] + ps[k].length /\ ps[k].length \in Nat
    BY EndsSteps, PiecesAre
<1>4. /\ \A k \in 0..L : d[k] \in Nat
      /\ d[0] = 0
      /\ \A k \in 1..L : d[k] = d[k - 1] + mid[k].length /\ mid[k].length \in Nat
    BY EndsSteps, PiecesAre
<1>5. /\ \A k \in 1..m : r[k] = ps[k]
      /\ \A k \in 1..L : r[m + k] = mid[k]
      /\ \A k \in (m + L + 1)..(m + L + (N - n)) : r[k] = ps[k - m - L + n]
    BY <1>1 DEF Elementwise
<1> HIDE DEF N, L, e, d
<1>6. e[m] \in Nat /\ e[n] \in Nat /\ d[L] \in Nat
    BY <1>2, <1>3, <1>4
<1>7. f[0] = 0
    BY <1>2, <1>3
<1>8. ASSUME NEW i \in 1..Len(r)  PROVE f[i] = f[i - 1] + r[i].length
    <2>0. i \in 0..Len(r) /\ i - 1 \in 0..Len(r) /\ i \in Nat /\ i >= 1
        BY <1>2
    <2>1. CASE i <= m
        <3>1. f[i] = e[i] /\ f[i - 1] = e[i - 1] /\ i \in 1..N /\ i \in 1..m
            BY <1>2, <2>0, <2>1
        <3> QED
            BY <1>3, <1>5, <3>1
    <2>2. CASE i > m /\ i <= m + L
        <3> DEFINE j == i - m
        <3>1. j \in 1..L /\ m + j = i /\ i - 1 - m = j - 1 /\ ~(i <= m)
            BY <1>2, <2>0, <2>2
        <3>2. f[i] = e[m] + d[j]
            BY <2>0, <2>2, <3>1
        <3>3. f[i - 1] = e[m] + d[j - 1]
            <4>1. CASE i - 1 <= m
                <5>1. i - 1 = m /\ j - 1 = 0
                    BY <1>2, <2>0, <2>2, <4>1
                <5>2. f[i - 1] = e[m]
                    BY <2>0, <4>1, <5>1
                <5> QED
                    BY <1>4, <1>6, <5>1, <5>2
            <4>2. CASE ~(i - 1 <= m)
                <5>1. i - 1 <= m + L
                    BY <1>2, <2>0, <2>2
                <5> QED
                    BY <2>0, <3>1, <4>2, <5>1
            <4> QED
                BY <4>1, <4>2
        <3> HIDE DEF j, f
        <3>4. r[i] = mid[j]
            BY <1>5, <3>1
        <3>5. d[j] = d[j - 1] + mid[j].length /\ mid[j].length \in Nat /\ d[j - 1] \in Nat
            <4>1. j \in 1..L /\ j - 1 \in 0..L
                BY <1>2, <3>1
            <4> QED
                BY <1>4, <4>1
        <3>7. e[m] + d[j] = (e[m] + d[j - 1]) + mid[j].length
            <4> DEFINE em == e[m]  dj == d[j]  dp == d[j - 1]  lj == mid[j].length
            <4>1. em \in Nat /\ dp \in Nat /\ lj \in Nat /\ dj = dp + lj
                BY <1>6, <3>5
            <4> HIDE DEF em, dj, dp, lj
            <4>2. em + dj = (em + dp) + lj
                BY <4>1
            <4> QED
                BY <4>2 DEF em, dj, dp, lj
        <3> QED
            BY <3>2, <3>3, <3>4, <3>7, Zenon
    <2>3. CASE i > m + L
        <3> DEFINE j == i - m - L + n
                   c == e[m] + d[L]
        <3>1. j \in 1..N /\ i - 1 - m - L + n = j - 1 /\ ~(i <= m) /\ ~(i <= m + L) /\ j - 1 \in 0..N
              /\ i \in (m + L + 1)..(m + L + (N - n))
            BY <1>2, <2>0, <2>3
        <3>2. f[i] = e[j] - e[n] + e[m] + d[L]
            BY <2>0, <3>1
        <3>3. f[i - 1] = e[j - 1] - e[n] + e[m] + d[L]
            <4>1. CASE i - 1 <= m + L
                <5>1. i - 1 = m + L /\ j - 1 = n
                    BY <1>2, <2>0, <2>3, <4>1
                <5>2. f[i - 1] = e[m] + d[L]
                    <6>1. CASE L = 0
                        <7>1. i - 1 = m
                            BY <1>2, <5>1, <6>1
                        <7>2. f[i - 1] = e[m]
                            BY <1>2, <2>0, <7>1
                        <7> QED
                            BY <1>4, <1>6, <6>1, <7>2
                    <6>2. CASE L # 0
                        <7>1. ~(i - 1 <= m) /\ i - 1 - m = L
                            BY <1>2, <2>0, <5>1, <6>2
                        <7> QED
                            BY <2>0, <4>1, <7>1
                    <6> QED
                        BY <6>1, <6>2
                <5> HIDE DEF f, j
                <5> QED
                    BY <1>6, <5>1, <5>2
            <4>2. CASE ~(i - 1 <= m + L)
                <5>1. ~(i - 1 <= m)
                    BY <1>2, <2>0, <4>2
                <5> QED
                    BY <2>0, <3>1, <4>2, <5>1
            <4> QED
                BY <4>1, <4>2
        <3> HIDE DEF j, f
        <3>4. r[i] = ps[j]
            BY <1>5, <3>1 DEF j
        <3>5. e[j] = e[j - 1] + ps[j].length /\ ps[j].length \in Nat /\ e[j - 1] \in Nat
            BY <1>3, <3>1
        <3>7. e[j] - e[n] + e[m] + d[L] = (e[j - 1] - e[n] + e[m] + d[L]) + ps[j].length
            <4> DEFINE ej == e[j]  en == e[n]  em == e[m]  dL == d[L]  ep == e[j - 1]  lj == ps[j].length
            <4>1. en \in Nat /\ em \in Nat /\ dL \in Nat /\ ep \in Nat /\ lj \in Nat /\ ej = ep + lj
                BY <1>6, <3>5
            <4> HIDE DEF ej, en, em, dL, ep, lj
            <4>2. ej - en + em + dL = (ep - en + em + dL) + lj
                BY <4>1
            <4> QED
                BY <4>2 DEF ej, en, em, dL, ep, lj
        <3> QED
            BY <3>2, <3>3, <3>4, <3>7, Zenon
    <2> QED
        BY <1>2, <2>0, <2>1, <2>2, <2>3
<1> HIDE DEF f
<1>9. \A k \in 0..Len(r) : Ends(r)[k] = f[k]
    BY <1>1, <1>7, <1>8, EndsAre
<1>10. \A k \in 0..m : Ends(r)[k] = e[k]
    <2> SUFFICES ASSUME NEW k \in 0..m PROVE Ends(r)[k] = e[k]
        OBVIOUS
    <2>1. k \in 0..Len(r) /\ k <= m
        BY <1>2
    <2> QED
        BY <1>9, <2>1 DEF f
<1>11. \A k \in m..(m + L) : Ends(r)[k] = e[m] + d[k - m]
    <2> SUFFICES ASSUME NEW k \in m..(m + L) PROVE Ends(r)[k] = e[m] + d[k - m]
        OBVIOUS
    <2>1. k \in 0..Len(r) /\ k \in Nat /\ k >= m /\ k <= m + L
        BY <1>2
    <2>2. CASE k = m
        <3>1. Ends(r)[k] = e[m] /\ k - m = 0
            BY <1>2, <1>9, <2>1, <2>2 DEF f
        <3> QED
            BY <1>4, <1>6, <3>1
    <2>3. CASE k # m
        <3>1. ~(k <= m)
            BY <1>2, <2>1, <2>3
        <3> QED
            BY <1>9, <2>1, <3>1 DEF f
    <2> QED
        BY <2>2, <2>3
<1>12. \A k \in (m + L)..Len(r) : Ends(r)[k] = e[k - m - L + n] - e[n] + e[m] + d[L]
    <2> SUFFICES ASSUME NEW k \in (m + L)..Len(r) PROVE Ends(r)[k] = e[k - m - L + n] - e[n] + e[m] + d[L]
        OBVIOUS
    <2>1. k \in 0..Len(r) /\ k \in Nat /\ k >= m + L
        BY <1>2
    <2>2. CASE k = m + L
        <3>1. k \in m..(m + L) /\ k - m = L /\ k - m - L + n = n
            BY <1>2, <2>1, <2>2
        <3>2. Ends(r)[k] = e[m] + d[L]
            BY <1>11, <3>1
        <3> QED
            BY <1>6, <3>1, <3>2
    <2>3. CASE k # m + L
        <3>1. ~(k <= m) /\ ~(k <= m + L)
            BY <1>2, <2>1, <2>3
        <3> QED
            BY <1>9, <2>1, <3>1 DEF f
    <2> QED
        BY <2>2, <2>3
<1> QED
    BY <1>10, <1>11, <1>12 DEF N, L, e, d

\* Pieces that spell x, put in the place of a part, spell x in the place of
\* that part's text.
LEMMA ExchangedPieces ==
    ASSUME NEW original, NEW added, NEW ps, NEW mid, NEW t, NEW x,
           Fits(ps, original, added), Spells(ps, original, added, t),
           Fits(mid, original, added), Spells(mid, original, added, x),
           NEW m \in 0..Len(ps), NEW n \in m..Len(ps), NEW r, r = Exchanged(ps, m, n, mid)
    PROVE  /\ Ends(ps)[m] \in 0..Len(t) /\ Ends(ps)[n] \in Ends(ps)[m]..Len(t)
           /\ Fits(r, original, added)
           /\ Spells(r, original, added, Exchanged(t, Ends(ps)[m], Ends(ps)[n], x))
<1> DEFINE N == Len(ps)
           L == Len(mid)
           e == Ends(ps)
           d == Ends(mid)
           g == Ends(r)
           u == Exchanged(t, e[m], e[n], x)
           B(p, k) == BufferOf(p, original, added)[p.start + k]
<1>0. ps \in Seq(Piece) /\ mid \in Seq(Piece) /\ t \in Seq(Char) /\ x \in Seq(Char) /\ Full(ps) /\ Full(mid)
    BY DEF Fits, Spells
<1>1. r \in Seq(Piece) /\ Elementwise(r, ps, m, n, mid)
    BY <1>0, ExchangedIs, Zenon
<1>2. /\ N \in Nat /\ L \in Nat /\ m \in Nat /\ n \in Nat /\ m <= n /\ n <= N
      /\ Len(r) = m + L + (N - n) /\ Len(r) \in Nat
    BY <1>0, <1>1 DEF Elementwise
<1>3. /\ \A k \in 0..N : e[k] \in Nat
      /\ e[0] = 0
      /\ \A k \in 1..N : e[k] = e[k - 1] + ps[k].length /\ ps[k].length \in Nat
    BY <1>0, EndsSteps, PiecesAre
<1>4. /\ \A k \in 0..L : d[k] \in Nat
      /\ d[0] = 0
      /\ \A k \in 1..L : d[k] = d[k - 1] + mid[k].length /\ mid[k].length \in Nat
    BY <1>0, EndsSteps, PiecesAre
<1>5. /\ \A k \in 1..m : r[k] = ps[k]
      /\ \A k \in 1..L : r[m + k] = mid[k]
      /\ \A k \in (m + L + 1)..(m + L + (N - n)) : r[k] = ps[k - m - L + n]
    BY <1>1 DEF Elementwise
<1>6. /\ \A k \in 0..m : g[k] = e[k]
      /\ \A k \in m..(m + L) : g[k] = e[m] + d[k - m]
      /\ \A k \in (m + L)..Len(r) : g[k] = e[k - m - L + n] - e[n] + e[m] + d[L]
    BY <1>0, ExchangedEnds
<1>7. /\ \A i, j \in 0..N : i <= j => e[i] <= e[j]
      /\ \A i, j \in 0..L : i <= j => d[i] <= d[j]
    BY <1>0, EndsInOrder
<1>8. /\ Len(t) = e[N] /\ Len(x) = d[L]
      /\ \A i \in 1..N : \A k \in 1..ps[i].length : t[e[i - 1] + k] = B(ps[i], k)
      /\ \A i \in 1..L : \A k \in 1..mid[i].length : x[d[i - 1] + k] = B(mid[i], k)
    BY DEF Spells
<1>f. Fits(r, original, added)
    <2> DEFINE In(p) == p.length > 0 /\ p.start + p.length <= Len(BufferOf(p, original, added))
    <2>1. (\A i \in 1..N : In(ps[i])) /\ (\A i \in 1..L : In(mid[i]))
        BY DEF Fits, Full
    <2> HIDE DEF In, N, L
    <2>2. ASSUME NEW i \in 1..Len(r)  PROVE In(r[i])
        <3>1. CASE i <= m
            <4>1. i \in 1..m /\ i \in 1..N
                BY <1>2, <3>1
            <4> QED
                BY <1>5, <2>1, <4>1
        <3>2. CASE i > m /\ i <= m + L
            <4>1. i - m \in 1..L /\ m + (i - m) = i
                BY <1>2, <3>2
            <4>2. r[m + (i - m)] = mid[i - m]
                BY <1>5, <4>1
            <4> QED
                BY <2>1, <4>1, <4>2
        <3>3. CASE i > m + L
            <4>1. i \in (m + L + 1)..(m + L + (N - n)) /\ i - m - L + n \in 1..N
                BY <1>2, <3>3
            <4> QED
                BY <1>5, <2>1, <4>1
        <3> QED
            BY <1>2, <3>1, <3>2, <3>3
    <2> QED
        BY <1>1, <2>2 DEF Fits, Full, In
<1> HIDE DEF N, L, e, d, g, B
<1>9. /\ e[m] \in Nat /\ e[n] \in Nat /\ e[N] \in Nat /\ d[L] \in Nat /\ e[m] <= e[n] /\ e[n] <= e[N]
    <2>1. e[m] \in Nat /\ e[n] \in Nat /\ e[N] \in Nat /\ d[L] \in Nat
        BY <1>2, <1>3, <1>4
    <2>2. m \in 0..N /\ n \in 0..N /\ N \in 0..N /\ m <= n /\ n <= N
        BY <1>2
    <2> QED
        BY <1>7, <2>1, <2>2
<1>10. e[m] \in 0..Len(t) /\ e[n] \in e[m]..Len(t)
    BY <1>8, <1>9
<1>11. u \in Seq(Char) /\ Elementwise(u, t, e[m], e[n], x)
    BY <1>0, <1>10, ExchangedIs, Zenon
<1> HIDE DEF u
<1>12. /\ Len(u) = e[m] + d[L] + (e[N] - e[n])
       /\ \A k \in 1..e[m] : u[k] = t[k]
       /\ \A k \in 1..d[L] : u[e[m] + k] = x[k]
       /\ \A k \in (e[m] + d[L] + 1)..(e[m] + d[L] + (e[N] - e[n])) : u[k] = t[k - e[m] - d[L] + e[n]]
    BY <1>8, <1>11 DEF Elementwise
<1>13. Len(u) = g[Len(r)]
    <2>1. Len(r) \in (m + L)..Len(r) /\ Len(r) - m - L + n = N
        BY <1>2
    <2>2. g[Len(r)] = e[N] - e[n] + e[m] + d[L]
        BY <1>6, <2>1
    <2>3. Len(u) = e[m] + d[L] + (e[N] - e[n])
        BY <1>12
    <2> QED
        BY <1>9, <2>2, <2>3
<1>14. ASSUME NEW i \in 1..Len(r), NEW k \in 1..r[i].length
       PROVE  u[g[i - 1] + k] = B(r[i], k)
    <2>0. i \in Nat /\ i >= 1 /\ i <= Len(r)
        BY <1>2
    <2>1. CASE i <= m
        <3>1. i \in 1..m /\ i \in 1..N /\ i - 1 \in 0..m /\ i - 1 \in 0..N /\ i \in 0..N /\ m \in 0..N
            BY <1>2, <2>0, <2>1
        <3>2. g[i - 1] = e[i - 1] /\ r[i] = ps[i]
            BY <1>5, <1>6, <3>1
        <3>3. e[i] = e[i - 1] + ps[i].length /\ ps[i].length \in Nat /\ e[i - 1] \in Nat
            BY <1>3, <3>1
        <3>a. e[i] <= e[m]
            BY <1>7, <2>1, <3>1, Zenon
        <3>4. k \in 1..ps[i].length
            BY <3>2
        <3>5. e[i - 1] + k \in 1..e[m]
            <4>1. \A a, b, c \in Nat : \A l \in 1..b : \A w : w = a + b /\ w <= c => a + l \in 1..c
                OBVIOUS
            <4> QED
                BY <1>9, <3>3, <3>4, <3>a, <4>1, Zenon
        <3>6. u[e[i - 1] + k] = t[e[i - 1] + k]
            BY <1>12, <3>5
        <3>7. t[e[i - 1] + k] = B(ps[i], k)
            BY <1>8, <3>1, <3>4
        <3> QED
            BY <3>2, <3>6, <3>7
    <2>2. CASE i > m /\ i <= m + L
        <3> DEFINE j == i - m
        <3>1. j \in 1..L /\ m + j = i /\ i - 1 - m = j - 1 /\ j - 1 \in 0..L /\ i - 1 \in m..(m + L)
              /\ j \in 0..L /\ L \in 0..L /\ j <= L
            BY <1>2, <2>0, <2>2
        <3>2. g[i - 1] = e[m] + d[j - 1]
            BY <1>6, <3>1
        <3> HIDE DEF j
        <3>3. r[i] = mid[j]
            BY <1>5, <3>1
        <3>4. d[j] = d[j - 1] + mid[j].length /\ mid[j].length \in Nat /\ d[j - 1] \in Nat
            BY <1>4, <3>1
        <3>a. d[j] <= d[L]
            BY <1>7, <3>1, Zenon
        <3>5. k \in 1..mid[j].length
            BY <3>3
        <3> DEFINE y == d[j - 1] + k
        <3>6. y \in 1..d[L] /\ e[m] + d[j - 1] + k = e[m] + y
            <4> DEFINE em == e[m]  dj == d[j]  dp == d[j - 1]  lj == mid[j].length  dL == d[L]
            <4>1. /\ em \in Nat /\ dp \in Nat /\ lj \in Nat /\ dL \in Nat /\ dj = dp + lj
                  /\ dj <= dL /\ k \in 1..lj
                BY <1>9, <3>4, <3>5, <3>a
            <4> HIDE DEF em, dj, dp, lj, dL
            <4>2. dp + k \in 1..dL /\ em + dp + k = em + (dp + k)
                BY <4>1
            <4> QED
                BY <4>2 DEF em, dj, dp, lj, dL
        <3> HIDE DEF y
        <3>7. u[e[m] + y] = x[y]
            BY <1>12, <3>6
        <3>8. x[y] = B(mid[j], k)
            BY <1>8, <3>1, <3>5 DEF y
        <3> QED
            BY <3>2, <3>3, <3>6, <3>7, <3>8
    <2>3. CASE i > m + L
        <3> DEFINE j == i - m - L + n
        <3>1. j \in 1..N /\ i - 1 - m - L + n = j - 1 /\ j - 1 \in 0..N /\ i - 1 \in (m + L)..Len(r)
              /\ i \in (m + L + 1)..(m + L + (N - n)) /\ j \in 0..N /\ n \in 0..N /\ N \in 0..N
              /\ j <= N /\ n <= j - 1
            BY <1>2, <2>0, <2>3
        <3>2. g[i - 1] = e[j - 1] - e[n] + e[m] + d[L]
            BY <1>6, <3>1
        <3>3. r[i] = ps[j]
            BY <1>5, <3>1
        <3> HIDE DEF j
        <3>4. e[j] = e[j - 1] + ps[j].length /\ ps[j].length \in Nat /\ e[j - 1] \in Nat /\ e[j] \in Nat
            BY <1>3, <3>1
        <3>a. e[j] <= e[N] /\ e[n] <= e[j - 1]
            BY <1>7, <3>1, Zenon
        <3>5. k \in 1..ps[j].length
            BY <3>3
        <3> DEFINE y == e[j - 1] - e[n] + e[m] + d[L] + k
        <3>6. /\ y \in (e[m] + d[L] + 1)..(e[m] + d[L] + (e[N] - e[n]))
              /\ y - e[m] - d[L] + e[n] = e[j - 1] + k
            <4> DEFINE ej == e[j]  en == e[n]  em == e[m]  eN == e[N]  dL == d[L]  ep == e[j - 1]  lj == ps[j].length
            <4>1. /\ en \in Nat /\ em \in Nat /\ eN \in Nat /\ dL \in Nat /\ ep \in Nat /\ lj \in Nat
                  /\ ej = ep + lj /\ ej <= eN /\ en <= ep /\ k \in 1..lj
                BY <1>9, <3>4, <3>5, <3>a
            <4> HIDE DEF ej, en, em, eN, dL, ep, lj
            <4>y. y = ep - en + em + dL + k
                BY DEF en, em, dL, ep
            <4> HIDE DEF y
            <4>2. y \in (em + dL + 1)..(em + dL + (eN - en))
                BY <4>1, <4>y
            <4>3. y - em - dL + en = ep + k
                BY <4>1, <4>y
            <4> QED
                BY <4>2, <4>3 DEF en, em, eN, dL, ep
        <3> HIDE DEF y
        <3>7. u[y] = t[y - e[m] - d[L] + e[n]]
            BY <1>12, <3>6
        <3>8. t[e[j - 1] + k] = B(ps[j], k)
            BY <1>8, <3>1, <3>5
        <3>9. g[i - 1] + k = y
            BY <3>2 DEF y
        <3> QED
            BY <3>3, <3>6, <3>7, <3>8, <3>9
    <2> QED
        BY <1>2, <2>0, <2>1, <2>2, <2>3
<1>15. Spells(r, original, added, u)
    BY <1>11, <1>13, <1>14 DEF Spells, g, B
<1> QED
    BY <1>10, <1>15, <1>f DEF u, e
-----------------------------------------------------------------------------
(***************************************************************************)
(* Seams: places where a piece merely continues its neighbour.             *)
(***************************************************************************)

\* The k-th piece is continued by the next.
SeamAt(ps, k) == k \in 1..(Len(ps) - 1) /\ Continues(ps[k], ps[k + 1])

\* Outside the part that is exchanged a list has the seams it had.
LEMMA ExchangedSeams ==
    ASSUME NEW ps \in Seq(Piece), NEW mid \in Seq(Piece),
           NEW m \in 0..Len(ps), NEW n \in m..Len(ps), NEW r, r = Exchanged(ps, m, n, mid),
           NEW k, SeamAt(r, k)
    PROVE  \/ k < m /\ SeamAt(ps, k)
           \/ k \in m..(m + Len(mid))
           \/ k > m + Len(mid) /\ SeamAt(ps, k - m - Len(mid) + n)
<1> DEFINE N == Len(ps)
           L == Len(mid)
           j == k - m - L + n
<1>1. r \in Seq(Piece) /\ Elementwise(r, ps, m, n, mid)
    BY ExchangedIs, Zenon
<1>2. /\ N \in Nat /\ L \in Nat /\ m \in Nat /\ n \in Nat /\ m <= n /\ n <= N
      /\ Len(r) = m + L + (N - n)
    BY <1>1 DEF Elementwise
<1>3. /\ \A i \in 1..m : r[i] = ps[i]
      /\ \A i \in (m + L + 1)..(m + L + (N - n)) : r[i] = ps[i - m - L + n]
    BY <1>1 DEF Elementwise
<1>4. k \in 1..(Len(r) - 1) /\ Continues(r[k], r[k + 1])
    BY DEF SeamAt
<1> HIDE DEF N, L
<1>5. k \in Nat /\ k >= 1 /\ k + 1 <= m + L + (N - n)
    BY <1>2, <1>4
<1>6. CASE k < m
    <2>1. k \in 1..m /\ k + 1 \in 1..m /\ k \in 1..(N - 1)
        BY <1>2, <1>5, <1>6
    <2>2. r[k] = ps[k] /\ r[k + 1] = ps[k + 1]
        BY <1>3, <2>1
    <2> QED
        BY <1>4, <1>6, <2>1, <2>2 DEF SeamAt, N
<1>7. CASE k > m + L
    <2>1. /\ k \in (m + L + 1)..(m + L + (N - n)) /\ k + 1 \in (m + L + 1)..(m + L + (N - n))
          /\ j \in 1..(N - 1) /\ (k + 1) - m - L + n = j + 1
        BY <1>2, <1>5, <1>7
    <2>2. r[k] = ps[j] /\ r[k + 1] = ps[j + 1]
        <3>1. r[k] = ps[k - m - L + n] /\ r[k + 1] = ps[(k + 1) - m - L + n]
            BY <1>3, <2>1
        <3> QED
            BY <2>1, <3>1
    <2>3. SeamAt(ps, j)
        BY <1>4, <2>1, <2>2 DEF SeamAt, N
    <2> QED
        BY <1>7, <2>3 DEF L
<1>8. CASE k >= m /\ k <= m + L
    <2>1. k \in m..(m + L)
        BY <1>2, <1>5, <1>8
    <2> QED
        BY <2>1 DEF L
<1> QED
    BY <1>2, <1>5, <1>6, <1>7, <1>8

\* A list of one piece, and what it spells.
LEMMA OnePiece ==
    ASSUME NEW original, NEW added, NEW p \in Piece, NEW t \in Seq(Char), Len(t) = p.length,
           p.length > 0, p.start + p.length <= Len(BufferOf(p, original, added)),
           \A k \in 1..p.length : t[k] = BufferOf(p, original, added)[p.start + k]
    PROVE  Fits(<<p>>, original, added) /\ Spells(<<p>>, original, added, t) /\ Len(<<p>>) = 1 /\ <<p>>[1] = p
<1> DEFINE mid == <<p>>
<1>1. mid \in Seq(Piece) /\ Len(mid) = 1 /\ mid[1] = p
    OBVIOUS
<1>2. p.length \in Nat
    BY DEF Piece
<1> HIDE DEF mid
<1>3. Ends(mid)[0] = 0 /\ Ends(mid)[1] = p.length
    <2>1. Ends(mid)[0] = 0 /\ \A i \in 1..1 : Ends(mid)[i] = Ends(mid)[i - 1] + mid[i].length
        BY <1>1, EndsSteps
    <2>2. Ends(mid)[1] = Ends(mid)[1 - 1] + mid[1].length
        BY <2>1
    <2> QED
        BY <1>1, <1>2, <2>1, <2>2
<1>4. Fits(mid, original, added)
    BY <1>1 DEF Fits, Full
<1>5. Spells(mid, original, added, t)
    <2>1. ASSUME NEW i \in 1..Len(mid), NEW k \in 1..mid[i].length
          PROVE  t[Ends(mid)[i - 1] + k] = BufferOf(mid[i], original, added)[mid[i].start + k]
        <3>1. i = 1 /\ mid[i] = p /\ i - 1 = 0
            BY <1>1
        <3>2. k \in 1..p.length /\ Ends(mid)[i - 1] + k = k
            BY <1>2, <1>3, <3>1
        <3> QED
            BY <3>1, <3>2
    <2> QED
        BY <1>1, <1>3, <2>1 DEF Spells
<1> QED
    BY <1>1, <1>4, <1>5 DEF mid

\* p lies in its buffer and has the text t there
PieceHas(p, original, added, t) ==
    /\ p \in Piece /\ t \in Seq(Char) /\ Len(t) = p.length
    /\ p.start + p.length <= Len(BufferOf(p, original, added))
    /\ \A k \in 1..p.length : t[k] = BufferOf(p, original, added)[p.start + k]

\* l and r are the two parts of p
Divided(p, l, r) ==
    /\ l \in Piece /\ l.source = p.source /\ l.start = p.start /\ l.length > 0
    /\ r \in Piece /\ r.source = p.source /\ r.start = p.start + l.length /\ r.length > 0
    /\ l.length + r.length = p.length

\* The two parts splitAt() makes.
LEMMA HalvesDivide ==
    ASSUME NEW p \in Piece, NEW left \in Nat, left > 0, left < p.length
    PROVE  Divided(p, [p EXCEPT !.length = left], [p EXCEPT !.start = @ + left, !.length = @ - left])
<1> DEFINE s == p.start
           n == p.length
           z == s + left
           v == n - left
           l == [p EXCEPT !.length = left]
           r == [p EXCEPT !.start = z, !.length = v]
<1>1. s \in Nat /\ n \in Nat
    BY DEF Piece
<1>2. z \in Nat /\ v \in Nat /\ v > 0 /\ left + v = n
    <2> HIDE DEF s, n
    <2>1. left < n
        BY DEF n
    <2> QED
        BY <1>1, <2>1
<1>3. l \in Piece /\ l.source = p.source /\ l.start = s /\ l.length = left
    BY DEF Piece
<1>4. r \in Piece /\ r.source = p.source /\ r.start = z /\ r.length = v
    <2> HIDE DEF z, v
    <2>1. r \in Piece
        BY <1>2 DEF Piece
    <2>2. r.source = p.source /\ r.start = z /\ r.length = v
        BY DEF Piece
    <2> QED
        BY <2>1, <2>2
<1>5. r = [p EXCEPT !.start = @ + left, !.length = @ - left]
    OBVIOUS
<1> HIDE DEF l, r
<1>6. Divided(p, l, r)
    BY <1>2, <1>3, <1>4 DEF Divided
<1> QED
    BY <1>5, <1>6 DEF l

\* A piece in two parts.
LEMMA TwoPieces ==
    ASSUME NEW original \in Seq(Char), NEW added \in Seq(Char), NEW p, NEW l, NEW r, NEW t,
           PieceHas(p, original, added, t), Divided(p, l, r), NEW mid, mid = <<l, r>>
    PROVE  /\ Fits(mid, original, added) /\ Spells(mid, original, added, t)
           /\ Len(mid) = 2 /\ mid[1] = l /\ mid[2] = r
           /\ Ends(mid)[1] = l.length /\ Ends(mid)[2] = p.length
<1> DEFINE b == BufferOf(p, original, added)
           a == l.length
           c == r.length
           s == p.start
<1>1. mid \in Seq(Piece) /\ Len(mid) = 2 /\ mid[1] = l /\ mid[2] = r
    BY DEF Divided
<1>2. a \in Nat /\ c \in Nat /\ s \in Nat /\ a > 0 /\ c > 0 /\ p.length = a + c /\ r.start = s + a /\ l.start = s
    BY DEF Piece, Divided, PieceHas
<1>3. BufferOf(l, original, added) = b /\ BufferOf(r, original, added) = b /\ Len(b) \in Nat
    BY DEF BufferOf, Divided
<1>4. s + (a + c) <= Len(b) /\ (\A k \in 1..(a + c) : t[k] = b[s + k])
    BY <1>2 DEF PieceHas
<1> HIDE DEF b
<1>5. Ends(mid)[0] = 0 /\ Ends(mid)[1] = a /\ Ends(mid)[2] = a + c
    <2>1. Ends(mid)[0] = 0 /\ \A i \in 1..2 : Ends(mid)[i] = Ends(mid)[i - 1] + mid[i].length
        BY <1>1, EndsSteps
    <2>2. Ends(mid)[1] = Ends(mid)[1 - 1] + mid[1].length /\ Ends(mid)[2] = Ends(mid)[2 - 1] + mid[2].length
        BY <2>1
    <2>3. Ends(mid)[1 - 1] = Ends(mid)[0] /\ Ends(mid)[2 - 1] = Ends(mid)[1]
        OBVIOUS
    <2> QED
        BY <1>1, <1>2, <2>1, <2>2, <2>3
<1>6. Fits(mid, original, added)
    <2>1. ASSUME NEW i \in 1..Len(mid)
          PROVE  mid[i].length > 0 /\ mid[i].start + mid[i].length <= Len(BufferOf(mid[i], original, added))
        <3>1. CASE i = 1
            <4>1. s + a <= Len(b)
                BY <1>2, <1>4
            <4> QED
                BY <1>1, <1>2, <1>3, <3>1, <4>1
        <3>2. CASE i = 2
            <4>1. (s + a) + c <= Len(b)
                BY <1>2, <1>4
            <4> QED
                BY <1>1, <1>2, <1>3, <3>2, <4>1
        <3> QED
            BY <1>1, <3>1, <3>2
    <2> QED
        BY <1>1, <2>1 DEF Fits, Full
<1>7. Spells(mid, original, added, t)
    <2>1. ASSUME NEW i \in 1..Len(mid), NEW k \in 1..mid[i].length
          PROVE  t[Ends(mid)[i - 1] + k] = BufferOf(mid[i], original, added)[mid[i].start + k]
        <3>1. CASE i = 1
            <4>1. mid[i] = l /\ i - 1 = 0 /\ mid[i].start = s
                BY <1>1, <1>2, <3>1
            <4>2. k \in 1..a /\ k \in 1..(a + c) /\ 0 + k = k
                BY <1>2, <4>1
            <4>3. t[k] = b[s + k]
                BY <1>4, <4>2
            <4> QED
                BY <1>3, <1>5, <4>1, <4>2, <4>3
        <3>2. CASE i = 2
            <4>1. mid[i] = r /\ i - 1 = 1 /\ mid[i].start = s + a
                BY <1>1, <1>2, <3>2
            <4>2. k \in 1..c
                BY <4>1
            <4>3. a + k \in 1..(a + c) /\ s + (a + k) = (s + a) + k
                <5> HIDE DEF a, c, s
                <5> QED
                    BY <1>2, <4>2
            <4>4. t[a + k] = b[(s + a) + k]
                BY <1>4, <4>3
            <4> QED
                BY <1>3, <1>5, <4>1, <4>4
        <3> QED
            BY <1>1, <3>1, <3>2
    <2>2. t \in Seq(Char) /\ Len(t) = Ends(mid)[Len(mid)]
        BY <1>1, <1>2, <1>5 DEF PieceHas
    <2> QED
        BY <2>1, <2>2 DEF Spells
<1> QED
    BY <1>1, <1>2, <1>5, <1>6, <1>7
-----------------------------------------------------------------------------
(***************************************************************************)
(* splitAt() and mergeAdjacentPiecesAt() keep the text.                    *)
(***************************************************************************)

\* an offset where a piece ends, or the text begins
IsCut(ps, c) == \E k \in 0..Len(ps) : Ends(ps)[k] = c

\* an offset where a piece is continued by the next
IsSeam(ps, c) == \E k : SeamAt(ps, k) /\ Ends(ps)[k] = c

\* What splitAt() promises: the text is the same, offset is a cut, the old cuts
\* are still there and the only new seam is at the offset.
SplitWell(q, ps, off, original, added, t) ==
    /\ Fits(q, original, added) /\ Spells(q, original, added, t)
    /\ IsCut(q, off)
    /\ \A c : IsCut(ps, c) => IsCut(q, c)
    /\ \A c : IsSeam(q, c) => c = off \/ IsSeam(ps, c)

\* splitAt() keeps that promise.
LEMMA SplitKeeps ==
    ASSUME NEW original \in Seq(Char), NEW added \in Seq(Char), NEW ps, NEW t,
           Fits(ps, original, added), Spells(ps, original, added, t), NEW off \in 0..Len(t)
    PROVE  SplitWell(SplitAt(ps, off), ps, off, original, added, t)
<1> DEFINE N == Len(ps)
           e == Ends(ps)
           i == SplitIndex(ps, off)
           q == SplitAt(ps, off)
           left == ps[i].length - (e[i] - off)
           l == [ps[i] EXCEPT !.length = left]
           r == [ps[i] EXCEPT !.start = @ + left, !.length = @ - left]
           mid == <<l, r>>
<1>1. ps \in Seq(Piece) /\ Full(ps) /\ t \in Seq(Char) /\ Len(t) = e[N]
    BY DEF Fits, Spells
<1>2. i \in 0..N /\ e[i] >= off /\ \A j \in 0..(i - 1) : e[j] < off
    BY <1>1, SplitIndexIs
<1>3. /\ N \in Nat /\ e[0] = 0
      /\ \A k \in 0..N : e[k] \in Nat
      /\ \A k \in 1..N : e[k] = e[k - 1] + ps[k].length
    BY <1>1, EndsSteps
<1>4. CASE off = e[i]
    <2>1. q = ps
        BY <1>4 DEF SplitAt
    <2>2. IsCut(ps, off)
        BY <1>2, <1>4 DEF IsCut
    <2> HIDE DEF q
    <2> QED
        BY <2>1, <2>2 DEF SplitWell, q
<1>5. CASE off # e[i]
    <2>1. q = Exchanged(ps, i - 1, i, mid)
        BY <1>5 DEF SplitAt, Exchanged
    <2> DEFINE p == ps[i]
               ep == e[i - 1]
               ei == e[i]
               pl == p.length
    <2>2. i \in 1..N
        <3>1. i # 0
            BY <1>2, <1>3, <1>5
        <3> QED
            BY <1>2, <1>3, <3>1
    <2>3. i - 1 \in 0..N /\ i \in (i - 1)..N /\ i - 1 \in 0..(i - 1) /\ i \in 0..N /\ i \in Nat
        BY <1>3, <2>2
    <2>4. p \in Piece /\ p.start \in Nat /\ pl \in Nat
        BY <1>1, <2>2, PiecesAre
    <2>5. ep \in Nat /\ ei \in Nat /\ ei = ep + pl /\ ep < off /\ off < ei
        <3>1. ep \in Nat /\ ei \in Nat
            BY <1>3, <2>3
        <3>2. ei = ep + pl
            BY <1>3, <2>2
        <3>3. ep < off
            BY <1>2, <2>3
        <3>4. ei >= off /\ ei # off
            BY <1>2, <1>5
        <3> HIDE DEF ep, ei
        <3> QED
            BY <3>1, <3>2, <3>3, <3>4
    <2>6. left \in Nat /\ left = off - ep /\ left > 0 /\ pl - left \in Nat /\ pl - left > 0
        <3>1. left = pl - (ei - off)
            OBVIOUS
        <3> HIDE DEF left, ep, ei, pl
        <3> QED
            BY <2>4, <2>5, <3>1
    <2> HIDE DEF left
    <2>d. Divided(p, l, r)
        <3>1. left < p.length
            <4> HIDE DEF pl
            <4>1. left < pl
                BY <2>4, <2>6
            <4> QED
                BY <4>1 DEF pl
        <3> HIDE DEF p
        <3> QED
            BY <2>4, <2>6, <3>1, HalvesDivide DEF p
    <2>7. /\ l.source = p.source /\ l.start = p.start /\ l.length = left
          /\ r.source = p.source /\ r.start = p.start + left /\ r.length = pl - left
        <3>1. l.length = left
            BY <2>4 DEF Piece
        <3> HIDE DEF l, r
        <3>2. l.length + r.length = pl /\ r.length \in Nat
            BY <2>d DEF Divided, Piece
        <3> HIDE DEF p, pl
        <3> QED
            BY <2>4, <2>6, <2>d, <3>1, <3>2 DEF Divided
    <2> DEFINE x == SubSeq(t, ep + 1, ei)
    <2>8. ep \in 0..Len(t) /\ ei \in ep..Len(t)
        <3>1. ei <= e[N]
            BY <1>1, <1>3, <2>3, EndsInOrder
        <3>2. e[N] \in Nat
            BY <1>3
        <3> HIDE DEF ep, ei
        <3> QED
            BY <1>1, <2>5, <3>1, <3>2
    <2>9. /\ x \in Seq(Char) /\ Len(x) = ei - ep
          /\ \A k \in 1..(ei - ep) : x[k] = t[ep + k]
          /\ Exchanged(t, ep, ei, x) = t
        BY <1>1, <2>8, ExchangedForItself
    <2>10. /\ Fits(mid, original, added) /\ Spells(mid, original, added, x)
           /\ Len(mid) = 2 /\ mid[1] = l /\ mid[2] = r
           /\ Ends(mid)[1] = left /\ Ends(mid)[2] = pl
        <3>1. pl = ei - ep
            <4> HIDE DEF pl, ei, ep
            <4> QED
                BY <2>4, <2>5
        <3>2. \A k \in 1..p.length : x[k] = BufferOf(p, original, added)[p.start + k]
            <4>1. \A k \in 1..pl : t[ep + k] = BufferOf(p, original, added)[p.start + k]
                BY <2>2 DEF Spells
            <4>2. \A k \in 1..pl : x[k] = t[ep + k]
                BY <2>9, <3>1
            <4> QED
                BY <4>1, <4>2
        <3>3. p.start + p.length <= Len(BufferOf(p, original, added))
            BY <2>2 DEF Fits
        <3>4. Len(x) = p.length
            BY <2>9, <3>1
        <3>m. mid = <<l, r>>
            OBVIOUS
        <3> HIDE DEF x, l, r, p, mid
        <3>5. PieceHas(p, original, added, x)
            BY <2>4, <2>9, <3>2, <3>3, <3>4 DEF PieceHas
        <3>6. /\ Fits(mid, original, added) /\ Spells(mid, original, added, x)
              /\ Len(mid) = 2 /\ mid[1] = l /\ mid[2] = r
              /\ Ends(mid)[1] = l.length /\ Ends(mid)[2] = p.length
            BY <2>d, <3>5, <3>m, TwoPieces
        <3> QED
            BY <2>7, <3>6, Zenon
    <2> HIDE DEF l, r, mid, q, x
    <2>11. Fits(q, original, added) /\ Spells(q, original, added, t)
        <3>1. Fits(q, original, added) /\ Spells(q, original, added, Exchanged(t, e[i - 1], e[i], x))
            <4> HIDE DEF e, i
            <4> QED
                BY <2>1, <2>3, <2>10, ExchangedPieces DEF e
        <3> QED
            BY <2>9, <3>1
    <2>12. mid \in Seq(Piece) /\ q \in Seq(Piece)
        BY <2>10, <2>11 DEF Fits
    <2>13. /\ Len(q) = N + 1
           /\ \A k \in 0..(i - 1) : Ends(q)[k] = e[k]
           /\ Ends(q)[i] = off
           /\ \A k \in (i + 1)..(N + 1) : Ends(q)[k] = e[k - 1]
        <3>0. Elementwise(q, ps, i - 1, i, mid)
            BY <1>1, <2>1, <2>3, <2>12, ExchangedIs, Zenon
        <3>1. Len(q) = N + 1
            BY <1>3, <2>3, <2>10, <3>0 DEF Elementwise
        <3>2. /\ \A k \in 0..(i - 1) : Ends(q)[k] = e[k]
              /\ \A k \in (i - 1)..(i - 1 + 2) : Ends(q)[k] = e[i - 1] + Ends(mid)[k - (i - 1)]
              /\ \A k \in (i - 1 + 2)..Len(q) : Ends(q)[k] = e[k - (i - 1) - 2 + i] - e[i] + e[i - 1] + Ends(mid)[2]
            <4> DEFINE m == i - 1
            <4>0. m \in 0..Len(ps) /\ i \in m..Len(ps) /\ q = Exchanged(ps, m, i, mid)
                BY <2>1, <2>3
            <4> HIDE DEF i, m
            <4>1. /\ \A k \in 0..m : Ends(q)[k] = Ends(ps)[k]
                  /\ \A k \in m..(m + Len(mid)) : Ends(q)[k] = Ends(ps)[m] + Ends(mid)[k - m]
                  /\ \A k \in (m + Len(mid))..Len(q) :
                        Ends(q)[k] = Ends(ps)[k - m - Len(mid) + i] - Ends(ps)[i] + Ends(ps)[m] + Ends(mid)[Len(mid)]
                BY <1>1, <2>12, <4>0, ExchangedEnds
            <4> QED
                BY <2>10, <4>1 DEF m
        <3>3. Ends(q)[i] = off
            <4>1. i \in (i - 1)..(i - 1 + 2) /\ i - (i - 1) = 1
                BY <2>3
            <4>2. Ends(q)[i] = ep + left
                BY <2>10, <3>2, <4>1
            <4> HIDE DEF ep
            <4> QED
                BY <2>5, <2>6, <4>2
        <3>4. ASSUME NEW k \in (i + 1)..(N + 1)  PROVE Ends(q)[k] = e[k - 1]
            <4>1. k \in (i - 1 + 2)..Len(q) /\ k - (i - 1) - 2 + i = k - 1 /\ k - 1 \in 0..N
                BY <1>3, <2>3, <3>1
            <4> DEFINE w == e[k - 1]
            <4>2. Ends(q)[k] = w - ei + ep + pl /\ w \in Nat
                BY <1>3, <2>10, <3>2, <4>1
            <4> HIDE DEF w, ei, ep, pl
            <4>3. Ends(q)[k] = w
                BY <2>4, <2>5, <4>2
            <4> QED
                BY <4>3 DEF w
        <3> QED
            BY <3>1, <3>2, <3>3, <3>4
    <2>14. IsCut(q, off)
        <3>1. i \in 0..Len(q)
            BY <1>3, <2>3, <2>13
        <3> QED
            BY <2>13, <3>1 DEF IsCut
    <2>15. ASSUME NEW c, IsCut(ps, c)  PROVE IsCut(q, c)
        <3>1. PICK k \in 0..N : e[k] = c
            BY <2>15 DEF IsCut
        <3>2. CASE k <= i - 1
            <4>1. k \in 0..(i - 1) /\ k \in 0..Len(q)
                BY <1>3, <2>3, <2>13, <3>2
            <4> QED
                BY <2>13, <3>1, <4>1 DEF IsCut
        <3>3. CASE k > i - 1
            <4>1. k + 1 \in (i + 1)..(N + 1) /\ k + 1 \in 0..Len(q) /\ (k + 1) - 1 = k
                BY <1>3, <2>3, <2>13, <3>3
            <4>2. Ends(q)[k + 1] = c
                BY <2>13, <3>1, <4>1
            <4> QED
                BY <4>1, <4>2 DEF IsCut
        <3> QED
            BY <2>3, <3>2, <3>3
    <2>16. ASSUME NEW c, IsSeam(q, c)  PROVE c = off \/ IsSeam(ps, c)
        <3>1. PICK k : SeamAt(q, k) /\ Ends(q)[k] = c
            BY <2>16 DEF IsSeam
        <3>2. k \in 1..N /\ Continues(q[k], q[k + 1])
            BY <1>3, <2>13, <3>1 DEF SeamAt
        <3>3. /\ \A j \in 1..(i - 1) : q[j] = ps[j]
              /\ q[i] = l /\ q[i + 1] = r
              /\ \A j \in (i + 2)..(N + 1) : q[j] = ps[j - 1]
            <4>1. Elementwise(q, ps, i - 1, i, mid)
                BY <1>1, <2>1, <2>3, <2>12, ExchangedIs, Zenon
            <4>2. /\ \A j \in 1..(i - 1) : q[j] = ps[j]
                  /\ \A j \in 1..2 : q[i - 1 + j] = mid[j]
                  /\ \A j \in (i - 1 + 2 + 1)..(i - 1 + 2 + (N - i)) : q[j] = ps[j - (i - 1) - 2 + i]
                BY <2>10, <4>1 DEF Elementwise
            <4>3. i - 1 + 1 = i /\ i - 1 + 2 = i + 1
                BY <2>3
            <4>4. q[i - 1 + 1] = l /\ q[i - 1 + 2] = r
                BY <2>10, <4>2
            <4>5. ASSUME NEW j \in (i + 2)..(N + 1)  PROVE q[j] = ps[j - 1]
                <5> HIDE DEF i
                <5>1. j \in (i - 1 + 2 + 1)..(i - 1 + 2 + (N - i)) /\ j - (i - 1) - 2 + i = j - 1
                    <6>1. i \in Nat /\ N \in Nat
                        BY <1>3, <2>3
                    <6> HIDE DEF N
                    <6> QED
                        BY <6>1
                <5> QED
                    BY <4>2, <5>1
            <4> QED
                BY <4>2, <4>3, <4>4, <4>5
        <3> HIDE DEF i
        <3>4. CASE k < i
            <4>1. k \in 1..(i - 1) /\ k \in 0..(i - 1) /\ k \in 1..(N - 1)
                BY <1>3, <2>2, <3>2, <3>4
            <4>2. q[k] = ps[k] /\ Ends(q)[k] = e[k]
                BY <2>13, <3>3, <4>1
            <4>3. Continues(ps[k], ps[k + 1])
                <5>1. CASE k + 1 = i
                    BY <2>7, <3>2, <3>3, <4>2, <5>1 DEF Continues
                <5>2. CASE k + 1 # i
                    <6>1. k + 1 \in 1..(i - 1)
                        BY <2>3, <4>1, <5>2
                    <6> QED
                        BY <3>2, <3>3, <4>2, <6>1
                <5> QED
                    BY <5>1, <5>2
            <4> QED
                BY <3>1, <4>1, <4>2, <4>3 DEF IsSeam, SeamAt
        <3>5. CASE k = i
            BY <2>13, <3>1, <3>5
        <3>6. CASE k > i
            <4>1. k \in (i + 1)..(N + 1) /\ k + 1 \in (i + 2)..(N + 1) /\ k - 1 \in 1..(N - 1) /\ (k + 1) - 1 = k
                  /\ (k - 1) + 1 = k
                BY <1>3, <2>3, <3>2, <3>6
            <4>2. q[k + 1] = ps[k] /\ Ends(q)[k] = e[k - 1]
                BY <2>13, <3>3, <4>1
            <4>3. Continues(ps[k - 1], ps[k])
                <5>1. CASE k = i + 1
                    <6>1. k - 1 = i /\ q[k] = r
                        BY <2>3, <3>3, <5>1
                    <6>2. r.start + r.length = p.start + p.length
                        <7> DEFINE st == p.start
                        <7>1. r.start = st + left /\ r.length = pl - left /\ st \in Nat
                            BY <2>4, <2>7
                        <7> HIDE DEF st, pl
                        <7>2. r.start + r.length = st + pl
                            BY <2>4, <2>6, <7>1
                        <7> QED
                            BY <7>2 DEF st, pl
                    <6> QED
                        BY <2>7, <3>2, <4>2, <6>1, <6>2 DEF Continues
                <5>2. CASE k # i + 1
                    <6>1. k \in (i + 2)..(N + 1)
                        BY <2>3, <4>1, <5>2
                    <6> QED
                        BY <3>2, <3>3, <4>2, <6>1
                <5> QED
                    BY <5>1, <5>2
            <4>4. SeamAt(ps, k - 1) /\ Ends(ps)[k - 1] = c
                BY <3>1, <4>1, <4>2, <4>3 DEF SeamAt
            <4> QED
                BY <4>4 DEF IsSeam
        <3> QED
            BY <2>3, <3>2, <3>4, <3>5, <3>6
    <2> QED
        BY <2>11, <2>14, <2>15, <2>16 DEF SplitWell, q
<1> QED
    BY <1>4, <1>5

\* What joining a piece with the one that continues it promises: the text is
\* the same, that seam is gone and there is no new one.
JoinedWell(q, ps, k, original, added, t) ==
    /\ Fits(q, original, added) /\ Spells(q, original, added, t)
    /\ Len(q) = Len(ps) - 1
    /\ \A c : SeamAt(q, c) => \/ c < k /\ SeamAt(ps, c)
                              \/ c >= k /\ SeamAt(ps, c + 1)

\* So it does.
LEMMA JoinedKeeps ==
    ASSUME NEW original \in Seq(Char), NEW added \in Seq(Char), NEW ps, NEW t,
           Fits(ps, original, added), Spells(ps, original, added, t), NEW k, SeamAt(ps, k)
    PROVE  JoinedWell(Joined(ps, k), ps, k, original, added, t)
<1> DEFINE N == Len(ps)
           e == Ends(ps)
           q == Joined(ps, k)
           p1 == ps[k]
           p2 == ps[k + 1]
           l1 == p1.length
           l2 == p2.length
           st == p1.start
           w == [p1 EXCEPT !.length = @ + p2.length]
           mid == <<w>>
           b == BufferOf(p1, original, added)
           e0 == e[k - 1]
           e1 == e[k]
           e2 == e[k + 1]
           x == SubSeq(t, e0 + 1, e2)
<1>1. ps \in Seq(Piece) /\ Full(ps) /\ t \in Seq(Char) /\ Len(t) = e[N]
    BY DEF Fits, Spells
<1>2. k \in 1..(N - 1) /\ Continues(p1, p2)
    BY DEF SeamAt
<1>3. /\ N \in Nat
      /\ \A i \in 0..N : e[i] \in Nat
      /\ \A i \in 1..N : e[i] = e[i - 1] + ps[i].length
    BY <1>1, EndsSteps
<1>4. /\ k \in Nat /\ k + 1 <= N /\ k \in 1..N /\ k + 1 \in 1..N /\ k - 1 \in 0..N /\ k + 1 \in (k - 1)..N
      /\ k + 1 \in 0..N /\ k \in 0..N /\ (k + 1) + 1 = k + 2 /\ (k + 1) - 1 = k
    BY <1>2, <1>3
<1>5. q = Exchanged(ps, k - 1, k + 1, mid)
    BY <1>2, <1>4 DEF Joined, Exchanged
<1>6. p1 \in Piece /\ p2 \in Piece /\ st \in Nat /\ l1 \in Nat /\ l2 \in Nat /\ l1 > 0 /\ l2 > 0
    BY <1>1, <1>4, PiecesAre DEF Full
<1>7. p1.source = p2.source /\ p2.start = st + l1
    BY <1>2 DEF Continues
<1>8. w \in Piece /\ w.source = p1.source /\ w.start = st /\ w.length = l1 + l2
    <2>1. p1 = [source |-> p1.source, start |-> p1.start, length |-> p1.length] /\ p1.source \in {"Original", "Add"}
        BY <1>6 DEF Piece
    <2>2. w = [source |-> p1.source, start |-> p1.start, length |-> l1 + l2]
        BY <1>6 DEF Piece
    <2>3. l1 + l2 \in Nat
        BY <1>6
    <2> HIDE DEF w, p1, p2
    <2> QED
        BY <1>6, <2>1, <2>2, <2>3 DEF Piece
<1>9. e0 \in Nat /\ e1 = e0 + l1 /\ e2 = e1 + l2 /\ e1 \in Nat /\ e2 \in Nat
    BY <1>3, <1>4
<1>10. e0 \in 0..Len(t) /\ e2 \in e0..Len(t)
    <2>0. N \in 0..N /\ k + 1 \in 0..N /\ k + 1 <= N
        BY <1>3, <1>4
    <2>1. e2 <= e[N]
        BY <1>1, <2>0, EndsInOrder
    <2> DEFINE eN == e[N]
    <2>2. eN \in Nat /\ Len(t) = eN /\ e2 <= eN
        BY <1>1, <1>3, <2>0, <2>1
    <2> HIDE DEF e0, e1, e2, l1, l2, eN
    <2>3. e0 \in 0..eN /\ e2 \in e0..eN
        BY <1>6, <1>9, <2>2
    <2> QED
        BY <2>2, <2>3
<1>11. /\ x \in Seq(Char) /\ Len(x) = e2 - e0
       /\ \A j \in 1..(e2 - e0) : x[j] = t[e0 + j]
       /\ Exchanged(t, e0, e2, x) = t
    BY <1>1, <1>10, ExchangedForItself
<1>12. e2 - e0 = l1 + l2
    <2> HIDE DEF e0, e1, e2, l1, l2
    <2> QED
        BY <1>6, <1>9
<1>13. BufferOf(w, original, added) = b /\ BufferOf(p2, original, added) = b /\ Len(b) \in Nat
    <2> HIDE DEF w
    <2> QED
        BY <1>7, <1>8 DEF BufferOf
<1> HIDE DEF w, x, b
<1>14. /\ \A j \in 1..l1 : t[e0 + j] = b[st + j]
       /\ \A j \in 1..l2 : t[e1 + j] = b[(st + l1) + j]
    <2>1. \A j \in 1..l1 : t[e0 + j] = b[st + j]
        BY <1>4 DEF Spells, b
    <2>2. \A j \in 1..l2 : t[e[(k + 1) - 1] + j] = BufferOf(p2, original, added)[p2.start + j]
        BY <1>4 DEF Spells
    <2> QED
        BY <1>4, <1>7, <1>13, <2>1, <2>2
<1>15. /\ Fits(mid, original, added) /\ Spells(mid, original, added, x)
       /\ Len(mid) = 1 /\ mid[1] = w
    <2>1. w.start + w.length <= Len(BufferOf(w, original, added))
        <3>1. p2.start + l2 <= Len(b)
            BY <1>4, <1>13 DEF Fits
        <3> HIDE DEF p1, p2, l1, l2, st
        <3>2. (st + l1) + l2 <= Len(b)
            BY <1>7, <3>1
        <3>3. st + (l1 + l2) <= Len(b)
            BY <1>6, <1>13, <3>2
        <3> QED
            BY <1>8, <1>13, <3>3
    <2>2. ASSUME NEW j \in 1..w.length
          PROVE  x[j] = BufferOf(w, original, added)[w.start + j]
        <3> HIDE DEF p1, p2, l1, l2, st, e0, e1, e2
        <3>1. j \in 1..(l1 + l2) /\ x[j] = t[e0 + j]
            BY <1>8, <1>11, <1>12
        <3>2. CASE j <= l1
            <4>1. j \in 1..l1
                BY <1>6, <3>1, <3>2
            <4> QED
                BY <1>8, <1>13, <1>14, <3>1, <4>1
        <3>3. CASE ~(j <= l1)
            <4> DEFINE i == j - l1
            <4>1. i \in 1..l2 /\ e1 + i = e0 + j /\ (st + l1) + i = st + j
                BY <1>6, <1>9, <3>1, <3>3
            <4> HIDE DEF i
            <4>2. t[e0 + j] = b[st + j]
                BY <1>14, <4>1
            <4> QED
                BY <1>8, <1>13, <3>1, <4>2
        <3> QED
            BY <3>2, <3>3
    <2>3. Len(x) = w.length /\ w.length > 0
        <3> HIDE DEF p1, p2, l1, l2, st, e0, e1, e2
        <3> QED
            BY <1>6, <1>8, <1>11, <1>12
    <2> QED
        BY <1>8, <1>11, <2>1, <2>2, <2>3, OnePiece
<1> HIDE DEF q, mid
<1>16. Fits(q, original, added) /\ Spells(q, original, added, t)
    <2>1. Fits(q, original, added) /\ Spells(q, original, added, Exchanged(t, e[k - 1], e[k + 1], x))
        <3> HIDE DEF e
        <3> QED
            BY <1>4, <1>5, <1>15, ExchangedPieces DEF e
    <2> QED
        BY <1>11, <2>1
<1>17. mid \in Seq(Piece)
    BY <1>15 DEF Fits
<1>18. Elementwise(q, ps, k - 1, k + 1, mid)
    BY <1>1, <1>4, <1>5, <1>17, ExchangedIs, Zenon
<1>19. /\ Len(q) = N - 1
       /\ \A j \in 1..(k - 1) : q[j] = ps[j]
       /\ q[k] = w
       /\ \A j \in (k + 1)..(N - 1) : q[j] = ps[j + 1]
    <2>1. /\ Len(q) = (k - 1) + 1 + (N - (k + 1))
          /\ \A j \in 1..(k - 1) : q[j] = ps[j]
          /\ \A j \in 1..1 : q[(k - 1) + j] = mid[j]
          /\ \A j \in ((k - 1) + 1 + 1)..((k - 1) + 1 + (N - (k + 1))) : q[j] = ps[j - (k - 1) - 1 + (k + 1)]
        BY <1>15, <1>18 DEF Elementwise
    <2>2. q[(k - 1) + 1] = w /\ (k - 1) + 1 = k
        BY <1>4, <1>15, <2>1
    <2>3. ASSUME NEW j \in (k + 1)..(N - 1)  PROVE q[j] = ps[j + 1]
        <3>1. j \in ((k - 1) + 1 + 1)..((k - 1) + 1 + (N - (k + 1))) /\ j - (k - 1) - 1 + (k + 1) = j + 1
            BY <1>3, <1>4
        <3> QED
            BY <2>1, <3>1
    <2>4. Len(q) = N - 1
        BY <1>3, <1>4, <2>1
    <2> QED
        BY <2>1, <2>2, <2>3, <2>4
<1>20. ASSUME NEW c, SeamAt(q, c)
       PROVE  (c < k /\ SeamAt(ps, c)) \/ (c >= k /\ SeamAt(ps, c + 1))
    <2>1. c \in 1..(N - 2) /\ Continues(q[c], q[c + 1])
        BY <1>3, <1>19, <1>20 DEF SeamAt
    <2>2. CASE c < k
        <3>1. c \in 1..(k - 1) /\ c \in 1..(N - 1)
            BY <1>3, <1>4, <2>1, <2>2
        <3>2. q[c] = ps[c]
            BY <1>19, <3>1
        <3>3. Continues(ps[c], ps[c + 1])
            <4>1. CASE c + 1 = k
                BY <1>8, <1>19, <2>1, <3>2, <4>1 DEF Continues
            <4>2. CASE c + 1 # k
                <5>1. c + 1 \in 1..(k - 1)
                    BY <1>4, <3>1, <4>2
                <5> QED
                    BY <1>19, <2>1, <3>2, <5>1
            <4> QED
                BY <4>1, <4>2
        <3> QED
            BY <2>2, <3>1, <3>3 DEF SeamAt
    <2>3. CASE ~(c < k)
        <3>1. c + 1 \in (k + 1)..(N - 1) /\ c + 1 \in 1..(N - 1) /\ c >= k
            BY <1>3, <1>4, <2>1, <2>3
        <3>2. q[c + 1] = ps[(c + 1) + 1]
            BY <1>19, <3>1
        <3>3. Continues(ps[c + 1], ps[(c + 1) + 1])
            <4>1. CASE c = k
                <5>1. w.start + w.length = p2.start + p2.length
                    <6> HIDE DEF p1, p2, st
                    <6>1. w.start + w.length = st + (l1 + l2) /\ p2.start + l2 = (st + l1) + l2
                        BY <1>7, <1>8
                    <6> HIDE DEF l1
                    <6>2. st + (l1 + l2) = (st + l1) + l2
                        <7> HIDE DEF l2
                        <7> QED
                            BY <1>6
                    <6> QED
                        BY <6>1, <6>2
                <5>2. w.source = p2.source /\ q[c] = w /\ ps[c + 1] = p2
                    BY <1>7, <1>8, <1>19, <4>1
                <5> HIDE DEF p2
                <5> QED
                    BY <2>1, <3>2, <5>1, <5>2 DEF Continues
            <4>2. CASE c # k
                <5>1. c \in (k + 1)..(N - 1)
                    BY <1>3, <1>4, <2>1, <3>1, <4>2
                <5> QED
                    BY <1>19, <2>1, <3>2, <5>1
            <4> QED
                BY <4>1, <4>2
        <3> QED
            BY <3>1, <3>3 DEF SeamAt
    <2> QED
        BY <2>2, <2>3
<1> QED
    BY <1>16, <1>19, <1>20 DEF JoinedWell, q

\* No piece merely continues its neighbour.
Whole(ps) == \A k : ~SeamAt(ps, k)

\* mergeAdjacentPiecesAt() removes the seams on both sides of a piece.
LEMMA MergedKeeps ==
    ASSUME NEW original \in Seq(Char), NEW added \in Seq(Char), NEW ps, NEW t,
           Fits(ps, original, added), Spells(ps, original, added, t),
           NEW i \in 1..(Len(ps) + 1), \A c : SeamAt(ps, c) => c = i - 1 \/ c = i
    PROVE  /\ Fits(MergedAt(ps, i), original, added) /\ Spells(MergedAt(ps, i), original, added, t)
           /\ Whole(MergedAt(ps, i))
<1> DEFINE N == Len(ps)
           Good(q) == Fits(q, original, added) /\ Spells(q, original, added, t)
           k == IF i <= N THEN i ELSE N
           merged == Joined(ps, k - 1)
           q == Joined(merged, IF Len(merged) < N THEN k - 1 ELSE k)
<1>0. N \in Nat /\ i \in Nat /\ i >= 1 /\ i <= N + 1
    BY DEF Fits
<1>1. MergedAt(ps, i) = q
    BY DEF MergedAt
<1>2. ASSUME NEW r, Good(r), NEW c, ~SeamAt(r, c)
      PROVE  Joined(r, c) = r
    BY <1>2 DEF SeamAt, Joined
<1>3. ASSUME NEW r, Good(r), NEW j \in Nat, \A c : SeamAt(r, c) => c = j
      PROVE  Good(Joined(r, j)) /\ Whole(Joined(r, j))
    <2>1. CASE SeamAt(r, j)
        <3> DEFINE z == Joined(r, j)
        <3>1. JoinedWell(z, r, j, original, added, t)
            BY <1>3, <2>1, JoinedKeeps
        <3> HIDE DEF z
        <3>2. ASSUME NEW c, SeamAt(z, c)  PROVE FALSE
            <4>1. \/ c < j /\ SeamAt(r, c)
                  \/ c >= j /\ SeamAt(r, c + 1)
                BY <3>1, <3>2 DEF JoinedWell
            <4>2. c \in Int
                BY <3>2 DEF SeamAt
            <4> QED
                BY <1>3, <4>1, <4>2
        <3> QED
            BY <3>1, <3>2 DEF JoinedWell, Whole, z
    <2>2. CASE ~SeamAt(r, j)
        BY <1>2, <1>3, <2>2 DEF Whole
    <2> QED
        BY <2>1, <2>2
<1>4. CASE i <= N /\ SeamAt(ps, i - 1)
    <2>1. k = i
        BY <1>4
    <2>2. JoinedWell(merged, ps, i - 1, original, added, t)
        BY <1>4, <2>1, JoinedKeeps
    <2>3. Len(merged) < N
        BY <1>0, <2>2 DEF JoinedWell
    <2>4. q = Joined(merged, i - 1)
        BY <2>1, <2>3
    <2> HIDE DEF merged, q
    <2>5. ASSUME NEW c, SeamAt(merged, c)  PROVE c = i - 1
        <3>1. \/ c < i - 1 /\ SeamAt(ps, c)
              \/ c >= i - 1 /\ SeamAt(ps, c + 1)
            BY <2>2, <2>5 DEF JoinedWell
        <3>2. c \in Int
            BY <2>5 DEF SeamAt
        <3> QED
            BY <1>0, <3>1, <3>2
    <2>6. i - 1 \in Nat /\ Good(merged)
        BY <1>0, <2>2 DEF JoinedWell
    <2> HIDE DEF Good
    <2>7. Good(q) /\ Whole(q)
        BY <1>3, <2>4, <2>5, <2>6
    <2> QED
        BY <1>1, <2>7 DEF Good
<1>5. CASE i <= N /\ ~SeamAt(ps, i - 1)
    <2>1. k = i
        BY <1>5
    <2>2. merged = ps
        BY <1>2, <1>5, <2>1
    <2>3. q = Joined(ps, i)
        BY <1>0, <2>1, <2>2
    <2>4. \A c : SeamAt(ps, c) => c = i
        BY <1>5
    <2> HIDE DEF q, Good
    <2>5. Good(ps)
        BY DEF Good
    <2>6. Good(q) /\ Whole(q)
        BY <1>0, <1>3, <2>3, <2>4, <2>5
    <2> QED
        BY <1>1, <2>6 DEF Good
<1>6. CASE ~(i <= N)
    <2>1. \A c : ~SeamAt(ps, c)
        <3> SUFFICES ASSUME NEW c, SeamAt(ps, c) PROVE FALSE
            OBVIOUS
        <3>1. c \in 1..(N - 1) /\ (c = i - 1 \/ c = i)
            BY DEF SeamAt
        <3> QED
            BY <1>0, <1>6, <3>1
    <2>2. merged = ps
        BY <1>2, <2>1
    <2>3. q = ps
        BY <1>2, <2>1, <2>2
    <2> QED
        BY <1>1, <2>1, <2>3 DEF Whole
<1> QED
    BY <1>4, <1>5, <1>6
-----------------------------------------------------------------------------
(***************************************************************************)
(* Erasing and inserting.                                                  *)
(***************************************************************************)

\* ps is in order: its pieces lie in their buffers, spell t and leave no seam.
Tidy(ps, original, added, t) ==
    Fits(ps, original, added) /\ Spells(ps, original, added, t) /\ Whole(ps)

\* No pieces spell no text.
LEMMA NoPieces ==
    ASSUME NEW original, NEW added
    PROVE  Tidy(<<>>, original, added, <<>>)
<1>1. <<>> \in Seq(Piece) /\ <<>> \in Seq(Char) /\ Len(<<>>) = 0
    OBVIOUS
<1>2. Ends(<<>>)[0] = 0
    BY <1>1, EndsSteps
<1>3. Fits(<<>>, original, added)
    BY <1>1 DEF Fits, Full
<1>4. Spells(<<>>, original, added, <<>>)
    BY <1>1, <1>2 DEF Spells
<1>5. Whole(<<>>)
    BY <1>1 DEF Whole, SeamAt
<1> QED
    BY <1>3, <1>4, <1>5 DEF Tidy

\* A list of one piece has no seam.
LEMMA OneIsWhole ==
    ASSUME NEW ps, Len(ps) = 1
    PROVE  Whole(ps)
    BY DEF Whole, SeamAt

\* eraseNoVersionBump()
LEMMA ErasedKeeps ==
    ASSUME NEW original \in Seq(Char), NEW added \in Seq(Char), NEW ps, NEW t,
           Tidy(ps, original, added, t), NEW s \in 0..Len(t), NEW e \in s..Len(t)
    PROVE  Tidy(Erased(ps, s, e), original, added, Exchanged(t, s, e, <<>>))
<1> DEFINE atStart == SplitAt(ps, s)
           both == SplitAt(atStart, e)
           i == SplitIndex(both, s)
           j == SplitIndex(both, e)
           N == Len(both)
           g == Ends(both)
           r == SubSeq(both, 1, i) \o SubSeq(both, j + 1, N)
<1>0. t \in Seq(Char) /\ s \in Nat /\ e \in Nat /\ s <= e /\ e \in 0..Len(t)
    BY DEF Tidy, Spells
<1>1. Erased(ps, s, e) = MergedAt(r, i + 1)
    BY DEF Erased
<1>2. SplitWell(atStart, ps, s, original, added, t)
    BY SplitKeeps DEF Tidy
<1> HIDE DEF atStart
<1>3. SplitWell(both, atStart, e, original, added, t)
    BY <1>0, <1>2, SplitKeeps DEF SplitWell
<1> HIDE DEF both
<1>4. /\ Fits(both, original, added) /\ Spells(both, original, added, t)
      /\ IsCut(both, s) /\ IsCut(both, e)
      /\ \A c : IsSeam(both, c) => c = s \/ c = e
    <2>1. \A c : ~IsSeam(ps, c)
        BY DEF Tidy, Whole, IsSeam
    <2> QED
        BY <1>2, <1>3, <2>1 DEF SplitWell
<1>5. both \in Seq(Piece) /\ Full(both) /\ N \in Nat
    BY <1>4 DEF Fits
<1>6. i \in 0..N /\ g[i] = s
    <2>1. PICK k \in 0..N : g[k] = s
        BY <1>4 DEF IsCut
    <2>2. SplitIndex(both, g[k]) = k
        BY <1>5, SplitIndexAtCut
    <2> QED
        BY <2>1, <2>2
<1>7. j \in 0..N /\ g[j] = e
    <2>1. PICK k \in 0..N : g[k] = e
        BY <1>4 DEF IsCut
    <2>2. SplitIndex(both, g[k]) = k
        BY <1>5, SplitIndexAtCut
    <2> QED
        BY <2>1, <2>2
<1> HIDE DEF i, j
<1>8. \A a, b \in 0..N : a < b => g[a] < g[b]
    BY <1>5, EndsGrow
<1>9. i \in 0..N /\ j \in i..N /\ i \in Nat /\ j \in Nat
    <2>1. ~(j < i)
        <3> SUFFICES ASSUME j < i PROVE FALSE
            OBVIOUS
        <3>1. g[j] < g[i]
            BY <1>6, <1>7, <1>8
        <3> QED
            BY <1>0, <1>6, <1>7, <3>1
    <2> QED
        BY <1>5, <1>6, <1>7, <2>1
<1>10. r = Exchanged(both, i, j, <<>>)
    <2>1. SubSeq(both, 1, i) \in Seq(Piece)
        <3>1. i <= N
            BY <1>5, <1>9
        <3> QED
            BY <1>5, <1>9, <3>1, ExchangedForItself
    <2>2. SubSeq(both, 1, i) \o <<>> = SubSeq(both, 1, i)
        BY <2>1, ConcatEmptySeq
    <2> QED
        BY <2>2 DEF Exchanged
<1> HIDE DEF r
<1>11. Fits(<<>>, original, added) /\ Spells(<<>>, original, added, <<>>)
    BY NoPieces DEF Tidy
<1>12. /\ Fits(r, original, added)
       /\ Spells(r, original, added, Exchanged(t, s, e, <<>>))
    <2>1. /\ Fits(r, original, added)
          /\ Spells(r, original, added, Exchanged(t, Ends(both)[i], Ends(both)[j], <<>>))
        BY <1>4, <1>9, <1>10, <1>11, ExchangedPieces
    <2> QED
        BY <1>6, <1>7, <2>1
<1>13. <<>> \in Seq(Piece) /\ Len(<<>>) = 0
    OBVIOUS
<1>14. Len(r) = i + (N - j) /\ Len(r) \in Nat
    <2>1. Elementwise(r, both, i, j, <<>>)
        BY <1>5, <1>9, <1>10, <1>13, ExchangedIs, Zenon
    <2> QED
        BY <1>5, <1>9, <1>13, <2>1 DEF Elementwise
<1>15. ASSUME NEW k, SeamAt(r, k)  PROVE k = (i + 1) - 1
    <2>1. \/ k < i /\ SeamAt(both, k)
          \/ k \in i..(i + 0)
          \/ k > i + 0 /\ SeamAt(both, k - i - 0 + j)
        BY <1>5, <1>9, <1>10, <1>13, <1>15, ExchangedSeams
    <2>2. k \in Int
        BY <1>15 DEF SeamAt
    <2>3. ASSUME NEW m, SeamAt(both, m)  PROVE m \in 0..N /\ (m = i \/ m = j)
        <3>1. m \in 0..N
            BY <1>5, <2>3 DEF SeamAt
        <3>2. g[m] = s \/ g[m] = e
            BY <1>4, <2>3 DEF IsSeam
        <3>3. SplitIndex(both, g[m]) = m
            BY <1>5, <3>1, SplitIndexAtCut
        <3> QED
            BY <3>1, <3>2, <3>3 DEF i, j
    <2>4. CASE k < i /\ SeamAt(both, k)
        <3>1. k = i \/ k = j
            BY <2>3, <2>4
        <3> QED
            BY <1>9, <2>4, <3>1
    <2>5. CASE k \in i..(i + 0)
        BY <1>9, <2>2, <2>5
    <2>6. CASE k > i + 0 /\ SeamAt(both, k - i - 0 + j)
        <3>1. k - i - 0 + j = i \/ k - i - 0 + j = j
            BY <2>3, <2>6
        <3> QED
            BY <1>9, <2>2, <2>6, <3>1
    <2> QED
        BY <2>1, <2>4, <2>5, <2>6
<1>16. i + 1 \in 1..(Len(r) + 1)
    BY <1>5, <1>9, <1>14
<1> DEFINE q == MergedAt(r, i + 1)
<1>17. Fits(q, original, added) /\ Spells(q, original, added, Exchanged(t, s, e, <<>>)) /\ Whole(q)
    BY <1>12, <1>15, <1>16, MergedKeeps
<1> QED
    BY <1>1, <1>17 DEF Tidy

\* insertAddSpanNoVersionBump()
LEMMA InsertedKeeps ==
    ASSUME NEW original \in Seq(Char), NEW added \in Seq(Char), NEW ps, NEW t,
           Tidy(ps, original, added, t), NEW off \in 0..Len(t),
           NEW p, NEW x, Fits(<<p>>, original, added), Spells(<<p>>, original, added, x), Len(<<p>>) = 1
    PROVE  Tidy(Inserted(ps, off, p), original, added, Exchanged(t, off, off, x))
<1> DEFINE split == SplitAt(ps, off)
           i == SplitIndex(split, off)
           N == Len(split)
           g == Ends(split)
           mid == <<p>>
           r == SubSeq(split, 1, i) \o mid \o SubSeq(split, i + 1, N)
<1>0. t \in Seq(Char) /\ off \in Nat
    BY DEF Tidy, Spells
<1>1. Inserted(ps, off, p) = MergedAt(r, i + 1)
    BY DEF Inserted
<1>2. SplitWell(split, ps, off, original, added, t)
    BY SplitKeeps DEF Tidy
<1> HIDE DEF split
<1>4. /\ Fits(split, original, added) /\ Spells(split, original, added, t)
      /\ IsCut(split, off)
      /\ \A c : IsSeam(split, c) => c = off
    <2>1. \A c : ~IsSeam(ps, c)
        BY DEF Tidy, Whole, IsSeam
    <2> QED
        BY <1>2, <2>1 DEF SplitWell
<1>5. split \in Seq(Piece) /\ Full(split) /\ N \in Nat
    BY <1>4 DEF Fits
<1>6. i \in 0..N /\ g[i] = off
    <2>1. PICK k \in 0..N : g[k] = off
        BY <1>4 DEF IsCut
    <2>2. SplitIndex(split, g[k]) = k
        BY <1>5, SplitIndexAtCut
    <2> QED
        BY <2>1, <2>2
<1> HIDE DEF i
<1>9. i \in 0..N /\ i \in i..N /\ i \in Nat
    BY <1>5, <1>6
<1>10. r = Exchanged(split, i, i, mid)
    BY DEF Exchanged
<1>11. Fits(mid, original, added) /\ Spells(mid, original, added, x) /\ mid \in Seq(Piece) /\ Len(mid) = 1
    BY DEF Fits
<1> HIDE DEF r, mid
<1>12. /\ Fits(r, original, added)
       /\ Spells(r, original, added, Exchanged(t, off, off, x))
    <2>1. /\ Fits(r, original, added)
          /\ Spells(r, original, added, Exchanged(t, Ends(split)[i], Ends(split)[i], x))
        BY <1>4, <1>9, <1>10, <1>11, ExchangedPieces
    <2> QED
        BY <1>6, <2>1
<1>14. Len(r) = N + 1
    <2>1. Elementwise(r, split, i, i, mid)
        BY <1>5, <1>9, <1>10, <1>11, ExchangedIs, Zenon
    <2> QED
        BY <1>5, <1>9, <1>11, <2>1 DEF Elementwise
<1>15. ASSUME NEW k, SeamAt(r, k)  PROVE k = (i + 1) - 1 \/ k = i + 1
    <2>1. \/ k < i /\ SeamAt(split, k)
          \/ k \in i..(i + 1)
          \/ k > i + 1 /\ SeamAt(split, k - i - 1 + i)
        BY <1>5, <1>9, <1>10, <1>11, <1>15, ExchangedSeams
    <2>2. k \in Int
        BY <1>15 DEF SeamAt
    <2>3. ASSUME NEW m, SeamAt(split, m)  PROVE m = i
        <3>1. m \in 0..N
            BY <1>5, <2>3 DEF SeamAt
        <3>2. g[m] = off
            BY <1>4, <2>3 DEF IsSeam
        <3>3. SplitIndex(split, g[m]) = m
            BY <1>5, <3>1, SplitIndexAtCut
        <3> QED
            BY <3>2, <3>3 DEF i
    <2>4. CASE k < i /\ SeamAt(split, k)
        <3>1. k = i
            BY <2>3, <2>4
        <3> QED
            BY <1>9, <2>4, <3>1
    <2>5. CASE k \in i..(i + 1)
        BY <1>9, <2>2, <2>5
    <2>6. CASE k > i + 1 /\ SeamAt(split, k - i - 1 + i)
        <3>1. k - i - 1 + i = i
            BY <2>3, <2>6
        <3> QED
            BY <1>9, <2>2, <2>6, <3>1
    <2> QED
        BY <2>1, <2>4, <2>5, <2>6
<1>16. i + 1 \in 1..(Len(r) + 1)
    BY <1>5, <1>9, <1>14
<1> DEFINE q == MergedAt(r, i + 1)
<1>17. Fits(q, original, added) /\ Spells(q, original, added, Exchanged(t, off, off, x)) /\ Whole(q)
    BY <1>12, <1>15, <1>16, MergedKeeps
<1> QED
    BY <1>1, <1>17 DEF Tidy, r, mid

\* Appending to the add buffer changes no text.
LEMMA AppendKeeps ==
    ASSUME NEW original \in Seq(Char), NEW added \in Seq(Char), NEW x \in Seq(Char), NEW ps, NEW t,
           Tidy(ps, original, added, t)
    PROVE  Tidy(ps, original, added \o x, t)
<1> DEFINE a == added \o x
<1>1. /\ Len(added) \in Nat /\ Len(x) \in Nat /\ Len(original) \in Nat
      /\ Len(a) = Len(added) + Len(x)
      /\ \A i \in 1..Len(added) : a[i] = added[i]
    BY ConcatProperties
<1> HIDE DEF a
<1>2. ASSUME NEW i \in 1..Len(ps)
      PROVE  /\ ps[i].start + ps[i].length <= Len(BufferOf(ps[i], original, a))
             /\ \A k \in 1..ps[i].length :
                   BufferOf(ps[i], original, a)[ps[i].start + k] = BufferOf(ps[i], original, added)[ps[i].start + k]
    <2> DEFINE s == ps[i].start
               n == ps[i].length
    <2>1. s \in Nat /\ n \in Nat
        BY PiecesAre DEF Tidy, Fits
    <2>2. s + n <= Len(BufferOf(ps[i], original, added))
        BY DEF Tidy, Fits
    <2>3. CASE ps[i].source = "Original"
        BY <2>2, <2>3 DEF BufferOf
    <2>4. CASE ps[i].source # "Original"
        <3>1. BufferOf(ps[i], original, added) = added /\ BufferOf(ps[i], original, a) = a
            BY <2>4 DEF BufferOf
        <3> HIDE DEF s, n
        <3>2. s + n <= Len(a) /\ \A k \in 1..n : s + k \in 1..Len(added)
            BY <1>1, <2>1, <2>2, <3>1
        <3>3. \A k \in 1..n : a[s + k] = added[s + k]
            BY <1>1, <3>2
        <3> QED
            BY <3>1, <3>2, <3>3 DEF s, n
    <2> QED
        BY <2>3, <2>4
<1>3. Fits(ps, original, a)
    BY <1>2 DEF Tidy, Fits
<1>4. Spells(ps, original, a, t)
    BY <1>2 DEF Tidy, Spells
<1> QED
    BY <1>3, <1>4 DEF Tidy, a

\* The span that has just been appended spells what was appended.
LEMMA SpanSpells ==
    ASSUME NEW original \in Seq(Char), NEW added \in Seq(Char), NEW x \in Seq(Char), x # <<>>,
           NEW p, p = [source |-> "Add", start |-> Len(added), length |-> Len(x)]
    PROVE  Fits(<<p>>, original, added \o x) /\ Spells(<<p>>, original, added \o x, x) /\ Len(<<p>>) = 1
<1> DEFINE a == added \o x
<1>1. /\ Len(added) \in Nat /\ Len(x) \in Nat /\ Len(x) > 0
      /\ Len(a) = Len(added) + Len(x)
      /\ \A i \in 1..(Len(added) + Len(x)) : a[i] = IF i <= Len(added) THEN added[i] ELSE x[i - Len(added)]
    BY ConcatProperties, EmptySeq
<1> HIDE DEF a
<1>2. p \in Piece /\ p.start = Len(added) /\ p.length = Len(x) /\ BufferOf(p, original, a) = a
    BY <1>1 DEF Piece, BufferOf
<1>3. ASSUME NEW k \in 1..p.length
      PROVE  x[k] = BufferOf(p, original, a)[p.start + k]
    <2>1. k \in 1..Len(x)
        BY <1>2
    <2>2. Len(added) + k \in 1..(Len(added) + Len(x)) /\ ~(Len(added) + k <= Len(added)) /\ (Len(added) + k) - Len(added) = k
        BY <1>1, <2>1
    <2>3. a[Len(added) + k] = x[k]
        BY <1>1, <2>2
    <2> QED
        BY <1>2, <2>3
<1>4. p.start + p.length <= Len(BufferOf(p, original, a)) /\ p.length > 0 /\ Len(x) = p.length
    BY <1>1, <1>2
<1> QED
    BY <1>2, <1>3, <1>4, OnePiece DEF a

\* replaceNoVersionBump(): the pieces after a splice spell the spliced text.
LEMMA SplicedKeeps ==
    ASSUME NEW original \in Seq(Char), NEW added \in Seq(Char), NEW x \in Seq(Char), NEW ps, NEW t,
           Tidy(ps, original, added, t), NEW s \in 0..Len(t), NEW e \in s..Len(t),
           NEW p, p = [source |-> "Add", start |-> Len(added), length |-> Len(x)],
           NEW rest, rest = IF s < e THEN Erased(ps, s, e) ELSE ps,
           NEW r, r = IF x = <<>> THEN rest ELSE Inserted(rest, s, p)
    PROVE  Tidy(r, original, added \o x, Exchanged(t, s, e, x))
<1> DEFINE u == Exchanged(t, s, e, <<>>)
           a == added \o x
<1>0. t \in Seq(Char) /\ s \in Nat /\ e \in Nat /\ s <= e /\ a \in Seq(Char)
    BY DEF Tidy, Spells
<1>1. Tidy(rest, original, added, u)
    <2>1. CASE s < e
        BY <2>1, ErasedKeeps
    <2>2. CASE ~(s < e)
        <3>1. s = e
            BY <1>0, <2>2
        <3>2. /\ SubSeq(t, s + 1, e) \in Seq(Char) /\ Len(SubSeq(t, s + 1, e)) = e - s
              /\ Exchanged(t, s, e, SubSeq(t, s + 1, e)) = t
            BY <1>0, ExchangedForItself
        <3>3. SubSeq(t, s + 1, e) = <<>>
            BY <1>0, <3>1, <3>2, EmptySeq
        <3>4. u = t
            BY <3>2, <3>3
        <3> QED
            BY <2>2, <3>4
    <2> QED
        BY <2>1, <2>2
<1>2. s \in 0..Len(u) /\ Exchanged(u, s, s, x) = Exchanged(t, s, e, x)
    BY <1>0, ExchangedTwice
<1> HIDE DEF u
<1>3. Tidy(rest, original, a, u)
    BY <1>1, AppendKeeps
<1>4. CASE x = <<>>
    BY <1>3, <1>4 DEF u
<1>5. CASE x # <<>>
    <2>1. Fits(<<p>>, original, a) /\ Spells(<<p>>, original, a, x) /\ Len(<<p>>) = 1
        BY <1>5, SpanSpells
    <2> HIDE DEF a
    <2>2. Tidy(Inserted(rest, s, p), original, a, Exchanged(u, s, s, x))
        BY <1>0, <1>2, <1>3, <2>1, InsertedKeeps
    <2> QED
        BY <1>2, <1>5, <2>2 DEF a
<1> QED
    BY <1>4, <1>5
-----------------------------------------------------------------------------
(***************************************************************************)
(* The document's state: every living owner's pieces are in order.         *)
(***************************************************************************)

\* The pieces of o lie in their buffers, leave no seam and spell as many
\* characters as o has recorded.
InOrder(o) ==
    /\ Tidy(pieceList[own[o].pieces], own[o].original, addText[own[o].add], TextOf(o))
    /\ Len(TextOf(o)) = own[o].length

\* The inductive invariant.
DocInv ==
    /\ TypeOK
    /\ role[Main] = "main"
    /\ \A o \in Live : InOrder(o)

\* the texts and versions the refinement is about
Txt == [o \in Owner |-> IF role[o] = "none" THEN <<>> ELSE TextOf(o)]
Ver == [o \in Owner |-> IF role[o] = "none" THEN 0 ELSE own[o].version]

\* A tidy list has the text it spells.
LEMMA TextIs ==
    ASSUME NEW original \in Seq(Char), NEW added \in Seq(Char), NEW ps, NEW t, Tidy(ps, original, added, t)
    PROVE  Text(ps, original, added) = t
<1>1. Fits(ps, original, added) /\ Spells(ps, original, added, t) /\ ps \in Seq(Piece)
    BY DEF Tidy, Fits
<1>2. Spells(ps, original, added, Text(ps, original, added))
    BY <1>1, TextIsSpelled
<1> QED
    BY <1>1, <1>2, OneText

\* The types of what a living owner refers to.
LEMMA OwnerTypes ==
    ASSUME DocInv, NEW o \in Live
    PROVE  /\ o \in Owner /\ own[o] \in Holding /\ own[o].original \in Seq(Char)
           /\ own[o].add \in Cell /\ own[o].pieces \in Cell
           /\ own[o].length \in Nat /\ own[o].version \in Nat
           /\ addText[own[o].add] \in Seq(Char) /\ pieceList[own[o].pieces] \in Seq(Piece)
           /\ TextOf(o) \in Seq(Char) /\ Len(TextOf(o)) = own[o].length /\ InOrder(o)
<1>1. o \in Owner /\ own[o] \in Holding
    BY DEF DocInv, TypeOK, Live
<1>2. /\ own[o].original \in Seq(Char) /\ own[o].add \in Cell /\ own[o].pieces \in Cell
      /\ own[o].length \in Nat /\ own[o].version \in Nat
    BY <1>1 DEF Holding
<1>3. addText[own[o].add] \in Seq(Char) /\ pieceList[own[o].pieces] \in Seq(Piece)
    BY <1>2 DEF DocInv, TypeOK
<1>4. InOrder(o)
    BY DEF DocInv
<1>5. TextOf(o) \in Seq(Char) /\ Len(TextOf(o)) = own[o].length
    BY <1>4 DEF InOrder, Tidy, Spells
<1> QED
    BY <1>1, <1>2, <1>3, <1>4, <1>5

\* The invariant of the isolation argument is part of it.
LEMMA DocShape ==
    ASSUME DocInv
    PROVE  Shape /\ Main \in Live
<1>1. Holding \subseteq Slot
    <2> SUFFICES ASSUME NEW h \in Holding PROVE h \in Slot
        OBVIOUS
    <2> QED
        BY DEF Holding, Slot
<1>2. own \in [Owner -> Slot]
    BY <1>1 DEF DocInv, TypeOK
<1>3. pieceList = [c \in Cell |-> pieceList[c]]
    BY DEF DocInv, TypeOK
<1> QED
    BY <1>2, <1>3, DocumentAssumption DEF DocInv, TypeOK, Shape, Live

\* Whoever refers to the same buffers sees the same text.
LEMMA SameBuffers ==
    ASSUME NEW o \in Owner, NEW q \in Owner,
           own'[o].original = own[q].original, own'[o].length = own[q].length,
           addText'[own'[o].add] = addText[own[q].add],
           pieceList'[own'[o].pieces] = pieceList[own[q].pieces]
    PROVE  TextOf(o)' = TextOf(q) /\ (InOrder(q) => InOrder(o)')
<1>1. TextOf(o)' = TextOf(q)
    BY DEF TextOf
<1> QED
    BY <1>1 DEF InOrder

\* A step in which w writes, to cells of its own, leaves the texts of the
\* others alone.
LEMMA OneWriter ==
    ASSUME DocInv, NEW w \in Live, Writes(w), role' = role,
           own' \in [Owner -> Holding], addText' \in [Cell -> Seq(Char)], pieceList' \in [Cell -> Seq(Piece)],
           ops' \in 0..MaxOps, mutated' \in BOOLEAN, InOrder(w)'
    PROVE  /\ DocInv'
           /\ Txt' = [Txt EXCEPT ![w] = TextOf(w)']
           /\ Ver' = [Ver EXCEPT ![w] = own'[w].version]
<1>1. Live' = Live /\ w \in Owner /\ role[w] # "none"
    BY DEF Live
<1>2. ASSUME NEW o \in Live \ {w}
      PROVE  TextOf(o)' = TextOf(o) /\ InOrder(o)' /\ own'[o] = own[o]
    <2>1. o \in Owner /\ own'[o] = own[o]
        BY DEF Writes, Live
    <2>2. /\ addText'[own'[o].add] = addText[own[o].add]
          /\ pieceList'[own'[o].pieces] = pieceList[own[o].pieces]
        BY <2>1 DEF Writes
    <2>3. InOrder(o)
        BY DEF DocInv
    <2> QED
        BY <2>1, <2>2, <2>3, SameBuffers
<1>3. DocInv'
    <2>1. TypeOK'
        BY DEF DocInv, TypeOK
    <2>2. \A o \in Live' : InOrder(o)'
        BY <1>1, <1>2
    <2> QED
        BY <2>1, <2>2 DEF DocInv
<1>4. Txt' = [Txt EXCEPT ![w] = TextOf(w)']
    <2>1. \A o \in Owner : (IF role'[o] = "none" THEN <<>> ELSE TextOf(o)')
                           = IF o = w THEN TextOf(w)' ELSE IF role[o] = "none" THEN <<>> ELSE TextOf(o)
        BY <1>1, <1>2 DEF Live
    <2>2. Txt' = [o \in Owner |-> IF o = w THEN TextOf(w)' ELSE IF role[o] = "none" THEN <<>> ELSE TextOf(o)]
        BY <2>1 DEF Txt
    <2>3. [Txt EXCEPT ![w] = TextOf(w)'] = [o \in Owner |-> IF o = w THEN TextOf(w)' ELSE IF role[o] = "none" THEN <<>> ELSE TextOf(o)]
        BY DEF Txt
    <2> QED
        BY <2>2, <2>3
<1>5. Ver' = [Ver EXCEPT ![w] = own'[w].version]
    <2>1. \A o \in Owner : (IF role'[o] = "none" THEN 0 ELSE own'[o].version)
                           = IF o = w THEN own'[w].version ELSE IF role[o] = "none" THEN 0 ELSE own[o].version
        BY <1>1, <1>2 DEF Live
    <2>2. Ver' = [o \in Owner |-> IF o = w THEN own'[w].version ELSE IF role[o] = "none" THEN 0 ELSE own[o].version]
        BY <2>1 DEF Ver
    <2>3. [Ver EXCEPT ![w] = own'[w].version]
          = [o \in Owner |-> IF o = w THEN own'[w].version ELSE IF role[o] = "none" THEN 0 ELSE own[o].version]
        BY DEF Ver
    <2> QED
        BY <2>2, <2>3
<1> QED
    BY <1>3, <1>4, <1>5

\* A splice of w gives it the spliced text.
LEMMA SpliceText ==
    ASSUME DocInv, NEW w \in Live, NEW s \in Nat, NEW e \in Nat, s <= e, NEW x \in Inserts, NEW v \in Nat,
           DoSplice(w, s, e, x, v),
           NEW from, from = Clamped(s, own[w].length), NEW to, to = Clamped(e, own[w].length)
    PROVE  /\ from \in 0..Len(TextOf(w)) /\ to \in from..Len(TextOf(w))
           /\ TextOf(w)' = Exchanged(TextOf(w), from, to, x) /\ InOrder(w)'
           /\ own' \in [Owner -> Holding] /\ addText' \in [Cell -> Seq(Char)] /\ pieceList' \in [Cell -> Seq(Piece)]
           /\ own'[w].version = v
<1> DEFINE a     == IF x = <<>> THEN own[w].add ELSE AddTarget(w)
           p     == IF x = <<>> /\ from = to THEN own[w].pieces ELSE PieceTarget(w)
           t     == TextOf(w)
           ps    == pieceList[own[w].pieces]
           added == addText[own[w].add]
           orig  == own[w].original
           n     == LengthAfter(w, s, e, x)
           y     == SplicedPieces(w, from, to, x)
           u     == Exchanged(t, from, to, x)
<1>1. /\ addText' = [addText EXCEPT ![a] = added \o x]
      /\ pieceList' = [pieceList EXCEPT ![p] = y]
      /\ own' = [own EXCEPT ![w].add = a, ![w].pieces = p, ![w].version = v, ![w].length = n]
    BY DEF DoSplice
<1>2. /\ w \in Owner /\ own[w] \in Holding /\ orig \in Seq(Char) /\ own[w].add \in Cell /\ own[w].pieces \in Cell
      /\ own[w].length \in Nat /\ added \in Seq(Char) /\ t \in Seq(Char) /\ Len(t) = own[w].length
      /\ Tidy(ps, orig, added, t)
    BY OwnerTypes DEF InOrder
<1>3. x \in Seq(Char)
    BY InsertsAreTexts
<1>4. from \in 0..Len(t) /\ to \in from..Len(t)
    <2>1. \A len \in Nat : Clamped(s, len) \in 0..len /\ Clamped(e, len) \in Clamped(s, len)..len
        BY DEF Clamped
    <2> HIDE DEF t
    <2> QED
        BY <1>2, <2>1
<1>5. a \in Cell /\ p \in Cell
    BY <1>2, DocShape, TargetsArePrivate
<1>6. Tidy(y, orig, added \o x, u)
    <2> DEFINE span == [source |-> "Add", start |-> Len(added), length |-> Len(x)]
               rest == IF from < to THEN Erased(ps, from, to) ELSE ps
    <2>1. y = IF x = <<>> THEN rest ELSE Inserted(rest, from, span)
        BY DEF SplicedPieces
    <2> HIDE DEF y, t, ps, added, orig
    <2> QED
        BY <1>2, <1>3, <1>4, <2>1, SplicedKeeps
<1>7. Len(u) = n /\ u \in Seq(Char)
    <2>1. u \in Seq(Char) /\ Elementwise(u, t, from, to, x)
        BY <1>2, <1>3, <1>4, ExchangedIs, Zenon
    <2>2. Len(u) = from + Len(x) + (Len(t) - to)
        BY <2>1 DEF Elementwise
    <2>3. n = own[w].length - (to - from) + Len(x)
        BY DEF LengthAfter
    <2>4. Len(x) \in Nat
        BY <1>3
    <2> DEFINE lt == Len(t)
               lx == Len(x)
    <2>5. /\ lt \in Nat /\ lx \in Nat /\ from \in 0..lt /\ to \in from..lt
          /\ Len(u) = from + lx + (lt - to) /\ n = lt - (to - from) + lx
        BY <1>2, <1>4, <2>2, <2>3, <2>4
    <2> HIDE DEF lt, lx, u, n
    <2>6. from + lx + (lt - to) = lt - (to - from) + lx
        BY <2>5
    <2> QED
        BY <2>1, <2>5, <2>6
<1> HIDE DEF a, p, y, n, u, t
<1>8. n \in Nat /\ y \in Seq(Piece) /\ added \o x \in Seq(Char)
    BY <1>2, <1>3, <1>6, <1>7 DEF Tidy, Fits
<1>9. own' \in [Owner -> Holding] /\ addText' \in [Cell -> Seq(Char)] /\ pieceList' \in [Cell -> Seq(Piece)]
    <2>1. own' \in [Owner -> Holding]
        BY <1>1, <1>2, <1>5, <1>8 DEF DocInv, TypeOK, Holding
    <2>2. addText' \in [Cell -> Seq(Char)]
        BY <1>1, <1>5, <1>8 DEF DocInv, TypeOK
    <2>3. pieceList' \in [Cell -> Seq(Piece)]
        BY <1>1, <1>5, <1>8 DEF DocInv, TypeOK
    <2> QED
        BY <2>1, <2>2, <2>3
<1>10. /\ own'[w].original = orig /\ own'[w].add = a /\ own'[w].pieces = p
       /\ own'[w].length = n /\ own'[w].version = v
    BY <1>1, <1>2 DEF DocInv, TypeOK, Holding
<1>11. addText'[own'[w].add] = added \o x /\ pieceList'[own'[w].pieces] = y
    BY <1>1, <1>5, <1>10 DEF DocInv, TypeOK
<1>12. TextOf(w)' = u
    <2>1. TextOf(w)' = Text(y, orig, added \o x)
        BY <1>10, <1>11 DEF TextOf, Text
    <2>2. Text(y, orig, added \o x) = u
        BY <1>2, <1>6, <1>8, TextIs
    <2> QED
        BY <2>1, <2>2
<1>13. InOrder(w)'
    BY <1>6, <1>7, <1>10, <1>11, <1>12 DEF InOrder
<1> QED
    BY <1>4, <1>9, <1>10, <1>12, <1>13 DEF u, t

\* initializeFromOriginal() gives the document the new text.
LEMMA RenewedText ==
    ASSUME DocInv, NEW t \in Seq(Char), NEW v \in Nat, Renewed(t, v)
    PROVE  /\ TextOf(Main)' = t /\ InOrder(Main)'
           /\ own' \in [Owner -> Holding] /\ addText' \in [Cell -> Seq(Char)] /\ pieceList' \in [Cell -> Seq(Piece)]
           /\ own'[Main].version = v
<1> DEFINE a == AddTarget(Main)
           p == PieceTarget(Main)
           piece == [source |-> "Original", start |-> 0, length |-> Len(t)]
           whole == IF t = <<>> THEN <<>> ELSE << piece >>
           h == [original |-> t, add |-> a, pieces |-> p, length |-> Len(t), version |-> v]
<1>1. /\ addText' = [addText EXCEPT ![a] = <<>>]
      /\ pieceList' = [pieceList EXCEPT ![p] = whole]
      /\ own' = [own EXCEPT ![Main] = h]
    BY DEF Renewed
<1>2. a \in Cell /\ p \in Cell /\ Main \in Owner
    BY DocShape, TargetsArePrivate, DocumentAssumption
<1>3. Tidy(whole, t, <<>>, t)
    <2>1. CASE t = <<>>
        BY <2>1, NoPieces
    <2>2. CASE t # <<>>
        <3>1. Len(t) \in Nat /\ Len(t) > 0
            BY <2>2, EmptySeq
        <3>2. piece \in Piece /\ piece.length = Len(t) /\ piece.start = 0 /\ BufferOf(piece, t, <<>>) = t
            BY <3>1 DEF Piece, BufferOf
        <3>3. whole = <<piece>>
            BY <2>2
        <3> HIDE DEF piece, whole
        <3>4. ASSUME NEW k \in 1..piece.length
              PROVE  t[k] = BufferOf(piece, t, <<>>)[piece.start + k]
            <4>1. piece.start + k = k
                BY <3>1, <3>2
            <4> QED
                BY <3>2, <4>1
        <3>5. piece.start + piece.length <= Len(BufferOf(piece, t, <<>>)) /\ piece.length > 0 /\ Len(t) = piece.length
            BY <3>1, <3>2
        <3>6. Fits(<<piece>>, t, <<>>) /\ Spells(<<piece>>, t, <<>>, t) /\ Len(<<piece>>) = 1
            BY <3>2, <3>4, <3>5, OnePiece
        <3> QED
            BY <3>3, <3>6, OneIsWhole DEF Tidy
    <2> QED
        BY <2>1, <2>2
<1>4. <<>> \in Seq(Char) /\ Len(t) \in Nat
    OBVIOUS
<1>5. whole \in Seq(Piece)
    BY <1>3 DEF Tidy, Fits
<1>6. h \in Holding
    BY <1>2, <1>4 DEF Holding
<1>7. h.original = t /\ h.add = a /\ h.pieces = p /\ h.length = Len(t) /\ h.version = v
    OBVIOUS
<1> HIDE DEF a, p, whole, h
<1>8. own' \in [Owner -> Holding] /\ addText' \in [Cell -> Seq(Char)] /\ pieceList' \in [Cell -> Seq(Piece)]
    BY <1>1, <1>2, <1>4, <1>5, <1>6 DEF DocInv, TypeOK
<1>9. own'[Main] = h
    BY <1>1, <1>2 DEF DocInv, TypeOK
<1>10. addText'[own'[Main].add] = <<>> /\ pieceList'[own'[Main].pieces] = whole
    BY <1>1, <1>2, <1>7, <1>9 DEF DocInv, TypeOK
<1>11. TextOf(Main)' = t
    <2>1. TextOf(Main)' = Text(whole, t, <<>>)
        BY <1>7, <1>9, <1>10 DEF TextOf, Text
    <2>2. Text(whole, t, <<>>) = t
        BY <1>3, <1>4, TextIs
    <2> QED
        BY <2>1, <2>2
<1>12. InOrder(Main)'
    BY <1>3, <1>7, <1>9, <1>10, <1>11 DEF InOrder
<1> QED
    BY <1>7, <1>8, <1>9, <1>11, <1>12
-----------------------------------------------------------------------------
(***************************************************************************)
(* Every action keeps the invariant and is an action of TextValues, which  *)
(* the first lemmas restate with the texts and versions by name.           *)
(***************************************************************************)

\* An operation of a transaction.
LEMMA ValuesSplice ==
    Values!Splice <=>
        /\ ops < MaxOps /\ ops' = ops + 1 /\ role' = role /\ Ver' = Ver
        /\ \E s \in 0..Len(Txt[Main]), x \in Inserts : \E e \in s..Len(Txt[Main]) :
              /\ Txt' = [Txt EXCEPT ![Main] = Exchanged(Txt[Main], s, e, x)]
              /\ mutated' = (mutated \/ (s < e \/ x # <<>>))
    BY Zenon DEF Values!Splice, Values!Spliced, Values!Mutates, Values!Inserts, Inserts, Txt, Ver, Exchanged

\* Setting the whole text.
LEMMA ValuesSetText ==
    Values!SetText <=>
        /\ ops < MaxOps /\ ops' = ops + 1 /\ role' = role /\ Ver' = Ver
        /\ \E t \in Wholes : Txt' = [Txt EXCEPT ![Main] = t]
        /\ mutated' = (mutated \/ Txt' # Txt)
    BY Zenon DEF Values!SetText, Values!Wholes, Wholes, Txt, Ver

\* The end of a transaction.
LEMMA ValuesCommit ==
    Values!Commit <=>
        /\ ops > 0 /\ Ver' = [Ver EXCEPT ![Main] = IF mutated THEN Ver[Main] + 1 ELSE Ver[Main]]
        /\ ops' = 0 /\ mutated' = FALSE /\ role' = role /\ Txt' = Txt
    BY Zenon DEF Values!Commit, Txt, Ver

\* Exchanging all of the text.
LEMMA ValuesExchange ==
    Values!Exchange <=>
        /\ ops = 0 /\ Ver' = [Ver EXCEPT ![Main] = Ver[Main] + 1]
        /\ role' = role /\ ops' = ops /\ mutated' = mutated
        /\ \E t \in Wholes : Txt' = [Txt EXCEPT ![Main] = t]
    BY Zenon DEF Values!Exchange, Values!Wholes, Wholes, Txt, Ver

\* A new snapshot or copy.
LEMMA ValuesTake ==
    ASSUME NEW o, NEW r
    PROVE  Values!Take(o, r) <=>
               /\ ops = 0 /\ role[o] = "none" /\ role' = [role EXCEPT ![o] = r]
               /\ Txt' = [Txt EXCEPT ![o] = Txt[Main]] /\ Ver' = [Ver EXCEPT ![o] = Ver[Main]]
               /\ ops' = ops /\ mutated' = mutated
    BY Zenon DEF Values!Take, Txt, Ver

\* An edit of a copy.
LEMMA ValuesCopySplice ==
    ASSUME NEW o
    PROVE  Values!CopySplice(o) <=>
               /\ role[o] = "copy" /\ role' = role /\ ops' = ops /\ mutated' = mutated
               /\ \E s \in 0..Len(Txt[o]), x \in Inserts : \E e \in s..Len(Txt[o]) :
                     /\ Txt' = [Txt EXCEPT ![o] = Exchanged(Txt[o], s, e, x)]
                     /\ Ver' = [Ver EXCEPT ![o] = IF s < e \/ x # <<>> THEN Ver[o] + 1 ELSE Ver[o]]
    BY Zenon DEF Values!CopySplice, Values!Spliced, Values!Mutates, Values!Inserts, Inserts, Txt, Ver, Exchanged

\* Restoring a snapshot.
LEMMA ValuesRestore ==
    ASSUME NEW o
    PROVE  Values!Restore(o) <=>
               /\ ops = 0 /\ role[o] = "snapshot"
               /\ Txt' = [Txt EXCEPT ![Main] = Txt[o]]
               /\ Ver' = [Ver EXCEPT ![Main] = IF Txt[o] = <<>> THEN Ver[Main] ELSE Ver[o]]
               /\ role' = role /\ ops' = ops /\ mutated' = mutated
    BY Zenon DEF Values!Restore, Txt, Ver

\* Dropping one.
LEMMA ValuesDrop ==
    ASSUME NEW o
    PROVE  Values!Drop(o) <=>
               /\ role[o] \in {"snapshot", "copy"} /\ role' = [role EXCEPT ![o] = "none"]
               /\ Txt' = [Txt EXCEPT ![o] = <<>>] /\ Ver' = [Ver EXCEPT ![o] = 0]
               /\ ops' = ops /\ mutated' = mutated
    BY Zenon DEF Values!Drop, Txt, Ver

\* What a living owner has, there.
LEMMA ValuesOf ==
    ASSUME NEW o \in Live
    PROVE  o \in Owner /\ Txt[o] = TextOf(o) /\ Ver[o] = own[o].version
    BY DEF Live, Txt, Ver

\* The texts and versions are functions of the owners: giving one what it has
\* changes nothing.
LEMMA ValuesSame ==
    ASSUME NEW o
    PROVE  [Txt EXCEPT ![o] = Txt[o]] = Txt /\ [Ver EXCEPT ![o] = Ver[o]] = Ver
    BY DEF Txt, Ver

\* applyOperationNoVersionBump() replaces a range of the document's text.
LEMMA SpliceStep ==
    ASSUME DocInv, NEW s \in Nat, NEW e \in Nat, s <= e, NEW x \in Inserts, Splice(s, e, x)
    PROVE  DocInv' /\ Values!Splice
<1> DEFINE from == Clamped(s, own[Main].length)
           to == Clamped(e, own[Main].length)
           t == TextOf(Main)
<1>1. /\ ops < MaxOps /\ ops' = ops + 1 /\ role' = role
      /\ DoSplice(Main, s, e, x, own[Main].version)
      /\ mutated' = (mutated \/ Mutates(Main, s, e, x))
    BY DEF Splice
<1>2. Main \in Live /\ Shape /\ ops \in Nat /\ MaxOps \in Nat /\ own[Main].version \in Nat
    BY DocShape, OwnerTypes, DocumentAssumption DEF DocInv, TypeOK
<1>3. /\ from \in 0..Len(t) /\ to \in from..Len(t)
      /\ TextOf(Main)' = Exchanged(t, from, to, x) /\ InOrder(Main)'
      /\ own' \in [Owner -> Holding] /\ addText' \in [Cell -> Seq(Char)] /\ pieceList' \in [Cell -> Seq(Piece)]
      /\ own'[Main].version = own[Main].version
    BY <1>1, <1>2, SpliceText
<1>4. Writes(Main)
    <2> DEFINE v == own[Main].version
    <2>1. v \in Int /\ Main \in Owner /\ DoSplice(Main, s, e, x, v)
        BY <1>1, <1>2, DocumentAssumption
    <2> HIDE DEF v
    <2> QED
        BY <1>2, <2>1, DoSpliceWrites
<1>5. mutated' = (mutated \/ (from < to \/ x # <<>>)) /\ mutated' \in BOOLEAN
    BY <1>1 DEF Mutates
<1>6. ops' \in 0..MaxOps
    BY <1>1, <1>2
<1> HIDE DEF from, to
<1>7. /\ DocInv'
      /\ Txt' = [Txt EXCEPT ![Main] = TextOf(Main)']
      /\ Ver' = [Ver EXCEPT ![Main] = own'[Main].version]
    BY <1>1, <1>2, <1>3, <1>4, <1>5, <1>6, OneWriter
<1>8. Txt[Main] = t /\ Ver[Main] = own[Main].version
    BY <1>2, ValuesOf
<1> HIDE DEF t
<1>9. Ver' = Ver
    BY <1>3, <1>7, <1>8, ValuesSame
<1>10. Txt' = [Txt EXCEPT ![Main] = Exchanged(Txt[Main], from, to, x)]
    BY <1>3, <1>7, <1>8 DEF t
<1>11. from \in 0..Len(Txt[Main]) /\ to \in from..Len(Txt[Main])
    BY <1>3, <1>8
<1>12. Values!Splice
    BY <1>1, <1>5, <1>9, <1>10, <1>11, ValuesSplice, Zenon
<1> QED
    BY <1>7, <1>12

\* TextDocument::replace() on a copy replaces a range of its text.
LEMMA CopySpliceStep ==
    ASSUME DocInv, NEW o \in Owner, NEW s \in Nat, NEW e \in Nat, s <= e, NEW x \in Inserts, CopySplice(o, s, e, x)
    PROVE  DocInv' /\ Values!CopySplice(o)
<1> DEFINE from == Clamped(s, own[o].length)
           to == Clamped(e, own[o].length)
           t == TextOf(o)
           v == IF from < to \/ x # <<>> THEN own[o].version + 1 ELSE own[o].version
<1>0. Mutates(o, s, e, x) <=> (from < to \/ x # <<>>)
    BY DEF Mutates
<1>1. /\ role[o] = "copy" /\ role' = role /\ ops' = ops /\ mutated' = mutated
      /\ DoSplice(o, s, e, x, v)
    BY <1>0 DEF CopySplice
<1>2. o \in Live /\ Shape
    BY <1>1, DocShape DEF Live
<1>v. v \in Nat
    <2>1. own[o].version \in Nat
        BY <1>2, OwnerTypes
    <2> DEFINE ov == own[o].version
    <2>2. v = ov \/ v = ov + 1
        OBVIOUS
    <2> HIDE DEF v, ov
    <2>3. ov \in Nat
        BY <2>1 DEF ov
    <2> QED
        BY <2>2, <2>3
<1> HIDE DEF v
<1>3. /\ from \in 0..Len(t) /\ to \in from..Len(t)
      /\ TextOf(o)' = Exchanged(t, from, to, x) /\ InOrder(o)'
      /\ own' \in [Owner -> Holding] /\ addText' \in [Cell -> Seq(Char)] /\ pieceList' \in [Cell -> Seq(Piece)]
      /\ own'[o].version = v
    BY <1>1, <1>2, <1>v, SpliceText
<1>4. Writes(o)
    BY <1>1, <1>2, <1>v, DoSpliceWrites
<1>5. ops' \in 0..MaxOps /\ mutated' \in BOOLEAN
    BY <1>1 DEF DocInv, TypeOK
<1> HIDE DEF from, to
<1>7. /\ DocInv'
      /\ Txt' = [Txt EXCEPT ![o] = TextOf(o)']
      /\ Ver' = [Ver EXCEPT ![o] = own'[o].version]
    BY <1>1, <1>2, <1>3, <1>4, <1>5, OneWriter
<1>8. Txt[o] = t /\ Ver[o] = own[o].version
    BY <1>2, ValuesOf
<1> HIDE DEF t
<1>9. Ver' = [Ver EXCEPT ![o] = IF from < to \/ x # <<>> THEN Ver[o] + 1 ELSE Ver[o]]
    BY <1>3, <1>7, <1>8 DEF v
<1>10. Txt' = [Txt EXCEPT ![o] = Exchanged(Txt[o], from, to, x)]
    BY <1>3, <1>7, <1>8 DEF t
<1>11. from \in 0..Len(Txt[o]) /\ to \in from..Len(Txt[o])
    BY <1>3, <1>8
<1>12. Values!CopySplice(o)
    BY <1>1, <1>9, <1>10, <1>11, ValuesCopySplice, Zenon
<1> QED
    BY <1>7, <1>12

\* initializeFromOriginal(), or leaving the document as it is: the parts of
\* SetText, Exchange and Restore.
LEMMA RenewedStep ==
    ASSUME DocInv, NEW t \in Seq(Char), NEW v \in Nat, role' = role, ops' \in 0..MaxOps, mutated' \in BOOLEAN,
           Renewed(t, v)
    PROVE  DocInv' /\ Txt' = [Txt EXCEPT ![Main] = t] /\ Ver' = [Ver EXCEPT ![Main] = v]
<1>1. Shape /\ Main \in Live
    BY DocShape
<1>2. Writes(Main)
    BY <1>1, RenewedWrites
<1>3. /\ TextOf(Main)' = t /\ InOrder(Main)'
      /\ own' \in [Owner -> Holding] /\ addText' \in [Cell -> Seq(Char)] /\ pieceList' \in [Cell -> Seq(Piece)]
      /\ own'[Main].version = v
    BY RenewedText
<1>4. /\ DocInv'
      /\ Txt' = [Txt EXCEPT ![Main] = TextOf(Main)']
      /\ Ver' = [Ver EXCEPT ![Main] = own'[Main].version]
    BY <1>1, <1>2, <1>3, OneWriter
<1> QED
    BY <1>3, <1>4

\* What leaves the buffers alone leaves the texts alone.
LEMMA IdleStep ==
    ASSUME DocInv, role' = role, ops' \in 0..MaxOps, mutated' \in BOOLEAN, UNCHANGED <<own, addText, pieceList>>
    PROVE  DocInv' /\ Txt' = Txt /\ Ver' = Ver
<1>1. \A o : TextOf(o)' = TextOf(o)
    BY DEF TextOf
<1>2. \A o : InOrder(o)' = InOrder(o)
    BY <1>1 DEF InOrder
<1>3. Live' = Live /\ TypeOK'
    BY DEF Live, DocInv, TypeOK
<1>4. DocInv'
    BY <1>2, <1>3 DEF DocInv
<1> QED
    BY <1>1, <1>4 DEF Txt, Ver

\* setTextNoVersionBump() sets the document's text.
LEMMA SetTextStep ==
    ASSUME DocInv, NEW t \in Wholes, SetText(t)
    PROVE  DocInv' /\ Values!SetText
<1>1. /\ ops < MaxOps /\ ops' = ops + 1 /\ role' = role
      /\ mutated' = (mutated \/ t # TextOf(Main))
      /\ IF t = TextOf(Main) THEN UNCHANGED <<own, addText, pieceList>> ELSE Renewed(t, own[Main].version)
    BY DEF SetText
<1>2. Main \in Live /\ Main \in Owner /\ own[Main].version \in Nat /\ t \in Seq(Char)
    BY DocShape, OwnerTypes, InsertsAreTexts
<1>3. ops' \in 0..MaxOps /\ mutated' \in BOOLEAN
    BY <1>1, DocumentAssumption DEF DocInv, TypeOK
<1>4. Txt[Main] = TextOf(Main) /\ Ver[Main] = own[Main].version
    BY <1>2, ValuesOf
<1>5. DocInv' /\ Txt' = [Txt EXCEPT ![Main] = t] /\ Ver' = Ver
    <2>1. CASE t = TextOf(Main)
        <3>1. DocInv' /\ Txt' = Txt /\ Ver' = Ver
            BY <1>1, <1>3, <2>1, IdleStep
        <3> QED
            BY <1>4, <2>1, <3>1, ValuesSame
    <2>2. CASE t # TextOf(Main)
        <3>1. DocInv' /\ Txt' = [Txt EXCEPT ![Main] = t] /\ Ver' = [Ver EXCEPT ![Main] = own[Main].version]
            BY <1>1, <1>2, <1>3, <2>2, RenewedStep
        <3> QED
            BY <1>4, <3>1, ValuesSame
    <2> QED
        BY <2>1, <2>2
<1>6. Txt' # Txt <=> t # TextOf(Main)
    <2>1. DOMAIN Txt = Owner
        BY DEF Txt
    <2>2. Txt'[Main] = t
        BY <1>2, <1>5, <2>1
    <2>3. t = TextOf(Main) => Txt' = Txt
        BY <1>4, <1>5, ValuesSame
    <2> QED
        BY <1>4, <2>2, <2>3
<1>7. mutated' = (mutated \/ Txt' # Txt)
    BY <1>1, <1>6
<1>8. Values!SetText
    BY <1>1, <1>5, <1>7, ValuesSetText, Zenon
<1> QED
    BY <1>5, <1>8

\* adoptReadOnlyProjectionText() and tryApplyReplacements() exchange it.
LEMMA ExchangeStep ==
    ASSUME DocInv, NEW t \in Wholes, Exchange(t)
    PROVE  DocInv' /\ Values!Exchange
<1>1. /\ ops = 0 /\ role' = role /\ ops' = ops /\ mutated' = mutated /\ Renewed(t, own[Main].version + 1)
    BY DEF Exchange
<1>2. Main \in Live /\ own[Main].version \in Nat /\ own[Main].version + 1 \in Nat /\ t \in Seq(Char)
    BY DocShape, OwnerTypes, InsertsAreTexts
<1>3. ops' \in 0..MaxOps /\ mutated' \in BOOLEAN
    BY <1>1 DEF DocInv, TypeOK
<1>4. Ver[Main] = own[Main].version
    BY <1>2, ValuesOf
<1>5. DocInv' /\ Txt' = [Txt EXCEPT ![Main] = t] /\ Ver' = [Ver EXCEPT ![Main] = own[Main].version + 1]
    BY <1>1, <1>2, <1>3, RenewedStep
<1>6. Values!Exchange
    BY <1>1, <1>4, <1>5, ValuesExchange, Zenon
<1> QED
    BY <1>5, <1>6

\* bumpVersion() changes no text.
LEMMA CommitStep ==
    ASSUME DocInv, Commit
    PROVE  DocInv' /\ Values!Commit
<1> DEFINE v == IF mutated THEN own[Main].version + 1 ELSE own[Main].version
<1>1. /\ ops > 0 /\ own' = [own EXCEPT ![Main].version = v]
      /\ ops' = 0 /\ mutated' = FALSE /\ role' = role /\ addText' = addText /\ pieceList' = pieceList
    BY DEF Commit
<1>2. Main \in Live /\ Main \in Owner /\ own[Main] \in Holding /\ own[Main].version \in Nat /\ InOrder(Main)
    BY DocShape, OwnerTypes
<1>v. v \in Nat
    <2> DEFINE ov == own[Main].version
    <2>1. ov \in Nat /\ (v = ov \/ v = ov + 1)
        BY <1>2
    <2> HIDE DEF v, ov
    <2> QED
        BY <2>1
<1> HIDE DEF v
<1>3. own' \in [Owner -> Holding]
    <2>1. [own[Main] EXCEPT !.version = v] \in Holding
        BY <1>2, <1>v DEF Holding
    <2> QED
        BY <1>1, <1>2, <2>1 DEF DocInv, TypeOK
<1>4. /\ own'[Main].original = own[Main].original /\ own'[Main].length = own[Main].length
      /\ own'[Main].add = own[Main].add /\ own'[Main].pieces = own[Main].pieces /\ own'[Main].version = v
    BY <1>1, <1>2 DEF DocInv, TypeOK, Holding
<1>5. TextOf(Main)' = TextOf(Main) /\ InOrder(Main)'
    BY <1>1, <1>2, <1>4, SameBuffers
<1>6. Writes(Main)
    BY <1>1 DEF Writes, DocInv, TypeOK
<1>7. ops' \in 0..MaxOps /\ mutated' \in BOOLEAN
    <2>1. MaxOps \in Nat
        BY DocumentAssumption
    <2>2. ops' = 0
        BY <1>1
    <2>3. ops' \in 0..MaxOps
        BY <2>1, <2>2
    <2>4. mutated' \in BOOLEAN
        BY <1>1, Zenon
    <2> QED
        BY <2>3, <2>4
<1>8. addText' \in [Cell -> Seq(Char)] /\ pieceList' \in [Cell -> Seq(Piece)]
    BY <1>1 DEF DocInv, TypeOK
<1>9. /\ DocInv'
      /\ Txt' = [Txt EXCEPT ![Main] = TextOf(Main)']
      /\ Ver' = [Ver EXCEPT ![Main] = own'[Main].version]
    BY <1>1, <1>2, <1>3, <1>5, <1>6, <1>7, <1>8, OneWriter
<1>10. Txt[Main] = TextOf(Main) /\ Ver[Main] = own[Main].version
    BY <1>2, ValuesOf
<1>11. Txt' = Txt
    BY <1>5, <1>9, <1>10, ValuesSame
<1>12. Ver' = [Ver EXCEPT ![Main] = IF mutated THEN Ver[Main] + 1 ELSE Ver[Main]]
    BY <1>4, <1>9, <1>10 DEF v
<1>13. Values!Commit
    BY <1>1, <1>11, <1>12, ValuesCommit, Zenon
<1> QED
    BY <1>9, <1>13

\* A snapshot or a copy starts with the document's text.
LEMMA TakeStep ==
    ASSUME DocInv, NEW o \in Owner, NEW r \in {"snapshot", "copy"}, Take(o, r)
    PROVE  DocInv' /\ Values!Take(o, r)
<1>1. /\ ops = 0 /\ role[o] = "none" /\ role' = [role EXCEPT ![o] = r]
      /\ own' = [own EXCEPT ![o] = own[Main]]
      /\ addText' = addText /\ pieceList' = pieceList /\ ops' = ops /\ mutated' = mutated
    BY DEF Take
<1>2. Main \in Live /\ Main \in Owner /\ own[Main] \in Holding /\ InOrder(Main) /\ o # Main /\ role[Main] = "main"
    BY <1>1, DocShape, OwnerTypes DEF DocInv
<1>3. /\ own'[o] = own[Main] /\ role'[o] = r
      /\ \A q \in Owner \ {o} : own'[q] = own[q] /\ role'[q] = role[q]
    BY <1>1 DEF DocInv, TypeOK
<1>4. TextOf(o)' = TextOf(Main) /\ InOrder(o)'
    BY <1>1, <1>2, <1>3, SameBuffers
<1>5. ASSUME NEW q \in Owner \ {o}
      PROVE  TextOf(q)' = TextOf(q) /\ (InOrder(q) => InOrder(q)')
    BY <1>1, <1>3, SameBuffers
<1>6. DocInv'
    <2>1. TypeOK'
        BY <1>1, <1>2 DEF DocInv, TypeOK, Role
    <2>2. role'[Main] = "main"
        BY <1>2, <1>3
    <2>3. ASSUME NEW q \in Live'  PROVE InOrder(q)'
        <3>1. CASE q = o
            BY <1>4, <3>1
        <3>2. CASE q # o
            <4>1. q \in Owner \ {o} /\ q \in Live
                BY <1>3, <3>2 DEF Live
            <4> QED
                BY <1>5, <4>1 DEF DocInv
        <3> QED
            BY <3>1, <3>2
    <2> QED
        BY <2>1, <2>2, <2>3 DEF DocInv
<1>7. Txt[Main] = TextOf(Main) /\ Ver[Main] = own[Main].version
    BY <1>2, ValuesOf
<1>8. Txt' = [Txt EXCEPT ![o] = Txt[Main]]
    <2>1. \A q \in Owner : (IF role'[q] = "none" THEN <<>> ELSE TextOf(q)')
                           = IF q = o THEN Txt[Main] ELSE IF role[q] = "none" THEN <<>> ELSE TextOf(q)
        BY <1>3, <1>4, <1>5, <1>7
    <2>2. Txt' = [q \in Owner |-> IF q = o THEN Txt[Main] ELSE IF role[q] = "none" THEN <<>> ELSE TextOf(q)]
        <3> DEFINE tm == Txt[Main]
        <3> HIDE DEF tm
        <3>1. \A q \in Owner : (IF role'[q] = "none" THEN <<>> ELSE TextOf(q)')
                               = IF q = o THEN tm ELSE IF role[q] = "none" THEN <<>> ELSE TextOf(q)
            BY <2>1 DEF tm
        <3>2. Txt' = [q \in Owner |-> IF q = o THEN tm ELSE IF role[q] = "none" THEN <<>> ELSE TextOf(q)]
            BY <3>1 DEF Txt
        <3> QED
            BY <3>2 DEF tm
    <2>3. \A y : [Txt EXCEPT ![o] = y] = [q \in Owner |-> IF q = o THEN y ELSE IF role[q] = "none" THEN <<>> ELSE TextOf(q)]
        BY DEF Txt
    <2> QED
        BY <2>2, <2>3
<1>9. Ver' = [Ver EXCEPT ![o] = Ver[Main]]
    <2> DEFINE vm == Ver[Main]
    <2>0. vm = own[Main].version
        BY <1>7
    <2> HIDE DEF vm
    <2>1. \A q \in Owner : (IF role'[q] = "none" THEN 0 ELSE own'[q].version)
                           = IF q = o THEN vm ELSE IF role[q] = "none" THEN 0 ELSE own[q].version
        BY <1>3, <2>0
    <2>2. Ver' = [q \in Owner |-> IF q = o THEN vm ELSE IF role[q] = "none" THEN 0 ELSE own[q].version]
        BY <2>1 DEF Ver
    <2>3. [Ver EXCEPT ![o] = vm] = [q \in Owner |-> IF q = o THEN vm ELSE IF role[q] = "none" THEN 0 ELSE own[q].version]
        BY DEF Ver
    <2> QED
        BY <2>2, <2>3 DEF vm
<1>10. Values!Take(o, r)
    BY <1>1, <1>8, <1>9, ValuesTake, Zenon
<1> QED
    BY <1>6, <1>10

\* restoreFromSnapshot() gives the document the snapshot's text.
LEMMA RestoreStep ==
    ASSUME DocInv, NEW o \in Owner, Restore(o)
    PROVE  DocInv' /\ Values!Restore(o)
<1>1. /\ ops = 0 /\ role[o] = "snapshot" /\ role' = role /\ ops' = ops /\ mutated' = mutated
    BY DEF Restore
<1>2. o \in Live /\ Main \in Live /\ Main \in Owner
    BY <1>1, DocShape, DocumentAssumption DEF Live
<1>3. /\ TextOf(o) \in Seq(Char) /\ Len(TextOf(o)) = own[o].length /\ InOrder(o)
      /\ own[o] \in Holding /\ own[Main].version \in Nat
    BY <1>2, OwnerTypes
<1>4. ops' \in 0..MaxOps /\ mutated' \in BOOLEAN
    BY <1>1 DEF DocInv, TypeOK
<1>5. Txt[o] = TextOf(o) /\ Ver[o] = own[o].version /\ Txt[Main] = TextOf(Main) /\ Ver[Main] = own[Main].version
    BY <1>2, ValuesOf
<1>6. own[o].length = 0 <=> Txt[o] = <<>>
    BY <1>3, <1>5, EmptySeq
<1>7. CASE own[o].length = 0
    <2>1. DocInv' /\ Txt' = [Txt EXCEPT ![Main] = <<>>] /\ Ver' = [Ver EXCEPT ![Main] = own[Main].version]
        <3>1. CASE TextOf(Main) = <<>>
            <4>1. UNCHANGED <<own, addText, pieceList>>
                BY <1>7, <3>1 DEF Restore
            <4>2. DocInv' /\ Txt' = Txt /\ Ver' = Ver
                BY <1>1, <1>4, <4>1, IdleStep
            <4> QED
                BY <1>5, <3>1, <4>2, ValuesSame
        <3>2. CASE TextOf(Main) # <<>>
            <4>1. Renewed(<<>>, own[Main].version)
                BY <1>7, <3>2 DEF Restore
            <4>2. <<>> \in Seq(Char)
                OBVIOUS
            <4> QED
                BY <1>1, <1>3, <1>4, <4>1, <4>2, RenewedStep
        <3> QED
            BY <3>1, <3>2
    <2>2. Txt' = [Txt EXCEPT ![Main] = Txt[o]]
        BY <1>6, <1>7, <2>1
    <2>3. Ver' = [Ver EXCEPT ![Main] = IF Txt[o] = <<>> THEN Ver[Main] ELSE Ver[o]]
        BY <1>5, <1>6, <1>7, <2>1
    <2>4. Values!Restore(o)
        BY <1>1, <2>2, <2>3, ValuesRestore, Zenon
    <2> QED
        BY <2>1, <2>4
<1>8. CASE own[o].length # 0
    <2>1. /\ own' = [own EXCEPT ![Main] = own[o]]
          /\ addText' = Reclaimed(addText, {own'[q].add : q \in Live})
          /\ pieceList' = Reclaimed(pieceList, {own'[q].pieces : q \in Live})
        BY <1>8 DEF Restore
    <2>2. own' \in [Owner -> Holding] /\ own'[Main] = own[o] /\ \A q \in Owner \ {Main} : own'[q] = own[q]
        BY <1>2, <1>3, <2>1 DEF DocInv, TypeOK
    <2>3. addText' \in [Cell -> Seq(Char)] /\ pieceList' \in [Cell -> Seq(Piece)]
        <3>1. <<>> \in Seq(Char) /\ <<>> \in Seq(Piece)
            OBVIOUS
        <3> QED
            BY <2>1, <3>1 DEF Reclaimed, DocInv, TypeOK
    <2>4. ASSUME NEW q \in Live
          PROVE  addText'[own'[q].add] = addText[own'[q].add] /\ pieceList'[own'[q].pieces] = pieceList[own'[q].pieces]
        <3>1. q \in Owner /\ own'[q].add \in Cell /\ own'[q].pieces \in Cell
            BY <2>2 DEF Live, Holding
        <3>2. own'[q].add \in {own'[z].add : z \in Live} /\ own'[q].pieces \in {own'[z].pieces : z \in Live}
            OBVIOUS
        <3> QED
            BY <2>1, <3>1, <3>2 DEF Reclaimed
    <2>5. Writes(Main)
        BY <2>2, <2>4 DEF Writes, Live
    <2>6. TextOf(Main)' = TextOf(o) /\ InOrder(Main)'
        BY <1>2, <1>3, <2>2, <2>4, SameBuffers
    <2>7. /\ DocInv'
          /\ Txt' = [Txt EXCEPT ![Main] = TextOf(Main)']
          /\ Ver' = [Ver EXCEPT ![Main] = own'[Main].version]
        BY <1>1, <1>2, <1>4, <2>2, <2>3, <2>5, <2>6, OneWriter
    <2>8. Txt' = [Txt EXCEPT ![Main] = Txt[o]]
        BY <1>5, <2>6, <2>7
    <2>9. Ver' = [Ver EXCEPT ![Main] = IF Txt[o] = <<>> THEN Ver[Main] ELSE Ver[o]]
        BY <1>5, <1>6, <1>8, <2>2, <2>7
    <2>10. Values!Restore(o)
        BY <1>1, <2>8, <2>9, ValuesRestore, Zenon
    <2> QED
        BY <2>7, <2>10
<1> QED
    BY <1>7, <1>8

\* A destroyed snapshot or copy takes no other's text with it.
LEMMA DropStep ==
    ASSUME DocInv, NEW o \in Owner, Drop(o)
    PROVE  DocInv' /\ Values!Drop(o)
<1> DEFINE h == [original |-> <<>>, add |-> NewCell({}), pieces |-> NewCell({}), length |-> 0, version |-> 0]
<1>1. /\ role[o] \in {"snapshot", "copy"} /\ role' = [role EXCEPT ![o] = "none"]
      /\ own' = [own EXCEPT ![o] = h]
      /\ addText' = Reclaimed(addText, {own[q].add : q \in Live \ {o}})
      /\ pieceList' = Reclaimed(pieceList, {own[q].pieces : q \in Live \ {o}})
      /\ ops' = ops /\ mutated' = mutated
    BY DEF Drop
<1>2. o # Main /\ Main \in Owner
    BY <1>1, DocumentAssumption DEF DocInv
<1>3. h \in Holding
    <2>1. NewCell({}) \in Cell
        <3> DEFINE f == [q \in Owner |-> own[q].add]
        <3>1. f \in [Owner -> Cell] /\ {} = {f[q] : q \in {}}
            BY DEF DocInv, TypeOK, Holding
        <3> QED
            BY <3>1, NewCellIsNew
    <2> QED
        BY <2>1 DEF Holding
<1> HIDE DEF h
<1>4. role'[o] = "none" /\ \A q \in Owner \ {o} : own'[q] = own[q] /\ role'[q] = role[q]
    BY <1>1 DEF DocInv, TypeOK
<1>5. TypeOK'
    <2>1. <<>> \in Seq(Char) /\ <<>> \in Seq(Piece)
        OBVIOUS
    <2>2. addText' \in [Cell -> Seq(Char)] /\ pieceList' \in [Cell -> Seq(Piece)]
        BY <1>1, <2>1 DEF Reclaimed, DocInv, TypeOK
    <2>3. own' \in [Owner -> Holding]
        BY <1>1, <1>3 DEF DocInv, TypeOK
    <2>4. role' \in [Owner -> Role]
        BY <1>1 DEF DocInv, TypeOK, Role
    <2> QED
        BY <1>1, <2>2, <2>3, <2>4 DEF DocInv, TypeOK
<1>6. ASSUME NEW q \in Live \ {o}
      PROVE  TextOf(q)' = TextOf(q) /\ InOrder(q)'
    <2>1. q \in Owner /\ own'[q] = own[q] /\ own[q].add \in Cell /\ own[q].pieces \in Cell /\ InOrder(q)
        BY <1>4, OwnerTypes DEF Live
    <2>2. own[q].add \in {own[z].add : z \in Live \ {o}} /\ own[q].pieces \in {own[z].pieces : z \in Live \ {o}}
        OBVIOUS
    <2>3. addText'[own[q].add] = addText[own[q].add] /\ pieceList'[own[q].pieces] = pieceList[own[q].pieces]
        BY <1>1, <2>1, <2>2 DEF Reclaimed
    <2> QED
        BY <2>1, <2>3, SameBuffers
<1>7. Live' = Live \ {o}
    BY <1>4 DEF Live
<1>8. DocInv'
    BY <1>2, <1>4, <1>5, <1>6, <1>7 DEF DocInv
<1>9. Txt' = [Txt EXCEPT ![o] = <<>>]
    <2>1. \A q \in Owner : (IF role'[q] = "none" THEN <<>> ELSE TextOf(q)')
                           = IF q = o THEN <<>> ELSE IF role[q] = "none" THEN <<>> ELSE TextOf(q)
        BY <1>4, <1>6 DEF Live
    <2> QED
        BY <2>1 DEF Txt
<1>10. Ver' = [Ver EXCEPT ![o] = 0]
    <2>1. \A q \in Owner : (IF role'[q] = "none" THEN 0 ELSE own'[q].version)
                           = IF q = o THEN 0 ELSE IF role[q] = "none" THEN 0 ELSE own[q].version
        BY <1>4
    <2> QED
        BY <2>1 DEF Ver
<1>11. Values!Drop(o)
    BY <1>1, <1>9, <1>10, ValuesDrop, Zenon
<1> QED
    BY <1>8, <1>11
-----------------------------------------------------------------------------
\* The initial document is in order, and empty.
LEMMA InitDoc == Init => DocInv /\ Values!Init
<1> SUFFICES ASSUME Init PROVE DocInv /\ Values!Init
    OBVIOUS
<1>1. Shape /\ Main \in Owner /\ MaxOps \in Nat
    BY InitShape, DocumentAssumption
<1>2. NewCell({}) \in Cell
    <2>1. own[Main].add = NewCell({})
        BY <1>1 DEF Init
    <2> QED
        BY <1>1, <2>1 DEF Shape, Slot
<1> DEFINE h == [original |-> <<>>, add |-> NewCell({}), pieces |-> NewCell({}), length |-> 0, version |-> 0]
<1>3. h \in Holding /\ h.original = <<>> /\ h.add \in Cell /\ h.pieces \in Cell /\ h.length = 0 /\ h.version = 0
    BY <1>2 DEF Holding
<1>4. own = [o \in Owner |-> h]
    BY DEF Init
<1> HIDE DEF h
<1>5. TypeOK
    <2>1. <<>> \in Seq(Char) /\ <<>> \in Seq(Piece)
        OBVIOUS
    <2>2. role \in [Owner -> Role] /\ own \in [Owner -> Holding]
        BY <1>3, <1>4 DEF Init, Role
    <2>3. addText \in [Cell -> Seq(Char)] /\ pieceList \in [Cell -> Seq(Piece)]
        BY <2>1 DEF Init
    <2>4. ops \in 0..MaxOps
        BY <1>1 DEF Init
    <2>5. mutated \in BOOLEAN
        BY Zenon DEF Init
    <2> QED
        BY <2>2, <2>3, <2>4, <2>5 DEF TypeOK
<1>6. ASSUME NEW o \in Owner
      PROVE  TextOf(o) = <<>> /\ InOrder(o)
    <2>1. own[o] = h /\ addText[own[o].add] = <<>> /\ pieceList[own[o].pieces] = <<>>
        BY <1>3, <1>4 DEF Init
    <2>2. Tidy(<<>>, <<>>, <<>>, <<>>)
        BY NoPieces
    <2>3. TextOf(o) = <<>>
        <3>1. TextOf(o) = Text(<<>>, <<>>, <<>>)
            BY <1>3, <2>1 DEF TextOf, Text
        <3>2. <<>> \in Seq(Char)
            OBVIOUS
        <3> QED
            BY <2>2, <3>1, <3>2, TextIs
    <2> QED
        BY <1>3, <2>1, <2>2, <2>3 DEF InOrder
<1>7. DocInv
    BY <1>1, <1>5, <1>6 DEF DocInv, Init, Live
<1>8. Txt = [o \in Owner |-> <<>>]
    BY <1>6 DEF Txt
<1>9. Ver = [o \in Owner |-> 0]
    BY <1>3, <1>4 DEF Ver
<1>10. Values!Init
    BY <1>8, <1>9 DEF Init, Values!Init, Txt, Ver
<1> QED
    BY <1>7, <1>10

\* Every step keeps the documents in order and is one of TextValues, or none.
LEMMA DocStep ==
    ASSUME DocInv, [Next]_vars
    PROVE  DocInv' /\ [Values!Next]_(Values!vars)
<1>0. MaxLength \in Nat
    BY DocumentAssumption
<1>1. ASSUME NEW s \in 0..MaxLength, NEW e \in 0..MaxLength, NEW x \in Inserts, s <= e, Splice(s, e, x)
      PROVE  DocInv' /\ Values!Next
    <2>1. s \in Nat /\ e \in Nat
        BY <1>0
    <2> QED
        BY <1>1, <2>1, SpliceStep DEF Values!Next
<1>2. ASSUME NEW t \in Wholes, SetText(t)
      PROVE  DocInv' /\ Values!Next
    BY <1>2, SetTextStep DEF Values!Next
<1>3. ASSUME NEW t \in Wholes, Exchange(t)
      PROVE  DocInv' /\ Values!Next
    BY <1>3, ExchangeStep DEF Values!Next
<1>4. CASE Commit
    BY <1>4, CommitStep DEF Values!Next
<1>5. ASSUME NEW o \in Owner, OtherOwner(o)
      PROVE  DocInv' /\ Values!Next
    <2>1. CASE Take(o, "snapshot")
        BY <2>1, TakeStep DEF Values!Next
    <2>2. CASE Take(o, "copy")
        BY <2>2, TakeStep DEF Values!Next
    <2>3. CASE Restore(o)
        BY <2>3, RestoreStep DEF Values!Next
    <2>4. CASE Drop(o)
        BY <2>4, DropStep DEF Values!Next
    <2>5. ASSUME NEW s \in 0..MaxLength, NEW e \in 0..MaxLength, NEW x \in Inserts, s <= e, CopySplice(o, s, e, x)
          PROVE  DocInv' /\ Values!Next
        <3>1. s \in Nat /\ e \in Nat
            BY <1>0
        <3> QED
            BY <2>5, <3>1, CopySpliceStep DEF Values!Next
    <2> QED
        BY <1>5, <2>1, <2>2, <2>3, <2>4, <2>5 DEF OtherOwner
<1>6. CASE UNCHANGED vars
    <2>1. /\ role' = role /\ own' = own /\ addText' = addText /\ pieceList' = pieceList
          /\ ops' = ops /\ mutated' = mutated
        BY <1>6 DEF vars
    <2>2. ops' \in 0..MaxOps /\ mutated' \in BOOLEAN
        BY <2>1 DEF DocInv, TypeOK
    <2>3. DocInv' /\ Txt' = Txt /\ Ver' = Ver
        BY <2>1, <2>2, IdleStep
    <2>4. UNCHANGED Values!vars
        BY <2>1, <2>3, Zenon DEF Values!vars, Txt, Ver
    <2> QED
        BY <2>3, <2>4
<1> QED
    BY <1>1, <1>2, <1>3, <1>4, <1>5, <1>6 DEF Next, Edit

\* Documents in order have pieces that fit.
LEMMA DocInvFits == DocInv => PiecesFit
<1> SUFFICES ASSUME DocInv, NEW o \in Live
             PROVE  LET ps == pieceList[own[o].pieces]
                        Buffer(p) == IF p.source = "Original" THEN own[o].original ELSE addText[own[o].add]
                    IN  /\ \A i \in 1..Len(ps) : /\ ps[i].length > 0
                                                 /\ ps[i].start + ps[i].length <= Len(Buffer(ps[i]))
                        /\ Ends(ps)[Len(ps)] = own[o].length
                        /\ \A i \in 1..(Len(ps) - 1) : ~Continues(ps[i], ps[i + 1])
    BY DEF PiecesFit, DocInv
<1>1. InOrder(o)
    BY DEF DocInv
<1> QED
    BY <1>1 DEF InOrder, Tidy, Fits, Full, Spells, Whole, SeamAt, BufferOf

\* For every behaviour: however texts are inserted, erased, replaced and
\* restored, the pieces of the document, of every snapshot and of every copy lie
\* inside their buffers, none is empty or merely continues its neighbour, and
\* their lengths add up to the length the owner has recorded.
THEOREM PiecesAlwaysFit == Spec => []PiecesFit
<1>1. DocInv /\ [Next]_vars => DocInv'
    BY DocStep
<1> QED
    BY InitDoc, DocInvFits, <1>1, PTL DEF Spec

\* The piece table with its copy-on-write sharing implements plain strings:
\* every step of the document, of a copy or of a snapshot does to the texts what
\* TextValues says of it, or leaves them alone.
THEOREM PieceTableImplementsValues == Spec => ImplementsValues
<1>1. DocInv /\ [Next]_vars => DocInv' /\ [Values!Next]_(Values!vars)
    BY DocStep
<1>2. Init => DocInv /\ Values!Init
    BY InitDoc
<1> QED
    BY <1>1, <1>2, PTL DEF Spec, ImplementsValues, Values!Spec
=============================================================================
