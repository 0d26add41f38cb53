---------------------------- MODULE TextDocument ----------------------------
(***************************************************************************)
(* The piece table of mr: TextDocument, its AppendBuffer and its           *)
(* ReadSnapshots.  A document is a list of pieces, each a span of the      *)
(* immutable original buffer or of the append-only add buffer.  Snapshots  *)
(* (undo records, packages for workers) and copies (background macros)     *)
(* share the add buffer and the piece list with the document; whoever      *)
(* writes first copies (ensureUnique, ensureUniquePieces).                 *)
(*                                                                         *)
(* A shared_ptr is a cell; a cell is unique when no other owner has it.    *)
(* The original buffer is never written in place, so it is a value.        *)
(***************************************************************************)
EXTENDS Naturals, FiniteSets, SequencesExt

CONSTANTS
    Char,         \* characters
    Owner, Main,  \* owners of buffers: the editor's document, snapshots, copies
    Cell,         \* the memory a shared_ptr can point to
    MaxLength,    \* bound on the length of a text
    MaxAdd,       \* bound on the length of an add buffer
    MaxInsert,    \* bound on the length of an inserted text
    MaxWhole,     \* bound on the length of a text that is set or loaded
    MaxOps,       \* bound on the operations of one transaction
    MaxVersion    \* bound on the version

ASSUME DocumentAssumption ==
    /\ Main \in Owner
    /\ IsFiniteSet(Owner) /\ IsFiniteSet(Cell)
    /\ Cardinality(Cell) > Cardinality(Owner)
    /\ {MaxLength, MaxAdd, MaxInsert, MaxWhole, MaxOps, MaxVersion} \subseteq Nat

VARIABLES
    role,         \* [Owner -> Role]
    own,          \* what an owner points to: [Owner -> Holding]
    addText,      \* [Cell -> Seq(Char)], the add buffers
    pieceList,    \* [Cell -> Seq(Piece)], the piece lists
    ops,          \* operations of the open transaction applied so far
    mutated       \* tryApply(): one of them changed something

vars == <<role, own, addText, pieceList, ops, mutated>>

Role == {"none", "main", "snapshot", "copy"}

Piece == [source : {"Original", "Add"}, start : Nat, length : Nat]

Holding == [original : Seq(Char), add : Cell, pieces : Cell, length : Nat, version : Nat]

TypeOK ==
    /\ role \in [Owner -> Role]
    /\ own \in [Owner -> Holding]
    /\ addText \in [Cell -> Seq(Char)]
    /\ pieceList \in [Cell -> Seq(Piece)]
    /\ ops \in 0..MaxOps
    /\ mutated \in BOOLEAN
-----------------------------------------------------------------------------
(***************************************************************************)
(* Text.                                                                   *)
(***************************************************************************)

Inserts == UNION {[1..n -> Char] : n \in 0..MaxInsert}
Wholes  == UNION {[1..n -> Char] : n \in 0..MaxWhole}

\* pieceText()
PieceText(p, original, added) ==
    SubSeq(IF p.source = "Original" THEN original ELSE added, p.start + 1, p.start + p.length)

\* text(), after ensureMaterialized()
TextOf(o) ==
    LET ps == pieceList[own[o].pieces]
    IN  FlattenSeq([i \in 1..Len(ps) |-> PieceText(ps[i], own[o].original, addText[own[o].add])])

Clamped(offset, length) == IF offset < length THEN offset ELSE length
-----------------------------------------------------------------------------
(***************************************************************************)
(* Piece lists.                                                            *)
(***************************************************************************)

\* where each piece of ps ends
Ends(ps) ==
    LET e[i \in 0..Len(ps)] == IF i = 0 THEN 0 ELSE e[i - 1] + ps[i].length
    IN  e

\* the number of pieces before offset once it is a piece boundary, and the
\* list with that boundary: splitAt()
SplitIndex(ps, offset) ==
    LET e == Ends(ps)
    IN  CHOOSE i \in 0..Len(ps) : e[i] >= offset /\ \A j \in 0..(i - 1) : e[j] < offset

\* Mutant: the right half starts where the whole piece did.
RightHalfNotMoved(ps, offset) ==
    LET i    == SplitIndex(ps, offset)
        e    == Ends(ps)[i]
        left == ps[i].length - (e - offset)
    IN  IF offset = e THEN ps
        ELSE SubSeq(ps, 1, i - 1)
             \o << [ps[i] EXCEPT !.length = left], [ps[i] EXCEPT !.length = @ - left] >>
             \o SubSeq(ps, i + 1, Len(ps))

SplitAt(ps, offset) ==
    LET i    == SplitIndex(ps, offset)
        e    == Ends(ps)[i]
        left == ps[i].length - (e - offset)
    IN  IF offset = e THEN ps
        ELSE SubSeq(ps, 1, i - 1)
             \o << [ps[i] EXCEPT !.length = left],
                   [ps[i] EXCEPT !.start = @ + left, !.length = @ - left] >>
             \o SubSeq(ps, i + 1, Len(ps))

Continues(p, q) == p.source = q.source /\ p.start + p.length = q.start

\* pieces i and i + 1 become one if the second continues the first
Joined(ps, i) ==
    IF i \in 1..(Len(ps) - 1) /\ Continues(ps[i], ps[i + 1])
    THEN SubSeq(ps, 1, i - 1) \o << [ps[i] EXCEPT !.length = @ + ps[i + 1].length] >>
         \o SubSeq(ps, i + 2, Len(ps))
    ELSE ps

\* Mutant: neighbours are never merged.
NotMerged(ps, i) == ps

\* mergeAdjacentPiecesAt(), for the i-th piece (from 1): first with its left
\* neighbour, then what has become of it with the right one
MergedAt(ps, i) ==
    LET k      == IF i <= Len(ps) THEN i ELSE Len(ps)
        merged == Joined(ps, k - 1)
    IN  Joined(merged, IF Len(merged) < Len(ps) THEN k - 1 ELSE k)

\* eraseNoVersionBump()
Erased(ps, s, e) ==
    LET atStart == SplitAt(ps, s)
        both    == SplitAt(atStart, e)
        i       == SplitIndex(both, s)
        j       == SplitIndex(both, e)
    IN  MergedAt(SubSeq(both, 1, i) \o SubSeq(both, j + 1, Len(both)), i + 1)

\* insertAddSpanNoVersionBump()
Inserted(ps, offset, p) ==
    LET split == SplitAt(ps, offset)
        i     == SplitIndex(split, offset)
    IN  MergedAt(SubSeq(split, 1, i) \o <<p>> \o SubSeq(split, i + 1, Len(split)), i + 1)
-----------------------------------------------------------------------------
(***************************************************************************)
(* Cells.                                                                  *)
(***************************************************************************)

Live == {o \in Owner : role[o] # "none"}

AddCells   == {own[o].add : o \in Live}
PieceCells == {own[o].pieces : o \in Live}

NewCell(used) == CHOOSE c \in Cell : c \notin used

\* Mutant: the add buffer is always appended to in place.
NeverShared(o) == FALSE

\* ~mText.unique()
AddShared(o) == \E p \in Live \ {o} : own[p].add = own[o].add

\* ~mPieces.unique()
PiecesShared(o) == \E p \in Live \ {o} : own[p].pieces = own[o].pieces

\* the cell o writes its add buffer to, after AppendBuffer::ensureUnique()
AddTarget(o) == IF AddShared(o) THEN NewCell(AddCells) ELSE own[o].add

\* the cell o writes its pieces to, after ensureUniquePieces()
PieceTarget(o) == IF PiecesShared(o) THEN NewCell(PieceCells) ELSE own[o].pieces

\* the last shared_ptr to a cell gives it back
Reclaimed(heap, used) == [c \in Cell |-> IF c \in used THEN heap[c] ELSE <<>>]

Init ==
    /\ role = [o \in Owner |-> IF o = Main THEN "main" ELSE "none"]
    /\ own = [o \in Owner |-> [original |-> <<>>, add |-> NewCell({}), pieces |-> NewCell({}),
                               length |-> 0, version |-> 0]]
    /\ addText = [c \in Cell |-> <<>>]
    /\ pieceList = [c \in Cell |-> <<>>]
    /\ ops = 0 /\ mutated = FALSE
-----------------------------------------------------------------------------
(***************************************************************************)
(* Edits.                                                                  *)
(***************************************************************************)

\* the pieces of o with [s, e) erased and, if it is not empty, x inserted
SplicedPieces(o, s, e, x) ==
    LET ps   == pieceList[own[o].pieces]
        span == [source |-> "Add", start |-> Len(addText[own[o].add]), length |-> Len(x)]
        rest == IF s < e THEN Erased(ps, s, e) ELSE ps
    IN  IF x = <<>> THEN rest ELSE Inserted(rest, s, span)

\* mLength after the range is erased and x inserted
LengthAfter(o, s, e, x) ==
    own[o].length - (Clamped(e, own[o].length) - Clamped(s, own[o].length)) + Len(x)

\* replaceNoVersionBump(), and with s = e or x = <<>> the insertion and the
\* erasure: x is appended to the add buffer, the piece list is rewritten.
\* Nothing happens if the range and x are empty.  The new version is v.
DoSplice(o, s, e, x, v) ==
    LET from == Clamped(s, own[o].length)
        to   == Clamped(e, own[o].length)
        a    == IF x = <<>> THEN own[o].add ELSE AddTarget(o)
        p    == IF x = <<>> /\ from = to THEN own[o].pieces ELSE PieceTarget(o)
    IN  /\ Len(addText[own[o].add]) + Len(x) <= MaxAdd
        /\ LengthAfter(o, s, e, x) <= MaxLength
        /\ addText' = [addText EXCEPT ![a] = addText[own[o].add] \o x]
        /\ pieceList' = [pieceList EXCEPT ![p] = SplicedPieces(o, from, to, x)]
        /\ own' = [own EXCEPT ![o].add = a, ![o].pieces = p, ![o].version = v,
                              ![o].length = LengthAfter(o, s, e, x)]

Mutates(o, s, e, x) == x # <<>> \/ Clamped(s, own[o].length) < Clamped(e, own[o].length)

\* one operation of a transaction on the document: applyOperationNoVersionBump()
\* and applyStagedOperationNoVersionBump()
Splice(s, e, x) ==
    /\ ops < MaxOps
    /\ own[Main].version < MaxVersion
    /\ DoSplice(Main, s, e, x, own[Main].version)
    /\ ops' = ops + 1
    /\ mutated' = (mutated \/ Mutates(Main, s, e, x))
    /\ UNCHANGED role

\* backgroundReplaceRange() of a macro running on a worker: TextDocument::replace()
CopySplice(o, s, e, x) ==
    /\ role[o] = "copy"
    /\ own[o].version < MaxVersion
    /\ DoSplice(o, s, e, x, IF Mutates(o, s, e, x) THEN own[o].version + 1 ELSE own[o].version)
    /\ UNCHANGED <<role, ops, mutated>>

\* initializeFromOriginal(): AppendBuffer::clear() and the piece list's clear()
\* in the cells the document may write; its version becomes v
Renewed(t, v) ==
    LET a == AddTarget(Main)
        p == PieceTarget(Main)
        whole == IF t = <<>> THEN <<>>
                 ELSE << [source |-> "Original", start |-> 0, length |-> Len(t)] >>
    IN  /\ addText' = [addText EXCEPT ![a] = <<>>]
        /\ pieceList' = [pieceList EXCEPT ![p] = whole]
        /\ own' = [own EXCEPT ![Main] = [original |-> t, add |-> a, pieces |-> p,
                                         length |-> Len(t), version |-> v]]

\* setTextNoVersionBump()
SetText(t) ==
    /\ ops < MaxOps
    /\ own[Main].version < MaxVersion
    /\ IF t = TextOf(Main) THEN UNCHANGED <<own, addText, pieceList>>
       ELSE Renewed(t, own[Main].version)
    /\ ops' = ops + 1
    /\ mutated' = (mutated \/ t # TextOf(Main))
    /\ UNCHANGED role

\* the end of tryApply(), insert(), erase(), replace(), setText(): bumpVersion()
\* if something was changed
Commit ==
    /\ ops > 0
    /\ own' = [own EXCEPT ![Main].version = IF mutated THEN @ + 1 ELSE @]
    /\ ops' = 0 /\ mutated' = FALSE
    /\ UNCHANGED <<role, addText, pieceList>>

\* adoptReadOnlyProjectionText() and tryApplyReplacements(): a new original
\* buffer with the whole text, one version on
Exchange(t) ==
    /\ ops = 0
    /\ own[Main].version < MaxVersion
    /\ Renewed(t, own[Main].version + 1)
    /\ UNCHANGED <<role, ops, mutated>>
-----------------------------------------------------------------------------
(***************************************************************************)
(* Snapshots and copies.                                                   *)
(***************************************************************************)

\* readSnapshot(), and the copy constructor behind documentCopy()
Take(o, r) ==
    /\ ops = 0
    /\ role[o] = "none"
    /\ role' = [role EXCEPT ![o] = r]
    /\ own' = [own EXCEPT ![o] = own[Main]]
    /\ UNCHANGED <<addText, pieceList, ops, mutated>>

\* restoreFromSnapshot(): an empty snapshot empties the document and leaves
\* its version alone, any other is taken over with its version
Restore(o) ==
    /\ ops = 0
    /\ role[o] = "snapshot"
    /\ IF own[o].length = 0
       THEN IF TextOf(Main) = <<>> THEN UNCHANGED <<own, addText, pieceList>>
            ELSE Renewed(<<>>, own[Main].version)
       ELSE /\ own' = [own EXCEPT ![Main] = own[o]]
            /\ addText' = Reclaimed(addText, {own'[q].add : q \in Live})
            /\ pieceList' = Reclaimed(pieceList, {own'[q].pieces : q \in Live})
    /\ UNCHANGED <<role, ops, mutated>>

\* a snapshot or a copy is destroyed, by any thread
Drop(o) ==
    /\ role[o] \in {"snapshot", "copy"}
    /\ role' = [role EXCEPT ![o] = "none"]
    /\ own' = [own EXCEPT ![o] = [original |-> <<>>, add |-> NewCell({}), pieces |-> NewCell({}),
                                  length |-> 0, version |-> 0]]
    /\ addText' = Reclaimed(addText, {own[q].add : q \in Live \ {o}})
    /\ pieceList' = Reclaimed(pieceList, {own[q].pieces : q \in Live \ {o}})
    /\ UNCHANGED <<ops, mutated>>
-----------------------------------------------------------------------------
Edit == \/ \E s, e \in 0..MaxLength, x \in Inserts : s <= e /\ Splice(s, e, x)
        \/ \E t \in Wholes : SetText(t) \/ Exchange(t)
        \/ Commit

OtherOwner(o) == \/ Take(o, "snapshot") \/ Take(o, "copy") \/ Restore(o) \/ Drop(o)
                 \/ \E s, e \in 0..MaxLength, x \in Inserts : s <= e /\ CopySplice(o, s, e, x)

Next == Edit \/ \E o \in Owner : OtherOwner(o)

Spec == Init /\ [][Next]_vars
-----------------------------------------------------------------------------
(***************************************************************************)
(* Properties.                                                             *)
(***************************************************************************)

\* The pieces of every owner lie inside their buffers, none is empty, their
\* lengths add up to the length the owner has recorded, and no piece merely
\* continues its neighbour: splitting and merging leave no fragments behind.
\* The types are part of it: a length below zero is no length.
PiecesFit ==
    /\ TypeOK
    /\ \A o \in Live :
          LET ps == pieceList[own[o].pieces]
              Buffer(p) == IF p.source = "Original" THEN own[o].original ELSE addText[own[o].add]
          IN  /\ \A i \in 1..Len(ps) : /\ ps[i].length > 0
                                       /\ ps[i].start + ps[i].length <= Len(Buffer(ps[i]))
              /\ Ends(ps)[Len(ps)] = own[o].length
              /\ \A i \in 1..(Len(ps) - 1) : ~Continues(ps[i], ps[i + 1])

\* what a reader of o's buffers sees
Seen(o) == <<own[o], addText[own[o].add], pieceList[own[o].pieces]>>

\* Workers read immutable snapshots: whatever the UI thread and the workers'
\* copies write, the buffers a snapshot refers to do not change while it lives.
SnapshotsFrozen ==
    [][\A o \in Owner : role[o] = "snapshot" /\ role'[o] = "snapshot" => Seen(o)' = Seen(o)]_vars

\* Every owner has a text of its own, edited as TextValues says: the piece
\* table and its copy-on-write sharing cannot be told from plain strings.
Values == INSTANCE TextValues WITH
    text <- [o \in Owner |-> IF role[o] = "none" THEN <<>> ELSE TextOf(o)],
    version <- [o \in Owner |-> IF role[o] = "none" THEN 0 ELSE own[o].version]

ImplementsValues == Values!Spec
=============================================================================
