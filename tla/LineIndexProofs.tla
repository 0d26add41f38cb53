-------------------------- MODULE LineIndexProofs --------------------------
(***************************************************************************)
(* Proofs about the line index and its warmup (LineIndex). For every       *)
(* length of a text, every number of edits, undos and scans, and every     *)
(* stride: the index lies inside the text, lineIndex() is right while no   *)
(* edit has joined or split a CR LF pair, every scan the editor would      *)
(* adopt is a scan of the text as it is, the reservations of the ledger    *)
(* are those of the editor's tasks, and the warmup does not stop short.    *)
(*                                                                         *)
(* The order: numbers and finite sets; line ends in a text, and in a text  *)
(* that was cut or put together; what the operations do to the parts of a  *)
(* document; the two indexes under an edit; documents and snapshots; the   *)
(* ledger of scans; the warmup; undo and redo; the actions; the theorems.  *)
(***************************************************************************)
EXTENDS LineIndex, FiniteSetTheorems, WellFoundedInduction, NaturalsInduction, SequenceTheorems,
        TLAPS

(* The inductive invariant.  Its parts are stated of a document, so that they  *)
(* can be said of the document under edit and of the snapshots alike, and of a *)
(* state of the warmup (a document, the editor's tasks, the scans under way).  *)

\* the characters of a text
Char == {"x", "r", "n"}

\* the fields of a document
Fields == {"id", "text", "version", "starts", "checks", "off", "line", "complete", "total", "packets",
           "reserved", "nextId", "torn"}

\* lines that end at or before an offset
Lines(t, o) == Cardinality(Within(t, 0, o))

\* a document whose index lies inside its text
WellTyped(d) ==
    /\ DOMAIN d = Fields
    /\ d.text \in Seq(Char) /\ Len(d.text) <= MaxLen
    /\ d.id \in Nat /\ d.version \in Nat /\ d.line \in Nat /\ d.total \in Nat /\ d.nextId \in Nat
    /\ d.complete \in BOOLEAN /\ d.torn \in BOOLEAN
    /\ d.off \in 0..Len(d.text)
    /\ d.starts \subseteq 0..Len(d.text) /\ (d.starts # {} => 0 \in d.starts)
    /\ d.checks \subseteq (0..Len(d.text)) \X Nat /\ <<0, 0>> \in d.checks

\* a span that a scan has reserved
Reservation == [id : Nat, s : Nat, e : Nat]

\* a span of the text that is not empty
Fits(d, k) == k.s \in Nat /\ k.e \in Nat /\ k.s < k.e /\ k.e <= Len(d.text)

\* spans that do not overlap
Clear(k, q) == k.e <= q.s \/ q.e <= k.s

\* the ledger: spans of the text, none overlaps another; what is reserved has an
\* id of its own; what is scanned is a scan of the text as it is
Ledger(d) ==
    /\ IsFiniteSet(d.packets) /\ IsFiniteSet(d.reserved)
    /\ \A r \in d.reserved : r \in Reservation /\ Fits(d, r) /\ r.id < d.nextId
    /\ \A p \in d.packets : Fits(d, p) /\ p = ScanSpan(d.text, p.s, p.e, p.res)
    /\ \A p, q \in d.packets : p # q => Clear(p, q)
    /\ \A r, q \in d.reserved : r # q => Clear(r, q) /\ r.id # q.id
    /\ \A p \in d.packets, r \in d.reserved : Clear(p, r)

\* until the index is complete, the spans are behind the indexed prefix, and
\* no scanned one is next to it
Behind(d) ==
    ~d.complete => /\ \A p \in d.packets : p.s > d.off
                   /\ \A r \in d.reserved : r.s >= d.off

\* what the index says of the text is right
RightLines(d) ==
    /\ \A c \in d.checks : c[1] \in {0} \cup Breaks(d.text) /\ c[2] = Lines(d.text, c[1])
    /\ d.line = Lines(d.text, d.off)
    /\ d.complete => d.total = Cardinality(Breaks(d.text)) + 1 /\ \A o \in Breaks(d.text) : o <= d.off

\* ... whichever of the two indexes the document has
Right(d) ==
    ~d.torn => IF Exact(d) THEN d.starts = {0} \cup Breaks(d.text) ELSE RightLines(d)

\* a ledger with nothing in it
Empty(d) == d.packets = {} /\ d.reserved = {}

\* a snapshot on a stack of undo
Kept(d) == WellTyped(d) /\ Right(d) /\ Empty(d)

\* a is older than b; an empty text may have the version of its neighbour
Before(a, b) == a.version <= b.version /\ (a.text # <<>> /\ b.text # <<>> => a.version < b.version)

\* the documents on a stack
On(u) == {u[i] : i \in DOMAIN u}

\* the undos u are older than the document d, and the redos r younger
Stacked(u, d, r) ==
    /\ u \in Seq(On(u)) /\ r \in Seq(On(r))
    /\ \A i \in 1..Len(u) : Kept(u[i]) /\ Before(u[i], d)
    /\ \A i \in 1..Len(r) : Kept(r[i]) /\ Before(d, r[i])
    /\ \A i, j \in 1..Len(u) : i < j => Before(u[i], u[j])
    /\ \A i, j \in 1..Len(r) : i < j => Before(r[j], r[i])
    /\ \A i \in 1..Len(u), j \in 1..Len(r) : Before(u[i], r[j])

\* the scans under way have ids of their own
Flights(fl) ==
    /\ IsFiniteSet(fl)
    /\ \A f \in fl : DOMAIN f = {"id", "doc", "version", "cancelled", "packet"} /\ f.id \in Nat /\ f.cancelled \in BOOLEAN
    /\ \A f, g \in fl : f.id = g.id => f = g

\* the scan of a task
ScanOf(d, fl, t) ==
    \E f \in fl, r \in d.reserved :
        /\ f.id = t.id /\ ~f.cancelled /\ f.doc = d.id /\ f.version = d.version
        /\ r.id = t.res /\ f.packet = ScanSpan(d.text, r.s, r.e, r.id)

\* the tasks of the editor
Warm(m) ==
    /\ m \in [id : Nat, version : Nat, focus : Int, tasks : SUBSET [id : Nat, res : Nat, current : BOOLEAN]]
    /\ IsFiniteSet(m.tasks)

\* every task has its scan and its reservation, and every reservation its task
Linked(d, m, fl) ==
    /\ \A t, u \in m.tasks : t # u => t.id # u.id /\ t.res # u.res
    /\ \A r \in d.reserved : \E t \in m.tasks : t.res = r.id
    /\ \A t \in m.tasks : ScanOf(d, fl, t)
    /\ m.tasks # {} => m.id = d.id /\ m.version = d.version

\* a warmup that was asked for has a task while there is something to scan
Going(d, m) == m # Idle /\ ~Known(d) /\ d.off < Len(d.text) => m.tasks # {}

\* the document under edit
Good(d) == WellTyped(d) /\ Right(d) /\ Ledger(d) /\ Behind(d)

\* the inductive invariant
Inv == Good(doc) /\ Warm(warm) /\ Flights(flight) /\ Linked(doc, warm, flight) /\ Going(doc, warm) /\ Stacked(undos, doc, redos)

(***************************************************************************)
(* Numbers and finite sets.                                                *)
(***************************************************************************)

\* A set of numbers that is not empty has a least one.
LEMMA LeastOf ==
    ASSUME NEW S, S \subseteq Nat, S # {}
    PROVE  \E x \in S : \A y \in S : x <= y
<1> DEFINE Less == {p \in Nat \X Nat : p[1] < p[2]}
<1>1. IsWellFoundedOn(Less, Nat)
    BY NatLessThanWellFounded DEF OpToRel
<1>2. \A x, y \in Nat : <<y, x>> \notin Less => x <= y
    OBVIOUS
<1>3. PICK x \in S : \A y \in S : <<y, x>> \notin Less
    <2> HIDE DEF Less
    <2> QED
        BY <1>1, WFMin
<1> HIDE DEF Less
<1> QED
    BY <1>2, <1>3, Zenon

\* What holds of 0 and passes from each number to the next holds up to n.
LEMMA UpToNumber ==
    ASSUME NEW n \in Nat, NEW S \in SUBSET (0..n), 0 \in S,
           \A i \in 1..n : i - 1 \in S => i \in S
    PROVE  n \in S
<1> SUFFICES ASSUME n \notin S  PROVE FALSE
    OBVIOUS
<1> DEFINE T == (0..n) \ S
<1>1. T \subseteq Nat /\ n \in T
    OBVIOUS
<1>2. PICK x \in T : \A y \in T : x <= y
    <2> HIDE DEF T
    <2> QED
        BY <1>1, LeastOf
<1>3. x \in 1..n /\ x - 1 \in 0..n /\ ~(x <= x - 1)
    BY <1>2
<1> QED
    BY <1>2, <1>3

\* A set of numbers up to n that is not empty has a greatest one.
LEMMA GreatestOf ==
    ASSUME NEW n \in Nat, NEW S, S \subseteq 0..n, S # {}
    PROVE  \E x \in S : \A y \in S : y <= x
<1> DEFINE T == {n - y : y \in S}
<1>1. T \subseteq Nat /\ T # {}
    <2>1. ASSUME NEW y \in S  PROVE n - y \in Nat
        <3>1. y \in 0..n
            OBVIOUS
        <3> QED
            BY <3>1
    <2>2. PICK y : y \in S
        OBVIOUS
    <2>3. n - y \in T
        BY <2>2
    <2> QED
        BY <2>1, <2>3
<1>2. PICK z \in T : \A y \in T : z <= y
    <2> HIDE DEF T
    <2> QED
        BY <1>1, LeastOf
<1>3. PICK x \in S : z = n - x
    BY <1>2
<1>4. ASSUME NEW y \in S  PROVE y <= x
    <2>1. n - x <= n - y
        BY <1>2, <1>3
    <2>2. x \in 0..n /\ y \in 0..n
        OBVIOUS
    <2> QED
        BY <2>1, <2>2
<1> QED
    BY <1>4

\* Max() and Min() of such sets.
LEMMA MaxOf ==
    ASSUME NEW n \in Nat, NEW S, S \subseteq 0..n, S # {}
    PROVE  Max(S) \in S /\ \A y \in S : y <= Max(S)
<1>1. \E x \in S : \A y \in S : x >= y
    <2>1. PICK x \in S : \A y \in S : y <= x
        BY GreatestOf
    <2>2. \A y \in S : x \in Nat /\ y \in Nat
        OBVIOUS
    <2>3. \A y \in S : x >= y
        BY <2>1, <2>2
    <2> QED
        BY <2>3
<1>2. Max(S) \in S /\ \A y \in S : Max(S) >= y
    BY <1>1 DEF Max
<1>3. \A y \in S : y \in Nat
    OBVIOUS
<1> QED
    BY <1>2, <1>3

\* The least number of a set.
LEMMA MinOf ==
    ASSUME NEW S, S \subseteq Nat, S # {}
    PROVE  Min(S) \in S /\ \A y \in S : Min(S) <= y
<1>1. \E x \in S : \A y \in S : x =< y
    BY LeastOf
<1> QED
    BY <1>1 DEF Min

\* Sets of numbers up to n are finite.
LEMMA FiniteUpTo ==
    ASSUME NEW n \in Nat, NEW S, S \subseteq 0..n
    PROVE  IsFiniteSet(S) /\ Cardinality(S) \in Nat
<1>1. IsFiniteSet(0..n)
    BY FS_Interval
<1>2. IsFiniteSet(S)
    BY <1>1, FS_Subset
<1> QED
    BY <1>2, FS_CardinalityType

\* Sets that are mapped onto each other one to one have the same size.
LEMMA SameSize ==
    ASSUME NEW S, NEW T, IsFiniteSet(S), NEW f \in [S -> T],
           \A x, y \in S : f[x] = f[y] => x = y,
           \A z \in T : \E x \in S : f[x] = z
    PROVE  IsFiniteSet(T) /\ Cardinality(T) = Cardinality(S)
<1>1. f \in Bijection(S, T)
    BY DEF Bijection, Injection, Surjection, IsInjective
<1> QED
    BY <1>1, FS_Bijection DEF ExistsBijection

\* Sets without a common element.
LEMMA DisjointSize ==
    ASSUME NEW S, NEW T, IsFiniteSet(S), IsFiniteSet(T), S \cap T = {}
    PROVE  IsFiniteSet(S \cup T) /\ Cardinality(S \cup T) = Cardinality(S) + Cardinality(T)
<1>1. Cardinality(S \cap T) = 0
    BY FS_EmptySet
<1>2. Cardinality(S) \in Nat /\ Cardinality(T) \in Nat
    BY FS_CardinalityType
<1>3. IsFiniteSet(S \cup T) /\ Cardinality(S \cup T) = Cardinality(S) + Cardinality(T) - Cardinality(S \cap T)
    BY FS_Union
<1> QED
    BY <1>1, <1>2, <1>3

\* A finite set of numbers has an element with n others below it, for every n
\* less than its size.
LEMMA NthOf ==
    ASSUME NEW S, S \subseteq Nat, IsFiniteSet(S), NEW n \in Nat, n < Cardinality(S)
    PROVE  \E s \in S : Cardinality({q \in S : q < s}) = n
<1> DEFINE Below(s) == {q \in S : q < s}
           T == {k \in 0..n : \E s \in S : Cardinality(Below(s)) = k}
<1>0. Cardinality(S) \in Nat /\ S # {}
    BY FS_CardinalityType, FS_EmptySet
<1>1. 0 \in T
    <2>1. PICK s \in S : \A y \in S : s <= y
        BY <1>0, LeastOf
    <2>2. Below(s) = {}
        <3>1. \A y \in S : ~(y < s)
            BY <2>1
        <3> QED
            BY <3>1
    <2> QED
        BY <2>2, FS_EmptySet
<1>2. ASSUME NEW k \in 1..n, k - 1 \in T  PROVE k \in T
    <2>1. PICK s \in S : Cardinality(Below(s)) = k - 1
        BY <1>2
    <2> DEFINE U == {q \in S : q > s}
    <2>2. Below(s) \subseteq S
        OBVIOUS
    <2>3. IsFiniteSet(Below(s)) /\ s \notin Below(s)
        <3>1. s \in Nat
            OBVIOUS
        <3>2. s \notin Below(s)
            BY <3>1
        <3> QED
            BY <2>2, <3>2, FS_Subset
    <2>4. Cardinality(Below(s) \cup {s}) = k
        <3>1. Cardinality(Below(s) \cup {s}) = Cardinality(Below(s)) + 1
            <4> HIDE DEF Below
            <4> QED
                BY <2>3, FS_AddElement
        <3> QED
            BY <2>1, <3>1
    <2>5. U # {}
        <3> SUFFICES ASSUME U = {}  PROVE FALSE
            OBVIOUS
        <3>1. \A q \in S : q < s \/ q = s
            <4>1. \A q \in S : ~(q > s) /\ q \in Nat /\ s \in Nat
                OBVIOUS
            <4> QED
                BY <4>1
        <3>2. S = Below(s) \cup {s}
            BY <3>1
        <3>3. Cardinality(S) = k
            BY <2>4, <3>2, Zenon
        <3> QED
            BY <3>3
    <2>6. PICK u \in U : \A y \in U : u <= y
        <3>1. U \subseteq Nat
            OBVIOUS
        <3> HIDE DEF U
        <3> QED
            BY <2>5, <3>1, LeastOf
    <2>7. Below(u) = Below(s) \cup {s}
        <3>0. u \in S /\ u > s /\ u \in Nat /\ s \in Nat /\ \A q \in S : q \in Nat
            BY <2>6
        <3>1. ASSUME NEW q \in S, q < u  PROVE q < s \/ q = s
            <4>1. ~(q > s)
                BY <2>6, <3>0, <3>1
            <4> QED
                BY <3>0, <4>1
        <3>2. ASSUME NEW q \in S, q < s \/ q = s  PROVE q < u
            BY <3>0, <3>2
        <3> QED
            BY <3>1, <3>2
    <2>8. u \in S /\ Cardinality(Below(u)) = k
        BY <2>4, <2>6, <2>7
    <2> QED
        BY <2>8
<1>3. n \in T
    <2>1. T \in SUBSET (0..n)
        OBVIOUS
    <2> HIDE DEF T
    <2> QED
        BY <1>1, <1>2, <2>1, UpToNumber
<1> QED
    BY <1>3

-----------------------------------------------------------------------------
(***************************************************************************)
(* Texts: where lines end, how many end in a range, and what an edit does  *)
(* to the line ends outside of it.                                         *)
(***************************************************************************)

\* Line ends are offsets of the text, and their sets are finite.
LEMMA BreaksAre ==
    ASSUME NEW t \in Seq(Char)
    PROVE  /\ Len(t) \in Nat /\ Breaks(t) \subseteq 1..Len(t) /\ Breaks(t) \subseteq 0..Len(t)
           /\ \A s, e : Within(t, s, e) \subseteq Breaks(t)
           /\ IsFiniteSet(Breaks(t)) /\ Cardinality(Breaks(t)) \in Nat
           /\ \A s, e : IsFiniteSet(Within(t, s, e)) /\ Cardinality(Within(t, s, e)) \in Nat
<1>1. Len(t) \in Nat
    OBVIOUS
<1>2. Breaks(t) \subseteq 1..Len(t)
    BY DEF Breaks
<1>3. Breaks(t) \subseteq 0..Len(t)
    BY <1>1, <1>2
<1>4. \A s, e : Within(t, s, e) \subseteq Breaks(t)
    BY DEF Within
<1>5. \A s, e : Within(t, s, e) \subseteq 0..Len(t)
    BY <1>3, <1>4, Zenon
<1>6. \A s, e : IsFiniteSet(Within(t, s, e)) /\ Cardinality(Within(t, s, e)) \in Nat
    BY <1>1, <1>5, FiniteUpTo
<1>7. IsFiniteSet(Breaks(t)) /\ Cardinality(Breaks(t)) \in Nat
    BY <1>1, <1>3, FiniteUpTo
<1> QED
    BY <1>1, <1>2, <1>3, <1>4, <1>6, <1>7

\* Lines are counted in natural numbers.
LEMMA LinesAre ==
    ASSUME NEW t \in Seq(Char), NEW o
    PROVE  Lines(t, o) \in Nat
    BY BreaksAre DEF Lines

\* A range is counted in two parts.
LEMMA WithinSum ==
    ASSUME NEW t \in Seq(Char), NEW s \in Nat, NEW m \in Nat, NEW e \in Nat, s <= m, m <= e
    PROVE  Cardinality(Within(t, s, e)) = Cardinality(Within(t, s, m)) + Cardinality(Within(t, m, e))
<1> DEFINE A == Within(t, s, m)
           B == Within(t, m, e)
<1>0. \A o \in Breaks(t) : o \in Nat
    BY BreaksAre
<1>1. Within(t, s, e) = A \cup B
    BY <1>0 DEF Within
<1>2. A \cap B = {}
    BY <1>0 DEF Within
<1>3. IsFiniteSet(A) /\ IsFiniteSet(B)
    BY BreaksAre
<1>4. Cardinality(A \cup B) = Cardinality(A) + Cardinality(B)
    <2> HIDE DEF A, B
    <2> QED
        BY <1>2, <1>3, DisjointSize
<1> QED
    BY <1>1, <1>4

\* The lines up to an offset, counted from an earlier one.
LEMMA LinesSum ==
    ASSUME NEW t \in Seq(Char), NEW s \in Nat, NEW e \in Nat, s <= e
    PROVE  Lines(t, e) = Lines(t, s) + Cardinality(Within(t, s, e))
    BY WithinSum DEF Lines

\* Behind the last line end all lines have been counted.
LEMMA LinesAll ==
    ASSUME NEW t \in Seq(Char), NEW o \in Nat, \A b \in Breaks(t) : b <= o
    PROVE  Within(t, 0, o) = Breaks(t) /\ Lines(t, o) = Cardinality(Breaks(t))
<1>1. \A b \in Breaks(t) : b \in Nat /\ 0 < b
    BY BreaksAre
<1>2. Within(t, 0, o) = Breaks(t)
    BY <1>1 DEF Within
<1> QED
    BY <1>2 DEF Lines

\* No line ends at or before offset 0.
LEMMA LinesNone ==
    ASSUME NEW t \in Seq(Char)
    PROVE  Lines(t, 0) = 0
<1>1. \A b \in Breaks(t) : ~(0 < b /\ b <= 0)
    BY BreaksAre
<1>2. Within(t, 0, 0) = {}
    BY <1>1 DEF Within
<1> QED
    BY <1>2, FS_EmptySet DEF Lines

\* directCountLineBreaksInRange() counts the line ends of a range that does not
\* begin between a CR and its LF.
LEMMA CountIsRight ==
    ASSUME NEW t \in Seq(Char), NEW s \in {0} \cup Breaks(t), NEW e \in s..Len(t)
    PROVE  CountLineBreaks(t, s, e) = Cardinality(Within(t, s, e))
<1> DEFINE n == Len(t)
           A == {o \in s + 1..e : t[o] = "r"}
           B == {o \in s + 1..e : t[o] = "n" /\ ~(o > 1 /\ t[o - 1] = "r")}
           cut == CrLf(t, e, e)
           D == IF cut THEN (A \cup B) \ {e} ELSE A \cup B
           W == Within(t, s, e)
           m == [o \in W |-> IF t[o] = "n" /\ o > 1 /\ t[o - 1] = "r" THEN o - 1 ELSE o]
<1>0. n \in Nat /\ s \in Nat /\ e \in Nat /\ s <= e /\ e <= n /\ s <= n
    BY BreaksAre
<1>b. \A o \in 1..n : t[o] = "n" => o \in Breaks(t)
    BY DEF Breaks
<1>c. \A o \in 1..n : t[o] = "r" /\ (o = n \/ t[o + 1] # "n") => o \in Breaks(t)
    BY DEF Breaks
<1>d. \A o \in Breaks(t) : o \in 1..n /\ (t[o] = "n" \/ (t[o] = "r" /\ (o = n \/ t[o + 1] # "n")))
    BY DEF Breaks
<1>s. s > 0 => ~(t[s] = "r" /\ s < n /\ t[s + 1] = "n")
    <2>1. s > 0 => s \in Breaks(t)
        BY <1>0
    <2> QED
        BY <1>0, <1>d, <2>1
<1>w. \A o : o \in W <=> o \in Breaks(t) /\ s < o /\ o <= e
    BY DEF Within
<1>x. cut <=> e > 0 /\ e < n /\ t[e] = "r" /\ t[e + 1] = "n"
    BY DEF CrLf
<1>a. A \subseteq 0..n /\ B \subseteq 0..n
    BY <1>0
<1>1. A \cap B = {}
    OBVIOUS
<1>2. IsFiniteSet(A) /\ IsFiniteSet(B) /\ Cardinality(A) \in Nat /\ Cardinality(B) \in Nat
    <2> HIDE DEF A, B
    <2> QED
        BY <1>0, <1>a, FiniteUpTo
<1>3. IsFiniteSet(A \cup B) /\ Cardinality(A \cup B) = Cardinality(A) + Cardinality(B)
    <2> HIDE DEF A, B
    <2> QED
        BY <1>1, <1>2, DisjointSize
<1>4. cut => e \in A
    BY <1>0, <1>s, <1>x
<1>5. IsFiniteSet(D) /\ Cardinality(D) = (Cardinality(A) + Cardinality(B)) - (IF cut THEN 1 ELSE 0)
    <2>1. CASE cut
        <3>1. e \in A \cup B
            BY <1>4, <2>1
        <3>2. D = (A \cup B) \ {e}
            BY <2>1
        <3> HIDE DEF A, B, D, cut
        <3>3. Cardinality((A \cup B) \ {e}) = Cardinality(A \cup B) - 1 /\ IsFiniteSet((A \cup B) \ {e})
            BY <1>3, <3>1, FS_RemoveElement
        <3>4. IsFiniteSet(D) /\ Cardinality(D) = (Cardinality(A) + Cardinality(B)) - 1
            <4>1. IsFiniteSet(D) /\ Cardinality(D) = Cardinality(A \cup B) - 1
                BY <3>2, <3>3, Zenon
            <4> QED
                BY <1>3, <4>1
        <3>5. (IF cut THEN 1 ELSE 0) = 1
            BY <2>1, Zenon
        <3> QED
            BY <3>4, <3>5, Zenon
    <2>2. CASE ~cut
        <3>1. D = A \cup B
            BY <2>2
        <3> HIDE DEF A, B, D, cut
        <3> QED
            BY <1>2, <1>3, <2>2, <3>1
    <2> QED
        BY <2>1, <2>2
<1>6. CountLineBreaks(t, s, e) = Cardinality(D)
    <2>1. cut => Cardinality(A) + Cardinality(B) > 0
        <3>1. cut => A \cup B # {}
            BY <1>4
        <3> HIDE DEF A, B, cut
        <3>2. cut => Cardinality(A \cup B) # 0
            BY <1>3, <3>1, FS_EmptySet
        <3> QED
            BY <1>2, <1>3, <3>2
    <2>2. CountLineBreaks(t, s, e)
            = Cardinality(A) + Cardinality(B) - (IF Cardinality(A) + Cardinality(B) > 0 /\ cut THEN 1 ELSE 0)
        BY DEF CountLineBreaks
    <2> HIDE DEF A, B, D, cut
    <2> QED
        BY <1>2, <1>5, <2>1, <2>2
<1>7. ASSUME NEW o \in W  PROVE m[o] \in D
    <2>0. o \in 1..n /\ o \in Breaks(t) /\ s < o /\ o <= e
        BY <1>d, <1>w
    <2>1. CASE t[o] = "n" /\ o > 1 /\ t[o - 1] = "r"
        <3>1. m[o] = o - 1
            BY <2>1
        <3>2. o - 1 # s
            BY <1>0, <1>s, <2>0, <2>1
        <3>3. o - 1 \in A /\ o - 1 # e
            BY <1>0, <2>0, <2>1, <3>2
        <3> QED
            BY <3>1, <3>3
    <2>2. CASE ~(t[o] = "n" /\ o > 1 /\ t[o - 1] = "r")
        <3>1. m[o] = o
            BY <2>2
        <3>2. o \in A \cup B
            BY <1>0, <1>d, <2>0, <2>2
        <3>3. cut => o # e
            BY <1>0, <1>d, <1>x, <2>0
        <3> QED
            BY <3>1, <3>2, <3>3
    <2> QED
        BY <2>1, <2>2
<1>8. ASSUME NEW o \in W, NEW q \in W, m[o] = m[q]  PROVE o = q
    <2>0. /\ o \in 1..n /\ o \in Breaks(t) /\ (t[o] = "n" \/ (t[o] = "r" /\ (o = n \/ t[o + 1] # "n")))
          /\ q \in 1..n /\ q \in Breaks(t) /\ (t[q] = "n" \/ (t[q] = "r" /\ (q = n \/ t[q + 1] # "n")))
        BY <1>d, <1>w
    <2>1. m[o] = (IF t[o] = "n" /\ o > 1 /\ t[o - 1] = "r" THEN o - 1 ELSE o)
        OBVIOUS
    <2>2. m[q] = (IF t[q] = "n" /\ q > 1 /\ t[q - 1] = "r" THEN q - 1 ELSE q)
        OBVIOUS
    <2> HIDE DEF m, W
    <2>3. o - 1 = q => ~(t[o] = "n" /\ o > 1 /\ t[o - 1] = "r")
        BY <1>0, <2>0
    <2>4. q - 1 = o => ~(t[q] = "n" /\ q > 1 /\ t[q - 1] = "r")
        BY <1>0, <2>0
    <2>5. o - 1 = q - 1 => o = q
        BY <2>0
    <2> QED
        BY <1>8, <2>1, <2>2, <2>3, <2>4, <2>5
<1>9. ASSUME NEW z \in D  PROVE \E o \in W : m[o] = z
    <2>0. z \in s + 1..e /\ z \in 1..n /\ (z \in A \/ z \in B)
        BY <1>0
    <2>1. CASE t[z] = "r" /\ z < n /\ t[z + 1] = "n"
        <3>1. z # e
            BY <1>0, <1>x, <2>0, <2>1
        <3>2. z + 1 \in 1..n /\ s < z + 1 /\ z + 1 <= e
            BY <1>0, <2>0, <2>1, <3>1
        <3>3. z + 1 \in W
            BY <1>b, <1>w, <2>1, <3>2
        <3>4. m[z + 1] = z
            <4>1. (z + 1) - 1 = z /\ z + 1 > 1
                BY <1>0, <2>0
            <4>2. m[z + 1] = IF t[z + 1] = "n" /\ z + 1 > 1 /\ t[(z + 1) - 1] = "r" THEN (z + 1) - 1 ELSE z + 1
                BY <3>3
            <4> HIDE DEF m
            <4> QED
                BY <2>1, <4>1, <4>2
        <3> QED
            BY <3>3, <3>4
    <2>2. CASE ~(t[z] = "r" /\ z < n /\ t[z + 1] = "n")
        <3>1. t[z] = "r" => z = n \/ t[z + 1] # "n"
            BY <1>0, <2>0, <2>2
        <3>2. z \in Breaks(t)
            BY <1>b, <1>c, <2>0, <3>1
        <3>3. z \in W
            BY <1>0, <1>w, <2>0, <3>2
        <3>4. ~(t[z] = "n" /\ z > 1 /\ t[z - 1] = "r")
            BY <2>0
        <3>5. m[z] = z
            BY <3>3, <3>4
        <3> QED
            BY <3>3, <3>5
    <2> QED
        BY <2>1, <2>2
<1>10. Cardinality(D) = Cardinality(W)
    <2>1. m \in [W -> D]
        BY <1>7
    <2>2. IsFiniteSet(W)
        BY BreaksAre
    <2> HIDE DEF m, W, D
    <2> QED
        BY <1>8, <1>9, <2>1, <2>2, SameSize
<1> QED
    BY <1>6, <1>10

\* a text without a range, and with another text at an offset
Cut(t, s, e) == SubSeq(t, 1, s) \o SubSeq(t, e + 1, Len(t))
Put(t, p, x) == SubSeq(t, 1, p) \o x \o SubSeq(t, p + 1, Len(t))

\* An erased range, character by character.
LEMMA CutText ==
    ASSUME NEW t \in Seq(Char), NEW s \in Nat, NEW e \in Nat, s <= e, e <= Len(t)
    PROVE  /\ Cut(t, s, e) \in Seq(Char) /\ Len(Cut(t, s, e)) = Len(t) - (e - s)
           /\ \A k \in 1..s : Cut(t, s, e)[k] = t[k]
           /\ \A k \in s + 1..Len(t) - (e - s) : Cut(t, s, e)[k] = t[k + (e - s)]
<1> DEFINE a == SubSeq(t, 1, s)
           b == SubSeq(t, e + 1, Len(t))
<1>0. Len(t) \in Nat
    OBVIOUS
<1>1. a \in Seq(Char) /\ Len(a) = s /\ \A k \in 1..s : a[k] = t[k]
    <2>1. SubSeq(t, 1, s) \in Seq(Char)
        BY <1>0
    <2>2. Len(SubSeq(t, 1, s)) = s
        BY <1>0
    <2>3. \A k \in 1..s : SubSeq(t, 1, s)[k] = t[k]
        BY <1>0
    <2> QED
        BY <2>1, <2>2, <2>3
<1>2. b \in Seq(Char) /\ Len(b) = Len(t) - e /\ \A k \in 1..Len(t) - e : b[k] = t[e + k]
    <2>1. SubSeq(t, e + 1, Len(t)) \in Seq(Char)
        BY <1>0
    <2>2. Len(SubSeq(t, e + 1, Len(t))) = Len(t) - e
        BY <1>0
    <2>3. \A k \in 1..Len(t) - e : SubSeq(t, e + 1, Len(t))[k] = t[e + k]
        BY <1>0
    <2> QED
        BY <2>1, <2>2, <2>3
<1>3. Cut(t, s, e) = a \o b
    BY DEF Cut
<1> HIDE DEF a, b
<1>4. a \o b \in Seq(Char) /\ Len(a \o b) = Len(t) - (e - s)
    <2>1. a \o b \in Seq(Char)
        BY <1>1, <1>2
    <2>a. Len(a \o b) = Len(a) + Len(b)
        <3>1. a \in Seq(Char) /\ b \in Seq(Char)
            BY <1>1, <1>2
        <3> QED
            BY <3>1, ConcatProperties
    <2>2. Len(a \o b) = s + (Len(t) - e)
        BY <1>1, <1>2, <2>a, Zenon
    <2>3. s + (Len(t) - e) = Len(t) - (e - s)
        BY <1>0
    <2> QED
        BY <2>1, <2>2, <2>3
<1>5. \A k \in 1..s : (a \o b)[k] = t[k]
    BY <1>0, <1>1, <1>2
<1>6. ASSUME NEW k \in s + 1..Len(t) - (e - s)  PROVE (a \o b)[k] = t[k + (e - s)]
    <2>1. (a \o b)[k] = b[k - s]
        BY <1>0, <1>1, <1>2
    <2>2. k - s \in 1..Len(t) - e /\ e + (k - s) = k + (e - s)
        BY <1>0
    <2>3. b[k - s] = t[e + (k - s)]
        BY <1>2, <2>2
    <2> QED
        BY <2>1, <2>2, <2>3
<1> QED
    BY <1>3, <1>4, <1>5, <1>6

\* The line ends of a text without the range between s and e, when no CR meets
\* an LF there.
LEMMA CutBreaks ==
    ASSUME NEW t \in Seq(Char), NEW s \in Nat, NEW e \in Nat, s <= e, e <= Len(t), ~CrLf(t, s, e),
           NEW u, u = Cut(t, s, e)
    PROVE  /\ \A o \in 1..Len(u) : o < s => (o \in Breaks(u) <=> o \in Breaks(t))
           /\ \A o \in 1..Len(u) : o > s => (o \in Breaks(u) <=> o + (e - s) \in Breaks(t))
           /\ s > 0 => (s \in Breaks(u) <=> t[s] # "x")
<1> DEFINE n == Len(t)
           k == e - s
           l == Len(u)
<1>c. /\ u \in Seq(Char) /\ l = n - k
      /\ \A o \in 1..s : u[o] = t[o]
      /\ \A o \in s + 1..n - k : u[o] = t[o + k]
    BY CutText
<1>0. n \in Nat /\ k \in Nat /\ l \in Nat /\ l = n - k /\ s <= l /\ e = s + k
    <2>1. n \in Nat /\ k \in Nat /\ e = s + k /\ e <= n
        OBVIOUS
    <2> QED
        BY <1>c, <2>1
<1>1. (\A o \in 1..s : u[o] = t[o]) /\ (\A o \in s + 1..l : u[o] = t[o + k])
    BY <1>c
<1>t. \A o : o \in Breaks(t) <=> o \in 1..n /\ (t[o] = "n" \/ (t[o] = "r" /\ (o = n \/ t[o + 1] # "n")))
    BY DEF Breaks
<1>u. \A o : o \in Breaks(u) <=> o \in 1..l /\ (u[o] = "n" \/ (u[o] = "r" /\ (o = l \/ u[o + 1] # "n")))
    BY DEF Breaks
<1>x. ~(s > 0 /\ e < n /\ t[s] = "r" /\ t[e + 1] = "n")
    BY DEF CrLf
<1>y. s > 0 => t[s] \in {"x", "r", "n"}
    BY <1>0 DEF Char
<1> HIDE DEF n, k, l
<1>2. ASSUME NEW o \in 1..l, o < s  PROVE o \in Breaks(u) <=> o \in Breaks(t)
    <2>1. o \in 1..n /\ o \in 1..s /\ o + 1 \in 1..s /\ o # l /\ o # n
        BY <1>0, <1>2
    <2>2. u[o] = t[o] /\ u[o + 1] = t[o + 1]
        BY <1>1, <2>1
    <2> QED
        BY <1>t, <1>u, <2>1, <2>2
<1>3. ASSUME NEW o \in 1..l, o > s  PROVE o \in Breaks(u) <=> o + k \in Breaks(t)
    <2>1. o + k \in 1..n /\ o \in s + 1..l /\ (o = l <=> o + k = n) /\ (o # l => o + 1 \in s + 1..l) /\ (o + 1) + k = (o + k) + 1
        BY <1>0, <1>3
    <2>2. u[o] = t[o + k] /\ (o # l => u[o + 1] = t[(o + k) + 1])
        BY <1>1, <2>1
    <2> QED
        BY <1>t, <1>u, <2>1, <2>2
<1>4. ASSUME s > 0  PROVE s \in Breaks(u) <=> t[s] # "x"
    <2>1. s \in 1..l /\ s \in 1..s /\ (s # l => s + 1 \in s + 1..l) /\ (s + 1) + k = e + 1 /\ (s # l => e < n)
        BY <1>0, <1>4
    <2>2. u[s] = t[s] /\ (s # l => u[s + 1] = t[e + 1])
        BY <1>1, <2>1
    <2> QED
        BY <1>4, <1>u, <1>x, <1>y, <2>1, <2>2
<1> QED
    BY <1>2, <1>3, <1>4 DEF k, l

\* An inserted text, character by character.
LEMMA PutText ==
    ASSUME NEW t \in Seq(Char), NEW x \in Seq(Char), NEW p \in Nat, p <= Len(t)
    PROVE  /\ Put(t, p, x) \in Seq(Char) /\ Len(Put(t, p, x)) = Len(t) + Len(x)
           /\ \A k \in 1..p : Put(t, p, x)[k] = t[k]
           /\ \A k \in 1..Len(x) : Put(t, p, x)[p + k] = x[k]
           /\ \A k \in p + 1..Len(t) : Put(t, p, x)[k + Len(x)] = t[k]
<1> DEFINE a == SubSeq(t, 1, p)
           b == SubSeq(t, p + 1, Len(t))
           n == Len(t)
           m == Len(x)
<1>0. n \in Nat /\ m \in Nat
    OBVIOUS
<1>1. a \in Seq(Char) /\ Len(a) = p /\ \A k \in 1..p : a[k] = t[k]
    <2>1. SubSeq(t, 1, p) \in Seq(Char)
        BY <1>0
    <2>2. Len(SubSeq(t, 1, p)) = p
        BY <1>0
    <2>3. \A k \in 1..p : SubSeq(t, 1, p)[k] = t[k]
        BY <1>0
    <2> QED
        BY <2>1, <2>2, <2>3
<1>2. b \in Seq(Char) /\ Len(b) = n - p /\ \A k \in 1..n - p : b[k] = t[p + k]
    <2>1. SubSeq(t, p + 1, Len(t)) \in Seq(Char)
        BY <1>0
    <2>2. Len(SubSeq(t, p + 1, Len(t))) = Len(t) - p
        BY <1>0
    <2>3. \A k \in 1..Len(t) - p : SubSeq(t, p + 1, Len(t))[k] = t[p + k]
        BY <1>0
    <2> QED
        BY <2>1, <2>2, <2>3
<1> DEFINE ax == a \o x
<1>3. Put(t, p, x) = ax \o b
    BY DEF Put
<1>m. m = Len(x) /\ n = Len(t)
    OBVIOUS
<1> HIDE DEF a, b, n, m
<1>4. ax \in Seq(Char) /\ Len(ax) = p + m /\ (\A k \in 1..p : ax[k] = a[k]) /\ \A k \in 1..m : ax[p + k] = x[k]
    BY <1>0, <1>1, <1>m
<1> HIDE DEF ax
<1>5. ax \o b \in Seq(Char) /\ Len(ax \o b) = n + m
    <2>1. ax \o b \in Seq(Char)
        BY <1>2, <1>4
    <2>a. Len(ax \o b) = Len(ax) + Len(b)
        <3>1. ax \in Seq(Char) /\ b \in Seq(Char)
            BY <1>2, <1>4
        <3> QED
            BY <3>1, ConcatProperties
    <2>2. Len(ax \o b) = (p + m) + (n - p)
        BY <1>2, <1>4, <2>a, Zenon
    <2> QED
        BY <1>0, <2>1, <2>2
<1>6. ASSUME NEW k \in 1..p  PROVE (ax \o b)[k] = t[k]
    BY <1>0, <1>1, <1>2, <1>4
<1>7. ASSUME NEW k \in 1..m  PROVE (ax \o b)[p + k] = x[k]
    BY <1>0, <1>2, <1>4
<1>8. ASSUME NEW k \in p + 1..n  PROVE (ax \o b)[k + m] = t[k]
    <2>1. k - p \in 1..n - p /\ (p + m) + (k - p) = k + m /\ p + (k - p) = k
        BY <1>0
    <2>2. (ax \o b)[(p + m) + (k - p)] = b[k - p]
        BY <1>0, <1>2, <1>4, <2>1, SMTT(60)
    <2> QED
        BY <1>2, <2>1, <2>2
<1> QED
    BY <1>3, <1>5, <1>6, <1>7, <1>8, <1>m

\* An insertion that joins and splits no CR LF pair.
LEMMA NotTorn ==
    ASSUME NEW t \in Seq(Char), NEW x \in Seq(Char), NEW p \in Nat, p <= Len(t), x # <<>>, ~Torn(t, p, x)
    PROVE  /\ Len(x) \in Nat /\ Len(x) > 0
           /\ ~(p > 0 /\ p < Len(t) /\ t[p] = "r" /\ t[p + 1] = "n")
           /\ ~(p > 0 /\ t[p] = "r" /\ x[1] = "n")
           /\ ~(p < Len(t) /\ x[Len(x)] = "r" /\ t[p + 1] = "n")
<1> DEFINE n == Len(t)
           m == Len(x)
<1>0. n \in Nat /\ m \in Nat /\ m > 0
    OBVIOUS
<1>1. ~CrLf(t, p, p) /\ ~CrLf(SubSeq(t, 1, p) \o x, p, p) /\ ~CrLf(x \o SubSeq(t, p + 1, Len(t)), m, m)
    BY DEF Torn
<1>2. ~(p > 0 /\ p < n /\ t[p] = "r" /\ t[p + 1] = "n")
    BY <1>1 DEF CrLf
<1>3. ASSUME p > 0  PROVE ~(t[p] = "r" /\ x[1] = "n")
    <2> DEFINE a == SubSeq(t, 1, p)
    <2>1. a \in Seq(Char)
        BY <1>0
    <2>2. Len(a) = p
        BY <1>0
    <2>3. a[p] = t[p]
        BY <1>0, <1>3
    <2> HIDE DEF a
    <2>4. Len(a \o x) = p + m /\ (a \o x)[p] = a[p] /\ (a \o x)[p + 1] = x[1]
        BY <1>0, <1>3, <2>1, <2>2
    <2>5. ~CrLf(a \o x, p, p)
        BY <1>1 DEF a
    <2> QED
        BY <1>0, <1>3, <2>3, <2>4, <2>5 DEF CrLf
<1>4. ASSUME p < n  PROVE ~(x[m] = "r" /\ t[p + 1] = "n")
    <2> DEFINE b == SubSeq(t, p + 1, Len(t))
    <2>1. b \in Seq(Char)
        BY <1>0
    <2>2. Len(b) = n - p
        BY <1>0
    <2>3. b[1] = t[p + 1]
        BY <1>0, <1>4
    <2> HIDE DEF b
    <2>4. Len(x \o b) = m + (n - p) /\ (x \o b)[m] = x[m] /\ (x \o b)[m + 1] = b[1]
        BY <1>0, <1>4, <2>1, <2>2
    <2>5. ~CrLf(x \o b, m, m)
        BY <1>1 DEF b
    <2> QED
        BY <1>0, <1>4, <2>3, <2>4, <2>5 DEF CrLf
<1> QED
    BY <1>0, <1>2, <1>3, <1>4

\* The line ends after such an insertion.
LEMMA PutBreaks ==
    ASSUME NEW t \in Seq(Char), NEW x \in Seq(Char), NEW p \in Nat, p <= Len(t), x # <<>>, ~Torn(t, p, x),
           NEW u, u = Put(t, p, x)
    PROVE  /\ \A o \in 1..p : o \in Breaks(u) <=> o \in Breaks(t)
           /\ \A o \in 1..Len(x) : p + o \in Breaks(u) <=> o \in Breaks(x)
           /\ \A o \in p + 1..Len(t) : o + Len(x) \in Breaks(u) <=> o \in Breaks(t)
<1> DEFINE n == Len(t)
           m == Len(x)
           l == Len(u)
<1>0. n \in Nat /\ m \in Nat /\ m > 0 /\ l = n + m /\ p <= n /\ p \in Nat /\ l \in Nat
    <2>1. l = n + m
        BY PutText
    <2>2. n \in Nat /\ m \in Nat /\ m > 0
        BY NotTorn
    <2> QED
        BY <2>1, <2>2
<1>1. /\ \A o \in 1..p : u[o] = t[o]
      /\ \A o \in 1..m : u[p + o] = x[o]
      /\ \A o \in p + 1..n : u[o + m] = t[o]
    BY PutText
<1>2. /\ ~(p > 0 /\ p < n /\ t[p] = "r" /\ t[p + 1] = "n")
      /\ ~(p > 0 /\ t[p] = "r" /\ x[1] = "n")
      /\ ~(p < n /\ x[m] = "r" /\ t[p + 1] = "n")
    BY NotTorn
<1>t. \A o : o \in Breaks(t) <=> o \in 1..n /\ (t[o] = "n" \/ (t[o] = "r" /\ (o = n \/ t[o + 1] # "n")))
    BY DEF Breaks
<1>x. \A o : o \in Breaks(x) <=> o \in 1..m /\ (x[o] = "n" \/ (x[o] = "r" /\ (o = m \/ x[o + 1] # "n")))
    BY DEF Breaks
<1>u. \A o : o \in Breaks(u) <=> o \in 1..l /\ (u[o] = "n" \/ (u[o] = "r" /\ (o = l \/ u[o + 1] # "n")))
    BY DEF Breaks
<1> HIDE DEF n, m, l
<1>3. ASSUME NEW o \in 1..p  PROVE o \in Breaks(u) <=> o \in Breaks(t)
    <2>1. o \in 1..n /\ o \in 1..l /\ o # l /\ 1 \in 1..m
        BY <1>0
    <2>2. u[o] = t[o]
        BY <1>1
    <2>3. CASE o < p
        <3>1. o + 1 \in 1..p /\ o # n
            BY <1>0, <2>3
        <3>2. u[o + 1] = t[o + 1]
            BY <1>1, <3>1
        <3> QED
            BY <1>t, <1>u, <2>1, <2>2, <3>1, <3>2
    <2>4. CASE o = p
        <3>1. u[o + 1] = x[1] /\ p > 0
            BY <1>1, <2>1, <2>4
        <3>2. o = n \/ o < n
            BY <1>0, <2>1
        <3> QED
            BY <1>2, <1>t, <1>u, <2>1, <2>2, <2>4, <3>1, <3>2
    <2> QED
        BY <2>3, <2>4
<1>4. ASSUME NEW o \in 1..m  PROVE p + o \in Breaks(u) <=> o \in Breaks(x)
    <2>1. p + o \in 1..l /\ u[p + o] = x[o] /\ (p + o) + 1 = p + (o + 1)
        BY <1>0, <1>1
    <2>2. CASE o < m
        <3>1. o + 1 \in 1..m /\ p + o # l /\ o # m
            BY <1>0, <2>2
        <3>2. u[(p + o) + 1] = x[o + 1]
            BY <1>1, <2>1, <3>1
        <3> QED
            BY <1>u, <1>x, <2>1, <3>1, <3>2
    <2>3. CASE o = m
        <3>1. p = n => p + o = l
            BY <1>0, <2>3
        <3>2. p # n => p + 1 \in p + 1..n /\ (p + o) + 1 = (p + 1) + m /\ p < n
            BY <1>0, <2>3
        <3>3. p # n => u[(p + o) + 1] = t[p + 1]
            BY <1>1, <3>2
        <3> QED
            BY <1>2, <1>u, <1>x, <2>1, <2>3, <3>1, <3>2, <3>3
    <2>4. o < m \/ o = m
        BY <1>0
    <2> QED
        BY <2>2, <2>3, <2>4
<1>5. ASSUME NEW o \in p + 1..n  PROVE o + m \in Breaks(u) <=> o \in Breaks(t)
    <2>1. o \in 1..n /\ o + m \in 1..l /\ (o = n <=> o + m = l) /\ (o + m) + 1 = (o + 1) + m /\ (o # n => o + 1 \in p + 1..n)
        BY <1>0
    <2>2. u[o + m] = t[o] /\ (o # n => u[(o + m) + 1] = t[o + 1])
        BY <1>1, <2>1
    <2> QED
        BY <1>t, <1>u, <2>1, <2>2
<1> QED
    BY <1>3, <1>4, <1>5 DEF n, m

\* A text without line ends has neither CR nor LF.
LEMMA NoBreaks ==
    ASSUME NEW x \in Seq(Char), Breaks(x) = {}
    PROVE  \A i \in 1..Len(x) : x[i] = "x"
<1>1. Len(x) \in Nat
    OBVIOUS
<1>2. \A i \in 1..Len(x) : x[i] # "n"
    BY DEF Breaks
<1>3. \A i \in 1..Len(x) : i # Len(x) => i + 1 \in 1..Len(x)
    BY <1>1
<1>4. \A i \in 1..Len(x) : x[i] # "r"
    BY <1>2, <1>3 DEF Breaks
<1>5. \A i \in 1..Len(x) : x[i] \in {"x", "r", "n"}
    BY DEF Char
<1> QED
    BY <1>2, <1>4, <1>5

-----------------------------------------------------------------------------
(***************************************************************************)
(* What the operations on a document do to its parts.                      *)
(***************************************************************************)

\* the last of a set of checkpoints
Top(S) == CHOOSE c \in S : \A k \in S : k[1] <= c[1]

\* There is one.
LEMMA TopIs ==
    ASSUME NEW n \in Nat, NEW S, S \subseteq (0..n) \X Nat, <<0, 0>> \in S
    PROVE  Top(S) \in S /\ \A k \in S : k[1] <= Top(S)[1]
<1> DEFINE O == {k[1] : k \in S}
<1>1. \A k \in S : k[1] \in 0..n
    OBVIOUS
<1>2. O \subseteq 0..n /\ O # {}
    BY <1>1
<1>3. PICK x \in O : \A y \in O : y <= x
    <2> HIDE DEF O
    <2> QED
        BY <1>2, GreatestOf
<1>4. PICK c \in S : x = c[1]
    BY <1>3
<1>5. \A k \in S : k[1] <= c[1]
    BY <1>3, <1>4
<1> QED
    BY <1>4, <1>5 DEF Top

\* where an offset is after an insertion of n characters at p, and after [s, e)
\* was erased
MovedIn(p, n, o) == IF o > p THEN o + n ELSE o
MovedOut(s, e, o) == IF o >= e THEN o - (e - s) ELSE IF o > s THEN s ELSE o

\* checkpoints that are kept, and checkpoints that are moved
KeptTo(S, p) == {k \in S : k[1] <= p}
ShiftedIn(S, p, n) == {<<MovedIn(p, n, k[1]), k[2]>> : k \in S}
ShiftedOut(S, s, e) == {<<MovedOut(s, e, k[1]), k[2]>> : k \in S}

\* c is d but for its text and its index, and its ledger is empty
Reindexed(c, d) ==
    DOMAIN c = Fields /\ Empty(c) /\ c.nextId = 1 /\ c.id = d.id /\ c.version = d.version

\* the lazy index ends at the last of the checkpoints S
CutOff(c, S) ==
    /\ c.checks = S /\ c.complete = FALSE
    /\ c.off = Top(S)[1] /\ c.line = Top(S)[2] /\ c.total = Top(S)[2] + 1

\* the lazy index is d's, with other offsets
Shifted(c, d, S, o) ==
    c.checks = S /\ c.off = o /\ c.line = d.line /\ c.complete = d.complete /\ c.total = d.total

\* clearLineIndexScanLedger(): nothing but the ledger.
LEMMA ClearLedgerIs ==
    ASSUME NEW d, DOMAIN d = Fields, NEW c, c = ClearLedger(d)
    PROVE  /\ Reindexed(c, d) /\ c.text = d.text /\ c.starts = d.starts /\ c.torn = d.torn
           /\ Shifted(c, d, d.checks, d.off)
    BY DEF ClearLedger, Fields, Empty, Reindexed, Shifted

\* invalidateLazyLineIndexFrom(): the last checkpoint kept is where the index ends.
LEMMA InvalidateFromIs ==
    ASSUME NEW d, DOMAIN d = Fields, NEW p, NEW c, c = InvalidateFrom(d, p)
    PROVE  /\ Reindexed(c, d) /\ c.text = d.text /\ c.starts = d.starts /\ c.torn = d.torn
           /\ CutOff(c, KeptTo(d.checks, p))
    BY DEF InvalidateFrom, ClearLedger, Fields, LastCheck, Top, Empty, Reindexed, CutOff, KeptTo

\* shiftLazyLineIndexForInsertWithoutLineBreak().
LEMMA ShiftForInsertIs ==
    ASSUME NEW d, DOMAIN d = Fields, NEW p, NEW n, NEW c, c = ShiftForInsert(d, p, n)
    PROVE  /\ Reindexed(c, d) /\ c.text = d.text /\ c.starts = d.starts /\ c.torn = d.torn
           /\ Shifted(c, d, ShiftedIn(d.checks, p, n), MovedIn(p, n, d.off))
    BY DEF ShiftForInsert, ClearLedger, Fields, Empty, Reindexed, Shifted, ShiftedIn, MovedIn

\* shiftLazyLineIndexForEraseWithoutLineBreak().
LEMMA ShiftForEraseIs ==
    ASSUME NEW d, DOMAIN d = Fields, NEW s, NEW e, NEW c, c = ShiftForErase(d, s, e)
    PROVE  /\ Reindexed(c, d) /\ c.text = d.text /\ c.starts = d.starts /\ c.torn = d.torn
           /\ Shifted(c, d, ShiftedOut(d.checks, s, e), MovedOut(s, e, d.off))
    BY DEF ShiftForErase, ClearLedger, Fields, Empty, Reindexed, Shifted, ShiftedOut, MovedOut

\* The text of a document exchanged.
LEMMA RetextIs ==
    ASSUME NEW d, DOMAIN d = Fields, NEW u, NEW c, c = [d EXCEPT !.text = u]
    PROVE  /\ DOMAIN c = Fields /\ c.text = u
           /\ c.id = d.id /\ c.version = d.version /\ c.starts = d.starts /\ c.checks = d.checks /\ c.off = d.off
           /\ c.line = d.line /\ c.complete = d.complete /\ c.total = d.total /\ c.torn = d.torn
    BY DEF Fields

\* whether an erasure can keep the lazy index
Preserves(d, s, e) ==
    /\ ~Exact(d) /\ d.complete /\ e - s <= ProbeLimit
    /\ CountLineBreaks(d.text, s, e) = 0 /\ ~CrLf(d.text, s, e)

\* eraseNoVersionBump().
LEMMA ErasedIs ==
    ASSUME NEW d, DOMAIN d = Fields, NEW s, NEW e, s # e, NEW c, c = Erased(d, s, e)
    PROVE  /\ Reindexed(c, d) /\ c.text = Cut(d.text, s, e)
           /\ c.torn = (d.torn \/ CrLf(d.text, s, e))
           /\ c.starts = IF Exact(d) THEN StartsAfterErase(d, Cut(d.text, s, e), s, e) ELSE {}
           /\ Preserves(d, s, e) => Shifted(c, d, ShiftedOut(d.checks, s, e), MovedOut(s, e, d.off))
           /\ ~Preserves(d, s, e) => CutOff(c, KeptTo(d.checks, s))
<1> DEFINE u == Cut(d.text, s, e)
           a == [d EXCEPT !.text = u]
           z == IF Preserves(d, s, e) THEN ShiftForErase(a, s, e) ELSE InvalidateFrom(a, s)
           X == IF Exact(d) THEN StartsAfterErase(d, u, s, e) ELSE {}
           b == CrLf(d.text, s, e)
<1>1. c = [z EXCEPT !.starts = X, !.torn = @ \/ b]
    BY DEF Erased, Cut, Preserves
<1>2. /\ DOMAIN a = Fields /\ a.text = u
      /\ a.id = d.id /\ a.version = d.version /\ a.checks = d.checks /\ a.off = d.off
      /\ a.line = d.line /\ a.complete = d.complete /\ a.total = d.total /\ a.torn = d.torn
    BY RetextIs
<1>a. Preserves(d, s, e) => z = ShiftForErase(a, s, e)
    BY Zenon
<1>b. ~Preserves(d, s, e) => z = InvalidateFrom(a, s)
    BY Zenon
<1>c. X = IF Exact(d) THEN StartsAfterErase(d, Cut(d.text, s, e), s, e) ELSE {}
    OBVIOUS
<1>d. u = Cut(d.text, s, e) /\ b = CrLf(d.text, s, e)
    OBVIOUS
<1> HIDE DEF a, u, z, X, b
<1>3. ASSUME Preserves(d, s, e)
      PROVE  /\ Reindexed(z, a) /\ z.text = a.text /\ z.torn = a.torn
             /\ Shifted(z, a, ShiftedOut(a.checks, s, e), MovedOut(s, e, a.off))
    BY <1>2, <1>3, <1>a, ShiftForEraseIs
<1>4. ASSUME ~Preserves(d, s, e)
      PROVE  /\ Reindexed(z, a) /\ z.text = a.text /\ z.torn = a.torn
             /\ CutOff(z, KeptTo(a.checks, s))
    BY <1>2, <1>4, <1>b, InvalidateFromIs
<1>5. Reindexed(z, a) /\ z.text = a.text /\ z.torn = a.torn
    BY <1>3, <1>4
<1>6. DOMAIN z = Fields
    BY <1>5 DEF Reindexed
<1>7. /\ DOMAIN c = Fields /\ c.starts = X /\ c.torn = (z.torn \/ b)
      /\ c.id = z.id /\ c.version = z.version /\ c.text = z.text /\ c.checks = z.checks /\ c.off = z.off
      /\ c.line = z.line /\ c.complete = z.complete /\ c.total = z.total
      /\ c.packets = z.packets /\ c.reserved = z.reserved /\ c.nextId = z.nextId
    BY <1>1, <1>6 DEF Fields
<1>8. Reindexed(c, d)
    BY <1>2, <1>5, <1>7 DEF Reindexed, Empty
<1>9. c.text = Cut(d.text, s, e) /\ c.torn = (d.torn \/ CrLf(d.text, s, e))
    BY <1>2, <1>5, <1>7, <1>d
<1>10. Preserves(d, s, e) => Shifted(c, d, ShiftedOut(d.checks, s, e), MovedOut(s, e, d.off))
    BY <1>2, <1>3, <1>7 DEF Shifted
<1>11. ~Preserves(d, s, e) => CutOff(c, KeptTo(d.checks, s))
    BY <1>2, <1>4, <1>7 DEF CutOff
<1> QED
    BY <1>7, <1>8, <1>9, <1>10, <1>11, <1>c

\* insertAddSpanNoVersionBump().
LEMMA InsertedIs ==
    ASSUME NEW d, DOMAIN d = Fields, NEW p, NEW x, x # <<>>, NEW c, c = Inserted(d, p, x)
    PROVE  /\ Reindexed(c, d) /\ c.text = Put(d.text, p, x)
           /\ c.torn = (d.torn \/ Torn(d.text, p, x))
           /\ c.starts = IF Exact(d) THEN StartsAfterInsert(d, p, x) ELSE {}
           /\ Breaks(x) = {} => Shifted(c, d, ShiftedIn(d.checks, p, Len(x)), MovedIn(p, Len(x), d.off))
           /\ Breaks(x) # {} => CutOff(c, KeptTo(d.checks, p))
<1> DEFINE u == Put(d.text, p, x)
           n == Len(x)
           a == [d EXCEPT !.text = u]
           z == IF Breaks(x) # {} THEN InvalidateFrom(a, p) ELSE ShiftForInsert(a, p, n)
           X == IF Exact(d) THEN StartsAfterInsert(d, p, x) ELSE {}
           b == Torn(d.text, p, x)
<1>1. c = [z EXCEPT !.starts = X, !.torn = @ \/ b]
    BY DEF Inserted, Put
<1>2. /\ DOMAIN a = Fields /\ a.text = u
      /\ a.id = d.id /\ a.version = d.version /\ a.checks = d.checks /\ a.off = d.off
      /\ a.line = d.line /\ a.complete = d.complete /\ a.total = d.total /\ a.torn = d.torn
    BY RetextIs
<1>a. Breaks(x) = {} => z = ShiftForInsert(a, p, n)
    BY Zenon
<1>b. Breaks(x) # {} => z = InvalidateFrom(a, p)
    BY Zenon
<1>c. X = IF Exact(d) THEN StartsAfterInsert(d, p, x) ELSE {}
    OBVIOUS
<1>d. u = Put(d.text, p, x) /\ b = Torn(d.text, p, x) /\ n = Len(x)
    OBVIOUS
<1> HIDE DEF a, u, z, X, b, n
<1>3. ASSUME Breaks(x) = {}
      PROVE  /\ Reindexed(z, a) /\ z.text = a.text /\ z.torn = a.torn
             /\ Shifted(z, a, ShiftedIn(a.checks, p, n), MovedIn(p, n, a.off))
    BY <1>2, <1>3, <1>a, ShiftForInsertIs
<1>4. ASSUME Breaks(x) # {}
      PROVE  /\ Reindexed(z, a) /\ z.text = a.text /\ z.torn = a.torn
             /\ CutOff(z, KeptTo(a.checks, p))
    BY <1>2, <1>4, <1>b, InvalidateFromIs
<1>5. Reindexed(z, a) /\ z.text = a.text /\ z.torn = a.torn
    BY <1>3, <1>4
<1>6. DOMAIN z = Fields
    BY <1>5 DEF Reindexed
<1>7. /\ DOMAIN c = Fields /\ c.starts = X /\ c.torn = (z.torn \/ b)
      /\ c.id = z.id /\ c.version = z.version /\ c.text = z.text /\ c.checks = z.checks /\ c.off = z.off
      /\ c.line = z.line /\ c.complete = z.complete /\ c.total = z.total
      /\ c.packets = z.packets /\ c.reserved = z.reserved /\ c.nextId = z.nextId
    BY <1>1, <1>6 DEF Fields
<1>8. Reindexed(c, d)
    BY <1>2, <1>5, <1>7 DEF Reindexed, Empty
<1>9. c.text = Put(d.text, p, x) /\ c.torn = (d.torn \/ Torn(d.text, p, x))
    BY <1>2, <1>5, <1>7, <1>d
<1>10. Breaks(x) = {} => Shifted(c, d, ShiftedIn(d.checks, p, Len(x)), MovedIn(p, Len(x), d.off))
    BY <1>2, <1>3, <1>7, <1>d DEF Shifted
<1>11. Breaks(x) # {} => CutOff(c, KeptTo(d.checks, p))
    BY <1>2, <1>4, <1>7 DEF CutOff
<1> QED
    BY <1>7, <1>8, <1>9, <1>10, <1>11, <1>c

-----------------------------------------------------------------------------
(***************************************************************************)
(* The index after an edit.                                                *)
(***************************************************************************)

\* f takes the offsets of a text to those of another, and line ends to line ends
Carries(t, u, f) ==
    /\ f \in [0..Len(t) -> 0..Len(u)] /\ f[0] = 0
    /\ \A a, b \in 0..Len(t) : a <= b => f[a] <= f[b]
    /\ \A a, b \in Breaks(t) : f[a] = f[b] => a = b
    /\ \A a \in Breaks(t) : f[a] \in Breaks(u)
    /\ \A q \in Breaks(u) : \E a \in Breaks(t) : f[a] = q

\* The lines up to an offset that no line end behind it is joined with.
LEMMA CarriedLines ==
    ASSUME NEW t \in Seq(Char), NEW u \in Seq(Char), NEW f, Carries(t, u, f),
           NEW o \in 0..Len(t), \A a \in Breaks(t) : a > o => f[a] > f[o]
    PROVE  Lines(u, f[o]) = Lines(t, o)
<1> DEFINE S == Within(t, 0, o)
           T == Within(u, 0, f[o])
           g == [a \in S |-> f[a]]
<1>1. /\ Breaks(t) \subseteq 1..Len(t) /\ Breaks(u) \subseteq 1..Len(u) /\ S \subseteq Breaks(t) /\ IsFiniteSet(S)
      /\ Len(t) \in Nat /\ Len(u) \in Nat
    BY BreaksAre
<1>2. \A a \in Breaks(t) : a \in 0..Len(t) /\ a > 0 /\ f[a] \in 1..Len(u) /\ f[a] \in Breaks(u)
    BY <1>1 DEF Carries
<1>3. f[o] \in 0..Len(u)
    BY DEF Carries
<1>4. ASSUME NEW a \in S PROVE f[a] \in T
    <2>1. a \in Breaks(t) /\ a <= o
        BY <1>4 DEF Within
    <2>2. f[a] <= f[o]
        BY <1>2, <2>1 DEF Carries
    <2> QED
        BY <1>2, <2>1, <2>2 DEF Within
<1>5. g \in [S -> T]
    BY <1>4
<1>6. \A a, b \in S : g[a] = g[b] => a = b
    BY <1>1 DEF Carries
<1>7. ASSUME NEW q \in T PROVE \E a \in S : g[a] = q
    <2>1. q \in Breaks(u) /\ q <= f[o]
        BY <1>7 DEF Within
    <2>2. PICK a \in Breaks(t) : f[a] = q
        BY <2>1 DEF Carries
    <2>3. ~(a > o)
        BY <2>1, <2>2, <1>2, <1>3
    <2>4. a \in S
        BY <2>3, <1>2 DEF Within
    <2> QED
        BY <2>2, <2>4
<1> HIDE DEF S, T, g
<1>8. Cardinality(T) = Cardinality(S)
    BY <1>1, <1>5, <1>6, <1>7, SameSize
<1> QED
    BY <1>8 DEF S, T, Lines

\* The number of lines.
LEMMA CarriedTotal ==
    ASSUME NEW t \in Seq(Char), NEW u \in Seq(Char), NEW f, Carries(t, u, f)
    PROVE  Cardinality(Breaks(u)) = Cardinality(Breaks(t))
<1> DEFINE S == Breaks(t)
           T == Breaks(u)
           g == [a \in S |-> f[a]]
<1>1. IsFiniteSet(S)
    BY BreaksAre
<1>2. g \in [S -> T]
    BY DEF Carries
<1>3. \A a, b \in S : g[a] = g[b] => a = b
    BY DEF Carries
<1>4. \A q \in T : \E a \in S : g[a] = q
    BY DEF Carries
<1> HIDE DEF S, T, g
<1>5. Cardinality(T) = Cardinality(S)
    BY <1>1, <1>2, <1>3, <1>4, SameSize
<1> QED
    BY <1>5 DEF S, T

\* the types of the lazy index
LazyTyped(d) ==
    /\ d.line \in Nat /\ d.total \in Nat /\ d.complete \in BOOLEAN /\ d.off \in 0..Len(d.text)
    /\ d.checks \subseteq (0..Len(d.text)) \X Nat /\ <<0, 0>> \in d.checks

\* A lazy index that is moved is right again.
LEMMA ShiftedRight ==
    ASSUME NEW d, WellTyped(d), NEW c, c.text \in Seq(Char), NEW f, Carries(d.text, c.text, f),
           Shifted(c, d, {<<f[k[1]], k[2]>> : k \in d.checks}, f[d.off]),
           RightLines(d), d.complete \/ \A a \in Breaks(d.text) : a > d.off => f[a] > f[d.off]
    PROVE  RightLines(c)
<1> DEFINE t == d.text
           u == c.text
           C == {0} \cup Breaks(t)
<1>1. /\ t \in Seq(Char) /\ u \in Seq(Char) /\ d.off \in 0..Len(t) /\ Len(t) \in Nat /\ Len(u) \in Nat
      /\ d.complete \in BOOLEAN
    BY BreaksAre DEF WellTyped
<1>2. /\ c.checks = {<<f[k[1]], k[2]>> : k \in d.checks} /\ c.off = f[d.off]
      /\ c.line = d.line /\ c.complete = d.complete /\ c.total = d.total
    BY DEF Shifted
<1>3. /\ \A k \in d.checks : k[1] \in C /\ k[2] = Lines(t, k[1])
      /\ d.line = Lines(t, d.off)
      /\ d.complete => d.total = Cardinality(Breaks(t)) + 1 /\ \A o \in Breaks(t) : o <= d.off
    BY DEF RightLines
<1>4. Carries(t, u, f)
    OBVIOUS
<1>5. /\ \A b \in Breaks(t) : b \in 1..Len(t) /\ b \in 0..Len(t)
      /\ \A b \in Breaks(u) : b \in 1..Len(u)
    BY <1>1, BreaksAre
<1> HIDE DEF t, u
<1>6. /\ \A a \in 0..Len(t) : f[a] \in 0..Len(u)
      /\ f[0] = 0
      /\ \A a, b \in 0..Len(t) : a <= b => f[a] <= f[b]
      /\ \A a, b \in Breaks(t) : f[a] = f[b] => a = b
      /\ \A a \in Breaks(t) : f[a] \in Breaks(u)
      /\ \A q \in Breaks(u) : \E a \in Breaks(t) : f[a] = q
    BY <1>4 DEF Carries
<1>7. ASSUME NEW o \in C PROVE f[o] \in {0} \cup Breaks(u) /\ Lines(u, f[o]) = Lines(t, o)
    <2>1. o \in 0..Len(t)
        BY <1>1, <1>5
    <2>2. \A a \in Breaks(t) : a > o => f[a] > f[o]
        <3>1. CASE o = 0
            BY <1>5, <1>6, <3>1
        <3>2. CASE o \in Breaks(t)
            <4> TAKE a \in Breaks(t)
            <4> HAVE a > o
            <4>1. a \in 0..Len(t) /\ o \in 0..Len(t)
                BY <1>5, <3>2
            <4>2. a \in 0..Len(t) /\ o \in 0..Len(t) /\ o <= a /\ o # a
                BY <1>1, <4>1
            <4>3. f[o] <= f[a]
                BY <1>6, <4>2
            <4>4. f[o] <= f[a] /\ f[o] # f[a]
                BY <1>6, <3>2, <4>2, <4>3
            <4> QED
                BY <4>4, <1>5, <1>6, <3>2
        <3> QED
            BY <3>1, <3>2
    <2>3. Lines(u, f[o]) = Lines(t, o)
        BY <1>1, <1>4, <2>1, <2>2, CarriedLines
    <2> QED
        BY <2>3, <1>6
<1>8. \A k \in c.checks : k[1] \in {0} \cup Breaks(u) /\ k[2] = Lines(u, k[1])
    <2> SUFFICES ASSUME NEW k \in c.checks PROVE k[1] \in {0} \cup Breaks(u) /\ k[2] = Lines(u, k[1])
        OBVIOUS
    <2>1. PICK j \in d.checks : k = <<f[j[1]], j[2]>>
        BY <1>2
    <2>2. k[1] = f[j[1]] /\ k[2] = j[2]
        BY <2>1
    <2>3. j[1] \in C /\ j[2] = Lines(t, j[1])
        BY <1>3
    <2> HIDE DEF C
    <2> QED
        BY <2>2, <2>3, <1>7
<1>9. d.complete => \A q \in Breaks(u) : q <= c.off
    BY <1>1, <1>2, <1>3, <1>5, <1>6
<1>10. c.line = Lines(u, c.off)
    <2>1. CASE d.complete
        <3>1. \A q \in Breaks(u) : q <= c.off
            BY <2>1, <1>9
        <3>2. c.off \in Nat /\ d.off \in Nat
            BY <1>1, <1>2, <1>6
        <3>3. Lines(u, c.off) = Cardinality(Breaks(u))
            BY <1>1, <3>1, <3>2, LinesAll
        <3>4. Lines(t, d.off) = Cardinality(Breaks(t))
            BY <1>1, <1>3, <2>1, <3>2, LinesAll
        <3> QED
            BY <1>1, <1>2, <1>3, <1>4, <3>3, <3>4, CarriedTotal
    <2>2. CASE ~d.complete
        <3>1. \A a \in Breaks(t) : a > d.off => f[a] > f[d.off]
            BY <2>2 DEF t
        <3>2. Lines(u, f[d.off]) = Lines(t, d.off)
            BY <1>1, <1>4, <3>1, CarriedLines
        <3> QED
            BY <3>2, <1>2, <1>3
    <2> QED
        BY <2>1, <2>2
<1>11. c.complete => c.total = Cardinality(Breaks(u)) + 1 /\ \A o \in Breaks(u) : o <= c.off
    <2>1. Cardinality(Breaks(u)) = Cardinality(Breaks(t))
        BY <1>1, <1>4, CarriedTotal
    <2> QED
        BY <2>1, <1>2, <1>3, <1>9
<1> QED
    BY <1>8, <1>10, <1>11 DEF RightLines, u

\* It stays inside the text.
LEMMA ShiftedTyped ==
    ASSUME NEW d, WellTyped(d), NEW c, c.text \in Seq(Char), NEW f \in [0..Len(d.text) -> 0..Len(c.text)], f[0] = 0,
           Shifted(c, d, {<<f[k[1]], k[2]>> : k \in d.checks}, f[d.off])
    PROVE  LazyTyped(c)
<1>1. /\ d.off \in 0..Len(d.text) /\ d.line \in Nat /\ d.total \in Nat /\ d.complete \in BOOLEAN
      /\ d.checks \subseteq (0..Len(d.text)) \X Nat /\ <<0, 0>> \in d.checks
    BY DEF WellTyped
<1>2. /\ c.checks = {<<f[k[1]], k[2]>> : k \in d.checks} /\ c.off = f[d.off]
      /\ c.line = d.line /\ c.complete = d.complete /\ c.total = d.total
    BY DEF Shifted
<1>3. \A k \in d.checks : f[k[1]] \in 0..Len(c.text) /\ k[2] \in Nat
    BY <1>1
<1>4. c.checks \subseteq (0..Len(c.text)) \X Nat
    BY <1>2, <1>3
<1>5. <<0, 0>> \in c.checks
    BY <1>1, <1>2
<1> QED
    BY <1>1, <1>2, <1>4, <1>5 DEF LazyTyped

\* An index that is cut off at an edit stays inside the text.
LEMMA CutOffTyped ==
    ASSUME NEW d, WellTyped(d), NEW p \in 0..Len(d.text), NEW c, c.text \in Seq(Char), p <= Len(c.text),
           CutOff(c, KeptTo(d.checks, p))
    PROVE  /\ LazyTyped(c) /\ c.complete = FALSE
           /\ <<c.off, c.line>> \in c.checks /\ c.checks \subseteq d.checks /\ \A k \in c.checks : k[1] <= p
<1> DEFINE S == KeptTo(d.checks, p)
           n == Len(c.text)
<1>1. d.checks \subseteq (0..Len(d.text)) \X Nat /\ <<0, 0>> \in d.checks /\ Len(d.text) \in Nat /\ n \in Nat
    BY DEF WellTyped
<1>2. \A k \in S : k \in d.checks /\ k[1] <= p /\ k[1] \in 0..n /\ k[2] \in Nat /\ k = <<k[1], k[2]>>
    BY <1>1 DEF KeptTo
<1>3. S \subseteq (0..n) \X Nat
    BY <1>2
<1>4. <<0, 0>> \in S
    BY <1>1 DEF KeptTo
<1>5. /\ c.checks = S /\ c.complete = FALSE
      /\ c.off = Top(S)[1] /\ c.line = Top(S)[2] /\ c.total = Top(S)[2] + 1
    BY DEF CutOff
<1>6. n = Len(c.text)
    OBVIOUS
<1> HIDE DEF S, n
<1>7. Top(S) \in S
    BY <1>1, <1>3, <1>4, TopIs
<1>8. c.off \in 0..n /\ c.line \in Nat /\ c.total \in Nat /\ <<c.off, c.line>> \in S
    BY <1>2, <1>5, <1>7
<1> QED
    BY <1>2, <1>3, <1>4, <1>5, <1>6, <1>8 DEF LazyTyped

\* It is right, when the line ends up to the edit are the same.
LEMMA CutOffRight ==
    ASSUME NEW d, WellTyped(d), NEW p \in 0..Len(d.text), NEW c, c.text \in Seq(Char), p <= Len(c.text),
           CutOff(c, KeptTo(d.checks, p)), RightLines(d),
           \A o \in Breaks(d.text) : o <= p => o \in Breaks(c.text),
           \A o \in Breaks(c.text) : o < p => o \in Breaks(d.text)
    PROVE  RightLines(c)
<1> DEFINE t == d.text
           u == c.text
<1>1. /\ t \in Seq(Char) /\ u \in Seq(Char) /\ Len(t) \in Nat /\ Len(u) \in Nat
    BY BreaksAre DEF WellTyped
<1>2. \A k \in d.checks : k[1] \in {0} \cup Breaks(t) /\ k[2] = Lines(t, k[1])
    BY DEF RightLines
<1>3. /\ c.complete = FALSE
      /\ <<c.off, c.line>> \in c.checks /\ c.checks \subseteq d.checks /\ \A k \in c.checks : k[1] <= p
    BY CutOffTyped
<1>4. /\ \A o \in Breaks(t) : o \in 1..Len(t) /\ (o <= p => o \in Breaks(u))
      /\ \A o \in Breaks(u) : o \in 1..Len(u) /\ (o < p => o \in Breaks(t))
    BY <1>1, BreaksAre
<1> HIDE DEF t, u
<1>5. ASSUME NEW k \in c.checks PROVE k[1] \in {0} \cup Breaks(u) /\ k[2] = Lines(u, k[1])
    <2>1. k[1] <= p /\ k[1] \in {0} \cup Breaks(t) /\ k[2] = Lines(t, k[1])
        BY <1>2, <1>3
    <2> DEFINE o == k[1]
    <2>2. o \in Nat /\ p \in Nat
        BY <1>1, <1>4, <2>1 DEF t
    <2>3. Within(u, 0, o) \subseteq Within(t, 0, o)
        <3> SUFFICES ASSUME NEW q \in Within(u, 0, o) PROVE q \in Within(t, 0, o)
            OBVIOUS
        <3>1. q \in Breaks(u) /\ q \in Nat /\ q > 0 /\ q <= o
            BY <1>1, <1>4 DEF Within
        <3> HIDE DEF o
        <3>2. q \in Breaks(t)
            <4>1. CASE q < p
                BY <4>1, <3>1, <1>4
            <4>2. CASE q = o
                BY <4>2, <2>1, <3>1 DEF o
            <4> QED
                BY <2>1, <2>2, <3>1, <4>1, <4>2 DEF o
        <3> QED
            BY <3>1, <3>2 DEF Within
    <2>4. Within(t, 0, o) \subseteq Within(u, 0, o)
        <3> SUFFICES ASSUME NEW q \in Within(t, 0, o) PROVE q \in Within(u, 0, o)
            OBVIOUS
        <3>1. q \in Breaks(t) /\ q \in Nat /\ q > 0 /\ q <= o
            BY <1>1, <1>4 DEF Within
        <3>2. q <= p
            BY <2>1, <2>2, <3>1
        <3> QED
            BY <3>1, <3>2, <1>4 DEF Within
    <2>5. Lines(u, o) = Lines(t, o)
        <3>1. Within(u, 0, o) = Within(t, 0, o)
            BY <2>3, <2>4
        <3> QED
            BY <3>1 DEF Lines
    <2>6. o \in {0} \cup Breaks(u)
        BY <2>1, <1>4
    <2> QED
        BY <2>1, <2>5, <2>6
<1>6. c.line = Lines(u, c.off)
    BY <1>3, <1>5
<1> QED
    BY <1>3, <1>5, <1>6 DEF RightLines, u

\* f moves the offsets up to n as MovedIn(p, m, _) does, and as MovedOut(s, e, _) does
MovesIn(f, n, p, m) == f = [o \in 0..n |-> MovedIn(p, m, o)]
MovesOut(f, n, s, e) == f = [o \in 0..n |-> MovedOut(s, e, o)]

\* Their arithmetic.
LEMMA MovesInIs ==
    ASSUME NEW n \in Nat, NEW p \in Nat, NEW m \in Nat, p <= n, NEW f, MovesIn(f, n, p, m)
    PROVE  /\ f \in [0..n -> 0..n + m]
           /\ \A o \in 0..n : f[o] \in 0..n + m /\ (o <= p => f[o] = o) /\ (o > p => f[o] = o + m)
           /\ f[0] = 0
           /\ \A a, b \in 0..n : (a <= b => f[a] <= f[b]) /\ (a > b => f[a] > f[b])
<1>1. \A o \in 0..n : (o <= p => f[o] = o) /\ (o > p => f[o] = o + m)
    BY DEF MovesIn, MovedIn
<1>2. \A o \in 0..n : f[o] \in 0..n + m
    BY <1>1
<1>3. f[0] = 0
    BY <1>1
<1>4. ASSUME NEW a \in 0..n, NEW b \in 0..n PROVE (a <= b => f[a] <= f[b]) /\ (a > b => f[a] > f[b])
    BY <1>1
<1>5. f \in [0..n -> 0..n + m]
    BY <1>2 DEF MovesIn
<1> QED
    BY <1>1, <1>2, <1>3, <1>4, <1>5

\* What an erasure does to the offsets.
LEMMA MovesOutIs ==
    ASSUME NEW n \in Nat, NEW s \in Nat, NEW e \in Nat, s <= e, e <= n, NEW f, MovesOut(f, n, s, e)
    PROVE  /\ f \in [0..n -> 0..n - (e - s)]
           /\ \A o \in 0..n : /\ f[o] \in 0..n - (e - s)
                              /\ (o <= s => f[o] = o) /\ (o > s /\ o <= e => f[o] = s) /\ (o > e => f[o] = o - (e - s))
           /\ f[0] = 0
           /\ \A a, b \in 0..n : a <= b => f[a] <= f[b]
<1>1. \A o \in 0..n : f[o] = IF o >= e THEN o - (e - s) ELSE IF o > s THEN s ELSE o
    BY DEF MovesOut, MovedOut
<1>2. \A o \in 0..n : (o <= s => f[o] = o) /\ (o > s /\ o <= e => f[o] = s) /\ (o > e => f[o] = o - (e - s))
    BY <1>1
<1>3. \A o \in 0..n : f[o] \in 0..n - (e - s)
    BY <1>2
<1>4. f[0] = 0
    BY <1>2
<1>5. ASSUME NEW a \in 0..n, NEW b \in 0..n PROVE a <= b => f[a] <= f[b]
    BY <1>2
<1>6. f \in [0..n -> 0..n - (e - s)]
    BY <1>3 DEF MovesOut
<1> QED
    BY <1>2, <1>3, <1>4, <1>5, <1>6

\* An insertion without line ends moves the offsets behind it.
LEMMA InsertCarries ==
    ASSUME NEW t \in Seq(Char), NEW x \in Seq(Char), NEW p \in Nat, p <= Len(t), x # <<>>, ~Torn(t, p, x),
           Breaks(x) = {}, NEW u, u = Put(t, p, x), NEW f, MovesIn(f, Len(t), p, Len(x))
    PROVE  /\ Carries(t, u, f)
           /\ \A a, b \in 0..Len(t) : a > b => f[a] > f[b]
<1> DEFINE m == Len(x)
           n == Len(t)
           l == Len(u)
<1>1. m \in Nat /\ n \in Nat /\ l \in Nat /\ l = n + m /\ u \in Seq(Char)
    <2>1. u \in Seq(Char) /\ l = n + m
        BY PutText
    <2>2. m \in Nat /\ n \in Nat /\ l \in Nat
        BY <2>1, BreaksAre
    <2> QED
        BY <2>1, <2>2
<1>2. /\ \A o \in 1..p : o \in Breaks(u) <=> o \in Breaks(t)
      /\ \A o \in 1..m : p + o \in Breaks(u) <=> o \in Breaks(x)
      /\ \A o \in p + 1..n : o + m \in Breaks(u) <=> o \in Breaks(t)
    BY PutBreaks
<1>3. Breaks(t) \subseteq 1..n /\ Breaks(u) \subseteq 1..l
    BY <1>1, BreaksAre
<1>4. p <= n /\ MovesIn(f, n, p, m)
    OBVIOUS
<1> HIDE DEF m, n, l
<1>5. \A o \in 0..n : f[o] \in 0..n + m /\ (o <= p => f[o] = o) /\ (o > p => f[o] = o + m)
    BY <1>1, <1>4, MovesInIs
<1>6. f \in [0..n -> 0..l] /\ f[0] = 0
    BY <1>1, <1>4, MovesInIs
<1>7. \A a, b \in 0..n : a > b => f[a] > f[b]
    BY <1>1, <1>4, MovesInIs
<1>8. \A a, b \in 0..n : a <= b => f[a] <= f[b]
    BY <1>1, <1>4, MovesInIs
<1>9. \A a \in Breaks(t) : a \in 0..n /\ a \in 1..n
    BY <1>1, <1>3
<1>10. \A a, b \in Breaks(t) : f[a] = f[b] => a = b
    BY <1>1, <1>5, <1>9, SMTT(60)
<1>11. ASSUME NEW a \in Breaks(t) PROVE f[a] \in Breaks(u)
    <2>1. CASE a > p
        BY <1>1, <1>2, <1>5, <1>9, <2>1
    <2>2. CASE ~(a > p)
        BY <1>1, <1>2, <1>5, <1>9, <2>2
    <2> QED
        BY <2>1, <2>2
<1>12. ASSUME NEW q \in Breaks(u) PROVE \E a \in Breaks(t) : f[a] = q
    <2>1. q \in 1..l
        BY <1>3
    <2>2. CASE q <= p
        <3>1. q \in Breaks(t)
            BY <1>1, <1>2, <2>1, <2>2
        <3>2. f[q] = q
            BY <1>1, <1>5, <1>9, <2>2, <3>1
        <3> QED
            BY <3>1, <3>2
    <2>3. CASE p < q /\ q <= p + m
        <3>1. q - p \in 1..m /\ p + (q - p) = q
            BY <1>1, <2>1, <2>3
        <3>2. q - p \in Breaks(x)
            BY <1>2, <3>1
        <3> QED
            BY <3>2
    <2>4. CASE q > p + m
        <3>1. q - m \in p + 1..n /\ (q - m) + m = q
            BY <1>1, <2>1, <2>4
        <3>2. q - m \in Breaks(t)
            BY <1>2, <3>1
        <3>3. f[q - m] = q
            BY <1>1, <1>5, <1>9, <3>1, <3>2
        <3> QED
            BY <3>2, <3>3
    <2> QED
        BY <1>1, <2>1, <2>2, <2>3, <2>4
<1> QED
    BY <1>6, <1>7, <1>8, <1>10, <1>11, <1>12 DEF Carries, n, l

\* Characters of a range in which directCountLineBreaksInRange() sees no line break.
LEMMA NoneCounted ==
    ASSUME NEW t \in Seq(Char), NEW s \in Nat, NEW e \in Nat, s < e, e <= Len(t), CountLineBreaks(t, s, e) = 0
    PROVE  \A o \in s + 1..e : /\ t[o] = "r" => o = e /\ e < Len(t) /\ t[e + 1] = "n"
                               /\ t[o] = "n" => o = s + 1 /\ s > 0 /\ t[s] = "r"
<1> DEFINE n == Len(t)
           A == {o \in s + 1..e : t[o] = "r"}
           B == {o \in s + 1..e : t[o] = "n" /\ ~(o > 1 /\ t[o - 1] = "r")}
           cut == CrLf(t, e, e)
           a == Cardinality(A)
           b == Cardinality(B)
<1>1. n \in Nat /\ e <= n
    BY BreaksAre
<1>2. a + b - (IF a + b > 0 /\ cut THEN 1 ELSE 0) = 0
    BY DEF CountLineBreaks
<1>3. A \subseteq 0..n /\ B \subseteq 0..n
    BY <1>1
<1>4. IsFiniteSet(A) /\ IsFiniteSet(B) /\ a \in Nat /\ b \in Nat
    <2> HIDE DEF A, B
    <2> QED
        BY <1>1, <1>3, FiniteUpTo
<1>5. cut => e \in A /\ e < n /\ t[e + 1] = "n"
    BY <1>1 DEF CrLf
<1>6. (a = 0 /\ b = 0) \/ (cut /\ a + b = 1)
    <2> HIDE DEF a, b, cut
    <2>1. CASE a + b > 0 /\ cut
        <3>1. (IF a + b > 0 /\ cut THEN 1 ELSE 0) = 1
            BY <2>1, Zenon
        <3> QED
            BY <1>2, <1>4, <2>1, <3>1
    <2>2. CASE ~(a + b > 0 /\ cut)
        <3>1. (IF a + b > 0 /\ cut THEN 1 ELSE 0) = 0
            BY <2>2, Zenon
        <3> QED
            BY <1>2, <1>4, <3>1
    <2> QED
        BY <2>1, <2>2
<1>7. /\ A # {} => cut /\ A = {e}
      /\ B = {}
    <2>1. CASE a = 0 /\ b = 0
        <3> HIDE DEF A, B
        <3>1. A = {} /\ B = {}
            BY <1>4, <2>1, FS_EmptySet
        <3> QED
            BY <3>1
    <2>2. CASE cut /\ a + b = 1
        <3>1. e \in A
            BY <1>5, <2>2
        <3> HIDE DEF A, B, cut
        <3>2. a # 0
            BY <1>4, <3>1, FS_EmptySet
        <3>3. a = 1 /\ b = 0
            <4> HIDE DEF a, b
            <4> QED
                BY <1>4, <2>2, <3>2
        <3>4. B = {}
            BY <1>4, <3>3, FS_EmptySet
        <3>5. \E y : A = {y}
            BY <1>4, <3>3, FS_Singleton
        <3> QED
            BY <2>2, <3>1, <3>4, <3>5
    <2> QED
        BY <1>6, <2>1, <2>2
<1> SUFFICES ASSUME NEW o \in s + 1..e
             PROVE  /\ t[o] = "r" => o = e /\ e < n /\ t[e + 1] = "n"
                    /\ t[o] = "n" => o = s + 1 /\ s > 0 /\ t[s] = "r"
    OBVIOUS
<1>8. t[o] = "r" => o \in A
    OBVIOUS
<1>9. t[o] = "r" => o = e /\ e < n /\ t[e + 1] = "n"
    BY <1>5, <1>7, <1>8
<1>10. ASSUME t[o] = "n" PROVE o = s + 1 /\ s > 0 /\ t[s] = "r"
    <2>1. o \notin B
        BY <1>7
    <2>2. o > 1 /\ t[o - 1] = "r"
        BY <2>1, <1>10
    <2>3. CASE o = s + 1
        BY <2>2, <2>3
    <2>4. CASE o > s + 1
        <3>1. o - 1 \in s + 1..e /\ o - 1 # e
            BY <2>4
        <3>2. o - 1 \in A
            BY <2>2, <3>1
        <3> QED
            BY <1>7, <3>1, <3>2
    <2> QED
        BY <2>3, <2>4
<1> QED
    BY <1>9, <1>10

\* An erasure that keeps the index moves the offsets behind it.
LEMMA EraseCarries ==
    ASSUME NEW t \in Seq(Char), NEW s \in Nat, NEW e \in Nat, s < e, e <= Len(t), CountLineBreaks(t, s, e) = 0,
           ~CrLf(t, s, e), NEW u, u = Cut(t, s, e), NEW f, MovesOut(f, Len(t), s, e)
    PROVE  Carries(t, u, f)
<1> DEFINE n == Len(t)
           k == e - s
           l == Len(u)
<1>1. n \in Nat /\ k \in Nat /\ k > 0 /\ e = s + k /\ e <= n /\ l \in Nat /\ l = n - k /\ u \in Seq(Char)
    <2>0. s <= e
        OBVIOUS
    <2>1. u \in Seq(Char) /\ l = n - k
        BY <2>0, CutText
    <2>2. n \in Nat /\ l \in Nat
        BY <2>1, BreaksAre
    <2> QED
        BY <2>1, <2>2
<1>2. /\ \A o \in 1..l : o < s => (o \in Breaks(u) <=> o \in Breaks(t))
      /\ \A o \in 1..l : o > s => (o \in Breaks(u) <=> o + k \in Breaks(t))
      /\ s > 0 => (s \in Breaks(u) <=> t[s] # "x")
    BY CutBreaks
<1>3. \A o \in s + 1..e : /\ t[o] = "r" => o = e /\ e < n /\ t[e + 1] = "n"
                          /\ t[o] = "n" => o = s + 1 /\ s > 0 /\ t[s] = "r"
    BY NoneCounted
<1>4. Breaks(t) \subseteq 1..n /\ Breaks(u) \subseteq 1..l
    BY <1>1, BreaksAre
<1>5. /\ \A o \in Breaks(t) : o \in 1..n /\ (t[o] = "n" \/ (t[o] = "r" /\ (o = n \/ t[o + 1] # "n")))
      /\ \A o \in 1..n : t[o] = "n" \/ (t[o] = "r" /\ (o = n \/ t[o + 1] # "n")) => o \in Breaks(t)
    BY DEF Breaks
<1>15. \A o \in 1..n : t[o] \in Char
    OBVIOUS
<1>7. MovesOut(f, n, s, e)
    OBVIOUS
<1>17. /\ f \in [0..n -> 0..n - k]
       /\ \A o \in 0..n : /\ f[o] \in 0..n - k
                          /\ (o <= s => f[o] = o) /\ (o > s /\ o <= e => f[o] = s) /\ (o > e => f[o] = o - k)
       /\ f[0] = 0
       /\ \A a, b \in 0..n : a <= b => f[a] <= f[b]
    <2>1. n \in Nat /\ s <= e /\ e <= n
        BY <1>1
    <2> HIDE DEF n
    <2> QED
        BY <1>7, <2>1, MovesOutIs, SMTT(60)
<1> HIDE DEF n, k, l
<1>6. \A o \in 0..n : (o <= s => f[o] = o) /\ (o > s /\ o <= e => f[o] = s) /\ (o > e => f[o] = o - k)
    BY <1>17
<1>8. /\ f \in [0..n -> 0..l] /\ f[0] = 0
    BY <1>1, <1>17
<1>9. \A a, b \in 0..n : a <= b => f[a] <= f[b]
    BY <1>17
\* only an LF behind a CR that stays is a line end of the range
<1>10. \A o \in Breaks(t) : s < o /\ o <= e => o = s + 1 /\ s > 0 /\ t[s] = "r" /\ s \notin Breaks(t)
    <2> SUFFICES ASSUME NEW o \in Breaks(t), s < o, o <= e PROVE o = s + 1 /\ s > 0 /\ t[s] = "r" /\ s \notin Breaks(t)
        OBVIOUS
    <2>1. o \in 1..n /\ o \in s + 1..e
        BY <1>1, <1>4
    <2>2. t[o] = "n"
        <3>1. t[o] = "n" \/ (t[o] = "r" /\ (o = n \/ t[o + 1] # "n"))
            BY <1>5
        <3>2. t[o] = "r" => o = e /\ e < n /\ t[e + 1] = "n"
            BY <1>3, <2>1
        <3> QED
            BY <3>1, <3>2, <1>1
    <2>3. o = s + 1 /\ s > 0 /\ t[s] = "r"
        BY <1>3, <2>1, <2>2
    <2>4. s \notin Breaks(t)
        BY <1>1, <1>5, <2>1, <2>2, <2>3
    <2> QED
        BY <2>3, <2>4
<1>11. \A o \in Breaks(t) : o \in Nat /\ o \in 0..n /\ 0 < o
    BY <1>1, <1>4
<1>12. \A a, b \in Breaks(t) : f[a] = f[b] => a = b
    <2> SUFFICES ASSUME NEW a \in Breaks(t), NEW b \in Breaks(t), f[a] = f[b], a < b PROVE FALSE
        BY <1>11
    <2>1. /\ (a <= s => f[a] = a) /\ (a > s /\ a <= e => f[a] = s) /\ (a > e => f[a] = a - k)
          /\ (b <= s => f[b] = b) /\ (b > s /\ b <= e => f[b] = s) /\ (b > e => f[b] = b - k)
        BY <1>6, <1>11
    <2>2. a \in Nat /\ b \in Nat
        BY <1>11
    <2>3. CASE a > e
        BY <1>1, <2>1, <2>2, <2>3
    <2>4. CASE s < a /\ a <= e
        <3>1. a = s + 1
            BY <1>10, <2>4
        <3>2. b > e
            BY <1>1, <1>10, <2>2, <3>1
        <3>3. f[b] > s
            BY <1>1, <2>1, <2>2, <3>2
        <3>4. f[a] = s
            BY <1>1, <2>1, <2>2, <2>4, <3>1
        <3> QED
            BY <3>3, <3>4
    <2>5. CASE a <= s
        <3>1. f[a] = a
            BY <1>1, <2>1, <2>2, <2>5
        <3>2. CASE b > e
            BY <1>1, <2>1, <2>2, <2>5, <3>1, <3>2
        <3>3. CASE s < b /\ b <= e
            <4>1. f[b] = s
                BY <1>1, <1>10, <2>1, <2>2, <3>3
            <4> QED
                BY <1>10, <3>1, <3>3, <4>1
        <3>4. CASE b <= s
            BY <1>1, <2>1, <2>2, <3>1, <3>4
        <3> QED
            BY <2>2, <3>2, <3>3, <3>4
    <2> QED
        BY <2>2, <2>3, <2>4, <2>5
<1>13. ASSUME NEW a \in Breaks(t) PROVE f[a] \in Breaks(u)
    <2>1. a \in Nat /\ a \in 1..n /\ (a <= s => f[a] = a) /\ (a > s /\ a <= e => f[a] = s) /\ (a > e => f[a] = a - k)
        BY <1>4, <1>6, <1>11
    <2>2. CASE a > e
        <3>1. f[a] = a - k /\ a - k \in 1..l /\ a - k > s /\ (a - k) + k = a
            BY <1>1, <2>1, <2>2
        <3> QED
            BY <1>2, <3>1
    <2>3. CASE s < a /\ a <= e
        <3>1. f[a] = s /\ s > 0 /\ t[s] = "r"
            BY <1>1, <1>10, <2>1, <2>3
        <3> QED
            BY <1>2, <3>1
    <2>4. CASE a = s
        <3>1. f[a] = s /\ s > 0
            BY <1>1, <2>1, <2>4
        <3>2. t[s] # "x"
            BY <1>5, <2>4
        <3> QED
            BY <1>2, <3>1, <3>2
    <2>5. CASE a < s
        <3>1. f[a] = a /\ a \in 1..l
            BY <1>1, <2>1, <2>5
        <3> QED
            BY <1>2, <2>5, <3>1
    <2> QED
        BY <2>1, <2>2, <2>3, <2>4, <2>5
<1>14. ASSUME NEW q \in Breaks(u) PROVE \E a \in Breaks(t) : f[a] = q
    <2>1. q \in 1..l
        BY <1>4
    <2>2. CASE q > s
        <3>1. q + k \in Breaks(t)
            BY <1>2, <2>1, <2>2
        <3>2. f[q + k] = q
            BY <1>1, <1>6, <1>11, <2>1, <2>2, <3>1
        <3> QED
            BY <3>1, <3>2
    <2>3. CASE q < s
        <3>1. q \in Breaks(t)
            BY <1>2, <2>1, <2>3
        <3>2. f[q] = q
            BY <1>1, <1>6, <1>11, <2>1, <2>3, <3>1
        <3> QED
            BY <3>1, <3>2
    <2>4. CASE q = s
        <3>1. s > 0 /\ t[s] # "x" /\ s \in 1..n
            BY <1>1, <1>2, <2>1, <2>4
        <3>2. CASE s \in Breaks(t)
            <4>1. f[s] = s
                BY <1>1, <1>6, <1>11, <3>2
            <4> QED
                BY <2>4, <3>2, <4>1
        <3>3. CASE s \notin Breaks(t)
            <4>1. t[s] = "r" /\ s # n /\ t[s + 1] = "n"
                BY <1>5, <1>15, <3>1, <3>3 DEF Char
            <4>2. s + 1 \in 1..n /\ s + 1 \in 0..n
                BY <1>1, <3>1, <4>1
            <4>3. s + 1 \in Breaks(t)
                BY <1>5, <4>1, <4>2
            <4>4. f[s + 1] = s
                BY <1>1, <1>6, <4>2
            <4> QED
                BY <2>4, <4>3, <4>4
        <3> QED
            BY <3>2, <3>3
    <2> QED
        BY <1>1, <2>1, <2>2, <2>3, <2>4
<1> QED
    BY <1>8, <1>9, <1>12, <1>13, <1>14 DEF Carries, n, l

\* the exact index is inside a text of n characters
StartsIn(S, n) == S \subseteq 0..n /\ 0 \in S

\* The exact index after an erasure.
LEMMA StartsErased ==
    ASSUME NEW d, WellTyped(d), Exact(d), NEW s \in Nat, NEW e \in Nat, s < e, e <= Len(d.text),
           NEW u, u = Cut(d.text, s, e), NEW X, X = StartsAfterErase(d, u, s, e)
    PROVE  /\ StartsIn(X, Len(u))
           /\ ~CrLf(d.text, s, e) /\ d.starts = {0} \cup Breaks(d.text) => X = {0} \cup Breaks(u)
<1> DEFINE t == d.text
           n == Len(t)
           k == e - s
           l == Len(u)
           D == d.starts
           kept == {q \in D : q <= s}
           moved == {q - k : q \in {r \in D : r > e}}
           found == {o \in Breaks(u) : o > Max(kept) /\ \A q \in moved : o < q}
<1>1. /\ t \in Seq(Char) /\ D \subseteq 0..n /\ 0 \in D
    BY DEF WellTyped, Exact
<1>2. /\ n \in Nat /\ k \in Nat /\ k > 0 /\ e = s + k /\ e <= n /\ l \in Nat /\ l = n - k /\ u \in Seq(Char)
    <2>0. s <= e /\ e <= n
        OBVIOUS
    <2> HIDE DEF t
    <2>1. u \in Seq(Char) /\ l = n - k
        BY <1>1, <2>0, CutText DEF t
    <2>2. n \in Nat /\ l \in Nat
        BY <1>1, <2>1, BreaksAre
    <2> QED
        BY <2>0, <2>1, <2>2
<1>3. X = kept \cup moved \cup found
    BY DEF StartsAfterErase
<1>4. Breaks(t) \subseteq 1..n /\ Breaks(u) \subseteq 1..l
    BY <1>1, <1>2, BreaksAre
<1>5. u = Cut(t, s, e)
    OBVIOUS
<1> HIDE DEF t, n, k, l, D
<1>a. \A q \in D : q \in Nat /\ 0 <= q /\ q <= n
    BY <1>1, <1>2
<1>6. kept \subseteq 0..s /\ kept # {} /\ kept \subseteq 0..n
    <2>1. 0 \in kept
        BY <1>1
    <2>2. ASSUME NEW q \in D, q <= s PROVE q \in 0..s /\ q \in 0..n
        <3>1. q \in Nat /\ q <= n /\ n \in Nat
            BY <1>2, <1>a
        <3> QED
            BY <2>2, <3>1
    <2> QED
        BY <2>1, <2>2
<1>7. Max(kept) \in kept /\ \A q \in kept : q <= Max(kept)
    <2> HIDE DEF kept
    <2> QED
        BY <1>2, <1>6, MaxOf
<1>8. moved \subseteq s + 1..l /\ \A q \in moved : q \in 0..l /\ s < q
    <2>1. ASSUME NEW q \in D, q > e PROVE q - k \in s + 1..l /\ q - k \in 0..l /\ s < q - k
        <3>1. q \in Nat /\ q <= n
            BY <1>a
        <3>2. n \in Nat /\ k \in Nat /\ e = s + k /\ l \in Nat /\ l = n - k
            BY <1>2
        <3> QED
            BY <2>1, <3>1, <3>2
    <2> QED
        BY <2>1
<1>9. StartsIn(X, l)
    <2>1. 0 \in kept
        BY <1>1, <1>2
    <2>2. kept \subseteq 0..l /\ moved \subseteq 0..l
        <3>1. s <= l
            BY <1>2
        <3>2. moved \subseteq 0..l
            <4> HIDE DEF moved
            <4> QED
                BY <1>8
        <3> QED
            BY <1>2, <1>a, <3>1, <3>2
    <2>3. found \subseteq 0..l
        BY <1>2, <1>4
    <2> HIDE DEF kept, moved, found
    <2> QED
        BY <1>3, <2>1, <2>2, <2>3 DEF StartsIn
<1>10. ASSUME ~CrLf(t, s, e), D = {0} \cup Breaks(t) PROVE X = {0} \cup Breaks(u)
    <2>1. /\ \A o \in 1..l : o < s => (o \in Breaks(u) <=> o \in Breaks(t))
          /\ \A o \in 1..l : o > s => (o \in Breaks(u) <=> o + k \in Breaks(t))
          /\ s > 0 => (s \in Breaks(u) <=> t[s] # "x")
        <3>1. s <= e /\ e <= Len(t) /\ l = Len(u) /\ k = e - s
            BY <1>2 DEF n, l, k
        <3> QED
            BY <1>1, <1>5, <1>10, <3>1, CutBreaks
    <2>2. s \in Breaks(t) => t[s] # "x"
        BY DEF Breaks
    <2>3. kept \subseteq {0} \cup Breaks(u)
        <3> SUFFICES ASSUME NEW q \in kept, q # 0 PROVE q \in Breaks(u)
            OBVIOUS
        <3>1. q \in Breaks(t) /\ q <= s /\ q \in 1..n
            BY <1>4, <1>10
        <3>2. CASE q < s
            BY <1>2, <2>1, <3>1, <3>2
        <3>3. CASE q = s
            BY <2>1, <2>2, <3>1, <3>3
        <3> QED
            BY <3>1, <3>2, <3>3
    <2>4. moved \subseteq Breaks(u)
        <3> SUFFICES ASSUME NEW q \in D, q > e PROVE q - k \in Breaks(u)
            OBVIOUS
        <3>1. q \in Breaks(t) /\ q \in 1..n
            BY <1>2, <1>4, <1>10
        <3>2. q - k \in 1..l /\ q - k > s /\ (q - k) + k = q
            BY <1>2, <3>1
        <3> QED
            BY <2>1, <3>1, <3>2
    <2>5. found \subseteq Breaks(u)
        OBVIOUS
    <2>6. ASSUME NEW b \in Breaks(u) PROVE b \in kept \cup moved \cup found
        <3>1. b \in 1..l
            BY <1>4
        <3>2. CASE b > s
            <4>1. b + k \in Breaks(t) /\ b + k \in D
                BY <1>10, <2>1, <3>1, <3>2
            <4>2. b + k > e /\ (b + k) - k = b
                BY <1>2, <3>1, <3>2
            <4> QED
                BY <4>1, <4>2
        <3>3. CASE b < s
            <4>1. b \in Breaks(t)
                BY <2>1, <3>1, <3>3
            <4> QED
                BY <1>2, <1>10, <3>1, <3>3, <4>1
        <3>4. CASE b = s
            <4>1. CASE s \in D
                BY <3>4, <4>1
            <4>2. CASE s \notin D
                <5>1. Max(kept) < s
                    <6>1. Max(kept) \in 0..s /\ Max(kept) \in D
                        BY <1>6, <1>7
                    <6>2. Max(kept) # s
                        BY <6>1, <4>2
                    <6> DEFINE h == Max(kept)
                    <6>3. h \in 0..s /\ h # s
                        BY <6>1, <6>2
                    <6> HIDE DEF h
                    <6>4. h < s
                        BY <6>3
                    <6> QED
                        BY <6>4 DEF h
                <5>2. \A q \in moved : s < q
                    <6> HIDE DEF moved
                    <6> QED
                        BY <1>8
                <5> QED
                    BY <3>4, <5>1, <5>2
            <4> QED
                BY <4>1, <4>2
        <3> QED
            BY <3>1, <3>2, <3>3, <3>4
    <2>7. 0 \in kept
        BY <1>1, <1>2
    <2> HIDE DEF kept, moved, found
    <2> QED
        BY <1>3, <2>3, <2>4, <2>5, <2>6, <2>7
<1> QED
    BY <1>9, <1>10 DEF t, D, l

\* The exact index after an insertion.
LEMMA StartsInserted ==
    ASSUME NEW d, WellTyped(d), Exact(d), NEW p \in Nat, p <= Len(d.text), NEW x \in Seq(Char), x # <<>>,
           NEW u, u = Put(d.text, p, x), NEW X, X = StartsAfterInsert(d, p, x)
    PROVE  /\ StartsIn(X, Len(u))
           /\ ~Torn(d.text, p, x) /\ d.starts = {0} \cup Breaks(d.text) => X = {0} \cup Breaks(u)
<1> DEFINE t == d.text
           n == Len(t)
           m == Len(x)
           l == Len(u)
           D == d.starts
           kept == {q \in D : q <= p}
           moved == {q + m : q \in {r \in D : r > p}}
           new == {p + o : o \in Breaks(x)}
<1>1. /\ t \in Seq(Char) /\ D \subseteq 0..n /\ 0 \in D
    BY DEF WellTyped, Exact
<1>2. /\ n \in Nat /\ m \in Nat /\ p <= n /\ l \in Nat /\ l = n + m /\ u \in Seq(Char)
    <2>0. p <= n
        OBVIOUS
    <2> HIDE DEF t
    <2>1. u \in Seq(Char) /\ l = n + m
        BY <1>1, <2>0, PutText DEF t
    <2>2. n \in Nat /\ l \in Nat /\ m \in Nat
        BY <1>1, <2>1, BreaksAre
    <2> QED
        BY <2>0, <2>1, <2>2
<1>3. X = kept \cup moved \cup new
    BY DEF StartsAfterInsert
<1>4. Breaks(t) \subseteq 1..n /\ Breaks(u) \subseteq 1..l /\ Breaks(x) \subseteq 1..m
    BY <1>1, <1>2, BreaksAre
<1>5. u = Put(t, p, x)
    OBVIOUS
<1> HIDE DEF t, n, m, l, D
<1>9. StartsIn(X, l)
    <2>1. 0 \in kept
        BY <1>1, <1>2
    <2>2. kept \subseteq 0..l /\ moved \subseteq 0..l
        <3>1. \A q \in D : q \in Nat /\ 0 <= q /\ q <= n
            BY <1>1, <1>2
        <3>2. \A q \in D : q \in 0..l /\ q + m \in 0..l
            BY <1>2, <3>1
        <3> QED
            BY <3>2
    <2>3. new \subseteq 0..l
        BY <1>2, <1>4
    <2> HIDE DEF kept, moved, new
    <2> QED
        BY <1>3, <2>1, <2>2, <2>3 DEF StartsIn
<1>10. ASSUME ~Torn(t, p, x), D = {0} \cup Breaks(t) PROVE X = {0} \cup Breaks(u)
    <2>1. /\ \A o \in 1..p : o \in Breaks(u) <=> o \in Breaks(t)
          /\ \A o \in 1..m : p + o \in Breaks(u) <=> o \in Breaks(x)
          /\ \A o \in p + 1..n : o + m \in Breaks(u) <=> o \in Breaks(t)
        <3>1. p <= Len(t) /\ n = Len(t) /\ m = Len(x)
            BY <1>2 DEF n, m
        <3> QED
            BY <1>1, <1>5, <1>10, <3>1, PutBreaks
    <2>3. kept \subseteq {0} \cup Breaks(u)
        <3> SUFFICES ASSUME NEW q \in kept, q # 0 PROVE q \in Breaks(u)
            OBVIOUS
        <3>1. q \in Breaks(t) /\ q <= p /\ q \in 1..n
            BY <1>4, <1>10
        <3>2. q \in 1..p
            BY <1>2, <3>1
        <3> QED
            BY <2>1, <3>1, <3>2
    <2>4. moved \subseteq Breaks(u)
        <3> SUFFICES ASSUME NEW q \in D, q > p PROVE q + m \in Breaks(u)
            OBVIOUS
        <3>1. q \in Breaks(t) /\ q \in 1..n
            BY <1>2, <1>4, <1>10
        <3>2. q \in p + 1..n
            BY <1>2, <3>1
        <3> QED
            BY <2>1, <3>1, <3>2
    <2>5. new \subseteq Breaks(u)
        BY <1>4, <2>1
    <2>6. ASSUME NEW b \in Breaks(u) PROVE b \in kept \cup moved \cup new
        <3>1. b \in 1..l
            BY <1>4
        <3>2. CASE b > p + m
            <4>1. b - m \in p + 1..n /\ (b - m) + m = b
                BY <1>2, <3>1, <3>2
            <4>2. b - m \in Breaks(t)
                BY <2>1, <4>1
            <4>3. b - m \in D /\ b - m > p
                BY <1>2, <1>10, <4>1, <4>2
            <4> QED
                BY <4>1, <4>3
        <3>3. CASE b <= p
            <4>1. b \in Breaks(t)
                BY <1>2, <2>1, <3>1, <3>3
            <4> QED
                BY <1>2, <1>10, <3>1, <3>3, <4>1
        <3>4. CASE p < b /\ b <= p + m
            <4>1. b - p \in 1..m /\ p + (b - p) = b
                BY <1>2, <3>1, <3>4
            <4>2. b - p \in Breaks(x)
                BY <2>1, <4>1
            <4> QED
                BY <4>1, <4>2
        <3> QED
            BY <1>2, <3>1, <3>2, <3>3, <3>4
    <2>7. 0 \in kept
        BY <1>1, <1>2
    <2> HIDE DEF kept, moved, new
    <2> QED
        BY <1>3, <2>3, <2>4, <2>5, <2>6, <2>7
<1> QED
    BY <1>9, <1>10 DEF t, D, l

\* The parts of a well-typed document.
LEMMA TypedFrom ==
    ASSUME NEW d, NEW c, WellTyped(d), Reindexed(c, d), c.text \in Seq(Char), Len(c.text) <= MaxLen,
           c.torn \in BOOLEAN, LazyTyped(c), c.starts = {} \/ StartsIn(c.starts, Len(c.text))
    PROVE  WellTyped(c) /\ Empty(c)
    BY SMTT(60) DEF WellTyped, Reindexed, LazyTyped, StartsIn

\* eraseNoVersionBump() keeps the index inside the text and right.
LEMMA ErasedKept ==
    ASSUME NEW d, WellTyped(d), Right(d), NEW s \in Nat, NEW e \in Nat, s < e, e <= Len(d.text),
           NEW c, c = Erased(d, s, e)
    PROVE  Kept(c) /\ c.text = Cut(d.text, s, e) /\ c.id = d.id /\ c.version = d.version
<1> DEFINE t == d.text
           u == Cut(t, s, e)
           f == [o \in 0..Len(t) |-> MovedOut(s, e, o)]
           D == ShiftedOut(d.checks, s, e)
           X == StartsAfterErase(d, u, s, e)
<1>1. /\ DOMAIN d = Fields /\ t \in Seq(Char) /\ Len(t) \in Nat /\ Len(t) <= MaxLen /\ MaxLen \in Nat
      /\ d.off \in 0..Len(t) /\ d.torn \in BOOLEAN /\ s # e /\ s <= e /\ s \in 0..Len(t)
      /\ d.checks \subseteq (0..Len(t)) \X Nat
    <2>1. /\ DOMAIN d = Fields /\ t \in Seq(Char) /\ Len(t) <= MaxLen
          /\ d.off \in 0..Len(t) /\ d.torn \in BOOLEAN /\ d.checks \subseteq (0..Len(t)) \X Nat
        BY DEF WellTyped
    <2>2. Len(t) \in Nat /\ MaxLen \in Nat
        BY <2>1, BreaksAre, LineIndexAssumption
    <2>3. s # e /\ s <= e /\ s \in 0..Len(t)
        BY <2>2
    <2> QED
        BY <2>1, <2>2, <2>3
<1>2. /\ Reindexed(c, d) /\ c.text = u
      /\ c.torn = (d.torn \/ CrLf(t, s, e))
      /\ c.starts = IF Exact(d) THEN X ELSE {}
      /\ Preserves(d, s, e) => Shifted(c, d, D, MovedOut(s, e, d.off))
      /\ ~Preserves(d, s, e) => CutOff(c, KeptTo(d.checks, s))
    BY <1>1, ErasedIs
<1>3. /\ u \in Seq(Char) /\ Len(u) = Len(t) - (e - s) /\ Len(u) \in Nat
    <2>1. u \in Seq(Char) /\ Len(u) = Len(t) - (e - s)
        BY <1>1, CutText
    <2> QED
        BY <2>1, BreaksAre
<1>4. Len(u) <= MaxLen /\ s <= Len(u)
    BY <1>1, <1>3
<1>5. /\ f \in [0..Len(t) -> 0..Len(u)] /\ f[0] = 0 /\ MovedOut(s, e, d.off) = f[d.off]
      /\ MovesOut(f, Len(t), s, e)
    <2>1. MovesOut(f, Len(t), s, e)
        BY DEF MovesOut
    <2>2. MovedOut(s, e, d.off) = f[d.off]
        BY <1>1
    <2> HIDE DEF f, u
    <2>3. f \in [0..Len(t) -> 0..Len(t) - (e - s)] /\ f[0] = 0
        BY <1>1, <2>1, MovesOutIs
    <2> QED
        BY <1>3, <2>1, <2>2, <2>3
<1>6. D = {<<f[k[1]], k[2]>> : k \in d.checks}
    <2>1. \A k \in d.checks : f[k[1]] = MovedOut(s, e, k[1])
        BY <1>1
    <2> HIDE DEF f
    <2> QED
        BY <2>1 DEF ShiftedOut
<1>7. Exact(d) => /\ StartsIn(X, Len(u))
                  /\ ~CrLf(t, s, e) /\ d.starts = {0} \cup Breaks(t) => X = {0} \cup Breaks(u)
    BY <1>1, StartsErased
<1>8. ~Exact(d) => d.starts = {}
    BY DEF Exact
<1>20. Right(d) /\ WellTyped(d)
    OBVIOUS
<1>21. u = Cut(t, s, e) /\ t = d.text
    OBVIOUS
<1> HIDE DEF t, u, f, D, X
<1>9. LazyTyped(c)
    <2>1. CASE Preserves(d, s, e)
        <3>1. Shifted(c, d, {<<f[k[1]], k[2]>> : k \in d.checks}, f[d.off])
            BY <1>2, <1>5, <1>6, <2>1
        <3> QED
            BY <1>2, <1>3, <1>5, <1>20, <3>1, ShiftedTyped DEF t
    <2>2. CASE ~Preserves(d, s, e)
        BY <1>1, <1>2, <1>3, <1>4, <1>20, <2>2, CutOffTyped DEF t
    <2> QED
        BY <2>1, <2>2
<1>10. c.torn \in BOOLEAN
    BY <1>1, <1>2 DEF CrLf
<1>11. c.starts = {} \/ StartsIn(c.starts, Len(c.text))
    BY <1>2, <1>7
<1>12. WellTyped(c) /\ Empty(c)
    BY <1>2, <1>3, <1>4, <1>9, <1>10, <1>11, <1>20, TypedFrom
<1>13. Exact(c) <=> Exact(d)
    BY <1>2, <1>7 DEF Exact, StartsIn
<1>14. ASSUME ~c.torn, Exact(d) PROVE c.starts = {0} \cup Breaks(c.text)
    <2>1. ~d.torn /\ ~CrLf(t, s, e)
        BY <1>2, <1>14
    <2>2. d.starts = {0} \cup Breaks(t)
        BY <1>20, <1>14, <2>1 DEF Right, t
    <2> QED
        BY <1>2, <1>7, <1>14, <2>1, <2>2
<1>15. ASSUME ~c.torn, ~Exact(d) PROVE RightLines(c)
    <2>1. ~d.torn /\ ~CrLf(t, s, e)
        BY <1>2, <1>15
    <2>2. RightLines(d)
        BY <1>20, <1>15, <2>1 DEF Right
    <2>3. CASE Preserves(d, s, e)
        <3>1. Shifted(c, d, {<<f[k[1]], k[2]>> : k \in d.checks}, f[d.off])
            BY <1>2, <1>5, <1>6, <2>3
        <3>2. CountLineBreaks(t, s, e) = 0 /\ d.complete
            BY <2>3 DEF Preserves, t
        <3>3. Carries(t, u, f)
            <4>1. s < e /\ e <= Len(t)
                BY <1>21
            <4> QED
                BY <1>1, <1>5, <1>21, <2>1, <3>2, <4>1, EraseCarries
        <3> QED
            <4>1. c.text \in Seq(Char) /\ Carries(d.text, c.text, f)
                BY <1>2, <1>3, <1>21, <3>3
            <4> QED
                BY <1>20, <2>2, <3>1, <3>2, <4>1, ShiftedRight
    <2>4. CASE ~Preserves(d, s, e)
        <3>1. /\ \A o \in 1..Len(u) : o < s => (o \in Breaks(u) <=> o \in Breaks(t))
              /\ s > 0 => (s \in Breaks(u) <=> t[s] # "x")
            <4>1. e <= Len(t)
                BY <1>21
            <4> QED
                BY <1>1, <1>21, <2>1, <4>1, CutBreaks
        <3>2. /\ \A o \in Breaks(t) : o \in 1..Len(t) /\ t[o] # "x"
              /\ \A o \in Breaks(u) : o \in 1..Len(u)
            BY DEF Breaks
        <3>3. ASSUME NEW o \in Breaks(t), o <= s PROVE o \in Breaks(u)
            <4>1. CASE o < s
                <5>1. o \in 1..Len(u)
                    BY <1>1, <1>3, <1>4, <3>2, <4>1
                <5> QED
                    BY <3>1, <4>1, <5>1
            <4>2. CASE o = s
                BY <1>1, <3>1, <3>2, <4>2
            <4> QED
                BY <1>1, <3>2, <3>3, <4>1, <4>2
        <3>4. \A o \in Breaks(u) : o < s => o \in Breaks(t)
            BY <3>1, <3>2
        <3> QED
            BY <1>1, <1>2, <1>3, <1>4, <1>20, <1>21, <2>2, <2>4, <3>3, <3>4, CutOffRight
    <2> QED
        BY <2>3, <2>4
<1>16. Right(c)
    BY <1>13, <1>14, <1>15 DEF Right
<1> QED
    BY <1>2, <1>12, <1>16, <1>21 DEF Kept, Reindexed

\* insertAddSpanNoVersionBump() as well.
LEMMA InsertedKept ==
    ASSUME NEW d, WellTyped(d), Right(d), NEW p \in Nat, p <= Len(d.text), NEW x \in Seq(Char), x # <<>>,
           Len(d.text) + Len(x) <= MaxLen, NEW c, c = Inserted(d, p, x)
    PROVE  Kept(c) /\ c.text = Put(d.text, p, x) /\ c.id = d.id /\ c.version = d.version
<1> DEFINE t == d.text
           u == Put(t, p, x)
           m == Len(x)
           f == [o \in 0..Len(t) |-> MovedIn(p, m, o)]
           D == ShiftedIn(d.checks, p, m)
           X == StartsAfterInsert(d, p, x)
<1>1. /\ DOMAIN d = Fields /\ t \in Seq(Char) /\ Len(t) \in Nat /\ MaxLen \in Nat
      /\ d.off \in 0..Len(t) /\ d.torn \in BOOLEAN /\ p \in 0..Len(t) /\ p <= Len(t) /\ m \in Nat
      /\ d.checks \subseteq (0..Len(t)) \X Nat /\ Len(t) + m <= MaxLen
    BY BreaksAre, LineIndexAssumption DEF WellTyped
<1>2. /\ Reindexed(c, d) /\ c.text = u
      /\ c.torn = (d.torn \/ Torn(t, p, x))
      /\ c.starts = IF Exact(d) THEN X ELSE {}
      /\ Breaks(x) = {} => Shifted(c, d, D, MovedIn(p, m, d.off))
      /\ Breaks(x) # {} => CutOff(c, KeptTo(d.checks, p))
    BY <1>1, InsertedIs
<1>3. /\ u \in Seq(Char) /\ Len(u) = Len(t) + m /\ Len(u) \in Nat
    <2>1. u \in Seq(Char) /\ Len(u) = Len(t) + m
        BY <1>1, PutText
    <2> QED
        BY <2>1, BreaksAre
<1>4. Len(u) <= MaxLen /\ p <= Len(u)
    BY <1>1, <1>3
<1>5. /\ f \in [0..Len(t) -> 0..Len(u)] /\ f[0] = 0 /\ MovedIn(p, m, d.off) = f[d.off]
      /\ MovesIn(f, Len(t), p, m)
    <2>1. MovesIn(f, Len(t), p, m)
        BY DEF MovesIn
    <2>2. MovedIn(p, m, d.off) = f[d.off]
        BY <1>1
    <2> HIDE DEF f, u, m
    <2>3. f \in [0..Len(t) -> 0..Len(t) + m] /\ f[0] = 0
        BY <1>1, <2>1, MovesInIs, SMTT(60)
    <2> QED
        BY <1>3, <2>1, <2>2, <2>3
<1>6. D = {<<f[k[1]], k[2]>> : k \in d.checks}
    <2>1. \A k \in d.checks : f[k[1]] = MovedIn(p, m, k[1])
        BY <1>1
    <2> HIDE DEF f, m
    <2> QED
        BY <2>1 DEF ShiftedIn
<1>7. Exact(d) => /\ StartsIn(X, Len(u))
                  /\ ~Torn(t, p, x) /\ d.starts = {0} \cup Breaks(t) => X = {0} \cup Breaks(u)
    BY <1>1, StartsInserted
<1>8. ~Exact(d) => d.starts = {}
    BY DEF Exact
<1>20. Right(d) /\ WellTyped(d)
    OBVIOUS
<1>21. u = Put(t, p, x) /\ t = d.text /\ m = Len(x)
    OBVIOUS
<1> HIDE DEF t, u, f, D, X, m
<1>9. LazyTyped(c)
    <2>1. CASE Breaks(x) = {}
        <3>1. Shifted(c, d, {<<f[k[1]], k[2]>> : k \in d.checks}, f[d.off])
            BY <1>2, <1>5, <1>6, <2>1
        <3> QED
            BY <1>2, <1>3, <1>5, <1>20, <3>1, ShiftedTyped DEF t
    <2>2. CASE Breaks(x) # {}
        BY <1>1, <1>2, <1>3, <1>4, <1>20, <2>2, CutOffTyped DEF t
    <2> QED
        BY <2>1, <2>2
<1>10. c.torn \in BOOLEAN
    BY <1>1, <1>2 DEF CrLf, Torn
<1>11. c.starts = {} \/ StartsIn(c.starts, Len(c.text))
    BY <1>2, <1>7
<1>12. WellTyped(c) /\ Empty(c)
    BY <1>2, <1>3, <1>4, <1>9, <1>10, <1>11, <1>20, TypedFrom
<1>13. Exact(c) <=> Exact(d)
    BY <1>2, <1>7 DEF Exact, StartsIn
<1>14. ASSUME ~c.torn, Exact(d) PROVE c.starts = {0} \cup Breaks(c.text)
    <2>1. ~d.torn /\ ~Torn(t, p, x)
        BY <1>2, <1>14
    <2>2. d.starts = {0} \cup Breaks(t)
        BY <1>20, <1>14, <2>1 DEF Right, t
    <2> QED
        BY <1>2, <1>7, <1>14, <2>1, <2>2
<1>15. ASSUME ~c.torn, ~Exact(d) PROVE RightLines(c)
    <2>1. ~d.torn /\ ~Torn(t, p, x)
        BY <1>2, <1>15
    <2>2. RightLines(d)
        BY <1>20, <1>15, <2>1 DEF Right
    <2>3. CASE Breaks(x) = {}
        <3>1. Shifted(c, d, {<<f[k[1]], k[2]>> : k \in d.checks}, f[d.off])
            BY <1>2, <1>5, <1>6, <2>3
        <3>2. /\ Carries(t, u, f)
              /\ \A a, b \in 0..Len(t) : a > b => f[a] > f[b]
            BY <1>1, <1>5, <1>21, <2>1, <2>3, InsertCarries
        <3>3. \A a \in Breaks(t) : a > d.off => f[a] > f[d.off]
            <4>1. \A a \in Breaks(t) : a \in 0..Len(t)
                BY <1>1, BreaksAre
            <4> QED
                BY <1>1, <3>2, <4>1
        <3> QED
            <4>1. c.text \in Seq(Char) /\ Carries(d.text, c.text, f)
                BY <1>2, <1>3, <1>21, <3>2
            <4>2. \A a \in Breaks(d.text) : a > d.off => f[a] > f[d.off]
                BY <1>21, <3>3
            <4> QED
                BY <1>20, <2>2, <3>1, <4>1, <4>2, ShiftedRight
    <2>4. CASE Breaks(x) # {}
        <3>1. \A o \in 1..p : o \in Breaks(u) <=> o \in Breaks(t)
            BY <1>1, <1>21, <2>1, PutBreaks
        <3>2. /\ \A o \in Breaks(t) : o \in 1..Len(t)
              /\ \A o \in Breaks(u) : o \in 1..Len(u)
            BY DEF Breaks
        <3>3. ASSUME NEW o \in Breaks(t), o <= p PROVE o \in Breaks(u)
            BY <1>1, <3>1, <3>2, <3>3
        <3>4. ASSUME NEW o \in Breaks(u), o < p PROVE o \in Breaks(t)
            BY <1>3, <3>1, <3>2, <3>4
        <3> QED
            BY <1>1, <1>2, <1>3, <1>4, <1>20, <1>21, <2>2, <2>4, <3>3, <3>4, CutOffRight
    <2> QED
        BY <2>3, <2>4
<1>16. Right(c)
    BY <1>13, <1>14, <1>15 DEF Right
<1> QED
    BY <1>2, <1>12, <1>16, <1>21 DEF Kept, Reindexed

\* The empty text has no line ends.
LEMMA EmptyText ==
    /\ <<>> \in Seq(Char) /\ Len(<<>>) = 0 /\ Len(<<>>) <= MaxLen /\ MaxLen \in Nat
    /\ Breaks(<<>>) = {} /\ Cardinality(Breaks(<<>>)) = 0
<1>1. MaxLen \in Nat
    BY LineIndexAssumption
<1>2. <<>> \in Seq(Char) /\ Len(<<>>) = 0
    OBVIOUS
<1>3. Breaks(<<>>) = {}
    <2>1. Breaks(<<>>) \subseteq 1..Len(<<>>)
        BY <1>2, BreaksAre
    <2>2. 1..Len(<<>>) = {}
        BY <1>2
    <2> QED
        BY <2>1, <2>2
<1>4. Cardinality({}) = 0
    BY FS_EmptySet
<1>5. Len(<<>>) <= MaxLen
    BY <1>1, <1>2
<1>6. Cardinality(Breaks(<<>>)) = 0
    BY <1>3, <1>4
<1> QED
    BY <1>1, <1>2, <1>3, <1>5, <1>6, Zenon

\* An empty ledger is in order.
LEMMA KeptGood ==
    ASSUME NEW d, Kept(d)
    PROVE  Good(d) /\ Empty(d) /\ d.version \in Nat /\ d.id \in Nat /\ d.text \in Seq(Char)
<1>1. WellTyped(d) /\ Right(d) /\ d.packets = {} /\ d.reserved = {}
    BY DEF Kept, Empty
<1>2. Ledger(d)
    BY <1>1, FS_EmptySet DEF Ledger
<1>3. Behind(d)
    BY <1>1 DEF Behind
<1> QED
    BY <1>1, <1>2, <1>3 DEF Good, Empty, WellTyped

\* the document with another version
Bumped(d, v) == [d EXCEPT !.version = v]

\* A document with another version.
LEMMA BumpedKept ==
    ASSUME NEW d, Kept(d), NEW v \in Nat, NEW c, c = Bumped(d, v)
    PROVE  Kept(c) /\ c.text = d.text /\ c.id = d.id /\ c.version = v
<1>1. DOMAIN d = Fields
    BY DEF Kept, WellTyped
<1>2. /\ DOMAIN c = Fields /\ c.version = v
      /\ c.id = d.id /\ c.text = d.text /\ c.starts = d.starts /\ c.checks = d.checks /\ c.off = d.off
      /\ c.line = d.line /\ c.complete = d.complete /\ c.total = d.total /\ c.torn = d.torn
      /\ c.packets = d.packets /\ c.reserved = d.reserved /\ c.nextId = d.nextId
    BY <1>1 DEF Fields, Bumped
<1>3. WellTyped(c)
    BY <1>2 DEF Kept, WellTyped
<1>4. Right(c)
    BY <1>2 DEF Kept, Right, RightLines, Exact
<1>5. Empty(c)
    BY <1>2 DEF Kept, Empty
<1> QED
    BY <1>2, <1>3, <1>4, <1>5 DEF Kept

\* replace(): the index is right, the ledger is empty and the version is a new one.
LEMMA ReplacedKept ==
    ASSUME NEW d, Good(d), NEW s \in Nat, NEW e \in Nat, s <= e, e <= Len(d.text), NEW x \in Seq(Char),
           (e - s) + Len(x) >= 1, (Len(d.text) - (e - s)) + Len(x) <= MaxLen, NEW c, c = Replaced(d, s, e, x)
    PROVE  Kept(c) /\ c.id = d.id /\ c.version = d.version + 1
<1> DEFINE a == Erased(d, s, e)
           b == Inserted(a, s, x)
<1>1. WellTyped(d) /\ Right(d) /\ d.text \in Seq(Char) /\ Len(d.text) \in Nat /\ Len(x) \in Nat /\ d.version \in Nat
    BY BreaksAre DEF Good, WellTyped
<1>2. c = Bumped(b, b.version + 1)
    BY DEF Replaced, Bumped
<1>3. s = e => a = d
    BY DEF Erased
<1>4. s < e => Kept(a) /\ a.text = Cut(d.text, s, e) /\ a.id = d.id /\ a.version = d.version
    BY <1>1, ErasedKept
<1>5. x = <<>> => b = a
    BY DEF Inserted
<1>6. b = Inserted(a, s, x)
    OBVIOUS
<1> HIDE DEF a, b
<1>7. WellTyped(a) /\ Right(a) /\ a.id = d.id /\ a.version = d.version
    BY <1>1, <1>3, <1>4 DEF Kept
<1>8. a.text \in Seq(Char) /\ Len(a.text) = Len(d.text) - (e - s) /\ s <= Len(a.text)
    <2>1. CASE s = e
        BY <1>1, <1>3, <2>1
    <2>2. CASE s < e
        <3>1. Cut(d.text, s, e) \in Seq(Char) /\ Len(Cut(d.text, s, e)) = Len(d.text) - (e - s)
            BY <1>1, CutText
        <3> DEFINE n == Len(d.text)
                   l == Len(a.text)
        <3>2. a.text \in Seq(Char) /\ l = n - (e - s) /\ n \in Nat /\ e <= n
            BY <1>1, <1>4, <2>2, <3>1
        <3> HIDE DEF n, l
        <3>3. s <= l
            BY <3>2
        <3> QED
            BY <3>2, <3>3 DEF n, l
    <2> QED
        BY <2>1, <2>2
<1>9. Kept(b) /\ b.id = d.id /\ b.version = d.version
    <2>1. CASE x = <<>>
        <3>1. s < e
            BY <2>1
        <3> QED
            BY <1>4, <1>5, <2>1, <3>1
    <2>2. CASE x # <<>>
        <3>1. Len(a.text) + Len(x) <= MaxLen
            BY <1>8
        <3> QED
            <4>1. Kept(b) /\ b.id = a.id /\ b.version = a.version
                <5>1. WellTyped(a) /\ Right(a) /\ s <= Len(a.text)
                    BY <1>7, <1>8
                <5> QED
                    BY <1>6, <2>2, <3>1, <5>1, InsertedKept
            <4> QED
                BY <1>7, <4>1
    <2> QED
        BY <2>1, <2>2
<1> DEFINE w == b.version + 1
<1>10. w \in Nat /\ w = d.version + 1 /\ c = Bumped(b, w)
    BY <1>1, <1>2, <1>9
<1> HIDE DEF w
<1>11. Kept(c) /\ c.id = b.id /\ c.version = w
    <2>1. Kept(b)
        BY <1>9
    <2>2. w \in Nat
        BY <1>10
    <2>3. c = Bumped(b, w)
        BY <1>10
    <2> DEFINE z == Bumped(b, w)
    <2>4. Kept(z) /\ z.id = b.id /\ z.version = w
        BY <2>1, <2>2, BumpedKept, ZenonT(60)
    <2> QED
        BY <2>3, <2>4
<1> QED
    BY <1>9, <1>10, <1>11

\* Index of a text that was just read: nothing is known but the beginning.
LEMMA FreshKept ==
    ASSUME NEW c, DOMAIN c = Fields, c.text \in Seq(Char), Len(c.text) <= MaxLen, c.id \in Nat, c.version \in Nat,
           c.starts = {}, c.checks = {<<0, 0>>}, c.off = 0, c.line = 0, c.total = 1, c.complete = (c.text = <<>>),
           c.packets = {}, c.reserved = {}, c.nextId = 1, c.torn = FALSE
    PROVE  Kept(c) /\ (c.text = <<>> => Known(c))
<1>1. Len(c.text) \in Nat
    BY BreaksAre
<1>2. WellTyped(c)
    <2>1. c.complete \in BOOLEAN /\ c.torn \in BOOLEAN
        BY Zenon
    <2>2. c.checks \subseteq (0..Len(c.text)) \X Nat /\ <<0, 0>> \in c.checks
        BY <1>1
    <2>3. c.off \in 0..Len(c.text)
        BY <1>1
    <2> QED
        BY <2>1, <2>2, <2>3 DEF WellTyped
<1>3. Lines(c.text, 0) = 0
    BY LinesNone
<1>4. c.complete => c.text = <<>>
    BY Zenon
<1>5. c.complete => c.total = Cardinality(Breaks(c.text)) + 1 /\ \A o \in Breaks(c.text) : o <= c.off
    BY <1>4, EmptyText
<1>6. RightLines(c)
    BY <1>3, <1>5 DEF RightLines
<1>7. ~Exact(c)
    BY DEF Exact
<1> QED
    BY <1>2, <1>6, <1>7 DEF Kept, Right, Empty, Known

\* initializeFromOriginal().
LEMMA WithTextKept ==
    ASSUME NEW d, DOMAIN d = Fields, d.id \in Nat, d.version \in Nat, NEW t \in Seq(Char), Len(t) <= MaxLen,
           NEW c, c = WithText(d, t)
    PROVE  Kept(c) /\ (t = <<>> => Known(c)) /\ c.id = d.id /\ c.version = d.version /\ c.text = t
<1>1. /\ DOMAIN c = Fields /\ c.text = t /\ c.id = d.id /\ c.version = d.version
      /\ c.starts = {} /\ c.checks = {<<0, 0>>} /\ c.off = 0 /\ c.line = 0 /\ c.total = 1 /\ c.complete = (t = <<>>)
      /\ c.packets = {} /\ c.reserved = {} /\ c.nextId = 1 /\ c.torn = FALSE
    BY DEF WithText, ResetLazy, ClearLedger, Fields
<1>2. c.complete = (c.text = <<>>)
    BY <1>1
<1> QED
    BY <1>1, <1>2, FreshKept

\* A new document: one line, and the exact index knows it.
LEMMA NewKept ==
    ASSUME NEW i \in Nat, NEW c, c = NewDocument(i)
    PROVE  Kept(c) /\ c.id = i /\ c.version = 0 /\ c.text = <<>> /\ DOMAIN c = Fields
<1>1. /\ DOMAIN c = Fields /\ c.text = <<>> /\ c.id = i /\ c.version = 0
      /\ c.starts = {0} /\ c.checks = {<<0, 0>>} /\ c.off = 0 /\ c.line = 0 /\ c.total = 1 /\ c.complete = TRUE
      /\ c.packets = {} /\ c.reserved = {} /\ c.nextId = 1 /\ c.torn = FALSE
    BY DEF NewDocument, Fields
<1>2. <<>> \in Seq(Char) /\ Len(<<>>) = 0 /\ MaxLen \in Nat
    BY EmptyText
<1>3. WellTyped(c)
    <2>1. c.text \in Seq(Char) /\ Len(c.text) = 0 /\ Len(c.text) <= MaxLen
        BY <1>1, EmptyText
    <2>2. c.off \in 0..Len(c.text) /\ c.starts \subseteq 0..Len(c.text)
        BY <1>1, <2>1
    <2>3. c.checks \subseteq (0..Len(c.text)) \X Nat
        BY <1>1, <2>1
    <2>4. /\ DOMAIN c = Fields /\ c.id \in Nat /\ c.version \in Nat /\ c.line \in Nat /\ c.total \in Nat /\ c.nextId \in Nat
          /\ c.complete \in BOOLEAN /\ c.torn \in BOOLEAN /\ 0 \in c.starts /\ <<0, 0>> \in c.checks
        <3>1. DOMAIN c = Fields /\ c.id \in Nat /\ c.version \in Nat /\ c.line \in Nat /\ c.total \in Nat /\ c.nextId \in Nat
            BY <1>1
        <3>2. 0 \in c.starts /\ <<0, 0>> \in c.checks
            BY <1>1
        <3>3. c.complete \in BOOLEAN /\ c.torn \in BOOLEAN
            BY <1>1, Zenon
        <3> QED
            BY <3>1, <3>2, <3>3
    <2> QED
        BY <2>1, <2>2, <2>3, <2>4 DEF WellTyped
<1>4. Breaks(c.text) = {}
    BY <1>1, EmptyText
<1>5. Right(c)
    BY <1>1, <1>4 DEF Right, Exact
<1> QED
    BY <1>1, <1>3, <1>5 DEF Kept, Empty

\* A document with the text of a file.
LEMMA LoadedKept ==
    ASSUME NEW i \in Nat, NEW t \in Seq(Char), Len(t) <= MaxLen, NEW c, c = Loaded(i, t)
    PROVE  Kept(c) /\ c.id = i /\ c.version = 1
<1> DEFINE a == NewDocument(i)
           b == WithText(a, t)
<1>1. a.id = i /\ a.version = 0 /\ DOMAIN a = Fields
    BY NewKept
<1>2. c = Bumped(b, 1)
    BY DEF Loaded, Bumped
<1> HIDE DEF a
<1>3. Kept(b) /\ b.id = a.id
    BY <1>1, WithTextKept
<1> HIDE DEF b
<1>4. Kept(c) /\ c.text = b.text /\ c.id = b.id /\ c.version = 1
    BY <1>2, <1>3, BumpedKept
<1> QED
    BY <1>1, <1>3, <1>4

\* restoreFromSnapshot().
LEMMA RestoredKept ==
    ASSUME NEW d, Good(d), NEW s, Kept(s), NEW c, c = Restored(d, s)
    PROVE  /\ s.text # <<>> => c = s
           /\ s.text = <<>> /\ d.text = <<>> => c = d
           /\ s.text = <<>> /\ d.text # <<>> => Kept(c) /\ Known(c) /\ c.id = d.id /\ c.version = d.version /\ c.text = <<>>
<1>1. DOMAIN d = Fields /\ d.id \in Nat /\ d.version \in Nat
    BY DEF Good, WellTyped
<1>2. <<>> \in Seq(Char) /\ Len(<<>>) <= MaxLen
    BY EmptyText
<1>3. s.text = <<>> /\ d.text # <<>> => c = WithText(d, <<>>)
    BY DEF Restored
<1>4. s.text = <<>> /\ d.text # <<>> => Kept(c) /\ Known(c) /\ c.id = d.id /\ c.version = d.version /\ c.text = <<>>
    <2> DEFINE z == <<>>
    <2>1. z \in Seq(Char) /\ Len(z) <= MaxLen /\ (s.text = z /\ d.text # z => c = WithText(d, z)) /\ z = <<>>
        BY <1>2, <1>3
    <2> HIDE DEF z
    <2>2. c = WithText(d, z) => Kept(c) /\ Known(c) /\ c.id = d.id /\ c.version = d.version /\ c.text = z
        <3>1. DOMAIN d = Fields /\ d.id \in Nat /\ d.version \in Nat /\ z \in Seq(Char) /\ Len(z) <= MaxLen
            BY <1>1, <2>1
        <3>2. c = WithText(d, z) => Kept(c) /\ (z = <<>> => Known(c)) /\ c.id = d.id /\ c.version = d.version /\ c.text = z
            BY <3>1, WithTextKept
        <3>3. z = <<>>
            BY DEF z
        <3> QED
            BY <3>2, <3>3, Zenon
    <2> QED
        BY <2>1, <2>2
<1> QED
    BY <1>4 DEF Restored

\* The line that starts at the n-th start of an exact index is line n.
LEMMA StartLine ==
    ASSUME NEW t \in Seq(Char), NEW D, D = {0} \cup Breaks(t), NEW o \in D
    PROVE  Lines(t, o) = Cardinality({q \in D : q < o})
<1> DEFINE n == Len(t)
           B == {b \in Breaks(t) : b < o}
<1>1. n \in Nat /\ Breaks(t) \subseteq 1..n /\ \A b \in Breaks(t) : b \in Nat /\ b > 0 /\ b <= n
    BY BreaksAre
<1>2. CASE o = 0
    <2>1. {q \in D : q < o} = {}
        BY <1>1, <1>2
    <2> QED
        BY <1>2, <2>1, LinesNone, FS_EmptySet
<1>3. CASE o \in Breaks(t)
    <2>1. o \in Nat /\ o > 0
        BY <1>1, <1>3
    <2>2. {q \in D : q < o} = B \cup {0}
        BY <1>1, <2>1
    <2>3. Within(t, 0, o) = B \cup {o}
        BY <1>1, <1>3, <2>1 DEF Within
    <2>4. B \subseteq 0..n /\ 0 \notin B /\ o \notin B
        BY <1>1, <2>1
    <2> HIDE DEF B
    <2>5. IsFiniteSet(B)
        BY <1>1, <2>4, FiniteUpTo
    <2>6. Cardinality(B \cup {0}) = Cardinality(B) + 1 /\ Cardinality(B \cup {o}) = Cardinality(B) + 1
        BY <2>4, <2>5, FS_AddElement
    <2> QED
        BY <2>2, <2>3, <2>6 DEF Lines
<1> QED
    BY <1>2, <1>3

\* detachSnapshot(): what is kept of an exact index is right, and of a lazy one all.
LEMMA SnapshotKept ==
    ASSUME NEW d, Good(d), NEW cursor \in 0..Len(d.text), NEW c, c = Snapshot(d, cursor)
    PROVE  Kept(c) /\ c.text = d.text /\ c.version = d.version
<1> DEFINE t == d.text
           D == d.starts
           Start(n) == CHOOSE s \in D : Cardinality({q \in D : q < s}) = n
           at == IF cursor = Len(t) /\ cursor > 0 THEN cursor - 1 ELSE cursor
           F == {s \in D : s <= at}
           focus == Cardinality(F) - 1
           n == IF focus > Stride THEN focus - Stride ELSE 0
           bare == ClearLedger(d)
           o == Start(n)
<1>1. WellTyped(d) /\ Right(d) /\ DOMAIN d = Fields /\ t \in Seq(Char) /\ Len(t) \in Nat /\ D \subseteq 0..Len(t) /\ Stride \in Nat
    BY BreaksAre, LineIndexAssumption DEF Good, WellTyped
<1>2. /\ Reindexed(bare, d) /\ bare.text = t /\ bare.starts = D /\ bare.torn = d.torn
      /\ Shifted(bare, d, d.checks, d.off)
    BY <1>1, ClearLedgerIs
<1>3. CASE ~Exact(d)
    <2>1. c = bare
        BY <1>3 DEF Snapshot
    <2>2. /\ DOMAIN c = Fields /\ Empty(c) /\ c.nextId = 1 /\ c.id = d.id /\ c.version = d.version
          /\ c.text = t /\ c.starts = D /\ c.torn = d.torn
          /\ c.checks = d.checks /\ c.off = d.off /\ c.line = d.line /\ c.complete = d.complete /\ c.total = d.total
        BY <1>2, <2>1 DEF Reindexed, Shifted
    <2>3. WellTyped(c)
        BY <1>1, <2>2 DEF WellTyped
    <2>4. Right(c)
        BY <1>1, <2>2 DEF Right, RightLines, Exact
    <2> QED
        BY <2>2, <2>3, <2>4 DEF Kept
<1>4. CASE Exact(d)
    <2>1. c = [bare EXCEPT !.starts = {}, !.checks = {<<0, 0>>, <<o, n>>}, !.off = o, !.line = n,
                           !.complete = (t = <<>>), !.total = n + 1]
        BY <1>4 DEF Snapshot
    <2>2. 0 \in D
        BY <1>1, <1>4 DEF WellTyped, Exact
    <2>3. n \in Nat /\ n < Cardinality(D) /\ IsFiniteSet(D) /\ D \subseteq Nat
        <3>1. IsFiniteSet(D) /\ Cardinality(D) \in Nat
            <4> HIDE DEF D, t
            <4> QED
                BY <1>1, FiniteUpTo
        <3>2. F \subseteq D
            OBVIOUS
        <3>3. 0 \in F
            BY <2>2
        <3> HIDE DEF F, D
        <3>4. IsFiniteSet(F) /\ Cardinality(F) \in Nat /\ Cardinality(F) <= Cardinality(D)
            BY <3>1, <3>2, FS_Subset, FS_CardinalityType
        <3>5. Cardinality(F) # 0
            BY <3>3, <3>4, FS_EmptySet
        <3> DEFINE x == Cardinality(F)
                   y == Cardinality(D)
        <3>6. x \in Nat /\ y \in Nat /\ x # 0 /\ x <= y /\ focus = x - 1
            BY <3>1, <3>4, <3>5
        <3> HIDE DEF x, y, focus
        <3>7. n \in Nat /\ n < y
            BY <1>1, <3>6
        <3>8. D \subseteq Nat
            BY <1>1 DEF D
        <3> QED
            BY <3>1, <3>7, <3>8 DEF y
    <2> HIDE DEF n
    <2>4. \E s \in D : Cardinality({q \in D : q < s}) = n
        <3> HIDE DEF D
        <3> QED
            BY <2>3, NthOf
    <2>5. o \in D /\ Cardinality({q \in D : q < o}) = n
        <3> HIDE DEF D
        <3> QED
            BY <2>4
    <2>10. o \in 0..Len(t)
        BY <1>1, <2>5
    <2> HIDE DEF o, bare
    <2>6. /\ DOMAIN c = Fields /\ Empty(c) /\ c.nextId = 1 /\ c.id = d.id /\ c.version = d.version
          /\ c.text = t /\ c.starts = {} /\ c.torn = d.torn
          /\ c.checks = {<<0, 0>>, <<o, n>>} /\ c.off = o /\ c.line = n /\ c.complete = (t = <<>>) /\ c.total = n + 1
        BY <1>2, <2>1 DEF Reindexed, Fields, Empty
    <2>11. c.checks \subseteq (0..Len(t)) \X Nat /\ <<0, 0>> \in c.checks
        BY <1>1, <2>3, <2>6, <2>10
    <2>12. c.complete \in BOOLEAN
        BY <2>6, Zenon
    <2>13. c.line \in Nat /\ c.total \in Nat /\ c.off \in 0..Len(t)
        BY <2>3, <2>6, <2>10
    <2>7. WellTyped(c)
        BY <1>1, <2>6, <2>11, <2>12, <2>13 DEF WellTyped
    <2>8. ASSUME ~d.torn PROVE RightLines(c)
        <3>1. D = {0} \cup Breaks(t)
            BY <1>1, <1>4, <2>8 DEF Right
        <3>2. Lines(t, o) = n
            <4> HIDE DEF D
            <4> QED
                BY <1>1, <2>5, <3>1, StartLine, ZenonT(60)
        <3>3. \A k \in c.checks : k[1] \in {0} \cup Breaks(t) /\ k[2] = Lines(t, k[1])
            BY <1>1, <2>5, <2>6, <3>1, <3>2, LinesNone
        <3>4. t = <<>> => c.total = Cardinality(Breaks(t)) + 1 /\ \A b \in Breaks(t) : b <= c.off
            <4> SUFFICES ASSUME t = <<>> PROVE n = 0 /\ Breaks(t) = {} /\ Cardinality(Breaks(t)) = 0
                BY <2>6
            <4>1. Breaks(t) = {} /\ Cardinality(Breaks(t)) = 0
                BY EmptyText
            <4>2. o = 0
                BY <2>5, <3>1, <4>1
            <4> HIDE DEF t
            <4> QED
                BY <1>1, <3>2, <4>1, <4>2, LinesNone
        <3>5. c.complete => t = <<>>
            BY <2>6, Zenon
        <3> QED
            BY <2>6, <3>2, <3>3, <3>4, <3>5 DEF RightLines
    <2>9. Right(c)
        BY <2>6, <2>8 DEF Right, Exact
    <2> QED
        BY <2>6, <2>7, <2>9 DEF Kept
<1> QED
    BY <1>3, <1>4

\* ensureLazyIndexComplete(): every line end behind the prefix is counted.
LEMMA CompleteIs ==
    ASSUME NEW d, Good(d), NEW stride, NEW c, c = Complete(d, stride)
    PROVE  /\ Good(c) /\ (~d.complete => c.complete = TRUE)
           /\ c.text = d.text /\ c.id = d.id /\ c.version = d.version /\ c.reserved = d.reserved /\ c.starts = d.starts
           /\ ~d.torn /\ ~Exact(d) => RightLines(c)
<1> DEFINE t == d.text
           ends == Within(t, d.off, Len(t))
           Line(o) == d.line + Cardinality(Within(t, d.off, o))
           last == Max(ends \cup {d.off})
           new == {<<o, Line(o)>> : o \in {p \in ends : Line(p) % stride = 0}}
<1>1. /\ WellTyped(d) /\ Right(d) /\ Ledger(d) /\ DOMAIN d = Fields /\ t \in Seq(Char) /\ Len(t) \in Nat
      /\ d.off \in 0..Len(t) /\ d.line \in Nat /\ d.complete \in BOOLEAN
      /\ d.checks \subseteq (0..Len(t)) \X Nat /\ <<0, 0>> \in d.checks
    BY BreaksAre DEF Good, WellTyped
<1>2. CASE d.complete
    <2>1. c = d
        BY <1>2 DEF Complete
    <2>2. ~d.torn /\ ~Exact(d) => RightLines(d)
        BY <1>1 DEF Right
    <2> QED
        BY <1>2, <2>1, <2>2
<1>3. CASE ~d.complete
    <2>1. c = [d EXCEPT !.off = last, !.line = Line(last), !.complete = TRUE, !.total = Line(last) + 1,
                        !.checks = @ \cup new]
        BY <1>3 DEF Complete
    <2>2. ends \subseteq Breaks(t) /\ Breaks(t) \subseteq 1..Len(t) /\ \A o : Cardinality(Within(t, d.off, o)) \in Nat
        BY <1>1, BreaksAre
    <2>3. \A o : Line(o) \in Nat
        BY <1>1, <2>2
    <2>4. ends \cup {d.off} \subseteq 0..Len(t) /\ ends \cup {d.off} # {}
        BY <1>1, <2>2
    <2>5. last \in ends \cup {d.off} /\ \A o \in ends \cup {d.off} : o <= last
        <3> DEFINE E == ends \cup {d.off}
        <3> HIDE DEF E, t
        <3> QED
            BY <1>1, <2>4, MaxOf DEF E
    <2>6. last \in 0..Len(t)
        BY <2>4, <2>5
    <2>7. \A o \in Breaks(t) : o <= last
        <3> SUFFICES ASSUME NEW o \in Breaks(t) PROVE o <= last
            OBVIOUS
        <3>1. o \in 1..Len(t) /\ d.off <= last
            BY <2>2, <2>5
        <3>2. CASE o <= d.off
            BY <1>1, <2>6, <3>1, <3>2
        <3>3. CASE o > d.off
            <4>1. o \in ends
                BY <1>1, <3>1, <3>3 DEF Within
            <4> QED
                BY <2>5, <4>1
        <3> QED
            BY <1>1, <3>1, <3>2, <3>3
    <2>8. ASSUME NEW k \in new PROVE k[1] \in ends /\ k[1] \in 0..Len(t) /\ k[2] = Line(k[1]) /\ k = <<k[1], k[2]>>
        <3>1. PICK o \in ends : k = <<o, Line(o)>>
            BY <2>8
        <3>2. k[1] = o /\ k[2] = Line(o)
            BY <3>1
        <3> QED
            BY <3>1, <3>2, <2>4
    <2>9. last \in Nat /\ d.off \in Nat /\ d.off <= last
        <3> HIDE DEF last, ends
        <3> QED
            BY <1>1, <2>5, <2>6
    <2> HIDE DEF last, new, ends
    <2>10. /\ DOMAIN c = Fields /\ c.off = last /\ c.line = Line(last) /\ c.complete = TRUE /\ c.total = Line(last) + 1
           /\ c.checks = d.checks \cup new
           /\ c.id = d.id /\ c.text = t /\ c.version = d.version /\ c.starts = d.starts /\ c.torn = d.torn
           /\ c.packets = d.packets /\ c.reserved = d.reserved /\ c.nextId = d.nextId
        BY <1>1, <2>1 DEF Fields
    <2>11. new \subseteq (0..Len(t)) \X Nat
        BY <2>3, <2>8
    <2>12. c.checks \subseteq (0..Len(t)) \X Nat /\ <<0, 0>> \in c.checks
        BY <1>1, <2>10, <2>11
    <2>13. c.line \in Nat /\ c.total \in Nat /\ c.off \in 0..Len(t) /\ c.complete \in BOOLEAN
        <3> DEFINE y == Line(last)
        <3>1. y \in Nat
            BY <2>3
        <3>2. c.off = last /\ c.line = y /\ c.complete = TRUE /\ c.total = y + 1
            BY <2>10
        <3> HIDE DEF y
        <3>3. c.complete \in BOOLEAN
            BY <3>2, Zenon
        <3>4. c.off \in 0..Len(t)
            BY <2>6, <3>2, Zenon
        <3>5. c.line \in Nat /\ c.total \in Nat
            BY <3>1, <3>2
        <3> QED
            BY <3>3, <3>4, <3>5
    <2>14. WellTyped(c)
        BY <1>1, <2>10, <2>12, <2>13 DEF WellTyped
    <2>15. ASSUME ~d.torn, ~Exact(d) PROVE RightLines(c)
        <3>1. RightLines(d)
            BY <1>1, <2>15 DEF Right
        <3>2. /\ \A k \in d.checks : k[1] \in {0} \cup Breaks(t) /\ k[2] = Lines(t, k[1])
              /\ d.line = Lines(t, d.off)
            BY <3>1 DEF RightLines
        <3>3. ASSUME NEW o \in Nat, d.off <= o PROVE Line(o) = Lines(t, o)
            BY <1>1, <2>9, <3>2, <3>3, LinesSum
        <3>4. \A o \in ends : o \in Nat /\ d.off <= o /\ o \in Breaks(t)
            BY <1>1, <2>2, <2>9 DEF ends, Within
        <3>5. \A k \in new : k[1] \in {0} \cup Breaks(t) /\ k[2] = Lines(t, k[1])
            BY <2>8, <3>3, <3>4
        <3>6. Line(last) = Lines(t, last)
            BY <2>9, <3>3
        <3>7. Lines(t, last) = Cardinality(Breaks(t))
            BY <1>1, <2>7, <2>9, LinesAll
        <3>8. \A k \in c.checks : k[1] \in {0} \cup Breaks(t) /\ k[2] = Lines(t, k[1])
            BY <2>10, <3>2, <3>5
        <3>9. c.line = Lines(t, c.off) /\ c.total = Cardinality(Breaks(t)) + 1 /\ c.text = t
            BY <2>10, <3>6, <3>7
        <3>10. \A o \in Breaks(t) : o <= c.off
            BY <2>7, <2>10
        <3> QED
            BY <2>10, <3>8, <3>9, <3>10 DEF RightLines
    <2>16. Right(c)
        <3>1. c.torn = d.torn /\ c.starts = d.starts /\ c.text = d.text
            BY <2>10
        <3> QED
            BY <1>1, <2>15, <3>1 DEF Right, Exact
    <2>17. Ledger(c)
        BY <1>1, <2>10 DEF Ledger, Fits
    <2>18. Behind(c)
        BY <2>10 DEF Behind
    <2> QED
        BY <2>10, <2>14, <2>15, <2>16, <2>17, <2>18 DEF Good
<1> QED
    BY <1>1, <1>2, <1>3

-----------------------------------------------------------------------------
(***************************************************************************)
(* The ledger.                                                             *)
(***************************************************************************)

\* The result of a scan.
LEMMA ScanIs ==
    ASSUME NEW t \in Seq(Char), NEW s \in Nat, NEW e \in Nat, NEW i, NEW p, p = ScanSpan(t, s, e, i)
    PROVE  /\ p.s = s /\ p.e = e /\ p.res = i /\ p.count = Cardinality(Within(t, s, e)) /\ p.count \in Nat
           /\ \A c \in p.checks : /\ c[1] \in Breaks(t) /\ s < c[1] /\ c[1] <= e /\ c[1] \in 0..Len(t)
                                  /\ c[2] = Cardinality(Within(t, s, c[1])) /\ c[2] \in Nat
<1> DEFINE Rank(o) == Cardinality(Within(t, s, o))
           C == {<<o, Rank(o)>> : o \in {q \in Within(t, s, e) : Rank(q) % Stride = 0}}
<1>1. p.s = s /\ p.e = e /\ p.res = i /\ p.count = Cardinality(Within(t, s, e)) /\ p.checks = C
    BY DEF ScanSpan
<1>2. \A o : Rank(o) \in Nat
    BY BreaksAre
<1>3. Within(t, s, e) \subseteq Breaks(t) /\ Breaks(t) \subseteq 0..Len(t)
    BY BreaksAre
<1>4. ASSUME NEW c \in C
      PROVE  /\ c[1] \in Breaks(t) /\ s < c[1] /\ c[1] <= e /\ c[1] \in 0..Len(t)
             /\ c[2] = Cardinality(Within(t, s, c[1])) /\ c[2] \in Nat
    <2>1. PICK o \in Within(t, s, e) : c = <<o, Rank(o)>>
        BY <1>4
    <2>2. c[1] = o /\ c[2] = Rank(o)
        BY <2>1
    <2>3. s < o /\ o <= e
        BY DEF Within
    <2> QED
        BY <1>2, <1>3, <2>2, <2>3
<1> HIDE DEF C
<1> QED
    BY <1>1, <1>2, <1>4

\* a document whose ledger is in order
Sound(d) == WellTyped(d) /\ Right(d) /\ Ledger(d)

\* c is d but for its lazy index and the scanned spans
Extends(c, d) ==
    /\ c.id = d.id /\ c.text = d.text /\ c.version = d.version /\ c.starts = d.starts /\ c.complete = d.complete
    /\ c.reserved = d.reserved /\ c.nextId = d.nextId /\ c.torn = d.torn /\ c.packets \subseteq d.packets

\* all spans are behind the indexed prefix
Ahead(d) == \A k \in d.packets \cup d.reserved : k.s >= d.off

\* scanned spans that are next to the indexed prefix
Ready(d) == {p \in d.packets : p.s = d.off}

\* The indexed prefix takes up a span: it is right if it was, and the other
\* spans are still behind it.
LEMMA ExtendedIs ==
    ASSUME NEW d, Sound(d), NEW c, c = Extended(d)
    PROVE  /\ Sound(c) /\ Extends(c, d)
           /\ Ahead(d) => Ahead(c)
           /\ Ready(d) = {} => c = d
           /\ Ready(d) # {} => \E p \in d.packets : c.packets = d.packets \ {p}
<1> DEFINE t == d.text
<1>1. /\ WellTyped(d) /\ Right(d) /\ Ledger(d) /\ DOMAIN d = Fields /\ t \in Seq(Char) /\ Len(t) \in Nat
      /\ d.off \in 0..Len(t) /\ d.line \in Nat
      /\ d.checks \subseteq (0..Len(t)) \X Nat /\ <<0, 0>> \in d.checks
    BY BreaksAre DEF Sound, WellTyped
<1>2. CASE Ready(d) = {}
    <2>1. c = d
        BY <1>2 DEF Extended, Ready
    <2> QED
        BY <1>2, <2>1 DEF Extends
<1>3. CASE Ready(d) # {}
    <2> DEFINE p == CHOOSE q \in Ready(d) : TRUE
               new == {<<k[1], d.line + k[2]>> : k \in {j \in p.checks : j[1] > LastCheck(d)[1]}}
    <2>1. p \in d.packets /\ p.s = d.off
        <3>1. p \in Ready(d)
            BY <1>3
        <3> HIDE DEF p
        <3> QED
            BY <3>1 DEF Ready
    <2>2. c = [d EXCEPT !.off = p.e, !.line = @ + p.count, !.packets = @ \ {p}, !.checks = @ \cup new]
        BY <1>3 DEF Extended, Ready
    <2> HIDE DEF p
    <2>3. p.s \in Nat /\ p.e \in Nat /\ p.s < p.e /\ p.e <= Len(t) /\ p = ScanSpan(t, p.s, p.e, p.res)
        BY <1>1, <2>1 DEF Ledger, Fits
    <2>4. /\ p.count = Cardinality(Within(t, p.s, p.e)) /\ p.count \in Nat
          /\ \A k \in p.checks : /\ k[1] \in Breaks(t) /\ p.s < k[1] /\ k[1] <= p.e /\ k[1] \in 0..Len(t)
                                 /\ k[2] = Cardinality(Within(t, p.s, k[1])) /\ k[2] \in Nat
        <3> DEFINE s == p.s
                   e == p.e
                   i == p.res
        <3>1. s \in Nat /\ e \in Nat /\ p = ScanSpan(t, s, e, i)
            BY <2>3
        <3> HIDE DEF s, e, i, t
        <3>2. /\ p.count = Cardinality(Within(t, s, e)) /\ p.count \in Nat
              /\ \A k \in p.checks : /\ k[1] \in Breaks(t) /\ s < k[1] /\ k[1] <= e /\ k[1] \in 0..Len(t)
                                     /\ k[2] = Cardinality(Within(t, s, k[1])) /\ k[2] \in Nat
            BY <1>1, <3>1, ScanIs
        <3> QED
            BY <3>2 DEF s, e
    <2>5. ASSUME NEW k \in new
          PROVE  \E j \in p.checks : k[1] = j[1] /\ k[2] = d.line + j[2] /\ k = <<k[1], k[2]>>
        <3>1. PICK j \in p.checks : k = <<j[1], d.line + j[2]>>
            BY <2>5
        <3> QED
            BY <3>1
    <2> HIDE DEF new
    <2>6. /\ DOMAIN c = Fields /\ c.off = p.e /\ c.line = d.line + p.count /\ c.checks = d.checks \cup new
          /\ c.packets = d.packets \ {p} /\ c.total = d.total
          /\ c.id = d.id /\ c.text = t /\ c.version = d.version /\ c.starts = d.starts /\ c.torn = d.torn
          /\ c.reserved = d.reserved /\ c.nextId = d.nextId /\ c.complete = d.complete
        BY <1>1, <2>2 DEF Fields
    <2>7. new \subseteq (0..Len(t)) \X Nat
        <3> SUFFICES ASSUME NEW k \in new PROVE k \in (0..Len(t)) \X Nat
            OBVIOUS
        <3>1. PICK j \in p.checks : k[1] = j[1] /\ k[2] = d.line + j[2] /\ k = <<k[1], k[2]>>
            BY <2>5
        <3>2. k[1] \in 0..Len(t) /\ k[2] \in Nat
            BY <1>1, <2>4, <3>1
        <3> QED
            BY <3>1, <3>2
    <2>8. c.checks \subseteq (0..Len(t)) \X Nat /\ <<0, 0>> \in c.checks
        BY <1>1, <2>6, <2>7
    <2>9. c.line \in Nat /\ c.off \in 0..Len(t)
        BY <1>1, <2>3, <2>4, <2>6
    <2>10. WellTyped(c)
        BY <1>1, <2>6, <2>8, <2>9 DEF WellTyped
    <2>11. ASSUME ~d.torn, ~Exact(d) PROVE RightLines(c)
        <3>1. /\ \A k \in d.checks : k[1] \in {0} \cup Breaks(t) /\ k[2] = Lines(t, k[1])
              /\ d.line = Lines(t, d.off)
              /\ d.complete => d.total = Cardinality(Breaks(t)) + 1 /\ \A o \in Breaks(t) : o <= d.off
            BY <1>1, <2>11 DEF Right, RightLines
        <3>2. ASSUME NEW o \in Nat, d.off <= o PROVE Lines(t, o) = d.line + Cardinality(Within(t, d.off, o))
            BY <1>1, <3>1, <3>2, LinesSum
        <3>3. \A k \in new : k[1] \in {0} \cup Breaks(t) /\ k[2] = Lines(t, k[1])
            <4> SUFFICES ASSUME NEW k \in new PROVE k[1] \in {0} \cup Breaks(t) /\ k[2] = Lines(t, k[1])
                OBVIOUS
            <4>1. PICK j \in p.checks : k[1] = j[1] /\ k[2] = d.line + j[2]
                BY <2>5
            <4>2. /\ j[1] \in Breaks(t) /\ j[1] \in Nat /\ d.off <= j[1]
                  /\ j[2] = Cardinality(Within(t, d.off, j[1]))
                BY <1>1, <2>1, <2>4
            <4>3. Lines(t, j[1]) = d.line + j[2]
                BY <3>2, <4>2
            <4> QED
                BY <4>1, <4>2, <4>3
        <3>4. \A k \in c.checks : k[1] \in {0} \cup Breaks(t) /\ k[2] = Lines(t, k[1])
            BY <2>6, <3>1, <3>3
        <3>5. c.line = Lines(t, c.off)
            <4>1. d.off <= p.e /\ p.count = Cardinality(Within(t, d.off, p.e))
                BY <2>1, <2>3, <2>4
            <4>2. Lines(t, p.e) = d.line + p.count
                BY <2>3, <3>2, <4>1
            <4> QED
                BY <2>6, <4>2
        <3>6. d.complete => \A o \in Breaks(t) : o <= c.off
            <4>1. d.off <= c.off /\ c.off \in Nat /\ d.off \in Nat
                BY <1>1, <2>1, <2>3, <2>6
            <4>2. \A o \in Breaks(t) : o \in Nat
                BY <1>1, BreaksAre
            <4> QED
                BY <3>1, <4>1, <4>2
        <3> QED
            BY <2>6, <3>1, <3>4, <3>5, <3>6 DEF RightLines
    <2>12. Right(c)
        <3>1. c.torn = d.torn /\ c.starts = d.starts /\ c.text = d.text
            BY <2>6
        <3> QED
            BY <1>1, <2>11, <3>1 DEF Right, Exact
    <2>13. Ledger(c)
        <3>1. c.packets \subseteq d.packets /\ c.reserved = d.reserved /\ c.text = d.text /\ c.nextId = d.nextId
            BY <2>6
        <3>2. IsFiniteSet(c.packets)
            BY <1>1, <3>1, FS_Subset DEF Ledger
        <3> QED
            BY <1>1, <3>1, <3>2 DEF Ledger, Fits
    <2>14. Ahead(d) => Ahead(c)
        <3> SUFFICES ASSUME Ahead(d), NEW k \in c.packets \cup c.reserved PROVE k.s >= c.off
            BY DEF Ahead
        <3>1. k \in d.packets \cup d.reserved /\ Fits(d, k) /\ Clear(p, k)
            <4>1. CASE k \in c.packets
                BY <1>1, <2>1, <2>6, <4>1 DEF Ledger
            <4>2. CASE k \in c.reserved
                BY <1>1, <2>1, <2>6, <4>2 DEF Ledger
            <4> QED
                BY <4>1, <4>2
        <3>2. k.s >= d.off /\ k.s \in Nat /\ k.e \in Nat /\ k.s < k.e
            BY <3>1 DEF Ahead, Fits
        <3>3. p.e <= k.s \/ k.e <= p.s
            BY <3>1 DEF Clear
        <3> QED
            BY <1>1, <2>1, <2>3, <2>6, <3>2, <3>3
    <2> QED
        BY <1>3, <2>1, <2>6, <2>10, <2>12, <2>13, <2>14 DEF Sound, Extends
<1> QED
    BY <1>2, <1>3

\* The prefix takes up one span after the other.
LEMMA JoinedSteps ==
    ASSUME NEW d, NEW n \in Nat, n = Cardinality(d.packets)
    PROVE  \E g : /\ Joined(d) = g[n] /\ g[0] = d
                  /\ \A i \in 1..n : g[i] = Extended(g[i - 1])
<1> DEFINE Is(g, m) == g = [i \in 0..m |-> IF i = 0 THEN d ELSE Extended(g[i - 1])]
           T == {m \in 0..n : \E g : Is(g, m)}
<1>1. \A m \in 0..n : \A g : Is(g, m) => m \in T
    <2> HIDE DEF Is
    <2> QED
        OBVIOUS
<1>2. 0 \in T
    <2>1. Is([i \in 0..0 |-> d], 0)
        OBVIOUS
    <2> HIDE DEF Is, T
    <2> QED
        BY <1>1, <2>1
<1>3. ASSUME NEW m \in 1..n, m - 1 \in T PROVE m \in T
    <2>1. PICK g : Is(g, m - 1)
        BY <1>3
    <2> DEFINE h == [i \in 0..m |-> IF i = m THEN Extended(g[m - 1]) ELSE g[i]]
    <2>2. Is(h, m)
        <3>1. \A i \in 0..m - 1 : g[i] = IF i = 0 THEN d ELSE Extended(g[i - 1])
            BY <2>1
        <3>2. \A i \in 0..m : i # 0 => h[i - 1] = g[i - 1]
            OBVIOUS
        <3>3. \A i \in 0..m : h[i] = IF i = 0 THEN d ELSE Extended(h[i - 1])
            BY <3>1, <3>2
        <3> QED
            BY <3>3
    <2> HIDE DEF Is, h, T
    <2> QED
        BY <1>1, <2>2
<1>4. \E g : Is(g, n)
    <2>1. T \in SUBSET (0..n)
        OBVIOUS
    <2>2. n \in T
        <3> HIDE DEF T
        <3> QED
            BY <1>2, <1>3, <2>1, UpToNumber
    <2> HIDE DEF Is
    <2> QED
        BY <2>2
<1> DEFINE f == CHOOSE g : Is(g, n)
<1>5. Joined(d) = f[n]
    BY DEF Joined
<1>6. Is(f, n)
    <2> HIDE DEF Is
    <2> QED
        BY <1>4
<1> HIDE DEF f
<1>7. f = [i \in 0..n |-> IF i = 0 THEN d ELSE Extended(f[i - 1])]
    BY <1>6
<1>8. f[0] = d
    <2>1. 0 \in 0..n
        OBVIOUS
    <2> QED
        BY <1>7, <2>1, Zenon
<1>9. ASSUME NEW i \in 1..n PROVE f[i] = Extended(f[i - 1])
    <2>1. i \in 0..n /\ i # 0
        OBVIOUS
    <2> QED
        BY <1>7, <2>1, Zenon
<1> QED
    BY <1>5, <1>8, <1>9

\* In the end no scanned span is next to the prefix.
LEMMA JoinedIs ==
    ASSUME NEW d, Sound(d), NEW c, c = Joined(d)
    PROVE  /\ Sound(c) /\ Extends(c, d) /\ (Ahead(d) => Ahead(c)) /\ Ready(c) = {}
<1> DEFINE n == Cardinality(d.packets)
<1>1. n \in Nat
    BY FS_CardinalityType DEF Sound, Ledger
<1>2. n = Cardinality(d.packets)
    OBVIOUS
<1> HIDE DEF n
<1>3. PICK g : /\ Joined(d) = g[n] /\ g[0] = d
               /\ \A i \in 1..n : g[i] = Extended(g[i - 1])
    BY <1>1, <1>2, JoinedSteps
<1> DEFINE P(i) == /\ Sound(g[i]) /\ Extends(g[i], d) /\ (Ahead(d) => Ahead(g[i]))
                   /\ Ready(g[i]) = {} \/ Cardinality(g[i].packets) <= n - i
           T == {i \in 0..n : P(i)}
<1>4. 0 \in T
    <2>1. Extends(d, d)
        BY DEF Extends
    <2>2. Cardinality(d.packets) <= n - 0
        BY <1>1, <1>2
    <2> QED
        BY <1>1, <1>3, <2>1, <2>2
<1>5. ASSUME NEW i \in 1..n, i - 1 \in T PROVE i \in T
    <2> DEFINE a == g[i - 1]
               b == g[i]
    <2>1. /\ Sound(a) /\ Extends(a, d) /\ (Ahead(d) => Ahead(a))
          /\ Ready(a) = {} \/ Cardinality(a.packets) <= n - (i - 1)
        BY <1>5
    <2>2. b = Extended(a)
        BY <1>3
    <2> HIDE DEF a, b
    <2>3. /\ Sound(b) /\ Extends(b, a)
          /\ Ahead(a) => Ahead(b)
          /\ Ready(a) = {} => b = a
          /\ Ready(a) # {} => \E p \in a.packets : b.packets = a.packets \ {p}
        BY <2>1, <2>2, ExtendedIs
    <2>4. Extends(b, d)
        BY <2>1, <2>3 DEF Extends
    <2>5. Ready(b) = {} \/ Cardinality(b.packets) <= n - i
        <3>1. CASE Ready(a) = {}
            BY <2>3, <3>1
        <3>2. CASE Ready(a) # {}
            <4>1. PICK p \in a.packets : b.packets = a.packets \ {p}
                BY <2>3, <3>2
            <4> DEFINE x == Cardinality(a.packets)
                       y == Cardinality(b.packets)
            <4>2. IsFiniteSet(a.packets)
                BY <2>1 DEF Sound, Ledger
            <4>3. x \in Nat /\ y = x - 1
                BY <4>1, <4>2, FS_RemoveElement, FS_CardinalityType
            <4>4. x <= n - (i - 1)
                BY <2>1, <3>2
            <4> HIDE DEF x, y
            <4>5. y <= n - i
                BY <1>1, <4>3, <4>4
            <4> QED
                BY <4>5 DEF y
        <3> QED
            BY <3>1, <3>2
    <2>6. P(i)
        BY <2>1, <2>3, <2>4, <2>5 DEF b
    <2> HIDE DEF P
    <2> QED
        BY <1>1, <2>6
<1>6. n \in T
    <2>1. T \in SUBSET (0..n)
        OBVIOUS
    <2> HIDE DEF T
    <2> QED
        BY <1>1, <1>4, <1>5, <2>1, UpToNumber
<1>7. P(n)
    <2> HIDE DEF P
    <2> QED
        BY <1>6
<1>8. c = g[n]
    BY <1>3
<1>9. Ready(c) = {}
    <2>1. CASE Cardinality(c.packets) <= n - n
        <3>1. IsFiniteSet(c.packets) /\ Cardinality(c.packets) \in Nat
            BY <1>7, <1>8, FS_CardinalityType DEF Sound, Ledger
        <3>2. Cardinality(c.packets) = 0
            <4> DEFINE x == Cardinality(c.packets)
            <4>1. x \in Nat /\ x <= n - n
                BY <2>1, <3>1
            <4> HIDE DEF x
            <4>2. x = 0
                BY <1>1, <4>1
            <4> QED
                BY <4>2 DEF x
        <3>3. c.packets = {}
            BY <3>1, <3>2, FS_EmptySet
        <3> QED
            BY <3>3 DEF Ready
    <2> QED
        BY <1>7, <1>8, <2>1
<1> QED
    BY <1>7, <1>8, <1>9

\* A reservation is given back.
LEMMA ReleasedGood ==
    ASSUME NEW d, Good(d), NEW c, NEW R, R \subseteq d.reserved, c = [d EXCEPT !.reserved = R]
    PROVE  /\ Good(c) /\ Sound(c) /\ c.reserved = R /\ c.packets = d.packets
           /\ c.id = d.id /\ c.text = d.text /\ c.version = d.version /\ c.starts = d.starts /\ c.complete = d.complete
           /\ c.off = d.off
<1>1. WellTyped(d) /\ Right(d) /\ Ledger(d) /\ Behind(d) /\ DOMAIN d = Fields
    BY DEF Good, WellTyped
<1>2. /\ DOMAIN c = Fields /\ c.reserved = R /\ c.packets = d.packets
      /\ c.id = d.id /\ c.text = d.text /\ c.version = d.version /\ c.starts = d.starts /\ c.complete = d.complete
      /\ c.off = d.off /\ c.line = d.line /\ c.total = d.total /\ c.checks = d.checks /\ c.nextId = d.nextId
      /\ c.torn = d.torn
    BY <1>1 DEF Fields
<1>3. WellTyped(c)
    BY <1>1, <1>2 DEF WellTyped
<1>4. Right(c)
    BY <1>1, <1>2 DEF Right, RightLines, Exact
<1>5. Ledger(c)
    <2>1. IsFiniteSet(R)
        BY <1>1, FS_Subset DEF Ledger
    <2> QED
        BY <1>1, <1>2, <2>1 DEF Ledger, Fits
<1>6. Behind(c)
    BY <1>1, <1>2 DEF Behind
<1> QED
    BY <1>2, <1>3, <1>4, <1>5, <1>6 DEF Good, Sound

\* A scanned span is put in the place of its reservation.
LEMMA PlacedSound ==
    ASSUME NEW d, Good(d), NEW r \in d.reserved, NEW p, p = ScanSpan(d.text, r.s, r.e, r.id),
           NEW b, Good(b), b.reserved = d.reserved \ {r}, b.packets = d.packets, b.text = d.text, b.off = d.off,
           b.complete = d.complete, p.s >= d.off, NEW c, c = [b EXCEPT !.packets = @ \cup {p}]
    PROVE  /\ Sound(c) /\ (~d.complete => Ahead(c)) /\ c.reserved = b.reserved
           /\ c.id = b.id /\ c.text = b.text /\ c.version = b.version /\ c.starts = b.starts /\ c.complete = b.complete
<1>1. WellTyped(b) /\ Right(b) /\ Ledger(b) /\ Behind(b) /\ DOMAIN b = Fields /\ b.text \in Seq(Char)
    BY DEF Good, WellTyped
<1>2. /\ DOMAIN c = Fields /\ c.reserved = b.reserved /\ c.packets = b.packets \cup {p}
      /\ c.id = b.id /\ c.text = b.text /\ c.version = b.version /\ c.starts = b.starts /\ c.complete = b.complete
      /\ c.off = b.off /\ c.line = b.line /\ c.total = b.total /\ c.checks = b.checks /\ c.nextId = b.nextId
      /\ c.torn = b.torn
    BY <1>1 DEF Fields
<1>3. Ledger(d) /\ Fits(d, r)
    BY DEF Good, Ledger
<1>4. p.s = r.s /\ p.e = r.e /\ p.res = r.id
    BY DEF ScanSpan
<1>5. Fits(b, p) /\ p = ScanSpan(b.text, p.s, p.e, p.res)
    BY <1>3, <1>4 DEF Fits
<1>6. \A q \in d.packets : Clear(q, p) /\ Clear(p, q)
    BY <1>3, <1>4 DEF Ledger, Clear
<1>7. \A q \in b.reserved : Clear(p, q)
    BY <1>3, <1>4 DEF Ledger, Clear
<1>8. Ledger(c)
    <2>1. IsFiniteSet(c.packets) /\ IsFiniteSet(c.reserved)
        <3>1. IsFiniteSet(b.packets) /\ IsFiniteSet(b.reserved)
            BY <1>1 DEF Ledger
        <3>2. IsFiniteSet(b.packets \cup {p})
            BY <3>1, FS_AddElement
        <3> QED
            BY <1>2, <3>1, <3>2
    <2>2. \A k \in c.reserved : k \in Reservation /\ Fits(c, k) /\ k.id < c.nextId
        BY <1>1, <1>2 DEF Ledger, Fits
    <2>3. \A k \in c.packets : Fits(c, k) /\ k = ScanSpan(c.text, k.s, k.e, k.res)
        BY <1>1, <1>2, <1>5 DEF Ledger, Fits
    <2>4. \A k, q \in c.packets : k # q => Clear(k, q)
        BY <1>1, <1>2, <1>6 DEF Ledger
    <2>5. \A k, q \in c.reserved : k # q => Clear(k, q) /\ k.id # q.id
        BY <1>1, <1>2 DEF Ledger
    <2>6. \A k \in c.packets, q \in c.reserved : Clear(k, q)
        BY <1>1, <1>2, <1>7 DEF Ledger
    <2> QED
        BY <2>1, <2>2, <2>3, <2>4, <2>5, <2>6 DEF Ledger
<1>9. WellTyped(c)
    BY <1>1, <1>2 DEF WellTyped
<1>10. Right(c)
    BY <1>1, <1>2 DEF Right, RightLines, Exact
<1>11. ASSUME ~d.complete PROVE Ahead(c)
    <2>1. /\ \A q \in b.packets : q.s > b.off
          /\ \A q \in b.reserved : q.s >= b.off
        BY <1>1, <1>11 DEF Behind
    <2>2. \A q \in b.packets : q.s \in Nat
        BY <1>1 DEF Ledger, Fits
    <2>3. b.off \in Nat
        BY <1>1 DEF WellTyped
    <2>4. \A q \in b.packets : q.s >= b.off
        BY <2>1, <2>2, <2>3
    <2> QED
        BY <1>2, <2>1, <2>4 DEF Ahead
<1> QED
    BY <1>2, <1>8, <1>9, <1>10, <1>11 DEF Sound

\* The prefix has reached the end of the text.
LEMMA FullGood ==
    ASSUME NEW b, Sound(b), b.off = Len(b.text), NEW c,
           c = [b EXCEPT !.complete = TRUE, !.total = b.line + 1, !.packets = {}]
    PROVE  /\ Good(c) /\ c.reserved = b.reserved /\ c.complete = TRUE
           /\ c.id = b.id /\ c.text = b.text /\ c.version = b.version /\ c.starts = b.starts
<1>1. WellTyped(b) /\ Right(b) /\ Ledger(b) /\ DOMAIN b = Fields /\ b.text \in Seq(Char) /\ b.line \in Nat
    BY DEF Sound, WellTyped
<1>2. /\ DOMAIN c = Fields /\ c.reserved = b.reserved /\ c.packets = {} /\ c.complete = TRUE /\ c.total = b.line + 1
      /\ c.id = b.id /\ c.text = b.text /\ c.version = b.version /\ c.starts = b.starts
      /\ c.off = b.off /\ c.line = b.line /\ c.checks = b.checks /\ c.nextId = b.nextId /\ c.torn = b.torn
    BY <1>1 DEF Fields
<1>3. WellTyped(c)
    <2>1. c.total \in Nat /\ c.complete \in BOOLEAN
        BY <1>1, <1>2
    <2> QED
        BY <1>1, <1>2, <2>1 DEF WellTyped
<1>4. ASSUME ~b.torn, ~Exact(b) PROVE RightLines(c)
    <2>1. RightLines(b)
        BY <1>1, <1>4 DEF Right
    <2>2. b.off \in Nat /\ \A o \in Breaks(b.text) : o <= b.off
        BY <1>1, BreaksAre
    <2>3. Lines(b.text, b.off) = Cardinality(Breaks(b.text))
        BY <1>1, <2>2, LinesAll
    <2>4. b.line = Cardinality(Breaks(b.text))
        BY <2>1, <2>3 DEF RightLines
    <2>5. c.total = Cardinality(Breaks(c.text)) + 1 /\ \A o \in Breaks(c.text) : o <= c.off
        BY <1>2, <2>2, <2>4
    <2> QED
        BY <1>2, <2>1, <2>5 DEF RightLines
<1>5. Right(c)
    <2>1. c.torn = b.torn /\ c.starts = b.starts /\ c.text = b.text
        BY <1>2
    <2> QED
        BY <1>1, <1>4, <2>1 DEF Right, Exact
<1>6. Ledger(c)
    BY <1>1, <1>2, FS_EmptySet DEF Ledger, Fits
<1>7. Behind(c)
    BY <1>2 DEF Behind
<1> QED
    BY <1>2, <1>3, <1>5, <1>6, <1>7 DEF Good

\* adoptLineIndexScanPacket(), for the scan of a reservation: the reservation is
\* given back, and the scan is refused only when a query has completed the index
\* in the meantime.
LEMMA AdoptIs ==
    ASSUME NEW d, Good(d), NEW r \in d.reserved, NEW p, p = ScanSpan(d.text, r.s, r.e, r.id), NEW a, a = Adopt(d, p)
    PROVE  /\ Good(a.d) /\ a.d.reserved = d.reserved \ {r}
           /\ a.d.id = d.id /\ a.d.text = d.text /\ a.d.version = d.version /\ a.d.starts = d.starts
           /\ a.ok \in BOOLEAN /\ (~a.ok => d.complete /\ a.d.complete = d.complete)
<1> DEFINE free == Release(d, p.res)
           base == [free EXCEPT !.packets = @ \cup {p}]
           next == Joined(base)
           full == [next EXCEPT !.complete = TRUE, !.total = next.line + 1, !.packets = {}]
           Same(q) == q.s = p.s /\ q.e = p.e
           B1 == p.e <= p.s \/ p.e > Len(d.text)
           B2 == p.e <= d.off \/ (p.s >= d.off /\ \E q \in d.packets : Same(q))
           B3 == p.s < d.off \/ \E q \in d.packets : p.s < q.e /\ p.e > q.s
           R == d.reserved \ {r}
<1>1. a = IF B1 THEN [ok |-> FALSE, d |-> d]
          ELSE IF B2 THEN [ok |-> TRUE, d |-> free]
          ELSE IF B3 THEN [ok |-> FALSE, d |-> free]
          ELSE [ok |-> TRUE, d |-> IF next.off = Len(d.text) THEN full ELSE next]
    BY DEF Adopt
<1>2. Ledger(d) /\ Fits(d, r) /\ Behind(d) /\ d.off \in Nat /\ DOMAIN d = Fields
    BY DEF Good, Ledger, WellTyped
<1>3. p.s = r.s /\ p.e = r.e /\ p.res = r.id
    BY DEF ScanSpan
<1>4. ~B1
    BY <1>2, <1>3 DEF Fits
<1>5. free = [d EXCEPT !.reserved = R]
    <2>1. {k \in d.reserved : k.id # p.res} = R
        BY <1>2, <1>3 DEF Ledger
    <2> QED
        BY <2>1 DEF Release
<1>6. /\ Good(free) /\ Sound(free) /\ free.reserved = R /\ free.packets = d.packets
      /\ free.id = d.id /\ free.text = d.text /\ free.version = d.version /\ free.starts = d.starts
      /\ free.complete = d.complete /\ free.off = d.off
    <2>1. R \subseteq d.reserved
        OBVIOUS
    <2> HIDE DEF free, R
    <2> QED
        BY <1>5, <2>1, ReleasedGood
<1>7. B3 /\ ~B2 => d.complete
    <2> SUFFICES ASSUME B3, ~d.complete PROVE FALSE
        OBVIOUS
    <2>1. r.s >= d.off /\ r.s \in Nat
        BY <1>2 DEF Behind, Fits
    <2>2. PICK q \in d.packets : p.s < q.e /\ p.e > q.s
        BY <1>2, <1>3, <2>1
    <2>3. Clear(q, r) /\ Fits(d, q)
        BY <1>2 DEF Ledger
    <2> QED
        BY <1>2, <1>3, <2>2, <2>3 DEF Clear, Fits
<1>8. a.ok \in BOOLEAN /\ (a.d = free \/ (~B3 /\ a.ok /\ ((a.d = full /\ next.off = Len(d.text)) \/ a.d = next)))
      /\ (~a.ok => a.d = free /\ d.complete)
    <2> HIDE DEF free, full, next
    <2>1. CASE B2
        <3>1. a = [ok |-> TRUE, d |-> free]
            <4> HIDE DEF B1, B2, B3
            <4> QED
                BY <1>1, <1>4, <2>1, Zenon
        <3> QED
            BY <3>1
    <2>2. CASE ~B2 /\ B3
        <3>1. a = [ok |-> FALSE, d |-> free]
            <4> HIDE DEF B1, B2, B3
            <4> QED
                BY <1>1, <1>4, <2>2, Zenon
        <3> QED
            BY <1>7, <2>2, <3>1
    <2>3. CASE ~B2 /\ ~B3
        <3>1. a = [ok |-> TRUE, d |-> IF next.off = Len(d.text) THEN full ELSE next]
            <4> HIDE DEF B1, B2, B3
            <4> QED
                BY <1>1, <1>4, <2>3, Zenon
        <3> QED
            BY <2>3, <3>1
    <2> QED
        BY <2>1, <2>2, <2>3
<1>9. CASE a.d = free
    <2> HIDE DEF free
    <2> QED
        BY <1>6, <1>8, <1>9 DEF R
<1>10. CASE ~B3 /\ a.ok /\ ((a.d = full /\ next.off = Len(d.text)) \/ a.d = next)
    <2>1. p.s >= d.off
        BY <1>2, <1>3, <1>10 DEF Fits
    <2>2. base = [free EXCEPT !.packets = @ \cup {p}]
        OBVIOUS
    <2> HIDE DEF free, base
    <2>3. /\ Sound(base) /\ (~d.complete => Ahead(base)) /\ base.reserved = free.reserved
          /\ base.id = free.id /\ base.text = free.text /\ base.version = free.version /\ base.starts = free.starts
          /\ base.complete = free.complete
        BY <1>6, <2>1, <2>2, PlacedSound DEF R
    <2>4. /\ Sound(next) /\ Extends(next, base) /\ (Ahead(base) => Ahead(next)) /\ Ready(next) = {}
        BY <2>3, JoinedIs
    <2>5. /\ next.reserved = R /\ next.id = d.id /\ next.text = d.text /\ next.version = d.version
          /\ next.starts = d.starts /\ next.complete = d.complete
        BY <1>6, <2>3, <2>4 DEF Extends
    <2>6. Behind(next)
        <3> HIDE DEF next
        <3> SUFFICES ASSUME ~next.complete
                     PROVE  /\ \A q \in next.packets : q.s > next.off
                            /\ \A q \in next.reserved : q.s >= next.off
            BY DEF Behind
        <3>1. Ahead(next)
            BY <2>3, <2>4, <2>5
        <3>2. ASSUME NEW q \in next.packets PROVE q.s > next.off
            <4>1. q.s >= next.off
                BY <3>1 DEF Ahead
            <4>2. q.s # next.off
                BY <2>4 DEF Ready
            <4>3. q.s \in Nat /\ next.off \in Nat
                BY <2>4 DEF Sound, Ledger, Fits, WellTyped
            <4> QED
                BY <4>1, <4>2, <4>3
        <3> QED
            BY <3>1, <3>2 DEF Ahead
    <2>7. CASE a.d = next
        <3> HIDE DEF next
        <3> QED
            BY <1>10, <2>4, <2>5, <2>6, <2>7 DEF Good, Sound, R
    <2>8. CASE a.d = full /\ next.off = Len(d.text)
        <3>1. full = [next EXCEPT !.complete = TRUE, !.total = next.line + 1, !.packets = {}]
            OBVIOUS
        <3> HIDE DEF next, full
        <3>2. /\ Good(full) /\ full.reserved = next.reserved /\ full.complete = TRUE
              /\ full.id = next.id /\ full.text = next.text /\ full.version = next.version /\ full.starts = next.starts
            BY <2>4, <2>5, <2>8, <3>1, FullGood
        <3> QED
            BY <1>10, <2>5, <2>8, <3>2 DEF R
    <2> QED
        BY <1>10, <2>7, <2>8
<1> QED
    BY <1>8, <1>9, <1>10

\* a span of free characters
Spanning(free, sp) == sp[1] \in Nat /\ sp[2] \in Nat /\ sp[1] < sp[2] /\ sp[1]..sp[2] - 1 \subseteq free

\* The next free span behind a cursor.
LEMMA EofIs ==
    ASSUME NEW n \in Nat, NEW free, free \subseteq 0..n, NEW c \in Int
    PROVE  /\ \A sp \in EofSpans(free, c) : Spanning(free, sp)
           /\ (\E b \in free : b >= c) => EofSpans(free, c) # {}
<1> DEFINE S == {b \in free : b >= c}
           s == Min(S)
           E == {e \in s + 1..s + Span : s..e - 1 \subseteq free}
<1>1. CASE S = {}
    <2>1. ~(\E b \in free : b >= c)
        BY <1>1
    <2>2. EofSpans(free, c) = {}
        BY <2>1 DEF EofSpans
    <2> QED
        BY <2>1, <2>2
<1>2. CASE S # {}
    <2>1. \E b \in free : b >= c
        BY <1>2
    <2>2. EofSpans(free, c) = {<<s, Max(E)>>}
        BY <2>1 DEF EofSpans
    <2>3. S \subseteq Nat
        <3>1. \A b \in free : b \in Nat
            OBVIOUS
        <3> QED
            BY <3>1
    <2>4. s \in S
        <3> HIDE DEF S
        <3> QED
            BY <1>2, <2>3, MinOf
    <2>5. s \in free /\ s \in Nat
        BY <2>3, <2>4
    <2>6. Span \in Nat /\ Span >= 1
        BY LineIndexAssumption
    <2> HIDE DEF s, S
    <2>7. s + 1 \in E
        BY <2>5, <2>6
    <2>8. E \subseteq 0..s + Span /\ s + Span \in Nat /\ E # {}
        BY <2>5, <2>6, <2>7
    <2>9. Max(E) \in E
        <3> HIDE DEF E
        <3> QED
            BY <2>8, MaxOf
    <2> DEFINE m == Max(E)
    <2>10. m \in s + 1..s + Span /\ s..m - 1 \subseteq free
        BY <2>9
    <2>12. EofSpans(free, c) = {<<s, m>>}
        BY <2>2
    <2> HIDE DEF m
    <2>13. Spanning(free, <<s, m>>)
        BY <2>5, <2>6, <2>10 DEF Spanning
    <2> QED
        BY <2>12, <2>13
<1> QED
    BY <1>1, <1>2

\* The next free span before a cursor.
LEMMA BofIs ==
    ASSUME NEW n \in Nat, NEW free, free \subseteq 0..n, NEW c \in Int
    PROVE  /\ \A sp \in BofSpans(free, c) : Spanning(free, sp)
           /\ (\E b \in free : b < c) => BofSpans(free, c) # {}
<1> DEFINE S == {b \in free : b < c}
           e == Max(S) + 1
           E == {s \in e - Span..e - 1 : s..e - 1 \subseteq free}
<1>1. CASE S = {}
    <2>1. ~(\E b \in free : b < c)
        BY <1>1
    <2>2. BofSpans(free, c) = {}
        BY <2>1 DEF BofSpans
    <2> QED
        BY <2>1, <2>2
<1>2. CASE S # {}
    <2>1. \E b \in free : b < c
        BY <1>2
    <2>2. BofSpans(free, c) = {<<Min(E), e>>}
        BY <2>1 DEF BofSpans
    <2>3. S \subseteq 0..n
        OBVIOUS
    <2>4. Max(S) \in S
        <3> HIDE DEF S
        <3> QED
            BY <1>2, <2>3, MaxOf
    <2> DEFINE l == Max(S)
    <2>5. l \in free /\ l \in Nat /\ e = l + 1
        BY <2>3, <2>4
    <2>6. Span \in Nat /\ Span >= 1
        BY LineIndexAssumption
    <2> HIDE DEF S, e, l
    <2>7. l \in E
        BY <2>5, <2>6
    <2>8. E \subseteq free
        BY <2>5, <2>6
    <2>9. E \subseteq Nat /\ E # {}
        <3> HIDE DEF E
        <3> QED
            BY <2>7, <2>8
    <2>10. Min(E) \in E
        <3> HIDE DEF E
        <3> QED
            BY <2>9, MinOf
    <2> DEFINE m == Min(E)
    <2>11. m \in e - Span..e - 1 /\ m..e - 1 \subseteq free
        BY <2>10
    <2>14. m \in Nat
        <3> HIDE DEF E
        <3> QED
            BY <2>9, <2>10
    <2>12. BofSpans(free, c) = {<<m, e>>}
        BY <2>2
    <2> HIDE DEF m
    <2>13. Spanning(free, <<m, e>>)
        BY <2>5, <2>6, <2>11, <2>14 DEF Spanning
    <2> QED
        BY <2>12, <2>13
<1> QED
    BY <1>1, <1>2

\* c is d with the reservations R
Reserves(c, d, R) ==
    /\ c.id = d.id /\ c.text = d.text /\ c.version = d.version /\ c.starts = d.starts /\ c.complete = d.complete
    /\ c.off = d.off /\ c.packets = d.packets /\ c.reserved = d.reserved \cup R /\ IsFiniteSet(R)
    /\ c.nextId >= d.nextId /\ \A r \in R : r.id >= d.nextId

\* A free span can be reserved.
LEMMA ReservedGood ==
    ASSUME NEW d, Good(d), NEW sp, Spanning(Free(d), sp), NEW r, r = [id |-> d.nextId, s |-> sp[1], e |-> sp[2]],
           NEW c, c = [d EXCEPT !.reserved = @ \cup {r}, !.nextId = @ + 1]
    PROVE  Good(c) /\ Reserves(c, d, {r}) /\ c.nextId \in Nat /\ d.nextId \in Nat
<1>1. WellTyped(d) /\ Right(d) /\ Ledger(d) /\ Behind(d) /\ DOMAIN d = Fields /\ d.nextId \in Nat
      /\ d.off \in Nat /\ Len(d.text) \in Nat
    BY BreaksAre, SMTT(60) DEF Good, WellTyped
<1>2. r.id = d.nextId /\ r.s = sp[1] /\ r.e = sp[2] /\ r.s \in Nat /\ r.e \in Nat /\ r.s < r.e
    BY DEF Spanning
<1>3. \A b \in r.s..r.e - 1 : b \in Free(d)
    BY <1>2 DEF Spanning
<1>4. \A b \in Free(d) : /\ b >= d.off /\ b <= Len(d.text) - 1 /\ b \in Nat
                         /\ \A k \in d.packets \cup d.reserved : ~(k.s <= b /\ b < k.e)
    BY <1>1 DEF Free
<1>5. r.s >= d.off /\ r.e <= Len(d.text)
    <2>1. r.s \in r.s..r.e - 1 /\ r.e - 1 \in r.s..r.e - 1
        BY <1>2
    <2>2. r.s >= d.off /\ r.e - 1 <= Len(d.text) - 1
        BY <1>3, <1>4, <2>1
    <2> QED
        BY <1>1, <1>2, <2>2
<1>6. ASSUME NEW k \in d.packets \cup d.reserved PROVE Clear(k, r) /\ Clear(r, k)
    <2>1. k.s \in Nat /\ k.e \in Nat /\ k.s < k.e
        BY <1>1 DEF Ledger, Fits
    <2>2. \A b \in r.s..r.e - 1 : ~(k.s <= b /\ b < k.e)
        BY <1>3, <1>4
    <2>3. CASE k.s <= r.s
        <3>1. r.s \in r.s..r.e - 1
            BY <1>2
        <3> QED
            BY <1>2, <2>1, <2>2, <2>3, <3>1 DEF Clear
    <2>4. CASE k.s > r.s
        <3>1. k.s < r.e => k.s \in r.s..r.e - 1
            BY <1>2, <2>1, <2>4
        <3> QED
            BY <1>2, <2>1, <2>2, <2>4, <3>1 DEF Clear
    <2> QED
        BY <1>2, <2>1, <2>3, <2>4
<1>7. /\ DOMAIN c = Fields /\ c.reserved = d.reserved \cup {r} /\ c.packets = d.packets /\ c.nextId = d.nextId + 1
      /\ c.id = d.id /\ c.text = d.text /\ c.version = d.version /\ c.starts = d.starts /\ c.complete = d.complete
      /\ c.off = d.off /\ c.line = d.line /\ c.total = d.total /\ c.checks = d.checks /\ c.torn = d.torn
    BY <1>1 DEF Fields
<1>8. c.nextId \in Nat
    BY <1>1, <1>7
<1>9. WellTyped(c)
    BY <1>1, <1>7, <1>8 DEF WellTyped
<1>10. Right(c)
    BY <1>1, <1>7 DEF Right, RightLines, Exact
<1>11. Ledger(c)
    <2>1. IsFiniteSet(c.packets) /\ IsFiniteSet(c.reserved)
        <3>1. IsFiniteSet(d.packets) /\ IsFiniteSet(d.reserved)
            BY <1>1 DEF Ledger
        <3>2. IsFiniteSet(d.reserved \cup {r})
            BY <3>1, FS_AddElement
        <3> QED
            BY <1>7, <3>1, <3>2
    <2>2. ASSUME NEW k \in c.reserved PROVE k \in Reservation /\ Fits(c, k) /\ k.id < c.nextId
        <3>1. CASE k = r
            BY <1>1, <1>2, <1>5, <1>7, <3>1 DEF Reservation, Fits
        <3>2. CASE k \in d.reserved
            <4>1. k \in Reservation /\ Fits(d, k) /\ k.id < d.nextId
                BY <1>1, <3>2 DEF Ledger
            <4> QED
                BY <1>1, <1>7, <4>1 DEF Reservation, Fits
        <3> QED
            BY <1>7, <3>1, <3>2
    <2>3. \A k \in c.packets : Fits(c, k) /\ k = ScanSpan(c.text, k.s, k.e, k.res)
        BY <1>1, <1>7 DEF Ledger, Fits
    <2>4. \A k, q \in c.packets : k # q => Clear(k, q)
        BY <1>1, <1>7 DEF Ledger
    <2>5. \A k, q \in c.reserved : k # q => Clear(k, q) /\ k.id # q.id
        <3>1. \A k \in d.reserved : k.id # r.id
            BY <1>1, <1>2 DEF Ledger, Reservation
        <3> QED
            BY <1>1, <1>6, <1>7, <3>1 DEF Ledger
    <2>6. \A k \in c.packets, q \in c.reserved : Clear(k, q)
        BY <1>1, <1>6, <1>7 DEF Ledger
    <2> QED
        BY <2>1, <2>2, <2>3, <2>4, <2>5, <2>6 DEF Ledger
<1>12. Behind(c)
    BY <1>1, <1>5, <1>7 DEF Behind
<1>13. Reserves(c, d, {r})
    <2>1. IsFiniteSet({r})
        BY FS_Singleton
    <2>2. c.nextId >= d.nextId /\ r.id >= d.nextId
        BY <1>1, <1>2, <1>7
    <2> QED
        BY <1>7, <2>1, <2>2 DEF Reserves
<1> QED
    BY <1>1, <1>8, <1>9, <1>10, <1>11, <1>12, <1>13 DEF Good

\* a round of reserveLineIndexScanSpans() that began with d
Round(a, d) ==
    /\ Good(a.d) /\ Reserves(a.d, d, a.new) /\ a.eof \in Int /\ a.bof \in Int /\ a.preferEof \in BOOLEAN

\* What a round does.
LEMMA ReserveOneIs ==
    ASSUME NEW d, d.nextId \in Nat, NEW a, Round(a, d), NEW c, c = ReserveOne(a)
    PROVE  /\ Round(c, d) /\ a.new \subseteq c.new
           /\ a.eof = a.bof /\ Free(a.d) # {} => c.new # {}
<1> DEFINE free == Free(a.d)
           eof == EofSpans(free, a.eof)
           bof == BofSpans(free, a.bof)
           toEof == eof # {} /\ (a.preferEof \/ bof = {})
           Q == IF toEof THEN eof ELSE bof
           sp == CHOOSE q \in Q : TRUE
           r == [id |-> a.d.nextId, s |-> sp[1], e |-> sp[2]]
           n == Len(a.d.text)
           e == [a.d EXCEPT !.reserved = @ \cup {r}, !.nextId = @ + 1]
<1>1. Good(a.d) /\ Reserves(a.d, d, a.new) /\ a.eof \in Int /\ a.bof \in Int /\ a.preferEof \in BOOLEAN
    BY DEF Round
<1>2. n \in Nat /\ a.d.off \in Nat
    BY <1>1, BreaksAre DEF Good, WellTyped
<1>3. free \subseteq 0..n
    BY <1>2 DEF Free
<1>4. /\ \A q \in eof : Spanning(free, q)
      /\ (\E b \in free : b >= a.eof) => eof # {}
    <2> HIDE DEF free, n
    <2> QED
        BY <1>1, <1>2, <1>3, EofIs
<1>5. /\ \A q \in bof : Spanning(free, q)
      /\ (\E b \in free : b < a.bof) => bof # {}
    <2> HIDE DEF free, n
    <2> QED
        BY <1>1, <1>2, <1>3, BofIs
<1>6. a.eof = a.bof /\ free # {} => eof \cup bof # {}
    <2> SUFFICES ASSUME a.eof = a.bof, NEW b \in free PROVE eof # {} \/ bof # {}
        OBVIOUS
    <2>1. b \in Int
        BY <1>2, <1>3
    <2>2. b >= a.eof \/ b < a.bof
        BY <1>1, <2>1
    <2> HIDE DEF eof, bof, free
    <2> QED
        BY <1>4, <1>5, <2>2
<1>7. CASE eof \cup bof = {}
    <2>1. c = a
        BY <1>7 DEF ReserveOne
    <2> QED
        BY <1>6, <1>7, <2>1
<1>8. CASE eof \cup bof # {}
    <2>1. c = [d |-> e, new |-> a.new \cup {r}, eof |-> IF toEof THEN r.e ELSE a.eof,
               bof |-> IF toEof THEN a.bof ELSE r.s, preferEof |-> ~a.preferEof]
        BY <1>8 DEF ReserveOne
    <2>2. Q # {}
        <3> HIDE DEF eof, bof
        <3> QED
            BY <1>8
    <2>3. \A q \in Q : Spanning(free, q)
        <3> HIDE DEF eof, bof, free
        <3> QED
            BY <1>4, <1>5
    <2>4. Spanning(free, sp)
        <3>1. sp \in Q
            <4> HIDE DEF Q
            <4> QED
                BY <2>2
        <3> HIDE DEF Q, sp
        <3> QED
            BY <2>3, <3>1
    <2>5. r = [id |-> a.d.nextId, s |-> sp[1], e |-> sp[2]] /\ e = [a.d EXCEPT !.reserved = @ \cup {r}, !.nextId = @ + 1]
        OBVIOUS
    <2>6. r.e \in Int /\ r.s \in Int
        <3> HIDE DEF sp
        <3> QED
            BY <2>4 DEF Spanning
    <2> HIDE DEF e, r, sp, toEof
    <2>7. Good(e) /\ Reserves(e, a.d, {r}) /\ e.nextId \in Nat /\ a.d.nextId \in Nat
        BY <1>1, <2>4, <2>5, ReservedGood DEF free
    <2>8. c.d = e /\ c.new = a.new \cup {r} /\ c.eof \in Int /\ c.bof \in Int
        BY <1>1, <2>1, <2>6
    <2>9. c.preferEof \in BOOLEAN
        BY <1>1, <2>1
    <2>10. Reserves(e, d, a.new \cup {r})
        <3>1. IsFiniteSet(a.new \cup {r})
            BY <1>1, FS_AddElement DEF Reserves
        <3>2. e.reserved = d.reserved \cup (a.new \cup {r})
            BY <1>1, <2>7 DEF Reserves
        <3>3. e.nextId >= d.nextId /\ \A k \in a.new \cup {r} : k.id >= d.nextId
            <4>1. e.nextId >= a.d.nextId /\ a.d.nextId >= d.nextId /\ r.id = a.d.nextId /\ \A k \in a.new : k.id >= d.nextId
                BY <1>1, <2>5, <2>7 DEF Reserves
            <4> QED
                BY <2>7, <4>1
        <3> QED
            BY <1>1, <2>7, <3>1, <3>2, <3>3 DEF Reserves
    <2> QED
        BY <2>7, <2>8, <2>9, <2>10 DEF Round
<1> QED
    BY <1>7, <1>8

\* Where the rounds begin.
Started(d, focus) == [d |-> d, new |-> {}, eof |-> focus, bof |-> focus, preferEof |-> TRUE]

\* One round after the other.
LEMMA ReserveSteps ==
    ASSUME NEW d, NEW focus, NEW n \in Nat
    PROVE  \E g : /\ Reserve(d, focus, n) = g[n] /\ g[0] = Started(d, focus)
                  /\ \A i \in 1..n : g[i] = ReserveOne(g[i - 1])
<1> DEFINE z == Started(d, focus)
           Is(g, m) == g = [i \in 0..m |-> IF i = 0 THEN z ELSE ReserveOne(g[i - 1])]
           T == {m \in 0..n : \E g : Is(g, m)}
<1>0. Reserve(d, focus, n) = (CHOOSE g : Is(g, n))[n]
    BY DEF Reserve, Started
<1> HIDE DEF z
<1>1. \A m \in 0..n : \A g : Is(g, m) => m \in T
    <2> HIDE DEF Is
    <2> QED
        OBVIOUS
<1>2. 0 \in T
    <2>1. Is([i \in 0..0 |-> z], 0)
        OBVIOUS
    <2> HIDE DEF Is, T
    <2> QED
        BY <1>1, <2>1
<1>3. ASSUME NEW m \in 1..n, m - 1 \in T PROVE m \in T
    <2>1. PICK g : Is(g, m - 1)
        BY <1>3
    <2> DEFINE h == [i \in 0..m |-> IF i = m THEN ReserveOne(g[m - 1]) ELSE g[i]]
    <2>2. Is(h, m)
        <3>1. \A i \in 0..m - 1 : g[i] = IF i = 0 THEN z ELSE ReserveOne(g[i - 1])
            BY <2>1
        <3>2. \A i \in 0..m : i # 0 => h[i - 1] = g[i - 1]
            OBVIOUS
        <3>3. \A i \in 0..m : h[i] = IF i = 0 THEN z ELSE ReserveOne(h[i - 1])
            BY <3>1, <3>2
        <3> QED
            BY <3>3
    <2> HIDE DEF Is, h, T
    <2> QED
        BY <1>1, <2>2
<1>4. \E g : Is(g, n)
    <2>1. T \in SUBSET (0..n)
        OBVIOUS
    <2>2. n \in T
        <3> HIDE DEF T
        <3> QED
            BY <1>2, <1>3, <2>1, UpToNumber
    <2> HIDE DEF Is
    <2> QED
        BY <2>2
<1> DEFINE f == CHOOSE g : Is(g, n)
<1>5. Reserve(d, focus, n) = f[n]
    BY <1>0
<1>6. Is(f, n)
    <2> HIDE DEF Is
    <2> QED
        BY <1>4
<1> HIDE DEF f
<1>7. f = [i \in 0..n |-> IF i = 0 THEN z ELSE ReserveOne(f[i - 1])]
    BY <1>6
<1>8. f[0] = z
    <2>1. 0 \in 0..n
        OBVIOUS
    <2> QED
        BY <1>7, <2>1, Zenon
<1>9. ASSUME NEW i \in 1..n PROVE f[i] = ReserveOne(f[i - 1])
    <2>1. i \in 0..n /\ i # 0
        OBVIOUS
    <2> QED
        BY <1>7, <2>1, Zenon
<1> QED
    BY <1>5, <1>8, <1>9 DEF z

\* reserveLineIndexScanSpans(): new reservations with ids of their own; when there
\* is something to scan and a scan may be started, there is one at least.
LEMMA ReserveIs ==
    ASSUME NEW d, Good(d), NEW focus \in Int, NEW n \in Nat, NEW x, x = Reserve(d, focus, n)
    PROVE  /\ Good(x.d) /\ Reserves(x.d, d, x.new) /\ d.nextId \in Nat
           /\ n >= 1 /\ Free(d) # {} => x.new # {}
<1>1. d.nextId \in Nat
    BY DEF Good, WellTyped
<1>2. PICK g : /\ x = g[n] /\ g[0] = Started(d, focus)
               /\ \A i \in 1..n : g[i] = ReserveOne(g[i - 1])
    BY ReserveSteps
<1> DEFINE P(i) == Round(g[i], d) /\ (i >= 1 /\ Free(d) # {} => g[i].new # {})
           T == {i \in 0..n : P(i)}
<1>3. Round(g[0], d)
    <2> DEFINE s == Started(d, focus)
    <2>1. s.d = d /\ s.new = {} /\ s.eof = focus /\ s.bof = focus /\ s.preferEof = TRUE
        BY DEF Started
    <2>2. Reserves(d, d, {})
        BY <1>1, FS_EmptySet DEF Reserves
    <2> HIDE DEF s
    <2>3. Round(s, d)
        BY <2>1, <2>2 DEF Round
    <2> QED
        BY <1>2, <2>3 DEF s
<1>4. 0 \in T
    BY <1>3
<1>5. ASSUME NEW i \in 1..n, i - 1 \in T PROVE i \in T
    <2> DEFINE a == g[i - 1]
               b == g[i]
    <2>1. Round(a, d) /\ (i - 1 >= 1 /\ Free(d) # {} => a.new # {})
        BY <1>5
    <2>2. b = ReserveOne(a)
        BY <1>2
    <2>3. i = 1 => a = Started(d, focus)
        BY <1>2
    <2> HIDE DEF a, b
    <2>4. Round(b, d) /\ a.new \subseteq b.new /\ (a.eof = a.bof /\ Free(a.d) # {} => b.new # {})
        BY <1>1, <2>1, <2>2, ReserveOneIs
    <2>5. Free(d) # {} => b.new # {}
        <3>1. CASE i = 1
            <4>1. a.d = d /\ a.eof = a.bof
                BY <2>3, <3>1 DEF Started
            <4> QED
                BY <2>4, <4>1
        <3>2. CASE i # 1
            <4>1. i - 1 >= 1
                BY <3>2
            <4> QED
                BY <2>1, <2>4, <4>1
        <3> QED
            BY <3>1, <3>2
    <2>6. P(i)
        BY <2>4, <2>5 DEF b
    <2> HIDE DEF P
    <2> QED
        BY <2>6
<1>6. n \in T
    <2>1. T \in SUBSET (0..n)
        OBVIOUS
    <2> HIDE DEF T
    <2> QED
        BY <1>4, <1>5, <2>1, UpToNumber
<1>7. P(n)
    <2> HIDE DEF P
    <2> QED
        BY <1>6
<1> QED
    BY <1>1, <1>2, <1>7 DEF Round

(* The warmup: a document, the tasks of the editor and the scans under way. *)

\* the parts of a state of the warmup
Parts == {"doc", "warm", "flight"}

\* w has the parts of a state, in order
Whole(w) == DOMAIN w = Parts /\ Good(w.doc) /\ Warm(w.warm) /\ Flights(w.flight)

\* ... and its tasks, scans and reservations go together
Steady(w) == Whole(w) /\ Linked(w.doc, w.warm, w.flight)

\* c is the document d, with a ledger of its own
SameText(c, d) ==
    /\ c.id = d.id /\ c.text = d.text /\ c.version = d.version /\ c.starts = d.starts /\ c.complete = d.complete
    /\ c.off = d.off

\* The values of a function on a finite set.
LEMMA ImageFinite ==
    ASSUME NEW S, IsFiniteSet(S), NEW T, NEW f \in [S -> T], \A z \in T : \E x \in S : f[x] = z
    PROVE  IsFiniteSet(T) /\ Cardinality(T) <= Cardinality(S)
<1>1. f \in Surjection(S, T)
    BY DEF Surjection
<1> QED
    BY <1>1, FS_Surjection

\* Nothing is linked to nothing.
LEMMA NoTasks ==
    ASSUME NEW d, NEW m, NEW fl, d.reserved = {}, m.tasks = {}
    PROVE  Linked(d, m, fl)
BY DEF Linked

\* the state of a warmup that does nothing yet, for a version of a document
Titled(i, v) == [Idle EXCEPT !.id = i, !.version = v]

\* A warmup that does nothing has no task.
LEMMA IdleWarm ==
    ASSUME NEW i \in Nat, NEW v \in Nat, NEW m, m = Titled(i, v)
    PROVE  /\ Warm(m) /\ m.tasks = {} /\ m.id = i /\ m.version = v
           /\ Warm(Idle) /\ Idle.tasks = {}
<1>1. IsFiniteSet({}) /\ {} \in SUBSET [id : Nat, res : Nat, current : BOOLEAN] /\ -1 \in Int /\ 0 \in Nat
    BY FS_EmptySet
<1>2. m = [id |-> i, version |-> v, focus |-> -1, tasks |-> {}]
    BY DEF Titled, Idle
<1>3. \A j, u \in Nat : Warm([id |-> j, version |-> u, focus |-> -1, tasks |-> {}])
    BY <1>1 DEF Warm
<1>4. Idle = [id |-> 0, version |-> 0, focus |-> -1, tasks |-> {}]
    BY DEF Idle
<1>5. Warm(m) /\ Warm(Idle)
    BY <1>1, <1>2, <1>3, <1>4
<1> QED
    BY <1>2, <1>4, <1>5

\* Cancelling some of the scans keeps them apart.
LEMMA CancelledFlights ==
    ASSUME NEW fl, Flights(fl), NEW ids, NEW c,
           c = {IF f.id \in ids THEN [f EXCEPT !.cancelled = TRUE] ELSE f : f \in fl}
    PROVE  Flights(c)
<1> DEFINE G(f) == IF f.id \in ids THEN [f EXCEPT !.cancelled = TRUE] ELSE f
<1>1. ASSUME NEW f \in fl PROVE /\ DOMAIN G(f) = {"id", "doc", "version", "cancelled", "packet"}
                                /\ G(f).id = f.id /\ G(f).id \in Nat /\ G(f).cancelled \in BOOLEAN
    <2>1. DOMAIN f = {"id", "doc", "version", "cancelled", "packet"} /\ f.id \in Nat /\ f.cancelled \in BOOLEAN
        BY DEF Flights
    <2> DEFINE g == [f EXCEPT !.cancelled = TRUE]
    <2>2. DOMAIN g = {"id", "doc", "version", "cancelled", "packet"} /\ g.id = f.id /\ g.cancelled = TRUE
        BY <2>1
    <2>3. G(f) = g \/ G(f) = f
        OBVIOUS
    <2> HIDE DEF g, G
    <2> QED
        BY <2>1, <2>2, <2>3
<1>2. c = {G(f) : f \in fl}
    OBVIOUS
<1> HIDE DEF G
<1>3. IsFiniteSet(c)
    <2>1. [f \in fl |-> G(f)] \in [fl -> c] /\ \A z \in c : \E f \in fl : [h \in fl |-> G(h)][f] = z
        BY <1>2
    <2>2. IsFiniteSet(fl)
        BY DEF Flights
    <2> QED
        BY <2>1, <2>2, ImageFinite, ZenonT(60)
<1>4. ASSUME NEW p \in c, NEW q \in c, p.id = q.id PROVE p = q
    <2>1. PICK f \in fl, g \in fl : p = G(f) /\ q = G(g)
        BY <1>2
    <2>2. f.id = g.id
        BY <1>1, <1>4, <2>1
    <2>3. f = g
        BY <2>2 DEF Flights
    <2> QED
        BY <2>1, <2>3
<1>5. \A p \in c : DOMAIN p = {"id", "doc", "version", "cancelled", "packet"} /\ p.id \in Nat /\ p.cancelled \in BOOLEAN
    BY <1>1, <1>2
<1> QED
    BY <1>3, <1>4, <1>5 DEF Flights

\* cancelLineIndexWarmup leaves no reservation, since every one has its task.
LEMMA CancelIs ==
    ASSUME NEW w, Whole(w), w.doc.reserved = {} \/ Linked(w.doc, w.warm, w.flight), NEW c, c = CancelWarmup(w)
    PROVE  Steady(c) /\ SameText(c.doc, w.doc) /\ c.warm = Idle /\ c.doc.reserved = {}
<1> DEFINE d == w.doc
           R == {r \in d.reserved : \A t \in w.warm.tasks : t.res # r.id}
           ids == {t.id : t \in w.warm.tasks}
           fl == {IF f.id \in ids THEN [f EXCEPT !.cancelled = TRUE] ELSE f : f \in w.flight}
           e == [d EXCEPT !.reserved = R]
<1>1. DOMAIN c = Parts /\ c.doc = e /\ c.warm = Idle /\ c.flight = fl
    BY DEF CancelWarmup, Parts
<1>2. R = {}
    BY DEF Linked
<1>3. Flights(fl)
    BY CancelledFlights DEF Whole
<1>4. Good(e) /\ e.reserved = R /\ SameText(e, d)
    <2>1. Good(d) /\ R \subseteq d.reserved
        BY DEF Whole
    <2> HIDE DEF R, d
    <2> QED
        BY <2>1, ReleasedGood DEF SameText
<1>5. Warm(Idle) /\ Idle.tasks = {}
    BY IdleWarm, Titled(0, 0) = Titled(0, 0)
<1> HIDE DEF R, ids, fl, e
<1>6. Linked(c.doc, c.warm, c.flight)
    BY <1>1, <1>2, <1>4, <1>5, NoTasks
<1> QED
    BY <1>1, <1>2, <1>3, <1>4, <1>5, <1>6 DEF Steady, Whole

\* A new focus keeps the tasks.
LEMMA FocusedIs ==
    ASSUME NEW d, NEW fl, NEW m, Warm(m), Linked(d, m, fl), NEW focus \in Int, NEW c, c = Focused(m, focus)
    PROVE  Warm(c) /\ Linked(d, c, fl) /\ c.id = m.id /\ c.version = m.version
<1> DEFINE G(t) == [t EXCEPT !.current = FALSE]
           T == {G(t) : t \in m.tasks}
           n == [m EXCEPT !.focus = focus, !.tasks = T]
<1>1. c = m \/ c = n
    BY DEF Focused
<1>2. ASSUME NEW t \in m.tasks PROVE G(t) \in [id : Nat, res : Nat, current : BOOLEAN] /\ G(t).id = t.id /\ G(t).res = t.res
    BY DEF Warm
<1>a. T \subseteq [id : Nat, res : Nat, current : BOOLEAN]
    BY <1>2
<1> HIDE DEF T
<1>3. /\ n \in [id : Nat, version : Nat, focus : Int, tasks : SUBSET [id : Nat, res : Nat, current : BOOLEAN]]
      /\ n.tasks = T /\ n.id = m.id /\ n.version = m.version
    BY <1>a DEF Warm
<1> USE DEF T
<1> HIDE DEF n, G
<1>4. Warm(n)
    <2>1. IsFiniteSet(T)
        <3> DEFINE S == m.tasks
                   g == [t \in S |-> G(t)]
        <3>1. g \in [S -> T] /\ \A z \in T : \E t \in S : g[t] = z
            OBVIOUS
        <3>2. IsFiniteSet(S)
            BY DEF Warm
        <3> HIDE DEF T, S, g
        <3> QED
            BY <3>1, <3>2, ImageFinite
    <2> HIDE DEF T
    <2> QED
        BY <1>3, <2>1 DEF Warm
<1>5. Linked(d, n, fl)
    <2>1. ASSUME NEW t \in T, NEW u \in T, t # u PROVE t.id # u.id /\ t.res # u.res
        <3>1. PICK a \in m.tasks, b \in m.tasks : t = G(a) /\ u = G(b)
            OBVIOUS
        <3>2. a # b
            BY <2>1, <3>1
        <3> QED
            BY <1>2, <3>1, <3>2 DEF Linked
    <2>2. ASSUME NEW r \in d.reserved PROVE \E t \in T : t.res = r.id
        <3>1. PICK a \in m.tasks : a.res = r.id
            BY DEF Linked
        <3>2. G(a) \in T /\ G(a).res = r.id
            BY <1>2, <3>1
        <3> QED
            BY <3>2
    <2>3. ASSUME NEW t \in T PROVE ScanOf(d, fl, t) /\ m.id = d.id /\ m.version = d.version
        <3>1. PICK a \in m.tasks : t = G(a)
            OBVIOUS
        <3>2. ScanOf(d, fl, a) /\ m.tasks # {}
            BY DEF Linked
        <3>3. t.id = a.id /\ t.res = a.res
            BY <1>2, <3>1
        <3> QED
            BY <3>2, <3>3 DEF ScanOf, Linked
    <2> HIDE DEF T
    <2> QED
        BY <1>3, <2>1, <2>2, <2>3 DEF Linked
<1> QED
    BY <1>1, <1>3, <1>4, <1>5

\* ids for as many tasks as there are reservations
Ids(fl, new) == (1..(Cardinality(fl) + Cardinality(new))) \ {f.id : f \in fl}

\* reservations with a lesser id, and the id of the task that a reservation gets
Rank(new, r) == Cardinality({q \in new : q.id < r.id})

IdOf(fl, new, r) == CHOOSE i \in Ids(fl, new) : Cardinality({j \in Ids(fl, new) : j < i}) = Rank(new, r)

\* There are enough ids that no scan under way has.
LEMMA EnoughIds ==
    ASSUME NEW fl, Flights(fl), NEW new, IsFiniteSet(new)
    PROVE  /\ Ids(fl, new) \subseteq Nat /\ IsFiniteSet(Ids(fl, new)) /\ Cardinality(Ids(fl, new)) >= Cardinality(new)
           /\ Cardinality(Ids(fl, new)) \in Nat /\ Cardinality(new) \in Nat
<1> DEFINE F == {f.id : f \in fl}
           N == Cardinality(fl) + Cardinality(new)
           I == Ids(fl, new)
           S == 1..N
<1>1. IsFiniteSet(fl) /\ Cardinality(fl) \in Nat /\ Cardinality(new) \in Nat
    BY FS_CardinalityType DEF Flights
<1>2. IsFiniteSet(F) /\ Cardinality(F) <= Cardinality(fl)
    <2> DEFINE g == [f \in fl |-> f.id]
    <2>1. g \in [fl -> F] /\ \A z \in F : \E f \in fl : g[f] = z
        OBVIOUS
    <2> HIDE DEF g, F
    <2> QED
        BY <1>1, <2>1, ImageFinite
<1>3. IsFiniteSet(S) /\ Cardinality(S) = N
    <2>1. N \in Nat
        BY <1>1
    <2>2. IsFiniteSet(1..N) /\ Cardinality(1..N) = IF 1 > N THEN 0 ELSE (N - 1) + 1
        <3> HIDE DEF N
        <3> QED
            BY <2>1, FS_Interval
    <2> QED
        BY <2>1, <2>2
<1>4. I = S \ F /\ I \subseteq Nat
    BY <1>1 DEF Ids
<1>5. Cardinality(F) \in Nat
    BY <1>2, FS_CardinalityType
<1> HIDE DEF F, S
<1>6. IsFiniteSet(S \ F) /\ Cardinality(S \ F) = Cardinality(S) - Cardinality(S \cap F)
    BY <1>3, FS_Difference
<1>7. Cardinality(S \cap F) <= Cardinality(F) /\ Cardinality(S \cap F) \in Nat
    <2>1. S \cap F \subseteq F
        OBVIOUS
    <2> QED
        BY <1>2, <2>1, FS_Subset, FS_CardinalityType
<1>8. Cardinality(I) \in Nat
    BY <1>4, <1>6, FS_CardinalityType
<1>9. Cardinality(I) >= Cardinality(new)
    <2>1. Cardinality(I) = N - Cardinality(S \cap F)
        BY <1>3, <1>4, <1>6
    <2> HIDE DEF I
    <2> QED
        BY <1>1, <1>2, <1>5, <1>7, <2>1
<1> QED
    BY <1>1, <1>4, <1>6, <1>8, <1>9

\* Every reservation has an id of its own, which no scan under way has.
LEMMA IdsApart ==
    ASSUME NEW fl, Flights(fl), NEW new, IsFiniteSet(new), \A r \in new : r.id \in Nat,
           \A r, q \in new : r # q => r.id # q.id
    PROVE  /\ \A r \in new : IdOf(fl, new, r) \in Nat /\ \A f \in fl : f.id # IdOf(fl, new, r)
           /\ \A r, q \in new : IdOf(fl, new, r) = IdOf(fl, new, q) => r = q
<1> DEFINE I == Ids(fl, new)
           Below(r) == {q \in new : q.id < r.id}
<1>1. I \subseteq Nat /\ IsFiniteSet(I) /\ Cardinality(I) >= Cardinality(new) /\ Cardinality(I) \in Nat /\ Cardinality(new) \in Nat
    BY EnoughIds
<1>2. ASSUME NEW S, S \subseteq new PROVE IsFiniteSet(S) /\ Cardinality(S) \in Nat
    BY <1>2, FS_Subset, FS_CardinalityType
<1>3. ASSUME NEW S, S \subseteq new, NEW T, T \subseteq S, NEW x \in S, x \notin T
      PROVE  Cardinality(T) < Cardinality(S)
    <2>1. IsFiniteSet(S) /\ Cardinality(S) \in Nat /\ Cardinality(T) \in Nat
        BY <1>2, <1>3
    <2>2. T # S
        BY <1>3
    <2>3. Cardinality(T) <= Cardinality(S) /\ Cardinality(T) # Cardinality(S)
        BY <1>3, <2>1, <2>2, FS_Subset
    <2> QED
        BY <2>1, <2>3
<1>4. ASSUME NEW r \in new PROVE Rank(new, r) \in Nat /\ Rank(new, r) < Cardinality(I)
    <2>1. Below(r) \subseteq new /\ r \notin Below(r)
        OBVIOUS
    <2>2. Rank(new, r) = Cardinality(Below(r))
        BY DEF Rank
    <2> HIDE DEF Below, I
    <2>3. Cardinality(Below(r)) \in Nat /\ Cardinality(Below(r)) < Cardinality(new)
        BY <1>2, <1>3, <2>1
    <2> QED
        BY <1>1, <2>2, <2>3
<1>5. ASSUME NEW r \in new
      PROVE  IdOf(fl, new, r) \in I /\ Cardinality({j \in I : j < IdOf(fl, new, r)}) = Rank(new, r)
    <2> DEFINE n == Rank(new, r)
    <2>1. n \in Nat /\ n < Cardinality(I)
        BY <1>4
    <2>2. IdOf(fl, new, r) = CHOOSE i \in I : Cardinality({j \in I : j < i}) = n
        BY DEF IdOf
    <2> HIDE DEF I, n
    <2>3. \E i \in I : Cardinality({j \in I : j < i}) = n
        BY <1>1, <2>1, NthOf
    <2>4. IdOf(fl, new, r) \in I /\ Cardinality({j \in I : j < IdOf(fl, new, r)}) = n
        BY <2>2, <2>3
    <2> QED
        BY <2>4 DEF n
<1>6. ASSUME NEW r \in new, NEW q \in new, r.id < q.id PROVE Rank(new, r) # Rank(new, q)
    <2>1. Below(q) \subseteq new /\ r \in Below(q) /\ r \notin Below(r)
        BY <1>6
    <2>2. Below(r) \subseteq Below(q)
        <3>1. ASSUME NEW k \in new, k.id < r.id PROVE k.id < q.id
            BY <1>6, <3>1
        <3> QED
            BY <3>1
    <2>3. Rank(new, r) = Cardinality(Below(r)) /\ Rank(new, q) = Cardinality(Below(q))
        BY DEF Rank
    <2>4. Rank(new, r) \in Nat /\ Rank(new, q) \in Nat
        BY <1>4
    <2> HIDE DEF Below
    <2>5. Cardinality(Below(r)) < Cardinality(Below(q))
        BY <1>3, <2>1, <2>2
    <2> QED
        BY <2>3, <2>4, <2>5
<1>7. ASSUME NEW r \in new, NEW q \in new, IdOf(fl, new, r) = IdOf(fl, new, q) PROVE r = q
    <2>1. Rank(new, r) = Rank(new, q)
        BY <1>5, <1>7
    <2>2. ~(r.id < q.id) /\ ~(q.id < r.id)
        BY <1>6, <2>1
    <2>3. r.id = q.id
        BY <2>2
    <2> QED
        BY <2>3
<1>8. \A r \in new : \A f \in fl : f.id # IdOf(fl, new, r)
    BY <1>5 DEF Ids
<1> QED
    BY <1>1, <1>5, <1>7, <1>8

\* the task and the scan of a reservation
TaskOf(w, new, r) == [id |-> IdOf(w.flight, new, r), res |-> r.id, current |-> TRUE]
FlightOf(w, new, r) ==
    [id |-> IdOf(w.flight, new, r), doc |-> w.doc.id, version |-> w.doc.version, cancelled |-> FALSE,
     packet |-> ScanSpan(w.doc.text, r.s, r.e, r.id)]

\* What submitting changes.
LEMMA SubmittedParts ==
    ASSUME NEW w, DOMAIN w = Parts, Warm(w.warm), NEW new,
           {TaskOf(w, new, r) : r \in new} \subseteq [id : Nat, res : Nat, current : BOOLEAN],
           NEW c, c = Submitted(w, new)
    PROVE  /\ DOMAIN c = Parts /\ c.doc = w.doc /\ c.flight = w.flight \cup {FlightOf(w, new, r) : r \in new}
           /\ c.warm \in [id : Nat, version : Nat, focus : Int, tasks : SUBSET [id : Nat, res : Nat, current : BOOLEAN]]
           /\ c.warm.id = w.warm.id /\ c.warm.version = w.warm.version
           /\ c.warm.tasks = w.warm.tasks \cup {TaskOf(w, new, r) : r \in new}
<1> DEFINE T == w.warm.tasks \cup {TaskOf(w, new, r) : r \in new}
           F == w.flight \cup {FlightOf(w, new, r) : r \in new}
<1>1. c = [w EXCEPT !.warm.tasks = T, !.flight = F]
    BY DEF Submitted, TaskOf, FlightOf, IdOf, Ids, Rank
<1>a. T \subseteq [id : Nat, res : Nat, current : BOOLEAN]
    BY DEF Warm
<1> HIDE DEF T, F
<1>2. /\ DOMAIN c = Parts /\ c.doc = w.doc /\ c.flight = F /\ c.warm = [w.warm EXCEPT !.tasks = T]
    BY <1>1 DEF Parts
<1>3. /\ c.warm \in [id : Nat, version : Nat, focus : Int, tasks : SUBSET [id : Nat, res : Nat, current : BOOLEAN]]
      /\ c.warm.id = w.warm.id /\ c.warm.version = w.warm.version /\ c.warm.tasks = T
    BY <1>2, <1>a DEF Warm
<1> QED
    BY <1>2, <1>3 DEF T, F

\* A scan for every new reservation: the tasks, the scans and the reservations
\* still go together.
LEMMA SubmittedIs ==
    ASSUME NEW w, Whole(w), NEW v, Good(v), NEW new, Linked(v, w.warm, w.flight), Reserves(w.doc, v, new), SameSource(w),
           NEW c, c = Submitted(w, new)
    PROVE  /\ Steady(c) /\ c.doc = w.doc /\ (new # {} => c.warm.tasks # {})
           /\ w.warm.tasks \subseteq c.warm.tasks
<1> DEFINE d == w.doc
           fl == w.flight
           NT(r) == TaskOf(w, new, r)
           NF(r) == FlightOf(w, new, r)
           TN == {NT(r) : r \in new}
           FN == {NF(r) : r \in new}
<1>1. /\ DOMAIN w = Parts /\ Good(d) /\ Warm(w.warm) /\ Flights(fl) /\ Ledger(d) /\ Ledger(v) /\ v.nextId \in Nat
    BY DEF Whole, Good, WellTyped
<1>3. /\ new \subseteq d.reserved /\ d.reserved = v.reserved \cup new /\ IsFiniteSet(new) /\ \A r \in new : r.id >= v.nextId
      /\ d.id = v.id /\ d.version = v.version /\ d.text = v.text
    BY DEF Reserves
<1>4. /\ \A r \in d.reserved : r.id \in Nat
      /\ \A r, q \in new : r # q => r.id # q.id
      /\ \A r \in v.reserved : r.id < v.nextId /\ r.id \in Nat
    BY <1>1, <1>3 DEF Ledger, Reservation
<1>5. /\ \A r \in new : IdOf(fl, new, r) \in Nat /\ \A f \in fl : f.id # IdOf(fl, new, r)
      /\ \A r, q \in new : IdOf(fl, new, r) = IdOf(fl, new, q) => r = q
    <2>1. \A r \in new : r.id \in Nat
        BY <1>3, <1>4
    <2> HIDE DEF fl
    <2> QED
        BY <1>1, <1>3, <1>4, <2>1, IdsApart
<1>6. ASSUME NEW r \in new
      PROVE  /\ NT(r).id = IdOf(fl, new, r) /\ NT(r).res = r.id /\ NT(r) \in [id : Nat, res : Nat, current : BOOLEAN]
             /\ DOMAIN NF(r) = {"id", "doc", "version", "cancelled", "packet"}
             /\ NF(r).id = IdOf(fl, new, r) /\ NF(r).cancelled = FALSE /\ NF(r).doc = d.id /\ NF(r).version = d.version
             /\ NF(r).packet = ScanSpan(d.text, r.s, r.e, r.id)
    BY <1>3, <1>4, <1>5 DEF TaskOf, FlightOf
<1>2. /\ DOMAIN c = Parts /\ c.doc = d /\ c.flight = fl \cup FN
      /\ c.warm \in [id : Nat, version : Nat, focus : Int, tasks : SUBSET [id : Nat, res : Nat, current : BOOLEAN]]
      /\ c.warm.id = w.warm.id /\ c.warm.version = w.warm.version
      /\ c.warm.tasks = w.warm.tasks \cup TN
    <2>1. \A r \in new : TaskOf(w, new, r) \in [id : Nat, res : Nat, current : BOOLEAN]
        BY <1>6
    <2>2. {TaskOf(w, new, r) : r \in new} \subseteq [id : Nat, res : Nat, current : BOOLEAN]
        BY <2>1
    <2> QED
        BY <1>1, <2>2, SubmittedParts
<1> HIDE DEF NT, NF
<1>7. IsFiniteSet(TN) /\ IsFiniteSet(FN)
    <2> DEFINE g == [r \in new |-> NT(r)]
               h == [r \in new |-> NF(r)]
    <2>1. g \in [new -> TN] /\ \A z \in TN : \E r \in new : g[r] = z
        OBVIOUS
    <2>2. h \in [new -> FN] /\ \A z \in FN : \E r \in new : h[r] = z
        OBVIOUS
    <2> HIDE DEF g, h, TN, FN
    <2> QED
        BY <1>3, <2>1, <2>2, ImageFinite
<1>8. Flights(c.flight)
    <2>1. IsFiniteSet(fl \cup FN)
        <3>1. IsFiniteSet(fl)
            BY <1>1 DEF Flights
        <3> HIDE DEF fl, FN
        <3> QED
            BY <1>7, <3>1, FS_Union
    <2>2. ASSUME NEW f \in fl \cup FN
          PROVE  DOMAIN f = {"id", "doc", "version", "cancelled", "packet"} /\ f.id \in Nat /\ f.cancelled \in BOOLEAN
        <3>1. CASE f \in fl
            BY <1>1, <3>1 DEF Flights
        <3>2. CASE f \in FN
            <4>1. PICK r \in new : f = NF(r)
                BY <3>2
            <4>2. /\ DOMAIN NF(r) = {"id", "doc", "version", "cancelled", "packet"}
                  /\ NF(r).id = IdOf(fl, new, r) /\ NF(r).cancelled = FALSE /\ IdOf(fl, new, r) \in Nat
                BY <1>5, <1>6
            <4> HIDE DEF fl
            <4> QED
                BY <4>1, <4>2, Zenon
        <3> QED
            BY <3>1, <3>2
    <2>3. ASSUME NEW f \in fl \cup FN, NEW g \in fl \cup FN, f.id = g.id PROVE f = g
        <3>1. \A x \in FN : \E r \in new : x = NF(r) /\ x.id = IdOf(fl, new, r)
            BY <1>6, ZenonT(60)
        <3>2. CASE f \in fl /\ g \in fl
            BY <1>1, <2>3, <3>2 DEF Flights
        <3>3. CASE f \in FN /\ g \in FN
            BY <1>5, <2>3, <3>1, <3>3
        <3>4. \A x \in fl, y \in FN : x.id # y.id
            BY <1>5, <3>1
        <3> QED
            BY <2>3, <3>2, <3>3, <3>4
    <2> HIDE DEF fl, FN
    <2> QED
        BY <1>2, <2>1, <2>2, <2>3 DEF Flights
<1>9. Warm(c.warm)
    <2>1. IsFiniteSet(w.warm.tasks \cup TN)
        <3>1. IsFiniteSet(w.warm.tasks)
            BY <1>1 DEF Warm
        <3> HIDE DEF TN
        <3> QED
            BY <1>7, <3>1, FS_Union
    <2> HIDE DEF TN
    <2> QED
        BY <1>2, <2>1 DEF Warm
<1>10. Linked(d, c.warm, c.flight)
    <2> DEFINE T == w.warm.tasks
    <2>1. \A t \in TN : \E r \in new : t = NT(r) /\ t.id = IdOf(fl, new, r) /\ t.res = r.id
        BY <1>6, ZenonT(60)
    <2>2. ASSUME NEW t \in T PROVE /\ ScanOf(v, fl, t) /\ \E r \in v.reserved : r.id = t.res
                                   /\ \E f \in fl : f.id = t.id
        BY DEF Linked, ScanOf
    <2>3. ASSUME NEW t \in T, NEW u \in TN PROVE t.id # u.id /\ t.res # u.res
        <3>1. PICK r \in new : u = NT(r) /\ u.id = IdOf(fl, new, r) /\ u.res = r.id
            BY <2>1
        <3>2. PICK q \in v.reserved : q.id = t.res
            BY <2>2
        <3>3. PICK f \in fl : f.id = t.id
            BY <2>2
        <3>4. t.id # u.id
            BY <1>5, <3>1, <3>3
        <3>5. q.id < v.nextId /\ q.id \in Nat /\ r.id >= v.nextId /\ r.id \in Nat
            BY <1>3, <1>4
        <3> QED
            BY <1>1, <3>1, <3>2, <3>4, <3>5
    <2>4. ASSUME NEW t \in TN, NEW u \in TN, t # u PROVE t.id # u.id /\ t.res # u.res
        <3>1. PICK r \in new : t = NT(r) /\ t.id = IdOf(fl, new, r) /\ t.res = r.id
            BY <2>1
        <3>2. PICK q \in new : u = NT(q) /\ u.id = IdOf(fl, new, q) /\ u.res = q.id
            BY <2>1
        <3>3. r # q
            BY <2>4, <3>1, <3>2
        <3> QED
            BY <1>4, <1>5, <3>1, <3>2, <3>3
    <2>5. \A t, u \in T \cup TN : t # u => t.id # u.id /\ t.res # u.res
        <3>1. \A t, u \in T : t # u => t.id # u.id /\ t.res # u.res
            BY DEF Linked
        <3> HIDE DEF T, TN
        <3> QED
            BY <2>3, <2>4, <3>1
    <2>6. ASSUME NEW r \in d.reserved PROVE \E t \in T \cup TN : t.res = r.id
        <3>1. CASE r \in v.reserved
            BY <3>1 DEF Linked
        <3>2. CASE r \in new
            <4>1. NT(r) \in TN /\ NT(r).res = r.id
                BY <1>6, <3>2
            <4> QED
                BY <4>1
        <3> QED
            BY <1>3, <3>1, <3>2
    <2>7. ASSUME NEW t \in T \cup TN PROVE ScanOf(d, fl \cup FN, t)
        <3>1. CASE t \in T
            <4>1. PICK f \in fl, r \in v.reserved :
                      /\ f.id = t.id /\ ~f.cancelled /\ f.doc = v.id /\ f.version = v.version
                      /\ r.id = t.res /\ f.packet = ScanSpan(v.text, r.s, r.e, r.id)
                BY <2>2, <3>1 DEF ScanOf
            <4>2. f \in fl \cup FN /\ r \in d.reserved
                BY <1>3
            <4> HIDE DEF fl, FN, d
            <4> QED
                BY <1>3, <4>1, <4>2 DEF ScanOf
        <3>2. CASE t \in TN
            <4>1. PICK r \in new : t = NT(r) /\ t.id = IdOf(fl, new, r) /\ t.res = r.id
                BY <2>1, <3>2
            <4> DEFINE f == NF(r)
            <4>2. f \in fl \cup FN /\ r \in d.reserved
                BY <1>3
            <4>3. /\ f.id = t.id /\ ~f.cancelled /\ f.doc = d.id /\ f.version = d.version
                  /\ f.packet = ScanSpan(d.text, r.s, r.e, r.id)
                BY <1>6, <4>1
            <4> HIDE DEF fl, FN, d, f
            <4> QED
                BY <4>1, <4>2, <4>3 DEF ScanOf
        <3> QED
            BY <3>1, <3>2
    <2>8. c.warm.id = d.id /\ c.warm.version = d.version
        BY <1>2 DEF SameSource
    <2> HIDE DEF T, TN, FN, fl, d
    <2>9. c.warm.tasks = T \cup TN
        BY <1>2 DEF T
    <2> QED
        BY <1>2, <2>5, <2>6, <2>7, <2>8, <2>9, ZenonT(60) DEF Linked
<1>11. new # {} => TN # {}
    OBVIOUS
<1>12. Whole(c)
    BY <1>1, <1>2, <1>8, <1>9 DEF Whole
<1> QED
    BY <1>2, <1>10, <1>11, <1>12 DEF Steady

\* where the warmup of the document that is there begins
BaseOf(w) ==
    IF SameSource(w) THEN w
    ELSE [CancelWarmup(w) EXCEPT !.warm.id = w.doc.id, !.warm.version = w.doc.version]

\* The tasks that are kept when the warmup of a document is asked for: all, or
\* none if they belong to another version.
LEMMA BaseIs ==
    ASSUME NEW w, Whole(w),
           Linked(w.doc, w.warm, w.flight) \/ (w.doc.reserved = {} /\ ~SameSource(w)),
           NEW b, b = BaseOf(w)
    PROVE  Steady(b) /\ SameSource(b) /\ SameText(b.doc, w.doc)
<1> DEFINE c == CancelWarmup(w)
           m == Titled(w.doc.id, w.doc.version)
<1>1. CASE SameSource(w)
    BY <1>1 DEF Steady, SameText, BaseOf
<1>2. CASE ~SameSource(w)
    <2>1. Steady(c) /\ SameText(c.doc, w.doc) /\ c.warm = Idle /\ c.doc.reserved = {}
        BY CancelIs
    <2>2. b = [c EXCEPT !.warm.id = w.doc.id, !.warm.version = w.doc.version]
        BY <1>2 DEF BaseOf
    <2> HIDE DEF c
    <2>3. DOMAIN b = Parts /\ b.doc = c.doc /\ b.flight = c.flight /\ b.warm = m
        BY <2>1, <2>2 DEF Steady, Whole, Parts, Idle, Titled
    <2>4. Warm(m) /\ m.tasks = {} /\ m.id = w.doc.id /\ m.version = w.doc.version
        <3>1. w.doc.id \in Nat /\ w.doc.version \in Nat
            BY DEF Whole, Good, WellTyped
        <3> QED
            BY <3>1, IdleWarm
    <2> HIDE DEF m
    <2>5. Linked(b.doc, b.warm, b.flight)
        BY <2>1, <2>3, <2>4, NoTasks
    <2>6. Whole(b)
        BY <2>1, <2>3, <2>4 DEF Steady, Whole
    <2>7. SameSource(b)
        BY <2>1, <2>3, <2>4 DEF SameSource, SameText
    <2> QED
        BY <2>1, <2>3, <2>5, <2>6, <2>7 DEF Steady
<1> QED
    BY <1>1, <1>2

\* A character that is not free, where the indexed prefix ends, is reserved.
LEMMA NextIsReserved ==
    ASSUME NEW d, Good(d), ~d.complete, d.off < Len(d.text), Free(d) = {}
    PROVE  d.reserved # {}
<1>1. Behind(d) /\ Ledger(d) /\ d.off \in Nat /\ Len(d.text) \in Nat
    BY BreaksAre DEF Good, WellTyped
<1>2. d.off \in d.off..Len(d.text) - 1
    BY <1>1
<1>3. PICK k \in d.packets \cup d.reserved : k.s <= d.off /\ d.off < k.e
    BY <1>2 DEF Free
<1>4. k \notin d.packets
    <2>1. k \in d.packets => k.s > d.off /\ k.s \in Nat
        BY <1>1 DEF Behind, Ledger, Fits
    <2> QED
        BY <1>1, <1>3, <2>1
<1> QED
    BY <1>3, <1>4

\* scheduleLineIndexWarmupIfNeeded: the tasks, the scans and the reservations go
\* together again, also for a document that has just been replaced, and there is
\* a task while there is something to scan.
LEMMA ScheduledIs ==
    ASSUME NEW w, Whole(w),
           Linked(w.doc, w.warm, w.flight) \/ (w.doc.reserved = {} /\ (Known(w.doc) \/ ~SameSource(w))),
           NEW cursor \in Int, NEW c, c = Scheduled(w, cursor)
    PROVE  /\ Steady(c) /\ Going(c.doc, c.warm)
           /\ c.doc.id = w.doc.id /\ c.doc.text = w.doc.text /\ c.doc.version = w.doc.version
<1> DEFINE b == BaseOf(w)
           a == [b EXCEPT !.warm = Focused(@, cursor)]
           cur == {t \in a.warm.tasks : t.current}
           n == Budget - Cardinality(cur)
           x == Reserve(a.doc, a.warm.focus, n)
           z == [a EXCEPT !.doc = x.d]
<1>1. CASE Known(w.doc)
    <2>1. c = CancelWarmup(w)
        BY <1>1 DEF Scheduled
    <2>2. Steady(c) /\ SameText(c.doc, w.doc)
        BY <2>1, CancelIs
    <2>3. Known(c.doc)
        BY <1>1, <2>2 DEF SameText, Known, Exact
    <2> QED
        BY <2>2, <2>3 DEF SameText, Going
<1>2. CASE ~Known(w.doc)
    <2>1. /\ Cardinality(cur) >= Budget => c = a
          /\ ~(Cardinality(cur) >= Budget) => c = Submitted(z, x.new)
        BY <1>2, Zenon DEF Scheduled, BaseOf
    <2>2. Steady(b) /\ SameSource(b) /\ SameText(b.doc, w.doc)
        BY <1>2, BaseIs
    <2> HIDE DEF b
    <2>3. DOMAIN a = Parts /\ a.doc = b.doc /\ a.flight = b.flight /\ a.warm = Focused(b.warm, cursor)
        BY <2>2 DEF Steady, Whole, Parts
    <2> HIDE DEF a
    <2>4. Warm(a.warm) /\ Linked(b.doc, a.warm, b.flight) /\ a.warm.id = b.warm.id /\ a.warm.version = b.warm.version
        <3>1. Warm(b.warm) /\ Linked(b.doc, b.warm, b.flight)
            BY <2>2 DEF Steady, Whole
        <3>2. a.warm = Focused(b.warm, cursor)
            BY <2>3
        <3> QED
            BY <3>1, <3>2, FocusedIs
    <2>5. Steady(a) /\ SameSource(a) /\ SameText(a.doc, w.doc)
        BY <2>2, <2>3, <2>4 DEF Steady, Whole, SameSource
    <2>6. IsFiniteSet(cur) /\ Cardinality(cur) \in Nat
        <3>1. IsFiniteSet(a.warm.tasks) /\ cur \subseteq a.warm.tasks
            BY <2>4 DEF Warm
        <3> HIDE DEF cur
        <3> QED
            BY <3>1, FS_Subset, FS_CardinalityType
    <2>7. Budget \in Nat /\ Budget >= 1
        BY LineIndexAssumption
    <2>8. ~a.doc.complete
        BY <1>2, <2>5 DEF SameText, Known
    <2>9. CASE Cardinality(cur) >= Budget
        <3>1. cur # {}
            <4>1. Cardinality(cur) # 0
                BY <2>6, <2>7, <2>9
            <4> HIDE DEF cur
            <4> QED
                BY <4>1, FS_EmptySet
        <3>2. a.warm.tasks # {}
            BY <3>1
        <3>3. c = a
            BY <2>1, <2>9
        <3> QED
            BY <2>5, <3>2, <3>3 DEF Going, SameText
    <2>10. CASE ~(Cardinality(cur) >= Budget)
        <3>1. n \in Nat /\ n >= 1
            <4> HIDE DEF cur
            <4> QED
                BY <2>6, <2>7, <2>10
        <3>2. a.warm.focus \in Int /\ Good(a.doc) /\ DOMAIN a = Parts
            BY <2>4, <2>5 DEF Warm, Steady, Whole
        <3> HIDE DEF n
        <3>3. Good(x.d) /\ Reserves(x.d, a.doc, x.new) /\ (Free(a.doc) # {} => x.new # {})
            BY <3>1, <3>2, ReserveIs
        <3> HIDE DEF x
        <3>4. DOMAIN z = Parts /\ z.doc = x.d /\ z.warm = a.warm /\ z.flight = a.flight
            BY <3>2 DEF Parts
        <3> HIDE DEF z
        <3>5. Whole(z) /\ SameSource(z) /\ Linked(a.doc, z.warm, z.flight) /\ Reserves(z.doc, a.doc, x.new)
            BY <2>5, <3>3, <3>4 DEF Steady, Whole, SameSource, Reserves
        <3>6. c = Submitted(z, x.new)
            BY <2>1, <2>10
        <3>7. Steady(c) /\ c.doc = z.doc /\ (x.new # {} => c.warm.tasks # {}) /\ z.warm.tasks \subseteq c.warm.tasks
            BY <3>2, <3>5, <3>6, SubmittedIs
        <3>8. c.doc.id = w.doc.id /\ c.doc.text = w.doc.text /\ c.doc.version = w.doc.version
            BY <2>5, <3>5, <3>7 DEF Reserves, SameText
        <3>9. Going(c.doc, c.warm)
            <4> SUFFICES ASSUME c.doc.off < Len(c.doc.text) PROVE c.warm.tasks # {}
                BY DEF Going
            <4>1. a.doc.off < Len(a.doc.text)
                BY <3>5, <3>7 DEF Reserves
            <4>2. Free(a.doc) = {} => a.doc.reserved # {}
                BY <2>8, <3>2, <4>1, NextIsReserved
            <4>3. a.doc.reserved # {} => z.warm.tasks # {}
                BY <3>5 DEF Linked
            <4> QED
                BY <3>3, <3>7, <4>2, <4>3
        <3> QED
            BY <3>7, <3>8, <3>9
    <2> QED
        BY <2>9, <2>10
<1> QED
    BY <1>1, <1>2

\* what is left when the task with an id is cleared
LeftTasks(w, id) == {t \in w.warm.tasks : t.id # id}
LeftReserved(w, id) == {r \in w.doc.reserved : \A t \in w.warm.tasks : t.id = id => t.res # r.id}

\* clearLineIndexWarmupTask: the task and its reservation go.
LEMMA ClearIs ==
    ASSUME NEW w, DOMAIN w = Parts, Good(w.doc), Warm(w.warm), NEW id, NEW c, c = ClearTask(w, id)
    PROVE  /\ DOMAIN c = Parts /\ c.flight = w.flight
           /\ Good(c.doc) /\ SameText(c.doc, w.doc) /\ c.doc.reserved = LeftReserved(w, id)
           /\ Warm(c.warm) /\ c.warm.id = w.warm.id /\ c.warm.version = w.warm.version
           /\ c.warm.tasks = LeftTasks(w, id) /\ (LeftTasks(w, id) = w.warm.tasks => c.warm = w.warm)
<1> DEFINE T == LeftTasks(w, id)
           R == LeftReserved(w, id)
<1>1. c = [w EXCEPT !.warm.tasks = T, !.doc.reserved = R]
    BY DEF ClearTask, LeftTasks, LeftReserved
<1>2. T \subseteq w.warm.tasks /\ R \subseteq w.doc.reserved
    BY DEF LeftTasks, LeftReserved
<1> HIDE DEF T, R
<1>3. DOMAIN c = Parts /\ c.flight = w.flight /\ c.doc = [w.doc EXCEPT !.reserved = R] /\ c.warm = [w.warm EXCEPT !.tasks = T]
    BY <1>1 DEF Parts
<1>4. Good(c.doc) /\ SameText(c.doc, w.doc) /\ c.doc.reserved = R
    <2> DEFINE D == w.doc
               E == c.doc
    <2>1. Good(D) /\ R \subseteq D.reserved /\ E = [D EXCEPT !.reserved = R]
        BY <1>2, <1>3
    <2> HIDE DEF D, E
    <2>2. Good(E) /\ E.reserved = R /\ SameText(E, D)
        BY <2>1, ReleasedGood DEF SameText
    <2> QED
        BY <2>2 DEF D, E
<1>5. /\ c.warm \in [id : Nat, version : Nat, focus : Int, tasks : SUBSET [id : Nat, res : Nat, current : BOOLEAN]]
      /\ c.warm.id = w.warm.id /\ c.warm.version = w.warm.version /\ c.warm.tasks = T
      /\ (T = w.warm.tasks => c.warm = w.warm)
    BY <1>2, <1>3 DEF Warm
<1>6. IsFiniteSet(T)
    BY <1>2, FS_Subset DEF Warm
<1>7. Warm(c.warm)
    BY <1>5, <1>6 DEF Warm
<1> QED
    BY <1>3, <1>4, <1>5, <1>7 DEF T, R

\* the state without a scan, and with another document
Without(w, f) == [w EXCEPT !.flight = w.flight \ {f}]
Holding(w, d) == [w EXCEPT !.doc = d]

\* fewer scans are still apart
LEMMA FewerFlights ==
    ASSUME NEW fl, Flights(fl), NEW f
    PROVE  Flights(fl \ {f})
<1>1. IsFiniteSet(fl \ {f})
    BY FS_Subset DEF Flights
<1> QED
    BY <1>1 DEF Flights

\* A scan is over of which the editor knows nothing: its task was cancelled, or
\* forgotten.
LEMMA ForeignOver ==
    ASSUME NEW w, Steady(w), NEW f \in w.flight, \A t \in w.warm.tasks : t.id # f.id,
           NEW b, b = Without(w, f), NEW c, c = ClearTask(b, f.id)
    PROVE  Steady(c) /\ SameText(c.doc, w.doc) /\ c.warm = w.warm
<1>1. /\ DOMAIN w = Parts /\ Good(w.doc) /\ Warm(w.warm) /\ Flights(w.flight) /\ Linked(w.doc, w.warm, w.flight)
    BY DEF Steady, Whole
<1>2. DOMAIN b = Parts /\ b.doc = w.doc /\ b.warm = w.warm /\ b.flight = w.flight \ {f}
    BY <1>1 DEF Parts, Without
<1>3. DOMAIN b = Parts /\ Good(b.doc) /\ Warm(b.warm)
    BY <1>1, <1>2
<1>4. /\ DOMAIN c = Parts /\ c.flight = b.flight
      /\ Good(c.doc) /\ SameText(c.doc, b.doc) /\ c.doc.reserved = LeftReserved(b, f.id)
      /\ Warm(c.warm) /\ c.warm.id = b.warm.id /\ c.warm.version = b.warm.version
      /\ c.warm.tasks = LeftTasks(b, f.id) /\ (LeftTasks(b, f.id) = b.warm.tasks => c.warm = b.warm)
    BY <1>3, ClearIs
<1>5. LeftReserved(b, f.id) = w.doc.reserved /\ LeftTasks(b, f.id) = w.warm.tasks
    BY <1>2 DEF LeftReserved, LeftTasks
<1>6. c.warm = w.warm /\ c.doc.reserved = w.doc.reserved /\ c.flight = w.flight \ {f} /\ SameText(c.doc, w.doc)
    BY <1>2, <1>4, <1>5
<1>7. Flights(c.flight)
    BY <1>1, <1>6, FewerFlights
<1>8. Linked(c.doc, c.warm, c.flight)
    <2>1. ASSUME NEW t \in w.warm.tasks PROVE ScanOf(c.doc, c.flight, t)
        <3>1. PICK g \in w.flight, r \in w.doc.reserved :
                  /\ g.id = t.id /\ ~g.cancelled /\ g.doc = w.doc.id /\ g.version = w.doc.version
                  /\ r.id = t.res /\ g.packet = ScanSpan(w.doc.text, r.s, r.e, r.id)
            BY <1>1 DEF Linked, ScanOf
        <3>2. g \in c.flight /\ r \in c.doc.reserved
            BY <1>6, <3>1
        <3> QED
            BY <1>6, <3>1, <3>2 DEF ScanOf, SameText
    <2>2. c.doc.id = w.doc.id /\ c.doc.version = w.doc.version
        BY <1>6 DEF SameText
    <2> QED
        BY <1>1, <1>6, <2>1, <2>2 DEF Linked
<1> QED
    BY <1>4, <1>6, <1>7, <1>8 DEF Steady, Whole

\* The scan of a task is adopted, and the task is cleared with its reservation.
LEMMA OwnOver ==
    ASSUME NEW w, Steady(w), NEW f \in w.flight, NEW b, b = Without(w, f), Owned(b, f),
           NEW a, a = Adopt(w.doc, f.packet), NEW e, e = Holding(b, a.d), NEW c, c = ClearTask(e, f.id)
    PROVE  /\ Steady(c) /\ SameText(c.doc, a.d)
           /\ c.doc.id = w.doc.id /\ c.doc.text = w.doc.text /\ c.doc.version = w.doc.version
           /\ a.ok \in BOOLEAN /\ (~a.ok => Known(c.doc))
<1>1. /\ DOMAIN w = Parts /\ Good(w.doc) /\ Warm(w.warm) /\ Flights(w.flight) /\ Linked(w.doc, w.warm, w.flight)
    BY DEF Steady, Whole
<1>2. DOMAIN b = Parts /\ b.doc = w.doc /\ b.warm = w.warm /\ b.flight = w.flight \ {f}
    BY <1>1 DEF Parts, Without
<1>3. PICK t \in w.warm.tasks : t.id = f.id
    BY <1>2 DEF Owned
<1>4. PICK r \in w.doc.reserved : r.id = t.res /\ f.packet = ScanSpan(w.doc.text, r.s, r.e, r.id)
    <2>1. PICK g \in w.flight, r \in w.doc.reserved :
              g.id = t.id /\ r.id = t.res /\ g.packet = ScanSpan(w.doc.text, r.s, r.e, r.id)
        BY <1>1 DEF Linked, ScanOf
    <2>2. g = f
        BY <1>1, <1>3, <2>1 DEF Flights
    <2> QED
        BY <2>1, <2>2
<1>5. /\ Good(a.d) /\ a.d.reserved = w.doc.reserved \ {r}
      /\ a.d.id = w.doc.id /\ a.d.text = w.doc.text /\ a.d.version = w.doc.version
      /\ a.ok \in BOOLEAN /\ (~a.ok => w.doc.complete /\ a.d.complete = w.doc.complete)
    BY <1>1, <1>4, AdoptIs
<1>6. DOMAIN e = Parts /\ e.doc = a.d /\ e.warm = w.warm /\ e.flight = w.flight \ {f}
    BY <1>2 DEF Parts, Holding
<1>a. DOMAIN e = Parts /\ Good(e.doc) /\ Warm(e.warm)
    BY <1>1, <1>5, <1>6
<1>7. /\ DOMAIN c = Parts /\ c.flight = e.flight
      /\ Good(c.doc) /\ SameText(c.doc, e.doc) /\ c.doc.reserved = LeftReserved(e, f.id)
      /\ Warm(c.warm) /\ c.warm.id = e.warm.id /\ c.warm.version = e.warm.version
      /\ c.warm.tasks = LeftTasks(e, f.id)
    BY <1>a, ClearIs
<1>8. \A u \in w.warm.tasks : u # t => u.id # f.id /\ u.res # r.id
    BY <1>1, <1>3, <1>4 DEF Linked
<1>9. \A q \in w.doc.reserved : q # r => q.id # r.id
    BY <1>1 DEF Good, Ledger
<1>10. c.warm.tasks = w.warm.tasks \ {t}
    <2>1. c.warm.tasks = LeftTasks(e, f.id)
        BY <1>7
    <2>2. LeftTasks(e, f.id) = {u \in w.warm.tasks : u.id # f.id}
        BY <1>6 DEF LeftTasks
    <2>3. \A u : u \in {v \in w.warm.tasks : v.id # f.id} <=> u \in w.warm.tasks \ {t}
        BY <1>3, <1>8
    <2> QED
        BY <2>1, <2>2, <2>3
<1>11. c.doc.reserved = w.doc.reserved \ {r}
    <2>1. LeftReserved(e, f.id) = {q \in w.doc.reserved \ {r} : \A u \in w.warm.tasks : u.id = f.id => u.res # q.id}
        BY <1>5, <1>6 DEF LeftReserved
    <2>2. \A q \in w.doc.reserved \ {r} : \A u \in w.warm.tasks : u.id = f.id => u.res # q.id
        BY <1>4, <1>8, <1>9
    <2>3. \A q : q \in LeftReserved(e, f.id) <=> q \in w.doc.reserved \ {r}
        BY <2>1, <2>2
    <2>4. c.doc.reserved = LeftReserved(e, f.id)
        BY <1>7
    <2> QED
        BY <2>3, <2>4
<1>12. SameText(c.doc, a.d) /\ c.flight = w.flight \ {f} /\ c.warm.id = w.warm.id /\ c.warm.version = w.warm.version
    BY <1>6, <1>7
<1>14. Flights(c.flight)
    BY <1>1, <1>12, FewerFlights
<1>15. c.doc.id = w.doc.id /\ c.doc.text = w.doc.text /\ c.doc.version = w.doc.version
    BY <1>5, <1>12 DEF SameText
<1>16. Linked(c.doc, c.warm, c.flight)
    <2>1. ASSUME NEW u \in c.warm.tasks PROVE ScanOf(c.doc, c.flight, u)
        <3>1. PICK g \in w.flight, q \in w.doc.reserved :
                  /\ g.id = u.id /\ ~g.cancelled /\ g.doc = w.doc.id /\ g.version = w.doc.version
                  /\ q.id = u.res /\ g.packet = ScanSpan(w.doc.text, q.s, q.e, q.id)
            BY <1>1, <1>10 DEF Linked, ScanOf
        <3>2. g \in c.flight /\ q \in c.doc.reserved
            BY <1>8, <1>10, <1>11, <1>12, <3>1
        <3> QED
            BY <1>15, <3>1, <3>2 DEF ScanOf
    <2>2. ASSUME NEW q \in c.doc.reserved PROVE \E u \in c.warm.tasks : u.res = q.id
        <3>1. q \in w.doc.reserved /\ q.id # r.id
            BY <1>9, <1>11
        <3>2. PICK u \in w.warm.tasks : u.res = q.id
            BY <1>1, <3>1 DEF Linked
        <3> QED
            BY <1>4, <1>10, <3>1, <3>2
    <2>3. c.warm.tasks # {} => c.warm.id = c.doc.id /\ c.warm.version = c.doc.version
        BY <1>1, <1>10, <1>12, <1>15 DEF Linked
    <2>4. \A u, v \in c.warm.tasks : u # v => u.id # v.id /\ u.res # v.res
        BY <1>1, <1>10 DEF Linked
    <2> QED
        BY <2>1, <2>2, <2>3, <2>4 DEF Linked
<1>17. ~a.ok => Known(c.doc)
    BY <1>5, <1>12 DEF Known, SameText
<1> QED
    BY <1>5, <1>7, <1>12, <1>14, <1>15, <1>16, <1>17 DEF Steady, Whole

\* A completed scan: the tasks, the scans and the reservations still go
\* together, and the warmup goes on.
LEMMA AppliedIs ==
    ASSUME NEW w, Steady(w), Going(w.doc, w.warm), NEW f \in w.flight, NEW b, b = Without(w, f), NEW c, c = Applied(b, f)
    PROVE  /\ Steady(c) /\ Going(c.doc, c.warm)
           /\ c.doc.id = w.doc.id /\ c.doc.text = w.doc.text /\ c.doc.version = w.doc.version
<1> DEFINE a == Adopt(b.doc, f.packet)
           e == Holding(b, a.d)
           z == ClearTask(e, f.id)
           y == IF Known(a.d) THEN CancelWarmup(z) ELSE z
<1>1. DOMAIN w = Parts /\ Linked(w.doc, w.warm, w.flight) /\ Flights(w.flight) /\ w.warm.focus \in Int
    BY DEF Steady, Whole, Warm
<1>2. DOMAIN b = Parts /\ b.doc = w.doc /\ b.warm = w.warm /\ b.flight = w.flight \ {f}
    BY <1>1 DEF Parts, Without
<1>3. CASE ~Owned(b, f)
    <2>1. ASSUME NEW t \in w.warm.tasks, t.id = f.id PROVE FALSE
        <3>1. PICK g \in w.flight : g.id = t.id /\ g.doc = w.doc.id /\ g.version = w.doc.version
            BY <1>1 DEF Linked, ScanOf
        <3>2. g = f
            BY <1>1, <2>1, <3>1 DEF Flights
        <3> QED
            BY <1>2, <1>3, <2>1, <3>1, <3>2 DEF Owned
    <2> DEFINE x == ClearTask(b, f.id)
    <2>2. c = x
        BY <1>3 DEF Applied
    <2>3. Steady(x) /\ SameText(x.doc, w.doc) /\ x.warm = w.warm
        BY <2>1, ForeignOver
    <2> HIDE DEF x
    <2>4. Going(x.doc, x.warm)
        BY <2>3 DEF Going, Known, Exact, SameText
    <2> QED
        BY <2>2, <2>3, <2>4 DEF SameText
<1>4. CASE Owned(b, f)
    <2>1. (~a.ok => c = z) /\ (a.ok => c = Scheduled(y, b.warm.focus))
        BY <1>4, Zenon DEF Applied, Holding
    <2>2. a = Adopt(w.doc, f.packet) /\ e = Holding(b, a.d) /\ z = ClearTask(e, f.id)
        BY <1>2
    <2> HIDE DEF a, e, z
    <2>3. /\ Steady(z) /\ SameText(z.doc, a.d)
          /\ z.doc.id = w.doc.id /\ z.doc.text = w.doc.text /\ z.doc.version = w.doc.version
          /\ a.ok \in BOOLEAN /\ (~a.ok => Known(z.doc))
        BY <1>4, <2>2, OwnOver
    <2>4. Steady(y) /\ SameText(y.doc, z.doc)
        <3>1. Whole(z) /\ Linked(z.doc, z.warm, z.flight)
            BY <2>3 DEF Steady
        <3> DEFINE x == CancelWarmup(z)
        <3>2. Steady(x) /\ SameText(x.doc, z.doc)
            BY <3>1, CancelIs
        <3> HIDE DEF x
        <3>3. y = x \/ y = z
            BY DEF x
        <3> HIDE DEF y
        <3> QED
            BY <2>3, <3>2, <3>3 DEF SameText
    <2> HIDE DEF y
    <2>5. CASE ~a.ok
        BY <2>1, <2>3, <2>5 DEF Going
    <2>6. CASE a.ok
        <3>1. Whole(y) /\ Linked(y.doc, y.warm, y.flight) /\ b.warm.focus \in Int
            BY <1>1, <1>2, <2>4 DEF Steady
        <3>2. c = Scheduled(y, b.warm.focus)
            BY <2>1, <2>6
        <3>3. /\ Steady(c) /\ Going(c.doc, c.warm)
              /\ c.doc.id = y.doc.id /\ c.doc.text = y.doc.text /\ c.doc.version = y.doc.version
            BY <3>1, <3>2, ScheduledIs
        <3> QED
            BY <2>3, <2>4, <3>3 DEF SameText
    <2> QED
        BY <2>3, <2>5, <2>6
<1> QED
    BY <1>3, <1>4

(* The stacks of undo and redo. *)

\* A sequence is one of its own elements.
LEMMA OwnElements ==
    ASSUME NEW S, NEW u \in Seq(S)
    PROVE  u \in Seq(On(u)) /\ Len(u) \in Nat /\ DOMAIN u = 1..Len(u) /\ On(u) = {u[i] : i \in 1..Len(u)}
<1>1. Len(u) \in Nat /\ DOMAIN u = 1..Len(u) /\ u \in [1..Len(u) -> S]
    OBVIOUS
<1>2. u \in [1..Len(u) -> On(u)]
    BY <1>1 DEF On
<1>3. u \in Seq(On(u))
    BY <1>1, <1>2, SeqDef
<1> QED
    BY <1>1, <1>3 DEF On

\* a stack with something more on it
Push(u, s) == Append(u, s)

\* Something is put on a stack.
LEMMA Pushed ==
    ASSUME NEW u, u \in Seq(On(u)), NEW s, NEW v, v = Push(u, s)
    PROVE  /\ v \in Seq(On(v)) /\ Len(u) \in Nat /\ Len(v) = Len(u) + 1 /\ v[Len(v)] = s
           /\ \A i \in 1..Len(v) : i # Len(v) => i \in 1..Len(u) /\ v[i] = u[i]
<1> DEFINE S == On(u) \cup {s}
<1>1. u \in Seq(S)
    <2>1. On(u) \subseteq S
        OBVIOUS
    <2> QED
        BY <2>1, SeqDef
<1> HIDE DEF S
<1>2. s \in S
    BY DEF S
<1>3. v \in Seq(S) /\ Len(v) = Len(u) + 1 /\ v[Len(v)] = s /\ \A i \in 1..Len(u) : v[i] = u[i]
    BY <1>1, <1>2 DEF Push
<1>4. v \in Seq(On(v)) /\ Len(u) \in Nat
    BY <1>1, <1>3, OwnElements
<1> QED
    BY <1>3, <1>4

\* Something is taken from a stack.
LEMMA Popped ==
    ASSUME NEW u, u \in Seq(On(u)), u # <<>>, NEW v, v = Front(u)
    PROVE  /\ v \in Seq(On(v)) /\ Len(u) \in Nat /\ Len(u) >= 1 /\ Len(v) = Len(u) - 1 /\ Last(u) = u[Len(u)]
           /\ \A i \in 1..Len(v) : i \in 1..Len(u) /\ i < Len(u) /\ v[i] = u[i]
<1>1. Len(u) \in Nat /\ Len(u) >= 1
    OBVIOUS
<1>2. Last(u) = u[Len(u)]
    BY DEF Last
<1>3. v = SubSeq(u, 1, Len(u) - 1)
    BY DEF Front
<1>4. v \in Seq(On(u)) /\ Len(v) = Len(u) - 1 /\ \A i \in 1..Len(v) : v[i] = u[i]
    <2> DEFINE S == On(u)
               n == Len(u) - 1
    <2>1. n \in Nat /\ n \in Int /\ \A i \in 1..n : u[i] \in S
        BY <1>1, ElementOfSeq
    <2>2. v = SubSeq(u, 1, n)
        BY <1>3
    <2> HIDE DEF S, n
    <2>3. v \in Seq(S) /\ Len(v) = (IF 1 <= n THEN (n - 1) + 1 ELSE 0) /\ \A i \in 1..(n - 1) + 1 : v[i] = u[(1 + i) - 1]
        BY <2>1, <2>2, SubSeqProperties
    <2>4. Len(v) = n /\ \A i \in 1..n : v[i] = u[i]
        BY <2>1, <2>3
    <2> QED
        BY <2>3, <2>4 DEF S, n
<1>5. v \in Seq(On(v))
    BY <1>4, OwnElements
<1> QED
    BY <1>1, <1>2, <1>4, <1>5

\* The empty stack.
LEMMA NoneOn ==
    <<>> \in Seq(On(<<>>)) /\ Len(<<>>) = 0
OBVIOUS

\* Only the version and the text of the document matter.
LEMMA StackedSame ==
    ASSUME NEW u, NEW r, NEW d, Stacked(u, d, r), NEW e, e.version = d.version, e.text = d.text
    PROVE  Stacked(u, e, r)
BY DEF Stacked, Before

\* An edit puts a snapshot of the document on the stack of undo.
LEMMA EditStacked ==
    ASSUME NEW u, NEW r, NEW d, Stacked(u, d, r), d.version \in Nat, NEW s, Kept(s), s.version = d.version, s.text = d.text,
           NEW e, e.version = d.version + 1
    PROVE  Stacked(Append(u, s), e, <<>>)
<1> DEFINE v == Push(u, s)
           z == <<>>
<1>1. /\ v \in Seq(On(v)) /\ Len(u) \in Nat /\ Len(v) = Len(u) + 1 /\ v[Len(v)] = s
      /\ \A i \in 1..Len(v) : i # Len(v) => i \in 1..Len(u) /\ v[i] = u[i]
    <2>1. u \in Seq(On(u)) /\ v = Push(u, s)
        BY DEF Stacked
    <2> HIDE DEF v
    <2> QED
        BY <2>1, Pushed
<1>2. z \in Seq(On(z)) /\ Len(z) = 0
    BY NoneOn
<1> HIDE DEF v, z
<1>3. ASSUME NEW i \in 1..Len(u) PROVE Kept(u[i]) /\ Before(u[i], d) /\ Before(u[i], s) /\ Before(u[i], e)
    <2>1. Kept(u[i]) /\ Before(u[i], d) /\ u[i].version \in Nat
        BY KeptGood DEF Stacked
    <2> QED
        BY <2>1 DEF Before
<1>4. Before(s, e)
    BY DEF Before
<1>5. ASSUME NEW i \in 1..Len(v) PROVE Kept(v[i]) /\ Before(v[i], e)
    <2>1. CASE i = Len(v)
        BY <1>1, <1>4, <2>1
    <2>2. CASE i # Len(v)
        BY <1>1, <1>3, <2>2
    <2> QED
        BY <2>1, <2>2
<1>6. ASSUME NEW i \in 1..Len(v), NEW j \in 1..Len(v), i < j PROVE Before(v[i], v[j])
    <2>1. i # Len(v) /\ i \in 1..Len(u) /\ v[i] = u[i]
        BY <1>1, <1>6
    <2>2. CASE j = Len(v)
        BY <1>1, <1>3, <2>1, <2>2
    <2>3. CASE j # Len(v)
        <3>1. j \in 1..Len(u) /\ v[j] = u[j]
            BY <1>1, <2>3
        <3> QED
            BY <1>6, <2>1, <3>1 DEF Stacked
    <2> QED
        BY <2>2, <2>3
<1>7. 1..Len(z) = {}
    BY <1>2
<1>8. Stacked(v, e, z)
    BY <1>1, <1>2, <1>5, <1>6, <1>7 DEF Stacked
<1> QED
    BY <1>8 DEF v, z, Push

\* Undo: the document goes on the stack of redo, and the last undo, or an empty
\* text with the version that was there, takes its place.
LEMMA UndoStacked ==
    ASSUME NEW u, NEW r, NEW d, Stacked(u, d, r), u # <<>>, NEW s, Kept(s), s.version = d.version, s.text = d.text,
           NEW e, \A x : Before(x, Last(u)) /\ Before(x, d) => Before(x, e),
           \A x : Before(Last(u), x) /\ Before(d, x) => Before(e, x), Before(e, d)
    PROVE  Stacked(Front(u), e, Append(r, s))
<1> DEFINE v == Push(r, s)
           f == Front(u)
<1>1. /\ v \in Seq(On(v)) /\ Len(r) \in Nat /\ Len(v) = Len(r) + 1 /\ v[Len(v)] = s
      /\ \A i \in 1..Len(v) : i # Len(v) => i \in 1..Len(r) /\ v[i] = r[i]
    <2>1. r \in Seq(On(r)) /\ v = Push(r, s)
        BY DEF Stacked
    <2> HIDE DEF v
    <2> QED
        BY <2>1, Pushed
<1>2. /\ f \in Seq(On(f)) /\ Len(u) \in Nat /\ Len(u) >= 1 /\ Len(f) = Len(u) - 1 /\ Last(u) = u[Len(u)]
      /\ \A i \in 1..Len(f) : i \in 1..Len(u) /\ i < Len(u) /\ f[i] = u[i]
    BY Popped DEF Stacked
<1> HIDE DEF v, f
<1>3. Len(u) \in 1..Len(u)
    BY <1>2
<1>4. ASSUME NEW i \in 1..Len(f) PROVE Kept(f[i]) /\ Before(f[i], e) /\ Before(f[i], s)
    <2>1. i \in 1..Len(u) /\ i < Len(u) /\ f[i] = u[i]
        BY <1>2
    <2>2. Kept(u[i]) /\ Before(u[i], d) /\ Before(u[i], u[Len(u)])
        BY <1>3, <2>1 DEF Stacked
    <2>3. Before(u[i], s)
        BY <2>2 DEF Before
    <2> QED
        BY <1>2, <2>1, <2>2, <2>3
<1>5. ASSUME NEW i \in 1..Len(r) PROVE Kept(r[i]) /\ Before(e, r[i]) /\ Before(s, r[i])
    <2>1. Kept(r[i]) /\ Before(d, r[i]) /\ Before(u[Len(u)], r[i])
        BY <1>3 DEF Stacked
    <2>2. Before(s, r[i])
        BY <2>1 DEF Before
    <2> QED
        BY <1>2, <2>1, <2>2
<1>6. Before(e, s)
    BY DEF Before
<1>7. ASSUME NEW i \in 1..Len(v) PROVE Kept(v[i]) /\ Before(e, v[i])
    <2>1. CASE i = Len(v)
        BY <1>1, <1>6, <2>1
    <2>2. CASE i # Len(v)
        BY <1>1, <1>5, <2>2
    <2> QED
        BY <2>1, <2>2
<1>8. ASSUME NEW i \in 1..Len(v), NEW j \in 1..Len(v), i < j PROVE Before(v[j], v[i])
    <2>1. i # Len(v) /\ i \in 1..Len(r) /\ v[i] = r[i]
        BY <1>1, <1>8
    <2>2. CASE j = Len(v)
        BY <1>1, <1>5, <2>1, <2>2
    <2>3. CASE j # Len(v)
        <3>1. j \in 1..Len(r) /\ v[j] = r[j]
            BY <1>1, <2>3
        <3> QED
            BY <1>8, <2>1, <3>1 DEF Stacked
    <2> QED
        BY <2>2, <2>3
<1>9. \A i, j \in 1..Len(f) : i < j => Before(f[i], f[j])
    BY <1>2 DEF Stacked
<1>10. ASSUME NEW i \in 1..Len(f), NEW j \in 1..Len(v) PROVE Before(f[i], v[j])
    <2>1. CASE j = Len(v)
        BY <1>1, <1>4, <2>1
    <2>2. CASE j # Len(v)
        <3>1. j \in 1..Len(r) /\ v[j] = r[j] /\ i \in 1..Len(u) /\ f[i] = u[i]
            BY <1>1, <1>2, <2>2
        <3> QED
            BY <3>1 DEF Stacked
    <2> QED
        BY <2>1, <2>2
<1>11. Stacked(f, e, v)
    BY <1>1, <1>2, <1>4, <1>7, <1>8, <1>9, <1>10 DEF Stacked
<1> QED
    BY <1>11 DEF v, f, Push

\* Redo is the same the other way round.
LEMMA RedoStacked ==
    ASSUME NEW u, NEW r, NEW d, Stacked(u, d, r), r # <<>>, NEW s, Kept(s), s.version = d.version, s.text = d.text,
           NEW e, \A x : Before(x, Last(r)) /\ Before(x, d) => Before(x, e),
           \A x : Before(Last(r), x) /\ Before(d, x) => Before(e, x), Before(d, e)
    PROVE  Stacked(Append(u, s), e, Front(r))
<1> DEFINE v == Push(u, s)
           f == Front(r)
<1>1. /\ v \in Seq(On(v)) /\ Len(u) \in Nat /\ Len(v) = Len(u) + 1 /\ v[Len(v)] = s
      /\ \A i \in 1..Len(v) : i # Len(v) => i \in 1..Len(u) /\ v[i] = u[i]
    <2>1. u \in Seq(On(u)) /\ v = Push(u, s)
        BY DEF Stacked
    <2> HIDE DEF v
    <2> QED
        BY <2>1, Pushed
<1>2. /\ f \in Seq(On(f)) /\ Len(r) \in Nat /\ Len(r) >= 1 /\ Len(f) = Len(r) - 1 /\ Last(r) = r[Len(r)]
      /\ \A i \in 1..Len(f) : i \in 1..Len(r) /\ i < Len(r) /\ f[i] = r[i]
    BY Popped DEF Stacked
<1> HIDE DEF v, f
<1>3. Len(r) \in 1..Len(r)
    BY <1>2
<1>4. ASSUME NEW i \in 1..Len(f) PROVE Kept(f[i]) /\ Before(e, f[i]) /\ Before(s, f[i])
    <2>1. i \in 1..Len(r) /\ i < Len(r) /\ f[i] = r[i]
        BY <1>2
    <2>2. Kept(r[i]) /\ Before(d, r[i]) /\ Before(r[Len(r)], r[i])
        BY <1>3, <2>1 DEF Stacked
    <2>3. Before(s, r[i])
        BY <2>2 DEF Before
    <2> QED
        BY <1>2, <2>1, <2>2, <2>3
<1>5. ASSUME NEW i \in 1..Len(u) PROVE Kept(u[i]) /\ Before(u[i], e) /\ Before(u[i], s)
    <2>1. Kept(u[i]) /\ Before(u[i], d) /\ Before(u[i], r[Len(r)])
        BY <1>3 DEF Stacked
    <2>2. Before(u[i], s)
        BY <2>1 DEF Before
    <2> QED
        BY <1>2, <2>1, <2>2
<1>6. Before(s, e)
    BY DEF Before
<1>7. ASSUME NEW i \in 1..Len(v) PROVE Kept(v[i]) /\ Before(v[i], e)
    <2>1. CASE i = Len(v)
        BY <1>1, <1>6, <2>1
    <2>2. CASE i # Len(v)
        BY <1>1, <1>5, <2>2
    <2> QED
        BY <2>1, <2>2
<1>8. ASSUME NEW i \in 1..Len(v), NEW j \in 1..Len(v), i < j PROVE Before(v[i], v[j])
    <2>1. i # Len(v) /\ i \in 1..Len(u) /\ v[i] = u[i]
        BY <1>1, <1>8
    <2>2. CASE j = Len(v)
        BY <1>1, <1>5, <2>1, <2>2
    <2>3. CASE j # Len(v)
        <3>1. j \in 1..Len(u) /\ v[j] = u[j]
            BY <1>1, <2>3
        <3> QED
            BY <1>8, <2>1, <3>1 DEF Stacked
    <2> QED
        BY <2>2, <2>3
<1>9. \A i, j \in 1..Len(f) : i < j => Before(f[j], f[i])
    BY <1>2 DEF Stacked
<1>10. ASSUME NEW i \in 1..Len(v), NEW j \in 1..Len(f) PROVE Before(v[i], f[j])
    <2>1. CASE i = Len(v)
        BY <1>1, <1>4, <2>1
    <2>2. CASE i # Len(v)
        <3>1. i \in 1..Len(u) /\ v[i] = u[i] /\ j \in 1..Len(r) /\ f[j] = r[j]
            BY <1>1, <1>2, <2>2
        <3> QED
            BY <3>1 DEF Stacked
    <2> QED
        BY <2>1, <2>2
<1>11. Stacked(v, e, f)
    BY <1>1, <1>2, <1>4, <1>7, <1>8, <1>9, <1>10 DEF Stacked
<1> QED
    BY <1>11 DEF v, f, Push

(* The actions. *)

\* What the inductive invariant says of the warmup.
WarmInv == Good(doc) /\ Warm(warm) /\ Flights(flight) /\ Linked(doc, warm, flight) /\ Going(doc, warm)

\* The state as the operations of the warmup take it.
LEMMA StateSteady ==
    ASSUME WarmInv
    PROVE  Steady(State) /\ Going(State.doc, State.warm) /\ State.doc = doc /\ State.warm = warm /\ State.flight = flight
           /\ DOMAIN State = Parts
BY DEF WarmInv, Steady, Whole, State, Parts

\* ... and as they leave it.
LEMMA BecomesSteady ==
    ASSUME NEW w, Steady(w), Going(w.doc, w.warm), Becomes(w)
    PROVE  WarmInv'
BY DEF WarmInv, Steady, Whole, Becomes

\* A document is adopted and its warmup asked for.  Either it is the one that was
\* there, or it has no reservation and the tasks of the editor, if there are any,
\* belong to another version.
LEMMA CommitIs ==
    ASSUME WarmInv, NEW d, Good(d),
           \/ d = doc
           \/ d.reserved = {} /\ (Known(d) \/ warm.tasks = {} \/ warm.id # d.id \/ warm.version # d.version),
           Commit(d)
    PROVE  WarmInv' /\ doc'.id = d.id /\ doc'.text = d.text /\ doc'.version = d.version
<1> DEFINE w == Holding(State, d)
<1>1. DOMAIN w = Parts /\ w.doc = d /\ w.warm = warm /\ w.flight = flight
    BY StateSteady DEF Holding, Parts
<1>2. PICK cursor \in Cursors(d) : Becomes(Scheduled(w, cursor))
    BY DEF Commit, Holding
<1> HIDE DEF w
<1>3. cursor \in Int
    <2>1. Len(d.text) \in Nat
        BY BreaksAre DEF Good, WellTyped
    <2>2. Len(d.text) \div 2 \in Int /\ Len(d.text) \in Int
        BY <2>1
    <2> QED
        BY <2>2 DEF Cursors
<1>4. Whole(w)
    BY <1>1 DEF Whole, WarmInv
<1>5. \/ Linked(w.doc, w.warm, w.flight)
      \/ w.doc.reserved = {} /\ (Known(w.doc) \/ ~SameSource(w))
    <2>1. d = doc => Linked(w.doc, w.warm, w.flight)
        BY <1>1 DEF WarmInv
    <2>2. d.reserved = {} /\ warm.tasks = {} => Linked(w.doc, w.warm, w.flight)
        BY <1>1, NoTasks
    <2> QED
        BY <1>1, <2>1, <2>2 DEF SameSource
<1> DEFINE c == Scheduled(w, cursor)
<1>6. /\ Steady(c) /\ Going(c.doc, c.warm)
      /\ c.doc.id = w.doc.id /\ c.doc.text = w.doc.text /\ c.doc.version = w.doc.version
    BY <1>3, <1>4, <1>5, ScheduledIs
<1>7. Becomes(c)
    BY <1>2
<1> HIDE DEF c
<1>8. WarmInv'
    BY <1>6, <1>7, BecomesSteady
<1>9. doc' = c.doc
    BY <1>7 DEF Becomes
<1> QED
    BY <1>1, <1>6, <1>8, <1>9

\* The snapshots of the document.
LEMMA SnapshotsKept ==
    ASSUME NEW d, Good(d), NEW s \in Snapshots(d)
    PROVE  Kept(s) /\ s.version = d.version /\ s.text = d.text
<1>1. Len(d.text) \in Nat
    BY BreaksAre DEF Good, WellTyped
<1>2. PICK cursor \in 0..Len(d.text) : s = Snapshot(d, cursor)
    <2>1. 0 \in 0..Len(d.text)
        BY <1>1
    <2>2. PICK cursor \in (IF Exact(d) THEN 0..Len(d.text) ELSE {0}) : s = Snapshot(d, cursor)
        BY DEF Snapshots
    <2>3. cursor \in 0..Len(d.text)
        BY <2>1, <2>2
    <2> QED
        BY <2>2, <2>3
<1> QED
    BY <1>2, SnapshotKept

\* The tasks are those of the document's version; an empty text has none.
LEMMA TasksOf ==
    ASSUME WarmInv
    PROVE  /\ warm.tasks # {} => warm.id = doc.id /\ warm.version = doc.version
           /\ doc.text = <<>> => warm.tasks = {}
<1>1. warm.tasks # {} => warm.id = doc.id /\ warm.version = doc.version
    BY DEF WarmInv, Linked
<1>2. ASSUME doc.text = <<>> PROVE warm.tasks = {}
    <2>1. Len(doc.text) = 0
        BY <1>2, EmptyText
    <2>2. \A r \in doc.reserved : r.s \in Nat /\ r.e \in Nat /\ r.s < r.e /\ r.e <= Len(doc.text)
        BY DEF WarmInv, Good, Ledger, Fits
    <2>3. doc.reserved = {}
        BY <2>1, <2>2
    <2> QED
        BY <2>3 DEF WarmInv, Linked, ScanOf
<1> QED
    BY <1>1, <1>2

\* An edit keeps the invariant: the new version is not the one of the tasks.
LEMMA EditKeeps ==
    ASSUME Inv, Edit
    PROVE  Inv'
<1>1. WarmInv /\ Good(doc) /\ Stacked(undos, doc, redos) /\ doc.version \in Nat /\ Len(doc.text) \in Nat
    BY BreaksAre DEF Inv, WarmInv, Good, WellTyped
<1>2. PICK s \in 0..Len(doc.text), x \in Inserts, snapshot \in Snapshots(doc) : \E e \in s..Len(doc.text) :
          /\ e - s + Len(x) \in 1..MaxChange
          /\ Len(doc.text) - (e - s) + Len(x) <= MaxLen
          /\ undos' = Append(undos, snapshot)
          /\ redos' = <<>>
          /\ Commit(Replaced(doc, s, e, x))
    BY DEF Edit
<1>3. PICK e \in s..Len(doc.text) :
          /\ (e - s) + Len(x) \in 1..MaxChange
          /\ (Len(doc.text) - (e - s)) + Len(x) <= MaxLen
          /\ undos' = Append(undos, snapshot)
          /\ redos' = <<>>
          /\ Commit(Replaced(doc, s, e, x))
    BY <1>2
<1>4. x \in Seq(Char)
    BY LineIndexAssumption DEF Char
<1>5. s \in Nat /\ e \in Nat /\ s <= e /\ e <= Len(doc.text) /\ (e - s) + Len(x) >= 1
    BY <1>1, <1>3, LineIndexAssumption
<1> DEFINE d == Replaced(doc, s, e, x)
<1>6. Kept(d) /\ d.id = doc.id /\ d.version = doc.version + 1
    BY <1>1, <1>3, <1>4, <1>5, ReplacedKept
<1>7. Commit(d)
    BY <1>3
<1> HIDE DEF d
<1>8. Good(d) /\ d.reserved = {}
    BY <1>6, KeptGood DEF Empty
<1>9. warm.tasks = {} \/ warm.version # d.version
    BY <1>1, <1>6, TasksOf
<1>10. WarmInv' /\ doc'.text = d.text /\ doc'.version = d.version
    BY <1>1, <1>7, <1>8, <1>9, CommitIs
<1>11. Kept(snapshot) /\ snapshot.version = doc.version /\ snapshot.text = doc.text
    BY <1>1, SnapshotsKept
<1>12. Stacked(undos', doc', redos')
    <2>1. doc'.version = doc.version + 1
        BY <1>6, <1>10
    <2>2. Stacked(Append(undos, snapshot), doc', <<>>)
        BY <1>1, <1>11, <2>1, EditStacked
    <2> QED
        BY <1>3, <2>2
<1> QED
    BY <1>10, <1>12 DEF Inv, WarmInv

\* Loading a file keeps the invariant: the new document is not the one of the tasks.
LEMMA LoadFileKeeps ==
    ASSUME Inv, LoadFile
    PROVE  Inv'
<1>1. WarmInv /\ doc.id \in Nat
    BY DEF Inv, WarmInv, Good, WellTyped
<1>2. PICK t \in Loads : Commit(Loaded(doc.id + 1, t))
    BY DEF LoadFile
<1>3. t \in Seq(Char) /\ Len(t) <= MaxLen /\ doc.id + 1 \in Nat
    BY <1>1, LineIndexAssumption DEF Char
<1> DEFINE d == Loaded(doc.id + 1, t)
<1>4. Kept(d) /\ d.id = doc.id + 1
    BY <1>3, LoadedKept
<1>5. Commit(d)
    BY <1>2
<1> HIDE DEF d
<1>6. Good(d) /\ d.reserved = {}
    BY <1>4, KeptGood DEF Empty
<1>7. warm.tasks = {} \/ warm.id # d.id
    BY <1>1, <1>4, TasksOf
<1>8. WarmInv'
    BY <1>1, <1>5, <1>6, <1>7, CommitIs
<1>9. Stacked(undos', doc', redos')
    <2> DEFINE z == <<>>
    <2>1. z \in Seq(On(z)) /\ Len(z) = 0 /\ undos' = z /\ redos' = z
        BY NoneOn DEF LoadFile
    <2> HIDE DEF z
    <2>2. 1..Len(z) = {}
        BY <2>1
    <2> QED
        BY <2>1, <2>2 DEF Stacked
<1> QED
    BY <1>8, <1>9 DEF Inv, WarmInv

\* Moving the cursor keeps the invariant.
LEMMA MoveCursorKeeps ==
    ASSUME Inv, MoveCursor
    PROVE  Inv'
<1>1. WarmInv /\ Good(doc) /\ Stacked(undos, doc, redos) /\ Commit(doc) /\ undos' = undos /\ redos' = redos
    BY DEF Inv, WarmInv, MoveCursor
<1>2. WarmInv' /\ doc'.text = doc.text /\ doc'.version = doc.version
    BY <1>1, CommitIs
<1>3. Stacked(undos, doc', redos)
    BY <1>1, <1>2, StackedSame
<1> QED
    BY <1>1, <1>2, <1>3 DEF Inv, WarmInv

\* A query keeps the invariant: the index is complete, the ledger as it was.
LEMMA QueryKeeps ==
    ASSUME Inv, QueryLineCount
    PROVE  Inv'
<1>1. Good(doc) /\ ~doc.complete /\ Stacked(undos, doc, redos) /\ Linked(doc, warm, flight)
    BY DEF Inv, QueryLineCount, Known
<1>2. PICK stride : doc' = Complete(doc, stride)
    BY DEF QueryLineCount
<1>3. warm' = warm /\ flight' = flight /\ undos' = undos /\ redos' = redos
    BY DEF QueryLineCount
<1>4. /\ Good(doc') /\ doc'.complete = TRUE
      /\ doc'.text = doc.text /\ doc'.id = doc.id /\ doc'.version = doc.version /\ doc'.reserved = doc.reserved
    <2> DEFINE c == Complete(doc, stride)
    <2>1. /\ Good(c) /\ (~doc.complete => c.complete = TRUE)
          /\ c.text = doc.text /\ c.id = doc.id /\ c.version = doc.version /\ c.reserved = doc.reserved
        <3>1. Good(doc)
            BY <1>1
        <3> QED
            BY <3>1, CompleteIs, Zenon
    <2>2. doc' = c
        BY <1>2
    <2> HIDE DEF c
    <2> QED
        BY <1>1, <2>1, <2>2
<1>5. Linked(doc', warm, flight)
    BY <1>1, <1>4 DEF Linked, ScanOf
<1>6. Going(doc', warm)
    BY <1>4 DEF Going, Known
<1>7. Stacked(undos, doc', redos)
    BY <1>1, <1>4, StackedSame
<1> QED
    BY <1>3, <1>4, <1>5, <1>6, <1>7 DEF Inv

\* A result keeps the invariant.
LEMMA CompletedKeeps ==
    ASSUME Inv, NEW f \in flight, Completed(f)
    PROVE  Inv'
<1>1. WarmInv /\ Stacked(undos, doc, redos)
    BY DEF Inv, WarmInv
<1> DEFINE w == State
           b == Without(w, f)
           c == Applied(b, f)
<1>2. Steady(w) /\ Going(w.doc, w.warm) /\ f \in w.flight /\ w.doc = doc
    BY <1>1, StateSteady
<1>3. Becomes(c) /\ undos' = undos /\ redos' = redos
    BY <1>2 DEF Completed, Without
<1> HIDE DEF w
<1>4. /\ Steady(c) /\ Going(c.doc, c.warm)
      /\ c.doc.id = w.doc.id /\ c.doc.text = w.doc.text /\ c.doc.version = w.doc.version
    BY <1>2, AppliedIs
<1> HIDE DEF c
<1>5. WarmInv'
    BY <1>3, <1>4, BecomesSteady
<1>6. doc'.text = doc.text /\ doc'.version = doc.version
    BY <1>2, <1>3, <1>4 DEF Becomes
<1>7. Stacked(undos, doc', redos)
    BY <1>1, <1>6, StackedSame
<1> QED
    BY <1>3, <1>5, <1>7 DEF Inv, WarmInv

\* A cancelled scan keeps the invariant: no task is left for it.
LEMMA CancelledKeeps ==
    ASSUME Inv, NEW f \in flight, Cancelled(f)
    PROVE  Inv'
<1>1. WarmInv /\ Stacked(undos, doc, redos) /\ Going(doc, warm)
    BY DEF Inv, WarmInv
<1> DEFINE w == State
           b == Without(w, f)
           c == ClearTask(b, f.id)
<1>2. Steady(w) /\ f \in w.flight /\ w.doc = doc /\ w.warm = warm
    BY <1>1, StateSteady
<1>3. Becomes(c) /\ undos' = undos /\ redos' = redos /\ f.cancelled
    BY <1>2 DEF Cancelled, Without
<1>4. ASSUME NEW t \in warm.tasks, t.id = f.id PROVE FALSE
    <2>1. PICK g \in flight : g.id = t.id /\ ~g.cancelled
        BY <1>1 DEF WarmInv, Linked, ScanOf
    <2>2. g = f
        BY <1>1, <1>4, <2>1 DEF WarmInv, Flights
    <2> QED
        BY <1>3, <2>1, <2>2
<1>5. \A t \in w.warm.tasks : t.id # f.id
    BY <1>2, <1>4
<1> HIDE DEF w
<1>6. Steady(c) /\ SameText(c.doc, w.doc) /\ c.warm = w.warm
    BY <1>2, <1>5, ForeignOver
<1> HIDE DEF c
<1>7. Going(c.doc, c.warm)
    BY <1>1, <1>2, <1>6 DEF Going, Known, Exact, SameText
<1>8. WarmInv'
    BY <1>3, <1>6, <1>7, BecomesSteady
<1>9. doc'.text = doc.text /\ doc'.version = doc.version
    BY <1>2, <1>3, <1>6 DEF Becomes, SameText
<1>10. Stacked(undos, doc', redos)
    BY <1>1, <1>9, StackedSame
<1> QED
    BY <1>3, <1>8, <1>10 DEF Inv, WarmInv

\* What is restored stands in the order of versions where the snapshot stood, or
\* where the document does.
LEMMA RestoredOrder ==
    ASSUME NEW d, Good(d), NEW s, Kept(s), NEW e, e = Restored(d, s)
    PROVE  /\ \A x : Before(x, s) /\ Before(x, d) => Before(x, e)
           /\ \A x : Before(s, x) /\ Before(d, x) => Before(e, x)
           /\ Before(s, d) => Before(e, d)
           /\ Before(d, s) => Before(d, e)
<1>1. /\ s.text # <<>> => e = s
      /\ s.text = <<>> /\ d.text = <<>> => e = d
      /\ s.text = <<>> /\ d.text # <<>> => e.version = d.version /\ e.text = <<>>
    BY RestoredKept
<1>2. d.version \in Nat /\ s.version \in Nat
    BY KeptGood DEF Good, WellTyped
<1> DEFINE z == <<>>
<1>3. /\ s.text # z => e = s
      /\ s.text = z /\ d.text = z => e = d
      /\ s.text = z /\ d.text # z => e.version = d.version /\ e.text = z
    BY <1>1
<1>4. \A a, b : Before(a, b) <=> a.version <= b.version /\ (a.text # z /\ b.text # z => a.version < b.version)
    BY DEF Before
<1> HIDE DEF z
<1>5. CASE s.text # z
    BY <1>3, <1>5
<1>6. CASE s.text = z /\ d.text = z
    <2>1. Before(d, d)
        BY <1>2, <1>4, <1>6
    <2> QED
        BY <1>3, <1>6, <2>1
<1>7. CASE s.text = z /\ d.text # z
    <2>1. e.version = d.version /\ e.text = z
        BY <1>3, <1>7
    <2>2. \A x : Before(x, d) => Before(x, e)
        BY <1>4, <2>1
    <2>3. \A x : Before(d, x) => Before(e, x)
        BY <1>4, <2>1
    <2>4. Before(e, d) /\ Before(d, e)
        BY <1>2, <1>4, <2>1
    <2> QED
        BY <2>2, <2>3, <2>4
<1> QED
    BY <1>5, <1>6, <1>7

\* Undo and redo: what is restored can take the place of the document.  A text
\* that comes back has another version than the one there, which the tasks of
\* the editor belong to.
LEMMA RestoredFits ==
    ASSUME WarmInv, NEW s, Kept(s), Before(s, doc) \/ Before(doc, s), NEW e, e = Restored(doc, s)
    PROVE  /\ Good(e)
           /\ \/ e = doc
              \/ e.reserved = {} /\ (Known(e) \/ warm.tasks = {} \/ warm.id # e.id \/ warm.version # e.version)
<1>0. Good(doc)
    BY DEF WarmInv
<1>1. /\ s.text # <<>> => e = s
      /\ s.text = <<>> /\ doc.text = <<>> => e = doc
      /\ s.text = <<>> /\ doc.text # <<>> => Kept(e) /\ Known(e)
    BY <1>0, RestoredKept
<1>2. CASE s.text # <<>>
    <2>1. e = s
        BY <1>1, <1>2
    <2>2. Good(s) /\ s.reserved = {} /\ s.version \in Nat
        BY KeptGood DEF Empty
    <2>3. warm.tasks = {} \/ warm.version # s.version
        <3>1. CASE doc.text = <<>>
            BY <3>1, TasksOf
        <3>2. CASE doc.text # <<>>
            <4>1. doc.version \in Nat
                BY <1>0 DEF Good, WellTyped
            <4>2. s.version < doc.version \/ doc.version < s.version
                BY <1>2, <3>2 DEF Before
            <4>3. s.version # doc.version
                BY <2>2, <4>1, <4>2
            <4> QED
                BY <4>3, TasksOf
        <3> QED
            BY <3>1, <3>2
    <2> QED
        BY <2>1, <2>2, <2>3
<1>3. CASE s.text = <<>> /\ doc.text = <<>>
    BY <1>0, <1>1, <1>3
<1>4. CASE s.text = <<>> /\ doc.text # <<>>
    <2>1. Kept(e) /\ Known(e)
        BY <1>1, <1>4
    <2>2. Good(e) /\ e.reserved = {}
        BY <2>1, KeptGood DEF Empty
    <2> QED
        BY <2>1, <2>2
<1> QED
    BY <1>2, <1>3, <1>4

\* Undo keeps the invariant.
LEMMA UndoKeeps ==
    ASSUME Inv, Undo
    PROVE  Inv'
<1>1. WarmInv /\ Good(doc) /\ Stacked(undos, doc, redos)
    BY DEF Inv, WarmInv
<1>2. undos # <<>> /\ undos' = Front(undos) /\ Commit(Restored(doc, Last(undos)))
    BY DEF Undo
<1>3. PICK snapshot \in Snapshots(doc) : redos' = Append(redos, snapshot)
    BY DEF Undo
<1> DEFINE s == Last(undos)
           e == Restored(doc, s)
<1>4. Kept(s) /\ Before(s, doc)
    <2>1. undos \in Seq(On(undos))
        BY <1>1 DEF Stacked
    <2>2. Len(undos) \in Nat /\ Len(undos) >= 1
        BY <1>2, <2>1
    <2>3. Len(undos) \in 1..Len(undos)
        BY <2>2
    <2>4. Kept(undos[Len(undos)]) /\ Before(undos[Len(undos)], doc)
        BY <1>1, <2>3 DEF Stacked
    <2> QED
        BY <2>4 DEF Last
<1>5. Commit(e)
    BY <1>2
<1> HIDE DEF s
<1>6. /\ \A x : Before(x, s) /\ Before(x, doc) => Before(x, e)
      /\ \A x : Before(s, x) /\ Before(doc, x) => Before(e, x)
      /\ Before(e, doc)
    BY <1>1, <1>4, RestoredOrder
<1>7. /\ Good(e)
      /\ \/ e = doc
         \/ e.reserved = {} /\ (Known(e) \/ warm.tasks = {} \/ warm.id # e.id \/ warm.version # e.version)
    BY <1>1, <1>4, RestoredFits
<1> HIDE DEF e
<1>8. WarmInv' /\ doc'.text = e.text /\ doc'.version = e.version
    BY <1>1, <1>5, <1>7, CommitIs
<1>9. Kept(snapshot) /\ snapshot.version = doc.version /\ snapshot.text = doc.text
    BY <1>1, SnapshotsKept
<1>10. Stacked(Front(undos), e, Append(redos, snapshot))
    <2>1. /\ \A x : Before(x, Last(undos)) /\ Before(x, doc) => Before(x, e)
          /\ \A x : Before(Last(undos), x) /\ Before(doc, x) => Before(e, x)
        BY <1>6 DEF s
    <2> QED
        BY <1>1, <1>2, <1>6, <1>9, <2>1, UndoStacked
<1>11. Stacked(undos', e, redos')
    BY <1>2, <1>3, <1>10
<1>12. Stacked(undos', doc', redos')
    BY <1>8, <1>11, StackedSame
<1> QED
    BY <1>8, <1>12 DEF Inv, WarmInv

\* Redo keeps the invariant.
LEMMA RedoKeeps ==
    ASSUME Inv, Redo
    PROVE  Inv'
<1>1. WarmInv /\ Good(doc) /\ Stacked(undos, doc, redos)
    BY DEF Inv, WarmInv
<1>2. redos # <<>> /\ redos' = Front(redos) /\ Commit(Restored(doc, Last(redos)))
    BY DEF Redo
<1>3. PICK snapshot \in Snapshots(doc) : undos' = Append(undos, snapshot)
    BY DEF Redo
<1> DEFINE s == Last(redos)
           e == Restored(doc, s)
<1>4. Kept(s) /\ Before(doc, s)
    <2>1. redos \in Seq(On(redos))
        BY <1>1 DEF Stacked
    <2>2. Len(redos) \in Nat /\ Len(redos) >= 1
        BY <1>2, <2>1
    <2>3. Len(redos) \in 1..Len(redos)
        BY <2>2
    <2>4. Kept(redos[Len(redos)]) /\ Before(doc, redos[Len(redos)])
        BY <1>1, <2>3 DEF Stacked
    <2> QED
        BY <2>4 DEF Last
<1>5. Commit(e)
    BY <1>2
<1> HIDE DEF s
<1>6. /\ \A x : Before(x, s) /\ Before(x, doc) => Before(x, e)
      /\ \A x : Before(s, x) /\ Before(doc, x) => Before(e, x)
      /\ Before(doc, e)
    BY <1>1, <1>4, RestoredOrder
<1>7. /\ Good(e)
      /\ \/ e = doc
         \/ e.reserved = {} /\ (Known(e) \/ warm.tasks = {} \/ warm.id # e.id \/ warm.version # e.version)
    BY <1>1, <1>4, RestoredFits
<1> HIDE DEF e
<1>8. WarmInv' /\ doc'.text = e.text /\ doc'.version = e.version
    BY <1>1, <1>5, <1>7, CommitIs
<1>9. Kept(snapshot) /\ snapshot.version = doc.version /\ snapshot.text = doc.text
    BY <1>1, SnapshotsKept
<1>10. Stacked(Append(undos, snapshot), e, Front(redos))
    <2>1. /\ \A x : Before(x, Last(redos)) /\ Before(x, doc) => Before(x, e)
          /\ \A x : Before(Last(redos), x) /\ Before(doc, x) => Before(e, x)
        BY <1>6 DEF s
    <2> QED
        BY <1>1, <1>2, <1>6, <1>9, <2>1, RedoStacked
<1>11. Stacked(undos', e, redos')
    BY <1>2, <1>3, <1>10
<1>12. Stacked(undos', doc', redos')
    BY <1>8, <1>11, StackedSame
<1> QED
    BY <1>8, <1>12 DEF Inv, WarmInv

\* The invariant holds for an empty document and for a file just loaded.
LEMMA InitInv ==
    ASSUME Init
    PROVE  Inv
<1>1. Kept(doc)
    <2>1. CASE doc = NewDocument(1)
        BY <2>1, NewKept
    <2>2. CASE \E t \in Loads : doc = Loaded(1, t)
        <3>1. PICK t \in Loads : doc = Loaded(1, t)
            BY <2>2
        <3>2. t \in Seq(Char) /\ Len(t) <= MaxLen
            BY LineIndexAssumption DEF Char
        <3> QED
            BY <3>1, <3>2, LoadedKept
    <2> QED
        BY <2>1, <2>2 DEF Init
<1>2. Good(doc) /\ doc.reserved = {}
    BY <1>1, KeptGood DEF Empty
<1>3. warm = Idle /\ flight = {} /\ undos = <<>> /\ redos = <<>>
    BY DEF Init
<1>4. Warm(Idle) /\ Idle.tasks = {}
    BY IdleWarm, Titled(0, 0) = Titled(0, 0)
<1>5. Flights(flight)
    BY <1>3, FS_EmptySet DEF Flights
<1>6. Linked(doc, warm, flight)
    BY <1>2, <1>3, <1>4, NoTasks
<1>7. Going(doc, warm)
    BY <1>3 DEF Going
<1>8. Stacked(undos, doc, redos)
    <2> DEFINE z == <<>>
    <2>1. z \in Seq(On(z)) /\ Len(z) = 0 /\ undos = z /\ redos = z
        BY <1>3, NoneOn
    <2> HIDE DEF z
    <2>2. 1..Len(z) = {}
        BY <2>1
    <2> QED
        BY <2>1, <2>2 DEF Stacked
<1> QED
    BY <1>2, <1>3, <1>4, <1>5, <1>6, <1>7, <1>8 DEF Inv

\* Every step keeps the invariant.
LEMMA NextInv ==
    ASSUME Inv, [Next]_vars
    PROVE  Inv'
<1>1. CASE Edit
    BY <1>1, EditKeeps
<1>2. CASE Undo
    BY <1>2, UndoKeeps
<1>3. CASE Redo
    BY <1>3, RedoKeeps
<1>4. CASE LoadFile
    BY <1>4, LoadFileKeeps
<1>5. CASE MoveCursor
    BY <1>5, MoveCursorKeeps
<1>6. CASE QueryLineCount
    BY <1>6, QueryKeeps
<1>7. CASE \E f \in flight : Completed(f)
    BY <1>7, CompletedKeeps
<1>8. CASE \E f \in flight : Cancelled(f)
    BY <1>8, CancelledKeeps
<1>9. CASE UNCHANGED vars
    BY <1>9 DEF vars, Inv
<1> QED
    BY <1>1, <1>2, <1>3, <1>4, <1>5, <1>6, <1>7, <1>8, <1>9 DEF Next

\* The inductive invariant holds in every state.
THEOREM Invariance == Spec => []Inv
<1>1. Init => Inv
    BY InitInv
<1>2. Inv /\ [Next]_vars => Inv'
    BY NextInv
<1> QED
    BY <1>1, <1>2, PTL DEF Spec

(* The properties. *)

\* The exact index: the lines that start at or before an offset, without the first.
LEMMA ExactLine ==
    ASSUME NEW t \in Seq(Char), NEW D, D = {0} \cup Breaks(t), NEW o \in Nat
    PROVE  Cardinality({s \in D : s <= o}) - 1 = Lines(t, o)
<1> DEFINE W == Within(t, 0, o)
<1>1. \A b \in Breaks(t) : b \in Nat /\ b > 0
    BY BreaksAre
<1>2. {s \in D : s <= o} = W \cup {0}
    BY <1>1 DEF Within
<1>3. 0 \notin W
    BY <1>1 DEF Within
<1>4. IsFiniteSet(W) /\ Cardinality(W) \in Nat
    BY BreaksAre
<1>5. Lines(t, o) = Cardinality(W)
    BY DEF Lines
<1> HIDE DEF W
<1>6. Cardinality(W \cup {0}) = Cardinality(W) + 1
    BY <1>3, <1>4, FS_AddElement
<1>7. Cardinality({s \in D : s <= o}) = Cardinality(W) + 1
    BY <1>2, <1>6
<1> QED
    BY <1>4, <1>5, <1>7

\* lineIndex() on an exact index.
LEMMA ExactRight ==
    ASSUME NEW d, Good(d), ~d.torn, Exact(d), NEW pos \in 0..Len(d.text)
    PROVE  LineIndexAt(d, pos) = Lines(d.text, pos)
<1> DEFINE t == d.text
           n == Len(t)
           D == d.starts
           at == IF pos = n /\ n > 0 THEN n - 1 ELSE pos
           last == pos = n /\ n > 0 /\ t[n] # "x"
<1>1. t \in Seq(Char) /\ n \in Nat /\ D = {0} \cup Breaks(t)
    BY BreaksAre DEF Good, WellTyped, Right
<1>2. LineIndexAt(d, pos) = IF last THEN Cardinality(D) - 1 ELSE Cardinality({s \in D : s <= at}) - 1
    BY Zenon DEF LineIndexAt
<1>3. pos \in 0..n
    OBVIOUS
<1>4. Breaks(t) \subseteq 1..n
    BY <1>1, BreaksAre
<1> HIDE DEF t, D, n
<1>5. CASE last
    <2>1. {s \in D : s <= n} = D
        BY <1>1, <1>4
    <2>2. Cardinality({s \in D : s <= n}) - 1 = Lines(t, n)
        BY <1>1, ExactLine
    <2> QED
        BY <1>2, <1>5, <2>1, <2>2 DEF t, n
<1>6. CASE ~last
    <2>1. at \in Nat
        BY <1>1, <1>3
    <2>2. Cardinality({s \in D : s <= at}) - 1 = Lines(t, at)
        <3> HIDE DEF at
        <3> QED
            BY <1>1, <2>1, ExactLine
    <2>3. Lines(t, at) = Lines(t, pos)
        <3>1. CASE pos = n /\ n > 0
            <4>1. at = n - 1 /\ t[n] = "x"
                BY <1>6, <3>1
            <4>2. n \notin Breaks(t)
                BY <4>1 DEF Breaks
            <4>3. \A b \in Breaks(t) : b <= n <=> b <= n - 1
                BY <1>1, <1>4, <4>2
            <4>4. Within(t, 0, n - 1) = Within(t, 0, n)
                BY <4>3 DEF Within
            <4> QED
                BY <3>1, <4>1, <4>4 DEF Lines
        <3>2. CASE ~(pos = n /\ n > 0)
            BY <3>2
        <3> QED
            BY <3>1, <3>2
    <2> QED
        BY <1>2, <1>6, <2>2, <2>3 DEF t
<1> QED
    BY <1>5, <1>6

\* A completed index has the number of lines.
LEMMA CompleteTotal ==
    ASSUME NEW d, Good(d), NEW stride, NEW c, c = Complete(d, stride)
    PROVE  ~d.torn /\ ~Exact(d) => c.total = Cardinality(Breaks(d.text)) + 1
<1>1. (~d.torn /\ ~Exact(d) => RightLines(c)) /\ c.text = d.text
    BY CompleteIs
<1>2. c.complete
    <2>1. CASE d.complete
        <3>1. c = d
            BY <2>1 DEF Complete
        <3> QED
            BY <2>1, <3>1
    <2>2. CASE ~d.complete
        BY <2>2, CompleteIs, Zenon
    <2> QED
        BY <2>1, <2>2
<1> QED
    BY <1>1, <1>2 DEF RightLines

\* lineIndex() on a lazy index: the last checkpoint before, and the line ends in
\* between; for the end of the text it is completed.
LEMMA LazyRight ==
    ASSUME NEW d, Good(d), ~d.torn, ~Exact(d), NEW pos \in 0..Len(d.text)
    PROVE  LineIndexAt(d, pos) = Lines(d.text, pos)
<1> DEFINE t == d.text
           n == Len(t)
           below == {c \in d.checks : c[1] <= pos}
           k == Top(below)
<1>1. /\ t \in Seq(Char) /\ n \in Nat /\ RightLines(d)
      /\ d.checks \subseteq (0..n) \X Nat /\ <<0, 0>> \in d.checks
    BY BreaksAre DEF Good, WellTyped, Right
<1>2. LineIndexAt(d, pos) = IF pos = n THEN Complete(d, Stride).total - 1 ELSE k[2] + CountLineBreaks(t, k[1], pos)
    BY Zenon DEF LineIndexAt, Top
<1>3. pos \in 0..n
    OBVIOUS
<1>4. CASE pos = n
    <2> DEFINE c == Complete(d, Stride)
    <2>1. c.total = Cardinality(Breaks(t)) + 1
        BY CompleteTotal
    <2>2. Lines(t, n) = Cardinality(Breaks(t)) /\ Cardinality(Breaks(t)) \in Nat
        <3>1. \A b \in Breaks(t) : b <= n
            BY <1>1, BreaksAre
        <3> HIDE DEF t, n
        <3> QED
            BY <1>1, <3>1, LinesAll, BreaksAre
    <2> HIDE DEF c, t, n
    <2>3. LineIndexAt(d, pos) = c.total - 1
        BY <1>2, <1>4 DEF c
    <2>4. LineIndexAt(d, pos) = Lines(t, pos)
        BY <1>4, <2>1, <2>2, <2>3
    <2> QED
        BY <2>4 DEF t
<1>5. CASE pos # n
    <2>1. below \subseteq (0..n) \X Nat /\ <<0, 0>> \in below
        BY <1>1, <1>3
    <2>2. k \in below
        <3> HIDE DEF below
        <3> QED
            BY <1>1, <2>1, TopIs
    <2>3. k \in d.checks /\ k[1] <= pos
        BY <2>2
    <2>4. k[1] \in {0} \cup Breaks(t) /\ k[2] = Lines(t, k[1])
        BY <1>1, <2>3 DEF RightLines
    <2>5. k[1] \in Nat /\ k[1] \in 0..n /\ k[2] \in Nat
        BY <1>1, <2>3
    <2> HIDE DEF k, t, n
    <2> DEFINE s == k[1]
    <2>6. s \in {0} \cup Breaks(t) /\ pos \in s..n /\ s \in Nat /\ s <= pos /\ pos \in Nat
        BY <1>1, <1>3, <2>3, <2>4, <2>5
    <2>7. CountLineBreaks(t, s, pos) = Cardinality(Within(t, s, pos))
        <3>1. pos \in s..Len(t)
            BY <2>6 DEF n
        <3> HIDE DEF s
        <3> QED
            BY <1>1, <2>6, <3>1, CountIsRight
    <2>8. Lines(t, pos) = Lines(t, s) + Cardinality(Within(t, s, pos))
        <3> HIDE DEF s
        <3> QED
            BY <1>1, <2>6, LinesSum
    <2>9. LineIndexAt(d, pos) = Lines(t, pos)
        BY <1>2, <1>5, <2>4, <2>7, <2>8
    <2> QED
        BY <2>9 DEF t
<1> QED
    BY <1>4, <1>5

\* The index and the ledger lie inside the text.
LEMMA InvTypeOK == Inv => TypeOK
<1> SUFFICES ASSUME Inv PROVE TypeOK
    OBVIOUS
<1>1. WellTyped(doc) /\ Ledger(doc) /\ Len(doc.text) \in Nat
    BY BreaksAre DEF Inv, Good, WellTyped
<1>2. doc.text \in Seq({"x", "r", "n"}) /\ Len(doc.text) <= MaxLen
    BY <1>1 DEF WellTyped, Char
<1>3. {doc.version, doc.id, doc.line, doc.total, doc.nextId} \subseteq Nat
    BY <1>1 DEF WellTyped
<1>4. \A c \in doc.checks : c[1] \in 0..Len(doc.text)
    BY <1>1 DEF WellTyped
<1>5. doc.starts \cup {c[1] : c \in doc.checks} \cup {doc.off} \subseteq 0..Len(doc.text)
    BY <1>1, <1>4 DEF WellTyped
<1>6. \A k \in doc.packets \cup doc.reserved : k.s \in 0..Len(doc.text) /\ k.e \in k.s + 1..Len(doc.text)
    <2>1. \A k \in doc.packets \cup doc.reserved : k.s \in Nat /\ k.e \in Nat /\ k.s < k.e /\ k.e <= Len(doc.text)
        BY <1>1 DEF Ledger, Fits
    <2> QED
        BY <1>1, <2>1
<1> QED
    BY <1>2, <1>3, <1>5, <1>6 DEF TypeOK

\* What the editor would adopt, and what waits to be joined, is a scan of the text.
LEMMA InvScans == Inv => ScansAreCurrent
<1> SUFFICES ASSUME Inv PROVE ScansAreCurrent
    OBVIOUS
<1>1. \A s, e, i : ScanSpan(doc.text, s, e, i).count = Cardinality(Within(doc.text, s, e))
                   /\ ScanSpan(doc.text, s, e, i).s = s /\ ScanSpan(doc.text, s, e, i).e = e
    BY DEF ScanSpan
<1>2. ASSUME NEW p \in doc.packets PROVE p.count = Cardinality(Within(doc.text, p.s, p.e))
    <2>1. p = ScanSpan(doc.text, p.s, p.e, p.res)
        BY DEF Inv, Good, Ledger
    <2> QED
        BY <1>1, <2>1
<1>3. ASSUME NEW g \in flight, NEW t \in warm.tasks, t.id = g.id
      PROVE  g.packet.count = Cardinality(Within(doc.text, g.packet.s, g.packet.e))
    <2>1. PICK f \in flight, r \in doc.reserved : f.id = t.id /\ f.packet = ScanSpan(doc.text, r.s, r.e, r.id)
        BY DEF Inv, Linked, ScanOf
    <2>2. f = g
        BY <1>3, <2>1 DEF Inv, Flights
    <2> QED
        BY <1>1, <2>1, <2>2
<1> QED
    BY <1>2, <1>3 DEF ScansAreCurrent

\* The reservations are those of the tasks.
LEMMA InvReservations == Inv => ReservationsOwned
<1> SUFFICES ASSUME Inv PROVE ReservationsOwned
    OBVIOUS
<1> DEFINE R == doc.reserved
           T == warm.tasks
<1>1. Ledger(doc) /\ Linked(doc, warm, flight) /\ IsFiniteSet(R)
    BY DEF Inv, Good, Ledger
<1>2. \A r \in R : \E t \in T : t.res = r.id
    BY <1>1 DEF Linked
<1>3. \A t \in T : \E r \in R : t.res = r.id
    BY <1>1 DEF Linked, ScanOf
<1>4. \A t, u \in T : t # u => t.res # u.res
    BY <1>1 DEF Linked
<1>5. \A r, q \in R : r # q => r.id # q.id
    BY <1>1 DEF Ledger
<1>6. \A k, q \in doc.packets \cup R : k # q => k.e <= q.s \/ q.e <= k.s
    BY <1>1 DEF Ledger, Clear
<1>7. Cardinality(T) = Cardinality(R)
    <2> HIDE DEF R, T
    <2> DEFINE g == [r \in R |-> CHOOSE t \in T : t.res = r.id]
    <2>1. \A r \in R : g[r] \in T /\ g[r].res = r.id
        BY <1>2
    <2>2. g \in [R -> T]
        BY <1>2
    <2> HIDE DEF g
    <2>3. \A x, y \in R : g[x] = g[y] => x = y
        BY <1>5, <2>1
    <2>4. \A z \in T : \E x \in R : g[x] = z
        BY <1>3, <1>4, <2>1
    <2> QED
        BY <1>1, <2>2, <2>3, <2>4, SameSize
<1>8. {r.id : r \in R} = {t.res : t \in T}
    BY <1>2, <1>3
<1> QED
    BY <1>6, <1>7, <1>8 DEF ReservationsOwned

\* The warmup does not stop short.
LEMMA InvGoesOn == Inv => WarmupGoesOn
<1> SUFFICES ASSUME Inv, warm # Idle, ~Known(doc), doc.off < Len(doc.text)
             PROVE  \E f \in flight : Owned(State, f) /\ ~f.cancelled
    BY DEF WarmupGoesOn
<1>1. PICK t \in warm.tasks : TRUE
    BY DEF Inv, Going
<1>2. PICK f \in flight : f.id = t.id /\ ~f.cancelled /\ f.doc = doc.id /\ f.version = doc.version
    BY DEF Inv, Linked, ScanOf
<1>3. State.doc = doc /\ State.warm = warm
    BY DEF State
<1>4. Owned(State, f)
    BY <1>2, <1>3 DEF Owned
<1> QED
    BY <1>2, <1>4

\* lineIndex() is right.
LEMMA InvLines == Inv => LineNumbersRight
<1> SUFFICES ASSUME Inv, ~doc.torn PROVE
        /\ \A pos \in 0..Len(doc.text) : LineIndexAt(doc, pos) = Cardinality(Within(doc.text, 0, pos))
        /\ doc.complete /\ ~Exact(doc) => doc.total = Cardinality(Breaks(doc.text)) + 1
    BY DEF LineNumbersRight
<1>1. Good(doc)
    BY DEF Inv
<1>2. ASSUME NEW pos \in 0..Len(doc.text) PROVE LineIndexAt(doc, pos) = Cardinality(Within(doc.text, 0, pos))
    <2>1. LineIndexAt(doc, pos) = Lines(doc.text, pos)
        BY <1>1, ExactRight, LazyRight
    <2> QED
        BY <2>1 DEF Lines
<1>3. doc.complete /\ ~Exact(doc) => doc.total = Cardinality(Breaks(doc.text)) + 1
    BY <1>1 DEF Good, Right, RightLines
<1> QED
    BY <1>2, <1>3

\* The index never points outside the text: neither its prefix and checkpoints nor
\* its ledger of scans (MRTextDocumentLineIndex.cpp), for texts of any length.
THEOREM TypeCorrect == Spec => []TypeOK
BY Invariance, InvTypeOK, PTL

\* lineIndex() answers for every offset the number of lines that end at or before
\* it, whatever edits, undos, scans and queries went before, as long as no edit
\* has joined or split a CR LF pair.
THEOREM LinesRight == Spec => []LineNumbersRight
BY Invariance, InvLines, PTL

\* What the dispatcher would adopt, and what waits in the ledger to be joined, is a
\* scan of the text as it is, although undo brings versions back.
THEOREM ScansCurrent == Spec => []ScansAreCurrent
BY Invariance, InvScans, PTL

\* The reservations of the ledger are those of the editor's tasks, one each, and
\* no span is scanned twice, although the ledger uses its ids again.
THEOREM Owners == Spec => []ReservationsOwned
BY Invariance, InvReservations, PTL

\* A warmup that was asked for does not stop short: the number of lines is known,
\* nothing is left to scan, or the editor waits for a scan that is under way and
\* not cancelled.
THEOREM GoesOn == Spec => []WarmupGoesOn
BY Invariance, InvGoesOn, PTL
=============================================================================
