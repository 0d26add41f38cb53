---------------------------- MODULE KeymapProofs ----------------------------
(***************************************************************************)
(* The keymap for any number of profiles, contexts, keys and bindings,     *)
(* proved with TLAPS: what the trie is after each binding (by induction    *)
(* over the bindings, with a least counterexample), and from it the        *)
(* properties of the settings, the batches and the dialog.                 *)
(***************************************************************************)
EXTENDS Keymap, WellFoundedInduction, NaturalsInduction, SequenceTheorems, TLAPS
-----------------------------------------------------------------------------
(***************************************************************************)
(* Induction over the bindings of a profile.                               *)
(***************************************************************************)

\* A nonempty set of naturals has a least element.
LEMMA LeastNumber ==
  ASSUME NEW S, S \subseteq Nat, S # {}
  PROVE  \E x \in S : \A y \in S : ~(y < x)
<1> DEFINE Less == {p \in Nat \X Nat : p[1] < p[2]}
<1>1. IsWellFoundedOn(Less, Nat)
  BY NatLessThanWellFounded DEF OpToRel
<1>2. \A x, y \in Nat : y < x => <<y, x>> \in Less
  OBVIOUS
<1>3. PICK x \in S : \A y \in S : ~(<<y, x>> \in Less)
  <2> HIDE DEF Less
  <2> QED
    BY <1>1, WFMin
<1> HIDE DEF Less
<1> QED
  BY <1>2, <1>3, Zenon

\* What holds of 0 and, with a number below n, of the next one, holds up to n.
LEMMA UpTo ==
  ASSUME NEW n \in Nat, NEW S \in SUBSET (0..n), 0 \in S,
         \A i \in 1..n : i - 1 \in S => i \in S
  PROVE  S = 0..n
<1> SUFFICES ASSUME (0..n) \ S # {}  PROVE FALSE
  OBVIOUS
<1>1. PICK x \in (0..n) \ S : \A y \in (0..n) \ S : ~(y < x)
  <2> DEFINE T == (0..n) \ S
  <2>1. T \subseteq Nat /\ T # {}
    OBVIOUS
  <2> HIDE DEF T
  <2>2. \E x \in T : \A y \in T : ~(y < x)
    BY <2>1, LeastNumber
  <2> QED
    BY <2>2 DEF T
<1>2. x \in 1..n /\ x - 1 \in 0..n /\ x - 1 < x
  BY <1>1
<1> QED
  BY <1>1, <1>2

\* rebuild() takes the bindings one after the other.
LEMMA BuiltSteps ==
  ASSUME NEW bs \in Seq(Binding)
  PROVE  /\ Built(bs)[0] = EmptyTrie
         /\ \A i \in 1..Len(bs) : Built(bs)[i] = Insert(Built(bs)[i - 1], bs[i])
<1> DEFINE Is(g, n) == g = [i \in 0..n |-> IF i = 0 THEN EmptyTrie ELSE Insert(g[i - 1], bs[i])]
           N == Len(bs)
           S == {n \in 0..N : \E g : Is(g, n)}
<1>1. N \in Nat
  OBVIOUS
<1>w. \A n \in 0..N : \A g : Is(g, n) => n \in S
  <2> HIDE DEF Is, N
  <2> QED
    OBVIOUS
<1>2. 0 \in S
  <2>1. Is([i \in 0..0 |-> EmptyTrie], 0)
    OBVIOUS
  <2>2. 0 \in S
    <3>1. 0 \in 0..N
      BY <1>1
    <3> HIDE DEF Is, N, S
    <3> QED
      BY <1>w, <2>1, <3>1
  <2> QED
    BY <2>2
<1>3. ASSUME NEW n \in 1..N, n - 1 \in S  PROVE n \in S
  <2>1. PICK g : Is(g, n - 1)
    BY <1>3
  <2> DEFINE h == [i \in 0..n |-> IF i = n THEN Insert(g[n - 1], bs[n]) ELSE g[i]]
  <2>2. Is(h, n)
    <3>1. \A i \in 0..(n - 1) : g[i] = IF i = 0 THEN EmptyTrie ELSE Insert(g[i - 1], bs[i])
      BY <2>1
    <3>2. \A i \in 0..n : i # 0 => h[i - 1] = g[i - 1]
      BY <1>1
    <3>3. \A i \in 0..n : h[i] = IF i = 0 THEN EmptyTrie ELSE Insert(h[i - 1], bs[i])
      BY <1>1, <3>1, <3>2
    <3> QED
      BY <3>3
  <2>3. n \in 0..N
    BY <1>1
  <2> HIDE DEF Is, h, N, S
  <2> QED
    BY <1>w, <2>2, <2>3
<1>4. \E g : Is(g, N)
  <2>1. S \in SUBSET (0..N)
    OBVIOUS
  <2>2. S = 0..N
    <3> HIDE DEF S, N
    <3> QED
      BY <1>1, <1>2, <1>3, <2>1, UpTo
  <2> QED
    BY <1>1, <2>2
<1>5. Built(bs) = CHOOSE g : Is(g, N)
  BY DEF Built
<1>6. Is(Built(bs), N)
  <2> HIDE DEF Is
  <2> QED
    BY <1>4, <1>5
<1> QED
  BY <1>1, <1>6

\* So does canonicalizeKeymapProfiles().
LEMMA KeptSteps ==
  ASSUME NEW bs \in Seq(Binding)
  PROVE  /\ Kept(bs)[0] = <<>>
         /\ \A i \in 1..Len(bs) : Kept(bs)[i] = Keep(Kept(bs)[i - 1], bs[i])
<1> DEFINE Is(g, n) == g = [i \in 0..n |-> IF i = 0 THEN <<>> ELSE Keep(g[i - 1], bs[i])]
           N == Len(bs)
           S == {n \in 0..N : \E g : Is(g, n)}
<1>1. N \in Nat
  OBVIOUS
<1>w. \A n \in 0..N : \A g : Is(g, n) => n \in S
  <2> HIDE DEF Is, N
  <2> QED
    OBVIOUS
<1>2. 0 \in S
  <2>1. Is([i \in 0..0 |-> <<>>], 0)
    OBVIOUS
  <2>2. 0 \in S
    <3>1. 0 \in 0..N
      BY <1>1
    <3> HIDE DEF Is, N, S
    <3> QED
      BY <1>w, <2>1, <3>1
  <2> QED
    BY <2>2
<1>3. ASSUME NEW n \in 1..N, n - 1 \in S  PROVE n \in S
  <2>1. PICK g : Is(g, n - 1)
    BY <1>3
  <2> DEFINE h == [i \in 0..n |-> IF i = n THEN Keep(g[n - 1], bs[n]) ELSE g[i]]
  <2>2. Is(h, n)
    <3>1. \A i \in 0..(n - 1) : g[i] = IF i = 0 THEN <<>> ELSE Keep(g[i - 1], bs[i])
      BY <2>1
    <3>2. \A i \in 0..n : i # 0 => h[i - 1] = g[i - 1]
      BY <1>1
    <3>3. \A i \in 0..n : h[i] = IF i = 0 THEN <<>> ELSE Keep(h[i - 1], bs[i])
      BY <1>1, <3>1, <3>2
    <3> QED
      BY <3>3
  <2>3. n \in 0..N
    BY <1>1
  <2> HIDE DEF Is, h, N, S
  <2> QED
    BY <1>w, <2>2, <2>3
<1>4. \E g : Is(g, N)
  <2>1. S \in SUBSET (0..N)
    OBVIOUS
  <2>2. S = 0..N
    <3> HIDE DEF S, N
    <3> QED
      BY <1>1, <1>2, <1>3, <2>1, UpTo
  <2> QED
    BY <1>1, <2>2
<1>5. Kept(bs) = CHOOSE g : Is(g, N)
  BY DEF Kept
<1>6. Is(Kept(bs), N)
  <2> HIDE DEF Is
  <2> QED
    BY <1>4, <1>5
<1> QED
  BY <1>1, <1>6
-----------------------------------------------------------------------------
(***************************************************************************)
(* Paths and their prefixes.                                               *)
(***************************************************************************)

Path == Seq(Contexts \cup Keys \cup {Esc})

\* A prefix agrees with the path as far as it goes.
LEMMA PrefixIs ==
  ASSUME NEW s \in Path, NEW t \in Path
  PROVE  IsPrefix(s, t) <=> Len(s) <= Len(t) /\ \A i \in 1..Len(s) : s[i] = t[i]
<1>1. SubSeq(s, 1, Len(s)) = s
  BY DEF Path
<1>2. ASSUME Len(s) <= Len(t)
      PROVE  /\ SubSeq(t, 1, Len(s)) \in Path /\ Len(SubSeq(t, 1, Len(s))) = Len(s)
             /\ \A i \in 1..Len(s) : SubSeq(t, 1, Len(s))[i] = t[i]
  BY <1>2, SubSeqProperties DEF Path
<1>3. ASSUME Len(s) <= Len(t)
      PROVE  SubSeq(t, 1, Len(s)) = s <=> \A i \in 1..Len(s) : s[i] = t[i]
  <2>1. ASSUME \A i \in 1..Len(s) : s[i] = t[i]  PROVE SubSeq(t, 1, Len(s)) = s
    BY <1>2, <1>3, <2>1, SeqEqual DEF Path
  <2> QED
    BY <1>2, <1>3, <2>1
<1> QED
  BY <1>1, <1>3 DEF IsPrefix

\* The paths to the nodes above p, and p.
LEMMA PrefixesAre ==
  ASSUME NEW t \in Path
  PROVE  /\ Prefixes(t) \subseteq Path
         /\ \A s \in Path : s \in Prefixes(t) <=> IsPrefix(s, t)
<1>1. \A n \in 0..Len(t) : /\ SubSeq(t, 1, n) \in Path /\ Len(SubSeq(t, 1, n)) = n
                           /\ \A i \in 1..n : SubSeq(t, 1, n)[i] = t[i]
  BY SubSeqProperties DEF Path
<1>2. Prefixes(t) \subseteq Path
  BY <1>1 DEF Prefixes
<1>3. ASSUME NEW s \in Path, s \in Prefixes(t)  PROVE IsPrefix(s, t)
  <2>1. PICK n \in 0..Len(t) : s = SubSeq(t, 1, n)
    BY <1>3 DEF Prefixes
  <2>2. Len(s) = n /\ Len(t) \in Nat /\ \A i \in 1..n : s[i] = t[i]
    BY <1>1, <2>1 DEF Path
  <2>3. Len(s) <= Len(t) /\ \A i \in 1..Len(s) : s[i] = t[i]
    BY <2>2
  <2> QED
    BY <2>3, PrefixIs
<1>4. ASSUME NEW s \in Path, IsPrefix(s, t)  PROVE s \in Prefixes(t)
  <2>1. Len(s) \in 0..Len(t) /\ s = SubSeq(t, 1, Len(s))
    <3>1. Len(s) \in Nat /\ SubSeq(s, 1, Len(s)) = s
      BY DEF Path
    <3> QED
      BY <1>4, <3>1 DEF IsPrefix
  <2> QED
    BY <2>1 DEF Prefixes
<1> QED
  BY <1>2, <1>3, <1>4

\* Being a prefix is a partial order.
LEMMA PrefixOrder ==
  /\ \A s, t, u \in Path : IsPrefix(s, t) /\ IsPrefix(t, u) => IsPrefix(s, u)
  /\ \A s, t \in Path : IsPrefix(s, t) /\ IsPrefix(t, s) => s = t
  /\ \A s \in Path : IsPrefix(s, s)
  /\ \A s, t \in Path : IsStrictPrefix(s, t) => Len(s) < Len(t)
<1>l. \A s \in Path : Len(s) \in Nat
  BY DEF Path
<1>1. \A s, t, u \in Path : IsPrefix(s, t) /\ IsPrefix(t, u) => IsPrefix(s, u)
  BY <1>l, PrefixIs
<1>2. ASSUME NEW s \in Path, NEW t \in Path, IsPrefix(s, t), Len(t) <= Len(s)  PROVE s = t
  <2>1. Len(s) = Len(t) /\ \A i \in 1..Len(s) : s[i] = t[i]
    BY <1>l, <1>2, PrefixIs
  <2> QED
    BY <2>1, SeqEqual DEF Path
<1>3. \A s, t \in Path : IsPrefix(s, t) /\ IsPrefix(t, s) => s = t
  BY <1>l, <1>2, PrefixIs
<1>4. \A s \in Path : IsPrefix(s, s)
  BY <1>l, PrefixIs
<1>5. \A s, t \in Path : IsStrictPrefix(s, t) => Len(s) < Len(t)
  BY <1>l, <1>2 DEF IsStrictPrefix
<1> QED
  BY <1>1, <1>3, <1>4, <1>5

\* From a path to a longer one the way goes over a child.
LEMMA WayDown ==
  ASSUME NEW s \in Path, NEW t \in Path, IsStrictPrefix(s, t)
  PROVE  \E c \in Path : c \in Prefixes(t) /\ Len(c) = Len(s) + 1 /\ IsStrictPrefix(s, c)
<1> DEFINE c == SubSeq(t, 1, Len(s) + 1)
<1>1. Len(s) \in Nat /\ Len(t) \in Nat /\ Len(s) < Len(t)
  BY PrefixOrder DEF Path
<1>2. /\ c \in Path /\ Len(c) = Len(s) + 1
      /\ \A i \in 1..Len(s) + 1 : c[i] = t[i]
  BY <1>1, SubSeqProperties DEF Path
<1>3. c \in Prefixes(t)
  BY <1>1 DEF Prefixes
<1> HIDE DEF c
<1>4. IsPrefix(s, c) /\ s # c
  <2>1. \A i \in 1..Len(s) : s[i] = t[i]
    BY PrefixIs DEF IsStrictPrefix
  <2> QED
    BY <1>1, <1>2, <2>1, PrefixIs
<1> QED
  BY <1>2, <1>3, <1>4 DEF IsStrictPrefix

\* A binding's slot is such a path: its context and its keys.
LEMMA SlotIsPath ==
  /\ \A b \in Binding : Slot(b) \in Path /\ Slot(b) # <<>> /\ Slot(b) \in Paths
                        /\ b.target \in Targets \cup {NoTarget}
                        /\ b.context \in Contexts /\ b.sequence \in Seq(Keys \cup {Esc})
  /\ \A c \in Contexts, s \in Seq(Keys \cup {Esc}) : <<c>> \o s \in Path /\ <<c>> \o s # <<>>
  /\ Paths \subseteq Path
<1>1. ASSUME NEW b \in Binding
      PROVE  /\ b.context \in Contexts /\ b.sequence \in Seq(Keys \cup {Esc})
             /\ b.target \in Targets \cup {NoTarget}
  <2>1. PICK c \in Contexts, d \in Bound : b = [context |-> c, sequence |-> d[1], target |-> d[2]]
    BY DEF Binding
  <2>2. d \in (Seq(Keys \cup {Esc}) \ {<<>>}) \X (Targets \cup {NoTarget})
    BY KeymapAssumption
  <2> QED
    BY <2>1, <2>2
<1>2. ASSUME NEW c \in Contexts, NEW s \in Seq(Keys \cup {Esc})
      PROVE  <<c>> \o s \in Path /\ <<c>> \o s # <<>>
  <2>1. <<c>> \in Path /\ s \in Path /\ Len(<<c>>) = 1
    BY DEF Path
  <2>2. <<c>> \o s \in Path /\ Len(<<c>> \o s) = Len(<<c>>) + Len(s)
    BY <2>1, ConcatProperties DEF Path
  <2> QED
    BY <2>1, <2>2 DEF Path
<1>3. \A b \in Binding : Slot(b) \in Path /\ Slot(b) # <<>>
  BY <1>1, <1>2 DEF Slot
<1>4. \A b \in Binding : Slot(b) \in Paths
  <2> SUFFICES ASSUME NEW b \in Binding  PROVE Slot(b) \in Paths
    OBVIOUS
  <2>1. Slot(b) \in Prefixes(Slot(b))
    BY <1>3, PrefixesAre, PrefixOrder
  <2> QED
    BY <1>3, <2>1 DEF Paths
<1>5. Paths \subseteq Path
  BY <1>3, PrefixesAre DEF Paths
<1> QED
  BY <1>1, <1>2, <1>3, <1>4, <1>5
-----------------------------------------------------------------------------
(***************************************************************************)
(* The trie after some bindings.                                           *)
(***************************************************************************)

Terminals == UNION {[D -> Targets] : D \in SUBSET Paths}
Trie == [nodes : SUBSET Paths, terminal : Terminals, ok : BOOLEAN]

\* Every node can be reached, terminals are nodes, and none is above another.
Sound(t) ==
    /\ t \in Trie
    /\ \A q \in t.nodes : Prefixes(q) \ {<<>>} \subseteq t.nodes
    /\ DOMAIN t.terminal \subseteq t.nodes
    /\ \A p, q \in DOMAIN t.terminal : ~IsStrictPrefix(p, q)

\* As long as nothing failed, the terminals are the first n bindings, and there
\* are no other nodes than those on the way to them.
Exact(t, bs, n) ==
    t.ok => /\ DOMAIN t.terminal = {Slot(bs[k]) : k \in 1..n}
            /\ \A k \in 1..n : t.terminal[Slot(bs[k])] = bs[k].target
            /\ \A q \in t.nodes : \E k \in 1..n : q \in Prefixes(Slot(bs[k]))

\* What Terminals are.
LEMMA TerminalsAre ==
  /\ \A f \in Terminals : DOMAIN f \subseteq Paths /\ \A p \in DOMAIN f : f[p] \in Targets
  /\ \A D \in SUBSET Paths : [D -> Targets] \subseteq Terminals
  BY DEF Terminals

\* One binding: it fails, or it becomes a terminal.
LEMMA InsertCases ==
  ASSUME NEW t \in Trie, NEW b \in Binding
  PROVE  LET u == Insert(t, b)
             P == Prefixes(Slot(b)) \ {<<>>}
         IN  /\ u \in Trie
             /\ \/ /\ ~t.ok \/ b.target = NoTarget
                   /\ u.nodes = t.nodes /\ u.terminal = t.terminal /\ ~u.ok
                \/ /\ t.ok /\ b.target # NoTarget /\ Collides([t EXCEPT !.nodes = @ \cup P], Slot(b))
                   /\ u.nodes = t.nodes \cup P /\ u.terminal = t.terminal /\ ~u.ok
                \/ /\ t.ok /\ b.target # NoTarget /\ ~Collides([t EXCEPT !.nodes = @ \cup P], Slot(b))
                   /\ u.nodes = t.nodes \cup P /\ u.ok
                   /\ DOMAIN u.terminal = DOMAIN t.terminal \cup {Slot(b)}
                   /\ u.terminal[Slot(b)] = b.target
                   /\ \A q \in DOMAIN t.terminal : q # Slot(b) => u.terminal[q] = t.terminal[q]
<1> DEFINE p == Slot(b)
           P == Prefixes(p) \ {<<>>}
           w == [t EXCEPT !.nodes = @ \cup P]
           T == [q \in DOMAIN t.terminal \cup {p} |-> IF q = p THEN b.target ELSE t.terminal[q]]
           u == Insert(t, b)
<1>1. p \in Paths /\ P \subseteq Paths /\ b.target \in Targets \cup {NoTarget}
  <2>1. p \in Paths /\ b.target \in Targets \cup {NoTarget}
    BY SlotIsPath
  <2>2. P \subseteq Paths
    BY DEF Paths
  <2> QED
    BY <2>1, <2>2
<1>2. t.nodes \subseteq Paths /\ t.terminal \in Terminals /\ t.ok \in BOOLEAN
  BY DEF Trie
<1>3. w \in Trie /\ w.nodes = t.nodes \cup P /\ w.terminal = t.terminal /\ w.ok = t.ok
  BY <1>1, <1>2 DEF Trie
<1>4. CASE ~t.ok \/ b.target = NoTarget
  <2>1. u = [t EXCEPT !.ok = FALSE]
    BY <1>4 DEF Insert
  <2> QED
    BY <1>2, <1>4, <2>1 DEF Trie
<1>5. CASE t.ok /\ b.target # NoTarget /\ Collides(w, p)
  <2>1. u = [w EXCEPT !.ok = FALSE]
    BY <1>5 DEF Insert
  <2> HIDE DEF w, P, p
  <2>2. u \in Trie /\ u.nodes = w.nodes /\ u.terminal = w.terminal /\ ~u.ok
    BY <1>3, <2>1 DEF Trie
  <2> QED
    BY <1>3, <1>5, <2>2 DEF w, P, p
<1>6. CASE t.ok /\ b.target # NoTarget /\ ~Collides(w, p)
  <2>1. u = [w EXCEPT !.terminal = [q \in DOMAIN @ \cup {p} |-> IF q = p THEN b.target ELSE @[q]]]
    BY <1>6 DEF Insert
  <2>2. T \in Terminals
    <3>1. T \in [DOMAIN t.terminal \cup {p} -> Targets]
      BY <1>1, <1>2, <1>6, TerminalsAre
    <3> QED
      BY <1>1, <1>2, <3>1, TerminalsAre
  <2>3. u = [w EXCEPT !.terminal = T]
    BY <1>3, <2>1
  <2> HIDE DEF w, P, p, T
  <2>4. u \in Trie /\ u.nodes = w.nodes /\ u.terminal = T /\ u.ok = w.ok
    BY <1>3, <2>2, <2>3 DEF Trie
  <2> QED
    BY <1>3, <1>6, <2>4 DEF w, P, p, T
<1> QED
  BY <1>2, <1>4, <1>5, <1>6

\* A path that collides with nothing is neither above nor below a terminal.
LEMMA NoCollision ==
  ASSUME NEW t, Sound(t), NEW p \in Paths, NEW w, w.nodes = t.nodes \cup (Prefixes(p) \ {<<>>}),
         w.terminal = t.terminal, ~Collides(w, p)
  PROVE  \A q \in DOMAIN t.terminal : q # p /\ ~IsStrictPrefix(p, q) /\ ~IsStrictPrefix(q, p)
<1> SUFFICES ASSUME NEW q \in DOMAIN t.terminal
             PROVE  q # p /\ ~IsStrictPrefix(p, q) /\ ~IsStrictPrefix(q, p)
  OBVIOUS
<1>1. q \in t.nodes /\ q \in Path /\ p \in Path
  BY SlotIsPath DEF Sound, Trie
<1>2. q # p /\ ~IsStrictPrefix(q, p)
  BY DEF Collides
<1>3. ASSUME IsStrictPrefix(p, q)  PROVE FALSE
  <2>1. PICK c \in Path : c \in Prefixes(q) /\ Len(c) = Len(p) + 1 /\ IsStrictPrefix(p, c)
    BY <1>1, <1>3, WayDown
  <2>2. c # <<>>
    <3>1. Len(c) # 0
      BY <1>1, <2>1 DEF Path
    <3> QED
      BY <3>1
  <2>3. c \in w.nodes
    BY <1>1, <2>1, <2>2 DEF Sound
  <2> QED
    BY <2>1, <2>3 DEF Collides, Children
<1> QED
  BY <1>2, <1>3

\* A binding leaves a sound trie sound.
LEMMA InsertSound ==
  ASSUME NEW t, Sound(t), NEW b \in Binding
  PROVE  Sound(Insert(t, b))
<1> DEFINE u == Insert(t, b)
           p == Slot(b)
           P == Prefixes(p) \ {<<>>}
<1>1. t \in Trie /\ u \in Trie /\ p \in Paths /\ p \in Path
  BY InsertCases, SlotIsPath DEF Sound
<1>2. \A q \in P : Prefixes(q) \ {<<>>} \subseteq P
  <2> SUFFICES ASSUME NEW q \in P, NEW r \in Prefixes(q)  PROVE r \in Prefixes(p)
    OBVIOUS
  <2>1. q \in Path /\ r \in Path /\ IsPrefix(r, q) /\ IsPrefix(q, p)
    BY <1>1, PrefixesAre
  <2> QED
    BY <1>1, <2>1, PrefixOrder, PrefixesAre
<1>3. p \in P
  BY <1>1, PrefixesAre, PrefixOrder, SlotIsPath
<1>4. u.nodes = t.nodes \/ u.nodes = t.nodes \cup P
  BY <1>1, InsertCases
<1>5. \A q \in u.nodes : Prefixes(q) \ {<<>>} \subseteq u.nodes
  <2> HIDE DEF u, P
  <2> QED
    BY <1>2, <1>4 DEF Sound
<1>6. ASSUME u.terminal = t.terminal  PROVE Sound(u)
  <2> HIDE DEF u, P
  <2> QED
    BY <1>1, <1>4, <1>5, <1>6 DEF Sound
<1>7. ASSUME u.terminal # t.terminal  PROVE Sound(u)
  <2> DEFINE w == [t EXCEPT !.nodes = @ \cup P]
  <2>1. /\ ~Collides(w, p) /\ u.nodes = t.nodes \cup P
        /\ DOMAIN u.terminal = DOMAIN t.terminal \cup {p}
    BY <1>1, <1>7, InsertCases
  <2>2. w.nodes = t.nodes \cup P /\ w.terminal = t.terminal
    BY <1>1 DEF Trie
  <2>3. \A q \in DOMAIN t.terminal : q # p /\ ~IsStrictPrefix(p, q) /\ ~IsStrictPrefix(q, p)
    <3> HIDE DEF w, u
    <3> QED
      BY <1>1, <2>1, <2>2, NoCollision
  <2>4. ~IsStrictPrefix(p, p)
    BY DEF IsStrictPrefix
  <2> HIDE DEF w, u, P, p
  <2> QED
    BY <1>1, <1>3, <1>5, <2>1, <2>3, <2>4 DEF Sound
<1> QED
  BY <1>6, <1>7

\* What a binding that did not fail has done.
LEMMA InsertDone ==
  ASSUME NEW t \in Trie, NEW b \in Binding, Insert(t, b).ok
  PROVE  /\ t.ok /\ ~Collides([t EXCEPT !.nodes = @ \cup (Prefixes(Slot(b)) \ {<<>>})], Slot(b))
         /\ Insert(t, b).nodes = t.nodes \cup (Prefixes(Slot(b)) \ {<<>>})
         /\ DOMAIN Insert(t, b).terminal = DOMAIN t.terminal \cup {Slot(b)}
         /\ Insert(t, b).terminal[Slot(b)] = b.target
         /\ \A q \in DOMAIN t.terminal : q # Slot(b) => Insert(t, b).terminal[q] = t.terminal[q]
  BY InsertCases

\* It becomes the last of the terminals, or fails.
LEMMA InsertExact ==
  ASSUME NEW bs \in Seq(Binding), NEW n \in 1..Len(bs), NEW b \in Binding, b = bs[n],
         NEW t, Sound(t), Exact(t, bs, n - 1)
  PROVE  Exact(Insert(t, b), bs, n)
<1> DEFINE u == Insert(t, b)
           p == Slot(b)
           P == Prefixes(p) \ {<<>>}
           w == [t EXCEPT !.nodes = @ \cup P]
<1> SUFFICES ASSUME u.ok  PROVE Exact(u, bs, n)
  BY DEF Exact
<1>b. t \in Trie /\ \A k \in 1..n : bs[k] \in Binding
  BY DEF Sound
<1>1. /\ t.ok /\ ~Collides(w, p) /\ u.nodes = t.nodes \cup P
      /\ DOMAIN u.terminal = DOMAIN t.terminal \cup {p} /\ u.terminal[p] = b.target
      /\ \A q \in DOMAIN t.terminal : q # p => u.terminal[q] = t.terminal[q]
  <2>1. t \in Trie
    BY <1>b
  <2>2. u.ok
    OBVIOUS
  <2>3. Insert(t, b).ok
    BY <2>2
  <2> HIDE DEF u
  <2> USE DEF w, P, p
  <2>4. u = Insert(t, b)
    BY DEF u
  <2> QED
    BY <2>1, <2>3, <2>4, InsertDone, Zenon
<1>2. w.nodes = t.nodes \cup P /\ w.terminal = t.terminal /\ p \in Paths
  BY <1>b, SlotIsPath DEF Trie
<1>3. p \notin DOMAIN t.terminal
  BY <1>1, <1>2 DEF Collides
<1>4. /\ DOMAIN t.terminal = {Slot(bs[k]) : k \in 1..(n - 1)}
      /\ \A k \in 1..(n - 1) : t.terminal[Slot(bs[k])] = bs[k].target
      /\ \A q \in t.nodes : \E k \in 1..(n - 1) : q \in Prefixes(Slot(bs[k]))
  BY <1>1 DEF Exact
<1>5. \A k \in 1..n : k = n \/ k \in 1..(n - 1)
  OBVIOUS
<1>6. 1..(n - 1) \subseteq 1..n /\ n \in 1..n
  OBVIOUS
<1> HIDE DEF u, w
<1>7. DOMAIN u.terminal = {Slot(bs[k]) : k \in 1..n}
  BY <1>1, <1>4, <1>5, <1>6
<1>8. \A k \in 1..n : u.terminal[Slot(bs[k])] = bs[k].target
  BY <1>1, <1>3, <1>4, <1>5
<1>9. \A q \in u.nodes : \E k \in 1..n : q \in Prefixes(Slot(bs[k]))
  BY <1>1, <1>4, <1>6
<1> QED
  BY <1>7, <1>8, <1>9 DEF Exact

\* The empty trie has no bindings.
LEMMA EmptyIsSound ==
  ASSUME NEW bs
  PROVE  Sound(EmptyTrie) /\ Exact(EmptyTrie, bs, 0) /\ EmptyTrie.ok
<1>1. EmptyTrie.nodes = {} /\ EmptyTrie.terminal = <<>> /\ EmptyTrie.ok
  BY DEF EmptyTrie
<1>2. <<>> \in [{} -> Targets] /\ DOMAIN <<>> = {}
  OBVIOUS
<1>3. <<>> \in Terminals
  BY <1>2, TerminalsAre
<1>4. EmptyTrie \in Trie
  BY <1>3 DEF EmptyTrie, Trie
<1>5. {Slot(bs[k]) : k \in 1..0} = {}
  OBVIOUS
<1> QED
  BY <1>1, <1>2, <1>4, <1>5 DEF Sound, Exact

\* The trie after n bindings is sound, and exact if nothing failed.
LEMMA BuiltIsSound ==
  ASSUME NEW bs \in Seq(Binding)
  PROVE  \A n \in 0..Len(bs) : Sound(Built(bs)[n]) /\ Exact(Built(bs)[n], bs, n)
<1> DEFINE N == Len(bs)
           S == {n \in 0..N : Sound(Built(bs)[n]) /\ Exact(Built(bs)[n], bs, n)}
<1>1. N \in Nat /\ S \in SUBSET (0..N)
  OBVIOUS
<1>2. 0 \in S
  BY <1>1, BuiltSteps, EmptyIsSound
<1>3. ASSUME NEW n \in 1..N, n - 1 \in S  PROVE n \in S
  <2>1. Built(bs)[n] = Insert(Built(bs)[n - 1], bs[n]) /\ bs[n] \in Binding /\ n \in 0..N
    BY <1>1, BuiltSteps
  <2>2. Sound(Built(bs)[n - 1]) /\ Exact(Built(bs)[n - 1], bs, n - 1)
    BY <1>3
  <2>3. Sound(Built(bs)[n]) /\ Exact(Built(bs)[n], bs, n)
    BY <2>1, <2>2, InsertSound, InsertExact
  <2> QED
    BY <2>1, <2>3
<1>4. S = 0..N
  <2> HIDE DEF S, N
  <2> QED
    BY <1>1, <1>2, <1>3, UpTo
<1> QED
  BY <1>4

\* A trie that could be built decides every sequence as its bindings do.
LEMMA BuildDecides ==
  ASSUME NEW bs \in Seq(Binding), Build(bs).ok, NEW c \in Contexts, NEW s \in Seq(Keys \cup {Esc})
  PROVE  Decide(Build(bs), c, s) = Reference(bs, c, s)
<1> DEFINE t == Build(bs)
           p == <<c>> \o s
           B == {bs[i] : i \in DOMAIN bs}
<1>1. t \in Trie /\ Sound(t) /\ Exact(t, bs, Len(bs)) /\ t.ok
  BY BuiltIsSound DEF Build, Sound
<1>2. p \in Path /\ p # <<>> /\ \A b \in B : Slot(b) \in Path /\ Slot(b) # <<>>
  BY SlotIsPath
<1>3. /\ DOMAIN t.terminal = {Slot(b) : b \in B}
      /\ \A b \in B : t.terminal[Slot(b)] = b.target
      /\ \A q \in t.nodes : \E b \in B : q \in Prefixes(Slot(b))
  <2>1. DOMAIN bs = 1..Len(bs)
    OBVIOUS
  <2> HIDE DEF t
  <2> QED
    BY <1>1, <2>1 DEF Exact
<1> HIDE DEF t, p, B
<1>4. CASE \E b \in B : Slot(b) = p
  <2>1. p \in DOMAIN t.terminal
    BY <1>3, <1>4
  <2> DEFINE d == CHOOSE b \in B : Slot(b) = p
  <2>2. d \in B /\ Slot(d) = p
    BY <1>4
  <2>3. t.terminal[p] = d.target
    BY <1>3, <2>2
  <2>4. Decide(t, c, s) = t.terminal[p]
    BY <2>1 DEF Decide, p
  <2>5. Reference(bs, c, s) = d.target
    BY <1>4 DEF Reference, p, B
  <2> QED
    BY <2>3, <2>4, <2>5 DEF t
<1>5. CASE ~ \E b \in B : Slot(b) = p
  <2>1. p \notin DOMAIN t.terminal
    BY <1>3, <1>5
  <2>2. ASSUME NEW q \in Children(t, p)  PROVE \E b \in B : IsStrictPrefix(p, Slot(b))
    <3>1. q \in t.nodes /\ IsStrictPrefix(p, q)
      BY DEF Children
    <3>2. PICK b \in B : q \in Prefixes(Slot(b))
      BY <1>3, <3>1
    <3>3. q \in Path /\ IsPrefix(q, Slot(b)) /\ IsPrefix(p, q)
      BY <1>2, <3>1, <3>2, PrefixesAre DEF IsStrictPrefix
    <3>4. IsPrefix(p, Slot(b)) /\ p # Slot(b)
      BY <1>2, <1>5, <3>3, PrefixOrder
    <3> QED
      BY <3>4 DEF IsStrictPrefix
  <2>3. ASSUME NEW b \in B, IsStrictPrefix(p, Slot(b))  PROVE p \in t.nodes /\ Children(t, p) # {}
    <3>1. Slot(b) \in t.nodes
      BY <1>1, <1>3 DEF Sound
    <3>2. Prefixes(Slot(b)) \ {<<>>} \subseteq t.nodes
      BY <1>1, <3>1 DEF Sound
    <3>3. p \in t.nodes
      BY <1>2, <2>3, <3>2, PrefixesAre DEF IsStrictPrefix
    <3>4. PICK q \in Path : q \in Prefixes(Slot(b)) /\ Len(q) = Len(p) + 1 /\ IsStrictPrefix(p, q)
      BY <1>2, <2>3, WayDown
    <3>5. q # <<>>
      <4>1. Len(q) # 0
        BY <1>2, <3>4 DEF Path
      <4> QED
        BY <4>1
    <3>6. q \in Children(t, p)
      BY <3>2, <3>4, <3>5 DEF Children
    <3> QED
      BY <3>3, <3>6
  <2>4. (p \in t.nodes /\ Children(t, p) # {}) <=> \E b \in B : IsStrictPrefix(p, Slot(b))
    BY <2>2, <2>3
  <2>5. Decide(t, c, s) = IF p \in t.nodes /\ Children(t, p) # {} THEN "pending" ELSE "none"
    BY <2>1 DEF Decide, p
  <2>6. Reference(bs, c, s) = IF \E b \in B : IsStrictPrefix(p, Slot(b)) THEN "pending" ELSE "none"
    BY <1>5 DEF Reference, p, B
  <2> QED
    BY <2>4, <2>5, <2>6 DEF t
<1> QED
  BY <1>4, <1>5
-----------------------------------------------------------------------------
(***************************************************************************)
(* The canonical bindings.                                                 *)
(***************************************************************************)

\* Bindings with targets, of which none is above or below another.
Clear(ks) ==
    /\ ks \in Seq(Binding)
    /\ \A k \in 1..Len(ks) : ks[k].target # NoTarget
    /\ \A j, k \in 1..Len(ks) : j < k => ~Conflict(ks[j], ks[k])

\* A binding that is kept conflicts with none before it.
LEMMA KeepClear ==
  ASSUME NEW ks, Clear(ks), NEW b \in Binding
  PROVE  Clear(Keep(ks, b))
<1>1. CASE b.target = NoTarget \/ \E i \in DOMAIN ks : Conflict(ks[i], b)
  BY <1>1 DEF Keep
<1>2. CASE ~(b.target = NoTarget \/ \E i \in DOMAIN ks : Conflict(ks[i], b))
  <2> DEFINE u == Append(ks, b)
  <2>1. Keep(ks, b) = u
    BY <1>2 DEF Keep
  <2>2. ks \in Seq(Binding) /\ Len(ks) \in Nat /\ DOMAIN ks = 1..Len(ks)
    BY DEF Clear
  <2>3. u \in Seq(Binding) /\ Len(u) = Len(ks) + 1 /\ u[Len(ks) + 1] = b /\ \A k \in 1..Len(ks) : u[k] = ks[k]
    BY <2>2
  <2> HIDE DEF u
  <2>4. \A k \in 1..Len(u) : k \in 1..Len(ks) \/ k = Len(ks) + 1
    BY <2>2, <2>3
  <2>5. \A k \in 1..Len(u) : u[k].target # NoTarget
    BY <1>2, <2>3, <2>4 DEF Clear
  <2>6. ASSUME NEW j \in 1..Len(u), NEW k \in 1..Len(u), j < k  PROVE ~Conflict(u[j], u[k])
    <3>1. j \in 1..Len(ks)
      BY <2>2, <2>3, <2>6
    <3>2. CASE k \in 1..Len(ks)
      BY <2>3, <2>6, <3>1, <3>2 DEF Clear
    <3>3. CASE k = Len(ks) + 1
      BY <1>2, <2>2, <2>3, <3>1, <3>3
    <3> QED
      BY <2>4, <3>2, <3>3
  <2> QED
    BY <2>1, <2>3, <2>5, <2>6 DEF Clear
<1> QED
  BY <1>1, <1>2

\* Canonical bindings are clear.
LEMMA CanonicalIsClear ==
  ASSUME NEW bs \in Seq(Binding)
  PROVE  Clear(Canonical(bs))
<1> DEFINE N == Len(bs)
           S == {n \in 0..N : Clear(Kept(bs)[n])}
<1>1. N \in Nat /\ S \in SUBSET (0..N)
  OBVIOUS
<1>2. 0 \in S
  <2>1. Clear(<<>>)
    BY DEF Clear
  <2> QED
    BY <1>1, <2>1, KeptSteps
<1>3. ASSUME NEW n \in 1..N, n - 1 \in S  PROVE n \in S
  <2>1. Kept(bs)[n] = Keep(Kept(bs)[n - 1], bs[n]) /\ bs[n] \in Binding /\ n \in 0..N
    BY <1>1, KeptSteps
  <2>2. Clear(Kept(bs)[n])
    BY <1>3, <2>1, KeepClear
  <2> QED
    BY <2>1, <2>2
<1>4. S = 0..N
  <2> HIDE DEF S, N
  <2> QED
    BY <1>1, <1>2, <1>3, UpTo
<1> QED
  BY <1>1, <1>4 DEF Canonical

\* Clear bindings can be built.
LEMMA ClearIsBuilt ==
  ASSUME NEW ks, Clear(ks)
  PROVE  ks \in Seq(Binding) /\ Build(ks).ok
<1> DEFINE N == Len(ks)
           S == {n \in 0..N : Built(ks)[n].ok}
<1>1. ks \in Seq(Binding) /\ N \in Nat /\ S \in SUBSET (0..N)
  BY DEF Clear
<1>2. 0 \in S
  BY <1>1, BuiltSteps, EmptyIsSound
<1>3. ASSUME NEW n \in 1..N, n - 1 \in S  PROVE n \in S
  <2> DEFINE t == Built(ks)[n - 1]
             b == ks[n]
             p == Slot(b)
             P == Prefixes(p) \ {<<>>}
             w == [t EXCEPT !.nodes = @ \cup P]
  <2>1. Built(ks)[n] = Insert(t, b) /\ b \in Binding /\ n \in 0..N /\ n - 1 \in 0..N
    BY <1>1, BuiltSteps
  <2>2. Sound(t) /\ Exact(t, ks, n - 1) /\ t.ok /\ t \in Trie
    BY <1>1, <1>3, <2>1, BuiltIsSound DEF Sound
  <2>3. w.nodes = t.nodes \cup P /\ w.terminal = t.terminal
    <3> HIDE DEF t
    <3> QED
      BY <2>2 DEF Trie
  <2>4. p \in Path /\ \A k \in 1..N : Slot(ks[k]) \in Path
    BY <1>1, SlotIsPath
  <2>5. \A k \in 1..(n - 1) : ~IsPrefix(Slot(ks[k]), p) /\ ~IsPrefix(p, Slot(ks[k]))
    BY <1>1 DEF Clear, Conflict
  <2>6. /\ \A q \in DOMAIN t.terminal : \E k \in 1..(n - 1) : q = Slot(ks[k])
        /\ \A q \in t.nodes : \E k \in 1..(n - 1) : q \in Prefixes(Slot(ks[k]))
    <3> HIDE DEF t
    <3> QED
      BY <2>2 DEF Exact
  <2>7. 1..(n - 1) \subseteq 1..N
    BY <1>1
  <2> HIDE DEF t, b, p, w
  <2>8. \A q \in DOMAIN t.terminal : q # p /\ ~IsStrictPrefix(q, p)
    BY <2>4, <2>5, <2>6, PrefixOrder DEF IsStrictPrefix
  <2>9. ASSUME NEW q \in w.nodes, IsStrictPrefix(p, q)  PROVE FALSE
    <3>1. CASE q \in t.nodes
      <4>1. PICK k \in 1..(n - 1) : q \in Prefixes(Slot(ks[k]))
        BY <2>6, <3>1
      <4>2. q \in Path /\ IsPrefix(q, Slot(ks[k])) /\ IsPrefix(p, q) /\ Slot(ks[k]) \in Path
        BY <2>4, <2>7, <2>9, <4>1, PrefixesAre DEF IsStrictPrefix
      <4> QED
        BY <2>4, <2>5, <4>2, PrefixOrder
    <3>2. CASE q \in P
      <4>1. q \in Path /\ IsPrefix(q, p) /\ IsPrefix(p, q) /\ p # q
        BY <2>4, <2>9, <3>2, PrefixesAre DEF IsStrictPrefix
      <4> QED
        BY <2>4, <4>1, PrefixOrder
    <3> QED
      BY <2>3, <3>1, <3>2
  <2>10. ~Collides(w, p)
    BY <2>3, <2>8, <2>9 DEF Collides, Children
  <2>11. b.target # NoTarget
    BY DEF Clear, b
  <2>12. Insert(t, b).ok
    BY <2>1, <2>2, <2>10, <2>11, InsertCases DEF w, p
  <2> QED
    BY <2>1, <2>12
<1>4. S = 0..N
  <2> HIDE DEF S, N
  <2> QED
    BY <1>1, <1>2, <1>3, UpTo
<1> QED
  BY <1>1, <1>4 DEF Build
-----------------------------------------------------------------------------
(***************************************************************************)
(* The settings, the batches and the keyboard.                             *)
(***************************************************************************)

Staging == [initialized : BOOLEAN, profiles : AllProfiles, profilesDirty : BOOLEAN,
            active : Profiles \cup {None}, activeDirty : BOOLEAN]

\* The selections that fit profiles ps: one of them, or none.
Selectable(ps) == {n \in Profiles : ps[n] # None} \cup {None}

Types ==
    /\ profiles \in AllProfiles /\ active \in Selectable(profiles)
    /\ Sound(trie)
    /\ pending \in [Contexts -> Seq(Keys \cup {Esc})]
    /\ staging \in Staging /\ depth \in Nat /\ startup \in BOOLEAN

\* the inductive invariant
IInv == Types /\ PendingIsPrefix

\* The bindings of a selection are bindings.
LEMMA BindingsAre ==
  /\ \A ps \in AllProfiles, name \in Profiles \cup {None} : BindingsOf(ps, name) \in Seq(Binding)
  /\ \A ps \in AllProfiles, name \in Profiles \cup {None} : Existing(ps, name) \in Selectable(ps)
  /\ NoProfiles \in AllProfiles /\ None \in Selectable(NoProfiles) /\ <<>> \in Seq(Binding)
<1>1. <<>> \in Seq(Binding) /\ None \notin Profiles /\ None \notin Seq(Binding)
  BY KeymapAssumption
<1>2. \A ps \in AllProfiles, name \in Profiles : ps[name] \in Seq(Binding) \cup {None}
  BY DEF AllProfiles
<1>3. NoProfiles \in AllProfiles /\ None \in Selectable(NoProfiles)
  BY DEF NoProfiles, AllProfiles, Selectable
<1> QED
  BY <1>1, <1>2, <1>3 DEF BindingsOf, Existing, Selectable

\* What rebuild() makes of bindings is sound, and it decides as they do.
LEMMA BuildIsSound ==
  ASSUME NEW bs \in Seq(Binding)
  PROVE  Sound(Build(bs))
<1>1. Len(bs) \in 0..Len(bs)
  OBVIOUS
<1> QED
  BY <1>1, BuiltIsSound DEF Build

\* The trie of the active profile decides every key sequence as the profile does.
LEMMA BuildProjects ==
  ASSUME NEW bs \in Seq(Binding), Build(bs).ok
  PROVE  \A c \in Contexts, s \in (UNION {Prefixes(b[1]) : b \in Bound}) \ {<<>>} :
            Decide(Build(bs), c, s) = Reference(bs, c, s)
<1> SUFFICES ASSUME NEW c \in Contexts, NEW b \in Bound, NEW s \in Prefixes(b[1])
             PROVE  Decide(Build(bs), c, s) = Reference(bs, c, s)
  OBVIOUS
<1>1. b[1] \in Seq(Keys \cup {Esc})
  BY KeymapAssumption
<1>2. PICK n \in 0..Len(b[1]) : s = SubSeq(b[1], 1, n)
  BY DEF Prefixes
<1>3. s \in Seq(Keys \cup {Esc})
  <2> DEFINE x == b[1]
  <2>1. x \in Seq(Keys \cup {Esc}) /\ n \in 0..Len(x) /\ s = SubSeq(x, 1, n)
    BY <1>1, <1>2
  <2> HIDE DEF x
  <2> QED
    BY <2>1, SubSeqProperties
<1> QED
  BY <1>3, BuildDecides

\* Nothing is pending after a rebuild.
LEMMA ResetIsPrefix ==
  ASSUME pending' = ResetPending
  PROVE  PendingIsPrefix' /\ pending' \in [Contexts -> Seq(Keys \cup {Esc})]
  BY DEF ResetPending, PendingIsPrefix

\* Storing profiles with a selection that fits them.
LEMMA StoreStep ==
  ASSUME Types, NEW ps \in AllProfiles, NEW name \in Selectable(ps), Store(ps, name)
  PROVE  /\ profiles' \in AllProfiles /\ active' \in Selectable(profiles') /\ Sound(trie')
         /\ pending' \in [Contexts -> Seq(Keys \cup {Esc})] /\ PendingIsPrefix'
         /\ <<profiles, active>>' # <<profiles, active>> => Projected'
<1> DEFINE bs == BindingsOf(ps, name)
<1>1. trie' = Build(bs) /\ pending' = ResetPending
  BY DEF Store, Rebuild
<1>2. bs \in Seq(Binding)
  BY BindingsAre DEF Selectable
<1>3. Sound(trie')
  BY <1>1, <1>2, BuildIsSound
<1>4. CASE trie'.ok
  <2>1. profiles' = ps /\ active' = name
    BY <1>4 DEF Store
  <2>2. Projected'
    <3> HIDE DEF bs
    <3>1. \A c \in Contexts, s \in (UNION {Prefixes(b[1]) : b \in Bound}) \ {<<>>} :
             Decide(trie', c, s) = Reference(bs, c, s)
      BY <1>1, <1>2, <1>4, BuildProjects
    <3> QED
      BY <2>1, <3>1 DEF Projected, bs
  <2> QED
    BY <1>1, <1>3, <2>1, <2>2, ResetIsPrefix
<1>5. CASE ~trie'.ok
  <2>1. profiles' = profiles /\ active' = active
    BY <1>5 DEF Store
  <2> QED
    BY <1>1, <1>3, <2>1, ResetIsPrefix DEF Types
<1> QED
  BY <1>4, <1>5

\* A step that leaves the settings and the keys alone.
LEMMA NothingStep ==
  ASSUME Types, PendingIsPrefix, Nothing
  PROVE  /\ profiles' \in AllProfiles /\ active' \in Selectable(profiles') /\ Sound(trie')
         /\ pending' \in [Contexts -> Seq(Keys \cup {Esc})] /\ PendingIsPrefix'
         /\ ~(<<profiles, active>>' # <<profiles, active>>)
  BY DEF Types, Nothing, PendingIsPrefix

\* setConfiguredKeymapProfiles() of profiles of the right type.
LEMMA SetProfilesStep ==
  ASSUME IInv, NEW ps \in AllProfiles, SetProfiles(ps)
  PROVE  /\ profiles' \in AllProfiles /\ active' \in Selectable(profiles') /\ Sound(trie')
         /\ pending' \in [Contexts -> Seq(Keys \cup {Esc})] /\ PendingIsPrefix'
         /\ <<profiles, active>>' # <<profiles, active>> => Projected'
<1>1. CASE Valid(ps)
  <2>1. Store(ps, Existing(ps, active)) /\ Existing(ps, active) \in Selectable(ps)
    BY <1>1, BindingsAre DEF SetProfiles, IInv, Types, Selectable
  <2> QED
    BY <2>1, StoreStep DEF IInv
<1>2. CASE ~Valid(ps)
  BY <1>2, NothingStep DEF SetProfiles, IInv
<1> QED
  BY <1>1, <1>2

\* The batch keeps its type.
LEMMA BatchTypes ==
  ASSUME Types
  PROVE  /\ Ensured \in Staging /\ Cleared \in Staging /\ ~Cleared.profilesDirty
         /\ \A n \in Profiles : [Ensured EXCEPT !.profiles[n] = <<>>, !.profilesDirty = TRUE] \in Staging
         /\ \A n \in Profiles \cup {None} : [Ensured EXCEPT !.active = n, !.activeDirty = TRUE] \in Staging
         /\ \A ps \in AllProfiles : [Ensured EXCEPT !.profiles = ps, !.profilesDirty = TRUE] \in Staging
<1>1. Cleared \in Staging /\ ~Cleared.profilesDirty
  BY BindingsAre DEF Cleared, Staging
<1>2. Ensured \in Staging
  <2>1. profiles \in AllProfiles /\ active \in Profiles \cup {None} /\ staging \in Staging
    BY DEF Types, Selectable
  <2>2. [Cleared EXCEPT !.initialized = TRUE, !.profiles = profiles, !.active = active] \in Staging
    BY <1>1, <2>1 DEF Staging
  <2> QED
    BY <2>1, <2>2 DEF Ensured
<1> DEFINE e == Ensured
<1>3. e \in Staging /\ e.profiles \in AllProfiles
  BY <1>2 DEF Staging
<1> HIDE DEF e
<1>4. \A n \in Profiles : [e EXCEPT !.profiles[n] = <<>>, !.profilesDirty = TRUE] \in Staging
  <2> SUFFICES ASSUME NEW n \in Profiles
               PROVE  [e EXCEPT !.profiles[n] = <<>>, !.profilesDirty = TRUE] \in Staging
    OBVIOUS
  <2>1. [e.profiles EXCEPT ![n] = <<>>] \in AllProfiles
    BY <1>3, BindingsAre DEF AllProfiles
  <2> QED
    BY <1>3, <2>1 DEF Staging
<1>5. \A n \in Profiles \cup {None} : [e EXCEPT !.active = n, !.activeDirty = TRUE] \in Staging
  BY <1>3 DEF Staging
<1>6. \A ps \in AllProfiles : [e EXCEPT !.profiles = ps, !.profilesDirty = TRUE] \in Staging
  BY <1>3 DEF Staging
<1> QED
  BY <1>1, <1>2, <1>4, <1>5, <1>6 DEF e

\* A binding is added to a profile that exists.
LEMMA AddedIs ==
  ASSUME NEW ps \in AllProfiles, NEW n \in Profiles, ps[n] # None, NEW b \in Binding
  PROVE  Added(ps, n, b) \in AllProfiles
<1>1. ps[n] \in Seq(Binding)
  BY DEF AllProfiles
<1>2. Append(ps[n], b) \in Seq(Binding)
  BY <1>1
<1> QED
  BY <1>2 DEF Added, AllProfiles

\* The procedures of the macro language, in a batch and outside.
LEMMA DirectStep ==
  ASSUME IInv, Direct
  PROVE  /\ IInv'
         /\ <<profiles, active>>' # <<profiles, active>> => Projected'
<1>t. Types /\ PendingIsPrefix /\ depth \in Nat /\ startup \in BOOLEAN /\ staging \in Staging /\ profiles \in AllProfiles
      /\ active \in Profiles \cup {None}
  BY DEF IInv, Types, Selectable
<1>i. ASSUME /\ profiles' \in AllProfiles /\ active' \in Selectable(profiles') /\ Sound(trie')
             /\ pending' \in [Contexts -> Seq(Keys \cup {Esc})] /\ PendingIsPrefix',
             staging' \in Staging, UNCHANGED <<depth, startup>>
      PROVE  IInv'
  BY <1>t, <1>i DEF IInv, Types
<1>1. CASE KeymapReset
  <2>1. Store(NoProfiles, None) /\ UNCHANGED <<staging, depth, startup>>
    BY <1>1 DEF KeymapReset
  <2> QED
    BY <1>t, <1>i, <2>1, BindingsAre, StoreStep
<1>2. ASSUME NEW n \in Profiles, KeymapProfile(n)
      PROVE  IInv' /\ (<<profiles, active>>' # <<profiles, active>> => Projected')
  <2>1. CASE BatchActive
    <3>1. staging' \in Staging /\ Nothing /\ UNCHANGED <<depth, startup>>
      BY <1>t, <1>2, <2>1, BatchTypes DEF KeymapProfile
    <3> QED
      BY <1>t, <1>i, <3>1, NothingStep
  <2>2. CASE ~BatchActive
    <3>1. SetProfiles([profiles EXCEPT ![n] = <<>>]) /\ UNCHANGED <<staging, depth, startup>>
      BY <1>2, <2>2 DEF KeymapProfile
    <3>2. [profiles EXCEPT ![n] = <<>>] \in AllProfiles
      BY <1>t, BindingsAre DEF AllProfiles
    <3> QED
      BY <1>t, <1>i, <3>1, <3>2, SetProfilesStep
  <2> QED
    BY <2>1, <2>2
<1>3. ASSUME NEW n \in Profiles, NEW b \in Binding, KeymapBind(n, b)
      PROVE  IInv' /\ (<<profiles, active>>' # <<profiles, active>> => Projected')
  <2>1. CASE BatchActive
    <3>1. Nothing /\ UNCHANGED <<depth, startup>>
      BY <1>3, <2>1 DEF KeymapBind
    <3>2. staging' \in Staging
      <4>1. CASE Ensured.profiles[n] = None
        BY <1>t, <1>3, <2>1, <4>1, BatchTypes DEF KeymapBind
      <4>2. CASE Ensured.profiles[n] # None
        <5>1. Ensured.profiles \in AllProfiles
          BY <1>t, BatchTypes DEF Staging
        <5>2. Added(Ensured.profiles, n, b) \in AllProfiles
          BY <4>2, <5>1, AddedIs
        <5>3. staging' = [Ensured EXCEPT !.profiles = Added(Ensured.profiles, n, b), !.profilesDirty = TRUE]
          BY <1>3, <2>1, <4>2 DEF KeymapBind
        <5> QED
          BY <1>t, <5>2, <5>3, BatchTypes
      <4> QED
        BY <4>1, <4>2
    <3> QED
      BY <1>t, <1>i, <3>1, <3>2, NothingStep
  <2>2. CASE ~BatchActive
    <3>1. /\ IF profiles[n] = None THEN Nothing ELSE SetProfiles(Added(profiles, n, b))
          /\ UNCHANGED <<staging, depth, startup>>
      BY <1>3, <2>2 DEF KeymapBind
    <3>2. CASE profiles[n] = None
      BY <1>t, <1>i, <3>1, <3>2, NothingStep
    <3>3. CASE profiles[n] # None
      BY <1>t, <1>i, <3>1, <3>3, AddedIs, SetProfilesStep
    <3> QED
      BY <3>2, <3>3
  <2> QED
    BY <2>1, <2>2
<1>4. ASSUME NEW n \in Profiles \cup {None}, ActiveKeymapProfile(n)
      PROVE  IInv' /\ (<<profiles, active>>' # <<profiles, active>> => Projected')
  <2>1. CASE BatchActive
    <3>1. staging' \in Staging /\ Nothing /\ UNCHANGED <<depth, startup>>
      BY <1>t, <1>4, <2>1, BatchTypes DEF ActiveKeymapProfile
    <3> QED
      BY <1>t, <1>i, <3>1, NothingStep
  <2>2. CASE ~BatchActive
    <3>1. Store(profiles, Existing(profiles, n)) /\ UNCHANGED <<staging, depth, startup>>
      BY <1>4, <2>2 DEF ActiveKeymapProfile, SetActive
    <3> QED
      BY <1>t, <1>i, <3>1, BindingsAre, StoreStep
  <2> QED
    BY <2>1, <2>2
<1> QED
  BY <1>1, <1>2, <1>3, <1>4 DEF Direct

\* a batch has been applied: its profiles, its selection and the trie
Whole ==
    /\ profiles' = BatchProfiles
    /\ active' = Existing(BatchProfiles, BatchSelection)
    /\ staging.profilesDirty \/ staging.activeDirty => Projected'

\* The flush of a batch: what it leaves has its type, and a batch that was
\* accepted is there as a whole.
LEMMA FlushStep ==
  ASSUME IInv, Flush
  PROVE  /\ profiles' \in AllProfiles /\ active' \in Selectable(profiles') /\ Sound(trie')
         /\ pending' \in [Contexts -> Seq(Keys \cup {Esc})] /\ PendingIsPrefix'
         /\ staging' \in Staging
         /\ staging.initialized /\ staging' = Cleared => Whole
<1>t. Types /\ PendingIsPrefix /\ staging \in Staging /\ profiles \in AllProfiles /\ active \in Profiles \cup {None}
      /\ active \in Selectable(profiles) /\ Sound(trie)
  BY DEF IInv, Types, Selectable
<1>s. staging.profiles \in AllProfiles /\ staging.active \in Profiles \cup {None}
      /\ staging.profilesDirty \in BOOLEAN /\ staging.activeDirty \in BOOLEAN /\ staging.initialized \in BOOLEAN
  BY <1>t DEF Staging
<1>c. Cleared \in Staging /\ ~Cleared.profilesDirty /\ ~Cleared.initialized
  BY <1>t, BatchTypes DEF Cleared
<1>1. CASE ~staging.initialized
  <2>1. Nothing /\ staging' = staging
    BY <1>1 DEF Flush
  <2> QED
    BY <1>t, <1>c, <2>1, NothingStep
<1>2. CASE staging.initialized
  <2> DEFINE name  == Existing(staging.profiles, active)
             first == Build(BindingsOf(staging.profiles, name))
             taken == ~staging.profilesDirty \/ (Valid(staging.profiles) /\ first.ok)
             ps    == IF staging.profilesDirty /\ taken THEN staging.profiles ELSE profiles
             old   == IF staging.profilesDirty /\ taken THEN name ELSE active
             new   == Existing(ps, staging.active)
             built == Build(BindingsOf(ps, new))
             tries == staging.activeDirty /\ taken
             F == [profiles |-> ps,
                   active   |-> IF tries /\ built.ok THEN new ELSE old,
                   trie     |-> IF tries THEN built
                                ELSE IF staging.profilesDirty /\ Valid(staging.profiles) THEN first ELSE trie,
                   ok       |-> taken /\ (staging.activeDirty => built.ok),
                   rebuilt  |-> tries \/ (staging.profilesDirty /\ Valid(staging.profiles))]
  <2>1. /\ profiles' = F.profiles /\ active' = F.active /\ trie' = F.trie
        /\ pending' = IF F.rebuilt THEN ResetPending ELSE pending
        /\ staging' = IF F.ok THEN Cleared ELSE staging
    BY <1>2, Zenon DEF Flush, Flushed, Selected
  <2>2. /\ profiles' = ps
        /\ active' = IF tries /\ built.ok THEN new ELSE old
        /\ trie' = IF tries THEN built
                   ELSE IF staging.profilesDirty /\ Valid(staging.profiles) THEN first ELSE trie
        /\ pending' = IF tries \/ (staging.profilesDirty /\ Valid(staging.profiles)) THEN ResetPending ELSE pending
        /\ staging' = IF taken /\ (staging.activeDirty => built.ok) THEN Cleared ELSE staging
    <3> HIDE DEF taken, ps, old, new, built, tries, first, name
    <3> QED
      BY <2>1
  <2>3. name \in Selectable(staging.profiles) /\ BindingsOf(staging.profiles, name) \in Seq(Binding)
    BY <1>t, <1>s, BindingsAre DEF Selectable
  <2>4. ps \in AllProfiles /\ old \in Selectable(ps)
    BY <1>t, <1>s, <2>3
  <2>5. new \in Selectable(ps) /\ BindingsOf(ps, new) \in Seq(Binding)
    <3> HIDE DEF ps
    <3> QED
      BY <1>s, <2>4, BindingsAre DEF Selectable
  <2>6. Sound(first) /\ Sound(built)
    BY <2>3, <2>5, BuildIsSound
  <2> DEFINE Agrees(t, bs) == \A c \in Contexts, s \in (UNION {Prefixes(b[1]) : b \in Bound}) \ {<<>>} :
                                 Decide(t, c, s) = Reference(bs, c, s)
  <2>7. /\ first.ok => Agrees(first, BindingsOf(staging.profiles, name))
        /\ built.ok => Agrees(built, BindingsOf(ps, new))
    BY <2>3, <2>5, BuildProjects
  <2>8. Projected' <=> Agrees(trie', BindingsOf(profiles', active'))
    BY DEF Projected
  <2>9. ps = IF staging.profilesDirty /\ taken THEN staging.profiles ELSE profiles
    OBVIOUS
  <2>10. old = IF staging.profilesDirty /\ taken THEN name ELSE active
    OBVIOUS
  <2>11. taken <=> ~staging.profilesDirty \/ (Valid(staging.profiles) /\ first.ok)
    OBVIOUS
  <2>12. tries <=> staging.activeDirty /\ taken
    OBVIOUS
  <2> HIDE DEF taken, ps, old, new, built, tries, first, name, Agrees
  <2>13. profiles' \in AllProfiles /\ active' \in Selectable(profiles') /\ Sound(trie')
    BY <1>t, <2>2, <2>4, <2>5, <2>6
  <2>14. pending' \in [Contexts -> Seq(Keys \cup {Esc})] /\ PendingIsPrefix'
    <3>1. CASE pending' = ResetPending
      BY <3>1, ResetIsPrefix
    <3>2. CASE pending' # ResetPending
      <4>1. pending' = pending /\ trie' = trie
        BY <2>2, <3>2
      <4> QED
        BY <1>t, <4>1 DEF PendingIsPrefix, Types
    <3> QED
      BY <3>1, <3>2
  <2>15. staging' \in Staging
    BY <1>t, <1>c, <2>2
  <2>16. ASSUME staging' = Cleared  PROVE Whole
    <3>1. taken /\ (staging.activeDirty => built.ok)
      BY <1>2, <1>c, <2>2, <2>16
    <3>2. ps = BatchProfiles /\ profiles' = BatchProfiles
      BY <2>2, <2>9, <3>1 DEF BatchProfiles
    <3>3. CASE staging.activeDirty
      <4>1. trie' = built /\ active' = new /\ built.ok
        BY <2>2, <2>12, <3>1, <3>3
      <4>2. new = Existing(BatchProfiles, BatchSelection)
        BY <3>2, <3>3 DEF new, BatchSelection
      <4> QED
        BY <2>2, <2>7, <2>8, <3>2, <4>1, <4>2 DEF Whole
    <3>4. CASE ~staging.activeDirty /\ staging.profilesDirty
      <4>1. trie' = first /\ active' = name /\ ps = staging.profiles /\ first.ok
        BY <2>2, <2>9, <2>10, <2>11, <2>12, <3>1, <3>4
      <4>2. name = Existing(BatchProfiles, BatchSelection)
        BY <3>2, <3>4, <4>1 DEF name, BatchSelection
      <4> QED
        BY <2>2, <2>7, <2>8, <3>2, <4>1, <4>2 DEF Whole
    <3>5. CASE ~staging.activeDirty /\ ~staging.profilesDirty
      <4>1. active' = active /\ BatchProfiles = profiles /\ BatchSelection = active
        BY <2>2, <2>10, <2>12, <3>5 DEF BatchProfiles, BatchSelection
      <4>2. active = Existing(profiles, active)
        BY <1>t DEF Existing, Selectable
      <4> QED
        BY <3>2, <3>5, <4>1, <4>2 DEF Whole
    <3> QED
      BY <3>3, <3>4, <3>5
  <2> QED
    BY <2>13, <2>14, <2>15, <2>16
<1> QED
  BY <1>1, <1>2

\* The dialog's draft is canonical, so its trie is never refused.
LEMMA DraftStep ==
  ASSUME IInv, NEW ps \in Commits, NEW n \in Profiles \cup {None}, ApplyDraft(ps, n)
  PROVE  IInv' /\ Projected'
<1> DEFINE e == Existing(ps, n)
           bs == BindingsOf(ps, e)
<1>1. PICK d \in Drafts : ps = CanonicalDraft(d)
  BY DEF Commits
<1>2. \A m \in Profiles : d[m] # None => d[m] \in Seq(Binding)
  BY KeymapAssumption DEF Drafts
<1>3. \A m \in Profiles : ps[m] # None => ps[m] \in Seq(Binding) /\ Build(ps[m]).ok
  <2> SUFFICES ASSUME NEW m \in Profiles, ps[m] # None  PROVE ps[m] \in Seq(Binding) /\ Build(ps[m]).ok
    OBVIOUS
  <2>1. ps[m] = Canonical(d[m]) /\ d[m] # None
    BY <1>1 DEF CanonicalDraft
  <2> QED
    BY <1>2, <2>1, CanonicalIsClear, ClearIsBuilt
<1>4. ps \in AllProfiles
  <2>1. ps = [m \in Profiles |-> ps[m]]
    BY <1>1 DEF CanonicalDraft
  <2> QED
    BY <1>3, <2>1 DEF AllProfiles
<1>5. e \in Selectable(ps) /\ bs \in Seq(Binding)
  BY <1>4, BindingsAre DEF Selectable
<1>6. Build(<<>>).ok
  <2>1. <<>> \in Seq(Binding) /\ Len(<<>>) = 0
    OBVIOUS
  <2>2. Build(<<>>) = EmptyTrie
    BY <2>1, BuiltSteps DEF Build
  <2> QED
    BY <2>2 DEF EmptyTrie
<1>7. Build(bs).ok
  BY <1>3, <1>5, <1>6 DEF BindingsOf, Selectable
<1>8. trie' = Build(bs) /\ profiles' = ps /\ active' = e /\ pending' = ResetPending
      /\ UNCHANGED <<staging, depth, startup>>
  BY <1>7 DEF ApplyDraft
<1> HIDE DEF e, bs
<1>9. Projected'
  <2>1. BindingsOf(profiles', active') = bs
    BY <1>8 DEF bs
  <2> QED
    BY <1>5, <1>7, <1>8, <2>1, BuildProjects DEF Projected
<1> QED
  BY <1>4, <1>5, <1>8, <1>9, BuildIsSound, ResetIsPrefix DEF IInv, Types

\* A key is taken into the pending sequence only if the trie knows a longer one.
LEMMA ResolveStep ==
  ASSUME IInv, NEW c \in Contexts, NEW k \in Keys \cup {Esc}, Resolve(c, k)
  PROVE  IInv' /\ UNCHANGED <<profiles, active, staging>>
<1> DEFINE s == Append(pending[c], k)
           d == Decide(trie, c, s)
           new == IF pending[c] # <<>> /\ k = Esc THEN <<>> ELSE NewPending(c, k, d)
<1>1. UNCHANGED <<profiles, active, trie, staging, depth, startup>> /\ pending' = [pending EXCEPT ![c] = new]
  BY DEF Resolve
<1>2. pending \in [Contexts -> Seq(Keys \cup {Esc})]
  BY DEF IInv, Types
<1>3. s \in Seq(Keys \cup {Esc})
  BY <1>2
<1>4. new = <<>> \/ (new = s /\ d = "pending")
  BY DEF NewPending
<1>5. new \in Seq(Keys \cup {Esc}) /\ (new # <<>> => Decide(trie, c, new) = "pending")
  <2>1. <<>> \in Seq(Keys \cup {Esc})
    OBVIOUS
  <2>2. d = Decide(trie, c, s)
    OBVIOUS
  <2> HIDE DEF new, s, d
  <2> QED
    BY <1>3, <1>4, <2>1, <2>2
<1> HIDE DEF new
<1>6. PendingIsPrefix'
  BY <1>1, <1>2, <1>5 DEF PendingIsPrefix, IInv
<1>7. pending' \in [Contexts -> Seq(Keys \cup {Esc})]
  BY <1>1, <1>2, <1>5
<1> QED
  BY <1>1, <1>6, <1>7 DEF IInv, Types

\* Every step keeps the invariant; outside batches a changed selection is
\* projected; an accepted batch is applied as a whole.
LEMMA InvStep ==
  ASSUME IInv, [Next]_vars
  PROVE  /\ IInv'
         /\ depth = 0 /\ ~startup /\ <<profiles, active>>' # <<profiles, active>> => Projected'
         /\ BatchActive /\ staging.initialized /\ staging' = Cleared /\ startup' = startup => Whole
<1> DEFINE Changed == depth = 0 /\ ~startup /\ <<profiles, active>>' # <<profiles, active>>
           Taken == BatchActive /\ staging.initialized /\ staging' = Cleared /\ startup' = startup
           Goal == IInv' /\ (Changed => Projected') /\ (Taken => Whole)
<1>t. Types /\ PendingIsPrefix /\ depth \in Nat /\ startup \in BOOLEAN /\ staging \in Staging /\ profiles \in AllProfiles
      /\ active \in Profiles \cup {None}
  BY DEF IInv, Types, Selectable
<1>c. Cleared \in Staging /\ ~Cleared.profilesDirty /\ ~Cleared.initialized
  BY <1>t, BatchTypes DEF Cleared
<1>s. staging' = staging => ~Taken
  BY <1>c
<1>1. CASE Direct
  <2>1. IInv' /\ (<<profiles, active>>' # <<profiles, active>> => Projected')
    BY <1>1, DirectStep
  <2>2. staging' = staging \/ staging'.profilesDirty \/ staging' = Ensured
        \/ \E n \in Profiles \cup {None} : staging' = [Ensured EXCEPT !.active = n, !.activeDirty = TRUE]
    <3>e. Ensured \in Staging
      BY <1>t, BatchTypes
    <3>1. CASE KeymapReset
      BY <3>1 DEF KeymapReset
    <3>2. ASSUME NEW n \in Profiles, KeymapProfile(n)
          PROVE  staging' = staging \/ staging'.profilesDirty
      BY <3>2, <3>e DEF KeymapProfile, Staging
    <3>3. ASSUME NEW n \in Profiles, NEW b \in Binding, KeymapBind(n, b)
          PROVE  staging' = staging \/ staging'.profilesDirty \/ staging' = Ensured
      BY <3>3, <3>e DEF KeymapBind, Staging
    <3>4. ASSUME NEW n \in Profiles \cup {None}, ActiveKeymapProfile(n)
          PROVE  staging' = staging \/ staging' = [Ensured EXCEPT !.active = n, !.activeDirty = TRUE]
      BY <3>4 DEF ActiveKeymapProfile
    <3> QED
      BY <1>1, <3>1, <3>2, <3>3, <3>4 DEF Direct
  <2>3. Ensured.initialized /\ Ensured \in Staging
    BY <1>t, <1>c, BatchTypes DEF Ensured, Staging
  <2>4. ~Cleared.initialized
    BY DEF Cleared
  <2>5. ~Taken
    <3>1. \A n \in Profiles \cup {None} : [Ensured EXCEPT !.active = n, !.activeDirty = TRUE].initialized
      BY <2>3 DEF Staging
    <3> QED
      BY <1>s, <1>c, <2>2, <2>3, <2>4, <3>1
  <2> QED
    BY <2>1, <2>5
<1>2. CASE BeginBatch
  <2>1. Nothing /\ UNCHANGED <<staging, startup>> /\ depth' \in Nat
    BY <1>t, <1>2 DEF BeginBatch, Nothing
  <2> QED
    BY <1>t, <1>s, <2>1, NothingStep DEF IInv, Types
<1>3. CASE EndBatch
  <2>1. depth # 0 /\ depth' \in Nat /\ startup' = startup
    BY <1>t, <1>3 DEF EndBatch
  <2>2. CASE Nothing /\ UNCHANGED staging
    BY <1>t, <1>s, <2>1, <2>2, NothingStep DEF IInv, Types
  <2>3. CASE Flush
    BY <1>t, <2>1, <2>3, FlushStep DEF IInv, Types
  <2> QED
    BY <1>3, <2>2, <2>3 DEF EndBatch
<1>4. CASE StartupFlush
  <2>1. startup /\ Flush /\ UNCHANGED <<depth, startup>>
    BY <1>4 DEF StartupFlush
  <2> QED
    BY <1>t, <2>1, FlushStep DEF IInv, Types
<1>5. CASE EndStartup
  <2>1. startup /\ ~startup' /\ staging' \in Staging /\ Nothing /\ depth' = depth /\ startup' \in BOOLEAN
    BY <1>t, <1>c, <1>5 DEF EndStartup, Nothing
  <2> QED
    BY <1>t, <2>1, NothingStep DEF IInv, Types
<1>6. ASSUME NEW ps \in Commits, NEW n \in Profiles \cup {None}, ApplyDraft(ps, n)  PROVE Goal
  <2>1. staging' = staging
    BY <1>6 DEF ApplyDraft
  <2> QED
    BY <1>6, <1>s, <2>1, DraftStep
<1>7. ASSUME NEW c \in Contexts, NEW k \in Keys \cup {Esc}, Resolve(c, k)  PROVE Goal
  BY <1>7, <1>s, ResolveStep
<1>8. CASE UNCHANGED vars
  <2>1. Nothing /\ UNCHANGED <<staging, depth, startup>>
    BY <1>8 DEF vars, Nothing
  <2> QED
    BY <1>t, <1>s, <2>1, NothingStep DEF IInv, Types
<1> QED
  BY <1>1, <1>2, <1>3, <1>4, <1>5, <1>6, <1>7, <1>8 DEF Next

\* Without profiles there is nothing to decide.
LEMMA InvInit == Init => IInv
<1> SUFFICES ASSUME Init  PROVE IInv
  OBVIOUS
<1>1. profiles \in AllProfiles /\ active \in Selectable(profiles)
  BY BindingsAre DEF Init
<1>2. Sound(trie)
  BY EmptyIsSound DEF Init
<1>3. staging \in Staging
  BY BindingsAre DEF Init, Cleared, Staging
<1> QED
  BY <1>1, <1>2, <1>3 DEF Init, IInv, Types, PendingIsPrefix
-----------------------------------------------------------------------------
(***************************************************************************)
(* The theorems.                                                           *)
(***************************************************************************)

\* The invariant is inductive.
THEOREM Invariance == Spec => []IInv
<1>1. IInv /\ [Next]_vars => IInv'
  BY InvStep
<1> QED
  BY InvInit, <1>1, PTL DEF Spec

\* The selected profile exists, and the trie consists of paths of bindings and has
\* only real targets, after any sequence of procedures, batches and drafts.
THEOREM TypeCorrect == Spec => []TypeOK
<1>1. IInv => TypeOK
  <2> SUFFICES ASSUME IInv  PROVE TypeOK
    OBVIOUS
  <2>1. trie.nodes \subseteq Paths /\ trie.terminal \in Terminals /\ DOMAIN trie.terminal \subseteq trie.nodes
    BY DEF IInv, Types, Sound, Trie
  <2>2. \A p \in DOMAIN trie.terminal : trie.terminal[p] \in Targets
    BY <2>1, TerminalsAre
  <2>3. /\ staging.profiles \in AllProfiles /\ staging.active \in Profiles \cup {None}
        /\ {staging.initialized, staging.profilesDirty, staging.activeDirty, startup} \subseteq BOOLEAN
    BY DEF IInv, Types, Staging
  <2> QED
    BY <2>1, <2>2, <2>3 DEF IInv, Types, TypeOK, Selectable
<1> QED
  BY <1>1, Invariance, PTL

\* Whatever a macro, a batch or the dialog changes between two keys, the keys typed
\* so far begin a sequence of the present trie.
THEOREM KeysAreNotSwallowed == Spec => []PendingIsPrefix
<1>1. IInv => PendingIsPrefix
  BY DEF IInv
<1> QED
  BY <1>1, Invariance, PTL

\* No terminal of the trie hides another one, also when rebuild() failed half way.
THEOREM NoHiddenTerminal == Spec => []PrefixFree
<1>1. IInv => PrefixFree
  BY DEF IInv, Types, Sound, PrefixFree
<1> QED
  BY <1>1, Invariance, PTL

\* canonicalizeKeymapProfiles() leaves, of any stored profile, bindings that the
\* trie accepts and decides as they stand.
THEOREM DialogCanCommit == Spec => []DraftIsAccepted
<1>1. IInv => DraftIsAccepted
  <2> SUFFICES ASSUME IInv, NEW n \in Profiles, profiles[n] # None
               PROVE  /\ Build(Canonical(profiles[n])).ok
                      /\ \A b \in Binding : Decide(Build(Canonical(profiles[n])), b.context, b.sequence)
                                            = Reference(Canonical(profiles[n]), b.context, b.sequence)
    BY DEF DraftIsAccepted
  <2>1. profiles[n] \in Seq(Binding)
    BY DEF IInv, Types, AllProfiles
  <2>2. Canonical(profiles[n]) \in Seq(Binding) /\ Build(Canonical(profiles[n])).ok
    BY <2>1, CanonicalIsClear, ClearIsBuilt
  <2> QED
    BY <2>2, SlotIsPath, BuildDecides
<1> QED
  BY <1>1, Invariance, PTL

\* Outside batches, a changed profile or selection is what the trie decides by.
THEOREM ChangesAreProjected == Spec => ChangeIsProjected
<1>1. IInv /\ [Next]_vars
        => [depth = 0 /\ ~startup /\ <<profiles, active>>' # <<profiles, active>> => Projected']_vars
  BY InvStep
<1> QED
  BY <1>1, Invariance, PTL DEF Spec, ChangeIsProjected

\* An accepted batch is applied as a whole: its profiles are stored, its selection
\* (or the former one) is active if it exists, and the trie decides by it.
THEOREM BatchesAreWhole == Spec => BatchIsApplied
<1>1. IInv /\ [Next]_vars
        => [BatchActive /\ staging.initialized /\ staging' = Cleared /\ startup' = startup
            => /\ profiles' = BatchProfiles
               /\ active' = Existing(BatchProfiles, BatchSelection)
               /\ staging.profilesDirty \/ staging.activeDirty => Projected']_vars
  BY InvStep DEF Whole
<1> QED
  BY <1>1, Invariance, PTL DEF Spec, BatchIsApplied
=============================================================================
