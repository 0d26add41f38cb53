----------------------------- MODULE TextValues -----------------------------
(***************************************************************************)
(* What a text document and its snapshots promise: every owner has a text  *)
(* of its own.  An edit replaces a range of one owner's text, a snapshot   *)
(* or a copy starts with the document's text, restoring a snapshot gives   *)
(* its text (and, unless it is empty, its version) back.  TextDocument is  *)
(* checked to implement this.                                              *)
(***************************************************************************)
EXTENDS Naturals, Sequences

CONSTANTS
    Char,         \* characters
    Owner, Main,  \* the owners of texts; Main is the editor's document
    MaxInsert, MaxWhole, MaxOps, MaxVersion

VARIABLES
    role,         \* what an owner is: "main", "snapshot", "copy" or "none"
    text,         \* its text
    version,      \* its version
    ops,          \* operations of the open transaction applied so far
    mutated       \* one of them changed something

vars == <<role, text, version, ops, mutated>>

Inserts == UNION {[1..n -> Char] : n \in 0..MaxInsert}
Wholes  == UNION {[1..n -> Char] : n \in 0..MaxWhole}

\* t with the range [s, e) replaced by x
Spliced(t, s, e, x) == SubSeq(t, 1, s) \o x \o SubSeq(t, e + 1, Len(t))

\* whether the code counts that as a mutation: equal text is one too
Mutates(s, e, x) == s < e \/ x # <<>>

Init ==
    /\ role = [o \in Owner |-> IF o = Main THEN "main" ELSE "none"]
    /\ text = [o \in Owner |-> <<>>]
    /\ version = [o \in Owner |-> 0]
    /\ ops = 0 /\ mutated = FALSE

\* one operation of a transaction on the document
Splice ==
    /\ ops < MaxOps
    /\ ops' = ops + 1
    /\ UNCHANGED <<role, version>>
    /\ LET now == text
           new == text'
       IN  \E s \in 0..Len(now[Main]), x \in Inserts : \E e \in s..Len(now[Main]) :
              /\ new = [now EXCEPT ![Main] = Spliced(@, s, e, x)]
              /\ mutated' = (mutated \/ Mutates(s, e, x))

\* the whole text is set, within a transaction
SetText ==
    /\ ops < MaxOps
    /\ ops' = ops + 1
    /\ UNCHANGED <<role, version>>
    /\ \E t \in Wholes : text' = [text EXCEPT ![Main] = t]
    /\ mutated' = (mutated \/ text' # text)

\* the transaction ends: one new version if anything was changed
Commit ==
    /\ ops > 0
    /\ version' = [version EXCEPT ![Main] = IF mutated THEN @ + 1 ELSE @]
    /\ ops' = 0 /\ mutated' = FALSE
    /\ UNCHANGED <<role, text>>

\* all of the text is exchanged at once
Exchange ==
    /\ ops = 0
    /\ version' = [version EXCEPT ![Main] = @ + 1]
    /\ UNCHANGED <<role, ops, mutated>>
    /\ \E t \in Wholes : text' = [text EXCEPT ![Main] = t]

Take(o, r) ==
    /\ ops = 0
    /\ role[o] = "none"
    /\ role' = [role EXCEPT ![o] = r]
    /\ text' = [text EXCEPT ![o] = text[Main]]
    /\ version' = [version EXCEPT ![o] = version[Main]]
    /\ UNCHANGED <<ops, mutated>>

\* a background macro edits its copy
CopySplice(o) ==
    /\ role[o] = "copy"
    /\ UNCHANGED <<role, ops, mutated>>
    /\ LET now == text
           new == text'
       IN  \E s \in 0..Len(now[o]), x \in Inserts : \E e \in s..Len(now[o]) :
              /\ new = [now EXCEPT ![o] = Spliced(@, s, e, x)]
              /\ version' = [version EXCEPT ![o] = IF Mutates(s, e, x) THEN @ + 1 ELSE @]

Restore(o) ==
    /\ ops = 0
    /\ role[o] = "snapshot"
    /\ text' = [text EXCEPT ![Main] = text[o]]
    /\ version' = [version EXCEPT ![Main] = IF text[o] = <<>> THEN @ ELSE version[o]]
    /\ UNCHANGED <<role, ops, mutated>>

Drop(o) ==
    /\ role[o] \in {"snapshot", "copy"}
    /\ role' = [role EXCEPT ![o] = "none"]
    /\ text' = [text EXCEPT ![o] = <<>>]
    /\ version' = [version EXCEPT ![o] = 0]
    /\ UNCHANGED <<ops, mutated>>

Next ==
    \/ Splice \/ SetText \/ Exchange \/ Commit
    \/ \E o \in Owner : \/ Take(o, "snapshot") \/ Take(o, "copy") \/ Restore(o) \/ Drop(o)
                        \/ CopySplice(o)

Spec == Init /\ [][Next]_vars
=============================================================================
