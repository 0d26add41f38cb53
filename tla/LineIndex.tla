------------------------------ MODULE LineIndex ------------------------------
(***************************************************************************)
(* The line index of a document and its warmup.  The index is either exact *)
(* (the start of every line, for a document that began empty) or lazy: it  *)
(* covers a prefix, with a checkpoint every few lines.  An edit shifts it  *)
(* or cuts it off, a query completes it, and scans of spans of the text,   *)
(* done by the coprocessor on a snapshot and around the cursor, extend it. *)
(* The spans under scan are reserved in a ledger of the document; the      *)
(* editor knows the tasks it has submitted.  Undo and redo bring an older  *)
(* version, text and index back.                                           *)
(*                                                                         *)
(* Offsets count characters.  Task ids are never reused while a task is    *)
(* under way.  Left out: estimates for lines that are not indexed, the     *)
(* piece table (see TextDocument) and the other effects of a commit (see   *)
(* TextBuffer); a document shared by two editors.                          *)
(***************************************************************************)
EXTENDS Integers, Sequences, FiniteSets, FiniteSetsExt, SequencesExt

CONSTANTS
    Loads,        \* texts of files
    Inserts,      \* texts that an edit inserts; <<>> for a plain erasure
    MaxLen,       \* longest text
    MaxChange,    \* characters that an edit erases and inserts
    MaxVersion, MaxDocuments, MaxFlight,
    Stride,       \* kLazyLineIndexStride: lines per checkpoint, 4096
    ProbeLimit,   \* kLazyLineIndexEraseProbeLimit: longest erasure looked at, 4096
    PieceStride,  \* kPiecewiseLineIndexCheckpointStride, 64
    Span,         \* kLineIndexPacketBytes: characters of a scan, 8M
    Budget        \* allowedCoreCount: scans at a time

ASSUME LineIndexAssumption ==
    /\ {MaxLen, MaxChange, MaxVersion, MaxDocuments, MaxFlight} \subseteq Nat
    /\ ProbeLimit \in Nat
    /\ {Stride, PieceStride, Span, Budget} \subseteq Nat \ {0}
    /\ \A t \in Loads \cup Inserts : t \in Seq({"x", "r", "n"}) /\ Len(t) <= MaxLen

VARIABLES
    doc,     \* the document with its index
    warm,    \* mLineIndexWarmupState of the editor
    flight,  \* scans submitted and not delivered
    undos, redos   \* snapshots

vars == <<doc, warm, flight, undos, redos>>
-----------------------------------------------------------------------------
(* Texts *)

\* where lines end: after an LF, and after a CR with no LF behind it
Breaks(t) == {o \in 1..Len(t) : t[o] = "n" \/ (t[o] = "r" /\ (o = Len(t) \/ t[o + 1] # "n"))}

Within(t, s, e) == {o \in Breaks(t) : s < o /\ o <= e}

\* a CR before offset p and an LF at offset q
CrLf(t, p, q) == p > 0 /\ q < Len(t) /\ t[p] = "r" /\ t[q + 1] = "n"

\* line breaks in a range as the bytes show them: an LF after a CR is none, and
\* neither is a CR at the end with its LF outside
CountLineBreaks(t, s, e) ==
    LET cr == Cardinality({o \in s + 1..e : t[o] = "r"})
        lf == Cardinality({o \in s + 1..e : t[o] = "n" /\ ~(o > 1 /\ t[o - 1] = "r")})
    IN  cr + lf - (IF cr + lf > 0 /\ CrLf(t, e, e) THEN 1 ELSE 0)

\* the result of scanning a span: its line breaks, and every Stride-th of them
ScanSpan(t, s, e, id) ==
    LET Rank(o) == Cardinality(Within(t, s, o))
    IN  [res |-> id, s |-> s, e |-> e, count |-> Cardinality(Within(t, s, e)),
         checks |-> {<<o, Rank(o)>> : o \in {p \in Within(t, s, e) : Rank(p) % Stride = 0}}]
-----------------------------------------------------------------------------
(* The index of a document *)

ClearLedger(d) == [d EXCEPT !.packets = {}, !.reserved = {}, !.nextId = 1]

ResetLazy(d) ==
    ClearLedger([d EXCEPT !.checks = {<<0, 0>>}, !.off = 0, !.line = 0, !.total = 1,
                          !.complete = (d.text = <<>>)])

\* torn (history): an edit has joined or split a CR LF pair, see Torn
NewDocument(id) ==
    [id |-> id, text |-> <<>>, version |-> 0, starts |-> {0}, checks |-> {<<0, 0>>}, off |-> 0, line |-> 0,
     complete |-> TRUE, total |-> 1, packets |-> {}, reserved |-> {}, nextId |-> 1, torn |-> FALSE]

\* initializeFromOriginal, initializeFromMappedSource: the exact index is dropped
WithText(d, t) == ResetLazy([d EXCEPT !.text = t, !.starts = {}, !.torn = FALSE])

Loaded(id, t) == [WithText(NewDocument(id), t) EXCEPT !.version = 1]

Exact(d) == d.starts # {}
Known(d) == Exact(d) \/ d.complete

LastCheck(d) == CHOOSE c \in d.checks : \A k \in d.checks : k[1] <= c[1]

\* ensureLazyIndexComplete, with the stride of the text's representation
Complete(d, stride) ==
    LET ends == Within(d.text, d.off, Len(d.text))
        Line(o) == d.line + Cardinality(Within(d.text, d.off, o))
        last == Max(ends \cup {d.off})
    IN  IF d.complete THEN d
        ELSE [d EXCEPT !.off = last, !.line = Line(last), !.complete = TRUE, !.total = Line(last) + 1,
                       !.checks = @ \cup {<<o, Line(o)>> : o \in {p \in ends : Line(p) % stride = 0}}]

\* lineIndex(pos); at the end of the text it completes the index first
LineIndexAt(d, pos) ==
    LET size == Len(d.text)
        at == IF pos = size /\ size > 0 THEN size - 1 ELSE pos
        below == {c \in d.checks : c[1] <= pos}
        check == CHOOSE c \in below : \A k \in below : k[1] <= c[1]
    IN  IF Exact(d)
        THEN IF pos = size /\ size > 0 /\ d.text[size] # "x" THEN Cardinality(d.starts) - 1
             ELSE Cardinality({s \in d.starts : s <= at}) - 1
        ELSE IF pos = size THEN Complete(d, Stride).total - 1
        ELSE check[2] + CountLineBreaks(d.text, check[1], pos)

\* Mutant: a complete index stays complete
StaysComplete(d, p) ==
    LET c == ClearLedger([d EXCEPT !.checks = {k \in @ : k[1] <= p}])
    IN  [c EXCEPT !.off = LastCheck(c)[1], !.line = LastCheck(c)[2]]

\* invalidateLazyLineIndexFrom: checkpoints up to the edit are kept, one at its
\* offset too
InvalidateFrom(d, p) ==
    LET c == ClearLedger([d EXCEPT !.checks = {k \in @ : k[1] <= p}])
    IN  [c EXCEPT !.off = LastCheck(c)[1], !.line = LastCheck(c)[2], !.complete = FALSE,
                  !.total = LastCheck(c)[2] + 1]

ShiftForInsert(d, p, n) ==
    LET Moved(o) == IF o > p THEN o + n ELSE o
    IN  ClearLedger([d EXCEPT !.checks = {<<Moved(c[1]), c[2]>> : c \in @}, !.off = Moved(@)])

\* Mutant: the indexed prefix is not shortened
KeepsOffset(d, s, e) ==
    LET Moved(o) == IF o >= e THEN o - (e - s) ELSE IF o > s THEN s ELSE o
    IN  ClearLedger([d EXCEPT !.checks = {<<Moved(c[1]), c[2]>> : c \in @}])

ShiftForErase(d, s, e) ==
    LET Moved(o) == IF o >= e THEN o - (e - s) ELSE IF o > s THEN s ELSE o
    IN  ClearLedger([d EXCEPT !.checks = {<<Moved(c[1]), c[2]>> : c \in @}, !.off = Moved(@)])

\* the exact index: starts behind the edit move, the lines of the edit are new
StartsAfterInsert(d, p, x) ==
    {s \in d.starts : s <= p} \cup {s + Len(x) : s \in {q \in d.starts : q > p}}
        \cup {p + o : o \in Breaks(x)}

\* t is the text without [s, e); the lines up to the first kept start are
\* searched again
StartsAfterErase(d, t, s, e) ==
    LET kept == {q \in d.starts : q <= s}
        moved == {q - (e - s) : q \in {r \in d.starts : r > e}}
        found == {o \in Breaks(t) : o > Max(kept) /\ \A q \in moved : o < q}
    IN  kept \cup moved \cup found

Erased(d, s, e) ==
    LET t == SubSeq(d.text, 1, s) \o SubSeq(d.text, e + 1, Len(d.text))
        preserve == /\ ~Exact(d) /\ d.complete /\ e - s <= ProbeLimit
                    /\ CountLineBreaks(d.text, s, e) = 0 /\ ~CrLf(d.text, s, e)
        lazy == IF preserve THEN ShiftForErase([d EXCEPT !.text = t], s, e) ELSE InvalidateFrom([d EXCEPT !.text = t], s)
    IN  IF s = e THEN d
        ELSE [lazy EXCEPT !.starts = IF Exact(d) THEN StartsAfterErase(d, t, s, e) ELSE {},
                          !.torn = @ \/ CrLf(d.text, s, e)]

\* an insertion that splits a CR LF pair, or makes one with what is before or
\* behind it
Torn(t, p, x) == CrLf(t, p, p) \/ CrLf(SubSeq(t, 1, p) \o x, p, p) \/ CrLf(x \o SubSeq(t, p + 1, Len(t)), Len(x), Len(x))

Inserted(d, p, x) ==
    LET next == [d EXCEPT !.text = SubSeq(@, 1, p) \o x \o SubSeq(@, p + 1, Len(@))]
        lazy == IF Breaks(x) # {} THEN InvalidateFrom(next, p) ELSE ShiftForInsert(next, p, Len(x))
    IN  IF x = <<>> THEN d
        ELSE [lazy EXCEPT !.starts = IF Exact(d) THEN StartsAfterInsert(d, p, x) ELSE {},
                          !.torn = @ \/ Torn(d.text, p, x)]

\* replace(): one version for both parts
Replaced(d, s, e, x) == [Inserted(Erased(d, s, e), s, x) EXCEPT !.version = @ + 1]

\* a snapshot for undo: an exact index is reduced to one checkpoint, Stride
\* lines before the cursor's
Snapshot(d, cursor) ==
    LET Start(n) == CHOOSE s \in d.starts : Cardinality({q \in d.starts : q < s}) = n
        at == IF cursor = Len(d.text) /\ cursor > 0 THEN cursor - 1 ELSE cursor
        focus == Cardinality({s \in d.starts : s <= at}) - 1
        n == IF focus > Stride THEN focus - Stride ELSE 0
        bare == ClearLedger(d)
    IN  IF Exact(d)
        THEN [bare EXCEPT !.starts = {}, !.checks = {<<0, 0>>, <<Start(n), n>>}, !.off = Start(n), !.line = n,
                          !.complete = (d.text = <<>>), !.total = n + 1]
        ELSE bare

\* the snapshots that may be taken now; the cursor matters to an exact index only
Snapshots(d) == {Snapshot(d, cursor) : cursor \in IF Exact(d) THEN 0..Len(d.text) ELSE {0}}

\* restoreFromSnapshot; an empty text keeps the version
Restored(d, s) ==
    IF s.text # <<>> THEN s
    ELSE IF d.text = <<>> THEN d
    ELSE WithText(d, <<>>)
-----------------------------------------------------------------------------
(* The ledger of scans *)

Release(d, id) == [d EXCEPT !.reserved = {r \in @ : r.id # id}]

\* characters that are neither indexed nor scanned nor reserved
Free(d) ==
    {b \in d.off..Len(d.text) - 1 : \A k \in d.packets \cup d.reserved : ~(k.s <= b /\ b < k.e)}

\* the next free span behind, and before, a cursor
EofSpans(free, c) ==
    LET s == Min({b \in free : b >= c})
    IN  IF \E b \in free : b >= c THEN {<<s, Max({e \in s + 1..s + Span : s..e - 1 \subseteq free})>>} ELSE {}

BofSpans(free, c) ==
    LET e == Max({b \in free : b < c}) + 1
    IN  IF \E b \in free : b < c THEN {<<Min({s \in e - Span..e - 1 : s..e - 1 \subseteq free}), e>>} ELSE {}

\* a round of reserveLineIndexScanSpans: a span behind the focus or before it,
\* in turn
ReserveOne(a) ==
    LET eof == EofSpans(Free(a.d), a.eof)
        bof == BofSpans(Free(a.d), a.bof)
        toEof == eof # {} /\ (a.preferEof \/ bof = {})
        sp == CHOOSE q \in (IF toEof THEN eof ELSE bof) : TRUE
        r == [id |-> a.d.nextId, s |-> sp[1], e |-> sp[2]]
    IN  IF eof \cup bof = {} THEN a
        ELSE [d |-> [a.d EXCEPT !.reserved = @ \cup {r}, !.nextId = @ + 1], new |-> a.new \cup {r},
              eof |-> IF toEof THEN r.e ELSE a.eof, bof |-> IF toEof THEN a.bof ELSE r.s,
              preferEof |-> ~a.preferEof]

\* reserveLineIndexScanSpans: at most n spans
Reserve(d, focus, n) ==
    LET after[i \in 0..n] ==
            IF i = 0 THEN [d |-> d, new |-> {}, eof |-> focus, bof |-> focus, preferEof |-> TRUE]
            ELSE ReserveOne(after[i - 1])
    IN  after[n]

\* the indexed prefix takes up the span that starts where it ends
Extended(d) ==
    LET ready == {p \in d.packets : p.s = d.off}
        p == CHOOSE q \in ready : TRUE
    IN  IF ready = {} THEN d
        ELSE [d EXCEPT !.off = p.e, !.line = @ + p.count, !.packets = @ \ {p},
                       !.checks = @ \cup {<<c[1], d.line + c[2]>> : c \in {k \in p.checks : k[1] > LastCheck(d)[1]}}]

\* ... and then the next one, until there is none
Joined(d) ==
    LET n == Cardinality(d.packets)
        after[i \in 0..n] == IF i = 0 THEN d ELSE Extended(after[i - 1])
    IN  after[n]

\* adoptLineIndexScanPacket, after the check of the version
Adopt(d, p) ==
    LET free == Release(d, p.res)
        next == Joined([free EXCEPT !.packets = @ \cup {p}])
        full == [next EXCEPT !.complete = TRUE, !.total = next.line + 1, !.packets = {}]
        Same(q) == q.s = p.s /\ q.e = p.e
    IN  IF p.e <= p.s \/ p.e > Len(d.text) THEN [ok |-> FALSE, d |-> d]
        ELSE IF p.e <= d.off \/ (p.s >= d.off /\ \E q \in d.packets : Same(q)) THEN [ok |-> TRUE, d |-> free]
        ELSE IF p.s < d.off \/ \E q \in d.packets : p.s < q.e /\ p.e > q.s THEN [ok |-> FALSE, d |-> free]
        ELSE [ok |-> TRUE, d |-> IF next.off = Len(d.text) THEN full ELSE next]
-----------------------------------------------------------------------------
(* The warmup of an editor.  A state is its document, its tasks and the
   scans that are under way. *)

Idle == [id |-> 0, version |-> 0, focus |-> -1, tasks |-> {}]

\* Mutant: the reservations stay
KeepsReservations(w) ==
    LET ids == {t.id : t \in w.warm.tasks}
    IN  [w EXCEPT !.warm = Idle, !.flight = {IF f.id \in ids THEN [f EXCEPT !.cancelled = TRUE] ELSE f : f \in @}]

\* cancelLineIndexWarmup: the tasks are told, and forgotten
CancelWarmup(w) ==
    LET ids == {t.id : t \in w.warm.tasks}
    IN  [doc |-> [w.doc EXCEPT !.reserved = {r \in @ : \A t \in w.warm.tasks : t.res # r.id}], warm |-> Idle,
         flight |-> {IF f.id \in ids THEN [f EXCEPT !.cancelled = TRUE] ELSE f : f \in w.flight}]

\* clearLineIndexWarmupTask
ClearTask(w, id) ==
    [w EXCEPT !.warm.tasks = {t \in @ : t.id # id},
              !.doc.reserved = {r \in @ : \A t \in w.warm.tasks : t.id = id => t.res # r.id}]

\* the tasks belong to the document and to the version that is there now
SameSource(w) == w.warm.id = w.doc.id /\ w.warm.version = w.doc.version

\* a focus in another packet starts a new generation
Focused(w, focus) ==
    IF w.focus # -1 /\ w.focus \div Span = focus \div Span THEN w
    ELSE [w EXCEPT !.focus = focus, !.tasks = {[t EXCEPT !.current = FALSE] : t \in @}]

\* one task per reservation, each with a snapshot of the text
Submitted(w, new) ==
    LET ids == (1..(Cardinality(w.flight) + Cardinality(new))) \ {f.id : f \in w.flight}
        Id(r) == CHOOSE i \in ids : Cardinality({j \in ids : j < i}) = Cardinality({q \in new : q.id < r.id})
    IN  [w EXCEPT !.warm.tasks = @ \cup {[id |-> Id(r), res |-> r.id, current |-> TRUE] : r \in new},
                  !.flight = @ \cup {[id |-> Id(r), doc |-> w.doc.id, version |-> w.doc.version, cancelled |-> FALSE,
                                      packet |-> ScanSpan(w.doc.text, r.s, r.e, r.id)] : r \in new}]

\* scheduleLineIndexWarmupIfNeeded
Scheduled(w, cursor) ==
    LET other == [CancelWarmup(w) EXCEPT !.warm.id = w.doc.id, !.warm.version = w.doc.version]
        base == IF SameSource(w) THEN w ELSE other
        aimed == [base EXCEPT !.warm = Focused(@, cursor)]
        running == Cardinality({t \in aimed.warm.tasks : t.current})
        reserved == Reserve(aimed.doc, aimed.warm.focus, Budget - running)
    IN  CASE Known(w.doc) -> CancelWarmup(w)
          [] ~Known(w.doc) /\ running >= Budget -> aimed
          [] OTHER -> Submitted([aimed EXCEPT !.doc = reserved.d], reserved.new)

\* Mutant: any result for this version will do
AnyOfVersion(w, f) == w.doc.id = f.doc /\ w.doc.version = f.version

\* the dispatcher adopts a result of the editor's own tasks only
Owned(w, f) == w.doc.id = f.doc /\ w.doc.version = f.version /\ f.id \in {t.id : t \in w.warm.tasks}

\* Mutant: the next span is not asked for
NotContinued(w, f) ==
    LET a == Adopt(w.doc, f.packet)
        done == ClearTask([w EXCEPT !.doc = a.d], f.id)
    IN  IF ~Owned(w, f) THEN ClearTask(w, f.id)
        ELSE IF a.ok /\ Known(a.d) THEN CancelWarmup(done) ELSE done

\* a completed scan: applyLineIndexWarmup and, when it was adopted,
\* continueComputeWarmupIfNeeded; the cursor is where it was
Applied(w, f) ==
    LET a == Adopt(w.doc, f.packet)
        done == ClearTask([w EXCEPT !.doc = a.d], f.id)
        rest == IF Known(a.d) THEN CancelWarmup(done) ELSE done
    IN  CASE ~Owned(w, f) -> ClearTask(w, f.id)
          [] Owned(w, f) /\ ~a.ok -> done
          [] OTHER -> Scheduled(rest, w.warm.focus)
-----------------------------------------------------------------------------
State == [doc |-> doc, warm |-> warm, flight |-> flight]

Becomes(w) == doc' = w.doc /\ warm' = w.warm /\ flight' = w.flight

\* where the cursor may be: in the middle or at the end (a bound); it does not
\* matter once the lines are known
Cursors(d) == IF Known(d) THEN {0} ELSE {Len(d.text) \div 2, Len(d.text)}

\* the new document is adopted, and its warmup asked for
Commit(d) == \E cursor \in Cursors(d) : Becomes(Scheduled([State EXCEPT !.doc = d], cursor))

\* the user acts while at most MaxFlight scans are under way
Room == Cardinality(flight) <= MaxFlight

Init ==
    /\ \/ doc = NewDocument(1)
       \/ \E t \in Loads : doc = Loaded(1, t)
    /\ warm = Idle /\ flight = {} /\ undos = <<>> /\ redos = <<>>

\* an edit: the snapshot for undo, the replacement, the commit
Edit ==
    /\ Room /\ doc.version < MaxVersion
    /\ \E s \in 0..Len(doc.text), x \in Inserts, snapshot \in Snapshots(doc) : \E e \in s..Len(doc.text) :
          /\ e - s + Len(x) \in 1..MaxChange
          /\ Len(doc.text) - (e - s) + Len(x) <= MaxLen
          /\ undos' = Append(undos, snapshot)
          /\ redos' = <<>>
          /\ Commit(Replaced(doc, s, e, x))

Undo ==
    /\ Room /\ undos # <<>>
    /\ \E snapshot \in Snapshots(doc) : redos' = Append(redos, snapshot)
    /\ undos' = Front(undos)
    /\ Commit(Restored(doc, Last(undos)))

Redo ==
    /\ Room /\ redos # <<>>
    /\ \E snapshot \in Snapshots(doc) : undos' = Append(undos, snapshot)
    /\ redos' = Front(redos)
    /\ Commit(Restored(doc, Last(redos)))

\* another file is loaded into the editor
LoadFile ==
    /\ Room /\ doc.id < MaxDocuments
    /\ \E t \in Loads : Commit(Loaded(doc.id + 1, t))
    /\ undos' = <<>> /\ redos' = <<>>

\* the cursor moves: moveCursor() asks for the warmup
MoveCursor == Room /\ Commit(doc) /\ UNCHANGED <<undos, redos>>

\* a query needs the last line; its cost is the user's
QueryLineCount ==
    /\ ~Known(doc)
    /\ \E stride \in {Stride, PieceStride} : doc' = Complete(doc, stride)
    /\ UNCHANGED <<warm, flight, undos, redos>>

\* a result arrives.  A scan that was cancelled may be completed all the same
Completed(f) ==
    /\ Becomes(Applied([State EXCEPT !.flight = @ \ {f}], f))
    /\ UNCHANGED <<undos, redos>>

Cancelled(f) ==
    /\ f.cancelled
    /\ Becomes(ClearTask([State EXCEPT !.flight = @ \ {f}], f.id))
    /\ UNCHANGED <<undos, redos>>

Next ==
    \/ Edit \/ Undo \/ Redo \/ LoadFile \/ MoveCursor \/ QueryLineCount
    \/ \E f \in flight : Completed(f) \/ Cancelled(f)

Spec == Init /\ [][Next]_vars
-----------------------------------------------------------------------------
(* Properties *)

\* The index never points outside the text: neither its prefix and its
\* checkpoints (after an erasure that only shifts them) nor the scanned and the
\* reserved spans of the ledger, which every edit has to clear.
TypeOK ==
    /\ doc.text \in Seq({"x", "r", "n"}) /\ Len(doc.text) <= MaxLen
    /\ {doc.version, doc.id, doc.line, doc.total, doc.nextId} \subseteq Nat
    /\ doc.starts \cup {c[1] : c \in doc.checks} \cup {doc.off} \subseteq 0..Len(doc.text)
    /\ \A k \in doc.packets \cup doc.reserved : k.s \in 0..Len(doc.text) /\ k.e \in k.s + 1..Len(doc.text)

\* Whatever edits, undos, scans and queries went before, lineIndex() answers for
\* every offset the number of lines that end at or before it, and a complete
\* index has the number of lines: as long as no edit has joined or split a CR LF
\* pair.  Such an edit leaves a checkpoint between the two, or takes two lines
\* for one, because only the inserted text is searched for line breaks
\* (MRTextDocument.cpp:763, :732).
LineNumbersRight ==
    ~doc.torn =>
        /\ \A pos \in 0..Len(doc.text) : LineIndexAt(doc, pos) = Cardinality(Within(doc.text, 0, pos))
        /\ doc.complete /\ ~Exact(doc) => doc.total = Cardinality(Breaks(doc.text)) + 1

\* A scan works on a snapshot, and an undo followed by an edit uses its version
\* again for another text.  The scans that wait to be joined to the index, and
\* the ones the editor would still adopt, are scans of the text as it is.
ScansAreCurrent ==
    \A p \in doc.packets \cup {f.packet : f \in {g \in flight : \E t \in warm.tasks : t.id = g.id}} :
        p.count = Cardinality(Within(doc.text, p.s, p.e))

\* The ledger's ids begin at 1 again after every change of the document, and a
\* task releases its reservation by that id.  Yet the reservations are always
\* those of the editor's tasks, each of its own, and no span is scanned twice.
ReservationsOwned ==
    /\ {r.id : r \in doc.reserved} = {t.res : t \in warm.tasks}
    /\ Cardinality(doc.reserved) = Cardinality(warm.tasks)
    /\ \A k, q \in doc.packets \cup doc.reserved : k # q => k.e <= q.s \/ q.e <= k.s

\* The warmup never stops short: once it was asked for, the number of lines is
\* known, or a scan the editor waits for is under way, or nothing is left to
\* scan.  (An erasure can leave an index that covers the text and is not complete;
\* no scan completes it, the next query does.)
WarmupGoesOn ==
    warm # Idle /\ ~Known(doc) /\ doc.off < Len(doc.text) => \E f \in flight : Owned(State, f) /\ ~f.cancelled
=============================================================================
