-------------------------- MODULE TextBufferProofs --------------------------
(***************************************************************************)
(* For any texts, cursors, jobs, stack depths and versions: the modified   *)
(* flag is never off for a text that differs from the file's, and          *)
(* reverting Replace All takes back exactly the replacement.               *)
(*                                                                         *)
(* Neither is inductive.  The first must hold of every undo and redo       *)
(* record too, because undo restores the flag with the text.  The second   *)
(* needs that, as long as nobody undoes or redoes, either the replacement  *)
(* is still on top of the undo stack, with its modified flag as saving     *)
(* leaves it, or the version has gone past the checkpoint's for good.      *)
(***************************************************************************)
EXTENDS TextBuffer, TLAPS

\* Every record that says "not modified" has text t.
Honest(stack, t) == \A i \in 1..Len(stack) : stack[i].modified \/ stack[i].text = t

\* The checkpoint still fits the document, or can never fit it again.
Checkpoint ==
    dialog.replaced =>
       /\ dialog.open
       /\ \/ ~dialog.same \/ dialog.travelled
          \/ version > dialog.version
          \/ /\ version = dialog.version /\ text = dialog.result
             /\ Len(undoStack) = dialog.depth + 1
             /\ undoStack[dialog.depth + 1].text = dialog.text
             /\ undoStack[dialog.depth + 1].modified = (dialog.modified \/ dialog.saved)

\* The document and its history.
Core ==
    /\ text \in Text /\ saved \in Text /\ cursor \in Cursor /\ scene \in Scene
    /\ version \in 0..MaxVersion
    /\ modified \in BOOLEAN
    /\ undoStack \in Seq(Record) /\ redoStack \in Seq(Record)
    /\ undone \in Nat /\ Len(redoStack) <= undone
    /\ UnmodifiedMeansSaved
    /\ Honest(undoStack, saved) /\ Honest(redoStack, saved)

IInv ==
    /\ Core
    /\ job \in [Job -> JobRecord]
    /\ dialog \in Dialog
    /\ Checkpoint

-----------------------------------------------------------------------------
\* Cutting a stack leaves the records below alone.
LEMMA Cut ==
    ASSUME NEW t, NEW stack \in Seq(Record), NEW n \in 0..Len(stack)
    PROVE  /\ SubSeq(stack, 1, n) \in Seq(Record) /\ Len(SubSeq(stack, 1, n)) = n
           /\ \A i \in 1..n : SubSeq(stack, 1, n)[i] = stack[i]
           /\ Honest(stack, t) => Honest(SubSeq(stack, 1, n), t)
<1>1. /\ SubSeq(stack, 1, n) \in Seq(Record) /\ Len(SubSeq(stack, 1, n)) = n
      /\ \A i \in 1..n : SubSeq(stack, 1, n)[i] = stack[i]
    OBVIOUS
<1> QED
    BY <1>1 DEF Honest

\* Pushing and popping records.
LEMMA Stacks ==
    ASSUME NEW t, NEW stack \in Seq(Record)
    PROVE  /\ \A r \in Record : /\ Pushed(stack, r) \in Seq(Record)
                                /\ Len(Pushed(stack, r)) = Len(stack) + 1
                                /\ Pushed(stack, r)[Len(stack) + 1] = r
                                /\ Honest(stack, t) /\ (r.modified \/ r.text = t) => Honest(Pushed(stack, r), t)
           /\ stack # <<>> => /\ Top(stack) \in Record
                              /\ Below(stack) \in Seq(Record)
                              /\ Len(Below(stack)) = Len(stack) - 1
                              /\ Honest(stack, t) => Honest(Below(stack), t)
                              /\ Honest(stack, t) => Top(stack).modified \/ Top(stack).text = t
<1>1. ASSUME NEW r \in Record
      PROVE  /\ Pushed(stack, r) \in Seq(Record)
             /\ Len(Pushed(stack, r)) = Len(stack) + 1
             /\ Pushed(stack, r)[Len(stack) + 1] = r
             /\ \A i \in 1..Len(stack) : Pushed(stack, r)[i] = stack[i]
    BY DEF Pushed
<1>2. ASSUME NEW r \in Record, Honest(stack, t), r.modified \/ r.text = t
      PROVE  Honest(Pushed(stack, r), t)
    BY <1>1, <1>2 DEF Honest
<1>3. ASSUME stack # <<>>
      PROVE  /\ Len(stack) \in Nat /\ Len(stack) > 0
             /\ Top(stack) \in Record
             /\ Below(stack) \in Seq(Record)
             /\ Len(Below(stack)) = Len(stack) - 1
             /\ \A i \in 1..(Len(stack) - 1) : Below(stack)[i] = stack[i]
    <2>1. Len(stack) \in Nat /\ Len(stack) > 0
        BY <1>3
    <2>2. Top(stack) \in Record
        BY <2>1 DEF Top
    <2>3. /\ Below(stack) \in Seq(Record)
          /\ Len(Below(stack)) = Len(stack) - 1
          /\ \A i \in 1..(Len(stack) - 1) : Below(stack)[i] = stack[i]
        <3>1. Len(stack) - 1 \in 0..Len(stack)
            BY <2>1
        <3> QED
            BY <3>1, Cut DEF Below
    <2> QED
        BY <2>1, <2>2, <2>3
<1>4. ASSUME stack # <<>>, Honest(stack, t)
      PROVE  Honest(Below(stack), t) /\ (Top(stack).modified \/ Top(stack).text = t)
    <2>1. Honest(Below(stack), t)
        BY <1>3, <1>4 DEF Honest
    <2>2. Top(stack).modified \/ Top(stack).text = t
        BY <1>3, <1>4 DEF Honest, Top
    <2> QED
        BY <2>1, <2>2
<1> QED
    BY <1>1, <1>2, <1>3, <1>4

\* The record of the present is a true record.
LEMMA NowIsTrue == Core => Now \in Record /\ (Now.modified \/ Now.text = saved)
    BY DEF Core, UnmodifiedMeansSaved, Now, Record

\* A cleared stack is a stack.
LEMMA Cleared == \A t : <<>> \in Seq(Record) /\ Len(<<>>) = 0 /\ Honest(<<>>, t)
    BY DEF Honest

-----------------------------------------------------------------------------
\* An applied transaction keeps the document and its history sound.
LEMMA AppliedKeeps ==
    ASSUME Core, NEW t \in Text, NEW c \in Cursor, Applied(t, c), saved' = saved, scene' \in Scene
    PROVE  /\ Core'
           /\ version' = version + 1 /\ text' = t
           /\ Len(undoStack') = Len(undoStack) + 1 /\ undoStack'[Len(undoStack) + 1] = Now
<1>1. undoStack' = Pushed(undoStack, Now) /\ redoStack' = <<>> /\ undone' = 0
    BY DEF Applied
<1>2. /\ undoStack' \in Seq(Record) /\ Honest(undoStack', saved')
      /\ Len(undoStack') = Len(undoStack) + 1 /\ undoStack'[Len(undoStack) + 1] = Now
    BY <1>1, NowIsTrue, Stacks DEF Core
<1>3. version' \in 0..MaxVersion
    BY BufferAssumption DEF Core, Applied
<1>4. redoStack' \in Seq(Record) /\ Len(redoStack') <= undone' /\ Honest(redoStack', saved')
    BY <1>1, Cleared
<1> QED
    BY <1>1, <1>2, <1>3, <1>4 DEF Core, Applied, UnmodifiedMeansSaved

\* So does one that changes nothing.
LEMMA NotAppliedKeeps ==
    ASSUME Core, NotApplied, saved' = saved, cursor' \in Cursor, scene' \in Scene
    PROVE  Core' /\ text' = text /\ version' = version /\ undoStack' = undoStack
<1>1. redoStack' \in Seq(Record) /\ Len(redoStack') = 0 /\ Honest(redoStack', saved')
    BY Cleared DEF NotApplied
<1> QED
    BY <1>1 DEF NotApplied, Core, UnmodifiedMeansSaved

\* Restoring a true record makes a sound document.
LEMMA RestoredKeeps ==
    ASSUME Core, NEW r \in Record, r.modified \/ r.text = saved, Restored(r), saved' = saved
    PROVE  /\ text' \in Text /\ cursor' \in Cursor /\ version' \in 0..MaxVersion /\ modified' \in BOOLEAN
           /\ UnmodifiedMeansSaved'
           /\ text' = r.text /\ modified' = r.modified
<1>1. r.text \in Text /\ r.version \in 0..MaxVersion /\ r.cursor \in Cursor /\ r.modified \in BOOLEAN
    BY DEF Record
<1> QED
    BY <1>1 DEF Core, Restored, UnmodifiedMeansSaved

\* What becomes of a job is a job record.
LEMMA JobsTyped ==
    ASSUME IInv, NEW j \in Job
    PROVE  /\ [job EXCEPT ![j] = Started] \in [Job -> JobRecord]
           /\ [job EXCEPT ![j] = Committed(j)] \in [Job -> JobRecord]
           /\ [job EXCEPT ![j] = IdleJob] \in [Job -> JobRecord]
           /\ [i \in Job |-> Outlived(i)] \in [Job -> JobRecord]
<1>1. Started \in JobRecord
    BY DEF IInv, Core, Started, JobRecord
<1>2. AnyScene \in Scene
    BY BufferAssumption DEF AnyScene
<1>3. IdleJob \in JobRecord
    BY <1>2, BufferAssumption DEF IdleJob, JobRecord
<1>4. Committed(j) \in JobRecord
    BY <1>3 DEF Committed, JobRecord
<1>5. \A i \in Job : Outlived(i) \in JobRecord
    BY DEF IInv, Outlived, JobRecord
<1> QED
    BY <1>1, <1>3, <1>4, <1>5 DEF IInv

-----------------------------------------------------------------------------
\* Every step keeps the invariant.
LEMMA Step == IInv /\ [Next]_vars => IInv'
<1> SUFFICES ASSUME IInv, [Next]_vars PROVE IInv'
    OBVIOUS
<1>0. Core /\ job \in [Job -> JobRecord] /\ dialog \in Dialog /\ Checkpoint
    BY DEF IInv
<1>1. ASSUME Core', job' \in [Job -> JobRecord], dialog' = dialog,
             version' > version \/ UNCHANGED <<version, text, undoStack>>
      PROVE  IInv'
    <2>1. version \in Int /\ version' \in Int /\ dialog.version \in Int
        BY <1>0, <1>1 DEF Core, Dialog
    <2>2. Checkpoint'
        BY <1>0, <1>1, <2>1 DEF Checkpoint
    <2> QED
        BY <1>0, <1>1, <2>2 DEF IInv
<1>2. ASSUME NEW t \in Text, NEW c \in Cursor, Edit(t, c) PROVE IInv'
    <2>1. Applied(t, c) /\ UNCHANGED <<scene, saved, job, dialog>>
        BY <1>2 DEF Edit
    <2>2. Core' /\ version' > version
        <3>1. scene' \in Scene /\ saved' = saved
            BY <1>0, <2>1 DEF Core
        <3>2. Core' /\ version' = version + 1
            BY <1>0, <2>1, <3>1, AppliedKeeps
        <3> QED
            BY <1>0, <3>2 DEF Core
    <2> QED
        BY <1>0, <1>1, <2>1, <2>2
<1>3. CASE EditNothing
    <2>1. NotApplied /\ UNCHANGED <<cursor, scene, saved, job, dialog>>
        BY <1>3 DEF EditNothing
    <2>2. cursor' \in Cursor /\ scene' \in Scene /\ saved' = saved
        BY <1>0, <2>1 DEF Core
    <2>3. Core' /\ text' = text /\ version' = version /\ undoStack' = undoStack
        BY <1>0, <2>1, <2>2, NotAppliedKeeps
    <2> QED
        BY <1>0, <1>1, <2>1, <2>3
<1>4. ASSUME NEW t \in Text, NEW c \in Cursor, ReplaceBlock(t, c) PROVE IInv'
    <2>1. /\ UNCHANGED <<scene, saved, job, dialog>>
          /\ modified' = TRUE /\ undone' = 0 /\ text' = t /\ cursor' = c
        BY <1>4 DEF ReplaceBlock
    <2>2. version' \in 0..MaxVersion /\ version' > version
        BY <1>0, <1>4, BufferAssumption DEF ReplaceBlock, Core
    <2>3. undoStack' = Pushed(undoStack, Now) /\ redoStack' = <<>>
        BY <1>4 DEF ReplaceBlock
    <2>4. undoStack' \in Seq(Record) /\ Honest(undoStack', saved')
        BY <1>0, <2>1, <2>3, NowIsTrue, Stacks DEF Core
    <2>5. redoStack' \in Seq(Record) /\ Len(redoStack') <= undone' /\ Honest(redoStack', saved')
        BY <2>1, <2>3, Cleared
    <2>6. Core'
        BY <1>0, <2>1, <2>2, <2>4, <2>5 DEF Core, UnmodifiedMeansSaved
    <2> QED
        BY <1>0, <1>1, <2>1, <2>2, <2>6
<1>5. ASSUME NEW c \in Cursor, NEW s \in Scene, LookAround(c, s) PROVE IInv'
    <2>1. Core' /\ UNCHANGED <<version, text, undoStack, job, dialog>>
        BY <1>0, <1>5 DEF LookAround, Core, UnmodifiedMeansSaved
    <2> QED
        BY <1>0, <1>1, <2>1
<1>6. CASE MarkModified
    <2>1. Core' /\ UNCHANGED <<version, text, undoStack, job, dialog>>
        BY <1>0, <1>6 DEF MarkModified, Core, UnmodifiedMeansSaved
    <2> QED
        BY <1>0, <1>1, <2>1
<1>7. CASE Save
    <2>1. \A stack \in Seq(Record) : /\ Unsaved(stack) \in Seq(Record)
                                      /\ Len(Unsaved(stack)) = Len(stack)
                                      /\ Honest(Unsaved(stack), text)
                                      /\ \A i \in 1..Len(stack) : /\ Unsaved(stack)[i].modified = TRUE
                                                                  /\ Unsaved(stack)[i].text = stack[i].text
        <3> TAKE stack \in Seq(Record)
        <3>1. Len(stack) \in Nat /\ \A i \in 1..Len(stack) : stack[i] \in Record
            OBVIOUS
        <3>2. \A i \in 1..Len(stack) : /\ [stack[i] EXCEPT !.modified = TRUE] \in Record
                                        /\ [stack[i] EXCEPT !.modified = TRUE].modified = TRUE
                                        /\ [stack[i] EXCEPT !.modified = TRUE].text = stack[i].text
            BY <3>1 DEF Record
        <3>3. /\ Unsaved(stack) \in Seq(Record) /\ Len(Unsaved(stack)) = Len(stack)
              /\ \A i \in 1..Len(stack) : Unsaved(stack)[i] = [stack[i] EXCEPT !.modified = TRUE]
            BY <3>1, <3>2 DEF Unsaved
        <3> QED
            BY <3>2, <3>3 DEF Honest
    <2>2. /\ undoStack' = Unsaved(undoStack) /\ redoStack' = Unsaved(redoStack)
          /\ saved' = text /\ modified' = FALSE /\ scene' \in Scene
          /\ dialog' = [dialog EXCEPT !.saved = dialog.replaced]
          /\ UNCHANGED <<text, version, cursor, job, undone>>
        BY <1>7 DEF Save
    <2>3. /\ undoStack' \in Seq(Record) /\ Honest(undoStack', saved')
          /\ redoStack' \in Seq(Record) /\ Honest(redoStack', saved') /\ Len(redoStack') = Len(redoStack)
        BY <1>0, <2>1, <2>2 DEF Core
    <2>4. Core'
        BY <1>0, <2>2, <2>3 DEF Core, UnmodifiedMeansSaved
    <2>5. /\ dialog' \in Dialog
          /\ dialog'.replaced = dialog.replaced /\ dialog'.open = dialog.open
          /\ dialog'.same = dialog.same /\ dialog'.travelled = dialog.travelled
          /\ dialog'.version = dialog.version /\ dialog'.depth = dialog.depth
          /\ dialog'.text = dialog.text /\ dialog'.result = dialog.result
          /\ dialog'.saved = dialog.replaced
        BY <1>0, <2>2 DEF Dialog
    <2>6. ASSUME dialog.replaced, Len(undoStack) = dialog.depth + 1
          PROVE  /\ Len(undoStack') = dialog.depth + 1
                 /\ undoStack'[dialog.depth + 1].text = undoStack[dialog.depth + 1].text
                 /\ undoStack'[dialog.depth + 1].modified
        <3>1. dialog.depth + 1 \in 1..Len(undoStack) /\ undoStack \in Seq(Record)
            BY <1>0, <2>6 DEF Core, Dialog
        <3> QED
            BY <2>1, <2>2, <2>6, <3>1
    <2>7. Checkpoint'
        BY <1>0, <2>2, <2>5, <2>6 DEF Checkpoint
    <2> QED
        BY <1>0, <2>2, <2>4, <2>5, <2>7 DEF IInv
<1>8. ASSUME NEW t \in Text, Load(t) PROVE IInv'
    <2>1. /\ undoStack' = <<>> /\ redoStack' = <<>> /\ undone' = 0 /\ scene' \in Scene
          /\ text' = t /\ saved' = t /\ version' = 1 /\ cursor' = Home /\ modified' = FALSE
          /\ job' = [j \in Job |-> Outlived(j)] /\ dialog' = [dialog EXCEPT !.same = FALSE]
        BY <1>8 DEF Load
    <2>2. /\ undoStack' \in Seq(Record) /\ Honest(undoStack', saved')
          /\ redoStack' \in Seq(Record) /\ Honest(redoStack', saved') /\ Len(redoStack') <= undone'
        BY <2>1, Cleared
    <2>3. version' \in 0..MaxVersion /\ UnmodifiedMeansSaved'
        BY <2>1, BufferAssumption DEF UnmodifiedMeansSaved
    <2>4. Core'
        BY <2>1, <2>2, <2>3, BufferAssumption DEF Core
    <2>5. dialog' \in Dialog /\ dialog'.replaced = dialog.replaced /\ dialog'.open = dialog.open /\ ~dialog'.same
        BY <1>0, <2>1 DEF Dialog
    <2>6. Checkpoint'
        BY <1>0, <2>5 DEF Checkpoint
    <2>7. job' \in [Job -> JobRecord]
        <3>1. \A j \in Job : Outlived(j) \in JobRecord
            BY <1>0 DEF Outlived, JobRecord
        <3> QED
            BY <2>1, <3>1
    <2> QED
        BY <2>4, <2>5, <2>6, <2>7 DEF IInv
<1>9. ASSUME NEW t \in Text, Reload(t) PROVE IInv'
    <2>1. UNCHANGED <<scene, job, dialog>>
        BY <1>9 DEF Reload
    <2>2. CASE NotApplied /\ UNCHANGED <<cursor, saved>>
        <3>1. cursor' \in Cursor /\ scene' \in Scene /\ saved' = saved
            BY <1>0, <2>1, <2>2 DEF Core
        <3>2. Core' /\ text' = text /\ version' = version /\ undoStack' = undoStack
            BY <1>0, <2>2, <3>1, NotAppliedKeeps
        <3> QED
            BY <1>0, <1>1, <2>1, <3>2
    <2>3. CASE /\ t # text /\ version < MaxVersion
               /\ text' = t /\ saved' = t /\ version' = version + 1
               /\ cursor' = Home /\ modified' = FALSE
               /\ undoStack' = <<>> /\ redoStack' = <<>> /\ undone' = 0
        <3>1. version' \in 0..MaxVersion /\ version' > version /\ scene' \in Scene
            BY <1>0, <2>1, <2>3, BufferAssumption DEF Core
        <3>2. /\ undoStack' \in Seq(Record) /\ Honest(undoStack', saved')
              /\ redoStack' \in Seq(Record) /\ Honest(redoStack', saved') /\ Len(redoStack') <= undone'
            BY <2>3, Cleared
        <3>3. Core'
            BY <2>3, <3>1, <3>2, BufferAssumption DEF Core, UnmodifiedMeansSaved
        <3> QED
            BY <1>0, <1>1, <2>1, <3>1, <3>3
    <2> QED
        BY <1>9, <2>2, <2>3 DEF Reload
<1>t. ASSUME Core', UNCHANGED job, Travelled PROVE IInv'
    <2>1. /\ dialog' \in Dialog /\ dialog'.replaced = dialog.replaced /\ dialog'.open = dialog.open
          /\ dialog'.travelled = dialog.replaced
        BY <1>0, <1>t DEF Travelled, Dialog
    <2>2. Checkpoint'
        BY <1>0, <2>1 DEF Checkpoint
    <2> QED
        BY <1>0, <1>t, <2>1, <2>2 DEF IInv
<1>10. CASE Undo
    <2>1. /\ Travelled /\ undoStack # <<>> /\ Restored(Top(undoStack)) /\ UNCHANGED <<scene, saved, job>>
          /\ undoStack' = Below(undoStack) /\ redoStack' = Pushed(redoStack, Now) /\ undone' = undone + 1
        BY <1>10 DEF Undo
    <2>2. /\ undoStack' \in Seq(Record) /\ Honest(undoStack', saved')
          /\ Top(undoStack) \in Record /\ (Top(undoStack).modified \/ Top(undoStack).text = saved)
        BY <1>0, <2>1, Stacks DEF Core
    <2>3. /\ redoStack' \in Seq(Record) /\ Honest(redoStack', saved')
          /\ Len(redoStack') = Len(redoStack) + 1
        BY <1>0, <2>1, NowIsTrue, Stacks DEF Core
    <2>4. /\ text' \in Text /\ cursor' \in Cursor /\ version' \in 0..MaxVersion /\ modified' \in BOOLEAN
          /\ UnmodifiedMeansSaved'
        BY <1>0, <2>1, <2>2, RestoredKeeps
    <2>5. undone' \in Nat /\ Len(redoStack') <= undone' /\ saved' \in Text /\ scene' \in Scene
        BY <1>0, <2>1, <2>3 DEF Core
    <2>6. Core'
        BY <2>2, <2>3, <2>4, <2>5 DEF Core
    <2> QED
        BY <1>t, <2>1, <2>6
<1>11. CASE Redo
    <2>1. /\ Travelled /\ redoStack # <<>> /\ Restored(Top(redoStack)) /\ UNCHANGED <<scene, saved, job>>
          /\ redoStack' = Below(redoStack) /\ undoStack' = Pushed(undoStack, Now) /\ undone' = undone - 1
        BY <1>11 DEF Redo
    <2>2. /\ redoStack' \in Seq(Record) /\ Honest(redoStack', saved') /\ Len(redoStack') = Len(redoStack) - 1
          /\ Top(redoStack) \in Record /\ (Top(redoStack).modified \/ Top(redoStack).text = saved)
        BY <1>0, <2>1, Stacks DEF Core
    <2>3. undoStack' \in Seq(Record) /\ Honest(undoStack', saved')
        BY <1>0, <2>1, NowIsTrue, Stacks DEF Core
    <2>4. /\ text' \in Text /\ cursor' \in Cursor /\ version' \in 0..MaxVersion /\ modified' \in BOOLEAN
          /\ UnmodifiedMeansSaved'
        BY <1>0, <2>1, <2>2, RestoredKeeps
    <2>5. undone' \in Nat /\ Len(redoStack') <= undone' /\ saved' \in Text /\ scene' \in Scene
        <3>1. Len(redoStack') \in Nat
            BY <2>2
        <3> QED
            BY <1>0, <2>1, <2>2, <3>1 DEF Core
    <2>6. Core'
        BY <2>2, <2>3, <2>4, <2>5 DEF Core
    <2> QED
        BY <1>t, <2>1, <2>6
<1>12. ASSUME NEW j \in Job, StartJob(j) PROVE IInv'
    <2>1. /\ job' = [job EXCEPT ![j] = Started]
          /\ UNCHANGED <<document, scene, undoStack, redoStack, saved, dialog, undone>>
        BY <1>12 DEF StartJob
    <2>2. job' \in [Job -> JobRecord]
        BY <2>1, JobsTyped
    <2>3. Core' /\ UNCHANGED <<version, text, undoStack>>
        BY <1>0, <2>1 DEF Core, UnmodifiedMeansSaved, document
    <2> QED
        BY <1>1, <2>1, <2>2, <2>3
<1>13. ASSUME NEW j \in Job, NEW t \in Text, NEW c \in Cursor, CommitJob(j, t, c) PROVE IInv'
    <2>1. Applied(t, c) /\ saved' = saved /\ dialog' = dialog /\ scene' \in Scene
        BY <1>13 DEF CommitJob
    <2>2. Core' /\ version' > version
        <3>1. Core' /\ version' = version + 1
            BY <1>0, <2>1, AppliedKeeps
        <3> QED
            BY <1>0, <3>1 DEF Core
    <2>3. job' \in [Job -> JobRecord]
        BY <1>13, JobsTyped DEF CommitJob
    <2> QED
        BY <1>1, <2>1, <2>2, <2>3
<1>14. ASSUME NEW j \in Job, NEW c \in Cursor, CommitNothing(j, c) PROVE IInv'
    <2>1. NotApplied /\ saved' = saved /\ dialog' = dialog /\ cursor' \in Cursor /\ scene' \in Scene
        BY <1>14 DEF CommitNothing
    <2>2. Core' /\ text' = text /\ version' = version /\ undoStack' = undoStack
        BY <1>0, <2>1, NotAppliedKeeps
    <2>3. job' \in [Job -> JobRecord]
        BY <1>14, JobsTyped DEF CommitNothing
    <2> QED
        BY <1>1, <2>1, <2>2, <2>3
<1>15. ASSUME NEW j \in Job, RejectJob(j) PROVE IInv'
    <2>1. UNCHANGED <<document, scene, undoStack, redoStack, saved, dialog, undone>>
        BY <1>15 DEF RejectJob
    <2>2. job' \in [Job -> JobRecord]
        BY <1>15, JobsTyped DEF RejectJob
    <2>3. Core' /\ UNCHANGED <<version, text, undoStack>>
        BY <1>0, <2>1 DEF Core, UnmodifiedMeansSaved, document
    <2> QED
        BY <1>1, <2>1, <2>2, <2>3
<1>16. ASSUME NEW t \in Text, NEW c \in Cursor, ReplaceAll(t, c) PROVE IInv'
    <2>1. Applied(t, c) /\ saved' = saved /\ job' = job /\ scene' \in Scene
        BY <1>16 DEF ReplaceAll
    <2>2. dialog' = [open |-> TRUE, replaced |-> TRUE, depth |-> Len(undoStack),
                     version |-> version + 1, same |-> TRUE,
                     text |-> text, modified |-> modified, result |-> t,
                     saved |-> FALSE, travelled |-> FALSE]
        BY <1>16 DEF ReplaceAll
    <2>3. dialog' \in Dialog
        BY <1>0, <2>2 DEF Core, Dialog
    <2>4. /\ Core' /\ version' = version + 1 /\ text' = t
          /\ Len(undoStack') = Len(undoStack) + 1 /\ undoStack'[Len(undoStack) + 1] = Now
        BY <1>0, <2>1, AppliedKeeps
    <2>5. Checkpoint'
        <3>1. (modified \/ FALSE) = modified
            BY <1>0, Zenon DEF Core
        <3>2. /\ dialog'.open /\ dialog'.version = version' /\ text' = dialog'.result
              /\ Len(undoStack') = dialog'.depth + 1
              /\ undoStack'[dialog'.depth + 1].text = dialog'.text
              /\ undoStack'[dialog'.depth + 1].modified = modified
              /\ dialog'.modified = modified /\ dialog'.saved = FALSE
            BY <2>2, <2>4 DEF Now
        <3> QED
            BY <3>1, <3>2 DEF Checkpoint
    <2> QED
        BY <1>0, <2>1, <2>3, <2>4, <2>5 DEF IInv
<1>17. CASE Revert
    <2> DEFINE r == undoStack[dialog.depth + 1]
    <2>1. /\ Len(undoStack) = dialog.depth + 1 /\ dialog.depth \in Nat /\ undoStack \in Seq(Record)
          /\ Restored(r) /\ UNCHANGED <<scene, saved, job>>
          /\ undoStack' = SubSeq(undoStack, 1, dialog.depth) /\ redoStack' = <<>> /\ undone' = 0
          /\ dialog' = [NoDialog EXCEPT !.open = TRUE, !.depth = dialog.depth, !.version = version',
                                        !.same = TRUE]
        BY <1>0, <1>17 DEF Revert, CheckpointHolds, Core, Dialog
    <2>2. r \in Record /\ (r.modified \/ r.text = saved)
        BY <1>0, <2>1 DEF Core, Honest
    <2>3. undoStack' \in Seq(Record) /\ Honest(undoStack', saved')
        <3>1. dialog.depth \in 0..Len(undoStack)
            BY <2>1
        <3> QED
            BY <1>0, <2>1, <3>1, Cut DEF Core
    <2> HIDE DEF r
    <2>4. /\ text' \in Text /\ cursor' \in Cursor /\ version' \in 0..MaxVersion /\ modified' \in BOOLEAN
          /\ UnmodifiedMeansSaved'
        BY <1>0, <2>1, <2>2, RestoredKeeps
    <2>5. redoStack' \in Seq(Record) /\ Len(redoStack') <= undone' /\ Honest(redoStack', saved')
        BY <2>1, Cleared
    <2>6. Core'
        BY <1>0, <2>1, <2>3, <2>4, <2>5 DEF Core
    <2>7. dialog' \in Dialog /\ ~dialog'.replaced
        <3>1. version' \in Nat
            BY <2>4
        <3> QED
            BY <2>1, <3>1, BufferAssumption DEF NoDialog, Dialog
    <2>8. Checkpoint'
        BY <2>7 DEF Checkpoint
    <2> QED
        BY <1>0, <2>1, <2>6, <2>7, <2>8 DEF IInv
<1>18. CASE EndDialog
    <2>1. dialog' = NoDialog /\ UNCHANGED <<document, scene, undoStack, redoStack, saved, job, undone>>
        BY <1>18 DEF EndDialog
    <2>2. dialog' \in Dialog
        BY <2>1, BufferAssumption DEF NoDialog, Dialog
    <2>3. Core'
        BY <1>0, <2>1 DEF Core, UnmodifiedMeansSaved, document
    <2>4. Checkpoint'
        BY <2>1 DEF Checkpoint, NoDialog
    <2> QED
        BY <1>0, <2>1, <2>2, <2>3, <2>4 DEF IInv
<1>19. CASE UNCHANGED vars
    BY <1>0, <1>19 DEF IInv, vars, document, Core, UnmodifiedMeansSaved, Checkpoint
<1> QED
    BY <1>2, <1>3, <1>4, <1>5, <1>6, <1>7, <1>8, <1>9, <1>10, <1>11, <1>12, <1>13, <1>14, <1>15, <1>16,
       <1>17, <1>18, <1>19 DEF Next

\* A new document satisfies it.
LEMMA Initially == Init => IInv
<1> SUFFICES ASSUME Init PROVE IInv
    OBVIOUS
<1>0. AnyScene \in Scene
    BY BufferAssumption DEF AnyScene
<1>1. Core
    <2>1. /\ undoStack \in Seq(Record) /\ Honest(undoStack, saved)
          /\ redoStack \in Seq(Record) /\ Honest(redoStack, saved) /\ Len(redoStack) <= undone
        BY Cleared DEF Init
    <2>2. /\ text \in Text /\ saved \in Text /\ cursor \in Cursor /\ modified \in BOOLEAN
          /\ scene \in Scene /\ UnmodifiedMeansSaved
        BY <1>0, BufferAssumption DEF Init, UnmodifiedMeansSaved
    <2>3. version \in 0..MaxVersion /\ undone \in Nat
        BY BufferAssumption DEF Init
    <2> QED
        BY <2>1, <2>2, <2>3 DEF Core
<1>2. job \in [Job -> JobRecord]
    BY <1>0, BufferAssumption DEF Init, IdleJob, JobRecord
<1>3. dialog \in Dialog
    BY BufferAssumption DEF Init, NoDialog, Dialog
<1>4. Checkpoint
    BY DEF Init, NoDialog, Checkpoint
<1> QED
    BY <1>1, <1>2, <1>3, <1>4 DEF IInv

\* The state of a document and its undo history are well typed.
THEOREM TypeCorrect == Spec => []TypeOK
<1>1. IInv => TypeOK
    BY DEF IInv, Core, TypeOK
<1> QED
    BY Initially, Step, <1>1, PTL DEF Spec

\* A document shown as not modified has the text that was last loaded or
\* saved: closing it loses nothing, whatever was undone, redone, reverted or
\* committed late by a macro.
THEOREM NothingLost == Spec => []UnmodifiedMeansSaved
<1>1. IInv => UnmodifiedMeansSaved
    BY DEF IInv, Core
<1> QED
    BY Initially, Step, <1>1, PTL DEF Spec

\* Reverting Replace All takes back the replacement and nothing else, whatever
\* was edited, loaded, saved or committed late while the dialog was open.
THEOREM RevertIsExact == Spec => RevertRestores
<1>1. IInv /\ [Next]_vars
      => [dialog.replaced /\ ~dialog.travelled /\ dialog'.open /\ ~dialog'.replaced
          => /\ text = dialog.result
             /\ text' = dialog.text
             /\ modified' = (dialog.modified \/ dialog.saved)]_vars
    <2> SUFFICES ASSUME IInv, Next, dialog.replaced, ~dialog.travelled, dialog'.open, ~dialog'.replaced
                 PROVE  /\ text = dialog.result
                        /\ text' = dialog.text
                        /\ modified' = (dialog.modified \/ dialog.saved)
        OBVIOUS
    <2>1. dialog.open /\ dialog \in Dialog
        BY DEF IInv, Checkpoint
    <2>2. ~EndDialog
        BY DEF EndDialog, NoDialog
    <2>3. ~UNCHANGED dialog
        OBVIOUS
    <2>4. ~Save /\ ~Undo /\ ~Redo /\ ~\E t \in Text : Load(t)
        BY <2>1 DEF Save, Undo, Redo, Travelled, Load, Dialog
    <2>5. Revert
        BY <2>1, <2>2, <2>3, <2>4 DEF Next, Edit, EditNothing, ReplaceBlock, LookAround, MarkModified,
           Reload, StartJob, CommitJob, CommitNothing, RejectJob, ReplaceAll
    <2>6. version = dialog.version /\ dialog.version \in Nat /\ dialog.same
        BY <2>1, <2>5 DEF Revert, CheckpointHolds, Dialog
    <2> QED
        BY <2>5, <2>6 DEF Revert, IInv, Checkpoint, Restored
<1> QED
    BY Initially, Step, <1>1, PTL DEF Spec, RevertRestores

\* Undo and redo rewrite nothing of the timeline they travel along.
THEOREM HistoryKept == Spec => UndoRedoTravel
<1>1. ASSUME IInv, Undo \/ Redo
      PROVE  Timeline' = Timeline
    <2> DEFINE n == Len(undoStack)
               m == Len(redoStack)
    <2>0. undoStack \in Seq(Record) /\ redoStack \in Seq(Record) /\ n \in Nat /\ m \in Nat
        BY <1>1 DEF IInv, Core
    <2>1. CASE Undo
        <3>1. n > 0
            BY <2>0, <2>1 DEF Undo
        <3>2. Len(undoStack') = n - 1 /\ \A i \in 1..(n - 1) : undoStack'[i] = undoStack[i]
            <4>1. n - 1 \in 0..n
                BY <2>0, <3>1
            <4> QED
                BY <2>0, <2>1, <4>1, Cut DEF Undo, Below
        <3>3. /\ Len(redoStack') = m + 1 /\ redoStack'[m + 1] = Now
              /\ \A i \in 1..m : redoStack'[i] = redoStack[i]
            BY <2>0, <2>1 DEF Undo, Pushed
        <3>4. Milestone(Now)' = Milestone(undoStack[n])
            BY <2>1 DEF Undo, Restored, Top, Milestone, Now
        <3>5. (n - 1) + 1 + (m + 1) = n + 1 + m
            BY <2>0
        <3>6. ASSUME NEW i \in 1..(n + 1 + m)
              PROVE  (IF i <= n - 1 THEN Milestone(undoStack'[i])
                      ELSE IF i = n - 1 + 1 THEN Milestone(Now)' ELSE Milestone(redoStack'[n - 1 + (m + 1) + 2 - i]))
                     = (IF i <= n THEN Milestone(undoStack[i])
                        ELSE IF i = n + 1 THEN Milestone(Now) ELSE Milestone(redoStack[n + m + 2 - i]))
            <4>1. CASE i <= n - 1
                BY <2>0, <3>2, <4>1
            <4>2. CASE i = n
                BY <2>0, <3>1, <3>4, <4>2
            <4>3. CASE i = n + 1
                BY <2>0, <3>3, <4>3
            <4>4. CASE i > n + 1
                <5>1. n + m + 2 - i \in 1..m /\ n - 1 + (m + 1) + 2 - i = n + m + 2 - i
                    BY <2>0, <4>4
                <5> QED
                    BY <2>0, <3>3, <4>4, <5>1
            <4> QED
                BY <2>0, <4>1, <4>2, <4>3, <4>4
        <3>7. Timeline' = [i \in 1..((n - 1) + 1 + (m + 1)) |->
                 IF i <= (n - 1) THEN Milestone(undoStack'[i])
                 ELSE IF i = (n - 1) + 1 THEN Milestone(Now)' ELSE Milestone(redoStack'[(n - 1) + (m + 1) + 2 - i])]
            BY <3>2, <3>3, Zenon DEF Timeline, Milestone
        <3>8. Timeline = [i \in 1..(n + 1 + m) |->
                 IF i <= n THEN Milestone(undoStack[i])
                 ELSE IF i = n + 1 THEN Milestone(Now) ELSE Milestone(redoStack[n + m + 2 - i])]
            BY Zenon DEF Timeline
        <3> QED
            BY <3>5, <3>6, <3>7, <3>8, Zenon
    <2>2. CASE Redo
        <3>1. m > 0
            BY <2>0, <2>2 DEF Redo
        <3>2. Len(redoStack') = m - 1 /\ \A i \in 1..(m - 1) : redoStack'[i] = redoStack[i]
            <4>1. m - 1 \in 0..m
                BY <2>0, <3>1
            <4> QED
                BY <2>0, <2>2, <4>1, Cut DEF Redo, Below
        <3>3. /\ Len(undoStack') = n + 1 /\ undoStack'[n + 1] = Now
              /\ \A i \in 1..n : undoStack'[i] = undoStack[i]
            BY <2>0, <2>2 DEF Redo, Pushed
        <3>4. Milestone(Now)' = Milestone(redoStack[m])
            BY <2>2 DEF Redo, Restored, Top, Milestone, Now
        <3>5. (n + 1) + 1 + (m - 1) = n + 1 + m
            BY <2>0
        <3>6. ASSUME NEW i \in 1..(n + 1 + m)
              PROVE  (IF i <= n + 1 THEN Milestone(undoStack'[i])
                      ELSE IF i = n + 1 + 1 THEN Milestone(Now)' ELSE Milestone(redoStack'[n + 1 + (m - 1) + 2 - i]))
                     = (IF i <= n THEN Milestone(undoStack[i])
                        ELSE IF i = n + 1 THEN Milestone(Now) ELSE Milestone(redoStack[n + m + 2 - i]))
            <4>1. CASE i <= n
                BY <2>0, <3>3, <4>1
            <4>2. CASE i = n + 1
                BY <2>0, <3>3, <4>2
            <4>3. CASE i = n + 2
                BY <2>0, <3>4, <4>3
            <4>4. CASE i > n + 2
                <5>1. n + m + 2 - i \in 1..(m - 1) /\ n + 1 + (m - 1) + 2 - i = n + m + 2 - i
                    BY <2>0, <4>4
                <5> QED
                    BY <2>0, <3>2, <4>4, <5>1, SMTT(30)
            <4> QED
                BY <2>0, <4>1, <4>2, <4>3, <4>4
        <3>7. Timeline' = [i \in 1..((n + 1) + 1 + (m - 1)) |->
                 IF i <= (n + 1) THEN Milestone(undoStack'[i])
                 ELSE IF i = (n + 1) + 1 THEN Milestone(Now)' ELSE Milestone(redoStack'[(n + 1) + (m - 1) + 2 - i])]
            BY <3>2, <3>3, Zenon DEF Timeline, Milestone
        <3>8. Timeline = [i \in 1..(n + 1 + m) |->
                 IF i <= n THEN Milestone(undoStack[i])
                 ELSE IF i = n + 1 THEN Milestone(Now) ELSE Milestone(redoStack[n + m + 2 - i])]
            BY Zenon DEF Timeline
        <3> QED
            BY <3>5, <3>6, <3>7, <3>8, Zenon
    <2> QED
        BY <1>1, <2>1, <2>2
<1>2. IInv /\ [Next]_vars => [Undo \/ Redo => Timeline' = Timeline]_vars
    BY <1>1
<1> QED
    BY Initially, Step, <1>2, PTL DEF Spec, UndoRedoTravel
=============================================================================
