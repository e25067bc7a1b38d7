-------------------------------- MODULE Pipe --------------------------------
(***************************************************************************)
(* The pipe of kernel/ipc.c: a ring of bytes with two semaphores, one that *)
(* counts free slots and one that counts bytes, and a closed flag that is  *)
(* read and written outside the mutex.                                     *)
(*                                                                         *)
(* The semaphores are the abstract ones of CountingSemaphore: wait takes a *)
(* token when there is one.  The region under pipe->mutex is one step.     *)
(* A byte is its place in the stream of all bytes written, modulo Bytes,   *)
(* so that a byte out of place shows.                                      *)
(***************************************************************************)
EXTENDS Integers, FiniteSets, FiniteSetsExt

CONSTANTS Reader, Writer, \* tasks that hold one end, or both
          Size,          \* buf_size
          Len,           \* len of the read and write calls of each task
          Bytes,         \* number of distinguishable bytes
          MaxTokens      \* no new call once this many tokens are out (bound)

Task == Reader \cup Writer

\* Any number of tasks, a ring of at least one byte, calls that transfer at
\* least one (the loop of a shorter one is not entered), and more distinct
\* bytes than the ring can hold.
ASSUME PipeAssumption ==
    /\ IsFiniteSet(Task)
    /\ Size \in Nat \ {0} /\ Bytes \in Nat /\ Bytes > Size
    /\ Len \in [Task -> Nat \ {0}]

Slot == 0 .. Size - 1

VARIABLES buffer, read_pos, write_pos, count, closed,
          slots, items,        \* tokens of sem_write_slots, sem_read_items
          written, read,       \* bytes written and read so far, modulo Bytes
          todo,                \* len - written, or len - read, of the call
          posts,               \* posts the task has still to make
          pc

ring == <<buffer, read_pos, write_pos, count, written, read>>
vars == <<buffer, read_pos, write_pos, count, closed, slots, items,
          written, read, todo, posts, pc>>

Init ==
    /\ buffer = [i \in Slot |-> 0]
    /\ read_pos = 0 /\ write_pos = 0 /\ count = 0 /\ closed = FALSE
    /\ slots = Size /\ items = 0
    /\ written = 0 /\ read = 0
    /\ todo = [t \in Task |-> 0] /\ posts = [t \in Task |-> 0]
    /\ pc = [t \in Task |-> "out"]

Goto(t, label) == pc' = [pc EXCEPT ![t] = label]

\* The while loop: another round, or the call is over.
NextRound(t, label) == Goto(t, IF todo[t] = 0 THEN "out" ELSE label)

Return(t) == Goto(t, "out") /\ todo' = [todo EXCEPT ![t] = 0]

-----------------------------------------------------------------------------
(* jlos_pipe_write *)

WriteCall(t) ==
    /\ pc[t] = "out" /\ ~closed
    /\ slots + items <= MaxTokens
    /\ todo' = [todo EXCEPT ![t] = Len[t]]
    /\ Goto(t, "waitslot")
    /\ UNCHANGED <<ring, closed, slots, items, posts>>

WaitSlot(t) ==
    /\ pc[t] = "waitslot" /\ slots > 0
    /\ slots' = slots - 1
    /\ Goto(t, "slot")
    /\ UNCHANGED <<ring, closed, items, todo, posts>>

\* A writer that finds the pipe closed passes its token on.
WriteCheck(t) ==
    /\ pc[t] = "slot"
    /\ IF closed
       THEN slots' = slots + 1 /\ Return(t)
       ELSE Goto(t, "write") /\ UNCHANGED <<slots, todo>>
    /\ UNCHANGED <<ring, closed, items, posts>>

\* n bytes go to the ring; the items they make are posted one by one.
CopyIn(t, n) ==
    /\ buffer' = [i \in Slot |->
            LET d == (i - write_pos) % Size
            IN  IF d < n THEN (written + d) % Bytes ELSE buffer[i]]
    /\ write_pos' = (write_pos + n) % Size
    /\ count' = count + n
    /\ written' = (written + n) % Bytes
    /\ todo' = [todo EXCEPT ![t] = @ - n]
    /\ UNCHANGED <<read_pos, read, closed, slots, items>>

WriteCopy_OnePost(t) ==
    LET n == Min({todo[t], Size - count, Size - write_pos}) IN
    /\ pc[t] = "write" /\ CopyIn(t, n)
    /\ posts' = [posts EXCEPT ![t] = Min({n, 1})] /\ Goto(t, "postitem")
WriteCopy(t) ==
    LET n == Min({todo[t], Size - count, Size - write_pos}) IN
    /\ pc[t] = "write" /\ CopyIn(t, n)
    /\ posts' = [posts EXCEPT ![t] = n] /\ Goto(t, "postitem")

PostItem(t) ==
    /\ pc[t] = "postitem"
    /\ IF posts[t] > 0
       THEN /\ items' = items + 1
            /\ posts' = [posts EXCEPT ![t] = @ - 1] /\ UNCHANGED pc
       ELSE NextRound(t, "waitslot") /\ UNCHANGED <<items, posts>>
    /\ UNCHANGED <<ring, closed, slots, todo>>

-----------------------------------------------------------------------------
(* jlos_pipe_read *)

ReadCall(t) ==
    /\ pc[t] = "out"
    /\ slots + items <= MaxTokens
    /\ todo' = [todo EXCEPT ![t] = Len[t]]
    /\ Goto(t, "waititem")
    /\ UNCHANGED <<ring, closed, slots, items, posts>>

WaitItem(t) ==
    /\ pc[t] = "waititem" /\ items > 0
    /\ items' = items - 1
    /\ Goto(t, "item")
    /\ UNCHANGED <<ring, closed, slots, todo, posts>>

\* closed and count are read without the mutex.
ReadCheck_KeepToken(t) ==
    /\ pc[t] = "item"
    /\ IF closed /\ count = 0 THEN Return(t) ELSE Goto(t, "read") /\ UNCHANGED todo
    /\ UNCHANGED <<ring, closed, slots, items, posts>>
ReadCheck(t) ==
    /\ pc[t] = "item"
    /\ IF closed /\ count = 0
       THEN items' = items + 1 /\ Return(t)
       ELSE Goto(t, "read") /\ UNCHANGED <<items, todo>>
    /\ UNCHANGED <<ring, closed, slots, posts>>

CopyOut(t, n) ==
    /\ read_pos' = (read_pos + n) % Size
    /\ count' = count - n
    /\ read' = (read + n) % Bytes
    /\ todo' = [todo EXCEPT ![t] = @ - n]
    /\ posts' = [posts EXCEPT ![t] = n]
    /\ UNCHANGED <<buffer, write_pos, written, closed, slots, items>>

ReadCopy_NoAvailTest(t) ==
    LET n == Min({todo[t], Size - read_pos}) IN
    /\ pc[t] = "read" /\ CopyOut(t, n) /\ Goto(t, "copied")
ReadCopy(t) ==
    LET n == Min({todo[t], count, Size - read_pos}) IN
    /\ pc[t] = "read" /\ CopyOut(t, n) /\ Goto(t, "copied")

\* The slots of a closed pipe are not given back.
ReadEnd(t) ==
    /\ pc[t] = "copied"
    /\ IF closed
       THEN NextRound(t, "waititem") /\ posts' = [posts EXCEPT ![t] = 0]
       ELSE Goto(t, "postslot") /\ UNCHANGED posts
    /\ UNCHANGED <<ring, closed, slots, items, todo>>

PostSlot_OnePost(t) ==
    /\ pc[t] = "postslot"
    /\ slots' = slots + Min({1, posts[t]})
    /\ posts' = [posts EXCEPT ![t] = 0]
    /\ NextRound(t, "waititem")
    /\ UNCHANGED <<ring, closed, items, todo>>
PostSlot(t) ==
    /\ pc[t] = "postslot"
    /\ IF posts[t] > 0
       THEN /\ slots' = slots + 1
            /\ posts' = [posts EXCEPT ![t] = @ - 1] /\ UNCHANGED pc
       ELSE NextRound(t, "waititem") /\ UNCHANGED <<slots, posts>>
    /\ UNCHANGED <<ring, closed, items, todo>>

-----------------------------------------------------------------------------
(* jlos_pipe_close, by a task that gives up its descriptor *)

Close(t) ==
    /\ pc[t] = "out"
    /\ closed' = TRUE
    /\ Goto(t, "closeitem")
    /\ UNCHANGED <<ring, slots, items, todo, posts>>

ClosePostItem(t) ==
    /\ pc[t] = "closeitem"
    /\ items' = items + 1
    /\ Goto(t, "closeslot")
    /\ UNCHANGED <<ring, closed, slots, todo, posts>>

ClosePostSlot(t) ==
    /\ pc[t] = "closeslot"
    /\ slots' = slots + 1
    /\ Goto(t, "gone")
    /\ UNCHANGED <<ring, closed, items, todo, posts>>

WriteStep(t) == WaitSlot(t) \/ WriteCheck(t) \/ WriteCopy(t) \/ PostItem(t)
ReadStep(t) == WaitItem(t) \/ ReadCheck(t) \/ ReadCopy(t) \/ ReadEnd(t) \/ PostSlot(t)
CloseStep(t) == ClosePostItem(t) \/ ClosePostSlot(t)
Continue(t) == WriteStep(t) \/ ReadStep(t) \/ CloseStep(t)

Next ==
    \/ \E t \in Writer : WriteCall(t) \/ WriteStep(t)
    \/ \E t \in Reader : ReadCall(t) \/ ReadStep(t)
    \/ \E t \in Task : Close(t) \/ CloseStep(t)

Spec == Init /\ [][Next]_vars

\* A task inside a call goes on.  Waiting is strongly fair because the queue
\* of the semaphore is first come, first served (EveryWaitReturns of
\* Semaphore); nobody has to call or to close.
Fairness ==
    \A t \in Task : WF_vars(Continue(t)) /\ SF_vars(WaitSlot(t) \/ WaitItem(t))
FairSpec == Spec /\ Fairness

-----------------------------------------------------------------------------
(* Properties *)

TypeOK ==
    /\ buffer \in [Slot -> 0 .. Bytes - 1]
    /\ read_pos \in Slot /\ write_pos \in Slot /\ count \in 0 .. Size
    /\ closed \in BOOLEAN /\ slots \in Nat /\ items \in Nat
    /\ written \in 0 .. Bytes - 1 /\ read \in 0 .. Bytes - 1
    /\ \A t \in Task : todo[t] \in 0 .. Len[t] /\ posts[t] \in 0 .. Len[t]
    /\ DOMAIN todo = Task /\ DOMAIN posts = Task
    /\ pc \in [Task -> {"out", "waitslot", "slot", "write", "postitem",
                         "waititem", "item", "read", "copied", "postslot",
                         "closeitem", "closeslot", "gone"}]

\* First in, first out: the ring holds the bytes written and not yet read, in
\* the order of the stream, also where it wraps, with any number of readers
\* and writers.
InOrder ==
    /\ (written - read) % Bytes = count
    /\ write_pos = (read_pos + count) % Size
    /\ \A i \in 0 .. count - 1 :
            buffer[(read_pos + i) % Size] = (read + i) % Bytes

At(labels) == Cardinality({t \in Task : pc[t] \in labels})
\* The posts that tasks at these places have still to make, numbered by task.
Pending(labels) ==
    Cardinality({p \in Task \X (1 .. Size) : pc[p[1]] \in labels /\ p[2] <= posts[p[1]]})

\* No byte is left without a token that leads a reader to it: there are as
\* many item tokens free, in a reader's hand or about to be posted as bytes.
ItemsCovered == items + At({"item", "read"}) + Pending({"postitem"}) >= count

\* While the pipe is open, no free slot is left without a token that leads a
\* writer to it: the tokens burnt by writers that found the ring full are
\* always surplus.
SlotsCovered ==
    ~closed => slots + At({"slot", "write"}) + Pending({"copied", "postslot"})
               >= Size - count

\* After the pipe is closed every call returns: the token of the close is
\* passed from writer to writer, and a reader gets the rest of the data and
\* then the end of file.  Two readers inside their calls together may both
\* pass the test of ReadCheck with one byte left, and the token of the close
\* is lost with the one that gets nothing.
OneReader ==
    Cardinality({t \in Task : pc[t] \in {"waititem", "item", "read", "copied", "postslot"}}) <= 1
CallsReturnAfterClose ==
    []OneReader => \A t \in Task : closed /\ todo[t] > 0 ~> todo[t] = 0
=============================================================================
