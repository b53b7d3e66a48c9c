----------------------- MODULE CsvSubscriptionHandler -----------------------
(***************************************************************************)
(* The thread and queue of CsvSubscriptionHandler: any thread may push,    *)
(* one writer thread (_run) drains the queue into the csv file, and        *)
(* close() puts a sentinel, waits for Queue.join() and then for the        *)
(* thread.  An item is the number of its push, so the order of the pushes  *)
(* can be read off; what the file does with an item is the subject of      *)
(* module CsvFileDB.                                                       *)
(***************************************************************************)
EXTENDS Integers, Sequences

CONSTANTS
  Pushers,      \* threads that call push()
  MaxItems,     \* bound on the number of pushes
  MaxCloses,    \* bound on the number of calls of close()
  FileFails,    \* may a file operation raise?
  LatePushes    \* may a push overlap or follow a call of close()?

ASSUME CsvAssumption ==
  /\ MaxItems \in Nat
  /\ MaxCloses \in Nat
  /\ FileFails \in BOOLEAN
  /\ LatePushes \in BOOLEAN

VARIABLES
  queue,        \* self._queue.queue
  unfinished,   \* self._queue.unfinished_tasks
  exc,          \* self.exc, by what raised it
  pc,           \* where the writer thread is in _run
  data,         \* its local variable data
  cancelled,    \* its local variable cancelled
  written,      \* what f.write has taken so far
  pushed,       \* number of items put so far
  pusher,       \* where each pusher is in push()
  closer,       \* where the closing thread is in close()
  closes,       \* calls of close() so far
  mark          \* value of pushed when the last sentinel was put

vars == <<queue, unfinished, exc, pc, data, cancelled, written, pushed,
          pusher, closer, closes, mark>>
writerVars == <<pc, data, cancelled, written>>
callVars == <<pushed, pusher, closer, closes, mark>>

Sentinel == 0                       \* the None that close() puts
Unbound == -1                       \* data before its first assignment
Item == 1..MaxItems
NoError == "none"                   \* self.exc is None
WriteError == "write"               \* f.write raised
TaskDoneError == "task_done"        \* ValueError: task_done() called too many times

Running == pc \in {"get", "check", "write"}
Ended == pc \in {"dead", "crashed"}

Init ==
  /\ queue = <<>>
  /\ unfinished = 0
  /\ exc = NoError
  /\ pc = "enter"
  /\ data = Unbound
  /\ cancelled = FALSE
  /\ written = <<>>
  /\ pushed = 0
  /\ pusher = [p \in Pushers |-> "idle"]
  /\ closer = "idle"
  /\ closes = 0
  /\ mark = 0

-----------------------------------------------------------------------------
(* Queue.put_nowait and Queue.task_done: each holds the queue's mutex. *)

Put(x) ==
  /\ queue' = Append(queue, x)
  /\ unfinished' = unfinished + 1

\* task_done() by the writer, which then goes on at `next`; one call too many
\* raises, and the handler of _run stores the error and leaves the loop.
TaskDone(next) ==
  IF unfinished = 0
    THEN /\ exc' = TaskDoneError
         /\ pc' = "exit"
         /\ UNCHANGED unfinished
    ELSE /\ unfinished' = unfinished - 1
         /\ pc' = next
         /\ UNCHANGED exc

-----------------------------------------------------------------------------
(* push(): the put, then the look at self.exc, in the pusher's thread. *)

Push(p) ==
  /\ pusher[p] # "put"
  /\ pushed < MaxItems
  /\ LatePushes \/ closes = 0
  /\ pushed' = pushed + 1
  /\ Put(pushed + 1)
  /\ pusher' = [pusher EXCEPT ![p] = "put"]
  /\ UNCHANGED <<writerVars, exc, closer, closes, mark>>

PushReturn(p) ==
  /\ pusher[p] = "put"
  /\ pusher' = [pusher EXCEPT ![p] = IF exc = NoError THEN "idle" ELSE "raised"]
  /\ UNCHANGED <<queue, unfinished, exc, writerVars, pushed, closer, closes, mark>>

-----------------------------------------------------------------------------
(* _run(): entering the file's context, the loop, leaving the context. *)

EnterFile ==
  /\ pc = "enter"
  /\ \/ pc' = "get"
     \/ FileFails /\ pc' = "crashed"     \* raised outside of the try block
  /\ UNCHANGED <<queue, unfinished, exc, data, cancelled, written, callVars>>

\* get_nowait().  On an empty queue the loop continues (a step that changes
\* nothing) until the sentinel was seen; after it, the code falls through with
\* the value data has from the previous round.
Get ==
  /\ pc = "get"
  /\ \/ /\ queue # <<>>
        /\ data' = Head(queue)
        /\ queue' = Tail(queue)
     \/ /\ queue = <<>>
        /\ cancelled
        /\ UNCHANGED <<data, queue>>
  /\ pc' = "check"
  /\ UNCHANGED <<unfinished, exc, cancelled, written, callVars>>

\* Mutant: no task_done() for the sentinel.
TakeSentinelNotDone ==
  /\ pc = "check"
  /\ data = Sentinel
  /\ pc' = "get"
  /\ cancelled' = TRUE
  /\ UNCHANGED <<queue, unfinished, exc, data, written, callVars>>

TakeSentinel ==
  /\ pc = "check"
  /\ data = Sentinel
  /\ TaskDone("get")
  /\ cancelled' = IF unfinished = 0 THEN cancelled ELSE TRUE
  /\ UNCHANGED <<queue, data, written, callVars>>

\* Mutant: the loop ends on an empty queue, sentinel or not.
BreakOnEmpty ==
  /\ pc = "check"
  /\ data # Sentinel
  /\ queue = <<>>
  /\ pc' = "exit"
  /\ UNCHANGED <<queue, unfinished, exc, data, cancelled, written, callVars>>

\* The break: the sentinel was seen and nothing is left behind this item.
Break ==
  /\ pc = "check"
  /\ data # Sentinel
  /\ cancelled /\ queue = <<>>
  /\ pc' = "exit"
  /\ UNCHANGED <<queue, unfinished, exc, data, cancelled, written, callVars>>

\* Mutant: task_done() when an item is taken, before it is written.
TakeItemDone ==
  /\ pc = "check"
  /\ data # Sentinel
  /\ ~(cancelled /\ queue = <<>>)
  /\ TaskDone("write")
  /\ UNCHANGED <<queue, data, cancelled, written, callVars>>

TakeItem ==
  /\ pc = "check"
  /\ data # Sentinel
  /\ ~(cancelled /\ queue = <<>>)
  /\ pc' = "write"
  /\ UNCHANGED <<queue, unfinished, exc, data, cancelled, written, callVars>>

\* Mutant: a write that fails is skipped and the loop goes on.
WriteSkips ==
  /\ pc = "write"
  /\ TaskDone("get")
  /\ \/ written' = Append(written, data)
     \/ FileFails /\ UNCHANGED written
  /\ UNCHANGED <<queue, data, cancelled, callVars>>

\* Mutant: a write that fails is put off.
WriteLater ==
  /\ pc = "write"
  /\ \/ /\ written' = Append(written, data)
        /\ TaskDone("get")
        /\ UNCHANGED queue
     \/ /\ FileFails
        /\ queue' = Append(queue, data)
        /\ pc' = "get"
        /\ UNCHANGED <<unfinished, exc, written>>
  /\ UNCHANGED <<data, cancelled, callVars>>

Write ==
  /\ pc = "write"
  /\ \/ /\ written' = Append(written, data)
        /\ TaskDone("get")
     \/ /\ FileFails
        /\ exc' = WriteError
        /\ pc' = "exit"
        /\ UNCHANGED <<unfinished, written>>
  /\ UNCHANGED <<queue, data, cancelled, callVars>>

\* __exit__ flushes and closes the file, also outside of the try block.
ExitFile ==
  /\ pc = "exit"
  /\ \/ pc' = "dead"
     \/ FileFails /\ pc' = "crashed"
  /\ UNCHANGED <<queue, unfinished, exc, data, cancelled, written, callVars>>

-----------------------------------------------------------------------------
(* close(), called by one thread, possibly again after it returned or raised. *)

Close ==
  /\ closer \in {"idle", "closed", "raised"}
  /\ closes < MaxCloses
  /\ closes' = closes + 1
  /\ closer' = IF exc = NoError THEN "put" ELSE "raised"
  /\ UNCHANGED <<queue, unfinished, exc, writerVars, pushed, pusher, mark>>

ClosePut ==
  /\ closer = "put"
  /\ Put(Sentinel)
  /\ mark' = pushed
  /\ closer' = "join"
  /\ UNCHANGED <<exc, writerVars, pushed, pusher, closes>>

CloseJoin ==
  /\ closer = "join"
  /\ unfinished = 0
  /\ closer' = "threadjoin"
  /\ UNCHANGED <<queue, unfinished, exc, writerVars, pushed, pusher, closes, mark>>

CloseThreadJoin ==
  /\ closer = "threadjoin"
  /\ Ended
  /\ closer' = "closed"
  /\ UNCHANGED <<queue, unfinished, exc, writerVars, pushed, pusher, closes, mark>>

-----------------------------------------------------------------------------
Writer == EnterFile \/ Get \/ TakeSentinel \/ Break \/ TakeItem \/ Write \/ ExitFile
Closing == ClosePut \/ CloseJoin \/ CloseThreadJoin

Next ==
  \/ \E p \in Pushers : Push(p) \/ PushReturn(p)
  \/ Writer
  \/ Close
  \/ Closing

Spec == Init /\ [][Next]_vars

\* The operating system schedules the writer and the closing thread; whether
\* anybody pushes or closes is up to the program around the handler.
Fairness == WF_vars(Writer) /\ WF_vars(Closing)
FairSpec == Spec /\ Fairness

-----------------------------------------------------------------------------
(* Properties *)

\* Types of the variables of the handler, its thread and its callers.
TypeOK ==
  /\ queue \in Seq(Item \cup {Sentinel})
  /\ unfinished \in Nat
  /\ exc \in {NoError, WriteError, TaskDoneError}
  /\ pc \in {"enter", "get", "check", "write", "exit", "dead", "crashed"}
  /\ data \in Item \cup {Sentinel, Unbound}
  /\ cancelled \in BOOLEAN
  /\ written \in Seq(Item)
  /\ pushed \in 0..MaxItems
  /\ pusher \in [Pushers -> {"idle", "put", "raised"}]
  /\ closer \in {"idle", "put", "join", "threadjoin", "closed", "raised"}
  /\ closes \in 0..MaxCloses
  /\ mark \in 0..MaxItems

\* The file receives the items in the order of the pushes, none twice and none
\* left out, whichever threads pushed them and whatever raced with close().
WrittenInOrder ==
  \A i \in DOMAIN written : written[i] = i

\* Once Queue.join() has let close() go on, every item put before close() put
\* its sentinel is in the file, even if writes may fail and pushes go on.
CloseCompletesEarlierItems ==
  closer \in {"threadjoin", "closed"} => Len(written) >= mark

\* While the writer runs, an item that was accepted is in the file, in the
\* writer's hands or still in the queue, and the queue has what the writer did
\* not take, in order.
Taken == Len(written) + (IF pc \in {"check", "write"} /\ data # Sentinel THEN 1 ELSE 0)
NothingLostWhileRunning ==
  Running =>
    /\ \A i \in 1..pushed : \/ i <= Len(written)
                            \/ pc \in {"check", "write"} /\ data = i
                            \/ \E k \in DOMAIN queue : queue[k] = i
    /\ \A k \in DOMAIN queue : queue[k] # Sentinel => queue[k] > Taken
    /\ \A j, k \in DOMAIN queue :
         j < k /\ Sentinel \notin {queue[j], queue[k]} => queue[j] < queue[k]

\* The first close() that puts its sentinel comes back, unless an operation of the file
\* fails or something is pushed behind the sentinel.
Failed == exc = WriteError \/ pc = "crashed"
CloseReturnsInTime ==
  closer = "put" /\ closes = 1 ~>
    closer = "closed" \/ Failed \/ (closer # "put" /\ pushed > mark)

\* "Finalize and close the subscription handler": that, whatever is pushed meanwhile.
CloseReturns == closer = "put" ~> closer = "closed"

\* An item that was accepted before anybody called close() is written in the end, unless
\* an operation of the file fails: whatever the others push and whoever closes.
AcceptedIsWritten ==
  \A i \in Item : i <= pushed /\ closes = 0 ~> Failed \/ \E k \in DOMAIN written : written[k] = i
=============================================================================
