------------------------------- MODULE Backlog -------------------------------
(***************************************************************************)
(* The bounded in-memory buffer of cpp/src/backlog.{hpp,cpp}.              *)
(*                                                                         *)
(* Every operation takes the buffer's mutex for its whole body, so each is *)
(* one action here.  IsFull() reads the atomic flag without the mutex.     *)
(*                                                                         *)
(*   queue     the deque of pending entries, oldest first                  *)
(*   is_full   the high-watermark flag polled by the flush task            *)
(*   evicted   the entries dropped by Add on overflow (the code only       *)
(*             counts them, as kBacklogDrop observations)                  *)
(***************************************************************************)
EXTENDS Naturals, Sequences

CONSTANT MaxSize        \* task_backlog_max_size

ASSUME MaxSizeAssumption == MaxSize \in Nat \ {0}

VARIABLES queue, is_full, evicted

backlogVars == <<queue, is_full, evicted>>

\* size >= max_size * 0.95; in doubles 0.95 * max_size rounds to the exact
\* product whenever that is an integer, so the comparison is the rational one.
AtWatermark(q) == 20 * Len(q) >= 19 * MaxSize

BacklogInit ==
    /\ queue = <<>>
    /\ is_full = FALSE
    /\ evicted = {}

-----------------------------------------------------------------------------

\* Mutated form of Add: overflow drops the newest pending entry.
AddDropsNewest(log) ==
    /\ IF Len(queue) >= MaxSize
       THEN /\ queue' = Append(SubSeq(queue, 1, Len(queue) - 1), log)
            /\ evicted' = evicted \cup {queue[Len(queue)]}
       ELSE /\ queue' = Append(queue, log)
            /\ UNCHANGED evicted
    /\ is_full' = (is_full \/ AtWatermark(queue'))

\* Mutated form of Add: overflow is counted, but nothing is popped.
AddCountsOnly(log) ==
    /\ queue' = Append(queue, log)
    /\ evicted' = IF Len(queue) >= MaxSize THEN evicted \cup {Head(queue)}
                                           ELSE evicted
    /\ is_full' = (is_full \/ AtWatermark(queue'))

\* Backlog::Add: at capacity the oldest entry makes room for the new one, and
\* the flag is raised (never lowered) when the new size is at the watermark.
Add(log) ==
    /\ IF Len(queue) >= MaxSize
       THEN /\ queue' = Append(Tail(queue), log)
            /\ evicted' = evicted \cup {Head(queue)}
       ELSE /\ queue' = Append(queue, log)
            /\ UNCHANGED evicted
    /\ is_full' = (is_full \/ AtWatermark(queue'))

\* Mutated form of Flush: the watermark flag stays up.
FlushKeepsFlag ==
    /\ queue' = <<>>
    /\ UNCHANGED <<is_full, evicted>>

\* Mutated form of Flush: the queue is copied out and not cleared.
FlushCopies ==
    /\ is_full' = FALSE
    /\ UNCHANGED <<queue, evicted>>

\* Backlog::Flush: the flag is lowered and the whole queue moved out; the
\* caller takes the current value of queue.
Flush ==
    /\ queue' = <<>>
    /\ is_full' = FALSE
    /\ UNCHANGED evicted

=============================================================================
