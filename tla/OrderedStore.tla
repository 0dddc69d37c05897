----------------------------- MODULE OrderedStore -----------------------------
(***************************************************************************)
(* What the write path promises, with no backlog, flush task, transaction  *)
(* or process in sight: entries are admitted one by one under increasing   *)
(* numbers; an admitted entry waits, and is then either stored or dropped. *)
(* Entries are stored in batches, each in admission order and after        *)
(* everything stored before it.  What is stored stays stored, and what is  *)
(* dropped stays dropped.                                                  *)
(***************************************************************************)
EXTENDS Naturals, Sequences

VARIABLES accepted, waiting, stored, gone

absVars == <<accepted, waiting, stored, gone>>

Init ==
    /\ accepted = 0
    /\ waiting = {}
    /\ stored = <<>>
    /\ gone = {}

\* A new entry is admitted; it may displace waiting ones, never itself.
Accept(dropped) ==
    /\ dropped \subseteq waiting
    /\ accepted' = accepted + 1
    /\ waiting' = (waiting \ dropped) \cup {accepted + 1}
    /\ gone' = gone \cup dropped
    /\ UNCHANGED stored

\* Waiting entries are dropped.
Discard(dropped) ==
    /\ dropped \subseteq waiting
    /\ waiting' = waiting \ dropped
    /\ gone' = gone \cup dropped
    /\ UNCHANGED <<accepted, stored>>

\* A batch of waiting entries is stored, in order.
Store ==
    LET n == Len(stored)
    IN  /\ Len(stored') >= n
        /\ \A i \in 1..n : stored'[i] = stored[i]
        /\ \A i \in (n + 1)..Len(stored') : stored'[i] \in waiting
        /\ \A i, j \in 1..Len(stored') : i < j => stored'[i] < stored'[j]
        /\ waiting' = waiting \ {stored'[i] : i \in (n + 1)..Len(stored')}
        /\ UNCHANGED <<accepted, gone>>

Next ==
    \/ \E dropped \in SUBSET waiting : Accept(dropped) \/ Discard(dropped)
    \/ Store

Spec == Init /\ [][Next]_absVars

=============================================================================
