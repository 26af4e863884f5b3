------------------------------- MODULE Queue -------------------------------
(***************************************************************************)
(* The queues of the helper process (bluez-5.47/src/shared/queue.c): lists *)
(* of entries with a head, a tail and a count, as sequences of the data    *)
(* they hold.  No datum is queued twice by the modules that use them.      *)
(***************************************************************************)
EXTENDS Naturals, Sequences, SequencesExt

\* queue_push_tail and queue_push_head.
PushTail(q, x) == Append(q, x)
PushHead(q, x) == <<x>> \o q

\* The first entry that a match function accepts, given the data it accepts; 0 if
\* there is none.
FirstMatch(q, matching) ==
  LET I == {i \in 1..Len(q) : q[i] \in matching} IN IF I = {} THEN 0 ELSE Min(I)

\* queue_remove and queue_remove_if: without the first entry that matches, if any.
RemoveIf(q, matching) ==
  LET i == FirstMatch(q, matching) IN IF i = 0 THEN q ELSE RemoveAt(q, i)

\* queue_find: the data the function finds first, as a set of one or none.
FindIf(q, matching) ==
  LET i == FirstMatch(q, matching) IN IF i = 0 THEN {} ELSE {q[i]}

\* queue_remove_all, entry by entry.
RemoveAll(q, matching) ==
  LET rest[i \in 0..Len(q)] ==
        IF i = 0 THEN <<>>
        ELSE IF q[i] \in matching THEN rest[i - 1] ELSE Append(rest[i - 1], q[i])
  IN rest[Len(q)]

\* queue_foreach keeps the entry after the one whose function it calls.
FollowerIn(q, x) ==
  LET i == FirstMatch(q, {x})
  IN IF i \in 1..(Len(q) - 1) THEN {q[i + 1]} ELSE {}
=============================================================================
