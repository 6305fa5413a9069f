------------------------------ MODULE EventLog ------------------------------
(***************************************************************************)
(* What the event history promises to its readers: the most recent events, *)
(* oldest first, at most "size" of them, each with the identifier it got   *)
(* when it was added.  A change of the size may forget the oldest events   *)
(* and nothing else.  The ring buffer of pkg/events implements it.         *)
(***************************************************************************)
EXTENDS Integers, Sequences

CONSTANTS Event,    \* the records that can be added
          Sizes     \* the sizes the configuration can ask for

VARIABLES held,     \* the events kept, oldest first
          first,    \* identifier of Head(held); of the next event if none
          size      \* how many events are kept at most

logVars == <<held, first, size>>

\* The last n events of s.
Newest(s, n) == IF n >= Len(s) THEN s ELSE SubSeq(s, Len(s) - n + 1, Len(s))

\* The events from identifier i on, at most n of them.
From(i, n) ==
  IF i < first \/ i >= first + Len(held)
  THEN <<>>
  ELSE SubSeq(held, i - first + 1,
              IF i - first + n < Len(held) THEN i - first + n ELSE Len(held))

Keep(s, n) ==
  /\ held' = Newest(s, n)
  /\ first' = first + Len(s) - Len(held')

LogInit ==
  /\ held = <<>>
  /\ first = 0
  /\ size \in Sizes

LogAdd(e) ==
  /\ Keep(Append(held, e), size)
  /\ UNCHANGED size

LogResize(n) ==
  /\ size' = n
  /\ Keep(held, n)

LogNext ==
  \/ \E e \in Event : LogAdd(e)
  \/ \E n \in Sizes : LogResize(n)

LogSpec == LogInit /\ [][LogNext]_logVars
=============================================================================
