----------------------------- MODULE RingBuffer -----------------------------
(***************************************************************************)
(* The circular event buffer (pkg/events/event_ringbuffer.go).  Positions, *)
(* counts and identifiers are unsigned words: a subtraction wraps modulo   *)
(* Word.  Every operation holds the buffer's lock for its whole length, so *)
(* each one is a single step.                                              *)
(***************************************************************************)
EXTENDS Integers, Sequences

CONSTANTS Event,      \* the event records
          NoEvent,    \* nil: a slot that was never written
          Sizes,      \* the capacities the configuration can ask for
          Word        \* 2^64 in the code; any power of two above the ids

ASSUME RingAssumption ==
  /\ NoEvent \notin Event
  /\ Sizes \subseteq Nat \ {0}
  /\ Word \in Nat \ {0}

VARIABLES events, capacity, head, full, id, lowestId, resizeOffset

ring == <<events, capacity, head, full, id, lowestId, resizeOffset>>

Least(a, b) == IF a < b THEN a ELSE b

\* a - b on unsigned words.
Minus(a, b) == (a - b) % Word

\* newEventRingBuffer
RingInit(c) ==
  /\ capacity = c
  /\ events = [p \in 0 .. c - 1 |-> NoEvent]
  /\ head = 0 /\ id = 0 /\ lowestId = 0 /\ resizeOffset = 0
  /\ full = FALSE

\* Add
Add(e) ==
  /\ events' = [events EXCEPT ![head] = e]
  /\ full' = (full \/ head = capacity - 1)
  /\ lowestId' = lowestId + IF full THEN 1 ELSE 0
  /\ head' = (head + 1) % capacity
  /\ id' = id + 1
  /\ UNCHANGED <<capacity, resizeOffset>>

\* updateLowestID
updateLowestID(beginSize, endSize) ==
  IF beginSize < endSize \/ id - lowestId <= endSize THEN lowestId ELSE id - endSize

\* The positions keep counting from identifier 0 after a resize.
ForgottenOffset(newSize) ==
  LET n == Least(id - lowestId, newSize)
      start == (head + capacity - n) % capacity
  IN  /\ newSize # capacity
      /\ capacity' = newSize
      /\ events' = [p \in 0 .. newSize - 1 |->
                      IF p < n THEN events[(start + p) % capacity] ELSE NoEvent]
      /\ head' = n % newSize
      /\ lowestId' = updateLowestID(capacity, newSize)
      /\ full' = (n = newSize)
      /\ UNCHANGED <<id, resizeOffset>>

\* Resize.  The slots are copied in one or two pieces, from the oldest kept
\* event to the newest; with nothing to keep the end index wraps around and
\* slots that were never written are copied.
Resize(newSize) ==
  \/ /\ newSize = capacity
     /\ UNCHANGED ring
  \/ LET n == Least(id - lowestId, newSize)
         start == (head + capacity - n) % capacity
         end == Minus(start + n, 1) % capacity
         moved == (IF end >= start THEN end + 1 ELSE capacity + end + 1) - start
     IN  /\ newSize # capacity
         /\ capacity' = newSize
         /\ events' = [p \in 0 .. newSize - 1 |->
                         IF p < moved THEN events[(start + p) % capacity] ELSE NoEvent]
         /\ head' = n % newSize
         /\ lowestId' = updateLowestID(capacity, newSize)
         /\ resizeOffset' = lowestId'
         /\ full' = (n = newSize)
         /\ UNCHANGED id

-----------------------------------------------------------------------------
\* id2pos: the identifiers that are in the buffer, and where.
Holds(i) == i >= lowestId /\ i < id
id2pos(i) == Minus(i, resizeOffset) % capacity

\* getLastEventID
getLastEventID == IF id = 0 THEN 0 ELSE id - 1

\* getEntriesFromRanges, one range: the slots from "from" up to "to".
Entries(from, to) == [k \in 1 .. to - from |-> events[from + k - 1]]

\* The second range is not cut at the head.
PastHead(i, c) ==
  LET count == Least(c, capacity)
      pos == id2pos(i)
  IN  IF ~Holds(i) THEN <<>>
      ELSE IF full /\ pos >= head
      THEN Entries(pos, Least(pos + count, capacity))
             \o Entries(0, Least(Minus(pos + count, capacity), capacity))
      ELSE Entries(pos, Least(pos + count, head))

\* getEventsFromID: the records of the answer (the two bounds that go with
\* them are lowestId and getLastEventID).
getEventsFromID(i, c) ==
  LET count == Least(c, capacity)
      pos == id2pos(i)
  IN  IF ~Holds(i) THEN <<>>
      ELSE IF full /\ pos >= head
      THEN Entries(pos, Least(pos + count, capacity))
             \o Entries(0, Least(Minus(pos + count, capacity), head))
      ELSE Entries(pos, Least(pos + count, head))

\* GetRecentEvents
GetRecentEvents(count) ==
  getEventsFromID(IF getLastEventID < count THEN 0 ELSE getLastEventID - count + 1, count)

-----------------------------------------------------------------------------
\* What the slots hold, in the order of the identifiers.
Held == [k \in 1 .. id - lowestId |-> events[id2pos(lowestId + k - 1)]]

Log == INSTANCE EventLog WITH held <- Held, first <- lowestId, size <- capacity

\* The slots, the head and the offset implement the abstract log: an event
\* added is the newest, only the oldest are overwritten, and a resize
\* (Resize, event_ringbuffer.go:224) keeps the newest events under the
\* identifiers they had.
ImplementsLog == Log!LogSpec

\* A query that asks for everything from an identifier on gets exactly the
\* events the log holds from there (getEventsFromID, event_ringbuffer.go:104),
\* wherever the buffer wraps.
TailQueryExact ==
  \A i \in 0 .. id, c \in 0 .. id + 1 :
    i + c >= id => getEventsFromID(i, c) = Log!From(i, c)

-----------------------------------------------------------------------------
(* Expected of the code by its comments, and not so: see the README.       *)

\* A query returns what was asked for: at most "count" events, from "id" on
\* (event_ringbuffer.go:91 and :73).
QueryExact ==
  \A i \in 0 .. id, c \in 1 .. id + 1 : getEventsFromID(i, c) = Log!From(i, c)
=============================================================================
