----------------------------- MODULE BoundedRing -----------------------------
(***************************************************************************)
(* The fixed-capacity FIFO of engine/pkg/utils/boundedmpsc/queue.go.       *)
(* Every method runs under the queue's mutex, so each is an operator on    *)
(* the record of its fields.  head and tail are counters that wrap at Wrap *)
(* (2^64 in the code); since the capacity is a power of two, masking a     *)
(* counter is taking its remainder by the capacity.                        *)
(***************************************************************************)
EXTENDS Naturals, Sequences

CONSTANTS Wrap,   \* where the uint64 counters head and tail wrap
          Nil     \* the zero value a consumed slot is cleared to

\* New rejects a capacity below two and one that is not a power of two.
ValidCapacity(capacity) == \E k \in 1..16 : capacity = 2^k

New(capacity) ==
    [buffer |-> [i \in 0..(capacity - 1) |-> Nil],
     cap |-> capacity, head |-> 0, tail |-> 0, count |-> 0]

\* Mutant: one more value than there are slots.
CanPushOverfull(q) == q.count # q.cap + 1

CanPush(q) == q.count # q.cap

Push(q, value) ==
    [q EXCEPT !.buffer[q.tail % q.cap] = value,
              !.tail = (@ + 1) % Wrap,
              !.count = @ + 1]

Empty(q) == q.count = 0

\* The value Pop returns, and the queue it leaves behind.
Front(q) == q.buffer[q.head % q.cap]

Pop(q) ==
    [q EXCEPT !.buffer[q.head % q.cap] = Nil,
              !.head = (@ + 1) % Wrap,
              !.count = @ - 1]

\* The queued values, oldest first: the sequence the ring stands for.
Contents(q) == [i \in 1..q.count |-> q.buffer[((q.head + i - 1) % Wrap) % q.cap]]
=============================================================================
