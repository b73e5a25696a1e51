---------------------------- MODULE MailboxProofs ----------------------------
(***************************************************************************)
(* Theorems about Mailbox: the bounded ring is a FIFO queue, a job has one *)
(* owner until it is released, no wake-up of the worker is lost, and the   *)
(* queues implement JobQueue; for any jobs, priorities, middlewares,       *)
(* capacity and wrap-around.                                               *)
(***************************************************************************)
EXTENDS Mailbox, FiniteSetTheorems, TLAPS

(***************************************************************************)
(* The inductive invariant.                                                *)
(***************************************************************************)
\* head, tail and count of a queue describe the same slots, and the others are cleared.
RingOK(q) ==
    /\ q \in Rings
    /\ q.tail = (q.head + q.count) % Wrap
    /\ \A i \in 0..(LaneCapacity - 1) :
         q.buffer[i] # NoJob <=> \E k \in 0..(q.count - 1) : i = (q.head + k) % LaneCapacity

RingsInv == queues \in [Lanes -> Rings] /\ \A l \in Lanes : RingOK(queues[l])

\* The jobs of a lane, oldest first.
Waiting(l) == Ring!Contents(queues[l])

\* PostJob still holds a job until it has published or refused it; one that is queued or being
\* handled has been published and is not over.
Owned(j) ==
    /\ releases[j] = IF fate[j] = "none" THEN 0 ELSE 1
    /\ post[j] \in {"new", "receive", "submit", "admit"} =>
         fate[j] = "none" /\ result[j] = "none" /\ prio[j] = Priority[j]
    /\ post[j] = "wake" => result[j] = "none"
    /\ result[j] \in Errors =>
         post[j] = "returned" /\ fate[j] = "discarded" /\ prio[j] = Priority[j]

OwnInv == \A j \in Jobs : Owned(j)

Published(j) == post[j] \in {"wake", "returned"} /\ fate[j] = "none"

\* A job is in one place only.
PlaceInv ==
    /\ cpc \in {"exec", "drainExec"} <=> current # NoJob
    /\ current # NoJob => Published(current)
    /\ \A l \in Lanes : \A i \in 1..Len(Waiting(l)) :
         /\ Published(Waiting(l)[i]) /\ Waiting(l)[i] # current
         /\ \A m \in Lanes : \A k \in 1..Len(Waiting(m)) :
              Waiting(l)[i] = Waiting(m)[k] => l = m /\ i = k

\* The context a job carries is the walk its OnReceive calls made.
Chained(j) ==
    /\ fate[j] = "none" => completed[j] = <<>> /\ ExecutedPrefix(mctx[j]) = received[j]
    /\ fate[j] # "none" => completed[j] = Reverse(received[j])
    /\ post[j] \in {"new", "receive"} => mctx[j] = NoCtx /\ received[j] = <<>>

ChainInv == \A j \in Jobs : Chained(j)

\* A lane the worker need not look at again before it parks.
Quiet(l) == Ring!Empty(queues[l]) \/ notified \/ \E j \in Jobs : post[j] = "wake"

\* NextJob leaves quiet lanes behind it, and the worker reaches Idle with all of them quiet
\* or held back; a stop that has called Wake is noticed before the worker parks.
NoticeInv ==
    /\ state = "closed" <=> stop # "none"
    /\ cpc \in {"drain", "drainExec", "done"} => state = "closed"
    /\ stop \in {"wait", "stopped"} /\ cpc \in {"next", "exec", "idle", "park"} => notified
    /\ cpc = "next" => \A l \in Lanes \ scan : Quiet(l)
    /\ cpc \in {"idle", "park"} => \A l \in Lanes : Quiet(l) \/ HeldBack(l)
    /\ cpc = "done" => \A l \in Lanes : Ring!Empty(queues[l])

MailInv == TypeOK /\ OwnInv /\ PlaceInv /\ ChainInv /\ NoticeInv

(***************************************************************************)
(* Arithmetic of the ring's counters.                                      *)
(***************************************************************************)
LEMMA MulMono ==
    ASSUME NEW c \in Nat, NEW a \in Int, NEW b \in Int, a >= b
    PROVE  c * a >= c * b
<1>1. a - b \in Nat
  OBVIOUS
<1>2. c * (a - b) \in Nat
  BY <1>1
<1>3. c * (a - b) = c * a - c * b
  OBVIOUS
<1>4. QED
  BY <1>2, <1>3

LEMMA DivMod ==
    ASSUME NEW c \in Nat \ {0}, NEW x \in Nat
    PROVE  /\ x \div c \in Nat /\ x % c \in 0..(c - 1) /\ x = c * (x \div c) + (x % c)
  OBVIOUS

LEMMA ModUnique ==
    ASSUME NEW c \in Nat \ {0}, NEW p \in Nat, NEW t \in 0..(c - 1)
    PROVE  (c * p + t) % c = t
<1> DEFINE x == c * p + t
<1> DEFINE d == x \div c
<1> DEFINE m == x % c
<1>0. c * p \in Nat /\ x \in Nat
  OBVIOUS
<1>1. d \in Nat /\ m \in 0..(c - 1) /\ x = c * d + m
  BY <1>0, DivMod
<1>2. CASE d > p
  <2>1. c * d >= c * (p + 1)
    BY <1>1, <1>2, MulMono
  <2>2. c * (p + 1) = c * p + c
    OBVIOUS
  <2>3. QED
    BY <1>1, <2>1, <2>2
<1>3. CASE d < p
  <2>1. c * p >= c * (d + 1)
    BY <1>1, <1>3, MulMono
  <2>2. c * (d + 1) = c * d + c
    BY <1>1
  <2>3. QED
    BY <1>1, <2>1, <2>2
<1>4. CASE d = p
  BY <1>0, <1>1, <1>4
<1>5. QED
  BY <1>1, <1>2, <1>3, <1>4

\* A multiple of the modulus does not count.
LEMMA ModDrop ==
    ASSUME NEW c \in Nat \ {0}, NEW p \in Nat, NEW y \in Nat
    PROVE  (c * p + y) % c = y % c
<1> DEFINE d == y \div c
<1> DEFINE t == y % c
<1>1. d \in Nat /\ t \in 0..(c - 1) /\ y = c * d + t
  BY DivMod
<1>2. c * p + (c * d + t) = c * (p + d) + t
  BY <1>1
<1>3. p + d \in Nat
  BY <1>1
<1>4. (c * (p + d) + t) % c = t
  BY <1>1, <1>3, ModUnique
<1>5. QED
  BY <1>1, <1>2, <1>4

\* A counter may wrap before it is added to.
LEMMA ModAdd ==
    ASSUME NEW w \in Nat \ {0}, NEW x \in Nat, NEW k \in Nat
    PROVE  ((x % w) + k) % w = (x + k) % w
<1> DEFINE d == x \div w
<1> DEFINE t == x % w
<1>1. d \in Nat /\ t \in Nat /\ x = w * d + t
  BY DivMod
<1>2. x + k = w * d + (t + k)
  BY <1>1
<1>3. t + k \in Nat
  BY <1>1
<1>4. (w * d + (t + k)) % w = (t + k) % w
  BY <1>1, <1>3, ModDrop
<1>5. QED
  BY <1>2, <1>4

\* Masking a counter that wraps at a multiple of the capacity is masking the counter.
LEMMA ModWrap ==
    ASSUME NEW c \in Nat \ {0}, NEW w \in Nat \ {0}, w % c = 0, NEW x \in Nat
    PROVE  (x % w) % c = x % c
<1> DEFINE d == x \div w
<1> DEFINE t == x % w
<1> DEFINE e == w \div c
<1>1. d \in Nat /\ t \in Nat /\ x = w * d + t
  BY DivMod
<1>2. e \in Nat /\ w = c * e
  BY DivMod
<1>3. e * d \in Nat /\ w * d = c * (e * d)
  BY <1>1, <1>2
<1>4. (c * (e * d) + t) % c = t % c
  BY <1>1, <1>3, ModDrop
<1>5. QED
  BY <1>1, <1>3, <1>4

\* The slots of a full turn differ.
LEMMA ModInj ==
    ASSUME NEW c \in Nat \ {0}, NEW x \in Nat, NEW k \in Nat, NEW n \in Nat,
           k < c, n < c, (x + k) % c = (x + n) % c
    PROVE  k = n
<1> DEFINE d == (x + k) \div c
<1> DEFINE e == (x + n) \div c
<1> DEFINE t == (x + k) % c
<1>0. x + k \in Nat /\ x + n \in Nat
  OBVIOUS
<1>1. d \in Nat /\ t \in 0..(c - 1) /\ x + k = c * d + t
  BY <1>0, DivMod
<1>2. e \in Nat /\ x + n = c * e + t
  BY <1>0, DivMod
<1>3. CASE d > e
  <2>1. c * d >= c * (e + 1)
    BY <1>1, <1>2, <1>3, MulMono
  <2>2. c * (e + 1) = c * e + c
    BY <1>2
  <2>3. c * d \in Nat /\ c * e \in Nat
    BY <1>1, <1>2
  <2>4. QED
    BY <1>1, <1>2, <2>1, <2>2, <2>3
<1>4. CASE d < e
  <2>1. c * e >= c * (d + 1)
    BY <1>1, <1>2, <1>4, MulMono
  <2>2. c * (d + 1) = c * d + c
    BY <1>1
  <2>3. c * d \in Nat /\ c * e \in Nat
    BY <1>1, <1>2
  <2>4. QED
    BY <1>1, <1>2, <2>1, <2>2, <2>3
<1>5. CASE d = e
  <2>1. c * d \in Nat
    BY <1>1
  <2>2. QED
    BY <1>1, <1>2, <1>5, <2>1
<1>6. QED
  BY <1>1, <1>2, <1>3, <1>4, <1>5

LEMMA ModInjZero ==
    ASSUME NEW c \in Nat \ {0}, NEW x \in Nat, NEW k \in Nat, k < c, (x + k) % c = x % c
    PROVE  k = 0
<1>1. PICK n \in Nat : n = 0
  OBVIOUS
<1>2. x + n = x /\ n < c
  BY <1>1
<1>3. (x + k) % c = (x + n) % c
  BY <1>2
<1>4. k = n
  BY <1>2, <1>3, ModInj
<1>5. QED
  BY <1>1, <1>4

(***************************************************************************)
(* The bounded ring is a FIFO queue.                                       *)
(***************************************************************************)
LEMMA Sizes == /\ LaneCapacity \in Nat \ {0} /\ Wrap \in Nat \ {0} /\ Wrap % LaneCapacity = 0
               /\ NoJob \notin Jobs
  BY ConstantsAssumption

\* The slot of the k-th job.
LEMMA Slots ==
    ASSUME NEW h \in Nat, NEW k \in Nat
    PROVE  /\ ((h + k) % Wrap) % LaneCapacity = (h + k) % LaneCapacity
           /\ (h + k) % LaneCapacity \in 0..(LaneCapacity - 1)
           /\ (h + k) % Wrap \in 0..(Wrap - 1)
<1>1. h + k \in Nat
  OBVIOUS
<1>2. QED
  BY <1>1, Sizes, ModWrap, DivMod

LEMMA ContentsShape ==
    ASSUME NEW q, RingOK(q)
    PROVE  /\ DOMAIN Ring!Contents(q) = 1..q.count
           /\ \A i \in 1..q.count :
                /\ Ring!Contents(q)[i] = q.buffer[(q.head + (i - 1)) % LaneCapacity]
                /\ Ring!Contents(q)[i] \in Jobs
           /\ Ring!Contents(q) \in Seq(Jobs)
           /\ Len(Ring!Contents(q)) = q.count
<1>1. q.count \in Nat /\ q.head \in Nat /\ q.cap = LaneCapacity
  BY Sizes DEF RingOK, Rings
<1>2. DOMAIN Ring!Contents(q) = 1..q.count
  BY DEF Ring!Contents
<1>3. ASSUME NEW i \in 1..q.count
      PROVE  /\ Ring!Contents(q)[i] = q.buffer[(q.head + (i - 1)) % LaneCapacity]
             /\ Ring!Contents(q)[i] \in Jobs
  <2>0. i - 1 \in 0..(q.count - 1) /\ i - 1 \in Nat /\ q.head + i - 1 = q.head + (i - 1)
    BY <1>1
  <2>1. /\ ((q.head + (i - 1)) % Wrap) % LaneCapacity = (q.head + (i - 1)) % LaneCapacity
        /\ (q.head + (i - 1)) % LaneCapacity \in 0..(LaneCapacity - 1)
    BY <1>1, <2>0, Slots
  <2>2. Ring!Contents(q)[i] = q.buffer[(q.head + (i - 1)) % LaneCapacity]
    BY <1>1, <2>0, <2>1 DEF Ring!Contents
  <2>3. q.buffer[(q.head + (i - 1)) % LaneCapacity] # NoJob
    BY <2>0, <2>1 DEF RingOK
  <2>4. q.buffer[(q.head + (i - 1)) % LaneCapacity] \in Jobs \cup {NoJob}
    BY <2>1 DEF RingOK, Rings
  <2>5. QED
    BY <2>2, <2>3, <2>4
<1>4. Ring!Contents(q) \in [1..q.count -> Jobs]
  BY <1>2, <1>3 DEF Ring!Contents
<1>5. QED
  BY <1>1, <1>2, <1>3, <1>4

\* New is the empty queue.
LEMMA NewRing == RingOK(Ring!New(LaneCapacity)) /\ Ring!Contents(Ring!New(LaneCapacity)) = <<>>
<1> DEFINE q == Ring!New(LaneCapacity)
<1>1. q \in Rings /\ q.count = 0 /\ q.head = 0 /\ q.tail = 0
  BY Sizes DEF Ring!New, Rings
<1>2. (q.head + q.count) % Wrap = 0
  BY <1>1, Sizes
<1>3. \A i \in 0..(LaneCapacity - 1) : q.buffer[i] = NoJob
  BY DEF Ring!New
<1>4. RingOK(q)
  BY <1>1, <1>2, <1>3 DEF RingOK
<1>5. Ring!Contents(q) \in Seq(Jobs) /\ Len(Ring!Contents(q)) = 0
  BY <1>1, <1>4, ContentsShape
<1>6. QED
  BY <1>4, <1>5

\* Push appends a job to a queue that has room.
LEMMA PushRing ==
    ASSUME NEW q, RingOK(q), Ring!CanPush(q), NEW j \in Jobs
    PROVE  /\ RingOK(Ring!Push(q, j))
           /\ Ring!Contents(Ring!Push(q, j)) = Append(Ring!Contents(q), j)
<1> DEFINE r == Ring!Push(q, j)
<1> DEFINE s == q.tail % LaneCapacity
<1>1. /\ q.count \in Nat /\ q.count < LaneCapacity /\ q.head \in 0..(Wrap - 1) /\ q.head \in Nat
      /\ q.cap = LaneCapacity /\ q.tail \in 0..(Wrap - 1) /\ q.tail \in Nat
      /\ q.buffer \in [0..(LaneCapacity - 1) -> Jobs \cup {NoJob}]
  BY Sizes DEF RingOK, Rings, Ring!CanPush
<1>2. s = (q.head + q.count) % LaneCapacity /\ s \in 0..(LaneCapacity - 1)
  BY <1>1, Slots DEF RingOK
<1>3. /\ r.buffer = [q.buffer EXCEPT ![s] = j] /\ r.cap = LaneCapacity /\ r.head = q.head
      /\ r.tail = (q.tail + 1) % Wrap /\ r.count = q.count + 1
  BY <1>1 DEF RingOK, Rings, Ring!Push
<1>4. r.tail = (r.head + r.count) % Wrap /\ r.tail \in 0..(Wrap - 1)
  <2>1. q.head + q.count \in Nat /\ (q.head + q.count) + 1 = q.head + (q.count + 1)
    BY <1>1
  <2>2. (((q.head + q.count) % Wrap) + 1) % Wrap = ((q.head + q.count) + 1) % Wrap
    BY <2>1, Sizes, ModAdd
  <2>3. (q.head + (q.count + 1)) % Wrap \in 0..(Wrap - 1)
    <3>1. q.count + 1 \in Nat
      BY <1>1
    <3>2. QED
      BY <1>1, <3>1, Slots
  <2>4. QED
    BY <1>3, <2>1, <2>2, <2>3 DEF RingOK
<1>5. r \in Rings
  <2>1. [q.buffer EXCEPT ![q.tail % q.cap] = j] \in [0..(LaneCapacity - 1) -> Jobs \cup {NoJob}]
    BY <1>1, <1>2
  <2>2. q.count + 1 \in 0..LaneCapacity
    BY <1>1, Sizes
  <2>3. (q.tail + 1) % Wrap \in 0..(Wrap - 1)
    BY <1>3, <1>4
  <2>4. QED
    BY <2>1, <2>2, <2>3 DEF RingOK, Rings, Ring!Push
<1>6. ASSUME NEW i \in 0..(LaneCapacity - 1)
      PROVE  r.buffer[i] # NoJob <=> \E k \in 0..(r.count - 1) : i = (r.head + k) % LaneCapacity
  <2>1. CASE i = s
    <3>1. r.buffer[i] = j /\ j # NoJob
      BY <1>1, <1>2, <1>3, <2>1, Sizes
    <3>2. q.count \in 0..(r.count - 1)
      BY <1>1, <1>3
    <3>3. QED
      BY <1>2, <1>3, <2>1, <3>1, <3>2
  <2>2. CASE i # s
    <3>1. r.buffer[i] = q.buffer[i]
      BY <1>1, <1>3, <2>2
    <3>2. 0..(r.count - 1) = 0..(q.count - 1) \cup {q.count}
      BY <1>1, <1>3
    <3>3. QED
      BY <1>2, <1>3, <2>2, <3>1, <3>2 DEF RingOK
  <2>3. QED
    BY <2>1, <2>2
<1>7. RingOK(r)
  BY <1>4, <1>5, <1>6 DEF RingOK
<1> HIDE DEF r
<1>8. Ring!Contents(r) = Append(Ring!Contents(q), j)
  <2> DEFINE C == Ring!Contents(q)
  <2> DEFINE D == Ring!Contents(r)
  <2>1. C \in Seq(Jobs) /\ Len(C) = q.count /\ D \in Seq(Jobs) /\ Len(D) = q.count + 1
    BY <1>3, <1>7, ContentsShape
  <2>2. ASSUME NEW i \in 1..q.count PROVE D[i] = C[i]
    <3>1. i - 1 \in Nat /\ i - 1 < LaneCapacity /\ i - 1 # q.count /\ i \in 1..r.count
      BY <1>1, <1>3, Sizes, SMTT(30)
    <3>2. (q.head + (i - 1)) % LaneCapacity # s
      BY <1>1, <1>2, <3>1, Sizes, ModInj
    <3>3. (q.head + (i - 1)) % LaneCapacity \in 0..(LaneCapacity - 1)
      BY <1>1, <3>1, Slots
    <3>4. D[i] = r.buffer[(q.head + (i - 1)) % LaneCapacity]
      <4>1. D[i] = r.buffer[(r.head + (i - 1)) % LaneCapacity]
        BY <1>7, <3>1, ContentsShape
      <4>2. QED
        BY <1>3, <4>1
    <3>5. C[i] = q.buffer[(q.head + (i - 1)) % LaneCapacity]
      BY ContentsShape
    <3>6. QED
      BY <1>1, <1>3, <3>2, <3>3, <3>4, <3>5
  <2>3. D[q.count + 1] = j
    <3>1. q.count + 1 \in 1..r.count /\ (q.count + 1) - 1 = q.count
      BY <1>1, <1>3
    <3>2. D[q.count + 1] = r.buffer[(q.head + q.count) % LaneCapacity]
      <4>1. D[q.count + 1] = r.buffer[(r.head + ((q.count + 1) - 1)) % LaneCapacity]
        BY <1>7, <3>1, ContentsShape
      <4>2. QED
        BY <1>3, <3>1, <4>1
    <3>3. QED
      BY <1>1, <1>2, <1>3, <3>2
  <2> HIDE DEF C, D
  <2>4. Append(C, j) \in Seq(Jobs) /\ Len(Append(C, j)) = q.count + 1
    BY <2>1
  <2>5. ASSUME NEW i \in 1..(q.count + 1) PROVE D[i] = Append(C, j)[i]
    <3>1. CASE i \in 1..q.count
      BY <2>1, <2>2, <3>1
    <3>2. CASE i = q.count + 1
      BY <2>1, <2>3, <3>2
    <3>3. i \in 1..q.count \/ i = q.count + 1
      BY <1>1
    <3>4. QED
      BY <3>1, <3>2, <3>3
  <2>6. D = Append(C, j)
    <3> DEFINE E == Append(C, j)
    <3>1. \A i \in 1..(q.count + 1) : D[i] = E[i]
      BY <2>5
    <3> HIDE DEF E
    <3>2. E \in Seq(Jobs) /\ Len(E) = q.count + 1
      BY <2>4 DEF E
    <3>3. D = E
      BY <2>1, <3>1, <3>2
    <3>4. QED
      BY <3>3 DEF E
  <2>7. QED
    BY <2>6 DEF C, D
<1>9. QED
  BY <1>7, <1>8 DEF r

\* Pop takes the first job out of a queue that has one.
LEMMA PopRing ==
    ASSUME NEW q, RingOK(q), ~Ring!Empty(q)
    PROVE  /\ RingOK(Ring!Pop(q))
           /\ Ring!Contents(q) # <<>>
           /\ Ring!Front(q) = Ring!Contents(q)[1] /\ Ring!Front(q) \in Jobs
           /\ Ring!Contents(Ring!Pop(q)) = Tail(Ring!Contents(q))
<1> DEFINE r == Ring!Pop(q)
<1> DEFINE s == q.head % LaneCapacity
<1>1. /\ q.count \in Nat /\ q.count > 0 /\ q.count <= LaneCapacity
      /\ q.head \in 0..(Wrap - 1) /\ q.head \in Nat
      /\ q.cap = LaneCapacity /\ q.tail \in 0..(Wrap - 1) /\ q.tail \in Nat
      /\ q.buffer \in [0..(LaneCapacity - 1) -> Jobs \cup {NoJob}]
  BY Sizes DEF RingOK, Rings, Ring!Empty
<1>2. s = (q.head + 0) % LaneCapacity /\ s \in 0..(LaneCapacity - 1)
  <2>1. q.head + 0 = q.head
    BY <1>1
  <2>2. (q.head + 0) % LaneCapacity \in 0..(LaneCapacity - 1)
    BY <1>1, Slots
  <2>3. QED
    BY <2>1, <2>2
<1>3. /\ r.buffer = [q.buffer EXCEPT ![s] = NoJob] /\ r.cap = LaneCapacity
      /\ r.head = (q.head + 1) % Wrap /\ r.tail = q.tail /\ r.count = q.count - 1
  BY <1>1 DEF RingOK, Rings, Ring!Pop
<1>4. (q.head + 1) % Wrap \in 0..(Wrap - 1)
  BY <1>1, Slots
<1>5. r \in Rings
  <2>1. [q.buffer EXCEPT ![q.head % q.cap] = NoJob] \in [0..(LaneCapacity - 1) -> Jobs \cup {NoJob}]
    BY <1>1, <1>2
  <2>2. q.count - 1 \in 0..LaneCapacity
    BY <1>1, Sizes
  <2>3. QED
    BY <1>4, <2>1, <2>2 DEF RingOK, Rings, Ring!Pop
\* The slots counted from the new head.
<1>6. ASSUME NEW k \in Nat
      PROVE  (r.head + k) % LaneCapacity = (q.head + (k + 1)) % LaneCapacity
  <2>1. q.head + 1 \in Nat /\ (q.head + 1) + k \in Nat /\ (q.head + 1) + k = q.head + (k + 1)
    BY <1>1
  <2>2. (((q.head + 1) % Wrap) + k) % Wrap = ((q.head + 1) + k) % Wrap
    BY <2>1, Sizes, ModAdd
  <2>3. (((q.head + 1) + k) % Wrap) % LaneCapacity = ((q.head + 1) + k) % LaneCapacity
    BY <2>1, Sizes, ModWrap
  <2>4. ((((q.head + 1) % Wrap) + k) % Wrap) % LaneCapacity = (((q.head + 1) % Wrap) + k) % LaneCapacity
    <3>1. (q.head + 1) % Wrap \in Nat
      BY <1>4
    <3>2. ((q.head + 1) % Wrap) + k \in Nat
      BY <3>1
    <3>3. QED
      BY <3>2, Sizes, ModWrap
  <2>5. QED
    BY <1>3, <2>1, <2>2, <2>3, <2>4
<1>7. r.tail = (r.head + r.count) % Wrap
  <2>1. q.head + 1 \in Nat /\ q.count - 1 \in Nat /\ (q.head + 1) + (q.count - 1) = q.head + q.count
    BY <1>1
  <2>2. (((q.head + 1) % Wrap) + (q.count - 1)) % Wrap = ((q.head + 1) + (q.count - 1)) % Wrap
    BY <2>1, Sizes, ModAdd
  <2>3. QED
    BY <1>3, <2>1, <2>2 DEF RingOK
<1>8. ASSUME NEW i \in 0..(LaneCapacity - 1)
      PROVE  r.buffer[i] # NoJob <=> \E k \in 0..(r.count - 1) : i = (r.head + k) % LaneCapacity
  <2>1. CASE i = s
    <3>1. r.buffer[i] = NoJob
      BY <1>1, <1>2, <1>3, <2>1
    <3>2. ASSUME NEW k \in 0..(r.count - 1), i = (r.head + k) % LaneCapacity PROVE FALSE
      <4>1. k \in Nat /\ k + 1 \in Nat /\ k + 1 < LaneCapacity /\ 0 < LaneCapacity
        BY <1>1, <1>3, Sizes
      <4>2. (q.head + (k + 1)) % LaneCapacity = q.head % LaneCapacity
        BY <1>2, <1>6, <2>1, <3>2, <4>1
      <4>3. k + 1 = 0
        BY <1>1, <4>1, <4>2, Sizes, ModInjZero
      <4>4. QED
        BY <4>1, <4>3
    <3>3. QED
      BY <3>1, <3>2
  <2>2. CASE i # s
    <3>1. r.buffer[i] = q.buffer[i]
      BY <1>1, <1>3, <2>2
    <3>2. ASSUME NEW k \in 0..(q.count - 1), i = (q.head + k) % LaneCapacity
          PROVE  \E m \in 0..(r.count - 1) : i = (r.head + m) % LaneCapacity
      <4>1. k # 0
        BY <1>2, <2>2, <3>2
      <4>2. k - 1 \in 0..(r.count - 1) /\ k - 1 \in Nat /\ (k - 1) + 1 = k
        BY <1>1, <1>3, <4>1
      <4>3. (r.head + (k - 1)) % LaneCapacity = (q.head + ((k - 1) + 1)) % LaneCapacity
        BY <1>6, <4>2
      <4>4. QED
        BY <3>2, <4>2, <4>3
    <3>3. ASSUME NEW k \in 0..(r.count - 1), i = (r.head + k) % LaneCapacity
          PROVE  \E m \in 0..(q.count - 1) : i = (q.head + m) % LaneCapacity
      <4>1. k + 1 \in 0..(q.count - 1) /\ k \in Nat
        BY <1>1, <1>3
      <4>2. QED
        BY <1>6, <3>3, <4>1
    <3>4. QED
      BY <3>1, <3>2, <3>3 DEF RingOK
  <2>3. QED
    BY <2>1, <2>2
<1>9. RingOK(r)
  BY <1>5, <1>7, <1>8 DEF RingOK
<1> DEFINE C == Ring!Contents(q)
<1> DEFINE D == Ring!Contents(r)
<1>10. C \in Seq(Jobs) /\ Len(C) = q.count /\ D \in Seq(Jobs) /\ Len(D) = q.count - 1
  BY <1>3, <1>9, ContentsShape
<1>11. Ring!Front(q) = C[1] /\ C[1] \in Jobs
  <2>1. 1 \in 1..q.count /\ 1 - 1 = 0
    BY <1>1
  <2>2. C[1] = q.buffer[(q.head + (1 - 1)) % LaneCapacity] /\ C[1] \in Jobs
    BY <2>1, ContentsShape
  <2>3. QED
    BY <1>1, <1>2, <2>1, <2>2 DEF Ring!Front
<1> HIDE DEF r
<1>12. ASSUME NEW i \in 1..(q.count - 1) PROVE D[i] = C[i + 1]
  <2>0. q.count \in Nat /\ q.count <= LaneCapacity /\ LaneCapacity \in Nat /\ r.count = q.count - 1
    BY <1>1, <1>3, Sizes
  <2>1. /\ i - 1 \in Nat /\ i \in 1..r.count /\ i + 1 \in 1..q.count /\ i # 0
        /\ i \in Nat /\ i < LaneCapacity /\ (i - 1) + 1 = i /\ (i + 1) - 1 = i
    BY <2>0
  <2>2. D[i] = r.buffer[(r.head + (i - 1)) % LaneCapacity]
    BY <1>9, <2>1, ContentsShape
  <2>3. C[i + 1] = q.buffer[(q.head + ((i + 1) - 1)) % LaneCapacity]
    BY <2>1, ContentsShape
  <2>4. (r.head + (i - 1)) % LaneCapacity = (q.head + ((i - 1) + 1)) % LaneCapacity
    BY <1>6, <2>1
  <2>5. (q.head + i) % LaneCapacity # s
    BY <1>1, <2>1, Sizes, ModInjZero
  <2>6. (q.head + i) % LaneCapacity \in 0..(LaneCapacity - 1)
    BY <1>1, <2>1, Slots
  <2>7. QED
    BY <1>1, <1>3, <2>1, <2>2, <2>3, <2>4, <2>5, <2>6
<1> HIDE DEF C, D
<1>13. D = Tail(C) /\ C # <<>>
  <2> DEFINE E == Tail(C)
  <2>1. E \in Seq(Jobs) /\ Len(E) = q.count - 1 /\ C # <<>>
    BY <1>1, <1>10
  <2>2. \A i \in 1..(q.count - 1) : E[i] = C[i + 1]
    BY <1>1, <1>10
  <2> HIDE DEF E
  <2>3. D = E
    <3>1. q.count - 1 \in Nat
      BY <1>1
    <3>2. \A i \in 1..(q.count - 1) : D[i] = E[i]
      BY <1>12, <2>2
    <3>3. QED
      BY <1>10, <2>1, <3>1, <3>2
  <2>4. QED
    BY <2>1, <2>3 DEF E
<1>14. QED
  BY <1>9, <1>11, <1>13 DEF r, C, D

(***************************************************************************)
(* The lanes.                                                              *)
(***************************************************************************)
LEMMA LeastNumber ==
    ASSUME NEW S, S \subseteq Nat, S # {}
    PROVE  \E m \in S : \A n \in S : m <= n
<1> DEFINE R == {ss \in Nat \X Nat : ss[1] < ss[2]}
<1>1. IsWellFoundedOn(R, Nat)
  BY NatLessThanWellFounded DEF OpToRel
<1>2. PICK m \in S : \A n \in S : ~(<<n, m>> \in R)
  BY <1>1, WFMin
<1>3. \A n \in S : m <= n
  <2> TAKE n \in S
  <2>1. n \in Nat /\ m \in Nat /\ ~(n < m)
    BY <1>2
  <2>2. QED
    BY <2>1
<1>4. QED
  BY <1>3

LEMMA LanesFinite == Lanes \subseteq Int /\ IsFiniteSet(Lanes)
<1>1. CASE QueueMode = "dual"
  <2>1. Lanes = 0..1
    BY <1>1 DEF Lanes
  <2>2. \A a, b \in Int : IsFiniteSet(a..b)
    BY FS_Interval
  <2>3. 0 \in Int /\ 1 \in Int
    OBVIOUS
  <2>4. IsFiniteSet(0..1)
    BY <2>2, <2>3, Zenon
  <2>5. QED
    BY <2>1, <2>4
<1>2. CASE QueueMode # "dual"
  BY <1>2, ConstantsAssumption DEF Lanes
<1>3. QED
  BY <1>1, <1>2

\* A finite set of integers has a least and a greatest element: otherwise take one of the
\* smallest size, and one element out of it.
LEMMA Extremes ==
    ASSUME NEW T, T \subseteq Int, IsFiniteSet(T), T # {}
    PROVE  /\ \E l \in T : \A m \in T : l <= m
           /\ \E l \in T : \A m \in T : l >= m
<1> DEFINE Good(S) == (\E l \in S : \A m \in S : l <= m) /\ (\E l \in S : \A m \in S : l >= m)
<1> DEFINE Bad == {n \in Nat : \E S \in SUBSET T : S # {} /\ Cardinality(S) = n /\ ~Good(S)}
<1>1. SUFFICES Bad = {}
  <2>1. Cardinality(T) \in Nat
    BY FS_CardinalityType
  <2>2. Good(T)
    BY <1>1, <2>1
  <2>3. QED
    BY <2>2
<1>2. SUFFICES ASSUME Bad # {} PROVE FALSE
  OBVIOUS
<1>3. PICK n \in Bad : \A m \in Bad : n <= m
  <2>1. Bad \subseteq Nat
    OBVIOUS
  <2> HIDE DEF Bad
  <2>2. QED
    BY <1>2, <2>1, LeastNumber
<1>4. PICK S \in SUBSET T : S # {} /\ Cardinality(S) = n /\ ~Good(S)
  BY <1>3
<1>5. PICK x \in S : TRUE
  BY <1>4
<1>6. IsFiniteSet(S) /\ IsFiniteSet(S \ {x}) /\ S \subseteq Int
  BY <1>4, FS_Subset
<1>7. Cardinality(S \ {x}) = Cardinality(S) - 1 /\ Cardinality(S \ {x}) \in Nat /\ n \in Nat
  BY <1>3, <1>5, <1>6, FS_RemoveElement, FS_CardinalityType
<1>8. CASE S \ {x} = {}
  <2>1. S = {x} /\ x \in Int
    BY <1>5, <1>6, <1>8
  <2>2. Good(S)
    BY <2>1
  <2>3. QED
    BY <1>4, <2>2
<1>9. CASE S \ {x} # {}
  <2>1. Good(S \ {x})
    <3>1. CASE Cardinality(S \ {x}) \in Bad
      <4>1. n <= Cardinality(S \ {x})
        BY <1>3, <3>1
      <4>2. QED
        BY <1>4, <1>7, <4>1
    <3>2. CASE Cardinality(S \ {x}) \notin Bad
      BY <1>4, <1>7, <1>9, <3>2
    <3>3. QED
      BY <3>1, <3>2
  <2>2. PICK lo \in S \ {x} : \A m \in S \ {x} : lo <= m
    BY <2>1
  <2>3. PICK hi \in S \ {x} : \A m \in S \ {x} : hi >= m
    BY <2>1
  <2>4. \E l \in S : \A m \in S : l <= m
    <3>1. CASE x <= lo
      <4>1. \A m \in S : x <= m
        BY <1>5, <1>6, <2>2, <3>1
      <4>2. QED
        BY <1>5, <4>1
    <3>2. CASE ~(x <= lo)
      <4>1. \A m \in S : lo <= m
        BY <1>5, <1>6, <2>2, <3>2
      <4>2. QED
        BY <2>2, <4>1
    <3>3. QED
      BY <3>1, <3>2
  <2>5. \E l \in S : \A m \in S : l >= m
    <3>1. CASE x >= hi
      <4>1. \A m \in S : x >= m
        BY <1>5, <1>6, <2>3, <3>1
      <4>2. QED
        BY <1>5, <4>1
    <3>2. CASE ~(x >= hi)
      <4>1. \A m \in S : hi >= m
        BY <1>5, <1>6, <2>3, <3>2
      <4>2. QED
        BY <2>3, <4>1
    <3>3. QED
      BY <3>1, <3>2
  <2>6. QED
    BY <1>4, <2>4, <2>5
<1>10. QED
  BY <1>8, <1>9

LEMMA MinLaneFacts ==
    ASSUME NEW S \in SUBSET Lanes, S # {}
    PROVE  MinLane(S) \in S /\ \A m \in S : MinLane(S) <= m
<1>1. S \subseteq Int /\ IsFiniteSet(S)
  BY LanesFinite, FS_Subset
<1>2. \E l \in S : \A m \in S : l <= m
  BY <1>1, Extremes
<1>3. QED
  BY <1>2 DEF MinLane

LEMMA LaneForType ==
    ASSUME NEW p \in Int
    PROVE  LaneFor(p) \in Lanes /\ SubmittedPriority(p) \in Int
<1>1. CASE QueueMode = "dual"
  BY <1>1 DEF LaneFor, Lanes, SubmittedPriority
<1>2. CASE QueueMode # "dual"
  <2>1. Registered # {} /\ Registered \subseteq Int /\ IsFiniteSet(Registered)
    BY ConstantsAssumption
  <2>2. \E l \in Registered : \A m \in Registered : l >= m
    BY <2>1, Extremes
  <2>3. MaxLane(Registered) \in Registered
    BY <2>2 DEF MaxLane
  <2>4. QED
    BY <1>2, <2>1, <2>3 DEF LaneFor, Lanes, SubmittedPriority
<1>3. QED
  BY <1>1, <1>2

(***************************************************************************)
(* What a step does to the lanes and to a job that ends.                   *)
(***************************************************************************)
FieldsInv ==
    /\ post \in [Jobs -> {"new", "receive", "submit", "admit", "wake", "returned"}]
    /\ result \in [Jobs -> {"none", "ok"} \cup Errors]
    /\ prio \in [Jobs -> Int]
    /\ mctx \in [Jobs -> Contexts \cup {NoCtx}]
    /\ chain \in Seq(Middlewares)
    /\ suspended \in BOOLEAN /\ notified \in BOOLEAN
    /\ state \in {"running", "closed"}
    /\ cpc \in {"loop", "next", "exec", "idle", "park", "drain", "drainExec", "done"}
    /\ scan \subseteq Lanes
    /\ current \in Jobs \cup {NoJob}
    /\ stop \in {"none", "wake", "wait", "stopped"}
    /\ fate \in [Jobs -> {"none", "executed", "discarded"}]
    /\ releases \in [Jobs -> Nat]
    /\ received \in [Jobs -> Seq(Middlewares)] /\ completed \in [Jobs -> Seq(Middlewares)]

LEMMA TypeSplit == TypeOK <=> FieldsInv /\ RingsInv
  BY DEF TypeOK, FieldsInv, RingsInv, RingOK

Pushed(l, j) == Ring!CanPush(queues[l]) /\ queues' = [queues EXCEPT ![l] = Ring!Push(@, j)]

Popped(l) == ~Ring!Empty(queues[l]) /\ queues' = [queues EXCEPT ![l] = Ring!Pop(@)]

LEMMA SameLanes ==
    ASSUME UNCHANGED queues
    PROVE  /\ RingsInv => RingsInv'
           /\ \A l \in Lanes : Waiting(l)' = Waiting(l)
  BY DEF RingsInv, RingOK, Waiting, Ring!Contents

LEMMA WaitingShape ==
    ASSUME RingsInv, NEW l \in Lanes
    PROVE  /\ Waiting(l) \in Seq(Jobs) /\ Len(Waiting(l)) \in 0..LaneCapacity
           /\ Ring!Empty(queues[l]) <=> Waiting(l) = <<>>
           /\ Ring!CanPush(queues[l]) <=> Len(Waiting(l)) < LaneCapacity
<1>1. RingOK(queues[l]) /\ queues[l] \in Rings
  BY DEF RingsInv
<1>2. Waiting(l) \in Seq(Jobs) /\ Len(Waiting(l)) = queues[l].count
  BY <1>1, ContentsShape DEF Waiting
<1>3. queues[l].count \in 0..LaneCapacity /\ queues[l].cap = LaneCapacity
  BY <1>1 DEF Rings
<1>4. QED
  BY <1>2, <1>3, Sizes DEF Ring!Empty, Ring!CanPush

LEMMA PushedLanes ==
    ASSUME RingsInv, NEW l \in Lanes, NEW j \in Jobs, Pushed(l, j)
    PROVE  /\ RingsInv'
           /\ Waiting(l)' = Append(Waiting(l), j)
           /\ \A m \in Lanes \ {l} : Waiting(m)' = Waiting(m) /\ queues'[m] = queues[m]
<1>1. /\ queues' = [queues EXCEPT ![l] = Ring!Push(queues[l], j)] /\ RingOK(queues[l])
      /\ Ring!CanPush(queues[l]) /\ queues \in [Lanes -> Rings]
  BY DEF Pushed, RingsInv
<1>2. /\ RingOK(Ring!Push(queues[l], j))
      /\ Ring!Contents(Ring!Push(queues[l], j)) = Append(Ring!Contents(queues[l]), j)
  BY <1>1, PushRing
<1>3. queues'[l] = Ring!Push(queues[l], j) /\ \A m \in Lanes \ {l} : queues'[m] = queues[m]
  BY <1>1
<1>4. RingOK(queues'[l]) /\ \A m \in Lanes : RingOK(queues'[m])
  BY <1>2, <1>3 DEF RingsInv
<1>5. Ring!Push(queues[l], j) \in Rings
  BY <1>2 DEF RingOK
<1>6. queues' \in [Lanes -> Rings]
  BY <1>1, <1>5
<1>7. RingsInv'
  BY <1>4, <1>6 DEF RingsInv, RingOK
<1>8. Waiting(l)' = Ring!Contents(queues'[l])
  BY DEF Waiting, Ring!Contents
<1>9. \A m \in Lanes \ {l} : Waiting(m)' = Waiting(m)
  BY <1>3 DEF Waiting, Ring!Contents
<1>10. QED
  BY <1>2, <1>3, <1>7, <1>8, <1>9 DEF Waiting

LEMMA PoppedLanes ==
    ASSUME RingsInv, NEW l \in Lanes, Popped(l)
    PROVE  /\ RingsInv'
           /\ Waiting(l) # <<>> /\ Ring!Front(queues[l]) = Waiting(l)[1]
           /\ Ring!Front(queues[l]) \in Jobs
           /\ Waiting(l)' = Tail(Waiting(l))
           /\ \A m \in Lanes \ {l} : Waiting(m)' = Waiting(m) /\ queues'[m] = queues[m]
<1>1. /\ queues' = [queues EXCEPT ![l] = Ring!Pop(queues[l])] /\ RingOK(queues[l])
      /\ ~Ring!Empty(queues[l]) /\ queues \in [Lanes -> Rings]
  BY DEF Popped, RingsInv
<1>2. /\ RingOK(Ring!Pop(queues[l]))
      /\ Ring!Contents(queues[l]) # <<>>
      /\ Ring!Front(queues[l]) = Ring!Contents(queues[l])[1] /\ Ring!Front(queues[l]) \in Jobs
      /\ Ring!Contents(Ring!Pop(queues[l])) = Tail(Ring!Contents(queues[l]))
  BY <1>1, PopRing
<1>3. queues'[l] = Ring!Pop(queues[l]) /\ \A m \in Lanes \ {l} : queues'[m] = queues[m]
  BY <1>1
<1>4. RingOK(queues'[l]) /\ \A m \in Lanes : RingOK(queues'[m])
  BY <1>2, <1>3 DEF RingsInv
<1>5. Ring!Pop(queues[l]) \in Rings
  BY <1>2 DEF RingOK
<1>6. queues' \in [Lanes -> Rings]
  BY <1>1, <1>5
<1>7. RingsInv'
  BY <1>4, <1>6 DEF RingsInv, RingOK
<1>8. Waiting(l)' = Ring!Contents(queues'[l])
  BY DEF Waiting, Ring!Contents
<1>9. \A m \in Lanes \ {l} : Waiting(m)' = Waiting(m)
  BY <1>3 DEF Waiting, Ring!Contents
<1>10. QED
  BY <1>2, <1>3, <1>7, <1>8, <1>9 DEF Waiting

LEMMA ReverseType ==
    ASSUME NEW s \in Seq(Middlewares)
    PROVE  Reverse(s) \in Seq(Middlewares) /\ <<>> \o Reverse(s) = Reverse(s)
<1>1. Reverse(s) \in Seq(Middlewares)
  <2>1. \A i \in 1..Len(s) : (Len(s) - i) + 1 \in 1..Len(s) /\ s[(Len(s) - i) + 1] \in Middlewares
    OBVIOUS
  <2>2. Reverse(s) \in [1..Len(s) -> Middlewares]
    BY <2>1 DEF Reverse
  <2>3. QED
    BY <2>2
<1>2. QED
  BY <1>1

\* A job that was not over is over, once, and its middlewares have seen it end.
LEMMA FinishFacts ==
    ASSUME FieldsInv, NEW j \in Jobs, NEW c, NEW how \in {"executed", "discarded"},
           Finish(j, c, how), releases[j] = 0, completed[j] = <<>>,
           ExecutedPrefix(c) \in Seq(Middlewares)
    PROVE  /\ fate' \in [Jobs -> {"none", "executed", "discarded"}]
           /\ releases' \in [Jobs -> Nat] /\ completed' \in [Jobs -> Seq(Middlewares)]
           /\ fate'[j] = how /\ releases'[j] = 1 /\ completed'[j] = Reverse(ExecutedPrefix(c))
           /\ \A x \in Jobs \ {j} : /\ fate'[x] = fate[x] /\ releases'[x] = releases[x]
                                    /\ completed'[x] = completed[x]
<1> DEFINE R == Reverse(ExecutedPrefix(c))
<1>1. R \in Seq(Middlewares) /\ <<>> \o R = R
  BY ReverseType
<1> HIDE DEF R
<1>2. completed' = [completed EXCEPT ![j] = completed[j] \o R]
  BY DEF Finish, R
<1>3. completed' = [completed EXCEPT ![j] = R]
  BY <1>1, <1>2
<1>4. completed' \in [Jobs -> Seq(Middlewares)] /\ completed'[j] = R
      /\ \A x \in Jobs \ {j} : completed'[x] = completed[x]
  BY <1>1, <1>3 DEF FieldsInv
<1>5. /\ fate' \in [Jobs -> {"none", "executed", "discarded"}]
      /\ fate'[j] = how /\ \A x \in Jobs \ {j} : fate'[x] = fate[x]
  BY DEF FieldsInv, Finish
<1>6. /\ releases' \in [Jobs -> Nat] /\ releases'[j] = 1
      /\ \A x \in Jobs \ {j} : releases'[x] = releases[x]
  BY DEF FieldsInv, Finish
<1>7. QED
  BY <1>4, <1>5, <1>6 DEF R

(***************************************************************************)
(* The initial state.                                                      *)
(***************************************************************************)
LEMMA MailInit == Init => MailInv
<1> SUFFICES ASSUME Init PROVE MailInv
  OBVIOUS
<1>1. FieldsInv
  <2>1. <<>> \in Seq(Middlewares)
    OBVIOUS
  <2>2. /\ received \in [Jobs -> Seq(Middlewares)] /\ completed \in [Jobs -> Seq(Middlewares)]
        /\ releases \in [Jobs -> Nat] /\ mctx \in [Jobs -> Contexts \cup {NoCtx}]
    BY <2>1 DEF Init
  <2>3. prio \in [Jobs -> Int] /\ chain \in Seq(Middlewares)
    BY ConstantsAssumption DEF Init
  <2>4. /\ post \in [Jobs -> {"new", "receive", "submit", "admit", "wake", "returned"}]
        /\ result \in [Jobs -> {"none", "ok"} \cup Errors]
        /\ fate \in [Jobs -> {"none", "executed", "discarded"}]
    BY DEF Init
  <2>5. QED
    BY <2>2, <2>3, <2>4 DEF Init, FieldsInv
<1>2. RingOK(Ring!New(LaneCapacity)) /\ Ring!Contents(Ring!New(LaneCapacity)) = <<>>
  BY NewRing
<1>3. \A l \in Lanes : queues[l] = Ring!New(LaneCapacity) /\ Waiting(l) = <<>>
  BY <1>2 DEF Init, Waiting
<1>4. RingsInv
  <2>1. Ring!New(LaneCapacity) \in Rings
    BY <1>2 DEF RingOK
  <2>2. queues \in [Lanes -> Rings]
    BY <2>1 DEF Init
  <2>3. QED
    BY <1>2, <1>3, <2>2 DEF RingsInv
<1>5. OwnInv
  BY DEF Init, OwnInv, Owned, Errors
<1>6. PlaceInv
  BY <1>3 DEF Init, PlaceInv
<1>7. ChainInv
  BY DEF Init, ChainInv, Chained, ExecutedPrefix
<1>8. NoticeInv
  BY DEF Init, NoticeInv
<1>9. QED
  BY <1>1, <1>4, <1>5, <1>6, <1>7, <1>8, TypeSplit DEF MailInv

(***************************************************************************)
(* Steps that leave the worker and the queues alone.                       *)
(***************************************************************************)
LEMMA PlaceFrame ==
    ASSUME PlaceInv, FieldsInv, RingsInv, UNCHANGED <<cpc, current, queues>>,
           \A x \in Jobs : Published(x) => Published(x)'
    PROVE  PlaceInv'
<1>1. \A l \in Lanes : /\ Waiting(l)' = Waiting(l) /\ Waiting(l) \in Seq(Jobs)
                       /\ \A i \in 1..Len(Waiting(l)) : Waiting(l)[i] \in Jobs
  BY SameLanes, WaitingShape
<1>2. current # NoJob => current \in Jobs
  BY DEF FieldsInv
<1>3. \A l \in Lanes : \A i \in 1..Len(Waiting(l)') :
         /\ Published(Waiting(l)[i])' /\ Waiting(l)'[i] # current'
         /\ \A m \in Lanes : \A k \in 1..Len(Waiting(m)') :
              Waiting(l)'[i] = Waiting(m)'[k] => l = m /\ i = k
  BY <1>1 DEF PlaceInv, Published
<1>4. QED
  BY <1>1, <1>2, <1>3 DEF PlaceInv, Published

LEMMA NoticeFrame ==
    ASSUME NoticeInv, UNCHANGED <<state, stop, cpc, scan, queues>>, notified => notified',
           \A x \in Jobs : post[x] = "wake" => post'[x] = "wake" \/ notified'
    PROVE  NoticeInv'
<1>1. \A l \in Lanes : Ring!Empty(queues[l])' <=> Ring!Empty(queues[l])
  BY DEF Ring!Empty
<1>2. \A l \in Lanes : (Quiet(l) => Quiet(l)') /\ (HeldBack(l) => HeldBack(l)')
  BY <1>1 DEF Quiet, HeldBack
<1>3. QED
  BY <1>1, <1>2 DEF NoticeInv

\* PostJob refuses a job it has not published.
LEMMA RefuseStep ==
    ASSUME MailInv, NEW j \in Jobs, post[j] \in {"new", "receive", "submit", "admit"},
           NEW c, NEW err \in Errors, Refuse(j, c, err),
           received' \in [Jobs -> Seq(Middlewares)],
           \A x \in Jobs \ {j} : received'[x] = received[x],
           ExecutedPrefix(c) = received'[j],
           UNCHANGED <<prio, mctx, chain, suspended, state, queues, notified, worker, stop>>
    PROVE  MailInv'
<1>0. FieldsInv /\ RingsInv /\ OwnInv /\ PlaceInv /\ ChainInv /\ NoticeInv
  BY TypeSplit DEF MailInv
<1>1. fate[j] = "none" /\ releases[j] = 0 /\ completed[j] = <<>> /\ prio[j] = Priority[j]
  BY <1>0 DEF OwnInv, Owned, ChainInv, Chained
<1>2. Finish(j, c, "discarded") /\ ExecutedPrefix(c) \in Seq(Middlewares)
  BY DEF Refuse
<1>3. /\ fate' \in [Jobs -> {"none", "executed", "discarded"}]
      /\ releases' \in [Jobs -> Nat] /\ completed' \in [Jobs -> Seq(Middlewares)]
      /\ fate'[j] = "discarded" /\ releases'[j] = 1 /\ completed'[j] = Reverse(received'[j])
      /\ \A x \in Jobs \ {j} : /\ fate'[x] = fate[x] /\ releases'[x] = releases[x]
                               /\ completed'[x] = completed[x]
  BY <1>0, <1>1, <1>2, FinishFacts
<1>4. /\ post' \in [Jobs -> {"new", "receive", "submit", "admit", "wake", "returned"}]
      /\ post'[j] = "returned" /\ \A x \in Jobs \ {j} : post'[x] = post[x]
  BY <1>0 DEF FieldsInv, Refuse
<1>5. /\ result' \in [Jobs -> {"none", "ok"} \cup Errors]
      /\ result'[j] = err /\ \A x \in Jobs \ {j} : result'[x] = result[x]
  BY <1>0 DEF FieldsInv, Refuse
<1>6. FieldsInv'
  BY <1>0, <1>3, <1>4, <1>5 DEF FieldsInv, worker
<1>7. RingsInv'
  BY <1>0, SameLanes
<1>8. OwnInv'
  <2>1. prio' = prio
    OBVIOUS
  <2>2. QED
    <3>1. Owned(j)'
      BY <1>1, <1>3, <1>4, <2>1 DEF Owned
    <3>2. ASSUME NEW x \in Jobs \ {j} PROVE Owned(x)'
      BY <1>0, <1>3, <1>4, <1>5, <2>1, ZenonT(40) DEF OwnInv, Owned
    <3>3. QED
      BY <3>1, <3>2 DEF OwnInv
<1>9. PlaceInv'
  <2>1. \A x \in Jobs : Published(x) => Published(x)'
    BY <1>3, <1>4 DEF Published
  <2>2. QED
    BY <1>0, <2>1, PlaceFrame DEF worker
<1>10. ChainInv'
  <2>1. Chained(j)'
    BY <1>3, <1>4 DEF Chained
  <2>2. ASSUME NEW x \in Jobs \ {j} PROVE Chained(x)'
    BY <1>0, <1>3, <1>4 DEF ChainInv, Chained, ExecutedPrefix
  <2>3. QED
    BY <2>1, <2>2 DEF ChainInv
<1>11. NoticeInv'
  <2>1. \A x \in Jobs : post[x] = "wake" => post'[x] = "wake"
    BY <1>4
  <2>2. QED
    BY <1>0, <2>1, NoticeFrame DEF worker
<1>12. QED
  BY <1>6, <1>7, <1>8, <1>9, <1>10, <1>11, TypeSplit, PTL DEF MailInv

\* PostJob goes on with a job it has not published: it may have given it a context.
LEMMA AdvanceStep ==
    ASSUME MailInv, NEW j \in Jobs, post[j] \in {"new", "receive", "submit"},
           NEW next \in {"receive", "submit", "admit"}, next = "receive" => post[j] = "new",
           post' = [post EXCEPT ![j] = next],
           \/ UNCHANGED <<mctx, received>>
           \/ /\ next = "submit" /\ ExecutedPrefix(mctx'[j]) = received'[j]
              /\ mctx' \in [Jobs -> Contexts \cup {NoCtx}]
              /\ received' \in [Jobs -> Seq(Middlewares)]
              /\ \A x \in Jobs \ {j} : received'[x] = received[x] /\ mctx'[x] = mctx[x],
           UNCHANGED <<result, completed, fate, releases, prio, chain, suspended, state, queues,
                       notified, worker, stop>>
    PROVE  MailInv'
<1>0. FieldsInv /\ RingsInv /\ OwnInv /\ PlaceInv /\ ChainInv /\ NoticeInv
  BY TypeSplit DEF MailInv
<1>1. /\ post' \in [Jobs -> {"new", "receive", "submit", "admit", "wake", "returned"}]
      /\ post'[j] = next /\ \A x \in Jobs \ {j} : post'[x] = post[x]
  BY <1>0 DEF FieldsInv
<1>2. FieldsInv'
  BY <1>0, <1>1 DEF FieldsInv, worker
<1>3. RingsInv'
  BY <1>0, SameLanes
<1>4. OwnInv'
  BY <1>0, <1>1 DEF OwnInv, Owned
<1>5. PlaceInv'
  <2>1. \A x \in Jobs : Published(x) => Published(x)'
    BY <1>1 DEF Published
  <2>2. QED
    BY <1>0, <2>1, PlaceFrame DEF worker
<1>6. ChainInv'
  <2>1. fate[j] = "none" /\ completed[j] = <<>> /\ Chained(j)
    BY <1>0 DEF OwnInv, Owned, ChainInv, Chained
  <2>2. Chained(j)'
    <3>1. CASE UNCHANGED <<mctx, received>>
      BY <1>1, <2>1, <3>1 DEF Chained, ExecutedPrefix
    <3>2. CASE next = "submit" /\ ExecutedPrefix(mctx'[j]) = received'[j]
      BY <1>1, <2>1, <3>2 DEF Chained, ExecutedPrefix
    <3>3. QED
      BY <3>1, <3>2
  <2>3. ASSUME NEW x \in Jobs \ {j} PROVE Chained(x)'
    <3>1. received'[x] = received[x] /\ mctx'[x] = mctx[x] /\ post'[x] = post[x]
      BY <1>1
    <3>2. Chained(x)
      BY <1>0 DEF ChainInv
    <3>3. QED
      BY <3>1, <3>2 DEF Chained, ExecutedPrefix
  <2>4. QED
    BY <2>2, <2>3 DEF ChainInv
<1>7. NoticeInv'
  <2>1. \A x \in Jobs : post[x] = "wake" => post'[x] = "wake"
    BY <1>1
  <2>2. QED
    BY <1>0, <2>1, NoticeFrame DEF worker
<1>8. QED
  BY <1>2, <1>3, <1>4, <1>5, <1>6, <1>7, TypeSplit, PTL DEF MailInv

(***************************************************************************)
(* Mailbox.PostJob.                                                        *)
(***************************************************************************)
LEMMA PostJobStep ==
    ASSUME MailInv, NEW j \in Jobs, PostJob(j)
    PROVE  MailInv'
<1>0. FieldsInv /\ ChainInv
  BY TypeSplit DEF MailInv
<1>1. CASE suspended /\ ~ShouldAllow(j)
  <2>1. Refuse(j, NoCtx, "suspended") /\ post[j] = "new" /\ received' = received
    BY <1>1 DEF PostJob
  <2>2. ExecutedPrefix(NoCtx) = received'[j] /\ received' \in [Jobs -> Seq(Middlewares)]
    BY <1>0, <2>1 DEF ChainInv, Chained, ExecutedPrefix, FieldsInv
  <2>3. "suspended" \in Errors
    BY DEF Errors
  <2>4. UNCHANGED <<prio, mctx, chain, suspended, state, queues, notified, worker, stop>>
    BY DEF PostJob
  <2>5. QED
    BY <2>1, <2>2, <2>3, <2>4, RefuseStep
<1>2. CASE ~(suspended /\ ~ShouldAllow(j))
  <2>1. /\ post[j] = "new" /\ post' = [post EXCEPT ![j] = "receive"]
        /\ UNCHANGED <<mctx, received>>
        /\ UNCHANGED <<result, completed, fate, releases, prio, chain, suspended, state, queues,
                       notified, worker, stop>>
    BY <1>2 DEF PostJob
  <2>2. QED
    BY <2>1, AdvanceStep
<1>3. QED
  BY <1>1, <1>2

LEMMA ExecuteOnReceiveStep ==
    ASSUME MailInv, NEW j \in Jobs, ExecuteOnReceive(j)
    PROVE  MailInv'
<1>0. FieldsInv /\ ChainInv /\ post[j] = "receive"
  BY TypeSplit DEF MailInv, ExecuteOnReceive
<1>1. CASE chain = <<>>
  <2>1. /\ post' = [post EXCEPT ![j] = "submit"]
        /\ UNCHANGED <<mctx, received>>
        /\ UNCHANGED <<result, completed, fate, releases, prio, chain, suspended, state, queues,
                       notified, worker, stop>>
    BY <1>1 DEF ExecuteOnReceive, history
  <2>2. QED
    BY <1>0, <2>1, AdvanceStep
<1>2. CASE chain # <<>>
  <2>1. PICK n \in 1..Len(chain), reject \in BOOLEAN :
            /\ received' = [received EXCEPT ![j] = SubSeq(chain, 1, n)]
            /\ IF reject
                 THEN Refuse(j, [snapshot |-> chain, executed |-> n], "rejected") /\ UNCHANGED mctx
                 ELSE /\ mctx' = [mctx EXCEPT ![j] = [snapshot |-> chain, executed |-> n]]
                      /\ post' = [post EXCEPT ![j] = "submit"]
                      /\ UNCHANGED <<result, completed, fate, releases>>
    BY <1>2 DEF ExecuteOnReceive
  <2> DEFINE c == [snapshot |-> chain, executed |-> n]
  <2> DEFINE s == SubSeq(chain, 1, n)
  <2>2. s \in Seq(Middlewares)
    BY <1>0 DEF FieldsInv
  <2>3. c \in Contexts /\ c # NoCtx
    BY <1>0, ConstantsAssumption, SMTT(30) DEF FieldsInv, Contexts
  <2>4. ExecutedPrefix(c) = s
    BY <2>3 DEF ExecutedPrefix
  <2> HIDE DEF c, s
  <2>5. received' = [received EXCEPT ![j] = s]
    BY <2>1 DEF s
  <2>6. /\ received' \in [Jobs -> Seq(Middlewares)] /\ received'[j] = s
        /\ \A x \in Jobs \ {j} : received'[x] = received[x]
    BY <1>0, <2>2, <2>5 DEF FieldsInv
  <2>7. UNCHANGED <<prio, chain, suspended, state, queues, notified, worker, stop>>
    BY DEF ExecuteOnReceive
  <2>8. CASE reject
    <3>1. Refuse(j, c, "rejected") /\ UNCHANGED mctx
      BY <2>1, <2>8 DEF c
    <3>2. "rejected" \in Errors
      BY DEF Errors
    <3>3. QED
      BY <1>0, <2>4, <2>6, <2>7, <3>1, <3>2, RefuseStep
  <2>9. CASE ~reject
    <3>1. /\ mctx' = [mctx EXCEPT ![j] = c] /\ post' = [post EXCEPT ![j] = "submit"]
          /\ UNCHANGED <<result, completed, fate, releases>>
      BY <2>1, <2>9 DEF c
    <3>2. /\ mctx' \in [Jobs -> Contexts \cup {NoCtx}] /\ mctx'[j] = c
          /\ \A x \in Jobs \ {j} : mctx'[x] = mctx[x]
      BY <1>0, <2>3, <3>1 DEF FieldsInv
    <3>3. ExecutedPrefix(mctx'[j]) = received'[j]
      BY <2>4, <2>6, <3>2
    <3>4. QED
      BY <1>0, <2>6, <2>7, <3>1, <3>2, <3>3, AdvanceStep
  <2>10. QED
    BY <2>8, <2>9
<1>3. QED
  BY <1>1, <1>2

LEMMA SubmitJobStep ==
    ASSUME MailInv, NEW j \in Jobs, SubmitJob(j)
    PROVE  MailInv'
<1>0. FieldsInv /\ ChainInv /\ OwnInv /\ post[j] = "submit" /\ fate[j] = "none"
  BY TypeSplit DEF MailInv, SubmitJob, OwnInv, Owned
<1>1. CASE stop = "stopped" \/ state # "running"
  <2>1. /\ Refuse(j, mctx[j], "closed") /\ received' = received
        /\ UNCHANGED <<prio, mctx, chain, suspended, state, queues, notified, worker, stop>>
    BY <1>1 DEF SubmitJob
  <2>2. ExecutedPrefix(mctx[j]) = received'[j] /\ received' \in [Jobs -> Seq(Middlewares)]
    BY <1>0, <2>1 DEF ChainInv, Chained, FieldsInv
  <2>3. "closed" \in Errors
    BY DEF Errors
  <2>4. QED
    BY <1>0, <2>1, <2>2, <2>3, RefuseStep
<1>2. CASE ~(stop = "stopped" \/ state # "running")
  <2>1. /\ post' = [post EXCEPT ![j] = "admit"]
        /\ UNCHANGED <<mctx, received>>
        /\ UNCHANGED <<result, completed, fate, releases, prio, chain, suspended, state, queues,
                       notified, worker, stop>>
    BY <1>2 DEF SubmitJob
  <2>2. QED
    BY <1>0, <2>1, AdvanceStep
<1>3. QED
  BY <1>1, <1>2

LEMMA AdmitStep ==
    ASSUME MailInv, NEW j \in Jobs, Admit(j)
    PROVE  MailInv'
<1>0. /\ FieldsInv /\ RingsInv /\ OwnInv /\ PlaceInv /\ ChainInv /\ NoticeInv
      /\ post[j] = "admit" /\ fate[j] = "none" /\ result[j] = "none"
  BY TypeSplit DEF MailInv, Admit, OwnInv, Owned
<1>1. /\ UNCHANGED <<mctx, chain, suspended, state, notified, worker, stop, received>>
      /\ LaneFor(prio[j]) \in Lanes /\ SubmittedPriority(prio[j]) \in Int
  BY <1>0, LaneForType DEF Admit, FieldsInv
<1> PICK l \in Lanes : l = LaneFor(prio[j])
  BY <1>1
<1>2. ASSUME NEW err \in {"closed", "full"}, Refuse(j, mctx[j], err), UNCHANGED <<prio, queues>>
      PROVE  MailInv'
  <2>1. ExecutedPrefix(mctx[j]) = received'[j] /\ received' \in [Jobs -> Seq(Middlewares)]
    BY <1>0, <1>1 DEF ChainInv, Chained, FieldsInv
  <2>2. err \in Errors /\ \A x \in Jobs \ {j} : received'[x] = received[x]
    BY <1>1 DEF Errors
  <2>3. QED
    BY <1>0, <1>1, <1>2, <2>1, <2>2, RefuseStep
<1>3. ASSUME state = "running", Pushed(l, j), prio' = [prio EXCEPT ![j] = SubmittedPriority(@)],
             post' = [post EXCEPT ![j] = "wake"], UNCHANGED <<result, completed, fate, releases>>
      PROVE  MailInv'
  <2>1. /\ post' \in [Jobs -> {"new", "receive", "submit", "admit", "wake", "returned"}]
        /\ post'[j] = "wake" /\ \A x \in Jobs \ {j} : post'[x] = post[x]
    BY <1>0, <1>3 DEF FieldsInv
  <2>2. prio' \in [Jobs -> Int] /\ \A x \in Jobs \ {j} : prio'[x] = prio[x]
    BY <1>0, <1>1, <1>3 DEF FieldsInv
  <2>3. FieldsInv'
    BY <1>0, <1>1, <1>3, <2>1, <2>2 DEF FieldsInv, worker
  <2>4. /\ RingsInv' /\ Waiting(l)' = Append(Waiting(l), j)
        /\ \A m \in Lanes \ {l} : Waiting(m)' = Waiting(m)
    BY <1>0, <1>1, <1>3, PushedLanes
  <2>5. OwnInv'
    <3>1. Owned(j)'
      BY <1>0, <1>3, <2>1 DEF OwnInv, Owned, Errors
    <3>2. ASSUME NEW x \in Jobs \ {j} PROVE Owned(x)'
      BY <1>0, <1>3, <2>1, <2>2 DEF OwnInv, Owned
    <3>3. QED
      BY <3>1, <3>2 DEF OwnInv
  <2>6. PlaceInv'
    <3>1. \A m \in Lanes : Waiting(m) \in Seq(Jobs) /\ \A i \in 1..Len(Waiting(m)) : Waiting(m)[i] # j
      BY <1>0, WaitingShape DEF PlaceInv, Published
    <3>2. current # j
      BY <1>0, Sizes DEF PlaceInv, Published
    <3>3. ASSUME NEW m \in Lanes, NEW i \in 1..Len(Waiting(m)')
          PROVE  \/ i \in 1..Len(Waiting(m)) /\ Waiting(m)'[i] = Waiting(m)[i] /\ Waiting(m)'[i] # j
                 \/ m = l /\ i = Len(Waiting(l)) + 1 /\ Waiting(m)'[i] = j
      <4>1. CASE m = l
        <5>1. Waiting(m)' = Append(Waiting(m), j) /\ Waiting(m) \in Seq(Jobs)
          BY <2>4, <3>1, <4>1
        <5>2. i \in 1..Len(Waiting(m)) \/ i = Len(Waiting(m)) + 1
          BY <5>1
        <5>3. QED
          BY <3>1, <4>1, <5>1, <5>2
      <4>2. CASE m # l
        BY <2>4, <3>1, <4>2
      <4>3. QED
        BY <4>1, <4>2
    <3>4. ASSUME NEW m \in Lanes, NEW i \in 1..Len(Waiting(m)')
          PROVE  /\ Published(Waiting(m)[i])' /\ Waiting(m)'[i] # current'
                 /\ \A n \in Lanes : \A k \in 1..Len(Waiting(n)') :
                      Waiting(m)'[i] = Waiting(n)'[k] => m = n /\ i = k
      <4>1. Published(Waiting(m)[i])'
        <5>1. CASE Waiting(m)'[i] = j
          BY <1>0, <1>3, <2>1, <5>1 DEF Published
        <5>2. CASE Waiting(m)'[i] # j
          BY <1>0, <1>3, <2>1, <3>1, <3>3, <5>2 DEF Published, PlaceInv
        <5>3. QED
          BY <5>1, <5>2
      <4>2. Waiting(m)'[i] # current'
        BY <1>0, <1>1, <3>2, <3>3 DEF PlaceInv, worker
      <4>3. ASSUME NEW n \in Lanes, NEW k \in 1..Len(Waiting(n)'), Waiting(m)'[i] = Waiting(n)'[k]
            PROVE  m = n /\ i = k
        <5>1. CASE Waiting(m)'[i] = j
          BY <3>3, <4>3, <5>1
        <5>2. CASE Waiting(m)'[i] # j
          <6>1. /\ i \in 1..Len(Waiting(m)) /\ k \in 1..Len(Waiting(n))
                /\ Waiting(m)[i] = Waiting(n)[k]
            BY <3>3, <4>3, <5>2
          <6>2. QED
            BY <1>0, <6>1 DEF PlaceInv
        <5>3. QED
          BY <5>1, <5>2
      <4>4. QED
        BY <4>1, <4>2, <4>3
    <3>5. current' # NoJob => Published(current)'
      BY <1>0, <1>1, <1>3, <2>1, <3>2 DEF PlaceInv, Published, worker, FieldsInv
    <3>6. QED
      BY <1>0, <1>1, <3>4, <3>5 DEF PlaceInv, worker
  <2>7. ChainInv'
    BY <1>0, <1>1, <1>3, <2>1 DEF ChainInv, Chained, ExecutedPrefix
  <2>8. NoticeInv'
    <3>1. \A m \in Lanes : Quiet(m)'
      BY <2>1 DEF Quiet
    <3>2. QED
      BY <1>0, <1>1, <1>3, <3>1 DEF NoticeInv, worker
  <2>9. QED
    BY <2>3, <2>4, <2>5, <2>6, <2>7, <2>8, TypeSplit, PTL DEF MailInv
<1>4. QED
  BY <1>2, <1>3 DEF Admit, Pushed

LEMMA WakeWorkerStep ==
    ASSUME MailInv, NEW j \in Jobs, WakeWorker(j)
    PROVE  MailInv'
<1>0. FieldsInv /\ RingsInv /\ OwnInv /\ PlaceInv /\ ChainInv /\ NoticeInv
  BY TypeSplit DEF MailInv
<1>1. /\ post[j] = "wake" /\ notified' = TRUE
      /\ post' = [post EXCEPT ![j] = "returned"] /\ result' = [result EXCEPT ![j] = "ok"]
      /\ UNCHANGED <<prio, mctx, chain, suspended, state, queues, cpc, scan, current, stop,
                     received, completed, fate, releases>>
  BY DEF WakeWorker, worker, history
<1>2. /\ post' \in [Jobs -> {"new", "receive", "submit", "admit", "wake", "returned"}]
      /\ post'[j] = "returned" /\ \A x \in Jobs \ {j} : post'[x] = post[x]
  BY <1>0, <1>1 DEF FieldsInv
<1>3. /\ result' \in [Jobs -> {"none", "ok"} \cup Errors]
      /\ result'[j] = "ok" /\ \A x \in Jobs \ {j} : result'[x] = result[x]
  BY <1>0, <1>1 DEF FieldsInv
<1>4. FieldsInv' /\ RingsInv'
  BY <1>0, <1>1, <1>2, <1>3, SameLanes DEF FieldsInv
<1>5. OwnInv'
  <2>1. Owned(j)'
    BY <1>0, <1>1, <1>2, <1>3 DEF OwnInv, Owned, Errors
  <2>2. ASSUME NEW x \in Jobs \ {j} PROVE Owned(x)'
    BY <1>0, <1>1, <1>2, <1>3 DEF OwnInv, Owned
  <2>3. QED
    BY <2>1, <2>2 DEF OwnInv
<1>6. PlaceInv'
  <2>1. \A x \in Jobs : Published(x) => Published(x)'
    BY <1>1, <1>2 DEF Published
  <2>2. QED
    BY <1>0, <1>1, <2>1, PlaceFrame
<1>7. ChainInv'
  BY <1>0, <1>1, <1>2 DEF ChainInv, Chained, ExecutedPrefix
<1>8. NoticeInv'
  BY <1>0, <1>1, NoticeFrame
<1>9. QED
  BY <1>4, <1>5, <1>6, <1>7, <1>8, TypeSplit, PTL DEF MailInv

(***************************************************************************)
(* Suspend, Resume and the middleware list.                                *)
(***************************************************************************)
LEMMA ControlStep ==
    ASSUME MailInv, suspended' \in BOOLEAN, chain' \in Seq(Middlewares),
           UNCHANGED <<poster, state, queues, notified, worker, stop, history>>
    PROVE  MailInv'
<1>0. FieldsInv /\ RingsInv /\ OwnInv /\ PlaceInv /\ ChainInv /\ NoticeInv
  BY TypeSplit DEF MailInv
<1>1. UNCHANGED <<post, result, prio, mctx, state, queues, notified, cpc, scan, current, stop,
                  received, completed, fate, releases>>
  BY DEF poster, worker, history
<1>2. FieldsInv' /\ RingsInv'
  BY <1>0, <1>1, SameLanes DEF FieldsInv
<1>3. OwnInv'
  BY <1>0, <1>1 DEF OwnInv, Owned
<1>4. PlaceInv'
  BY <1>0, <1>1, PlaceFrame DEF Published
<1>5. ChainInv'
  BY <1>0, <1>1 DEF ChainInv, Chained, ExecutedPrefix
<1>6. NoticeInv'
  BY <1>0, <1>1, NoticeFrame
<1>7. QED
  BY <1>2, <1>3, <1>4, <1>5, <1>6, TypeSplit, PTL DEF MailInv

LEMMA ToggleStep == MailInv /\ ToggleSuspend => MailInv'
<1> SUFFICES ASSUME MailInv, ToggleSuspend PROVE MailInv'
  OBVIOUS
<1>1. suspended' \in BOOLEAN /\ chain' \in Seq(Middlewares)
  BY TypeSplit DEF MailInv, FieldsInv, ToggleSuspend
<1>2. QED
  BY <1>1, ControlStep DEF ToggleSuspend

LEMMA ChainStep ==
    ASSUME MailInv, NEW m \in Dynamic, AddMiddleware(m) \/ RemoveMiddleware(m)
    PROVE  MailInv'
<1>0. chain \in Seq(Middlewares) /\ suspended \in BOOLEAN /\ m \in Middlewares
  BY TypeSplit, ConstantsAssumption DEF MailInv, FieldsInv
<1>1. CASE AddMiddleware(m)
  <2>1. chain' \in Seq(Middlewares)
    BY <1>0, <1>1 DEF AddMiddleware
  <2>2. QED
    BY <1>0, <1>1, <2>1, ControlStep DEF AddMiddleware
<1>2. CASE RemoveMiddleware(m)
  <2>1. PICK i \in 1..Len(chain) : chain' = RemoveAt(chain, i)
    BY <1>2 DEF RemoveMiddleware
  <2>2. SubSeq(chain, 1, i - 1) \in Seq(Middlewares) /\ SubSeq(chain, i + 1, Len(chain)) \in Seq(Middlewares)
    BY <1>0
  <2>3. chain' \in Seq(Middlewares)
    BY <2>1, <2>2 DEF RemoveAt
  <2>4. QED
    BY <1>0, <1>2, <2>3, ControlStep DEF RemoveMiddleware
<1>3. QED
  BY <1>1, <1>2

(***************************************************************************)
(* Worker.run.                                                             *)
(***************************************************************************)
\* Steps of the worker goroutine, and of Stop, that touch no job.
LEMMA QuietStep ==
    ASSUME MailInv, UNCHANGED <<poster, chain, suspended, queues, current, history>>,
           cpc' \in {"exec", "drainExec"} <=> cpc \in {"exec", "drainExec"},
           FieldsInv', NoticeInv'
    PROVE  MailInv'
<1>0. FieldsInv /\ RingsInv /\ OwnInv /\ PlaceInv /\ ChainInv
  BY TypeSplit DEF MailInv
<1>1. UNCHANGED <<post, result, prio, mctx, queues, current, received, completed, fate, releases>>
  BY DEF poster, history
<1>2. RingsInv' /\ \A l \in Lanes : Waiting(l)' = Waiting(l)
  BY <1>0, <1>1, SameLanes
<1>3. OwnInv'
  BY <1>0, <1>1 DEF OwnInv, Owned
<1>4. PlaceInv'
  <2>1. \A l \in Lanes : \A i \in 1..Len(Waiting(l)') :
           /\ Published(Waiting(l)[i])' /\ Waiting(l)'[i] # current'
           /\ \A m \in Lanes : \A k \in 1..Len(Waiting(m)') :
                Waiting(l)'[i] = Waiting(m)'[k] => l = m /\ i = k
    BY <1>0, <1>1, <1>2 DEF PlaceInv, Published
  <2>2. QED
    BY <1>0, <1>1, <2>1 DEF PlaceInv, Published
<1>5. ChainInv'
  BY <1>0, <1>1 DEF ChainInv, Chained, ExecutedPrefix
<1>6. QED
  BY <1>2, <1>3, <1>4, <1>5, TypeSplit, PTL DEF MailInv

LEMMA EmptySame ==
    ASSUME UNCHANGED queues
    PROVE  \A l \in Lanes : (Ring!Empty(queues[l])' <=> Ring!Empty(queues[l]))
                            /\ (HeldBack(l)' <=> HeldBack(l))
<1>1. \A l \in Lanes : Ring!Empty(queues[l])' <=> Ring!Empty(queues[l])
  BY DEF Ring!Empty
<1>2. QED
  BY <1>1 DEF HeldBack

LEMMA LoopStep == MailInv /\ Loop => MailInv'
<1> SUFFICES ASSUME MailInv, Loop PROVE MailInv'
  OBVIOUS
<1>0. FieldsInv /\ NoticeInv /\ cpc = "loop"
  BY TypeSplit DEF MailInv, Loop
<1>1. /\ UNCHANGED <<poster, chain, suspended, state, stop, current, queues, notified, history>>
      /\ UNCHANGED <<post, result, prio, mctx, received, completed, fate, releases>>
  BY DEF Loop, Outside, poster, history
<1>2. \/ state = "closed" /\ cpc' = "drain" /\ UNCHANGED scan
      \/ cpc' = "next" /\ scan' = Lanes /\ state = "running"
  BY <1>0 DEF Loop, FieldsInv
<1>3. FieldsInv'
  BY <1>0, <1>1, <1>2 DEF FieldsInv
<1>4. NoticeInv'
  <2>1. CASE cpc' = "drain"
    BY <1>0, <1>1, <1>2, <2>1 DEF NoticeInv
  <2>2. CASE cpc' = "next"
    BY <1>0, <1>1, <1>2, <2>2 DEF NoticeInv
  <2>3. QED
    BY <1>2, <2>1, <2>2
<1>5. QED
  BY <1>0, <1>1, <1>2, <1>3, <1>4, QuietStep

LEMMA IdleStep == MailInv /\ (Idle \/ Unpark) => MailInv'
<1> SUFFICES ASSUME MailInv, Idle \/ Unpark PROVE MailInv'
  OBVIOUS
<1>0. FieldsInv /\ NoticeInv /\ cpc \in {"idle", "park"}
  BY TypeSplit DEF MailInv, Idle, Unpark
<1>1. /\ UNCHANGED <<poster, chain, suspended, state, stop, scan, current, queues, history>>
      /\ UNCHANGED <<post, result, prio, mctx, received, completed, fate, releases>>
      /\ cpc' = "loop" \/ (cpc' = "park" /\ UNCHANGED notified)
      /\ notified' \in BOOLEAN
  BY <1>0 DEF Idle, Unpark, Outside, poster, history, FieldsInv
<1>2. FieldsInv'
  BY <1>0, <1>1 DEF FieldsInv
<1>3. NoticeInv'
  <2>1. CASE cpc' = "loop"
    BY <1>0, <1>1, <2>1 DEF NoticeInv
  <2>2. CASE cpc' = "park" /\ UNCHANGED notified
    <3>1. \A l \in Lanes : (Quiet(l) => Quiet(l)') /\ (HeldBack(l) => HeldBack(l)')
      BY <1>1, <2>2, EmptySame DEF Quiet
    <3>2. QED
      BY <1>0, <1>1, <2>2, <3>1 DEF NoticeInv
  <2>3. QED
    BY <1>1, <2>1, <2>2
<1>4. QED
  BY <1>0, <1>1, <1>2, <1>3, QuietStep

LEMMA StopStep == MailInv /\ (BeginStop \/ StopWake \/ Wait) => MailInv'
<1> SUFFICES ASSUME MailInv, BeginStop \/ StopWake \/ Wait PROVE MailInv'
  OBVIOUS
<1>0. FieldsInv /\ NoticeInv
  BY TypeSplit DEF MailInv
<1>1. /\ UNCHANGED <<poster, chain, suspended, queues, worker, history>>
      /\ UNCHANGED <<post, result, prio, mctx, cpc, scan, current, received, completed, fate, releases>>
      /\ \/ stop = "none" /\ state' = "closed" /\ stop' = "wake" /\ UNCHANGED notified
         \/ stop = "wake" /\ notified' = TRUE /\ stop' = "wait" /\ UNCHANGED state
         \/ stop = "wait" /\ cpc = "done" /\ stop' = "stopped" /\ UNCHANGED <<notified, state>>
  BY DEF BeginStop, StopWake, Wait, poster, worker, history
<1>2. FieldsInv'
  BY <1>0, <1>1 DEF FieldsInv
<1>3. NoticeInv'
  <2>1. notified => notified'
    BY <1>1
  <2>2. \A l \in Lanes : /\ Ring!Empty(queues[l])' <=> Ring!Empty(queues[l])
                         /\ (Quiet(l) => Quiet(l)') /\ (HeldBack(l) => HeldBack(l)')
    BY <1>1, <2>1, EmptySame DEF Quiet
  <2>3. /\ state' = "closed" <=> stop' # "none"
        /\ cpc' \in {"drain", "drainExec", "done"} => state' = "closed"
        /\ stop' \in {"wait", "stopped"} /\ cpc' \in {"next", "exec", "idle", "park"} => notified'
    BY <1>0, <1>1 DEF NoticeInv
  <2>4. QED
    BY <1>0, <1>1, <2>2, <2>3 DEF NoticeInv
<1>4. QED
  BY <1>0, <1>1, <1>2, <1>3, QuietStep

\* What a pop leaves: the job taken is in no lane any more.
LEMMA PoppedPlaces ==
    ASSUME PlaceInv, RingsInv, NEW l \in Lanes, Popped(l), NEW f, f = Ring!Front(queues[l])
    PROVE  /\ f \in Jobs /\ f # current /\ Published(f)
           /\ \A m \in Lanes : \A i \in 1..Len(Waiting(m)') :
                /\ Waiting(m)'[i] \in Jobs /\ Waiting(m)'[i] # f /\ Waiting(m)'[i] # current
                /\ post[Waiting(m)'[i]] \in {"wake", "returned"} /\ fate[Waiting(m)'[i]] = "none"
                /\ \A n \in Lanes : \A k \in 1..Len(Waiting(n)') :
                     Waiting(m)'[i] = Waiting(n)'[k] => m = n /\ i = k
<1>1. /\ Waiting(l) # <<>> /\ f = Waiting(l)[1] /\ f \in Jobs /\ Waiting(l)' = Tail(Waiting(l))
      /\ \A m \in Lanes \ {l} : Waiting(m)' = Waiting(m)
  BY PoppedLanes
<1>2. \A m \in Lanes : Waiting(m) \in Seq(Jobs)
  BY WaitingShape
<1>3. 1 \in 1..Len(Waiting(l))
  BY <1>1, <1>2
<1>4. f # current /\ Published(f)
  BY <1>1, <1>3 DEF PlaceInv
<1> DEFINE old(m, i) == IF m = l THEN i + 1 ELSE i
<1>5. ASSUME NEW m \in Lanes, NEW i \in 1..Len(Waiting(m)')
      PROVE  /\ old(m, i) \in 1..Len(Waiting(m)) /\ Waiting(m)'[i] = Waiting(m)[old(m, i)]
             /\ m = l => old(m, i) # 1
             /\ old(m, i) = IF m = l THEN i + 1 ELSE i
             /\ i \in Int
  <2>1. CASE m = l
    <3>1. Waiting(m)' = Tail(Waiting(m)) /\ Waiting(m) \in Seq(Jobs) /\ Waiting(m) # <<>>
      BY <1>1, <1>2, <2>1
    <3>2. i \in 1..(Len(Waiting(m)) - 1) /\ Waiting(m)'[i] = Waiting(m)[i + 1]
      BY <3>1
    <3>3. i + 1 \in 1..Len(Waiting(m)) /\ i + 1 # 1
      BY <3>1, <3>2
    <3>4. QED
      BY <2>1, <3>2, <3>3
  <2>2. CASE m # l
    BY <1>1, <1>2, <2>2
  <2>3. QED
    BY <2>1, <2>2
<1> HIDE DEF old
<1>6. ASSUME NEW m \in Lanes, NEW i \in 1..Len(Waiting(m)')
      PROVE  /\ Waiting(m)'[i] \in Jobs /\ Waiting(m)'[i] # f /\ Waiting(m)'[i] # current
             /\ post[Waiting(m)'[i]] \in {"wake", "returned"} /\ fate[Waiting(m)'[i]] = "none"
  <2>1. /\ old(m, i) \in 1..Len(Waiting(m)) /\ Waiting(m)'[i] = Waiting(m)[old(m, i)]
        /\ m = l => old(m, i) # 1
    BY <1>5
  <2>2. Waiting(m)[old(m, i)] \in Jobs
    BY <1>2, <2>1
  <2>3. Published(Waiting(m)[old(m, i)]) /\ Waiting(m)[old(m, i)] # current
    BY <2>1 DEF PlaceInv
  <2>4. Waiting(m)[old(m, i)] # f
    BY <1>1, <1>3, <2>1 DEF PlaceInv
  <2>5. QED
    BY <2>1, <2>2, <2>3, <2>4 DEF Published
<1>7. ASSUME NEW m \in Lanes, NEW i \in 1..Len(Waiting(m)'),
             NEW n \in Lanes, NEW k \in 1..Len(Waiting(n)'), Waiting(m)'[i] = Waiting(n)'[k]
      PROVE  m = n /\ i = k
  <2>1. /\ old(m, i) \in 1..Len(Waiting(m)) /\ old(n, k) \in 1..Len(Waiting(n))
        /\ Waiting(m)[old(m, i)] = Waiting(n)[old(n, k)]
    BY <1>5, <1>7
  <2>2. m = n /\ old(m, i) = old(n, k)
    BY <2>1 DEF PlaceInv
  <2>3. /\ old(m, i) = IF m = l THEN i + 1 ELSE i
        /\ old(n, k) = IF n = l THEN k + 1 ELSE k
        /\ i \in Int /\ k \in Int
    BY <1>5
  <2>4. CASE m = l
    <3>1. i + 1 = k + 1
      BY <2>2, <2>3, <2>4
    <3>2. QED
      BY <2>2, <2>3, <3>1
  <2>5. CASE m # l
    BY <2>2, <2>3, <2>5
  <2>6. QED
    BY <2>4, <2>5
<1>8. QED
  BY <1>1, <1>4, <1>6, <1>7

LEMMA NextJobStep == MailInv /\ NextJob => MailInv'
<1> SUFFICES ASSUME MailInv, NextJob PROVE MailInv'
  OBVIOUS
<1>0. /\ FieldsInv /\ RingsInv /\ OwnInv /\ PlaceInv /\ ChainInv /\ NoticeInv
      /\ cpc = "next" /\ scan \subseteq Lanes
  BY TypeSplit DEF MailInv, NextJob, FieldsInv
<1>1. /\ UNCHANGED <<poster, chain, suspended, state, stop, notified, history>>
      /\ UNCHANGED <<post, result, prio, mctx, received, completed, fate, releases>>
  BY DEF NextJob, Outside, poster, history
<1>2. current = NoJob
  BY <1>0 DEF PlaceInv
<1>3. CASE scan = {} /\ cpc' = "idle" /\ UNCHANGED <<scan, current, queues>>
  <2>1. FieldsInv'
    BY <1>0, <1>1, <1>3 DEF FieldsInv
  <2>2. \A l \in Lanes : Quiet(l)'
    BY <1>0, <1>1, <1>3, EmptySame DEF Quiet, NoticeInv
  <2>3. NoticeInv'
    BY <1>0, <1>1, <1>3, <2>2 DEF NoticeInv
  <2>4. QED
    BY <1>0, <1>1, <1>3, <2>1, <2>3, QuietStep
<1>4. CASE scan # {}
  <2> PICK l \in Lanes : l = MinLane(scan) /\ l \in scan /\ \A m \in scan : l <= m
    BY <1>0, <1>4, MinLaneFacts
  <2>1. CASE Ring!Empty(queues[l]) /\ scan' = scan \ {l} /\ UNCHANGED <<cpc, current, queues>>
    <3>1. FieldsInv'
      BY <1>0, <1>1, <2>1 DEF FieldsInv
    <3>2. \A m \in Lanes \ scan' : Quiet(m)'
      BY <1>0, <1>1, <2>1, EmptySame DEF Quiet, NoticeInv
    <3>3. NoticeInv'
      BY <1>0, <1>1, <2>1, <3>2 DEF NoticeInv
    <3>4. QED
      BY <1>0, <1>1, <2>1, <3>1, <3>3, QuietStep
  <2>2. CASE /\ ~Ring!Empty(queues[l]) /\ ~Selects(l)
             /\ cpc' = "idle" /\ scan' = {} /\ UNCHANGED <<current, queues>>
    <3>1. FieldsInv'
      BY <1>0, <1>1, <2>2 DEF FieldsInv
    <3>2. \A m \in Lanes : Quiet(m)' \/ HeldBack(m)'
      <4>1. \A m \in Lanes \ scan : Quiet(m)'
        BY <1>0, <1>1, <2>2, EmptySame DEF Quiet, NoticeInv
      <4>2. \A m \in scan : HeldBack(m)
        BY <1>0, <2>2 DEF HeldBack
      <4>3. QED
        BY <1>0, <2>2, <4>1, <4>2, EmptySame
    <3>3. NoticeInv'
      BY <1>0, <1>1, <2>2, <3>2 DEF NoticeInv
    <3>4. QED
      BY <1>0, <1>1, <2>2, <3>1, <3>3, QuietStep
  <2>3. CASE /\ Popped(l) /\ current' = Ring!Front(queues[l]) /\ cpc' = "exec" /\ scan' = {}
    <3> PICK f : f = Ring!Front(queues[l])
      OBVIOUS
    <3>1. RingsInv'
      BY <1>0, <2>3, PoppedLanes
    <3>2. /\ f \in Jobs /\ Published(f) /\ f # NoJob
          /\ \A m \in Lanes : \A i \in 1..Len(Waiting(m)') :
               /\ Waiting(m)'[i] \in Jobs /\ Waiting(m)'[i] # f
               /\ post[Waiting(m)'[i]] \in {"wake", "returned"} /\ fate[Waiting(m)'[i]] = "none"
               /\ \A n \in Lanes : \A k \in 1..Len(Waiting(n)') :
                    Waiting(m)'[i] = Waiting(n)'[k] => m = n /\ i = k
      BY <1>0, <2>3, PoppedPlaces, Sizes
    <3>3. FieldsInv'
      BY <1>0, <1>1, <2>3, <3>2 DEF FieldsInv
    <3>4. OwnInv' /\ ChainInv'
      BY <1>0, <1>1 DEF OwnInv, Owned, ChainInv, Chained, ExecutedPrefix
    <3>5. PlaceInv'
      BY <1>1, <2>3, <3>2 DEF PlaceInv, Published
    <3>6. NoticeInv'
      BY <1>0, <1>1, <2>3 DEF NoticeInv
    <3>7. QED
      BY <3>1, <3>3, <3>4, <3>5, <3>6, TypeSplit, PTL DEF MailInv
  <2>4. QED
    BY <1>4, <2>1, <2>2, <2>3 DEF NextJob, Popped
<1>5. QED
  BY <1>3, <1>4 DEF NextJob

\* The worker is done with a published job.
LEMMA EndOfJob ==
    ASSUME FieldsInv, OwnInv, ChainInv, NEW j \in Jobs, Published(j),
           NEW how \in {"executed", "discarded"}, Finish(j, mctx[j], how),
           UNCHANGED <<post, result, prio, mctx, received>>
    PROVE  /\ fate' \in [Jobs -> {"none", "executed", "discarded"}]
           /\ releases' \in [Jobs -> Nat] /\ completed' \in [Jobs -> Seq(Middlewares)]
           /\ OwnInv' /\ ChainInv'
           /\ \A x \in Jobs \ {j} : fate'[x] = fate[x]
<1>1. /\ fate[j] = "none" /\ releases[j] = 0 /\ completed[j] = <<>>
      /\ post[j] \in {"wake", "returned"} /\ result[j] \notin Errors
      /\ ExecutedPrefix(mctx[j]) = received[j] /\ received[j] \in Seq(Middlewares)
  BY DEF Published, OwnInv, Owned, ChainInv, Chained, FieldsInv
<1>2. /\ fate' \in [Jobs -> {"none", "executed", "discarded"}]
      /\ releases' \in [Jobs -> Nat] /\ completed' \in [Jobs -> Seq(Middlewares)]
      /\ fate'[j] = how /\ releases'[j] = 1 /\ completed'[j] = Reverse(received[j])
      /\ \A x \in Jobs \ {j} : /\ fate'[x] = fate[x] /\ releases'[x] = releases[x]
                               /\ completed'[x] = completed[x]
  <2> DEFINE c == mctx[j]
  <2>1. Finish(j, c, how) /\ ExecutedPrefix(c) = received[j]
    BY <1>1
  <2>2. PICK r : r = received[j]
    OBVIOUS
  <2>3. QED
    BY <1>1, <2>1, <2>2, FinishFacts
<1>3. OwnInv'
  <2>1. Owned(j)'
    BY <1>1, <1>2 DEF OwnInv, Owned
  <2>2. ASSUME NEW x \in Jobs \ {j} PROVE Owned(x)'
    BY <1>2, ZenonT(40) DEF OwnInv, Owned
  <2>3. QED
    BY <2>1, <2>2 DEF OwnInv
<1>4. ChainInv'
  <2>1. Chained(j)'
    BY <1>1, <1>2 DEF ChainInv, Chained, ExecutedPrefix
  <2>2. ASSUME NEW x \in Jobs \ {j} PROVE Chained(x)'
    BY <1>2 DEF ChainInv, Chained, ExecutedPrefix
  <2>3. QED
    BY <2>1, <2>2 DEF ChainInv
<1>5. QED
  BY <1>2, <1>3, <1>4

LEMMA SafeExecStep ==
    ASSUME MailInv, NEW home \in {"loop", "drain"}, SafeExec(home),
           \/ cpc = "exec" /\ home = "loop"
           \/ cpc = "drainExec" /\ home = "drain"
    PROVE  MailInv'
<1>0. FieldsInv /\ RingsInv /\ OwnInv /\ PlaceInv /\ ChainInv /\ NoticeInv
  BY TypeSplit DEF MailInv
<1>1. /\ UNCHANGED <<poster, chain, suspended, state, stop, scan, queues, notified, received>>
      /\ UNCHANGED <<post, result, prio, mctx>> /\ current' = NoJob /\ cpc' = home
  BY DEF SafeExec, Outside, poster
<1> PICK j \in Jobs : j = current
  BY <1>0 DEF PlaceInv, FieldsInv
<1>2. Published(j)
  BY <1>0, Sizes DEF PlaceInv
<1>3. PICK how \in {"executed", "discarded"} : Finish(j, mctx[j], how)
  BY DEF SafeExec
<1>4. /\ fate' \in [Jobs -> {"none", "executed", "discarded"}]
      /\ releases' \in [Jobs -> Nat] /\ completed' \in [Jobs -> Seq(Middlewares)]
      /\ OwnInv' /\ ChainInv'
      /\ \A x \in Jobs \ {j} : fate'[x] = fate[x]
  BY <1>0, <1>1, <1>2, <1>3, EndOfJob
<1>5. FieldsInv' /\ RingsInv'
  BY <1>0, <1>1, <1>4, SameLanes DEF FieldsInv
<1>6. PlaceInv'
  <2>1. \A l \in Lanes : /\ Waiting(l)' = Waiting(l) /\ Waiting(l) \in Seq(Jobs)
    BY <1>0, <1>1, SameLanes, WaitingShape
  <2>2. ASSUME NEW l \in Lanes, NEW i \in 1..Len(Waiting(l)')
        PROVE  /\ Published(Waiting(l)[i])' /\ Waiting(l)'[i] # current'
               /\ \A m \in Lanes : \A k \in 1..Len(Waiting(m)') :
                    Waiting(l)'[i] = Waiting(m)'[k] => l = m /\ i = k
    <3>1. /\ i \in 1..Len(Waiting(l)) /\ Waiting(l)'[i] = Waiting(l)[i]
          /\ Waiting(l)[i] \in Jobs \ {j}
      BY <1>0, <2>1 DEF PlaceInv
    <3>2. Published(Waiting(l)[i])'
      BY <1>0, <1>1, <1>4, <3>1 DEF PlaceInv, Published
    <3>3. Waiting(l)'[i] # current'
      BY <1>1, <3>1, Sizes
    <3>4. \A m \in Lanes : \A k \in 1..Len(Waiting(m)') :
             Waiting(l)'[i] = Waiting(m)'[k] => l = m /\ i = k
      BY <1>0, <2>1, <3>1 DEF PlaceInv
    <3>5. QED
      BY <3>2, <3>3, <3>4
  <2>3. QED
    BY <1>1, <2>2 DEF PlaceInv
<1>7. NoticeInv'
  BY <1>0, <1>1 DEF NoticeInv
<1>8. QED
  BY <1>4, <1>5, <1>6, <1>7, TypeSplit, PTL DEF MailInv

LEMMA DrainStep == MailInv /\ Drain => MailInv'
<1> SUFFICES ASSUME MailInv, Drain PROVE MailInv'
  OBVIOUS
<1> DEFINE full == {l \in Lanes : ~Ring!Empty(queues[l])}
<1>0. /\ FieldsInv /\ RingsInv /\ OwnInv /\ PlaceInv /\ ChainInv /\ NoticeInv
      /\ cpc = "drain" /\ state = "closed"
  BY TypeSplit DEF MailInv, Drain, NoticeInv
<1>1. /\ UNCHANGED <<poster, chain, suspended, state, stop, scan, notified, received>>
      /\ UNCHANGED <<post, result, prio, mctx>> /\ current = NoJob
  BY <1>0 DEF Drain, Outside, poster, PlaceInv
<1>2. CASE full = {} /\ cpc' = "done" /\ UNCHANGED <<current, queues, completed, fate, releases>>
  <2>1. FieldsInv'
    BY <1>0, <1>1, <1>2 DEF FieldsInv
  <2>2. \A l \in Lanes : Ring!Empty(queues[l])'
    BY <1>2, EmptySame
  <2>3. NoticeInv'
    BY <1>0, <1>1, <1>2, <2>2 DEF NoticeInv
  <2>4. QED
    BY <1>0, <1>1, <1>2, <2>1, <2>3, QuietStep DEF history
<1>3. CASE full # {}
  <2> PICK l \in Lanes : l = MinLane(full) /\ l \in full
    BY <1>3, MinLaneFacts
  <2>1. Popped(l)
    BY <1>3 DEF Drain, Popped
  <2> HIDE DEF full
  <2> PICK f : f = Ring!Front(queues[l])
    OBVIOUS
  <2>2. RingsInv'
    BY <1>0, <2>1, PoppedLanes
  <2>3. /\ f \in Jobs /\ Published(f) /\ f # NoJob
        /\ \A m \in Lanes : \A i \in 1..Len(Waiting(m)') :
             /\ Waiting(m)'[i] \in Jobs /\ Waiting(m)'[i] # f
             /\ post[Waiting(m)'[i]] \in {"wake", "returned"} /\ fate[Waiting(m)'[i]] = "none"
             /\ \A n \in Lanes : \A k \in 1..Len(Waiting(n)') :
                  Waiting(m)'[i] = Waiting(n)'[k] => m = n /\ i = k
    BY <1>0, <2>1, PoppedPlaces, Sizes
  <2>4. CASE current' = f /\ cpc' = "drainExec" /\ UNCHANGED <<completed, fate, releases>>
    <3>1. FieldsInv'
      BY <1>0, <1>1, <2>3, <2>4 DEF FieldsInv
    <3>2. OwnInv' /\ ChainInv'
      BY <1>0, <1>1, <2>4 DEF OwnInv, Owned, ChainInv, Chained, ExecutedPrefix
    <3>3. PlaceInv'
      BY <1>1, <2>3, <2>4 DEF PlaceInv, Published
    <3>4. NoticeInv'
      BY <1>0, <1>1, <2>4 DEF NoticeInv
    <3>5. QED
      BY <2>2, <3>1, <3>2, <3>3, <3>4, TypeSplit, PTL DEF MailInv
  <2>5. CASE Finish(f, mctx[f], "discarded") /\ UNCHANGED <<current, cpc>>
    <3>1. /\ fate' \in [Jobs -> {"none", "executed", "discarded"}]
          /\ releases' \in [Jobs -> Nat] /\ completed' \in [Jobs -> Seq(Middlewares)]
          /\ OwnInv' /\ ChainInv'
          /\ \A x \in Jobs \ {f} : fate'[x] = fate[x]
      BY <1>0, <1>1, <2>3, <2>5, EndOfJob
    <3>2. FieldsInv'
      BY <1>0, <1>1, <2>5, <3>1 DEF FieldsInv
    <3>3. PlaceInv'
      BY <1>0, <1>1, <2>3, <2>5, <3>1, Sizes DEF PlaceInv, Published
    <3>4. NoticeInv'
      BY <1>0, <1>1, <2>5 DEF NoticeInv
    <3>5. QED
      BY <2>2, <3>1, <3>2, <3>3, <3>4, TypeSplit, PTL DEF MailInv
  <2>6. QED
    BY <1>3, <2>4, <2>5 DEF Drain, full
<1>4. QED
  BY <1>2, <1>3 DEF Drain

(***************************************************************************)
(* The invariant, and what follows from it.                                *)
(***************************************************************************)
LEMMA MailNext == MailInv /\ [Next]_vars => MailInv'
<1> SUFFICES ASSUME MailInv, [Next]_vars PROVE MailInv'
  OBVIOUS
<1>1. ASSUME NEW j \in Jobs, Poster(j) PROVE MailInv'
  BY <1>1, PostJobStep, ExecuteOnReceiveStep, SubmitJobStep, AdmitStep, WakeWorkerStep DEF Poster
<1>2. CASE Worker
  <2>1. CASE ExecJob
    BY <2>1, SafeExecStep DEF ExecJob
  <2>2. CASE DrainExec
    BY <2>2, SafeExecStep DEF DrainExec
  <2>3. QED
    BY <1>2, <2>1, <2>2, LoopStep, NextJobStep, IdleStep, DrainStep DEF Worker
<1>3. CASE UNCHANGED vars
  <2>1. FieldsInv /\ suspended' \in BOOLEAN /\ chain' \in Seq(Middlewares)
    BY <1>3, TypeSplit DEF MailInv, FieldsInv, vars
  <2>2. UNCHANGED <<poster, state, queues, notified, worker, stop, history>>
    BY <1>3 DEF vars
  <2>3. QED
    BY <2>1, <2>2, ControlStep
<1>4. QED
  BY <1>1, <1>2, <1>3, ChainStep, ToggleStep, StopStep DEF Next, Stopper

LEMMA MailHolds == Spec => []MailInv
  BY MailInit, MailNext, PTL DEF Spec

\* PostJob gives a job away exactly when it returns nil: a job it refused is discarded and
\* released, with its own priority, and in no queue; no job is released twice, and the middlewares
\* that saw it come in have seen it end, in reverse order.
THEOREM PostSoundHolds == Spec => []PostSound
<1>1. MailInv => PostSound
  <2> SUFFICES ASSUME MailInv PROVE PostSound
    OBVIOUS
  <2>0. TypeOK /\ RingsInv /\ FieldsInv /\ OwnInv /\ PlaceInv /\ ChainInv
    BY TypeSplit DEF MailInv
  <2>1. PostJobOwnsJob
    <3> SUFFICES ASSUME NEW j \in Jobs
                 PROVE  /\ releases[j] = IF fate[j] = "none" THEN 0 ELSE 1
                        /\ result[j] \in Errors =>
                             /\ fate[j] = "discarded" /\ prio[j] = Priority[j]
                             /\ \A l \in Lanes : j \notin Range(Ring!Contents(queues[l]))
      BY DEF PostJobOwnsJob
    <3>1. Owned(j)
      BY <2>0 DEF OwnInv
    <3>2. ASSUME result[j] \in Errors, NEW l \in Lanes, j \in Range(Ring!Contents(queues[l]))
          PROVE  FALSE
      <4>1. Waiting(l) \in Seq(Jobs) /\ j \in Range(Waiting(l))
        BY <2>0, <3>2, WaitingShape DEF Waiting
      <4>2. PICK i \in DOMAIN Waiting(l) : Waiting(l)[i] = j
        BY <4>1 DEF Range
      <4>3. i \in 1..Len(Waiting(l))
        BY <4>1, <4>2
      <4>4. Published(j)
        BY <2>0, <4>2, <4>3 DEF PlaceInv
      <4>5. QED
        BY <3>1, <3>2, <4>4 DEF Owned, Published
    <3>3. QED
      BY <3>1, <3>2 DEF Owned
  <2>2. ChainSymmetric
    <3> SUFFICES ASSUME NEW j \in Jobs
                 PROVE  completed[j] = IF releases[j] = 0 THEN <<>> ELSE Reverse(received[j])
      BY DEF ChainSymmetric
    <3>1. Owned(j)
      BY <2>0 DEF OwnInv
    <3>2. QED
      BY <2>0, <3>1 DEF ChainInv, Chained, Owned
  <2>3. QED
    BY <2>0, <2>1, <2>2 DEF PostSound
<1>2. QED
  BY <1>1, MailHolds, PTL

\* No wake-up of the worker is lost, and a stop leaves no admitted job behind.
THEOREM WorkNoticedHolds == Spec => []WorkNoticed
<1>1. MailInv => WorkNoticed
  <2> SUFFICES ASSUME MailInv PROVE WorkNoticed
    OBVIOUS
  <2>1. TypeOK /\ FieldsInv /\ NoticeInv
    BY TypeSplit DEF MailInv
  <2>2. NoLostWakeup
    BY <2>1 DEF NoticeInv, NoLostWakeup, Quiet, FieldsInv
  <2>3. NothingLeftBehind
    BY <2>1 DEF NoticeInv, NothingLeftBehind
  <2>4. QED
    BY <2>1, <2>2, <2>3 DEF WorkNoticed
<1>2. QED
  BY <1>1, MailHolds, PTL

(***************************************************************************)
(* The queues implement JobQueue.                                          *)
(***************************************************************************)
\* What a step of the mailbox may do to the queues and to admission.
LEMMA QueueStep ==
    ASSUME MailInv, [Next]_vars
    PROVE  \/ UNCHANGED <<queues, state>>
           \/ UNCHANGED queues /\ state' = "closed"
           \/ UNCHANGED state /\ state = "running" /\ \E l \in Lanes, j \in Jobs : Pushed(l, j)
           \/ UNCHANGED state /\ \E l \in Lanes : Popped(l)
<1>0. FieldsInv
  BY TypeSplit DEF MailInv
<1>1. ASSUME NEW j \in Jobs, Admit(j)
      PROVE  \/ UNCHANGED <<queues, state>>
             \/ UNCHANGED state /\ state = "running" /\ \E l \in Lanes : Pushed(l, j)
  <2>1. LaneFor(prio[j]) \in Lanes
    BY <1>0, LaneForType DEF FieldsInv
  <2>2. QED
    BY <1>1, <2>1 DEF Admit, Pushed
<1>2. ASSUME NEW j \in Jobs, Poster(j), ~Admit(j) PROVE UNCHANGED <<queues, state>>
  BY <1>2 DEF Poster, PostJob, ExecuteOnReceive, SubmitJob, WakeWorker
<1>3. CASE NextJob
  <2>1. CASE UNCHANGED queues
    BY <1>3, <2>1 DEF NextJob, Outside
  <2>2. CASE ~UNCHANGED queues
    <3>1. scan # {} /\ scan \in SUBSET Lanes
      BY <1>0, <1>3, <2>2 DEF NextJob, FieldsInv
    <3>2. MinLane(scan) \in Lanes
      BY <3>1, MinLaneFacts
    <3>3. Popped(MinLane(scan)) /\ UNCHANGED state
      BY <1>3, <2>2 DEF NextJob, Popped, Outside
    <3>4. QED
      BY <3>2, <3>3 DEF Popped
  <2>3. QED
    BY <2>1, <2>2
<1>4. CASE Drain
  <2> DEFINE full == {l \in Lanes : ~Ring!Empty(queues[l])}
  <2>1. CASE full = {}
    BY <1>4, <2>1 DEF Drain, Outside
  <2>2. CASE full # {}
    <3>1. MinLane(full) \in full /\ MinLane(full) \in Lanes
      BY <2>2, MinLaneFacts
    <3>2. Popped(MinLane(full)) /\ UNCHANGED state
      BY <1>4, <2>2, <3>1 DEF Drain, Popped, Outside
    <3>3. QED
      BY <3>1, <3>2 DEF Popped
  <2>3. QED
    BY <2>1, <2>2
<1>5. CASE Loop \/ ExecJob \/ Idle \/ Unpark \/ DrainExec
  BY <1>5 DEF Loop, ExecJob, Idle, Unpark, DrainExec, SafeExec, Outside
<1>6. CASE BeginStop \/ Stopper
  BY <1>6 DEF BeginStop, Stopper, StopWake, Wait
<1>7. CASE ToggleSuspend \/ \E m \in Dynamic : AddMiddleware(m) \/ RemoveMiddleware(m)
  BY <1>7 DEF ToggleSuspend, AddMiddleware, RemoveMiddleware
<1>8. CASE UNCHANGED vars
  BY <1>8 DEF vars
<1>9. QED
  BY <1>1, <1>2, <1>3, <1>4, <1>5, <1>6, <1>7, <1>8 DEF Next, Worker

\* The queues of a mailbox, bounded rings over wrapping counters, are bounded FIFO lanes that
\* admit a job only while the worker runs and lose, duplicate or reorder none.
THEOREM QueueRefinement == Spec => ImplementsJobQueue
<1> DEFINE lane == [l \in Lanes |-> Ring!Contents(queues[l])]
<1> DEFINE open == state = "running"
<1>1. Init => AbstractQueue!Init
  <2> SUFFICES ASSUME Init PROVE AbstractQueue!Init
    OBVIOUS
  <2>1. \A l \in Lanes : Ring!Contents(queues[l]) = <<>>
    BY NewRing DEF Init
  <2>2. state = "running"
    BY DEF Init
  <2>3. QED
    BY <2>1, <2>2 DEF AbstractQueue!Init
<1>2. MailInv /\ [Next]_vars => [AbstractQueue!Next]_<<lane, open>>
  <2> SUFFICES ASSUME MailInv, [Next]_vars
               PROVE  AbstractQueue!Next \/ UNCHANGED <<lane, open>>
    OBVIOUS
  <2>0. RingsInv /\ FieldsInv
    BY TypeSplit DEF MailInv
  <2>1. CASE UNCHANGED <<queues, state>>
    BY <2>1, SameLanes DEF Waiting
  <2>2. CASE UNCHANGED queues /\ state' = "closed"
    <3>1. lane' = lane
      BY <2>2, SameLanes DEF Waiting
    <3>2. AbstractQueue!Close
      BY <2>2, <3>1 DEF AbstractQueue!Close
    <3>3. QED
      BY <3>2 DEF AbstractQueue!Next
  <2>3. ASSUME UNCHANGED state, state = "running", NEW l \in Lanes, NEW j \in Jobs, Pushed(l, j)
        PROVE  AbstractQueue!Next
    <3>1. /\ Waiting(l)' = Append(Waiting(l), j) /\ \A m \in Lanes \ {l} : Waiting(m)' = Waiting(m)
          /\ Len(Waiting(l)) < LaneCapacity
      BY <2>0, <2>3, PushedLanes, WaitingShape DEF Pushed
    <3>2. lane' = [lane EXCEPT ![l] = Append(lane[l], j)]
      BY <3>1 DEF Waiting
    <3>3. Len(lane[l]) < [m \in Lanes |-> LaneCapacity][l]
      BY <3>1 DEF Waiting
    <3>4. AbstractQueue!Admit(l, j)
      BY <2>3, <3>2, <3>3 DEF AbstractQueue!Admit
    <3>5. QED
      BY <3>4 DEF AbstractQueue!Next
  <2>4. ASSUME UNCHANGED state, NEW l \in Lanes, Popped(l)
        PROVE  AbstractQueue!Next
    <3>1. /\ Waiting(l)' = Tail(Waiting(l)) /\ \A m \in Lanes \ {l} : Waiting(m)' = Waiting(m)
          /\ Waiting(l) # <<>>
      BY <2>0, <2>4, PoppedLanes
    <3>2. lane' = [lane EXCEPT ![l] = Tail(lane[l])] /\ lane[l] # <<>>
      BY <3>1 DEF Waiting
    <3>3. AbstractQueue!Take(l)
      BY <2>4, <3>2 DEF AbstractQueue!Take
    <3>4. QED
      BY <3>3 DEF AbstractQueue!Next
  <2>5. QED
    BY <2>1, <2>2, <2>3, <2>4, QueueStep
<1>3. QED
  BY <1>1, <1>2, MailHolds, PTL DEF Spec, ImplementsJobQueue, AbstractQueue!Spec
=============================================================================
