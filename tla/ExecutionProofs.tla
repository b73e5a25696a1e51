--------------------------- MODULE ExecutionProofs ---------------------------
(***************************************************************************)
(* Theorems about the parts of a mailbox that execute its jobs:            *)
(* WorkerPool, the bookkeeping of resizes and stops and the order of the   *)
(* jobs of a key, for any keys, any jump hash and any number of workers;   *)
(* MpscQueue, the lock-free queue, which hands out its values in the order *)
(* of the swaps, for any producers, nodes and batches; and QueueSpec, the  *)
(* storage of the queues, for any configurations and load strategies.      *)
(***************************************************************************)
EXTENDS WorkerPool, MpscQueue, QueueSpec, FiniteSetTheorems, TLAPS

(***************************************************************************)
(* WorkerPool.                                                             *)
(***************************************************************************)
(***************************************************************************)
(* The inductive invariant.                                                *)
(***************************************************************************)
\* What resizeWorkers computes with: the counter is the size of the snapshot, and a shrink
\* goes down to newSize by taking out the workers of the highest ranks.
SizeInv ==
    /\ stop # "stopped" =>
         /\ snap # {} /\ workerCount = Cardinality(snap) /\ workerCount <= MaxWorkers
         /\ workerCount >= InitialWorkers \/ workerCount >= MinWorkers
    /\ stop = "stopped" => snap = {}
    /\ spc = "shrink" =>
         /\ newSize \in MinWorkers..(Cardinality(snap) - 1)
         /\ removed = {i \in snap : Rank(snap, i) >= newSize}
    /\ stop \in {"closing", "waiting", "stopped"} => spc = "done"

\* Where a worker may be: in the snapshot, or gone; only a shrink or a stop closes one, and
\* one that is gone has nothing left.
LifeInv ==
    /\ \A i \in snap : i < nextID
    /\ \A i \in IDs \ snap : wstate[i] \in {"none", "exited"}
    /\ \A i \in IDs : wstate[i] \in {"none", "exited"} => wq[i] = <<>> /\ cur[i] = NoJob
    /\ stop \in {"none", "cancelled"} =>
         \A i \in snap : wstate[i] = "running" \/ (spc = "shrink" /\ i \in removed)
    /\ stop = "waiting" => closing = snap

\* The worker that has a job, in its hands or in its queue.
Holds(i, j) == cur[i] = j \/ \E p \in 1..Len(wq[i]) : wq[i][p] = j

\* The accepted jobs of a key are all with the worker the ring gives for it.
HomeInv(k) ==
    \A n \in 1..JobsPerKey :
        /\ \A i \in IDs : Holds(i, <<k, n>>) =>
             fate[<<k, n>>] = "accepted" /\ snap # {} /\ i = Get(snap, k)
        /\ fate[<<k, n>>] = "accepted" => \E i \in IDs : Holds(i, <<k, n>>)

\* So is the worker DispatchJob has chosen, unless it rejects the job.
RouteInv(k) ==
    route[k] # NoWorker => wstate[route[k]] = "exited" \/ (snap # {} /\ route[k] = Get(snap, k))

\* They are executed, and queued, in the order of their numbers.
QueueInv(k) ==
    \A i \in IDs, m, n \in 1..JobsPerKey : \A q \in 1..Len(wq[i]) : wq[i][q] = <<k, n>> =>
        /\ cur[i] = <<k, m>> => m < n
        /\ \A p \in 1..(q - 1) : wq[i][p] = <<k, m>> => m < n

NumberInv == \A k \in Keys, n \in 1..JobsPerKey : fate[<<k, n>>] = "none" <=> n > posted[k]

OrderInv == \A k \in Keys \ torn : HomeInv(k) /\ RouteInv(k) /\ QueueInv(k)

\* A worker is chosen for a job that has still to be posted.
RoomInv == \A k \in Keys : route[k] # NoWorker => posted[k] < JobsPerKey

\* A job that a worker has was posted.
HeldInv ==
    \A i \in IDs : /\ cur[i] # NoJob => fate[cur[i]] # "none"
                   /\ \A p \in 1..Len(wq[i]) : fate[wq[i][p]] # "none"

CountInv == NumberInv /\ RoomInv /\ HeldInv

PoolInv == TypeOK /\ SizeInv /\ LifeInv /\ CountInv /\ OrderInv

-----------------------------------------------------------------------------
(***************************************************************************)
(* The dispatch ring: ranks in a finite set of ids, and the jump hash.     *)
(***************************************************************************)
\* A set of natural numbers has a least element.
LEMMA LeastNumber ==
    ASSUME NEW S, S \subseteq Nat, S # {}
    PROVE  \E m \in S : \A n \in S : m <= n
<1> DEFINE R == {ss \in Nat \X Nat : ss[1] < ss[2]}
<1>1. IsWellFoundedOn(R, Nat)
  BY NatLessThanWellFounded DEF OpToRel
<1>2. PICK m \in S : \A n \in S : ~(<<n, m>> \in R)
  BY <1>1, WFMin
<1>3. \A n \in S : m <= n
  <2> TAKE n \in S
  <2>1. n \in Nat /\ m \in Nat /\ ~(n < m)
    BY <1>2
  <2>2. QED
    BY <2>1
<1>4. QED
  BY <1>3

\* A rank counts the smaller ids: it is below the size and grows strictly.
LEMMA RankFacts ==
    ASSUME NEW S, S \subseteq Nat, IsFiniteSet(S)
    PROVE  /\ \A i \in Nat : Rank(S, i) \in Nat
           /\ \A i \in S : Rank(S, i) < Cardinality(S)
           /\ \A i \in S, j \in S : i < j => Rank(S, i) < Rank(S, j)
<1> DEFINE B(i) == {x \in S : x < i}
<1>1. \A i \in Nat : IsFiniteSet(B(i)) /\ Cardinality(B(i)) \in Nat
  BY FS_Subset, FS_CardinalityType
<1>2. ASSUME NEW i \in S PROVE Cardinality(B(i)) < Cardinality(S)
  <2>1. B(i) \in SUBSET S /\ i \notin B(i) /\ B(i) # S
    BY <1>2
  <2>2. Cardinality(B(i)) <= Cardinality(S) /\ Cardinality(B(i)) # Cardinality(S)
    BY <2>1, FS_Subset
  <2>3. Cardinality(B(i)) \in Nat /\ Cardinality(S) \in Nat
    BY <1>1, FS_CardinalityType
  <2>4. QED
    BY <2>2, <2>3
<1>3. ASSUME NEW i \in S, NEW j \in S, i < j PROVE Cardinality(B(i)) < Cardinality(B(j))
  <2>0. i \in Nat /\ j \in Nat /\ S \subseteq Nat
    OBVIOUS
  <2>1. B(i) \in SUBSET B(j) /\ i \in B(j) /\ i \notin B(i)
    <3>1. \A x \in S : x < i => x < j
      BY <1>3, <2>0
    <3>2. ~(i < i)
      BY <2>0
    <3>3. B(i) \subseteq B(j)
      BY <3>1
    <3>4. QED
      BY <1>3, <3>2, <3>3
  <2>2. IsFiniteSet(B(j)) /\ Cardinality(B(i)) \in Nat /\ Cardinality(B(j)) \in Nat
    BY <1>1
  <2>3. Cardinality(B(i)) <= Cardinality(B(j)) /\ Cardinality(B(i)) # Cardinality(B(j))
    BY <2>1, <2>2, FS_Subset
  <2>4. QED
    BY <2>2, <2>3
<1>4. \A i \in Nat : Rank(S, i) = Cardinality(B(i))
  BY DEF Rank
<1>5. QED
  BY <1>1, <1>2, <1>3, <1>4

\* The ids of a rank below n, as resizeWorkers keeps them.
Below(S, n) == {i \in S : Rank(S, i) < n}

\* One more rank is one more id.
LEMMA BelowNext ==
    ASSUME NEW S, S \subseteq Nat, IsFiniteSet(S), NEW m \in Nat, m < Cardinality(S),
           Cardinality(Below(S, m)) = m
    PROVE  Cardinality(Below(S, m + 1)) = m + 1 /\ \E x \in S : Rank(S, x) = m
<1> DEFINE B == Below(S, m)
<1>1. B \subseteq S /\ IsFiniteSet(B)
  BY FS_Subset DEF Below
<1>2. S \ B # {}
  BY <1>1
<1>3. PICK x \in S \ B : \A y \in S \ B : x <= y
  BY <1>2, LeastNumber
<1>4. \A y \in S : y < x <=> y \in B
  <2>1. ASSUME NEW y \in S, y < x PROVE y \in B
    BY <1>3, <2>1
  <2>2. ASSUME NEW y \in B, ~(y < x) PROVE FALSE
    <3>0. x \in S /\ y \in S /\ x \in Nat /\ y \in Nat /\ x # y
      BY <1>1, <1>3, <2>2
    <3>1. x \in S /\ y \in S /\ x < y
      BY <3>0, <2>2
    <3>2. Rank(S, x) < Rank(S, y) /\ Rank(S, y) < m /\ Rank(S, x) \in Nat /\ Rank(S, y) \in Nat
      BY <3>1, RankFacts, <2>2 DEF Below
    <3>3. x \in B
      BY <3>1, <3>2 DEF Below
    <3>4. QED
      BY <1>3, <3>3
  <2>3. QED
    BY <2>1, <2>2
<1>5. Rank(S, x) = m
  <2>1. {y \in S : y < x} = B
    BY <1>1, <1>4
  <2>2. QED
    BY <2>1 DEF Rank
<1>6. Below(S, m + 1) = B \cup {x}
  <2>1. ASSUME NEW y \in S PROVE Rank(S, y) < m + 1 <=> y \in B \cup {x}
    <3>1. Rank(S, y) \in Nat /\ Rank(S, x) \in Nat
      BY RankFacts
    <3>2. CASE y < x
      BY <1>4, <1>5, <3>1, <3>2 DEF Below
    <3>3. CASE y = x
      BY <1>5, <3>3
    <3>4. CASE x < y
      <4>1. Rank(S, x) < Rank(S, y)
        BY <3>4, RankFacts
      <4>2. QED
        BY <1>4, <1>5, <3>1, <3>4, <4>1 DEF Below
    <3>5. QED
      BY <3>2, <3>3, <3>4
  <2>2. QED
    BY <1>1, <1>3, <2>1 DEF Below
<1>7. QED
  BY <1>1, <1>3, <1>5, <1>6, FS_AddElement

\* So n ids have a rank below n.
LEMMA BelowCount ==
    ASSUME NEW S, S \subseteq Nat, IsFiniteSet(S)
    PROVE  \A n \in 0..Cardinality(S) : Cardinality(Below(S, n)) = n
<1> DEFINE Bad == {n \in 0..Cardinality(S) : Cardinality(Below(S, n)) # n}
<1>0. Cardinality(S) \in Nat
  BY FS_CardinalityType
<1>1. SUFFICES ASSUME Bad # {} PROVE FALSE
  OBVIOUS
<1>2. PICK n \in Bad : \A b \in Bad : n <= b
  <2>1. Bad \subseteq Nat
    BY <1>0
  <2>2. QED
    BY <1>1, <2>1, LeastNumber
<1>3. CASE n = 0
  <2>1. Below(S, 0) = {}
    <3>1. \A i \in S : Rank(S, i) \in Nat
      BY RankFacts
    <3>2. \A i \in S : ~(Rank(S, i) < 0)
      BY <3>1
    <3>3. QED
      BY <3>2 DEF Below
  <2>2. QED
    BY <1>2, <1>3, <2>1, FS_EmptySet
<1>4. CASE n # 0
  <2>1. n - 1 \in Nat /\ n - 1 < Cardinality(S) /\ n - 1 \notin Bad /\ n = (n - 1) + 1
    BY <1>0, <1>2, <1>4
  <2>2. Cardinality(Below(S, n - 1)) = n - 1
    BY <1>0, <2>1
  <2>3. Cardinality(Below(S, (n - 1) + 1)) = (n - 1) + 1
    BY <2>1, <2>2, BelowNext
  <2>4. QED
    BY <1>2, <2>1, <2>3
<1>5. QED
  BY <1>3, <1>4

\* jumpHash stays below the number of workers, and passes the larger values one by one.
LEMMA JumpHashFacts ==
    ASSUME NEW k \in Keys, NEW n \in Nat, n # 0
    PROVE  /\ JumpHash(k, n) \in Jumps[k] /\ JumpHash(k, n) \in Nat /\ JumpHash(k, n) < n
           /\ \A c \in Jumps[k] : c < n => c <= JumpHash(k, n)
<1> DEFINE D == {d \in Nat : n - 1 - d \in Jumps[k]}
<1>0. Jumps[k] \subseteq Nat /\ 0 \in Jumps[k]
  BY ConstantsAssumption
<1>1. n - 1 \in D /\ D \subseteq Nat
  BY <1>0
<1>2. PICK d \in D : \A e \in D : d <= e
  BY <1>1, LeastNumber
<1> DEFINE b == n - 1 - d
<1>3. b \in Jumps[k] /\ b < n
  BY <1>0, <1>2
<1>4. \A c \in Jumps[k] : c < n => c <= b
  <2> TAKE c \in Jumps[k]
  <2> HAVE c < n
  <2>1. n - 1 - (n - 1 - c) = c /\ n - 1 - c \in Nat
    BY <1>0
  <2>2. n - 1 - c \in D
    BY <2>1
  <2>3. QED
    BY <1>0, <1>2, <2>2
<1>5. \E x \in Jumps[k] : x < n /\ \A c \in Jumps[k] : c < n => c <= x
  BY <1>3, <1>4
<1>6. QED
  BY <1>0, <1>5 DEF JumpHash

\* The ring gives every key a worker of a snapshot that is not empty.
LEMMA GetFacts ==
    ASSUME NEW S, S \subseteq Nat, IsFiniteSet(S), S # {}, NEW k \in Keys
    PROVE  Get(S, k) \in S /\ Rank(S, Get(S, k)) = JumpHash(k, Cardinality(S))
<1>1. Cardinality(S) \in Nat /\ Cardinality(S) # 0
  BY FS_CardinalityType, FS_EmptySet
<1>2. JumpHash(k, Cardinality(S)) \in Nat /\ JumpHash(k, Cardinality(S)) < Cardinality(S)
  BY <1>1, JumpHashFacts
<1>3. Cardinality(Below(S, JumpHash(k, Cardinality(S)))) = JumpHash(k, Cardinality(S))
  <2>1. JumpHash(k, Cardinality(S)) \in 0..Cardinality(S)
    BY <1>1, <1>2
  <2>2. QED
    BY <2>1, BelowCount
<1>4. \E i \in S : Rank(S, i) = JumpHash(k, Cardinality(S))
  BY <1>2, <1>3, BelowNext
<1>5. QED
  BY <1>4 DEF Get

\* A rank belongs to one id.
LEMMA GetUnique ==
    ASSUME NEW S, S \subseteq Nat, IsFiniteSet(S), S # {}, NEW k \in Keys, NEW i \in S,
           Rank(S, i) = JumpHash(k, Cardinality(S))
    PROVE  Get(S, k) = i
<1>1. Get(S, k) \in S /\ Rank(S, Get(S, k)) = Rank(S, i)
  BY GetFacts
<1>2. Rank(S, i) \in Nat
  BY RankFacts
<1>3. ~(Rank(S, i) < Rank(S, i))
  BY <1>2
<1>4. ~(Get(S, k) < i) /\ ~(i < Get(S, k))
  <2>1. \A x \in S, y \in S : x < y => Rank(S, x) < Rank(S, y)
    BY RankFacts
  <2>2. QED
    BY <1>1, <1>3, <2>1
<1>5. Get(S, k) \in Nat /\ i \in Nat
  BY <1>1
<1>6. QED
  BY <1>4, <1>5

\* A shrink leaves n workers, and each key that it does not take the worker from keeps it.
LEMMA ShrinkFacts ==
    ASSUME NEW S, S \subseteq Nat, IsFiniteSet(S), NEW n \in Nat \ {0}, n < Cardinality(S)
    PROVE  LET R == {i \in S : Rank(S, i) >= n} IN
           /\ Cardinality(S \ R) = n /\ S \ R # {}
           /\ \A k \in Keys : Get(S, k) \notin R => Get(S \ R, k) = Get(S, k)
<1> DEFINE R == {i \in S : Rank(S, i) >= n}
           T == Below(S, n)
<1>0. Cardinality(S) \in Nat
  BY FS_CardinalityType
<1>1. S \ R = T
  <2>1. \A i \in S : Rank(S, i) \in Nat
    BY RankFacts
  <2>2. \A i \in S : ~(Rank(S, i) >= n) <=> Rank(S, i) < n
    BY <2>1
  <2>3. QED
    BY <2>2 DEF Below
<1>2. Cardinality(T) = n
  <2>1. n \in 0..Cardinality(S)
    BY <1>0
  <2>2. QED
    BY <2>1, BelowCount
<1>3. T \subseteq S /\ IsFiniteSet(T) /\ T # {} /\ S # {}
  BY <1>2, FS_Subset, FS_EmptySet DEF Below
<1>4. ASSUME NEW i \in T PROVE Rank(T, i) = Rank(S, i)
  <2>1. ASSUME NEW x \in S, x < i PROVE x \in T
    <3>1. Rank(S, x) < Rank(S, i) /\ Rank(S, x) \in Nat /\ Rank(S, i) \in Nat /\ Rank(S, i) < n
      BY <1>3, <1>4, <2>1, RankFacts DEF Below
    <3>2. QED
      BY <3>1 DEF Below
  <2>2. {x \in T : x < i} = {x \in S : x < i}
    BY <1>3, <2>1
  <2>3. QED
    BY <2>2 DEF Rank
<1>5. ASSUME NEW k \in Keys, Get(S, k) \in T PROVE Get(T, k) = Get(S, k)
  <2> DEFINE g == Get(S, k)
             b == JumpHash(k, Cardinality(S))
  <2>1. Rank(S, g) = b /\ b < n
    BY <1>3, <1>5, GetFacts DEF Below
  <2>2. b \in Jumps[k] /\ b \in Nat /\ \A c \in Jumps[k] : c < Cardinality(S) => c <= b
    BY <1>0, JumpHashFacts
  <2>3. JumpHash(k, n) \in Jumps[k] /\ JumpHash(k, n) \in Nat /\ JumpHash(k, n) < n
        /\ \A c \in Jumps[k] : c < n => c <= JumpHash(k, n)
    BY JumpHashFacts
  <2>4. JumpHash(k, n) = b
    <3>1. b <= JumpHash(k, n)
      BY <2>1, <2>2, <2>3
    <3>2. JumpHash(k, n) <= b
      BY <1>0, <2>2, <2>3
    <3>3. QED
      BY <2>2, <2>3, <3>1, <3>2
  <2>5. Rank(T, g) = JumpHash(k, Cardinality(T))
    BY <1>2, <1>4, <1>5, <2>1, <2>4
  <2>6. QED
    BY <1>3, <1>5, <2>5, GetUnique
<1>6. \A k \in Keys : Get(S, k) \notin R => Get(S \ R, k) = Get(S, k)
  BY <1>1, <1>3, <1>5, GetFacts
<1>7. QED
  BY <1>1, <1>2, <1>3, <1>6

-----------------------------------------------------------------------------
(***************************************************************************)
(* The snapshot, the counter and the lives of the workers.                 *)
(***************************************************************************)
CoreInv == TypeOK /\ SizeInv /\ LifeInv

\* The snapshot is a finite set of numbers.
LEMMA SnapFacts ==
    ASSUME TypeOK
    PROVE  /\ IDs \subseteq Nat /\ snap \subseteq Nat /\ IsFiniteSet(snap)
           /\ Cardinality(snap) \in Nat /\ (snap # {} => Cardinality(snap) >= 1)
<1>1. IDs \subseteq Nat /\ IsFiniteSet(IDs)
  BY ConstantsAssumption, FS_Interval DEF IDs
<1>2. snap \subseteq Nat /\ IsFiniteSet(snap)
  BY <1>1, FS_Subset DEF TypeOK
<1>3. Cardinality(snap) \in Nat /\ (snap # {} => Cardinality(snap) # 0)
  BY <1>2, FS_CardinalityType, FS_EmptySet
<1>4. QED
  BY <1>1, <1>2, <1>3

LEMMA InitCore == Init => CoreInv
<1> SUFFICES ASSUME Init PROVE CoreInv
  OBVIOUS
<1>1. TypeOK
  <2>1. 0..(InitialWorkers - 1) \subseteq IDs /\ InitialWorkers \in 0..MaxIDs /\ 0 \in 0..JobsPerKey
    BY ConstantsAssumption DEF IDs
  <2>2. \A i \in IDs : wstate[i] = "none" <=> i >= nextID
    BY ConstantsAssumption DEF Init, IDs
  <2>3. QED
    BY <2>1, <2>2, ConstantsAssumption DEF Init, TypeOK
<1>2. SizeInv
  <2>1. Cardinality(0..(InitialWorkers - 1)) = InitialWorkers
    BY ConstantsAssumption, FS_Interval
  <2>2. 0 \in 0..(InitialWorkers - 1)
    BY ConstantsAssumption
  <2>3. QED
    BY <2>1, <2>2, ConstantsAssumption DEF Init, SizeInv
<1>3. LifeInv
  <2>1. \A i \in IDs : i \in 0..(InitialWorkers - 1) <=> i < InitialWorkers
    BY ConstantsAssumption DEF IDs
  <2>2. QED
    BY <1>1, <2>1, ConstantsAssumption DEF Init, LifeInv, TypeOK
<1>4. QED
  BY <1>1, <1>2, <1>3 DEF CoreInv

\* The number of the job that is posted next.
LEMMA PostFacts ==
    ASSUME TypeOK, NumberInv, NEW k \in Keys, posted[k] < JobsPerKey
    PROVE  /\ posted[k] + 1 \in 1..JobsPerKey /\ NextPost(k) \in Jobs
           /\ fate[NextPost(k)] = "none"
<1>1. posted[k] \in 0..JobsPerKey
  BY DEF TypeOK
<1>2. posted[k] + 1 \in 1..JobsPerKey /\ posted[k] + 1 > posted[k]
  BY <1>1, ConstantsAssumption
<1>3. QED
  BY <1>2 DEF NextPost, Jobs, NumberInv

\* A job that was posted stays posted.
LEMMA HeldKept ==
    ASSUME TypeOK, HeldInv, UNCHANGED <<wq, cur>>, \A j \in Jobs : fate[j] # "none" => fate'[j] # "none"
    PROVE  HeldInv'
<1>1. ASSUME NEW i \in IDs
      PROVE  /\ cur[i] # NoJob => cur[i] \in Jobs
             /\ \A p \in 1..Len(wq[i]) : wq[i][p] \in Jobs
  BY DEF TypeOK
<1>2. QED
  BY <1>1 DEF HeldInv

LEMMA PostedFacts ==
    ASSUME TypeOK, NumberInv, NEW k \in Keys, posted[k] < JobsPerKey,
           NEW how \in {"accepted", "rejected"}, Posted(k, how)
    PROVE  /\ posted' \in [Keys -> 0..JobsPerKey]
           /\ fate' \in [Jobs -> {"none", "accepted", "rejected", "ended"}]
           /\ NumberInv' /\ \A j \in Jobs : fate[j] # "none" => fate'[j] # "none"
<1>1. posted' \in [Keys -> 0..JobsPerKey] /\ fate' \in [Jobs -> {"none", "accepted", "rejected", "ended"}]
  BY PostFacts DEF Posted, TypeOK
<1>2. ASSUME NEW l \in Keys, NEW n \in 1..JobsPerKey
      PROVE fate'[<<l, n>>] = "none" <=> n > posted'[l]
  <2>1. posted[k] \in Nat /\ posted[l] \in Nat /\ <<l, n>> \in Jobs
    BY DEF TypeOK, Jobs
  <2>2. CASE <<l, n>> = NextPost(k)
    BY <2>1, <2>2, PostFacts DEF Posted, TypeOK, NextPost
  <2>3. CASE <<l, n>> # NextPost(k)
    <3>1. fate'[<<l, n>>] = fate[<<l, n>>]
      BY <2>1, <2>3 DEF Posted, TypeOK
    <3>2. CASE l = k
      BY <2>1, <2>3, <3>1, <3>2 DEF Posted, TypeOK, NextPost, NumberInv
    <3>3. CASE l # k
      BY <3>1, <3>3 DEF Posted, TypeOK, NumberInv
    <3>4. QED
      BY <3>2, <3>3
  <2>4. QED
    BY <2>2, <2>3
<1>3. \A j \in Jobs : fate[j] # "none" => fate'[j] # "none"
  BY DEF Posted, TypeOK
<1>4. QED
  BY <1>1, <1>2, <1>3 DEF NumberInv

\* DispatchJob, before and after it chose a worker.
LEMMA LoadCore ==
    ASSUME CoreInv, CountInv, NEW k \in Keys, LoadSnapshot(k)
    PROVE  CoreInv' /\ CountInv'
<1>1. posted[k] < JobsPerKey
  BY DEF LoadSnapshot
<1>2. CASE snap = {}
  <2>1. Posted(k, "rejected") /\ UNCHANGED <<route, pool, workers, scaler, stopper>>
    BY <1>2 DEF LoadSnapshot
  <2>2. /\ posted' \in [Keys -> 0..JobsPerKey] /\ fate' \in [Jobs -> {"none", "accepted", "rejected", "ended"}]
        /\ NumberInv' /\ \A j \in Jobs : fate[j] # "none" => fate'[j] # "none"
    BY <1>1, <2>1, PostedFacts DEF CoreInv, CountInv
  <2>3. CoreInv'
    BY <2>1, <2>2 DEF CoreInv, TypeOK, SizeInv, LifeInv, pool, workers, scaler, stopper, Rank
  <2>4. RoomInv'
    BY <1>1, <2>1 DEF RoomInv, CountInv, Posted, LoadSnapshot, CoreInv, TypeOK
  <2>5. HeldInv'
    BY <2>1, <2>2, HeldKept DEF CountInv, CoreInv, workers
  <2>6. QED
    BY <2>2, <2>3, <2>4, <2>5 DEF CountInv
<1>3. CASE snap # {}
  <2>1. route' = [route EXCEPT ![k] = Get(snap, k)] /\ UNCHANGED <<posted, fate, pool, workers, scaler, stopper>>
    BY <1>3 DEF LoadSnapshot
  <2>2. Get(snap, k) \in IDs
    BY <1>3, SnapFacts, GetFacts DEF CoreInv, TypeOK
  <2>3. CoreInv'
    BY <2>1, <2>2 DEF CoreInv, TypeOK, SizeInv, LifeInv, pool, workers, scaler, stopper, Rank
  <2>4. QED
    BY <1>1, <2>1, <2>3 DEF CountInv, RoomInv, NumberInv, HeldInv, CoreInv, TypeOK, workers
<1>4. QED
  BY <1>2, <1>3

LEMMA SubmitCore ==
    ASSUME CoreInv, CountInv, NEW k \in Keys, SubmitJob(k)
    PROVE  CoreInv' /\ CountInv'
<1> DEFINE i == route[k]
<1>1. i \in IDs /\ posted[k] < JobsPerKey
  BY DEF SubmitJob, CoreInv, TypeOK, RoomInv, CountInv
<1>2. UNCHANGED <<pool, wstate, cur, scaler, stopper>> /\ route' = [route EXCEPT ![k] = NoWorker]
  BY DEF SubmitJob
<1>3. PICK how \in {"accepted", "rejected"} : Posted(k, how)
  BY DEF SubmitJob
<1>4. /\ posted' \in [Keys -> 0..JobsPerKey] /\ fate' \in [Jobs -> {"none", "accepted", "rejected", "ended"}]
      /\ NumberInv' /\ \A j \in Jobs : fate[j] # "none" => fate'[j] # "none"
  BY <1>1, <1>3, PostedFacts DEF CoreInv, CountInv
<1>5. /\ wq' \in [IDs -> Seq(Jobs)]
      /\ \A x \in IDs : wstate[x] # "running" => wq'[x] = wq[x]
  <2>1. CASE UNCHANGED wq
    BY <2>1 DEF CoreInv, TypeOK
  <2>2. CASE wstate[i] = "running" /\ wq' = [wq EXCEPT ![i] = Append(@, NextPost(k))]
    <3>1. Append(wq[i], NextPost(k)) \in Seq(Jobs)
      BY <1>1, PostFacts DEF CoreInv, TypeOK, CountInv
    <3>2. QED
      BY <1>1, <2>2, <3>1 DEF CoreInv, TypeOK
  <2>3. QED
    BY <2>1, <2>2 DEF SubmitJob
<1>6. route' \in [Keys -> IDs \cup {NoWorker}]
  BY <1>2 DEF CoreInv, TypeOK
<1>7. TypeOK'
  BY <1>2, <1>4, <1>5, <1>6 DEF CoreInv, TypeOK, pool, scaler, stopper
<1>8. SizeInv'
  BY <1>2 DEF CoreInv, SizeInv, pool, scaler, stopper, Rank
<1>9. LifeInv'
  BY <1>2, <1>5 DEF CoreInv, LifeInv, pool, scaler, stopper, TypeOK
<1>10. RoomInv'
  <2>1. \A l \in Keys : l # k => posted'[l] = posted[l] /\ route'[l] = route[l]
    BY <1>2, <1>3 DEF Posted, CoreInv, TypeOK
  <2>2. route'[k] = NoWorker
    BY <1>2 DEF CoreInv, TypeOK
  <2>3. QED
    BY <2>1, <2>2 DEF RoomInv, CountInv
<1>11. HeldInv'
  <2>1. CASE UNCHANGED wq
    BY <1>2, <1>4, <2>1, HeldKept DEF CoreInv, CountInv
  <2>2. CASE how = "accepted" /\ wq' = [wq EXCEPT ![i] = Append(@, NextPost(k))]
    <3>1. fate'[NextPost(k)] = "accepted" /\ NextPost(k) \in Jobs
      BY <1>1, <1>3, <2>2, PostFacts DEF Posted, CoreInv, TypeOK, CountInv
    <3>2. ASSUME NEW x \in IDs, NEW p \in 1..Len(wq'[x]) PROVE fate'[wq'[x][p]] # "none"
      <4>1. wq[x] \in Seq(Jobs)
        BY DEF CoreInv, TypeOK
      <4>2. CASE p \in 1..Len(wq[x])
        <5>1. wq'[x][p] = wq[x][p] /\ wq[x][p] \in Jobs
          BY <1>1, <2>2, <4>1, <4>2 DEF CoreInv, TypeOK
        <5>2. QED
          BY <1>4, <4>2, <5>1 DEF CountInv, HeldInv
      <4>3. CASE p \notin 1..Len(wq[x])
        <5>1. x = i /\ p = Len(wq[i]) + 1
          BY <1>1, <2>2, <4>1, <4>3 DEF CoreInv, TypeOK
        <5>2. wq'[x][p] = NextPost(k)
          BY <1>1, <2>2, <4>1, <5>1 DEF CoreInv, TypeOK
        <5>3. QED
          BY <3>1, <5>2
      <4>4. QED
        BY <4>2, <4>3
    <3>3. \A x \in IDs : cur'[x] # NoJob => fate'[cur'[x]] # "none"
      BY <1>2, <1>4 DEF CountInv, HeldInv, CoreInv, TypeOK
    <3>4. QED
      BY <3>2, <3>3 DEF HeldInv
  <2>3. QED
    <3>1. fate'[NextPost(k)] = how
      BY <1>1, <1>3, PostFacts DEF Posted, CoreInv, TypeOK, CountInv
    <3>2. UNCHANGED wq \/ (wq' = [wq EXCEPT ![i] = Append(@, NextPost(k))] /\ Posted(k, "accepted"))
      BY DEF SubmitJob
    <3>3. Posted(k, "accepted") => fate'[NextPost(k)] = "accepted"
      BY <1>1, PostFacts DEF Posted, CoreInv, TypeOK, CountInv
    <3>4. QED
      BY <2>1, <2>2, <3>1, <3>2, <3>3
<1>12. QED
  BY <1>4, <1>7, <1>8, <1>9, <1>10, <1>11 DEF CoreInv, CountInv

\* A worker.
LEMMA WorkCore ==
    ASSUME CoreInv, CountInv, NEW i \in IDs, Worker(i)
    PROVE  CoreInv' /\ CountInv'
<1>1. UNCHANGED <<pool, scaler, posters, stopper>>
  BY DEF Worker, TakeJob, ExecJob, ExitWorker
<1>2. /\ fate' \in [Jobs -> {"none", "accepted", "rejected", "ended"}]
      /\ fate' = fate \/ \E j \in Jobs : fate[j] # "none" /\ fate' = [fate EXCEPT ![j] = "ended"]
  <2>1. wq[i] # <<>> => Head(wq[i]) \in Jobs /\ fate[Head(wq[i])] # "none"
    <3>1. wq[i] \in Seq(Jobs)
      BY DEF CoreInv, TypeOK
    <3>2. wq[i] # <<>> => 1 \in 1..Len(wq[i]) /\ Head(wq[i]) = wq[i][1] /\ Head(wq[i]) \in Jobs
      BY <3>1
    <3>3. QED
      BY <3>2 DEF CountInv, HeldInv
  <2>2. cur[i] # NoJob => cur[i] \in Jobs /\ fate[cur[i]] # "none"
    BY DEF CoreInv, TypeOK, CountInv, HeldInv
  <2>3. QED
    BY <2>1, <2>2 DEF Worker, TakeJob, ExecJob, ExitWorker, CoreInv, TypeOK
<1>3. /\ wq' \in [IDs -> Seq(Jobs)] /\ cur' \in [IDs -> Jobs \cup {NoJob}]
      /\ wstate' \in [IDs -> {"none", "running", "closed", "exited"}]
      /\ \A x \in IDs \ {i} : wq'[x] = wq[x] /\ cur'[x] = cur[x] /\ wstate'[x] = wstate[x]
  <2>1. wq[i] # <<>> => Head(wq[i]) \in Jobs /\ Tail(wq[i]) \in Seq(Jobs)
    BY DEF CoreInv, TypeOK
  <2>2. CASE TakeJob(i)
    BY <2>1, <2>2 DEF TakeJob, CoreInv, TypeOK
  <2>3. CASE ExecJob(i) \/ ExitWorker(i)
    BY <2>3 DEF ExecJob, ExitWorker, CoreInv, TypeOK
  <2>4. QED
    BY <2>2, <2>3 DEF Worker
<1>4. /\ wstate[i] \in {"running", "closed"}
      /\ \/ wstate'[i] = wstate[i]
         \/ wstate[i] = "closed" /\ wstate'[i] = "exited" /\ wq'[i] = <<>> /\ cur'[i] = NoJob
  <2>1. cur[i] # NoJob => wstate[i] \in {"running", "closed"}
    BY DEF CoreInv, LifeInv, TypeOK
  <2>2. QED
    BY <2>1 DEF Worker, TakeJob, ExecJob, ExitWorker, CoreInv, TypeOK
<1>5. TypeOK'
  BY <1>1, <1>2, <1>3, <1>4 DEF CoreInv, TypeOK, pool, scaler, posters, stopper
<1>6. SizeInv'
  BY <1>1 DEF CoreInv, SizeInv, pool, scaler, stopper, Rank
<1>7. LifeInv'
  <2>1. \A x \in IDs \ snap' : wstate'[x] \in {"none", "exited"}
    BY <1>1, <1>3, <1>4 DEF CoreInv, LifeInv, pool
  <2>2. \A x \in IDs : wstate'[x] \in {"none", "exited"} => wq'[x] = <<>> /\ cur'[x] = NoJob
    BY <1>3, <1>4 DEF CoreInv, LifeInv
  <2>3. stop' \in {"none", "cancelled"} =>
          \A x \in snap' : wstate'[x] = "running" \/ (spc' = "shrink" /\ x \in removed')
    BY <1>1, <1>3, <1>4 DEF CoreInv, LifeInv, pool, scaler, stopper, TypeOK
  <2>4. QED
    BY <1>1, <2>1, <2>2, <2>3 DEF CoreInv, LifeInv, pool, scaler, stopper
<1>8. NumberInv'
  <2>1. \A j \in Jobs : fate'[j] = "none" <=> fate[j] = "none"
    BY <1>2 DEF CoreInv, TypeOK
  <2>2. \A k \in Keys, n \in 1..JobsPerKey : <<k, n>> \in Jobs
    BY DEF Jobs
  <2>3. QED
    BY <1>1, <2>1, <2>2 DEF NumberInv, CountInv, posters
<1>9. HeldInv'
  <2>1. \A j \in Jobs : fate[j] # "none" => fate'[j] # "none"
    BY <1>2 DEF CoreInv, TypeOK
  <2>2. ASSUME NEW x \in IDs
        PROVE  /\ cur'[x] # NoJob => cur'[x] \in Jobs /\ fate[cur'[x]] # "none"
               /\ \A p \in 1..Len(wq'[x]) : wq'[x][p] \in Jobs /\ fate[wq'[x][p]] # "none"
    <3>1. wq[x] \in Seq(Jobs) /\ (cur[x] # NoJob => cur[x] \in Jobs)
      BY DEF CoreInv, TypeOK
    <3>2. \A p \in 1..Len(wq[x]) : wq[x][p] \in Jobs /\ fate[wq[x][p]] # "none"
      BY <3>1 DEF CountInv, HeldInv
    <3>3. CASE x = i /\ TakeJob(i)
      <4>1. wq[i] # <<>> /\ wq'[i] = Tail(wq[i]) /\ cur'[i] \in {NoJob, Head(wq[i])}
        BY <3>3 DEF TakeJob, CoreInv, TypeOK
      <4>2. Head(wq[i]) = wq[i][1] /\ 1 \in 1..Len(wq[i])
        BY <3>1, <3>3, <4>1
      <4>3. \A p \in 1..Len(wq'[i]) : wq'[i][p] = wq[i][p + 1] /\ p + 1 \in 1..Len(wq[i])
        BY <3>1, <3>3, <4>1
      <4>4. QED
        BY <3>2, <3>3, <4>1, <4>2, <4>3
    <3>4. CASE ~(x = i /\ TakeJob(i))
      <4>1. wq'[x] = wq[x] /\ cur'[x] \in {NoJob, cur[x]}
        BY <1>3, <3>4 DEF Worker, ExecJob, ExitWorker, CoreInv, TypeOK
      <4>2. QED
        BY <3>1, <3>2, <4>1 DEF CountInv, HeldInv
    <3>5. QED
      BY <3>3, <3>4
  <2>3. QED
    BY <2>1, <2>2 DEF HeldInv
<1>10. QED
  BY <1>1, <1>5, <1>6, <1>7, <1>8, <1>9 DEF CoreInv, CountInv, RoomInv, posters

\* The other steps leave the jobs alone.
LEMMA RestCount ==
    ASSUME CountInv, UNCHANGED <<posters, wq, cur, fate>>
    PROVE  CountInv'
  BY DEF CountInv, NumberInv, RoomInv, HeldInv, posters

\* resizeWorkers.
LEMMA ExpandCore ==
    ASSUME CoreInv, NEW n \in MinWorkers..MaxWorkers, Expand(n)
    PROVE  CoreInv'
<1> DEFINE new == nextID..(nextID + n - workerCount - 1)
<1>1. /\ snap # {} /\ n > workerCount /\ new \subseteq IDs /\ nextID' = nextID + (n - workerCount)
      /\ wstate' = [i \in IDs |-> IF i \in new THEN "running" ELSE wstate[i]]
      /\ workerCount' = n /\ snap' = snap \cup new
      /\ UNCHANGED <<wq, cur, scaler, posters, stopper, fate>> /\ spc = "wait"
  BY DEF Expand
<1>2. /\ nextID \in Nat /\ n \in Nat /\ workerCount \in Nat /\ stop \in {"none", "cancelled"}
      /\ workerCount = Cardinality(snap) /\ MaxIDs \in Nat
  BY <1>1, ConstantsAssumption DEF CoreInv, TypeOK, SizeInv
<1>3. \A i \in IDs : /\ i \in Nat /\ (i \in new <=> i >= nextID /\ i < nextID')
                     /\ (i \in snap => i < nextID)
  <2>1. IDs \subseteq Nat
    BY SnapFacts DEF CoreInv
  <2>2. \A i \in Nat : i \in new <=> i >= nextID /\ i < nextID'
    <3>1. nextID' = nextID + n - workerCount
      BY <1>1, <1>2
    <3>2. QED
      BY <1>2, <3>1
  <2>3. \A i \in snap : i < nextID
    BY DEF CoreInv, LifeInv
  <2>4. QED
    BY <2>1, <2>2, <2>3
<1>4. nextID' \in 0..MaxIDs
  <2>1. nextID + n - workerCount - 1 \in new
    BY <1>1, <1>2
  <2>2. nextID + n - workerCount - 1 \in 0..(MaxIDs - 1)
    BY <1>1, <2>1 DEF IDs
  <2>3. QED
    BY <1>1, <1>2, <2>2
<1>5. TypeOK'
  <2>1. wstate' \in [IDs -> {"none", "running", "closed", "exited"}]
    BY <1>1 DEF CoreInv, TypeOK
  <2>2. \A i \in IDs : wstate'[i] = "none" <=> i >= nextID'
    <3> TAKE i \in IDs
    <3>1. wstate[i] = "none" <=> i >= nextID
      BY DEF CoreInv, TypeOK
    <3>2. wstate'[i] = IF i \in new THEN "running" ELSE wstate[i]
      BY <1>1
    <3>3. nextID' \in Nat /\ nextID' >= nextID
      BY <1>1, <1>2
    <3>4. QED
      BY <1>2, <1>3, <3>1, <3>2, <3>3
  <2>3. torn' \subseteq Keys
    BY DEF Expand, TornBy, CoreInv, TypeOK
  <2>4. snap' \subseteq IDs /\ workerCount' \in Nat
    BY <1>1, <1>2 DEF CoreInv, TypeOK
  <2>5. QED
    BY <1>1, <1>4, <2>1, <2>2, <2>3, <2>4 DEF CoreInv, TypeOK, scaler, posters, stopper
<1>6. SizeInv'
  <2>1. IsFiniteSet(snap) /\ IsFiniteSet(new) /\ Cardinality(new) = n - workerCount /\ snap \cap new = {}
    <3>1. Cardinality(new) = n - workerCount /\ IsFiniteSet(new)
      <4> DEFINE b == nextID + n - workerCount - 1
      <4>1. nextID \in Int /\ b \in Int /\ ~(nextID > b) /\ b - nextID + 1 = n - workerCount
        BY <1>1, <1>2
      <4>2. IsFiniteSet(nextID..b) /\ Cardinality(nextID..b) = IF nextID > b THEN 0 ELSE b - nextID + 1
        BY <4>1, FS_Interval
      <4>3. QED
        BY <4>1, <4>2
    <3>2. snap \subseteq IDs
      BY DEF CoreInv, TypeOK
    <3>3. snap \cap new = {}
      BY <1>1, <1>2, <1>3, <3>2
    <3>4. QED
      BY <3>1, <3>3, SnapFacts DEF CoreInv
  <2>2. Cardinality(snap \cup new) = Cardinality(snap) + (n - workerCount) - 0
    <3>1. Cardinality(snap \cup new) = Cardinality(snap) + Cardinality(new) - Cardinality(snap \cap new)
      BY <2>1, FS_Union
    <3>2. Cardinality(snap \cap new) = 0
      BY <2>1, FS_EmptySet
    <3>3. QED
      BY <2>1, <3>1, <3>2
  <2>3. Cardinality(snap') = n
    BY <1>1, <1>2, <2>2
  <2>4. QED
    BY <1>1, <1>2, <2>3, ConstantsAssumption DEF CoreInv, SizeInv, scaler, stopper
<1>7. LifeInv'
  <2>1. \A i \in snap' : i < nextID'
    <3>1. snap \subseteq IDs /\ new \subseteq IDs
      BY <1>1 DEF CoreInv, TypeOK
    <3>2. nextID' \in Nat /\ nextID' >= nextID
      BY <1>1, <1>2
    <3>3. QED
      BY <1>1, <1>2, <1>3, <3>1, <3>2
  <2>2. \A i \in IDs \ snap' : wstate'[i] \in {"none", "exited"}
    BY <1>1 DEF CoreInv, LifeInv
  <2>3. \A i \in IDs : wstate'[i] \in {"none", "exited"} => wq'[i] = <<>> /\ cur'[i] = NoJob
    BY <1>1 DEF CoreInv, LifeInv
  <2>4. \A i \in snap' : wstate'[i] = "running"
    BY <1>1, <1>2 DEF CoreInv, LifeInv, TypeOK
  <2>5. QED
    BY <1>1, <1>2, <2>1, <2>2, <2>3, <2>4 DEF LifeInv, stopper
<1>8. QED
  BY <1>5, <1>6, <1>7 DEF CoreInv

LEMMA BeginShrinkCore ==
    ASSUME CoreInv, NEW n \in MinWorkers..MaxWorkers, BeginShrink(n)
    PROVE  CoreInv'
<1>1. /\ snap # {} /\ n < workerCount /\ removed' = {i \in snap : Rank(snap, i) >= n}
      /\ newSize' = n /\ spc' = "shrink" /\ UNCHANGED <<pool, workers, posters, stopper, fate>> /\ spc = "wait"
  BY DEF BeginShrink
<1>2. /\ n \in Nat /\ workerCount \in Nat /\ stop \in {"none", "cancelled"} /\ workerCount = Cardinality(snap)
      /\ MinWorkers \in Nat
  BY <1>1, ConstantsAssumption DEF CoreInv, TypeOK, SizeInv
<1>3. TypeOK'
  BY <1>1, <1>2 DEF CoreInv, TypeOK, pool, workers, posters, stopper
<1>4. n \in MinWorkers..(Cardinality(snap) - 1)
  BY <1>1, <1>2
<1>5. SizeInv'
  BY <1>1, <1>2, <1>4 DEF CoreInv, SizeInv, pool, stopper, Rank
<1>6. LifeInv'
  BY <1>1, <1>2 DEF CoreInv, LifeInv, pool, workers, stopper
<1>7. QED
  BY <1>3, <1>5, <1>6 DEF CoreInv

LEMMA ResizingCore ==
    ASSUME CoreInv, Resizing
    PROVE  CoreInv'
<1>1. CASE ShrinkPublish
  <2>1. /\ spc = "shrink" /\ (\A i \in removed : wstate[i] = "exited") /\ snap' = snap \ removed
        /\ workerCount' = newSize /\ spc' = "wait" /\ removed' = {} /\ newSize' = 0
        /\ UNCHANGED <<nextID, torn, workers, posters, stopper, fate>>
    BY <1>1 DEF ShrinkPublish
  <2>2. /\ newSize \in MinWorkers..(Cardinality(snap) - 1) /\ MinWorkers \in Nat \ {0} /\ MaxWorkers \in Nat
        /\ removed = {i \in snap : Rank(snap, i) >= newSize} /\ stop \in {"none", "cancelled"}
        /\ Cardinality(snap) \in Nat /\ Cardinality(snap) <= MaxWorkers
    BY <2>1, SnapFacts, ConstantsAssumption DEF CoreInv, SizeInv, TypeOK
  <2>3. newSize \in Nat \ {0} /\ newSize < Cardinality(snap) /\ newSize <= MaxWorkers /\ newSize >= MinWorkers
    BY <2>2
  <2>4. Cardinality(snap \ removed) = newSize /\ snap \ removed # {}
    BY <2>2, <2>3, SnapFacts, ShrinkFacts DEF CoreInv
  <2>5. TypeOK'
    BY <2>1, <2>3 DEF CoreInv, TypeOK, workers, posters, stopper
  <2>6. SizeInv'
    BY <2>1, <2>2, <2>3, <2>4 DEF CoreInv, SizeInv, stopper
  <2>7. LifeInv'
    BY <2>1, <2>2 DEF CoreInv, LifeInv, workers, stopper
  <2>8. QED
    BY <2>5, <2>6, <2>7 DEF CoreInv
<1>2. CASE ScalerExit
  BY <1>2 DEF ScalerExit, CoreInv, TypeOK, SizeInv, LifeInv, pool, workers, posters, stopper, Rank
<1>3. ASSUME NEW i \in IDs, ShrinkStop(i) PROVE CoreInv'
  <2>1. /\ spc = "shrink" /\ i \in removed /\ wstate[i] = "running"
        /\ wstate' = [wstate EXCEPT ![i] = "closed"] /\ UNCHANGED <<pool, wq, cur, scaler, posters, stopper, fate>>
    BY <1>3 DEF ShrinkStop
  <2>2. i \in snap
    BY <2>1 DEF CoreInv, SizeInv
  <2>3. TypeOK'
    BY <2>1 DEF CoreInv, TypeOK, pool, scaler, posters, stopper
  <2>4. SizeInv'
    BY <2>1 DEF CoreInv, SizeInv, pool, scaler, stopper, Rank
  <2>5. LifeInv'
    BY <2>1, <2>2 DEF CoreInv, LifeInv, pool, scaler, stopper, TypeOK
  <2>6. QED
    BY <2>3, <2>4, <2>5 DEF CoreInv
<1>4. QED
  BY <1>1, <1>2, <1>3 DEF Resizing

\* Stop.
LEMMA StopCore ==
    ASSUME CoreInv, Cancel \/ Stopping \/ Idle
    PROVE  CoreInv'
<1>1. CASE Cancel
  BY <1>1 DEF Cancel, CoreInv, TypeOK, SizeInv, LifeInv, pool, workers, scaler, posters, Rank
<1>2. CASE BeginStop
  BY <1>2 DEF BeginStop, CoreInv, TypeOK, SizeInv, LifeInv, pool, workers, scaler, posters, Rank
<1>3. CASE WaitSnapshot
  BY <1>3 DEF WaitSnapshot, CoreInv, TypeOK, SizeInv, LifeInv, pool, workers, scaler, posters, Rank
<1>4. ASSUME NEW i \in IDs, StopWorker(i) PROVE CoreInv'
  <2>1. /\ stop = "closing" /\ closing' = closing \ {i}
        /\ wstate' = [wstate EXCEPT ![i] = IF @ = "running" THEN "closed" ELSE @]
        /\ UNCHANGED <<pool, wq, cur, scaler, posters, stop, fate>>
    BY <1>4 DEF StopWorker
  <2>2. TypeOK'
    BY <2>1 DEF CoreInv, TypeOK, pool, scaler, posters
  <2>3. SizeInv'
    BY <2>1 DEF CoreInv, SizeInv, pool, scaler, Rank
  <2>4. LifeInv'
    BY <2>1 DEF CoreInv, LifeInv, pool, scaler, TypeOK
  <2>5. QED
    BY <2>2, <2>3, <2>4 DEF CoreInv
<1>5. CASE Wait
  <2>1. /\ stop = "waiting" /\ (\A i \in closing : wstate[i] = "exited") /\ snap' = {} /\ stop' = "stopped"
        /\ closing' = {} /\ UNCHANGED <<workerCount, nextID, torn, workers, scaler, posters, fate>>
    BY <1>5 DEF Wait
  <2>2. TypeOK'
    BY <2>1 DEF CoreInv, TypeOK, workers, scaler, posters
  <2>3. SizeInv'
    BY <2>1 DEF CoreInv, SizeInv, scaler
  <2>4. LifeInv'
    BY <2>1 DEF CoreInv, LifeInv, workers
  <2>5. QED
    BY <2>2, <2>3, <2>4 DEF CoreInv
<1>6. CASE Idle
  BY <1>6 DEF Idle, CoreInv, TypeOK, SizeInv, LifeInv, vars, pool, workers, scaler, posters, stopper, Rank
<1>7. QED
  BY <1>1, <1>2, <1>3, <1>4, <1>5, <1>6 DEF Stopping

-----------------------------------------------------------------------------
(***************************************************************************)
(* The order of the jobs of a key.                                         *)
(***************************************************************************)
KeyInv(k) == HomeInv(k) /\ RouteInv(k) /\ QueueInv(k)

\* While nothing of a key moves, nothing changes for it.
LEMMA KeyKept ==
    ASSUME NEW k \in Keys, KeyInv(k), UNCHANGED <<wq, cur, fate, route, snap>>,
           \A i \in IDs : wstate[i] = "exited" => wstate'[i] = "exited", TypeOK
    PROVE  KeyInv(k)'
<1>0. Get(snap, k)' = Get(snap, k)
  BY DEF Get, JumpHash, Rank
<1>1. HomeInv(k)'
  BY <1>0 DEF KeyInv, HomeInv, Holds
<1>2. RouteInv(k)'
  BY <1>0 DEF KeyInv, RouteInv, TypeOK
<1>3. QueueInv(k)'
  BY DEF KeyInv, QueueInv
<1>4. QED
  BY <1>1, <1>2, <1>3 DEF KeyInv

\* A worker with nothing to do has no job.
LEMMA NothingHeld ==
    ASSUME NEW i, wq[i] = <<>>, cur[i] = NoJob, NEW k \in Keys, NEW n \in 1..JobsPerKey
    PROVE  ~Holds(i, <<k, n>>)
<1>1. <<k, n>> # NoJob
  BY ConstantsAssumption DEF Jobs
<1>2. Len(<<>>) = 0 /\ 1..0 = {}
  OBVIOUS
<1>3. QED
  BY <1>1, <1>2 DEF Holds

\* DispatchJob chooses the worker the ring gives.
LEMMA LoadOrder ==
    ASSUME CoreInv, OrderInv, NEW l \in Keys, LoadSnapshot(l), NEW k \in Keys \ torn
    PROVE  KeyInv(k)'
<1>1. KeyInv(k) /\ UNCHANGED <<wq, cur, wstate, snap>>
  BY DEF OrderInv, KeyInv, LoadSnapshot, pool, workers
<1>2. CASE snap = {}
  <2>1. UNCHANGED route /\ fate' = [fate EXCEPT ![NextPost(l)] = "rejected"]
    BY <1>2 DEF LoadSnapshot, Posted
  <2>2. \A i \in IDs, n \in 1..JobsPerKey : ~Holds(i, <<k, n>>)
    BY <1>1, <1>2 DEF KeyInv, HomeInv
  <2>3. HomeInv(k)'
    <3>1. \A n \in 1..JobsPerKey : fate'[<<k, n>>] # "accepted"
      <4>1. \A n \in 1..JobsPerKey : <<k, n>> \in Jobs /\ fate[<<k, n>>] # "accepted"
        BY <1>1, <2>2 DEF KeyInv, HomeInv, Jobs
      <4>2. QED
        BY <2>1, <4>1 DEF CoreInv, TypeOK
    <3>2. QED
      BY <1>1, <2>2, <3>1 DEF HomeInv, Holds
  <2>4. RouteInv(k)' /\ QueueInv(k)'
    BY <1>1, <1>2, <2>1 DEF KeyInv, RouteInv, QueueInv
  <2>5. QED
    BY <2>3, <2>4 DEF KeyInv
<1>3. CASE snap # {}
  <2>1. route' = [route EXCEPT ![l] = Get(snap, l)] /\ UNCHANGED fate
    BY <1>3 DEF LoadSnapshot
  <2>2. Get(snap, k)' = Get(snap, k)
    BY <1>1 DEF Get, JumpHash, Rank
  <2>3. HomeInv(k)' /\ QueueInv(k)'
    BY <1>1, <2>1, <2>2, ZenonT(40) DEF KeyInv, HomeInv, QueueInv, Holds
  <2>4. RouteInv(k)'
    BY <1>1, <1>3, <2>1, <2>2 DEF KeyInv, RouteInv, CoreInv, TypeOK
  <2>5. QED
    BY <2>3, <2>4 DEF KeyInv
<1>4. QED
  BY <1>2, <1>3

\* What an appended job changes.
LEMMA AppendFacts ==
    ASSUME NEW q \in Seq(Jobs), NEW j \in Jobs
    PROVE  /\ Len(q) \in Nat /\ Len(Append(q, j)) = Len(q) + 1
           /\ \A p \in 1..Len(q) : Append(q, j)[p] = q[p]
           /\ Append(q, j)[Len(q) + 1] = j
           /\ \A p \in 1..(Len(q) + 1) : p \in 1..Len(q) \/ p = Len(q) + 1
  OBVIOUS

\* SubmitJob queues the job behind all of its key, at their worker.
LEMMA SubmitOrder ==
    ASSUME CoreInv, CountInv, OrderInv, NEW l \in Keys, SubmitJob(l), NEW k \in Keys \ torn
    PROVE  KeyInv(k)'
<1> DEFINE w == route[l]
           j == NextPost(l)
<1>1. /\ KeyInv(k) /\ UNCHANGED <<cur, wstate, snap>> /\ route' = [route EXCEPT ![l] = NoWorker]
      /\ w # NoWorker
  BY DEF OrderInv, KeyInv, SubmitJob, pool
<1>2. w \in IDs /\ posted[l] < JobsPerKey
  BY <1>1 DEF CoreInv, TypeOK, CountInv, RoomInv
<1>3. j \in Jobs /\ fate[j] = "none" /\ posted[l] \in Nat
  BY <1>2, PostFacts DEF CoreInv, CountInv, TypeOK
<1>4. Get(snap, k)' = Get(snap, k)
  BY <1>1 DEF Get, JumpHash, Rank
<1>5. RouteInv(k)'
  BY <1>1, <1>4 DEF KeyInv, RouteInv, CoreInv, TypeOK
<1>6. \A n \in 1..JobsPerKey : <<k, n>> \in Jobs
  BY DEF Jobs
<1>7. CASE UNCHANGED wq /\ fate' = [fate EXCEPT ![j] = "rejected"]
  <2>1. \A n \in 1..JobsPerKey : fate'[<<k, n>>] = "accepted" <=> fate[<<k, n>>] = "accepted"
    BY <1>3, <1>6, <1>7 DEF CoreInv, TypeOK
  <2>2. HomeInv(k)'
    BY <1>1, <1>4, <1>7, <2>1 DEF KeyInv, HomeInv, Holds
  <2>3. QueueInv(k)'
    BY <1>1, <1>7 DEF KeyInv, QueueInv
  <2>4. QED
    BY <1>5, <2>2, <2>3 DEF KeyInv
<1>8. CASE /\ wstate[w] = "running" /\ wq' = [wq EXCEPT ![w] = Append(@, j)]
           /\ fate' = [fate EXCEPT ![j] = "accepted"]
  <2>1. wq[w] \in Seq(Jobs) /\ \A i \in IDs \ {w} : wq'[i] = wq[i]
    BY <1>2, <1>8 DEF CoreInv, TypeOK
  <2>2. wq'[w] = Append(wq[w], j)
    BY <1>2, <1>8 DEF CoreInv, TypeOK
  <2>3. /\ Len(wq[w]) \in Nat /\ Len(wq'[w]) = Len(wq[w]) + 1
        /\ \A p \in 1..Len(wq[w]) : wq'[w][p] = wq[w][p]
        /\ wq'[w][Len(wq[w]) + 1] = j
        /\ \A p \in 1..Len(wq'[w]) : p \in 1..Len(wq[w]) \/ p = Len(wq[w]) + 1
    BY <1>3, <2>1, <2>2, AppendFacts
  <2>4. \A i \in IDs, n \in 1..JobsPerKey :
          Holds(i, <<k, n>>)' <=> Holds(i, <<k, n>>) \/ (i = w /\ <<k, n>> = j)
    <3> TAKE i \in IDs, n \in 1..JobsPerKey
    <3>1. CASE i # w
      BY <1>1, <2>1, <3>1 DEF Holds
    <3>2. CASE i = w
      <4>1. Len(wq[w]) + 1 \in 1..Len(wq'[w]) /\ \A p \in 1..Len(wq[w]) : p \in 1..Len(wq'[w])
        BY <2>3
      <4>2. QED
        BY <1>1, <2>3, <3>2, <4>1 DEF Holds
    <3>3. QED
      BY <3>1, <3>2
  <2>5. \A n \in 1..JobsPerKey :
          fate'[<<k, n>>] = "accepted" <=> fate[<<k, n>>] = "accepted" \/ <<k, n>> = j
    BY <1>3, <1>6, <1>8 DEF CoreInv, TypeOK
  <2>6. k = l => snap # {} /\ w = Get(snap, k)
    BY <1>1, <1>8 DEF KeyInv, RouteInv
  <2>7. \A n \in 1..JobsPerKey : <<k, n>> = j => k = l
    BY DEF NextPost
  <2>8. HomeInv(k)'
    BY <1>1, <1>2, <1>4, <2>4, <2>5, <2>6, <2>7 DEF KeyInv, HomeInv
  <2>9. ASSUME NEW m \in 1..JobsPerKey, NEW n \in 1..JobsPerKey, Holds(w, <<k, m>>), <<k, n>> = j
        PROVE  m < n
    <3>1. fate[<<k, m>>] = "accepted"
      BY <1>1, <1>2, <2>9 DEF KeyInv, HomeInv
    <3>2. ~(m > posted[k])
      BY <3>1 DEF CountInv, NumberInv
    <3>3. n = posted[k] + 1 /\ k = l
      BY <2>9 DEF NextPost
    <3>4. QED
      BY <1>3, <3>2, <3>3
  <2>10. QueueInv(k)'
    <3> SUFFICES ASSUME NEW i \in IDs, NEW m \in 1..JobsPerKey, NEW n \in 1..JobsPerKey,
                        NEW q \in 1..Len(wq'[i]), wq'[i][q] = <<k, n>>
                 PROVE  /\ cur[i] = <<k, m>> => m < n
                        /\ \A p \in 1..(q - 1) : wq'[i][p] = <<k, m>> => m < n
      BY <1>1 DEF QueueInv
    <3>1. CASE i # w
      BY <1>1, <2>1, <3>1 DEF KeyInv, QueueInv
    <3>2. CASE i = w /\ q \in 1..Len(wq[w])
      <4>1. \A p \in 1..(q - 1) : p \in 1..Len(wq[w])
        BY <2>3, <3>2
      <4>2. wq[w][q] = <<k, n>> /\ \A p \in 1..(q - 1) : wq'[w][p] = wq[w][p]
        BY <2>3, <3>2, <4>1
      <4>3. QED
        BY <1>1, <1>2, <3>2, <4>2, ZenonT(40) DEF KeyInv, QueueInv
    <3>3. CASE i = w /\ q = Len(wq[w]) + 1
      <4>1. \A p \in 1..(q - 1) : p \in 1..Len(wq[w])
        BY <2>3, <3>3
      <4>2. <<k, n>> = j /\ \A p \in 1..(q - 1) : wq'[w][p] = wq[w][p]
        BY <2>3, <3>3, <4>1
      <4>3. QED
        BY <2>9, <3>3, <4>1, <4>2 DEF Holds
    <3>4. QED
      BY <2>3, <3>1, <3>2, <3>3
  <2>11. QED
    BY <1>5, <2>8, <2>10 DEF KeyInv
<1>9. QED
  BY <1>7, <1>8 DEF SubmitJob, Posted

\* What a worker that takes its first job leaves behind.
LEMMA TailFacts ==
    ASSUME NEW q \in Seq(Jobs), q # <<>>
    PROVE  /\ Len(q) \in Nat /\ 1 \in 1..Len(q) /\ Head(q) = q[1] /\ Len(Tail(q)) \in Nat
           /\ \A p \in 1..Len(Tail(q)) : p + 1 \in 1..Len(q) /\ Tail(q)[p] = q[p + 1]
           /\ \A p \in 1..Len(q) : p = 1 \/ (p - 1 \in 1..Len(Tail(q)) /\ Tail(q)[p - 1] = q[p])
<1>1. /\ Len(q) \in Nat /\ Len(q) # 0 /\ Head(q) = q[1] /\ Len(Tail(q)) = Len(q) - 1
      /\ \A p \in 1..Len(Tail(q)) : Tail(q)[p] = q[p + 1]
  OBVIOUS
<1>2. \A p \in 1..Len(q) : p = 1 \/ (p - 1 \in 1..Len(Tail(q)) /\ (p - 1) + 1 = p)
  BY <1>1
<1>3. QED
  BY <1>1, <1>2

\* A worker takes the first job, and a job that ends is the first of its key.
LEMMA WorkOrder ==
    ASSUME CoreInv, OrderInv, NEW w \in IDs, Worker(w), NEW k \in Keys \ torn
    PROVE  KeyInv(k)'
<1>1. KeyInv(k) /\ UNCHANGED <<snap, route>>
  BY DEF OrderInv, KeyInv, Worker, TakeJob, ExecJob, ExitWorker, pool, posters
<1>2. Get(snap, k)' = Get(snap, k)
  BY <1>1 DEF Get, JumpHash, Rank
<1>3. \A n \in 1..JobsPerKey : <<k, n>> \in Jobs /\ <<k, n>> # NoJob
  BY ConstantsAssumption DEF Jobs
<1>4. \A n \in 1..JobsPerKey, i \in IDs : Holds(i, <<k, n>>) => i = Get(snap, k) /\ fate[<<k, n>>] = "accepted" /\ snap # {}
  BY <1>1 DEF KeyInv, HomeInv
<1>5. CASE ExitWorker(w)
  BY <1>1, <1>5, KeyKept DEF ExitWorker, CoreInv, TypeOK
<1>6. CASE ExecJob(w)
  <2>1. /\ cur[w] \in Jobs /\ fate' = [fate EXCEPT ![cur[w]] = "ended"] /\ cur' = [cur EXCEPT ![w] = NoJob]
        /\ UNCHANGED <<wstate, wq>>
    BY <1>6 DEF ExecJob, CoreInv, TypeOK
  <2>2. ASSUME NEW n \in 1..JobsPerKey, cur[w] = <<k, n>>, NEW i \in IDs PROVE ~Holds(i, <<k, n>>)'
    <3>1. Holds(w, <<k, n>>) /\ w = Get(snap, k)
      BY <1>4, <2>2 DEF Holds
    <3>2. CASE i = w
      <4>1. \A q \in 1..Len(wq[w]) : wq[w][q] # <<k, n>>
        BY <1>1, <2>2 DEF KeyInv, QueueInv
      <4>2. QED
        BY <1>3, <2>1, <3>2, <4>1 DEF Holds, CoreInv, TypeOK
    <3>3. CASE i # w
      <4>1. ~Holds(i, <<k, n>>)
        BY <1>4, <3>1, <3>3
      <4>2. QED
        BY <2>1, <3>3, <4>1 DEF Holds, CoreInv, TypeOK
    <3>4. QED
      BY <3>2, <3>3
  <2>3. ASSUME NEW n \in 1..JobsPerKey, cur[w] # <<k, n>>
        PROVE  /\ fate'[<<k, n>>] = fate[<<k, n>>]
               /\ \A i \in IDs : Holds(i, <<k, n>>)' <=> Holds(i, <<k, n>>)
    BY <1>3, <2>1, <2>3 DEF Holds, CoreInv, TypeOK
  <2>4. \A n \in 1..JobsPerKey : cur[w] = <<k, n>> => fate'[<<k, n>>] = "ended"
    BY <2>1 DEF CoreInv, TypeOK
  <2>5. HomeInv(k)'
    <3> SUFFICES ASSUME NEW n \in 1..JobsPerKey
                 PROVE  /\ \A i \in IDs : Holds(i, <<k, n>>)' =>
                            fate'[<<k, n>>] = "accepted" /\ snap' # {} /\ i = Get(snap, k)'
                        /\ fate'[<<k, n>>] = "accepted" => \E i \in IDs : Holds(i, <<k, n>>)'
      BY DEF HomeInv
    <3>1. CASE cur[w] = <<k, n>>
      BY <2>2, <2>4, <3>1
    <3>2. CASE cur[w] # <<k, n>>
      BY <1>1, <1>2, <2>3, <3>2 DEF KeyInv, HomeInv
    <3>3. QED
      BY <3>1, <3>2
  <2>6. RouteInv(k)'
    BY <1>1, <1>2, <2>1 DEF KeyInv, RouteInv
  <2>7. QueueInv(k)'
    <3>1. \A i \in IDs, m \in 1..JobsPerKey : cur'[i] = <<k, m>> => cur[i] = <<k, m>>
      BY <1>3, <2>1 DEF CoreInv, TypeOK
    <3>2. QED
      BY <1>1, <2>1, <3>1 DEF KeyInv, QueueInv
  <2>8. QED
    BY <2>5, <2>6, <2>7 DEF KeyInv
<1>7. CASE TakeJob(w)
  <2> DEFINE h == Head(wq[w])
  <2>1. /\ cur[w] = NoJob /\ wq[w] # <<>> /\ wq[w] \in Seq(Jobs) /\ UNCHANGED wstate
        /\ wq' = [wq EXCEPT ![w] = Tail(wq[w])]
        /\ \/ cur' = [cur EXCEPT ![w] = h] /\ UNCHANGED fate
           \/ fate' = [fate EXCEPT ![h] = "ended"] /\ UNCHANGED cur
    BY <1>7 DEF TakeJob, CoreInv, TypeOK
  <2>2. /\ Len(wq[w]) \in Nat /\ 1 \in 1..Len(wq[w]) /\ h = wq[w][1] /\ Len(Tail(wq[w])) \in Nat
        /\ \A p \in 1..Len(Tail(wq[w])) : p + 1 \in 1..Len(wq[w]) /\ Tail(wq[w])[p] = wq[w][p + 1]
        /\ \A p \in 1..Len(wq[w]) : p = 1 \/ (p - 1 \in 1..Len(Tail(wq[w])) /\ Tail(wq[w])[p - 1] = wq[w][p])
    BY <2>1, TailFacts
  <2>3. wq'[w] = Tail(wq[w]) /\ \A i \in IDs \ {w} : wq'[i] = wq[i] /\ cur'[i] = cur[i]
    BY <2>1 DEF CoreInv, TypeOK
  <2>4. ASSUME NEW n \in 1..JobsPerKey, h = <<k, n>>
        PROVE  \A p \in 1..Len(wq'[w]) : \A m \in 1..JobsPerKey : wq'[w][p] = <<k, m>> => n < m
    <3> TAKE p \in 1..Len(wq'[w])
    <3> TAKE m \in 1..JobsPerKey
    <3> HAVE wq'[w][p] = <<k, m>>
    <3>1. p + 1 \in 1..Len(wq[w]) /\ wq[w][p + 1] = <<k, m>> /\ 1 \in 1..((p + 1) - 1)
      BY <2>2, <2>3
    <3>2. wq[w][1] = <<k, n>>
      BY <2>2, <2>4
    <3>3. QED
      BY <1>1, <3>1, <3>2 DEF KeyInv, QueueInv
  <2>5. \A n \in 1..JobsPerKey : h # <<k, n>> =>
          \A i \in IDs : Holds(i, <<k, n>>)' <=> Holds(i, <<k, n>>)
    <3> TAKE n \in 1..JobsPerKey
    <3> HAVE h # <<k, n>>
    <3> TAKE i \in IDs
    <3>1. CASE i # w
      BY <2>3, <3>1 DEF Holds
    <3>2. CASE i = w
      <4>1. cur'[w] # <<k, n>> /\ cur[w] # <<k, n>>
        BY <1>3, <2>1 DEF CoreInv, TypeOK
      <4>2. (\E p \in 1..Len(wq'[w]) : wq'[w][p] = <<k, n>>) <=> (\E p \in 1..Len(wq[w]) : wq[w][p] = <<k, n>>)
        <5>1. ASSUME NEW p \in 1..Len(wq'[w]), wq'[w][p] = <<k, n>> PROVE \E r \in 1..Len(wq[w]) : wq[w][r] = <<k, n>>
          <6>1. p \in 1..Len(Tail(wq[w])) /\ Tail(wq[w])[p] = <<k, n>>
            BY <2>3, <5>1
          <6>2. p + 1 \in 1..Len(wq[w]) /\ wq[w][p + 1] = <<k, n>>
            BY <2>2, <6>1
          <6>3. QED
            BY <6>2
        <5>2. ASSUME NEW p \in 1..Len(wq[w]), wq[w][p] = <<k, n>> PROVE \E r \in 1..Len(wq'[w]) : wq'[w][r] = <<k, n>>
          <6>1. p # 1
            BY <2>2, <5>2
          <6>2. p - 1 \in 1..Len(wq'[w]) /\ wq'[w][p - 1] = <<k, n>>
            BY <2>2, <2>3, <5>2, <6>1
          <6>3. QED
            BY <6>2
        <5>3. QED
          BY <5>1, <5>2
      <4>3. QED
        BY <3>2, <4>1, <4>2 DEF Holds
    <3>3. QED
      BY <3>1, <3>2
  <2>6. HomeInv(k)'
    <3> SUFFICES ASSUME NEW n \in 1..JobsPerKey
                 PROVE  /\ \A i \in IDs : Holds(i, <<k, n>>)' =>
                            fate'[<<k, n>>] = "accepted" /\ snap' # {} /\ i = Get(snap, k)'
                        /\ fate'[<<k, n>>] = "accepted" => \E i \in IDs : Holds(i, <<k, n>>)'
      BY DEF HomeInv
    <3>1. CASE h # <<k, n>>
      <4>1. fate'[<<k, n>>] = fate[<<k, n>>]
        BY <1>3, <2>1, <3>1 DEF CoreInv, TypeOK
      <4>2. QED
        BY <1>1, <1>2, <2>5, <3>1, <4>1 DEF KeyInv, HomeInv
    <3>2. CASE h = <<k, n>>
      <4>1. Holds(w, <<k, n>>) /\ w = Get(snap, k) /\ fate[<<k, n>>] = "accepted" /\ snap # {}
        BY <1>4, <2>2, <3>2 DEF Holds
      <4>2. \A i \in IDs \ {w} : ~Holds(i, <<k, n>>)'
        BY <1>4, <2>3, <4>1 DEF Holds
      <4>3. CASE cur' = [cur EXCEPT ![w] = h] /\ UNCHANGED fate
        <5>1. Holds(w, <<k, n>>)'
          BY <3>2, <4>3 DEF Holds, CoreInv, TypeOK
        <5>2. QED
          BY <1>1, <1>2, <4>1, <4>2, <4>3, <5>1
      <4>4. CASE fate' = [fate EXCEPT ![h] = "ended"] /\ UNCHANGED cur
        <5>1. fate'[<<k, n>>] = "ended"
          BY <1>3, <3>2, <4>4 DEF CoreInv, TypeOK
        <5>2. \A p \in 1..Len(wq'[w]) : wq'[w][p] # <<k, n>>
          BY <2>4, <3>2
        <5>3. ~Holds(w, <<k, n>>)'
          BY <1>3, <2>1, <4>4, <5>2 DEF Holds
        <5>4. QED
          BY <4>2, <5>1, <5>3
      <4>5. QED
        BY <2>1, <4>3, <4>4
    <3>3. QED
      BY <3>1, <3>2
  <2>7. RouteInv(k)'
    BY <1>1, <1>2, <2>1 DEF KeyInv, RouteInv
  <2>8. QueueInv(k)'
    <3> SUFFICES ASSUME NEW i \in IDs, NEW m \in 1..JobsPerKey, NEW n \in 1..JobsPerKey,
                        NEW q \in 1..Len(wq'[i]), wq'[i][q] = <<k, n>>
                 PROVE  /\ cur'[i] = <<k, m>> => m < n
                        /\ \A p \in 1..(q - 1) : wq'[i][p] = <<k, m>> => m < n
      BY DEF QueueInv
    <3>1. CASE i # w
      BY <1>1, <2>3, <3>1, SMTT(30) DEF KeyInv, QueueInv
    <3>2. CASE i = w
      <4>1. cur'[w] = <<k, m>> => m < n
        <5>1. cur'[w] = <<k, m>> => h = <<k, m>>
          BY <1>3, <2>1 DEF CoreInv, TypeOK
        <5>2. QED
          BY <2>4, <3>2, <5>1
      <4>2. q + 1 \in 1..Len(wq[w]) /\ wq[w][q + 1] = <<k, n>>
        BY <2>2, <2>3, <3>2
      <4>3. \A p \in 1..(q - 1) : p + 1 \in 1..((q + 1) - 1) /\ wq'[w][p] = wq[w][p + 1]
        <5>1. Len(wq'[w]) \in Nat /\ q \in 1..Len(wq'[w])
          BY <2>2, <2>3, <3>2
        <5>2. \A p \in 1..(q - 1) : p + 1 \in 1..((q + 1) - 1) /\ p \in 1..Len(wq'[w])
          BY <5>1
        <5>3. QED
          BY <2>2, <2>3, <5>2
      <4>4. \A p \in 1..(q - 1) : wq'[w][p] = <<k, m>> => m < n
        BY <1>1, <4>2, <4>3, ZenonT(40) DEF KeyInv, QueueInv
      <4>5. QED
        BY <3>2, <4>1, <4>4
    <3>3. QED
      BY <3>1, <3>2
  <2>9. QED
    BY <2>6, <2>7, <2>8 DEF KeyInv
<1>8. QED
  BY <1>5, <1>6, <1>7 DEF Worker

\* An expansion leaves a key alone, or finds nothing of it in flight, or tears it.
LEMMA ExpandOrder ==
    ASSUME CoreInv, OrderInv, NEW n \in MinWorkers..MaxWorkers, Expand(n), NEW k \in Keys \ torn'
    PROVE  KeyInv(k)'
<1>1. /\ UNCHANGED <<wq, cur, fate, route>> /\ torn' = torn \cup TornBy(snap') /\ snap # {} /\ snap' # {}
      /\ \A i \in IDs : wstate[i] = "exited" => wstate'[i] = "exited"
  <2>1. \A i \in IDs : wstate[i] = "exited" => i < nextID /\ i \in Nat /\ nextID \in Nat
    BY SnapFacts, ConstantsAssumption DEF CoreInv, TypeOK
  <2>2. \A i \in IDs : wstate[i] = "exited" => i \notin nextID..(nextID + n - workerCount - 1)
    BY <2>1
  <2>3. QED
    BY <2>2 DEF Expand, posters
<1>2. k \in Keys \ torn /\ KeyInv(k)
  BY <1>1 DEF OrderInv, KeyInv
<1>3. QueueInv(k)'
  BY <1>1, <1>2 DEF KeyInv, QueueInv
<1>4. CASE Get(snap', k) = Get(snap, k)
  <2>1. Get(snap, k)' = Get(snap, k)
    <3>1. Get(snap, k)' = Get(snap', k)
      BY DEF Get, JumpHash, Rank
    <3>2. QED
      BY <1>4, <3>1
  <2>2. HomeInv(k)'
    BY <1>1, <1>2, <2>1 DEF KeyInv, HomeInv, Holds
  <2>3. RouteInv(k)'
    BY <1>1, <1>2, <2>1 DEF KeyInv, RouteInv, CoreInv, TypeOK
  <2>4. QED
    BY <1>3, <2>2, <2>3 DEF KeyInv
<1>5. CASE Get(snap', k) # Get(snap, k)
  <2>1. route[k] = NoWorker /\ \A m \in 1..JobsPerKey : fate[<<k, m>>] # "accepted"
    BY <1>1, <1>5 DEF TornBy
  <2>2. \A m \in 1..JobsPerKey, i \in IDs : ~Holds(i, <<k, m>>)
    BY <1>2, <2>1 DEF KeyInv, HomeInv
  <2>3. HomeInv(k)' /\ RouteInv(k)'
    BY <1>1, <2>1, <2>2 DEF HomeInv, RouteInv, Holds
  <2>4. QED
    BY <1>3, <2>3 DEF KeyInv
<1>6. QED
  BY <1>4, <1>5

\* A shrink takes its worker from a key only when it has drained.
LEMMA PublishOrder ==
    ASSUME CoreInv, OrderInv, ShrinkPublish, NEW k \in Keys \ torn
    PROVE  KeyInv(k)'
<1>1. /\ KeyInv(k) /\ UNCHANGED <<wq, cur, fate, route, wstate>> /\ snap' = snap \ removed
      /\ \A i \in removed : wstate[i] = "exited"
  BY DEF ShrinkPublish, OrderInv, KeyInv, workers, posters
<1>2. /\ newSize \in Nat \ {0} /\ newSize < Cardinality(snap)
      /\ removed = {i \in snap : Rank(snap, i) >= newSize}
  BY SnapFacts, ConstantsAssumption DEF ShrinkPublish, CoreInv, SizeInv, TypeOK
<1>3. snap' # {} /\ (Get(snap, k) \notin removed => Get(snap', k) = Get(snap, k))
  BY <1>1, <1>2, SnapFacts, ShrinkFacts DEF CoreInv
<1>4. \A i \in removed : wq[i] = <<>> /\ cur[i] = NoJob
  BY <1>1 DEF CoreInv, LifeInv, TypeOK
<1>5. \A i \in removed, m \in 1..JobsPerKey : ~Holds(i, <<k, m>>)
  BY <1>4, NothingHeld DEF CoreInv, TypeOK
<1>6. HomeInv(k)'
  <2>1. \A i \in IDs, m \in 1..JobsPerKey : Holds(i, <<k, m>>)' <=> Holds(i, <<k, m>>)
    BY <1>1 DEF Holds
  <2>2. QED
    BY <1>1, <1>3, <1>5, <2>1 DEF KeyInv, HomeInv
<1>7. RouteInv(k)'
  BY <1>1, <1>3 DEF KeyInv, RouteInv
<1>8. QueueInv(k)'
  BY <1>1 DEF KeyInv, QueueInv
<1>9. QED
  BY <1>6, <1>7, <1>8 DEF KeyInv

\* A stop drops the snapshot when all its workers have drained.
LEMMA WaitOrder ==
    ASSUME CoreInv, OrderInv, Wait, NEW k \in Keys \ torn
    PROVE  KeyInv(k)'
<1>1. /\ KeyInv(k) /\ UNCHANGED <<wq, cur, fate, route, wstate>> /\ closing = snap
      /\ \A i \in snap : wstate[i] = "exited"
  BY DEF Wait, OrderInv, KeyInv, workers, posters, CoreInv, LifeInv
<1>2. snap # {} => Get(snap, k) \in snap
  BY SnapFacts, GetFacts DEF CoreInv
<1>3. \A i \in snap : wq[i] = <<>> /\ cur[i] = NoJob
  BY <1>1 DEF CoreInv, LifeInv, TypeOK
<1>4. \A i \in snap, m \in 1..JobsPerKey : ~Holds(i, <<k, m>>)
  BY <1>3, NothingHeld DEF CoreInv, TypeOK
<1>5. \A i \in IDs, m \in 1..JobsPerKey : ~Holds(i, <<k, m>>)
  BY <1>1, <1>2, <1>4 DEF KeyInv, HomeInv
<1>6. HomeInv(k)'
  BY <1>1, <1>5 DEF KeyInv, HomeInv, Holds
<1>7. RouteInv(k)' /\ QueueInv(k)'
  BY <1>1, <1>2 DEF KeyInv, RouteInv, QueueInv
<1>8. QED
  BY <1>6, <1>7 DEF KeyInv

-----------------------------------------------------------------------------
LEMMA InitPoolInv == Init => PoolInv
<1> SUFFICES ASSUME Init PROVE PoolInv
  OBVIOUS
<1>1. CoreInv
  BY InitCore
<1>2. CountInv
  <2>1. \A k \in Keys, n \in 1..JobsPerKey : <<k, n>> \in Jobs
    BY DEF Jobs
  <2>2. NumberInv
    <3>1. \A n \in 1..JobsPerKey : n > 0
      BY ConstantsAssumption
    <3>2. QED
      BY <2>1, <3>1 DEF Init, NumberInv
  <2>3. RoomInv /\ HeldInv
    BY DEF Init, RoomInv, HeldInv
  <2>4. QED
    BY <2>2, <2>3 DEF CountInv
<1>3. OrderInv
  <2>1. \A k \in Keys, n \in 1..JobsPerKey : <<k, n>> \in Jobs /\ <<k, n>> # NoJob
    BY ConstantsAssumption DEF Jobs
  <2>2. \A k \in Keys, n \in 1..JobsPerKey, i \in IDs : ~Holds(i, <<k, n>>)
    BY <2>1 DEF Init, Holds
  <2>3. \A k \in Keys : HomeInv(k)
    BY <2>1, <2>2 DEF Init, HomeInv
  <2>4. \A k \in Keys : RouteInv(k) /\ QueueInv(k)
    BY DEF Init, RouteInv, QueueInv
  <2>5. QED
    BY <2>3, <2>4 DEF OrderInv
<1>4. QED
  BY <1>1, <1>2, <1>3 DEF PoolInv, CoreInv

LEMMA StepPoolInv == PoolInv /\ [Next]_vars => PoolInv'
<1> SUFFICES ASSUME PoolInv, [Next]_vars PROVE PoolInv'
  OBVIOUS
<1>0. CoreInv /\ CountInv /\ OrderInv /\ TypeOK
  BY DEF PoolInv, CoreInv
<1> SUFFICES CoreInv' /\ CountInv' /\ \A k \in Keys \ torn' : KeyInv(k)'
  BY DEF PoolInv, CoreInv, OrderInv, KeyInv
<1>1. ASSUME NEW l \in Keys, Poster(l) PROVE CoreInv' /\ CountInv' /\ \A k \in Keys \ torn' : KeyInv(k)'
  <2>1. torn' = torn
    BY <1>1 DEF Poster, LoadSnapshot, SubmitJob, pool
  <2>2. QED
    BY <1>0, <1>1, <2>1, LoadCore, SubmitCore, LoadOrder, SubmitOrder DEF Poster
<1>2. ASSUME NEW i \in IDs, Worker(i) PROVE CoreInv' /\ CountInv' /\ \A k \in Keys \ torn' : KeyInv(k)'
  <2>1. torn' = torn
    BY <1>2 DEF Worker, TakeJob, ExecJob, ExitWorker, pool
  <2>2. QED
    BY <1>0, <1>2, <2>1, WorkCore, WorkOrder
<1>3. ASSUME NEW n \in MinWorkers..MaxWorkers, Expand(n)
      PROVE  CoreInv' /\ CountInv' /\ \A k \in Keys \ torn' : KeyInv(k)'
  <2>1. UNCHANGED <<posters, wq, cur, fate>>
    BY <1>3 DEF Expand
  <2>2. QED
    BY <1>0, <1>3, <2>1, ExpandCore, RestCount, ExpandOrder
<1>4. ASSUME NEW n \in MinWorkers..MaxWorkers, BeginShrink(n)
      PROVE  CoreInv' /\ CountInv' /\ \A k \in Keys \ torn' : KeyInv(k)'
  <2>1. UNCHANGED <<posters, wq, cur, fate, torn, snap, route, wstate>>
    BY <1>4 DEF BeginShrink, pool, workers, posters
  <2>2. QED
    BY <1>0, <1>4, <2>1, BeginShrinkCore, RestCount, KeyKept DEF OrderInv, KeyInv
<1>5. CASE Resizing
  <2>1. UNCHANGED <<posters, wq, cur, fate, torn, route>>
    BY <1>5 DEF Resizing, ShrinkPublish, ScalerExit, ShrinkStop, pool, workers, posters
  <2>2. CASE ShrinkPublish
    BY <1>0, <1>5, <2>1, <2>2, ResizingCore, RestCount, PublishOrder
  <2>3. CASE ~ShrinkPublish
    <3>1. UNCHANGED snap /\ \A i \in IDs : wstate[i] = "exited" => wstate'[i] = "exited"
      BY <1>0, <1>5, <2>3 DEF Resizing, ScalerExit, ShrinkStop, pool, workers, TypeOK
    <3>2. QED
      BY <1>0, <1>5, <2>1, <3>1, ResizingCore, RestCount, KeyKept DEF OrderInv, KeyInv
  <2>4. QED
    BY <2>2, <2>3
<1>6. CASE Cancel \/ Stopping \/ Idle
  <2>1. UNCHANGED <<posters, wq, cur, fate, torn, route>>
    BY <1>6 DEF Cancel, Stopping, BeginStop, StopWorker, WaitSnapshot, Wait, Idle, vars, pool, workers, posters
  <2>2. CASE Wait
    BY <1>0, <1>6, <2>1, <2>2, StopCore, RestCount, WaitOrder
  <2>3. CASE ~Wait
    <3>1. UNCHANGED snap /\ \A i \in IDs : wstate[i] = "exited" => wstate'[i] = "exited"
      BY <1>0, <1>6, <2>3 DEF Cancel, Stopping, BeginStop, StopWorker, WaitSnapshot, Idle, vars, pool, workers, TypeOK
    <3>2. QED
      BY <1>0, <1>6, <2>1, <3>1, StopCore, RestCount, KeyKept DEF OrderInv, KeyInv
  <2>4. QED
    BY <2>2, <2>3
<1>7. CASE UNCHANGED vars
  <2>1. UNCHANGED <<posters, wq, cur, fate, torn, route, snap, wstate>>
    BY <1>7 DEF vars, pool, workers, posters
  <2>2. CoreInv'
    BY <1>0, <1>7 DEF CoreInv, TypeOK, SizeInv, LifeInv, vars, pool, workers, scaler, posters, stopper, Rank
  <2>3. QED
    BY <1>0, <2>1, <2>2, RestCount, KeyKept DEF OrderInv, KeyInv
<1>8. QED
  BY <1>1, <1>2, <1>3, <1>4, <1>5, <1>6, <1>7 DEF Next

LEMMA PoolInvHolds == Spec => []PoolInv
  BY InitPoolInv, StepPoolInv, PTL DEF Spec

\* Through every interleaving of resizes and stops the snapshot, the counter and the running
\* workers agree, and Stop leaves no worker behind, for any keys, any number of workers and any
\* scaling strategy (resizeWorkers, BeginStop, Wait).
THEOREM PoolSoundHolds == Spec => []PoolSound
<1>1. ASSUME PoolInv PROVE PoolSound
  <2>1. TypeOK /\ SizeInv /\ LifeInv
    BY <1>1 DEF PoolInv
  <2>2. SnapshotSound
    <3>1. snap # {} => Cardinality(snap) >= 1
      BY <2>1, SnapFacts
    <3>2. QED
      BY <2>1, <3>1, SnapFacts, ConstantsAssumption DEF SnapshotSound, SizeInv, LifeInv, TypeOK
  <2>3. NoWorkerLeaks
    BY <2>1 DEF NoWorkerLeaks, SizeInv, LifeInv
  <2>4. QED
    BY <2>1, <2>2, <2>3 DEF PoolSound
<1>2. QED
  BY <1>1, PoolInvHolds, PTL

\* The jobs of a key that no expansion tore are executed one at a time in the order they were
\* accepted, whatever worker the jump hash gives and whatever shrinks, stops and stale snapshots
\* meet (DispatchJob, jumpHash, resizeWorkers).
THEOREM KeyOrderHolds == Spec => []KeyOrder
<1>1. ASSUME PoolInv PROVE KeyOrder
  <2> SUFFICES ASSUME NEW k \in Keys \ torn, NEW i \in IDs, NEW n \in 1..JobsPerKey, cur[i] = <<k, n>>,
                      NEW m \in 1..(n - 1), fate[<<k, m>>] = "accepted"
               PROVE  FALSE
    BY DEF KeyOrder, Ordered
  <2>1. KeyInv(k) /\ m \in 1..JobsPerKey /\ m < n /\ n \in Nat /\ m \in Nat
    BY <1>1, ConstantsAssumption DEF PoolInv, OrderInv, KeyInv
  <2>2. PICK x \in IDs : Holds(x, <<k, m>>)
    BY <2>1 DEF KeyInv, HomeInv
  <2>3. x = i
    BY <2>1, <2>2 DEF KeyInv, HomeInv, Holds
  <2>4. PICK q \in 1..Len(wq[i]) : wq[i][q] = <<k, m>>
    BY <2>1, <2>2, <2>3 DEF Holds
  <2>5. n < m
    BY <2>1, <2>4 DEF KeyInv, QueueInv
  <2>6. QED
    BY <2>1, <2>5
<1>2. QED
  BY <1>1, PoolInvHolds, PTL

(***************************************************************************)
(* MpscQueue.                                                              *)
(***************************************************************************)
Values == Producers \X Nat

ListOK ==
    /\ succ \in [Nodes -> Nodes \cup {NoNode}] /\ val \in [Nodes -> Values \cup {NoValue}]
    /\ qhead \in Nodes /\ qtail \in Nodes /\ spare \subseteq Nodes /\ qlen \in Int
ProducersOK ==
    /\ ppc \in [Producers -> {"idle", "swap", "link", "count"}] /\ pushes \in [Producers -> Nat]
    /\ pnode \in [Producers -> Nodes \cup {NoNode}] /\ pprev \in [Producers -> Nodes \cup {NoNode}]
ConsumerOK ==
    /\ cpc \in {"idle", "load", "clear", "put", "count"} /\ left \in Int
    /\ cnode \in Nodes \cup {NoNode}
HistoryOK == order \in Seq(Values) /\ out \in Seq(Values \cup {NoValue})
MpscTypeOK == ListOK /\ ProducersOK /\ ConsumerOK /\ HistoryOK

\* The numbers of the values not popped yet; the tail is the node of the last popped one.
Positions == Len(out)..Len(order)

\* The nodes of the list by position, from tail to head.  A node points to the next one or, where
\* its producer is at PushLink, to nothing.
Chain(c) ==
    /\ c[Len(out)] = qtail /\ c[Len(order)] = qhead
    /\ \A i, j \in Positions : c[i] = c[j] => i = j
    /\ \A i \in Positions : i > Len(out) => val[c[i]] = order[i]
    /\ \A i \in Positions : i < Len(order) => succ[c[i]] \in {c[i + 1], NoNode}
    /\ succ[qhead] = NoNode

\* A producer at PushLink has a gap of the list of its own.
Gap(c, p) ==
    \E i \in Positions : /\ i < Len(order) /\ pprev[p] = c[i] /\ pnode[p] = c[i + 1]
                         /\ succ[c[i]] = NoNode

\* What somebody else holds is not in the list.
Apart(c) ==
    \A i \in Positions : /\ c[i] \notin spare
                         /\ \A p \in Producers : ppc[p] = "swap" => c[i] # pnode[p]
                         /\ cpc \in {"clear", "put"} => c[i] # cnode

ChainInv ==
    \E c \in [Positions -> Nodes] :
        Chain(c) /\ Apart(c) /\ \A p \in Producers : ppc[p] = "link" => Gap(c, p)

\* Producers hold nodes of their own, and the consumer the one it left behind.
HoldInv ==
    /\ \A p \in Producers : ppc[p] = "swap" =>
        /\ pnode[p] \in Nodes \ spare /\ succ[pnode[p]] = NoNode
        /\ val[pnode[p]] = <<p, pushes[p]>>
        /\ cpc \in {"clear", "put"} => pnode[p] # cnode
    /\ \A p, q \in Producers :
        ppc[p] \in {"swap", "link"} /\ ppc[q] \in {"swap", "link"} /\ pnode[p] = pnode[q] => p = q
    /\ cpc \in {"clear", "put"} => cnode \in Nodes \ spare

PrefixInv == Len(out) <= Len(order) /\ \A i \in 1..Len(out) : out[i] = order[i]

MpscInv == MpscTypeOK /\ PrefixInv /\ HoldInv /\ ChainInv

-----------------------------------------------------------------------------
LEMMA MpscTyped == ASSUME MpscTypeOK, HoldInv, [MpscNext]_mpscVars PROVE MpscTypeOK'
<1> USE MpscAssumption
<1>1. CASE UNCHANGED mpscVars
  BY <1>1 DEF MpscTypeOK, ListOK, ProducersOK, ConsumerOK, HistoryOK, mpscVars, listVars, prodVars, consVars
<1>2. ASSUME NEW p \in Producers, PushAlloc(p) PROVE MpscTypeOK'
  <2>1. <<p, pushes[p] + 1>> \in Values
    BY DEF MpscTypeOK, ProducersOK, Values
  <2> QED
    BY <1>2, <2>1 DEF PushAlloc, MpscTypeOK, ListOK, ProducersOK, ConsumerOK, HistoryOK, consVars
<1>3. ASSUME NEW p \in Producers, PushSwap(p) PROVE MpscTypeOK'
  <2>1. <<p, pushes[p]>> \in Values
    BY DEF MpscTypeOK, ProducersOK, Values
  <2>2. HistoryOK'
    <3> DEFINE v == <<p, pushes[p]>>
    <3>1. v \in Values /\ order' = Append(order, v) /\ out' = out
      BY <1>3, <2>1 DEF PushSwap
    <3> HIDE DEF v
    <3> QED
      BY <3>1 DEF MpscTypeOK, HistoryOK
  <2>3. ListOK' /\ ProducersOK' /\ ConsumerOK'
    BY <1>3 DEF PushSwap, HoldInv, MpscTypeOK, ListOK, ProducersOK, ConsumerOK, consVars
  <2> QED
    BY <2>2, <2>3 DEF MpscTypeOK
<1>4. ASSUME NEW p \in Producers, PushLink(p) PROVE MpscTypeOK'
  BY <1>4 DEF PushLink, MpscTypeOK, ListOK, ProducersOK, ConsumerOK, HistoryOK, consVars
<1>5. ASSUME NEW p \in Producers, PushCount(p) PROVE MpscTypeOK'
  BY <1>5 DEF PushCount, MpscTypeOK, ListOK, ProducersOK, ConsumerOK, HistoryOK, consVars
<1>6. CASE CallPop
  BY <1>6 DEF CallPop, MpscTypeOK, ListOK, ProducersOK, ConsumerOK, HistoryOK, listVars, prodVars
<1>7. ASSUME NEW n \in BatchSizes, CallBatchPop(n) PROVE MpscTypeOK'
  BY <1>7 DEF CallBatchPop, MpscTypeOK, ListOK, ProducersOK, ConsumerOK, HistoryOK, listVars, prodVars
<1>8. CASE PopEmpty
  BY <1>8 DEF PopEmpty, MpscTypeOK, ListOK, ProducersOK, ConsumerOK, HistoryOK, listVars, prodVars
<1>9. CASE PopAdvance
  <2>1. val[succ[qtail]] \in Values \cup {NoValue}
    BY <1>9 DEF PopAdvance, MpscTypeOK, ListOK
  <2>2. HistoryOK'
    <3> DEFINE v == val[succ[qtail]]
    <3>1. v \in Values \cup {NoValue} /\ out' = Append(out, v) /\ order' = order
      BY <1>9, <2>1 DEF PopAdvance
    <3> HIDE DEF v
    <3> QED
      BY <3>1 DEF MpscTypeOK, HistoryOK
  <2>3. ListOK' /\ ProducersOK' /\ ConsumerOK'
    BY <1>9 DEF PopAdvance, MpscTypeOK, ListOK, ProducersOK, ConsumerOK, prodVars
  <2> QED
    BY <2>2, <2>3 DEF MpscTypeOK
<1>10. CASE PopClear
  BY <1>10 DEF PopClear, MpscTypeOK, ListOK, ProducersOK, ConsumerOK, HistoryOK, prodVars
<1>11. CASE PopPut
  BY <1>11 DEF PopPut, HoldInv, MpscTypeOK, ListOK, ProducersOK, ConsumerOK, HistoryOK, prodVars
<1>12. CASE PopCount
  BY <1>12 DEF PopCount, MpscTypeOK, ListOK, ProducersOK, ConsumerOK, HistoryOK, prodVars
<1> QED
  BY <1>1, <1>2, <1>3, <1>4, <1>5, <1>6, <1>7, <1>8, <1>9, <1>10, <1>11, <1>12
  DEF MpscNext, Pushing, Popping

-----------------------------------------------------------------------------
(***************************************************************************)
(* The list and who holds what.                                            *)
(***************************************************************************)
Invs == PrefixInv /\ HoldInv /\ ChainInv

\* Steps that touch neither the list nor who holds a node.
LEMMA ListKept ==
    ASSUME Invs, UNCHANGED <<succ, val, qhead, qtail, spare, pnode, pprev, pushes, cnode, order, out>>,
           \A p \in Producers : ppc'[p] \in {"swap", "link"} => ppc'[p] = ppc[p],
           cpc' \in {"clear", "put"} => cpc \in {"clear", "put"}
    PROVE  Invs'
<1>1. PrefixInv'
  BY DEF Invs, PrefixInv
<1>2. HoldInv'
  BY DEF Invs, HoldInv
<1>3. ChainInv'
  <2>1. PICK c \in [Positions -> Nodes] :
            Chain(c) /\ Apart(c) /\ \A p \in Producers : ppc[p] = "link" => Gap(c, p)
    BY DEF Invs, ChainInv
  <2>2. c \in [Positions' -> Nodes]
    BY <2>1 DEF Positions
  <2>3. Chain(c)' /\ Apart(c)' /\ \A p \in Producers : ppc'[p] = "link" => Gap(c, p)'
    BY <2>1 DEF Chain, Apart, Gap, Positions
  <2> QED
    BY <2>2, <2>3 DEF ChainInv
<1> QED
  BY <1>1, <1>2, <1>3 DEF Invs

\* A node from the pool is in nobody's hands.
LEMMA AllocKept == ASSUME MpscTypeOK, Invs, NEW p \in Producers, PushAlloc(p) PROVE Invs'
<1> USE MpscAssumption
<1>1. PICK n \in spare :
        /\ spare' = spare \ {n}
        /\ pnode' = [pnode EXCEPT ![p] = n]
        /\ succ' = [succ EXCEPT ![n] = NoNode]
        /\ val' = [val EXCEPT ![n] = <<p, pushes[p] + 1>>]
  BY DEF PushAlloc
<1>2. /\ n \in Nodes /\ ppc[p] = "idle" /\ ppc' = [ppc EXCEPT ![p] = "swap"]
      /\ pushes' = [pushes EXCEPT ![p] = @ + 1]
      /\ UNCHANGED <<qhead, qtail, pprev, cpc, cnode, order, out>>
  BY <1>1 DEF PushAlloc, MpscTypeOK, ListOK, consVars
<1>3. PICK c \in [Positions -> Nodes] :
          Chain(c) /\ Apart(c) /\ \A q \in Producers : ppc[q] = "link" => Gap(c, q)
  BY DEF Invs, ChainInv
<1>4. \A i \in Positions : c[i] \in Nodes /\ c[i] # n
  BY <1>1, <1>3 DEF Apart
<1>5. \A q \in Producers : ppc[q] \in {"swap", "link"} => pnode[q] # n
  <2>1. ASSUME NEW q \in Producers, ppc[q] = "link" PROVE pnode[q] # n
    <3>1. PICK i \in Positions : i < Len(order) /\ pnode[q] = c[i + 1]
      BY <1>3, <2>1 DEF Gap
    <3>2. i + 1 \in Positions
      BY <3>1 DEF Positions, MpscTypeOK, HistoryOK
    <3> QED
      BY <3>1, <3>2, <1>4
  <2> QED
    BY <2>1, <1>1 DEF Invs, HoldInv
<1>6. PrefixInv'
  BY <1>2 DEF Invs, PrefixInv
<1>7. HoldInv'
  <2>1. ASSUME NEW q \in Producers, ppc'[q] = "swap"
        PROVE  /\ pnode'[q] \in Nodes \ spare' /\ succ'[pnode'[q]] = NoNode
               /\ val'[pnode'[q]] = <<q, pushes'[q]>>
               /\ cpc' \in {"clear", "put"} => pnode'[q] # cnode'
    <3>1. CASE q = p
      BY <1>1, <1>2, <3>1 DEF Invs, HoldInv, MpscTypeOK, ListOK, ProducersOK
    <3>2. CASE q # p
      BY <1>1, <1>2, <1>5, <2>1, <3>2 DEF Invs, HoldInv, MpscTypeOK, ListOK, ProducersOK
    <3> QED
      BY <3>1, <3>2
  <2>2. ASSUME NEW q \in Producers, NEW r \in Producers,
               ppc'[q] \in {"swap", "link"}, ppc'[r] \in {"swap", "link"}, pnode'[q] = pnode'[r]
        PROVE  q = r
    BY <1>1, <1>2, <1>5, <2>2 DEF Invs, HoldInv, MpscTypeOK, ProducersOK
  <2>3. cpc' \in {"clear", "put"} => cnode' \in Nodes \ spare'
    BY <1>1, <1>2 DEF Invs, HoldInv
  <2> QED
    BY <2>1, <2>2, <2>3 DEF HoldInv
<1>8. ChainInv'
  <2>1. c \in [Positions' -> Nodes]
    BY <1>2, <1>3 DEF Positions
  <2>2. Chain(c)'
    BY <1>1, <1>2, <1>3, <1>4 DEF Chain, Positions, MpscTypeOK, ListOK
  <2>3. Apart(c)'
    BY <1>1, <1>2, <1>3, <1>4 DEF Apart, Positions, MpscTypeOK, ProducersOK
  <2>4. ASSUME NEW q \in Producers, ppc'[q] = "link" PROVE Gap(c, q)'
    <3>1. q # p /\ ppc[q] = "link"
      BY <1>2, <2>4 DEF MpscTypeOK, ProducersOK
    <3>2. PICK i \in Positions : /\ i < Len(order) /\ pprev[q] = c[i] /\ pnode[q] = c[i + 1]
                                 /\ succ[c[i]] = NoNode
      BY <1>3, <3>1 DEF Gap
    <3>3. pprev'[q] = c[i] /\ pnode'[q] = c[i + 1] /\ succ'[c[i]] = NoNode
      BY <1>1, <1>2, <1>4, <3>1, <3>2 DEF MpscTypeOK, ListOK, ProducersOK
    <3>4. i \in Positions' /\ i < Len(order')
      BY <1>2, <3>2 DEF Positions
    <3> QED
      BY <3>3, <3>4 DEF Gap
  <2> QED
    BY <2>1, <2>2, <2>3, <2>4 DEF ChainInv
<1> QED
  BY <1>6, <1>7, <1>8 DEF Invs

\* The swap puts the producer's node at the end of the list, after a gap.
LEMMA SwapKept == ASSUME MpscTypeOK, Invs, NEW p \in Producers, PushSwap(p) PROVE Invs'
<1> USE MpscAssumption
<1> DEFINE n == pnode[p]
           v == <<p, pushes[p]>>
           last == Len(order) + 1
<1>1. /\ ppc[p] = "swap" /\ qhead' = n /\ pprev' = [pprev EXCEPT ![p] = qhead]
      /\ order' = Append(order, v) /\ ppc' = [ppc EXCEPT ![p] = "link"]
      /\ UNCHANGED <<succ, val, qtail, spare, pnode, pushes, cpc, cnode, out>>
  BY DEF PushSwap, consVars
<1>2. n \in Nodes /\ n \notin spare /\ succ[n] = NoNode /\ val[n] = v
  BY <1>1 DEF Invs, HoldInv
<1>3. /\ Len(out) \in Nat /\ Len(order) \in Nat /\ Len(out) <= Len(order) /\ v \in Values
      /\ order \in Seq(Values)
  BY DEF Invs, PrefixInv, MpscTypeOK, ProducersOK, HistoryOK, Values
<1>4. /\ Len(order') = last /\ order'[last] = v
      /\ \A i \in 1..Len(order) : order'[i] = order[i]
  <2> HIDE DEF v
  <2> QED
    BY <1>1, <1>3
<1>5. PICK c \in [Positions -> Nodes] :
          Chain(c) /\ Apart(c) /\ \A q \in Producers : ppc[q] = "link" => Gap(c, q)
  BY DEF Invs, ChainInv
<1>6. PICK d : d = [i \in Positions' |-> IF i = last THEN n ELSE c[i]]
  OBVIOUS
<1>7. Positions' = Len(out)..last /\ Positions = Len(out)..Len(order)
  BY <1>1, <1>4 DEF Positions
<1>8. /\ \A i \in Positions : i \in Positions' /\ i # last /\ d[i] = c[i] /\ c[i] \in Nodes /\ c[i] # n
      /\ d[last] = n /\ last \in Positions' /\ \A i \in Positions' : i \in Positions \/ i = last
  BY <1>1, <1>3, <1>5, <1>6, <1>7 DEF Apart
<1> HIDE DEF n, v
<1>9. PrefixInv'
  BY <1>1, <1>3, <1>4 DEF Invs, PrefixInv
<1>10. HoldInv'
  BY <1>1 DEF Invs, HoldInv, MpscTypeOK, ProducersOK
<1>11. ChainInv'
  <2>1. d \in [Positions' -> Nodes]
    BY <1>2, <1>6, <1>8
  <2>2. Chain(d)'
    <3>1. d[Len(out')] = qtail' /\ d[Len(order')] = qhead'
      BY <1>1, <1>3, <1>4, <1>5, <1>7, <1>8 DEF Chain
    <3>2. \A i, j \in Positions' : d[i] = d[j] => i = j
      BY <1>5, <1>8 DEF Chain
    <3>3. \A i \in Positions' : i > Len(out') => val'[d[i]] = order'[i]
      BY <1>1, <1>2, <1>3, <1>4, <1>5, <1>7, <1>8 DEF Chain
    <3>4. ASSUME NEW i \in Positions', i < Len(order') PROVE succ'[d[i]] \in {d[i + 1], NoNode}
      <4>1. i \in Positions
        BY <1>4, <1>8, <3>4
      <4>2. CASE i = Len(order)
        BY <1>1, <1>5, <1>8, <4>1, <4>2 DEF Chain
      <4>3. CASE i # Len(order)
        <5>1. i < Len(order) /\ i + 1 \in Positions
          BY <1>3, <1>7, <4>1, <4>3
        <5> QED
          BY <1>1, <1>5, <1>8, <4>1, <5>1 DEF Chain
      <4> QED
        BY <4>2, <4>3
    <3>5. succ'[qhead'] = NoNode
      BY <1>1, <1>2
    <3> QED
      BY <3>1, <3>2, <3>3, <3>4, <3>5 DEF Chain
  <2>3. Apart(d)'
    <3>1. ASSUME NEW q \in Producers, ppc'[q] = "swap" PROVE ppc[q] = "swap" /\ pnode[q] # n
      BY <1>1, <3>1 DEF Invs, HoldInv, MpscTypeOK, ProducersOK, n
    <3>2. cpc \in {"clear", "put"} => cnode # n
      BY <1>1 DEF Invs, HoldInv, n
    <3> QED
      BY <1>1, <1>2, <1>5, <1>8, <3>1, <3>2 DEF Apart
  <2>4. ASSUME NEW q \in Producers, ppc'[q] = "link" PROVE Gap(d, q)'
    <3>1. CASE q = p
      <4>1. /\ Len(order) \in Positions /\ Len(order) < Len(order')
            /\ pprev'[p] = c[Len(order)] /\ pnode'[p] = n /\ succ'[c[Len(order)]] = NoNode
        BY <1>1, <1>3, <1>4, <1>5, <1>7 DEF Chain, MpscTypeOK, ProducersOK, n
      <4> QED
        BY <1>8, <3>1, <4>1 DEF Gap
    <3>2. CASE q # p
      <4>1. ppc[q] = "link" /\ pprev'[q] = pprev[q] /\ pnode'[q] = pnode[q]
        BY <1>1, <2>4, <3>2 DEF MpscTypeOK, ProducersOK
      <4>2. PICK i \in Positions : /\ i < Len(order) /\ pprev[q] = c[i] /\ pnode[q] = c[i + 1]
                                   /\ succ[c[i]] = NoNode
        BY <1>5, <4>1 DEF Gap
      <4>3. i + 1 \in Positions /\ i < Len(order')
        BY <1>3, <1>4, <1>7, <4>2
      <4> QED
        BY <1>1, <1>8, <4>1, <4>2, <4>3 DEF Gap
    <3> QED
      BY <3>1, <3>2
  <2> QED
    BY <2>1, <2>2, <2>3, <2>4 DEF ChainInv
<1> QED
  BY <1>9, <1>10, <1>11 DEF Invs

\* The link closes the producer's own gap.
LEMMA LinkKept == ASSUME MpscTypeOK, Invs, NEW p \in Producers, PushLink(p) PROVE Invs'
<1> USE MpscAssumption
<1>1. /\ ppc[p] = "link" /\ ppc' = [ppc EXCEPT ![p] = "count"]
      /\ succ' = [succ EXCEPT ![pprev[p]] = pnode[p]]
      /\ UNCHANGED <<val, qhead, qtail, spare, pnode, pprev, pushes, cpc, cnode, order, out>>
  BY DEF PushLink, consVars
<1>2. PICK c \in [Positions -> Nodes] :
          Chain(c) /\ Apart(c) /\ \A q \in Producers : ppc[q] = "link" => Gap(c, q)
  BY DEF Invs, ChainInv
<1>3. PICK k \in Positions : /\ k < Len(order) /\ pprev[p] = c[k] /\ pnode[p] = c[k + 1]
                             /\ succ[c[k]] = NoNode
  BY <1>1, <1>2 DEF Gap
<1>4. /\ Len(out) \in Nat /\ Len(order) \in Nat /\ Positions = Len(out)..Len(order)
      /\ Positions' = Positions /\ k + 1 \in Positions /\ c[k] # qhead /\ c[k] \in Nodes
  BY <1>1, <1>2, <1>3 DEF Positions, MpscTypeOK, HistoryOK, Chain
<1>5. succ'[c[k]] = c[k + 1] /\ \A m \in Nodes : m # c[k] => succ'[m] = succ[m]
  BY <1>1, <1>3, <1>4 DEF MpscTypeOK, ListOK
<1>6. PrefixInv'
  BY <1>1 DEF Invs, PrefixInv
<1>7. HoldInv'
  <2>1. \A q \in Producers : ppc'[q] = "swap" => ppc[q] = "swap" /\ pnode[q] # c[k]
    BY <1>1, <1>2, <1>3 DEF Apart, MpscTypeOK, ProducersOK
  <2> QED
    BY <1>1, <1>5, <2>1 DEF Invs, HoldInv, MpscTypeOK, ProducersOK
<1>8. ChainInv'
  <2>1. Chain(c)'
    <3>1. succ'[qhead'] = NoNode
      BY <1>1, <1>2, <1>4, <1>5 DEF Chain, MpscTypeOK, ListOK
    <3>2. \A i \in Positions : i < Len(order) => succ'[c[i]] \in {c[i + 1], NoNode}
      BY <1>2, <1>3, <1>4, <1>5 DEF Chain
    <3> QED
      BY <1>1, <1>2, <1>4, <3>1, <3>2 DEF Chain
  <2>2. Apart(c)'
    BY <1>1, <1>2, <1>4 DEF Apart, MpscTypeOK, ProducersOK
  <2>3. ASSUME NEW q \in Producers, ppc'[q] = "link" PROVE Gap(c, q)'
    <3>1. q # p /\ ppc[q] = "link"
      BY <1>1, <2>3 DEF MpscTypeOK, ProducersOK
    <3>2. PICK i \in Positions : /\ i < Len(order) /\ pprev[q] = c[i] /\ pnode[q] = c[i + 1]
                                 /\ succ[c[i]] = NoNode
      BY <1>2, <3>1 DEF Gap
    <3>3. i # k
      BY <1>1, <1>3, <3>1, <3>2 DEF Invs, HoldInv
    <3>4. c[i] # c[k] /\ c[i] \in Nodes
      BY <1>2, <1>3, <3>2, <3>3 DEF Chain
    <3> QED
      BY <1>1, <1>4, <1>5, <3>2, <3>4 DEF Gap
  <2> QED
    BY <1>2, <1>4, <2>1, <2>2, <2>3 DEF ChainInv
<1> QED
  BY <1>6, <1>7, <1>8 DEF Invs

\* The consumer goes on to the next node, which holds the next value.
LEMMA AdvanceKept == ASSUME MpscTypeOK, Invs, PopAdvance PROVE Invs'
<1> USE MpscAssumption
<1> DEFINE first == Len(out) + 1
<1>1. /\ cpc = "load" /\ succ[qtail] # NoNode /\ qtail' = succ[qtail] /\ cnode' = qtail
      /\ out' = Append(out, val[succ[qtail]]) /\ cpc' = "clear"
      /\ UNCHANGED <<succ, val, qhead, spare, ppc, pnode, pprev, pushes, order>>
  BY DEF PopAdvance, prodVars
<1>2. PICK c \in [Positions -> Nodes] :
          Chain(c) /\ Apart(c) /\ \A q \in Producers : ppc[q] = "link" => Gap(c, q)
  BY DEF Invs, ChainInv
<1>3. /\ Len(out) \in Nat /\ Len(order) \in Nat /\ Positions = Len(out)..Len(order)
      /\ Len(out) <= Len(order) /\ out \in Seq(Values \cup {NoValue}) /\ order \in Seq(Values)
  BY DEF Invs, PrefixInv, Positions, MpscTypeOK, HistoryOK
<1>4. Len(out) < Len(order)
  BY <1>1, <1>2, <1>3 DEF Chain
<1>5. first \in Positions /\ succ[qtail] = c[first] /\ val[succ[qtail]] = order[first]
  <2>1. first \in Positions /\ Len(out) \in Positions /\ first > Len(out)
    BY <1>3, <1>4
  <2>2. qtail = c[Len(out)] /\ succ[c[Len(out)]] \in {c[first], NoNode}
    BY <1>2, <1>4, <2>1 DEF Chain
  <2>3. val[c[first]] = order[first]
    BY <1>2, <2>1 DEF Chain
  <2> QED
    BY <1>1, <2>1, <2>2, <2>3
<1>6. order[first] \in Values
  BY <1>3, <1>4
<1>7. /\ Len(out') = first /\ out'[first] = order[first]
      /\ \A i \in 1..Len(out) : out'[i] = out[i]
  BY <1>1, <1>3, <1>5, <1>6
<1>8. /\ Positions' = first..Len(order)
      /\ \A i \in Positions' : i \in Positions /\ i # Len(out)
  BY <1>1, <1>3, <1>7 DEF Positions
<1>9. PICK d : d = [i \in Positions' |-> c[i]]
  OBVIOUS
<1>10. d \in [Positions' -> Nodes] /\ \A i \in Positions' : d[i] = c[i] /\ c[i] # qtail
  BY <1>2, <1>3, <1>8, <1>9 DEF Chain
<1>11. PrefixInv'
  BY <1>1, <1>3, <1>4, <1>7 DEF Invs, PrefixInv
<1>12. HoldInv'
  <2>1. Len(out) \in Positions /\ c[Len(out)] = qtail
    BY <1>2, <1>3 DEF Chain
  <2>2. qtail \notin spare /\ \A q \in Producers : ppc[q] = "swap" => pnode[q] # qtail
    BY <1>2, <2>1 DEF Apart
  <2> QED
    BY <1>1, <2>2 DEF Invs, HoldInv, MpscTypeOK, ListOK
<1>13. ChainInv'
  <2>1. Chain(d)'
    <3>1. d[Len(out')] = qtail' /\ d[Len(order')] = qhead'
      BY <1>1, <1>2, <1>3, <1>4, <1>5, <1>7, <1>8, <1>10 DEF Chain
    <3>2. \A i, j \in Positions' : d[i] = d[j] => i = j
      BY <1>2, <1>8, <1>10 DEF Chain
    <3>3. ASSUME NEW i \in Positions', i > Len(out') PROVE val'[d[i]] = order'[i]
      <4>1. i \in Positions /\ i > Len(out) /\ d[i] = c[i]
        BY <1>3, <1>8, <1>10
      <4>2. val[c[i]] = order[i]
        BY <1>2, <4>1 DEF Chain
      <4> QED
        BY <1>1, <4>1, <4>2
    <3>4. ASSUME NEW i \in Positions', i < Len(order') PROVE succ'[d[i]] \in {d[i + 1], NoNode}
      <4>1. i + 1 \in Positions'
        BY <1>1, <1>3, <1>8, <3>4
      <4> QED
        BY <1>1, <1>2, <1>8, <1>10, <3>4, <4>1 DEF Chain
    <3> QED
      BY <1>1, <1>2, <3>1, <3>2, <3>3, <3>4 DEF Chain
  <2>2. Apart(d)'
    BY <1>1, <1>2, <1>8, <1>10 DEF Apart
  <2>3. ASSUME NEW q \in Producers, ppc'[q] = "link" PROVE Gap(d, q)'
    <3>1. PICK i \in Positions : /\ i < Len(order) /\ pprev[q] = c[i] /\ pnode[q] = c[i + 1]
                                 /\ succ[c[i]] = NoNode
      BY <1>1, <1>2, <2>3 DEF Gap
    <3>2. i # Len(out)
      BY <1>1, <1>2, <3>1 DEF Chain
    <3>3. i \in Positions' /\ i + 1 \in Positions'
      BY <1>3, <1>8, <3>1, <3>2
    <3> QED
      BY <1>1, <1>10, <3>1, <3>3 DEF Gap
  <2> QED
    BY <1>10, <2>1, <2>2, <2>3 DEF ChainInv
<1> QED
  BY <1>11, <1>12, <1>13 DEF Invs

\* The node left behind is cleared and given back while nobody else knows it.
LEMMA RecycleKept == ASSUME MpscTypeOK, Invs, PopClear \/ PopPut PROVE Invs'
<1>1. /\ cpc \in {"clear", "put"} /\ UNCHANGED <<qhead, qtail, ppc, pnode, pprev, pushes, cnode, order, out>>
      /\ cpc' \in {"put", "count"} /\ (cpc' = "put" => spare' = spare)
      /\ spare' \in {spare, spare \cup {cnode}}
      /\ \A m \in Nodes : m # cnode => succ'[m] = succ[m] /\ val'[m] = val[m]
  BY DEF PopClear, PopPut, prodVars, MpscTypeOK, ListOK
<1>2. cnode \in Nodes /\ \A q \in Producers : ppc[q] = "swap" => pnode[q] # cnode
  BY <1>1 DEF Invs, HoldInv
<1>3. PICK c \in [Positions -> Nodes] :
          Chain(c) /\ Apart(c) /\ \A q \in Producers : ppc[q] = "link" => Gap(c, q)
  BY DEF Invs, ChainInv
<1>4. /\ Positions' = Positions /\ \A i \in Positions : c[i] \in Nodes /\ c[i] # cnode
      /\ qhead # cnode
  <2>1. Positions' = Positions
    BY <1>1 DEF Positions
  <2>2. \A i \in Positions : c[i] \in Nodes /\ c[i] # cnode
    BY <1>1, <1>3 DEF Apart
  <2>3. Len(order) \in Positions
    BY DEF Positions, Invs, PrefixInv, MpscTypeOK, HistoryOK
  <2> QED
    BY <1>3, <2>1, <2>2, <2>3 DEF Chain
<1>5. PrefixInv'
  BY <1>1 DEF Invs, PrefixInv
<1>6. HoldInv'
  <2>1. ASSUME NEW p \in Producers, ppc'[p] = "swap"
        PROVE  /\ pnode'[p] \in Nodes \ spare' /\ succ'[pnode'[p]] = NoNode
               /\ val'[pnode'[p]] = <<p, pushes'[p]>>
               /\ cpc' \in {"clear", "put"} => pnode'[p] # cnode'
    <3>1. /\ ppc[p] = "swap" /\ pnode'[p] = pnode[p] /\ pnode[p] # cnode
          /\ pushes'[p] = pushes[p] /\ cnode' = cnode
      BY <1>1, <1>2, <2>1
    <3>2. pnode[p] \in Nodes \ spare /\ succ[pnode[p]] = NoNode /\ val[pnode[p]] = <<p, pushes[p]>>
      BY <3>1 DEF Invs, HoldInv
    <3> QED
      BY <1>1, <3>1, <3>2
  <2>2. \A p, q \in Producers :
            ppc'[p] \in {"swap", "link"} /\ ppc'[q] \in {"swap", "link"} /\ pnode'[p] = pnode'[q] => p = q
    BY <1>1 DEF Invs, HoldInv
  <2>3. cpc' \in {"clear", "put"} => cnode' \in Nodes \ spare'
    BY <1>1 DEF Invs, HoldInv
  <2> QED
    BY <2>1, <2>2, <2>3 DEF HoldInv
<1>7. ChainInv'
  <2>1. Chain(c)'
    BY <1>1, <1>3, <1>4 DEF Chain, MpscTypeOK, ListOK
  <2>2. Apart(c)'
    BY <1>1, <1>3, <1>4 DEF Apart
  <2>3. \A q \in Producers : ppc'[q] = "link" => Gap(c, q)'
    BY <1>1, <1>3, <1>4 DEF Gap
  <2> QED
    BY <1>3, <1>4, <2>1, <2>2, <2>3 DEF ChainInv
<1> QED
  BY <1>5, <1>6, <1>7 DEF Invs

LEMMA MpscStep == ASSUME MpscInv, [MpscNext]_mpscVars PROVE MpscInv'
<1>1. MpscTypeOK /\ Invs /\ HoldInv
  BY DEF MpscInv, Invs
<1>2. MpscTypeOK'
  BY <1>1, MpscTyped
<1>3. Invs'
  <2>1. CASE UNCHANGED mpscVars
    BY <1>1, <2>1, ListKept DEF mpscVars, listVars, prodVars, consVars
  <2>2. ASSUME NEW p \in Producers, Pushing(p) PROVE Invs'
    <3>1. CASE PushCount(p)
      <4>1. /\ UNCHANGED <<succ, val, qhead, qtail, spare, pnode, pprev, pushes, cpc, cnode, order, out>>
            /\ ppc' = [ppc EXCEPT ![p] = "idle"]
        BY <3>1 DEF PushCount, consVars
      <4>2. \A q \in Producers : ppc'[q] \in {"swap", "link"} => ppc'[q] = ppc[q]
        BY <1>1, <4>1 DEF MpscTypeOK, ProducersOK
      <4> QED
        BY <1>1, <4>1, <4>2, ListKept
    <3> QED
      BY <1>1, <2>2, <3>1, AllocKept, SwapKept, LinkKept DEF Pushing
  <2>3. CASE CallPop \/ (\E n \in BatchSizes : CallBatchPop(n)) \/ PopEmpty \/ PopCount
    <3>1. UNCHANGED <<succ, val, qhead, qtail, spare, ppc, pnode, pprev, pushes, cnode, order, out>>
      BY <2>3 DEF CallPop, CallBatchPop, PopEmpty, PopCount, listVars, prodVars
    <3>2. cpc' \in {"clear", "put"} => cpc \in {"clear", "put"}
      BY <2>3 DEF CallPop, CallBatchPop, PopEmpty, PopCount
    <3> QED
      BY <1>1, <3>1, <3>2, ListKept
  <2>4. CASE PopAdvance
    BY <1>1, <2>4, AdvanceKept
  <2>5. CASE PopClear \/ PopPut
    BY <1>1, <2>5, RecycleKept
  <2> QED
    BY <2>1, <2>2, <2>3, <2>4, <2>5 DEF MpscNext, Popping
<1> QED
  BY <1>2, <1>3 DEF MpscInv, Invs

LEMMA MpscStart == ASSUME MpscInit PROVE MpscInv
<1> USE MpscAssumption
<1>1. MpscTypeOK
  BY DEF MpscInit, MpscTypeOK, ListOK, ProducersOK, ConsumerOK, HistoryOK
<1>2. PrefixInv /\ HoldInv
  BY DEF MpscInit, PrefixInv, HoldInv
<1>3. ChainInv
  <2>1. Positions = {0} /\ Len(out) = 0 /\ Len(order) = 0
    BY DEF MpscInit, Positions
  <2>2. PICK c : c = [i \in Positions |-> Stub]
    OBVIOUS
  <2>3. Chain(c) /\ Apart(c)
    BY <2>1, <2>2 DEF MpscInit, Chain, Apart
  <2>4. \A p \in Producers : ppc[p] # "link"
    BY DEF MpscInit
  <2> QED
    BY <2>2, <2>3, <2>4 DEF ChainInv
<1> QED
  BY <1>1, <1>2, <1>3 DEF MpscInv

\* The values come out as prefix of the order of the swaps: none is lost, repeated or overtaken,
\* however the two steps of a Push interleave with others and with nodes that are used again
\* (Queue.Push, Pop and BatchPop).
THEOREM PopsInOrderHolds == MpscSpec => []PopsInOrder
<1>1. MpscInit => MpscInv
  BY MpscStart
<1>2. MpscInv /\ [MpscNext]_mpscVars => MpscInv'
  BY MpscStep
<1>3. MpscInv => PopsInOrder
  <2> SUFFICES ASSUME MpscInv PROVE PopsInOrder
    OBVIOUS
  <2>1. /\ out \in Seq(Values \cup {NoValue}) /\ order \in Seq(Values) /\ Len(out) <= Len(order)
        /\ \A i \in 1..Len(out) : out[i] = order[i]
    BY DEF MpscInv, MpscTypeOK, HistoryOK, PrefixInv
  <2>2. SubSeq(out, 1, Len(out)) = SubSeq(order, 1, Len(out))
    BY <2>1
  <2> QED
    BY <2>1, <2>2 DEF PopsInOrder, IsPrefix
<1> QED
  BY <1>1, <1>2, <1>3, PTL DEF MpscSpec
(***************************************************************************)
(* The configuration of a pool.  The storage budget is checked over a fold *)
(* of the queues of a worker, whose recursion is on the subsets of their   *)
(* names.  The first lemmas give such a fold its recursion equation, by    *)
(* the least subset that had none.                                         *)
(***************************************************************************)
AnyOf(s) == CHOOSE x \in s : TRUE

\* h folds G over every subset of S.
Folded(S, G, h) ==
    \A s \in SUBSET S : h[s] = IF s = {} THEN 0 ELSE G[<<AnyOf(s), h[s \ {AnyOf(s)}]>>]

LEMMA LeastSubset ==
  ASSUME NEW S, IsFiniteSet(S), NEW T \in SUBSET (SUBSET S), T # {}
  PROVE  \E t \in T : \A r \in T : r \subseteq t => r = t
<1>1. IsWellFoundedOn(StrictSubsetOrdering(S), SUBSET S)
  BY FS_StrictSubsetOrderingWellFounded, FS_FiniteSubsetsOfFinite
<1>2. PICK t \in T : \A r \in T : <<r, t>> \notin StrictSubsetOrdering(S)
  BY <1>1, WFMin
<1>3. ASSUME NEW r \in T, r \subseteq t PROVE r = t
  BY <1>2, <1>3 DEF StrictSubsetOrdering
<1>4. QED
  BY <1>3

LEMMA AnyIn == ASSUME NEW s, s # {} PROVE AnyOf(s) \in s /\ s \ {AnyOf(s)} # s
BY DEF AnyOf

LEMMA FoldUnique ==
  ASSUME NEW S, IsFiniteSet(S), NEW G, NEW a \in SUBSET S, NEW b \in SUBSET S, NEW g, NEW h,
         Folded(a, G, g), Folded(b, G, h), NEW s \in SUBSET (a \cap b)
  PROVE  g[s] = h[s]
<1> DEFINE Bad == {r \in SUBSET (a \cap b) : g[r] # h[r]}
<1> SUFFICES ASSUME Bad # {} PROVE FALSE
  OBVIOUS
<1>1. Bad \in SUBSET (SUBSET S)
  OBVIOUS
<1>2. PICK t \in Bad : \A r \in Bad : r \subseteq t => r = t
  <2> HIDE DEF Bad
  <2> QED
    BY <1>1, LeastSubset
<1>3. CASE t = {}
  BY <1>2, <1>3 DEF Folded
<1>4. CASE t # {}
  <2> DEFINE r == t \ {AnyOf(t)}
  <2>1. r \subseteq t /\ r # t /\ r \in SUBSET (a \cap b) /\ t \in SUBSET (a \cap b)
    BY <1>2, <1>4, AnyIn
  <2>2. g[r] = h[r]
    BY <1>2, <2>1
  <2>3. g[t] = G[<<AnyOf(t), g[r]>>] /\ h[t] = G[<<AnyOf(t), h[r]>>]
    BY <1>4, <2>1 DEF Folded
  <2>4. QED
    BY <1>2, <2>2, <2>3
<1>5. QED
  BY <1>3, <1>4

LEMMA FoldExists ==
  ASSUME NEW S, IsFiniteSet(S), NEW G \in [S \X Int -> Int]
  PROVE  \E h \in [SUBSET S -> Int] : Folded(S, G, h)
<1> DEFINE Has(a) == \E h \in [SUBSET a -> Int] : Folded(a, G, h)
           Of(a) == CHOOSE h \in [SUBSET a -> Int] : Folded(a, G, h)
           Bad == {a \in SUBSET S : ~Has(a)}
<1> SUFFICES ASSUME Bad # {} PROVE FALSE
  OBVIOUS
<1>1. Bad \in SUBSET (SUBSET S)
  OBVIOUS
<1>2. PICK t \in Bad : \A r \in Bad : r \subseteq t => r = t
  <2> HIDE DEF Bad
  <2> QED
    BY <1>1, LeastSubset
<1>3. t \in SUBSET S /\ ~Has(t)
  BY <1>2
<1>4. CASE t = {}
  <2> DEFINE h == [s \in SUBSET t |-> 0]
  <2>1. h \in [SUBSET t -> Int] /\ Folded(t, G, h)
    BY <1>4 DEF Folded
  <2>2. QED
    BY <1>3, <2>1
<1>5. CASE t # {}
  <2> DEFINE c == AnyOf(t)
             H == [r \in SUBSET t |-> IF r = t THEN G[<<c, Of(t \ {c})[t \ {c}]>>] ELSE Of(r)[r]]
  <2>1. c \in t /\ t \ {c} # t /\ c \in S
    BY <1>3, <1>5, AnyIn
  <2>2. ASSUME NEW r \in SUBSET t, r # t PROVE Of(r) \in [SUBSET r -> Int] /\ Folded(r, G, Of(r))
    <3>1. Has(r)
      BY <1>2, <1>3, <2>2
    <3>2. QED
      BY <3>1
  <2>3. ASSUME NEW r \in SUBSET t, r # t PROVE Of(r)[r] \in Int
    BY <2>2, <2>3
  <2> HIDE DEF Of
  <2>4. H \in [SUBSET t -> Int]
    <3>1. ASSUME NEW r \in SUBSET t PROVE (IF r = t THEN G[<<c, Of(t \ {c})[t \ {c}]>>] ELSE Of(r)[r]) \in Int
      <4>1. Of(t \ {c})[t \ {c}] \in Int
        BY <2>1, <2>3
      <4>2. QED
        BY <2>1, <2>3, <4>1
    <3>2. QED
      BY <3>1
  <2>5. ASSUME NEW r \in SUBSET t
        PROVE  H[r] = IF r = {} THEN 0 ELSE G[<<AnyOf(r), H[r \ {AnyOf(r)}]>>]
    <3>1. CASE r = {}
      <4>1. H[r] = Of(r)[r] /\ Folded(r, G, Of(r))
        BY <1>5, <2>2, <3>1
      <4>2. QED
        BY <3>1, <4>1 DEF Folded
    <3>2. CASE r # {}
      <4> DEFINE d == AnyOf(r)
                 q == r \ {d}
      <4>1. q \in SUBSET t /\ q # t /\ q \in SUBSET r /\ q \in SUBSET S /\ r \in SUBSET S
        BY <1>3, <3>2, AnyIn
      <4>2. H[q] = Of(q)[q]
        BY <4>1
      <4>3. CASE r = t
        BY <3>2, <4>2, <4>3
      <4>4. CASE r # t
        <5>1. Folded(r, G, Of(r)) /\ Folded(q, G, Of(q))
          BY <2>2, <4>1, <4>4
        <5>2. Of(r)[q] = Of(q)[q]
          <6> HIDE DEF q
          <6>1. q \in SUBSET (r \cap q)
            BY <4>1
          <6>2. QED
            BY <4>1, <5>1, <6>1, FoldUnique
        <5>3. Of(r)[r] = G[<<d, Of(r)[q]>>]
          BY <3>2, <5>1 DEF Folded
        <5>4. QED
          BY <3>2, <4>2, <4>4, <5>2, <5>3
      <4>5. QED
        BY <4>3, <4>4
    <3>3. QED
      BY <3>1, <3>2
  <2>6. Has(t)
    <3>1. Folded(t, G, H)
      <4> HIDE DEF H
      <4> QED
        BY <2>5 DEF Folded
    <3>2. QED
      BY <2>4, <3>1
  <2>7. QED
    BY <1>3, <2>6
<1>6. QED
  BY <1>4, <1>5

(***************************************************************************)
(* The two folds over the queues of a worker: the checked sum of their     *)
(* layouts, and their bytes.                                               *)
(***************************************************************************)
LEMMA AddSound ==
  ASSUME NEW a \in Int, NEW b \in Int
  PROVE  /\ CheckedAdd(a, b) \in Int
         /\ CheckedAdd(a, b) # Overflow => a # Overflow /\ b # Overflow /\ CheckedAdd(a, b) = a + b
BY DEF CheckedAdd, Overflow

LEMMA MulSound ==
  ASSUME NEW a \in Int, NEW b \in Int
  PROVE  /\ CheckedMul(a, b) \in Int
         /\ CheckedMul(a, b) # Overflow => a # Overflow /\ b # Overflow /\ CheckedMul(a, b) = a * b
<1>1. a * b \in Int
  OBVIOUS
<1>2. QED
  BY <1>1 DEF CheckedMul, Overflow

AddIter(f, D) ==
    CHOOSE h : h = [s \in SUBSET D |->
                        IF s = {} THEN 0 ELSE CheckedAdd(f[AnyOf(s)], h[s \ {AnyOf(s)}])]
ByteIter(f, D) ==
    CHOOSE h : h = [s \in SUBSET D |->
                        IF s = {} THEN 0 ELSE h[s \ {AnyOf(s)}] + FixedBytes + f[AnyOf(s)] * SlotBytes]

\* The bytes the queues of capacities f take, as StorageWithinBudget adds them up.
Bytes(f) == FoldFunction(LAMBDA n, b : b + FixedBytes + n * SlotBytes, 0, f)

LEMMA AddIsIter == ASSUME NEW f PROVE FoldFunction(CheckedAdd, 0, f) = AddIter(f, DOMAIN f)[DOMAIN f]
BY DEF FoldFunction, FoldFunctionOnSet, MapThenFoldSet, AddIter, AnyOf

LEMMA BytesIsIter == ASSUME NEW f PROVE Bytes(f) = ByteIter(f, DOMAIN f)[DOMAIN f]
BY DEF Bytes, FoldFunction, FoldFunctionOnSet, MapThenFoldSet, ByteIter, AnyOf

LEMMA AddUnfolds ==
  ASSUME NEW D, IsFiniteSet(D), NEW f \in [D -> Int]
  PROVE  \A s \in SUBSET D : AddIter(f, D)[s] =
            IF s = {} THEN 0 ELSE CheckedAdd(f[AnyOf(s)], AddIter(f, D)[s \ {AnyOf(s)}])
<1> DEFINE G == [z \in D \X Int |-> CheckedAdd(f[z[1]], z[2])]
           Step(h) == [s \in SUBSET D |->
                          IF s = {} THEN 0 ELSE CheckedAdd(f[AnyOf(s)], h[s \ {AnyOf(s)}])]
<1>1. G \in [D \X Int -> Int]
  BY AddSound
<1>2. PICK h \in [SUBSET D -> Int] : Folded(D, G, h)
  <2> HIDE DEF G
  <2> QED
    BY <1>1, FoldExists
<1>3. h = Step(h)
  <2>1. ASSUME NEW s \in SUBSET D
        PROVE  h[s] = IF s = {} THEN 0 ELSE CheckedAdd(f[AnyOf(s)], h[s \ {AnyOf(s)}])
    <3>1. s # {} => AnyOf(s) \in D /\ h[s \ {AnyOf(s)}] \in Int
      BY AnyIn
    <3>2. s # {} => G[<<AnyOf(s), h[s \ {AnyOf(s)}]>>] = CheckedAdd(f[AnyOf(s)], h[s \ {AnyOf(s)}])
      BY <3>1
    <3>3. QED
      BY <1>2, <3>2 DEF Folded
  <2>2. QED
    BY <2>1
<1>4. AddIter(f, D) = Step(AddIter(f, D))
  BY <1>3 DEF AddIter
<1>5. QED
  BY <1>4

LEMMA BytesUnfold ==
  ASSUME NEW D, IsFiniteSet(D), NEW f \in [D -> Nat], SlotBytes \in Nat, FixedBytes \in Nat
  PROVE  \A s \in SUBSET D : ByteIter(f, D)[s] =
            IF s = {} THEN 0
            ELSE ByteIter(f, D)[s \ {AnyOf(s)}] + FixedBytes + f[AnyOf(s)] * SlotBytes
<1> DEFINE G == [z \in D \X Int |-> z[2] + FixedBytes + f[z[1]] * SlotBytes]
           Step(h) == [s \in SUBSET D |->
                          IF s = {} THEN 0 ELSE h[s \ {AnyOf(s)}] + FixedBytes + f[AnyOf(s)] * SlotBytes]
<1>1. G \in [D \X Int -> Int]
  <2>1. ASSUME NEW n \in Nat PROVE n * SlotBytes \in Int
    BY <2>1
  <2>2. ASSUME NEW z \in D \X Int PROVE z[2] + FixedBytes + f[z[1]] * SlotBytes \in Int
    <3>1. f[z[1]] \in Nat /\ z[2] \in Int
      OBVIOUS
    <3>2. QED
      BY <2>1, <3>1
  <2>3. QED
    BY <2>2
<1>2. PICK h \in [SUBSET D -> Int] : Folded(D, G, h)
  <2> HIDE DEF G
  <2> QED
    BY <1>1, FoldExists
<1>3. h = Step(h)
  <2>1. ASSUME NEW s \in SUBSET D
        PROVE  h[s] = IF s = {} THEN 0 ELSE h[s \ {AnyOf(s)}] + FixedBytes + f[AnyOf(s)] * SlotBytes
    <3>1. s # {} => AnyOf(s) \in D /\ h[s \ {AnyOf(s)}] \in Int
      BY AnyIn
    <3>2. s # {} => G[<<AnyOf(s), h[s \ {AnyOf(s)}]>>]
                        = h[s \ {AnyOf(s)}] + FixedBytes + f[AnyOf(s)] * SlotBytes
      BY <3>1
    <3>3. QED
      BY <1>2, <3>2 DEF Folded
  <2>2. QED
    BY <2>1
<1>4. ByteIter(f, D) = Step(ByteIter(f, D))
  BY <1>3 DEF ByteIter
<1>5. QED
  BY <1>4

LEMMA LayoutSound ==
  ASSUME NEW n \in Nat, SlotBytes \in Nat, FixedBytes \in Nat
  PROVE  /\ QueueLayout(n) \in Int
         /\ QueueLayout(n) # Overflow => QueueLayout(n) = FixedBytes + n * SlotBytes
<1> DEFINE array == CheckedMul(n, SlotBytes)
<1>1. array \in Int /\ (array # Overflow => array = n * SlotBytes)
  BY MulSound
<1>2. QueueLayout(n) = IF array > MaxInt THEN Overflow ELSE CheckedAdd(FixedBytes, array)
  BY DEF QueueLayout
<1> HIDE DEF array
<1>3. CheckedAdd(FixedBytes, array) \in Int
  BY <1>1, AddSound
<1>4. CheckedAdd(FixedBytes, array) # Overflow =>
         array # Overflow /\ CheckedAdd(FixedBytes, array) = FixedBytes + array
  BY <1>1, AddSound
<1>5. Overflow \in Int
  BY DEF Overflow
<1>6. QED
  BY <1>1, <1>2, <1>3, <1>4, <1>5

\* A sum of layouts that no step of found an overflow is the number of bytes.
LEMMA SumsAgree ==
  ASSUME NEW D, IsFiniteSet(D), NEW caps \in [D -> Nat], SlotBytes \in Nat, FixedBytes \in Nat
  PROVE  LET total == FoldFunction(CheckedAdd, 0, [q \in D |-> QueueLayout(caps[q])])
         IN  total \in Int /\ Bytes(caps) \in Nat /\ (total # Overflow => total = Bytes(caps))
<1> DEFINE lay == [q \in D |-> QueueLayout(caps[q])]
           A == AddIter(lay, D)
           B == ByteIter(caps, D)
           Agree(s) == A[s] \in Int /\ B[s] \in Nat /\ (A[s] # Overflow => A[s] = B[s])
           Bad == {s \in SUBSET D : ~Agree(s)}
<1>1. lay \in [D -> Int]
  BY LayoutSound
<1>2. \A s \in SUBSET D : A[s] = IF s = {} THEN 0 ELSE CheckedAdd(lay[AnyOf(s)], A[s \ {AnyOf(s)}])
  <2> HIDE DEF lay
  <2> QED
    BY <1>1, AddUnfolds
<1>3. \A s \in SUBSET D :
         B[s] = IF s = {} THEN 0 ELSE B[s \ {AnyOf(s)}] + FixedBytes + caps[AnyOf(s)] * SlotBytes
  BY BytesUnfold
<1>4. FoldFunction(CheckedAdd, 0, lay) = A[D] /\ Bytes(caps) = B[D]
  <2>1. DOMAIN lay = D /\ DOMAIN caps = D
    OBVIOUS
  <2> HIDE DEF lay
  <2>2. QED
    BY <2>1, AddIsIter, BytesIsIter
<1> HIDE DEF A, B
<1>5. Bad = {}
  <2> SUFFICES ASSUME Bad # {} PROVE FALSE
    OBVIOUS
  <2>1. PICK t \in Bad : \A r \in Bad : r \subseteq t => r = t
    <3>1. Bad \in SUBSET (SUBSET D)
      OBVIOUS
    <3> HIDE DEF Bad
    <3> QED
      BY <3>1, LeastSubset
  <2>2. t \in SUBSET D /\ ~Agree(t)
    BY <2>1
  <2>3. CASE t = {}
    <3>1. A[t] = 0 /\ B[t] = 0
      BY <1>2, <1>3, <2>2, <2>3
    <3>2. QED
      BY <2>2, <3>1
  <2>4. CASE t # {}
    <3> DEFINE c == AnyOf(t)
               r == t \ {c}
    <3>1. c \in D /\ r \in SUBSET D /\ r \subseteq t /\ r # t
      BY <2>2, <2>4, AnyIn
    <3>2. Agree(r)
      BY <2>1, <3>1
    <3>3. A[t] = CheckedAdd(lay[c], A[r]) /\ B[t] = B[r] + FixedBytes + caps[c] * SlotBytes
      BY <1>2, <1>3, <2>2, <2>4
    <3>4. caps[c] \in Nat /\ lay[c] = QueueLayout(caps[c])
      BY <3>1
    <3> HIDE DEF r, c, lay
    <3>5. lay[c] \in Int /\ (lay[c] # Overflow => lay[c] = FixedBytes + caps[c] * SlotBytes)
      BY <3>4, LayoutSound
    <3>6. caps[c] * SlotBytes \in Nat
      BY <3>4
    <3>7. A[r] \in Int
      BY <3>2
    <3>8. /\ CheckedAdd(lay[c], A[r]) \in Int
          /\ CheckedAdd(lay[c], A[r]) # Overflow =>
                lay[c] # Overflow /\ A[r] # Overflow /\ CheckedAdd(lay[c], A[r]) = lay[c] + A[r]
      <4> DEFINE x == lay[c]
                 y == A[r]
      <4>1. x \in Int /\ y \in Int
        BY <3>5, <3>7
      <4> HIDE DEF x, y
      <4>2. /\ CheckedAdd(x, y) \in Int
            /\ CheckedAdd(x, y) # Overflow => x # Overflow /\ y # Overflow /\ CheckedAdd(x, y) = x + y
        BY <4>1, AddSound
      <4> USE DEF x, y
      <4>3. QED
        BY <4>2
    <3>9. Agree(t)
      BY <3>2, <3>3, <3>5, <3>6, <3>8
    <3>10. QED
      BY <2>2, <3>9
  <2>5. QED
    BY <2>3, <2>4
<1>6. Agree(D)
  BY <1>5
<1>7. QED
  BY <1>4, <1>6
(***************************************************************************)
(* What fixConf leaves of a template, and what its acceptance says.        *)
(***************************************************************************)
LEMMA LargerOf == ASSUME NEW x \in Int, NEW y \in Int PROVE Max({x, y}) = IF x >= y THEN x ELSE y
<1>1. \A z \in {x, y} : (\A u \in {x, y} : z >= u) => z = IF x >= y THEN x ELSE y
  OBVIOUS
<1>2. (IF x >= y THEN x ELSE y) \in {x, y} /\ \A u \in {x, y} : (IF x >= y THEN x ELSE y) >= u
  OBVIOUS
<1>3. QED
  BY <1>1, <1>2 DEF Max

LEMMA SmallerOf == ASSUME NEW x \in Int, NEW y \in Int PROVE Min({x, y}) = IF x <= y THEN x ELSE y
<1>1. \A z \in {x, y} : (\A u \in {x, y} : z <= u) => z = IF x <= y THEN x ELSE y
  OBVIOUS
<1>2. (IF x <= y THEN x ELSE y) \in {x, y} /\ \A u \in {x, y} : (IF x <= y THEN x ELSE y) <= u
  OBVIOUS
<1>3. QED
  BY <1>1, <1>2 DEF Min

\* The fields the budget and the autoscaler read.
Sized(c) ==
    /\ c.initial \in Int /\ c.budget \in Nat
    /\ c.dual \in {Unset} \cup [{"system", "user"} -> Nat]
    /\ \E D \in SUBSET Priorities : c.levels \in {Unset} \cup [D -> Nat]
    /\ c.scaling # Unset =>
         c.scaling.min \in Int /\ c.scaling.max \in Int /\ c.scaling.growth \in Int /\ c.scaling.shrink \in Int

LEMMA ScalingSized ==
  ASSUME NEW s \in {Unset} \cup ScalingConfs
  PROVE  LET r == FixScaling(s)
         IN  r # Unset => r.min \in Int /\ r.max \in Int /\ r.growth \in Int /\ r.shrink \in Int
<1>1. CASE s = Unset
  BY <1>1 DEF FixScaling
<1>2. CASE s # Unset
  <2>1. s \in ScalingConfs
    BY <1>2
  <2> DEFINE least == Max({s.min, 1})
             most == Max({s.max, least})
  <2>2. least \in Int
    <3>1. s.min \in Int
      BY <2>1 DEF ScalingConfs
    <3>2. QED
      BY <3>1, LargerOf
  <2>3. most \in Int
    <3>1. s.max \in Int
      BY <2>1 DEF ScalingConfs
    <3> HIDE DEF least
    <3>2. QED
      BY <2>2, <3>1, LargerOf
  <2>4. FixScaling(s) = [s EXCEPT !.growth = Positive(@, 50), !.shrink = IF @ <= 0 \/ @ > 50 THEN 25 ELSE @,
                                  !.min = least, !.max = most]
    BY <1>2 DEF FixScaling
  <2> HIDE DEF least, most
  <2>5. QED
    BY <2>1, <2>2, <2>3, <2>4 DEF ScalingConfs, Positive
<1>3. QED
  BY <1>1, <1>2

LEMMA FixedSized == ASSUME NEW t \in Templates PROVE Sized(FixConf(t))
<1>1. PICK D \in SUBSET Priorities : t \in MailboxConfs(D)
  BY QueueSpecAssumption
<1> DEFINE c == FixConf(t)
<1>2. /\ c.initial = Positive(t.initial, 1) /\ c.budget = t.budget /\ c.dual = t.dual
      /\ c.levels = t.levels /\ c.scaling = FixScaling(t.scaling)
  BY <1>1 DEF FixConf, MailboxConfs
<1>3. t.scaling \in {Unset} \cup ScalingConfs
  BY <1>1 DEF MailboxConfs
<1>4. c.initial \in Int /\ c.budget \in Nat
  BY <1>1, <1>2 DEF MailboxConfs, Positive
<1>5. c.dual \in {Unset} \cup [{"system", "user"} -> Nat] /\ c.levels \in {Unset} \cup [D -> Nat]
  BY <1>1, <1>2 DEF MailboxConfs
<1>6. c.scaling # Unset =>
         c.scaling.min \in Int /\ c.scaling.max \in Int /\ c.scaling.growth \in Int /\ c.scaling.shrink \in Int
  BY <1>2, <1>3, ScalingSized
<1> HIDE DEF c
<1>7. Sized(c)
  BY <1>4, <1>5, <1>6 DEF Sized
<1>8. QED
  BY <1>7 DEF c

LEMMA CapacitiesSized ==
  ASSUME NEW c, Sized(c)
  PROVE  \E D : IsFiniteSet(D) /\ Capacities(c) \in [D -> Nat]
<1> DEFINE given == IF Mode(c) = "priority" THEN Levels(c)
                    ELSE IF c.dual = Unset THEN [q \in {"system", "user"} |-> 0] ELSE c.dual
<1>1. \E D : IsFiniteSet(D) /\ given \in [D -> Nat]
  <2>1. CASE Mode(c) = "priority"
    <3>1. CASE c.levels = Unset \/ DOMAIN c.levels = {}
      <4>1. IsFiniteSet(DefaultPriorities)
        <5>1. \A a, b \in Int : IsFiniteSet(a..b)
          BY FS_Interval
        <5>2. -3 \in Int /\ 2 \in Int
          OBVIOUS
        <5>3. QED
          BY <5>1, <5>2 DEF DefaultPriorities
      <4>2. given \in [DefaultPriorities -> Nat]
        BY <2>1, <3>1 DEF Levels
      <4>3. QED
        BY <4>1, <4>2
    <3>2. CASE ~(c.levels = Unset \/ DOMAIN c.levels = {})
      <4>1. PICK D \in SUBSET Priorities : c.levels \in [D -> Nat]
        BY <3>2 DEF Sized
      <4>2. IsFiniteSet(D)
        BY FS_Subset, QueueSpecAssumption
      <4>3. given = c.levels
        BY <2>1, <3>2 DEF Levels
      <4>4. QED
        BY <4>1, <4>2, <4>3
    <3>3. QED
      BY <3>1, <3>2
  <2>2. CASE Mode(c) # "priority"
    <3>1. IsFiniteSet({"system", "user"})
      <4>1. IsFiniteSet({} \cup {"system"})
        BY FS_EmptySet, FS_AddElement
      <4>2. IsFiniteSet(({} \cup {"system"}) \cup {"user"})
        BY <4>1, FS_AddElement
      <4>3. ({} \cup {"system"}) \cup {"user"} = {"system", "user"}
        OBVIOUS
      <4>4. QED
        BY <4>2, <4>3
    <3>2. given \in [{"system", "user"} -> Nat]
      BY <2>2 DEF Sized
    <3>3. QED
      BY <3>1, <3>2
  <2>3. QED
    BY <2>1, <2>2
<1>2. Capacities(c) = [q \in DOMAIN given |-> IF given[q] = 0 THEN DefaultCapacity ELSE given[q]]
  BY DEF Capacities
<1> HIDE DEF given
<1>3. PICK D : IsFiniteSet(D) /\ given \in [D -> Nat]
  BY <1>1
<1>4. Capacities(c) \in [D -> Nat]
  BY <1>2, <1>3, QueueSpecAssumption
<1>5. QED
  BY <1>3, <1>4

\* An accepted configuration holds the queues of as many workers as it may come to.
LEMMA AcceptedHolds ==
  ASSUME NEW c, Sized(c), BudgetWorkers(c) \in Int, StorageAccepted(c), NEW n \in Int, n <= BudgetWorkers(c)
  PROVE  n * Bytes(Capacities(c)) <= Budget(c)
<1> DEFINE caps == Capacities(c)
           layout == WorkerLayout(caps)
           total == CheckedMul(layout, BudgetWorkers(c))
<1>1. PICK D : IsFiniteSet(D) /\ caps \in [D -> Nat]
  BY CapacitiesSized
<1>2. total # Overflow /\ total <= Budget(c)
  BY DEF StorageAccepted
<1> DEFINE sum == FoldFunction(CheckedAdd, 0, [q \in D |-> QueueLayout(caps[q])])
<1> HIDE DEF caps
<1>3. sum \in Int /\ Bytes(caps) \in Nat /\ (sum # Overflow => sum = Bytes(caps))
  BY <1>1, SumsAgree, QueueSpecAssumption
<1>4. layout = Overflow \/ layout = sum
  <2>1. DOMAIN caps = D
    BY <1>1
  <2>2. QED
    BY <2>1 DEF WorkerLayout
<1> HIDE DEF sum, layout
<1>5. layout \in Int
  BY <1>3, <1>4 DEF Overflow
<1>6. layout # Overflow /\ total = layout * BudgetWorkers(c)
  BY <1>2, <1>5, MulSound
<1>7. n * Bytes(caps) <= BudgetWorkers(c) * Bytes(caps)
  <2>1. \A x \in Int, y \in Int, b \in Nat : x <= y => x * b <= y * b
    OBVIOUS
  <2>2. QED
    BY <1>3, <2>1
<1>8. total = BudgetWorkers(c) * Bytes(caps)
  BY <1>3, <1>4, <1>6
<1>9. Budget(c) \in Int
  BY QueueSpecAssumption DEF Budget, Sized
<1>10. n * Bytes(caps) \in Int /\ BudgetWorkers(c) * Bytes(caps) \in Int
  BY <1>3
<1> HIDE DEF total
<1>11. n * Bytes(caps) <= Budget(c)
  BY <1>2, <1>7, <1>8, <1>9, <1>10
<1>12. QED
  BY <1>11 DEF caps
(***************************************************************************)
(* The life of a pool.                                                     *)
(***************************************************************************)
Fixed == {c \in {FixConf(t) : t \in Templates} : NormalizeAccepts(c)}

PoolConfInv ==
    /\ stage \in [PoolNames -> {"none", "refused", "created", "running"}]
    /\ conf \in [PoolNames -> {Unset} \cup {FixConf(t) : t \in Templates}]
    /\ size \in [PoolNames -> Int]
    /\ scaling \in [PoolNames -> {"off", "starting", "ready", "cooling", "panicked"}]
    /\ \A p \in PoolNames :
        /\ stage[p] \in {"created", "running"} => conf[p] \in Fixed
        /\ stage[p] = "running" /\ conf[p].backend = "bounded" => size[p] <= BudgetWorkers(conf[p])
        /\ scaling[p] # "off" => stage[p] = "running" /\ conf[p].auto
        /\ scaling[p] \in {"ready", "cooling"} => conf[p].scaling # Unset

\* The invariant of one pool, and of the others while a step changes it alone.
OfPool(s, c, n, a) ==
    /\ s \in {"none", "refused", "created", "running"} /\ c \in {Unset} \cup {FixConf(t) : t \in Templates}
    /\ n \in Int /\ a \in {"off", "starting", "ready", "cooling", "panicked"}
    /\ s \in {"created", "running"} => c \in Fixed
    /\ s = "running" /\ c.backend = "bounded" => n <= BudgetWorkers(c)
    /\ a # "off" => s = "running" /\ c.auto
    /\ a \in {"ready", "cooling"} => c.scaling # Unset

LEMMA PoolByPool ==
  PoolConfInv <=>
    /\ stage = [p \in PoolNames |-> stage[p]] /\ conf = [p \in PoolNames |-> conf[p]]
    /\ size = [p \in PoolNames |-> size[p]] /\ scaling = [p \in PoolNames |-> scaling[p]]
    /\ \A p \in PoolNames : OfPool(stage[p], conf[p], size[p], scaling[p])
BY DEF PoolConfInv, OfPool

LEMMA FixedFacts ==
  ASSUME NEW c \in Fixed
  PROVE  /\ Sized(c)
         /\ c.backend = "bounded" =>
              /\ c.auto => c.scaling # Unset /\ c.scaling.max >= c.initial
              /\ StorageAccepted(c) /\ BudgetWorkers(c) \in Int
<1>1. Sized(c) /\ NormalizeAccepts(c)
  BY FixedSized DEF Fixed
<1>2. ASSUME c.backend = "bounded"
      PROVE  ScalingAccepted(c) /\ StorageAccepted(c)
  BY <1>1, <1>2 DEF NormalizeAccepts
<1>3. QED
  BY <1>1, <1>2 DEF ScalingAccepted, BudgetWorkers, Sized

\* One pool changes and keeps what holds of it.
LEMMA OneChanges ==
  ASSUME PoolConfInv, NEW p \in PoolNames, NEW s, NEW c, NEW n, NEW a,
         stage' = [stage EXCEPT ![p] = s], conf' = [conf EXCEPT ![p] = c],
         size' = [size EXCEPT ![p] = n], scaling' = [scaling EXCEPT ![p] = a], OfPool(s, c, n, a)
  PROVE  PoolConfInv'
<1>1. ASSUME NEW q \in PoolNames PROVE OfPool(stage[q], conf[q], size[q], scaling[q])
  BY PoolByPool
<1>2. /\ stage = [q \in PoolNames |-> stage[q]] /\ conf = [q \in PoolNames |-> conf[q]]
      /\ size = [q \in PoolNames |-> size[q]] /\ scaling = [q \in PoolNames |-> scaling[q]]
  BY PoolByPool
<1>3. ASSUME NEW q \in PoolNames PROVE OfPool(stage'[q], conf'[q], size'[q], scaling'[q])
  <2>1. CASE q = p
    <3>1. stage'[q] = s /\ conf'[q] = c /\ size'[q] = n /\ scaling'[q] = a
      BY <1>2, <2>1
    <3>2. QED
      BY <3>1
  <2>2. CASE q # p
    <3>1. stage'[q] = stage[q] /\ conf'[q] = conf[q] /\ size'[q] = size[q] /\ scaling'[q] = scaling[q]
      BY <1>2, <2>2
    <3>2. QED
      BY <1>1, <3>1
  <2>3. QED
    BY <2>1, <2>2
<1>4. /\ stage' = [q \in PoolNames |-> stage'[q]] /\ conf' = [q \in PoolNames |-> conf'[q]]
      /\ size' = [q \in PoolNames |-> size'[q]] /\ scaling' = [q \in PoolNames |-> scaling'[q]]
  BY <1>2
<1>5. QED
  BY <1>3, <1>4 DEF PoolConfInv, OfPool

LEMMA NewPoolKeeps ==
  ASSUME PoolConfInv, NEW p \in PoolNames, NEW t \in Templates, NewWorkerPool(p, t) PROVE PoolConfInv'
<1> DEFINE c == FixConf(t)
           s == IF NormalizeAccepts(c) THEN "created" ELSE "refused"
<1>1. OfPool(stage[p], conf[p], size[p], scaling[p]) /\ stage[p] = "none"
  BY PoolByPool DEF NewWorkerPool
<1>2. scaling[p] = "off" /\ size[p] \in Int
  BY <1>1 DEF OfPool
<1>3. OfPool(s, c, size[p], scaling[p])
  <2>1. c \in {FixConf(u) : u \in Templates}
    OBVIOUS
  <2> HIDE DEF c
  <2>2. s = "created" => c \in Fixed
    BY <2>1 DEF Fixed
  <2>3. s \in {"created", "refused"}
    OBVIOUS
  <2> HIDE DEF s
  <2>4. QED
    BY <1>2, <2>1, <2>2, <2>3 DEF OfPool
<1>4. /\ stage' = [stage EXCEPT ![p] = s] /\ conf' = [conf EXCEPT ![p] = c]
      /\ size' = [size EXCEPT ![p] = size[p]] /\ scaling' = [scaling EXCEPT ![p] = scaling[p]]
  BY DEF NewWorkerPool, PoolConfInv
<1> HIDE DEF c, s
<1>5. QED
  BY <1>3, <1>4, OneChanges

LEMMA StartPoolKeeps == ASSUME PoolConfInv, NEW p \in PoolNames, StartPool(p) PROVE PoolConfInv'
<1> DEFINE c == conf[p]
           a == IF c.auto THEN "starting" ELSE "off"
<1>1. OfPool(stage[p], c, size[p], scaling[p]) /\ stage[p] = "created"
  BY PoolByPool DEF StartPool
<1>2. c \in Fixed
  BY <1>1 DEF OfPool
<1>3. OfPool("running", c, c.initial, a)
  <2>1. Sized(c) /\ (c.backend = "bounded" => c.initial <= BudgetWorkers(c))
    BY <1>2, FixedFacts DEF BudgetWorkers, Sized
  <2>2. c.initial \in Int
    BY <2>1 DEF Sized
  <2>3. a \in {"starting", "off"} /\ (a # "off" => c.auto)
    OBVIOUS
  <2> HIDE DEF a
  <2>4. QED
    BY <1>1, <1>2, <2>1, <2>2, <2>3 DEF OfPool
<1>4. /\ stage' = [stage EXCEPT ![p] = "running"] /\ conf' = [conf EXCEPT ![p] = c]
      /\ size' = [size EXCEPT ![p] = c.initial] /\ scaling' = [scaling EXCEPT ![p] = a]
  BY DEF StartPool, PoolConfInv
<1> HIDE DEF c, a
<1>5. QED
  BY <1>3, <1>4, OneChanges

LEMMA StartScalerKeeps == ASSUME PoolConfInv, NEW p \in PoolNames, StartScaler(p) PROVE PoolConfInv'
<1> DEFINE s == conf[p].scaling
           a == IF s = Unset THEN "panicked"
                ELSE IF ~BuildStrategy(s.strategy, 0) THEN "off"
                ELSE IF s.cool <= 0 THEN "panicked" ELSE "ready"
<1>1. OfPool(stage[p], conf[p], size[p], scaling[p]) /\ scaling[p] = "starting"
  BY PoolByPool DEF StartScaler
<1>2. a \in {"panicked", "off", "ready"} /\ (a = "ready" => s # Unset)
  OBVIOUS
<1>3. /\ stage' = [stage EXCEPT ![p] = stage[p]] /\ conf' = [conf EXCEPT ![p] = conf[p]]
      /\ size' = [size EXCEPT ![p] = size[p]] /\ scaling' = [scaling EXCEPT ![p] = a]
  BY DEF StartScaler, PoolConfInv
<1> HIDE DEF a
<1>4. OfPool(stage[p], conf[p], size[p], a)
  BY <1>1, <1>2 DEF OfPool
<1>5. QED
  BY <1>3, <1>4, OneChanges

LEMMA EvaluateKeeps ==
  ASSUME PoolConfInv, NEW p \in PoolNames, NEW lens, Evaluate(p, lens) PROVE PoolConfInv'
<1> DEFINE c == conf[p]
           s == c.scaling
           n == size[p]
           up == n + ((n * s.growth + 99) \div 100)
           down == n - ((n * s.shrink) \div 100)
           m == IF ScalesUp(shape[p], lens) THEN Bounded(up, s)
                ELSE IF ScalesDown(shape[p], lens, s.min) THEN Bounded(down, s) ELSE n
<1>1. OfPool(stage[p], c, n, scaling[p]) /\ scaling[p] = "ready"
  BY PoolByPool DEF Evaluate
<1>2. c \in Fixed /\ s # Unset /\ c.auto /\ stage[p] = "running" /\ n \in Int
  BY <1>1 DEF OfPool
<1>3. s.min \in Int /\ s.max \in Int /\ s.growth \in Int /\ s.shrink \in Int
  BY <1>2, FixedFacts DEF Sized
<1>4. ASSUME NEW k \in Int PROVE Bounded(k, s) \in Int /\ Bounded(k, s) <= s.max
  <2> DEFINE l == Max({k, s.min})
  <2>1. l \in Int
    BY <1>3, LargerOf
  <2>2. Bounded(k, s) = Min({l, s.max})
    BY DEF Bounded
  <2> HIDE DEF l, s
  <2>3. Min({l, s.max}) = IF l <= s.max THEN l ELSE s.max
    BY <1>3, <2>1, SmallerOf
  <2>4. QED
    BY <1>3, <2>1, <2>2, <2>3
<1>5. up \in Int /\ down \in Int
  <2>1. n * s.growth \in Int /\ n * s.shrink \in Int
    BY <1>2, <1>3
  <2>2. \A x \in Int : x \div 100 \in Int
    OBVIOUS
  <2>3. QED
    BY <1>2, <2>1, <2>2
<1> HIDE DEF up, down
<1>6. m \in Int /\ (m <= s.max \/ m = n)
  BY <1>2, <1>4, <1>5
<1>7. /\ stage' = [stage EXCEPT ![p] = stage[p]] /\ conf' = [conf EXCEPT ![p] = c]
      /\ size' = [size EXCEPT ![p] = m] /\ scaling' = [scaling EXCEPT ![p] = "cooling"]
  BY DEF Evaluate, PoolConfInv, up, down
<1> HIDE DEF m
<1>8. OfPool(stage[p], c, m, "cooling")
  <2>1. c.backend = "bounded" => m <= BudgetWorkers(c)
    BY <1>1, <1>2, <1>6 DEF BudgetWorkers, OfPool
  <2>2. QED
    BY <1>1, <1>2, <1>6, <2>1 DEF OfPool
<1> HIDE DEF c
<1>9. QED
  BY <1>7, <1>8, OneChanges

LEMMA CoolDownKeeps == ASSUME PoolConfInv, NEW p \in PoolNames, CoolDownEnds(p) PROVE PoolConfInv'
<1>1. OfPool(stage[p], conf[p], size[p], scaling[p]) /\ scaling[p] = "cooling"
  BY PoolByPool DEF CoolDownEnds
<1>2. OfPool(stage[p], conf[p], size[p], "ready")
  BY <1>1 DEF OfPool
<1>3. /\ stage' = [stage EXCEPT ![p] = stage[p]] /\ conf' = [conf EXCEPT ![p] = conf[p]]
      /\ size' = [size EXCEPT ![p] = size[p]] /\ scaling' = [scaling EXCEPT ![p] = "ready"]
  BY DEF CoolDownEnds, PoolConfInv
<1>4. QED
  BY <1>2, <1>3, OneChanges

LEMMA PoolConfFits == ASSUME PoolConfInv PROVE StorageWithinBudget
<1> SUFFICES ASSUME NEW p \in PoolNames, stage[p] = "running", conf[p].backend = "bounded"
             PROVE  size[p] * Bytes(Capacities(conf[p])) <= Budget(conf[p])
  BY DEF StorageWithinBudget, Bytes
<1>1. OfPool(stage[p], conf[p], size[p], scaling[p])
  BY PoolByPool
<1>2. conf[p] \in Fixed /\ size[p] \in Int /\ size[p] <= BudgetWorkers(conf[p])
  BY <1>1 DEF OfPool
<1>3. Sized(conf[p]) /\ StorageAccepted(conf[p]) /\ BudgetWorkers(conf[p]) \in Int
  BY <1>2, FixedFacts
<1>4. QED
  BY <1>2, <1>3, AcceptedHolds

\* The queues of all the workers of a pool fit the storage budget of its configuration, at every
\* number of workers the autoscaler comes to, whatever the configuration, the strategy and the word
\* normalizeQueueSpec computes in (validateStorageBudget, resizeWorkers).
THEOREM StorageFits == QueueConfSpec => []StorageWithinBudget
<1>1. QueueConfInit => PoolConfInv
  BY DEF QueueConfInit, PoolConfInv
<1>2. PoolConfInv /\ [QueueConfNext]_specVars => PoolConfInv'
  <2> SUFFICES ASSUME PoolConfInv, [QueueConfNext]_specVars PROVE PoolConfInv'
    OBVIOUS
  <2>1. CASE QueueConfNext
    <3>1. PICK p \in PoolNames :
             \/ \E t \in Templates : NewWorkerPool(p, t)
             \/ StartPool(p)
             \/ StartScaler(p)
             \/ \E lens \in [1..size[p] -> JobLens] : Evaluate(p, lens)
             \/ CoolDownEnds(p)
      BY <2>1 DEF QueueConfNext
    <3>2. QED
      BY <3>1, NewPoolKeeps, StartPoolKeeps, StartScalerKeeps, EvaluateKeeps, CoolDownKeeps
  <2>2. CASE UNCHANGED specVars
    BY <2>2 DEF specVars, PoolConfInv
  <2>3. QED
    BY <2>1, <2>2
<1>3. QED
  BY <1>1, <1>2, PoolConfFits, PTL DEF QueueConfSpec
=============================================================================
