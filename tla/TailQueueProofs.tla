--------------------------- MODULE TailQueueProofs ---------------------------
(***************************************************************************)
(* What the macros of include/queue.h do to a queue whose links are in     *)
(* order, and that removing an element twice in a row is harmless.         *)
(***************************************************************************)
EXTENDS TailQueue, FiniteSetTheorems, TLAPS, WellFoundedInduction

\* A sequence without duplicates is no longer than the set it draws from, so
\* it is one of the Lists.
LEMMA NoDuplicatesBounded ==
  ASSUME NEW s \in Seq(Envs), NoDuplicates(s)
  PROVE  s \in Lists
<1> DEFINE n == Len(s)
<1>1. n \in Nat /\ s \in [1 .. n -> Envs]
  OBVIOUS
<1>2. IsFiniteSet(Envs)
  BY TailQueueAssumption
<1>3. IsFiniteSet(1 .. n) /\ Cardinality(1 .. n) = n
  BY <1>1, FS_Interval
<1>4. s \in Injection(1 .. n, Envs)
  BY <1>1 DEF Injection, IsInjective, NoDuplicates
<1>5. n <= Cardinality(Envs)
  BY <1>1, <1>2, <1>3, <1>4, FS_Injection
<1>6. Cardinality(Envs) \in Nat
  BY <1>2, FS_CardinalityType
<1> QED
  BY <1>1, <1>5, <1>6 DEF Lists

LEMMA ListsAreSequences == Lists \subseteq Seq(Envs)
  BY TailQueueAssumption, FS_CardinalityType DEF Lists

\* Taking the first element off a sequence without duplicates, and putting a
\* new one in front.
LEMMA TailOfList ==
  ASSUME NEW s \in Seq(Envs), s # <<>>, NoDuplicates(s)
  PROVE  /\ Head(s) \in Envs /\ Head(s) = s[1] /\ Head(s) \in Elements(s)
         /\ Tail(s) \in Seq(Envs)
         /\ NoDuplicates(Tail(s))
         /\ Elements(Tail(s)) = Elements(s) \ {Head(s)}
<1> DEFINE n == Len(s)
           t == Tail(s)
<1>1. /\ n \in Nat /\ n >= 1 /\ Head(s) = s[1]
      /\ \A i \in 1 .. n : s[i] \in Envs
      /\ t \in Seq(Envs) /\ Len(t) = n - 1
      /\ \A i \in 1 .. n - 1 : t[i] = s[i + 1]
  OBVIOUS
<1>2. Head(s) \in Envs /\ Head(s) \in Elements(s)
  BY <1>1 DEF Elements
<1>3. NoDuplicates(t)
  BY <1>1 DEF NoDuplicates
<1>4. ASSUME NEW y \in Elements(t) PROVE y \in Elements(s) \ {Head(s)}
  BY <1>1 DEF Elements, NoDuplicates
<1>5. ASSUME NEW y \in Elements(s) \ {Head(s)} PROVE y \in Elements(t)
  <2>1. PICK i \in 1 .. n : s[i] = y
    BY DEF Elements
  <2>2. i - 1 \in 1 .. n - 1 /\ t[i - 1] = y
    BY <1>1, <2>1
  <2> QED
    BY <1>1, <2>2 DEF Elements
<1> QED
  BY <1>1, <1>2, <1>3, <1>4, <1>5

LEMMA ConsOfList ==
  ASSUME NEW s \in Seq(Envs), NoDuplicates(s), NEW e \in Envs, e \notin Elements(s)
  PROVE  /\ <<e>> \o s \in Seq(Envs)
         /\ NoDuplicates(<<e>> \o s)
         /\ Elements(<<e>> \o s) = Elements(s) \cup {e}
<1> DEFINE n == Len(s)
           t == <<e>> \o s
<1>1. /\ n \in Nat /\ t \in Seq(Envs) /\ Len(t) = n + 1 /\ t[1] = e
      /\ \A i \in 1 .. n : t[i + 1] = s[i] /\ s[i] # e
  BY DEF Elements
<1>2. \A j \in 2 .. n + 1 : j - 1 \in 1 .. n /\ t[j] = s[j - 1]
  BY <1>1
<1>3. NoDuplicates(t)
  BY <1>1, <1>2 DEF NoDuplicates
<1>4. ASSUME NEW y \in Elements(t) PROVE y \in Elements(s) \cup {e}
  BY <1>1, <1>2 DEF Elements
<1>5. ASSUME NEW y \in Elements(s) \cup {e} PROVE y \in Elements(t)
  <2>1. CASE y = e
    BY <1>1, <2>1 DEF Elements
  <2>2. CASE y # e
    <3>1. PICK i \in 1 .. n : s[i] = y
      BY <2>2 DEF Elements
    <3>2. i + 1 \in 1 .. n + 1 /\ t[i + 1] = y
      BY <1>1, <3>1
    <3> QED
      BY <1>1, <3>2 DEF Elements
  <2> QED
    BY <2>1, <2>2
<1> QED
  BY <1>1, <1>3, <1>4, <1>5

\* The same for an element put at the end.
LEMMA AppendToList ==
  ASSUME NEW s \in Seq(Envs), NEW e \in Envs
  PROVE  Append(s, e) \in Seq(Envs) /\ Elements(Append(s, e)) = Elements(s) \cup {e}
<1> DEFINE n == Len(s)
           t == Append(s, e)
<1>1. /\ n \in Nat /\ t \in Seq(Envs) /\ Len(t) = n + 1 /\ t[n + 1] = e
      /\ \A i \in 1 .. n : t[i] = s[i]
  OBVIOUS
<1>2. ASSUME NEW y \in Elements(t) PROVE y \in Elements(s) \cup {e}
  BY <1>1 DEF Elements
<1>3. ASSUME NEW y \in Elements(s) \cup {e} PROVE y \in Elements(t)
  <2>1. CASE y = e
    BY <1>1, <2>1 DEF Elements
  <2>2. CASE y # e
    <3>1. PICK i \in 1 .. n : s[i] = y
      BY <2>2 DEF Elements
    <3>2. i \in 1 .. n + 1 /\ t[i] = y
      BY <1>1, <3>1
    <3> QED
      BY <1>1, <3>2 DEF Elements
  <2> QED
    BY <2>1, <2>2
<1> QED
  BY <1>1, <1>2, <1>3

\* TAILQ_INIT gives an empty queue.
LEMMA InitChain == TAILQ_INIT \in Queues /\ Chain(TAILQ_INIT, <<>>)
  BY TailQueueAssumption
  DEF TAILQ_INIT, Queues, Cells, Chain, NoDuplicates, LastCell, Before

\* TAILQ_FIRST and TAILQ_EMPTY agree with the sequence the queue spells.
LEMMA FirstOfChain ==
  ASSUME NEW q \in Queues, NEW s \in Seq(Envs), Chain(q, s)
  PROVE  /\ TAILQ_EMPTY(q) <=> s = <<>>
         /\ s # <<>> => TAILQ_FIRST(q) = s[1] /\ s[1] \in Envs
<1>1. CASE s = <<>>
  BY <1>1 DEF Chain, LastCell, TAILQ_EMPTY, TAILQ_FIRST
<1>2. CASE s # <<>>
  <2>1. 1 \in 1 .. Len(s) /\ s[1] \in Envs
    BY <1>2
  <2>2. q.next[HEAD] = s[1]
    BY <2>1 DEF Chain, Before
  <2> QED
    BY <1>2, <2>1, <2>2, TailQueueAssumption DEF TAILQ_EMPTY, TAILQ_FIRST
<1> QED
  BY <1>1, <1>2

\* TAILQ_INSERT_TAIL appends an element that is not in the queue.
LEMMA InsertTailChain ==
  ASSUME NEW q \in Queues, NEW s \in Seq(Envs), Chain(q, s),
         NEW e \in Envs, e \notin Elements(s)
  PROVE  /\ TAILQ_INSERT_TAIL(q, e) \in Queues
         /\ Chain(TAILQ_INSERT_TAIL(q, e), Append(s, e))
<1> DEFINE t == Append(s, e)
           n == Len(s)
           r == TAILQ_INSERT_TAIL(q, e)
<1>1. /\ n \in Nat /\ Len(t) = n + 1 /\ t[n + 1] = e /\ t \in Seq(Envs)
      /\ \A i \in 1 .. n : t[i] = s[i] /\ s[i] \in Envs /\ s[i] # e
  BY DEF Elements
<1>2. q.last \in Cells /\ q.last # e
  BY <1>1, TailQueueAssumption DEF Chain, LastCell, Cells
<1>3. r \in Queues
  BY <1>2, TailQueueAssumption DEF Queues, Cells, TAILQ_INSERT_TAIL
<1>4. NoDuplicates(t)
  BY <1>1 DEF Chain, NoDuplicates
<1>5. /\ r.last = e /\ r.next[e] = NULL /\ r.next[q.last] = e
      /\ \A c \in Cells : c # e /\ c # q.last => r.next[c] = q.next[c]
      /\ r.prev[e] = q.last
      /\ \A x \in Envs : x # e => r.prev[x] = q.prev[x]
  BY <1>2 DEF TAILQ_INSERT_TAIL, Queues, Cells
<1>6. r.last = LastCell(t) /\ r.next[r.last] = NULL
  BY <1>1, <1>5 DEF LastCell
<1>7. ASSUME NEW i \in 1 .. n + 1
      PROVE  r.next[Before(t, i)] = t[i] /\ r.prev[t[i]] = Before(t, i)
  <2>1. CASE i = n + 1
    <3>1. Before(t, i) = q.last
      BY <1>1, <2>1 DEF Before, Chain, LastCell
    <3> QED
      BY <1>1, <1>5, <2>1, <3>1
  <2>2. CASE i # n + 1
    <3>1. i \in 1 .. n
      BY <1>1, <2>2
    <3>2. Before(t, i) = Before(s, i)
      BY <1>1, <3>1 DEF Before
    <3>3. q.next[Before(s, i)] = s[i] /\ q.prev[s[i]] = Before(s, i)
      BY <3>1 DEF Chain
    <3>4. Before(s, i) \in Cells /\ Before(s, i) # e
      BY <1>1, <3>1, TailQueueAssumption DEF Before, Cells
    <3>5. Before(s, i) # q.last
      BY <3>1, <1>1, <3>3, TailQueueAssumption DEF Chain
    <3> QED
      BY <1>1, <1>5, <3>1, <3>2, <3>3, <3>4, <3>5
  <2> QED
    BY <2>1, <2>2
<1> QED
  BY <1>1, <1>3, <1>4, <1>6, <1>7 DEF Chain

\* TAILQ_INSERT_HEAD puts an element that is not in the queue in front.
LEMMA InsertHeadChain ==
  ASSUME NEW q \in Queues, NEW s \in Seq(Envs), Chain(q, s),
         NEW e \in Envs, e \notin Elements(s)
  PROVE  /\ TAILQ_INSERT_HEAD(q, e) \in Queues
         /\ Chain(TAILQ_INSERT_HEAD(q, e), <<e>> \o s)
<1> DEFINE t == <<e>> \o s
           n == Len(s)
           f == TAILQ_FIRST(q)
           r == TAILQ_INSERT_HEAD(q, e)
<1>1. /\ n \in Nat /\ Len(t) = n + 1 /\ t[1] = e /\ t \in Seq(Envs)
      /\ \A i \in 1 .. n : t[i + 1] = s[i] /\ s[i] \in Envs /\ s[i] # e
  BY DEF Elements
<1>2. (n = 0 => f = NULL) /\ (n > 0 => f = s[1] /\ f \in Envs /\ f # e)
  BY <1>1, FirstOfChain DEF TAILQ_EMPTY
<1>3. r \in Queues
  <2>1. f \in Envs \cup {NULL}
    BY DEF Queues, Cells, TAILQ_FIRST
  <2> QED
    BY <2>1, TailQueueAssumption DEF Queues, Cells, TAILQ_INSERT_HEAD, TAILQ_FIRST
<1>4. NoDuplicates(t)
  BY <1>1 DEF Chain, NoDuplicates
<1>5. /\ r.next[HEAD] = e /\ r.next[e] = f
      /\ \A c \in Envs : c # e => r.next[c] = q.next[c]
      /\ r.prev[e] = HEAD
      /\ f # NULL => r.prev[f] = e /\ r.last = q.last
      /\ f = NULL => r.last = e
      /\ \A x \in Envs : x # e /\ x # f => r.prev[x] = q.prev[x]
  BY <1>1, <1>2, TailQueueAssumption DEF TAILQ_INSERT_HEAD, TAILQ_FIRST, Queues, Cells
<1>6. r.last = LastCell(t) /\ r.next[r.last] = NULL
  <2>1. CASE n = 0
    BY <1>1, <1>2, <1>5, <2>1 DEF LastCell
  <2>2. CASE n > 0
    <3>1. q.last = s[n] /\ q.next[s[n]] = NULL /\ n \in 1 .. n
      BY <1>1, <2>2 DEF Chain, LastCell
    <3> QED
      BY <1>1, <1>2, <1>5, <2>2, <3>1, TailQueueAssumption DEF LastCell
  <2> QED
    BY <1>1, <2>1, <2>2
<1>7. ASSUME NEW i \in 1 .. n + 1
      PROVE  r.next[Before(t, i)] = t[i] /\ r.prev[t[i]] = Before(t, i)
  <2>1. CASE i = 1
    BY <1>1, <1>5, <2>1 DEF Before
  <2>2. CASE i = 2
    BY <1>1, <1>2, <1>5, <2>2, TailQueueAssumption DEF Before
  <2>3. CASE i > 2
    <3>1. i - 1 \in 1 .. n /\ i - 2 \in 1 .. n /\ (i - 1) - 1 = i - 2
      BY <1>1, <2>3
    <3>2. t[i] = s[i - 1] /\ t[i - 1] = s[i - 2]
      BY <1>1, <3>1
    <3>3. q.next[s[i - 2]] = s[i - 1] /\ q.prev[s[i - 1]] = s[i - 2]
      BY <3>1, <2>3 DEF Chain, Before
    <3>4. 1 \in 1 .. n /\ s[i - 1] # s[1]
      BY <1>1, <2>3, <3>1 DEF Chain, NoDuplicates
    <3>5. f = s[1]
      BY <1>1, <1>2, <3>4
    <3> QED
      BY <1>1, <1>5, <2>3, <3>1, <3>2, <3>3, <3>4, <3>5 DEF Before
  <2> QED
    BY <1>1, <2>1, <2>2, <2>3
<1> QED
  BY <1>1, <1>3, <1>4, <1>6, <1>7 DEF Chain

\* s without its k-th element.
Without(s, k) == [j \in 1 .. Len(s) - 1 |-> IF j < k THEN s[j] ELSE s[j + 1]]

\* TAILQ_REMOVE unlinks an element that is in the queue, wherever it is, and
\* leaves the links of the element itself behind.
LEMMA RemoveChain ==
  ASSUME NEW q \in Queues, NEW s \in Seq(Envs), Chain(q, s), NEW k \in 1 .. Len(s)
  PROVE  /\ ~RemoveFaults(q, s[k])
         /\ TAILQ_REMOVE(q, s[k]) \in Queues
         /\ Without(s, k) \in Seq(Envs)
         /\ Chain(TAILQ_REMOVE(q, s[k]), Without(s, k))
         /\ Elements(Without(s, k)) = Elements(s) \ {s[k]}
<1> DEFINE n == Len(s)
           e == s[k]
           t == Without(s, k)
           r == TAILQ_REMOVE(q, e)
           p == q.prev[e]
           x == q.next[e]
<1>1. /\ n \in Nat /\ k \in 1 .. n
      /\ \A i \in 1 .. n : s[i] \in Envs
      /\ \A i, j \in 1 .. n : s[i] = s[j] => i = j
  BY DEF Chain, NoDuplicates
<1>2. \A i \in 1 .. n : q.next[Before(s, i)] = s[i] /\ q.prev[s[i]] = Before(s, i)
  BY DEF Chain
<1>3. p = Before(s, k) /\ p \in Cells /\ p # e
  BY <1>1, <1>2, TailQueueAssumption DEF Before, Cells
<1>4. q.last = s[n] /\ q.next[s[n]] = NULL
  BY <1>1 DEF Chain, LastCell
<1>5. x = IF k = n THEN NULL ELSE s[k + 1]
  <2>1. CASE k = n
    BY <1>4, <2>1
  <2>2. CASE k # n
    <3>1. k + 1 \in 1 .. n /\ Before(s, k + 1) = s[k]
      BY <1>1, <2>2 DEF Before
    <3> QED
      BY <1>2, <2>2, <3>1
  <2> QED
    BY <2>1, <2>2
<1>6. x \in Envs \cup {NULL} /\ e \in Envs /\ q.last \in Cells
  BY <1>1, <1>4, <1>5 DEF Cells
<1>7. r \in Queues
  BY <1>3, <1>6, TailQueueAssumption DEF Queues, Cells, TAILQ_REMOVE
<1>8. /\ r.next[p] = x
      /\ \A c \in Cells : c # p => r.next[c] = q.next[c]
      /\ x # NULL => r.prev[x] = p /\ r.last = q.last
      /\ x = NULL => r.last = p
      /\ \A y \in Envs : y # x => r.prev[y] = q.prev[y]
  BY <1>3, <1>6 DEF TAILQ_REMOVE, Queues, Cells
<1>9. /\ Len(t) = n - 1 /\ t \in Seq(Envs)
      /\ \A j \in 1 .. n - 1 : t[j] = IF j < k THEN s[j] ELSE s[j + 1]
  BY <1>1 DEF Without
<1>10. NoDuplicates(t)
  BY <1>1, <1>9 DEF NoDuplicates
<1>11. Elements(t) = Elements(s) \ {e}
  <2>1. ASSUME NEW y \in Elements(s) \ {e} PROVE y \in Elements(t)
    <3>1. PICK i \in 1 .. n : s[i] = y
      BY DEF Elements
    <3>2. i # k
      BY <3>1
    <3>3. CASE i < k
      <4>1. i \in 1 .. n - 1 /\ t[i] = y
        BY <1>1, <1>9, <3>1, <3>3
      <4> QED
        BY <1>9, <4>1 DEF Elements
    <3>4. CASE i > k
      <4>1. i - 1 \in 1 .. n - 1 /\ t[i - 1] = y
        BY <1>1, <1>9, <3>1, <3>4
      <4> QED
        BY <1>9, <4>1 DEF Elements
    <3> QED
      BY <1>1, <3>2, <3>3, <3>4
  <2>2. ASSUME NEW y \in Elements(t) PROVE y \in Elements(s) \ {e}
    <3>1. PICK j \in 1 .. n - 1 : t[j] = y
      BY <1>9 DEF Elements
    <3> QED
      BY <1>1, <1>9, <3>1 DEF Elements
  <2> QED
    BY <2>1, <2>2
<1>12. r.last = LastCell(t) /\ r.next[r.last] = NULL
  <2>1. CASE k = n
    <3>1. r.last = p /\ r.next[p] = NULL
      BY <1>5, <1>8, <2>1
    <3>2. p = LastCell(t)
      BY <1>1, <1>3, <1>9, <2>1 DEF LastCell, Before
    <3> QED
      BY <3>1, <3>2
  <2>2. CASE k # n
    <3>1. r.last = s[n] /\ t # <<>> /\ t[n - 1] = s[n]
      BY <1>1, <1>4, <1>5, <1>8, <1>9, <2>2, TailQueueAssumption
    <3>2. s[n] # p
      BY <1>1, <1>3, <2>2, TailQueueAssumption DEF Before
    <3> QED
      BY <1>1, <1>4, <1>8, <1>9, <3>1, <3>2 DEF LastCell, Cells
  <2> QED
    BY <2>1, <2>2
<1>13. ASSUME NEW j \in 1 .. n - 1
       PROVE  r.next[Before(t, j)] = t[j] /\ r.prev[t[j]] = Before(t, j)
  <2>1. CASE j < k
    <3>1. j \in 1 .. n /\ t[j] = s[j] /\ Before(t, j) = Before(s, j)
      BY <1>1, <1>9, <2>1 DEF Before
    <3>2. Before(s, j) # p /\ Before(s, j) \in Cells
      BY <1>1, <1>3, <2>1, <3>1, TailQueueAssumption DEF Before, Cells
    <3>3. s[j] # x
      BY <1>1, <1>5, <2>1, <3>1, TailQueueAssumption
    <3> QED
      BY <1>1, <1>2, <1>8, <3>1, <3>2, <3>3
  <2>2. CASE j = k
    <3>1. t[j] = s[k + 1] /\ Before(t, j) = p /\ k # n
      BY <1>1, <1>3, <1>9, <2>2 DEF Before
    <3> QED
      BY <1>1, <1>5, <1>8, <3>1, <2>2, TailQueueAssumption
  <2>3. CASE j > k
    <3>1. j + 1 \in 1 .. n /\ t[j] = s[j + 1] /\ Before(t, j) = s[j] /\ j \in 1 .. n
      BY <1>1, <1>9, <2>3 DEF Before
    <3>2. Before(s, j + 1) = s[j]
      BY <1>1, <3>1 DEF Before
    <3>3. s[j] # p
      BY <1>1, <1>3, <2>3, <3>1, TailQueueAssumption DEF Before
    <3>4. s[j + 1] # x
      <4>1. k # n /\ k + 1 \in 1 .. n /\ j + 1 # k + 1 /\ x = s[k + 1]
        BY <1>1, <1>5, <2>3, <3>1
      <4> QED
        BY <1>1, <3>1, <4>1
    <3> QED
      BY <1>1, <1>2, <1>8, <3>1, <3>2, <3>3, <3>4 DEF Cells
  <2> QED
    BY <1>1, <2>1, <2>2, <2>3
<1>14. ~RemoveFaults(q, e)
  BY <1>3, TailQueueAssumption DEF RemoveFaults, Cells
<1> QED
  BY <1>7, <1>9, <1>10, <1>11, <1>12, <1>13, <1>14 DEF Chain

\* Removing an element of the queue again, before anything else is done to the
\* queue, changes nothing: sys_ipc_recv and schedule do this.
LEMMA RemoveTwice ==
  ASSUME NEW q \in Queues, NEW s \in Seq(Envs), Chain(q, s), NEW k \in 1 .. Len(s)
  PROVE  LET r == TAILQ_REMOVE(q, s[k]) IN
         /\ ~RemoveFaults(r, s[k])
         /\ TAILQ_REMOVE(r, s[k]) = r
<1> DEFINE e == s[k]
           r == TAILQ_REMOVE(q, e)
           p == q.prev[e]
           x == q.next[e]
<1>1. e \in Envs /\ p = Before(s, k) /\ p \in Cells /\ p # e
  BY TailQueueAssumption DEF Chain, NoDuplicates, Before, Cells
<1>2. x \in Envs \cup {NULL}
  BY <1>1 DEF Queues, Cells
<1>3. x # e
  <2>1. CASE k = Len(s)
    BY <2>1, TailQueueAssumption DEF Chain, LastCell
  <2>2. CASE k # Len(s)
    <3>1. Len(s) \in Nat /\ k + 1 \in 1 .. Len(s) /\ Before(s, k + 1) = s[k] /\ k + 1 # k
      BY <2>2 DEF Before
    <3>2. q.next[s[k]] = s[k + 1]
      BY <3>1 DEF Chain
    <3> QED
      BY <3>1, <3>2 DEF Chain, NoDuplicates
  <2> QED
    BY <2>1, <2>2
<1>4. r.next[e] = x /\ r.prev[e] = p
  BY <1>1, <1>2, <1>3 DEF TAILQ_REMOVE, Queues, Cells
<1>5. r.next = [q.next EXCEPT ![p] = x]
  BY DEF TAILQ_REMOVE
<1>6. r = [next |-> r.next, prev |-> r.prev, last |-> r.last]
  BY DEF TAILQ_REMOVE
<1>7. [r.next EXCEPT ![p] = x] = r.next
  BY <1>1, <1>5 DEF Queues, Cells
<1>8. CASE x = NULL
  BY <1>4, <1>6, <1>7, <1>8, <1>1, TailQueueAssumption DEF TAILQ_REMOVE, RemoveFaults, Cells
<1>9. CASE x # NULL
  <2>1. r.prev = [q.prev EXCEPT ![x] = p]
    BY <1>9 DEF TAILQ_REMOVE
  <2>2. [r.prev EXCEPT ![x] = p] = r.prev
    BY <1>2, <1>9, <2>1 DEF Queues
  <2> QED
    BY <1>1, <1>4, <1>6, <1>7, <1>9, <2>2, TailQueueAssumption
    DEF TAILQ_REMOVE, RemoveFaults, Cells
<1> QED
  BY <1>8, <1>9

-----------------------------------------------------------------------------
(***************************************************************************)
(* A well-formed queue spells one sequence: SeqOf yields the one a proof   *)
(* has at hand.                                                            *)
(***************************************************************************)
\* The least element of a set of numbers.
LEMMA Least ==
  ASSUME NEW T \in SUBSET Nat, T # {}
  PROVE  \E m \in T : \A n \in T : m <= n
<1> DEFINE R == {ss \in Nat \X Nat : ss[1] < ss[2]}
<1>1. IsWellFoundedOn(R, Nat)
  BY NatLessThanWellFounded DEF OpToRel
<1>2. \A m, n \in Nat : n < m => <<n, m>> \in R
  OBVIOUS
<1> HIDE DEF R
<1>3. PICK m \in T : \A n \in T : ~(<<n, m>> \in R)
  BY <1>1, WFMin
<1>4. ASSUME NEW n \in T PROVE m <= n
  <2>1. m \in Nat /\ n \in Nat /\ ~(<<n, m>> \in R)
    BY <1>3
  <2>2. ~(n < m)
    BY <1>2, <2>1
  <2> QED
    BY <2>1, <2>2
<1> QED
  BY <1>4

\* The links of a queue spell one sequence only.
LEMMA ChainAgrees ==
  ASSUME NEW q \in Queues, NEW s \in Seq(Envs), NEW t \in Seq(Envs), Chain(q, s), Chain(q, t)
  PROVE  \A i \in 1 .. Len(s) : i \in 1 .. Len(t) /\ t[i] = s[i]
<1> DEFINE T == {i \in Nat : i \in 1 .. Len(s) /\ ~(i \in 1 .. Len(t) /\ t[i] = s[i])}
<1>1. CASE T = {}
  BY <1>1
<1>2. CASE T # {}
  <2>1. PICK m \in T : \A n \in T : m <= n
    <3>1. T \in SUBSET Nat
      OBVIOUS
    <3> HIDE DEF T
    <3> QED
      BY <1>2, <3>1, Least
  <2>2. /\ m \in 1 .. Len(s) /\ s[m] \in Envs /\ q.next[Before(s, m)] = s[m] /\ s[m] # NULL
        /\ ~(m \in 1 .. Len(t) /\ t[m] = s[m])
    BY <2>1, TailQueueAssumption DEF Chain
  <2>3. CASE m = 1
    <3>1. q.next[HEAD] = s[1]
      BY <2>2, <2>3 DEF Before
    <3>2. t # <<>>
      BY <2>2, <2>3, <3>1 DEF Chain, LastCell
    <3>3. 1 \in 1 .. Len(t) /\ q.next[HEAD] = t[1]
      BY <3>2 DEF Chain, Before
    <3> QED
      BY <2>2, <2>3, <3>1, <3>3
  <2>4. CASE m # 1
    <3>1. m - 1 \in 1 .. Len(s) /\ m - 1 \notin T /\ m \in Nat /\ Len(t) \in Nat
      BY <2>1, <2>2, <2>4
    <3>2. m - 1 \in 1 .. Len(t) /\ t[m - 1] = s[m - 1]
      BY <3>1
    <3>3. q.next[t[m - 1]] = s[m]
      BY <2>2, <2>4, <3>2 DEF Before
    <3>4. m - 1 # Len(t)
      <4>1. ASSUME m - 1 = Len(t) PROVE FALSE
        <5>1. t # <<>>
          BY <3>2
        <5>2. q.next[t[Len(t)]] = NULL
          BY <5>1 DEF Chain, LastCell
        <5> QED
          BY <2>2, <3>3, <4>1, <5>2
      <4> QED
        BY <4>1
    <3>5. m \in 1 .. Len(t)
      BY <3>1, <3>2, <3>4
    <3>6. q.next[t[m - 1]] = t[m]
      BY <2>4, <3>5 DEF Chain, Before
    <3> QED
      BY <2>2, <3>3, <3>5, <3>6
  <2> QED
    BY <2>3, <2>4
<1> QED
  BY <1>1, <1>2

LEMMA SeqOfChain ==
  ASSUME NEW q \in Queues, NEW s \in Seq(Envs), Chain(q, s)
  PROVE  SeqOf(q) = s
<1>1. s \in Lists
  BY NoDuplicatesBounded DEF Chain
<1>2. SeqOf(q) \in Lists /\ Chain(q, SeqOf(q))
  BY <1>1 DEF SeqOf
<1> DEFINE t == SeqOf(q)
<1>3. t \in Seq(Envs) /\ Chain(q, t)
  BY <1>2, ListsAreSequences
<1> HIDE DEF t
<1>4. /\ \A i \in 1 .. Len(s) : i \in 1 .. Len(t) /\ t[i] = s[i]
      /\ \A i \in 1 .. Len(t) : i \in 1 .. Len(s) /\ s[i] = t[i]
  BY <1>3, ChainAgrees
<1>5. Len(s) = Len(t)
  <2>1. Len(s) \in Nat /\ Len(t) \in Nat
    BY <1>3
  <2>2. Len(s) <= Len(t)
    BY <1>4, <2>1
  <2>3. Len(t) <= Len(s)
    BY <1>4, <2>1
  <2> QED
    BY <2>1, <2>2, <2>3
<1>6. s = t
  BY <1>3, <1>4, <1>5
<1> QED
  BY <1>6 DEF t
=============================================================================
