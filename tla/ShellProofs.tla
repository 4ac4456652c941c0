------------------------------ MODULE ShellProofs ------------------------------
(***************************************************************************)
(* Proofs about Shell, for any number of processes, descriptors, bytes and *)
(* command lines.                                                          *)
(*                                                                         *)
(* A process makes its system calls one at a time and others see what is   *)
(* mapped in between, so the invariant says of every process what it will  *)
(* have when the calls it is about to make are made (fin), and that each   *)
(* of them leaves a legal set of mappings (Seg).  A fork gives pages to a  *)
(* child that is not running yet: until it is, parent and child are looked *)
(* at together (Lends).                                                    *)
(***************************************************************************)
EXTENDS Shell, FiniteSetTheorems, SequenceTheorems, NaturalsInduction, TLAPS

-----------------------------------------------------------------------------
(***************************************************************************)
(* Numbers and loops.                                                      *)
(***************************************************************************)
\* Induction over numbers, on sets: from the least counterexample.
LEMMA LeastNat ==
  ASSUME NEW P \in SUBSET Nat, 0 \in P, \A n \in Nat : n \in P => n + 1 \in P
  PROVE  P = Nat
<1> SUFFICES ASSUME Nat \ P # {} PROVE FALSE
  OBVIOUS
<1>1. PICK n \in Nat \ P : \A y \in Nat \ P : ~(<<y, n>> \in OpToRel(<, Nat))
  BY NatLessThanWellFounded, WFMin
<1>2. n # 0 /\ n - 1 \in Nat
  OBVIOUS
<1>3. <<n - 1, n>> \in OpToRel(<, Nat)
  BY <1>2 DEF OpToRel
<1>4. n - 1 \in P
  BY <1>1, <1>2, <1>3
<1>5. (n - 1) + 1 = n
  OBVIOUS
<1> QED BY <1>2, <1>4, <1>5

\* Induction from a number to another.
LEMMA UpTo ==
  ASSUME NEW a \in Nat, NEW b \in Nat, a <= b, NEW P, a \in P, \A i \in a .. b - 1 : i \in P => i + 1 \in P
  PROVE  \A i \in a .. b : i \in P
<1> DEFINE Q == {n \in Nat : a + n <= b => a + n \in P}
<1>1. 0 \in Q
  OBVIOUS
<1>2. ASSUME NEW n \in Nat, n \in Q PROVE n + 1 \in Q
  <2>1. ASSUME a + (n + 1) <= b PROVE a + (n + 1) \in P
    <3>1. a + n \in a .. b - 1 /\ a + n \in P
      BY <1>2, <2>1
    <3>2. (a + n) + 1 \in P
      BY <3>1
    <3>3. (a + n) + 1 = a + (n + 1)
      OBVIOUS
    <3> QED BY <3>2, <3>3
  <2> QED BY <2>1
<1>3. Q = Nat
  <2>1. Q \in SUBSET Nat
    OBVIOUS
  <2> HIDE DEF Q
  <2> QED BY <2>1, <1>1, <1>2, LeastNat
<1>4. ASSUME NEW i \in a .. b PROVE i \in P
  <2>1. i - a \in Nat /\ a + (i - a) = i /\ i <= b
    OBVIOUS
  <2> QED BY <1>3, <2>1
<1> QED BY <1>4

\* The values of a loop of op from a to b.
LoopOf(f, m, op, a, b) == f = [i \in a .. b |-> IF i = a THEN m ELSE op[<<f[i - 1], i - 1>>]]

\* The function that counts a loop's rounds exists.
LEMMA LoopExists ==
  ASSUME NEW a \in Nat, NEW b \in Nat, a <= b, NEW m, NEW op
  PROVE  \E f : LoopOf(f, m, op, a, b)
<1> DEFINE Is(f, i) == f[i] = IF i = a THEN m ELSE op[<<f[i - 1], i - 1>>]
           P == {n \in a .. b : \E f : \A i \in a .. n : Is(f, i)}
<1>1. a \in P
  <2> DEFINE f == [i \in a .. a |-> m]
  <2>1. \A i \in a .. a : i = a
    OBVIOUS
  <2>2. \A i \in a .. a : Is(f, i)
    BY <2>1
  <2>3. a \in a .. b
    OBVIOUS
  <2> QED BY <2>2, <2>3
<1>2. ASSUME NEW n \in a .. b - 1, n \in P PROVE n + 1 \in P
  <2>1. PICK f : \A i \in a .. n : Is(f, i)
    BY <1>2
  <2> DEFINE g == [i \in a .. n + 1 |-> IF i <= n THEN f[i] ELSE op[<<f[i - 1], i - 1>>]]
  <2>2. \A i \in a .. n : g[i] = f[i]
    OBVIOUS
  <2>3. ASSUME NEW i \in a .. n + 1 PROVE Is(g, i)
    <3>1. CASE i <= n /\ i = a
      <4>1. i \in a .. n
        BY <3>1
      <4> QED BY <2>1, <2>2, <3>1, <4>1
    <3>2. CASE i <= n /\ i # a
      <4>1. i \in a .. n /\ i - 1 \in a .. n
        BY <3>2
      <4>2. f[i] = op[<<f[i - 1], i - 1>>]
        BY <2>1, <3>2, <4>1
      <4>3. g[i] = f[i] /\ g[i - 1] = f[i - 1]
        BY <2>2, <4>1
      <4> QED BY <3>2, <4>2, <4>3
    <3>3. CASE ~(i <= n)
      <4>1. i - 1 \in a .. n /\ i # a
        BY <3>3
      <4>2. g[i - 1] = f[i - 1]
        BY <2>2, <4>1
      <4>3. g[i] = op[<<f[i - 1], i - 1>>]
        BY <3>3
      <4> QED BY <4>1, <4>2, <4>3
    <3> QED BY <3>1, <3>2, <3>3
  <2> HIDE DEF g, Is
  <2>4. \E f1 : \A i \in a .. n + 1 : Is(f1, i)
    BY <2>3
  <2>5. n + 1 \in a .. b
    OBVIOUS
  <2> QED BY <2>4, <2>5
<1>3. b \in P
  <2> HIDE DEF P
  <2>1. b \in a .. b
    OBVIOUS
  <2> QED BY <1>1, <1>2, <2>1, UpTo
<1>4. PICK f : \A i \in a .. b : Is(f, i)
  BY <1>3
<1> DEFINE g == [i \in a .. b |-> f[i]]
<1>5. ASSUME NEW i \in a .. b PROVE f[i] = IF i = a THEN m ELSE op[<<g[i - 1], i - 1>>]
  <2>1. i # a => i - 1 \in a .. b
    OBVIOUS
  <2>2. i # a => g[i - 1] = f[i - 1]
    BY <2>1
  <2> QED BY <1>4, <2>2
<1>6. g = [i \in a .. b |-> IF i = a THEN m ELSE op[<<g[i - 1], i - 1>>]]
  BY <1>5
<1> QED BY <1>6 DEF LoopOf

-----------------------------------------------------------------------------
(***************************************************************************)
(* The pages of one process, and what its own calls do to them.            *)
(***************************************************************************)
Maps     == [Slots -> Pages \cup {NIL}]
Calls    == [call : {"map", "unmap", "start"}, who : Procs, slot : Slots, page : Pages \cup {NIL}]
Moves(p) == {c \in Calls : c.call \in {"map", "unmap"} /\ c.who = p}

Eff(f, c) == [f EXCEPT ![c.slot] = IF c.call = "map" THEN c.page ELSE NIL]

\* A descriptor of a pipe has the pipe's buffer, and the pipe is one of k.
Fine(f, k) ==
  /\ f \in Maps
  /\ \A n \in Fds : IsPipe(f[fd(n)]) => f[data(n)] = Page(f[fd(n)].pipe, "buf")
  /\ \A n \in Fds : f[data(n)] # NIL => f[data(n)].what = "buf"
  /\ \A s \in Slots : f[s] # NIL => f[s].pipe <= k

\* The calls o of process p lead from m to f, and everything on the way is fine.
Seg(p, o, m, f, k) ==
  \E h \in [0 .. Len(o) -> Maps] :
    /\ h[0] = m /\ h[Len(o)] = f
    /\ \A j \in 0 .. Len(o) : Fine(h[j], k)
    /\ \A j \in 1 .. Len(o) : o[j] \in Moves(p) /\ h[j] = Eff(h[j - 1], o[j])

\* Sequences of calls, and FlattenSeq, piece by piece.
Row(s, n) == s \in [1 .. n -> Seq(Calls)]

\* FlattenSeq, which puts close_all and Share together, is a fold: the values it goes
\* through are those of a loop.
LEMMA Flatten ==
  ASSUME NEW n \in Nat, n > 0, NEW s, Row(s, n)
  PROVE  \E f : Row(f, n) /\ f[1] = s[1] /\ (\A i \in 1 .. n - 1 : f[i + 1] = f[i] \o s[i + 1]) /\ FlattenSeq(s) = f[n]
<1> USE DEF Row
<1> DEFINE op == [x \in Seq(Calls) \X (1 .. n) |-> x[1] \o s[x[2] + 1]]
           F(f, i) == IF i = 1 THEN s[i] ELSE f[i - 1] \o s[i]
<1>1. s \in Seq(Seq(Calls)) /\ Len(s) = n /\ s[1] \in Seq(Calls)
  OBVIOUS
<1>2. 1 \in Nat /\ 1 <= n
  OBVIOUS
<1>3. PICK f : LoopOf(f, s[1], op, 1, n)
  <2> HIDE DEF op
  <2> QED BY <1>2, LoopExists
<1>4. \A i \in 1 .. n : f[i] = IF i = 1 THEN s[1] ELSE op[<<f[i - 1], i - 1>>]
  <2> DEFINE G(i) == IF i = 1 THEN s[1] ELSE op[<<f[i - 1], i - 1>>]
  <2>1. f = [i \in 1 .. n |-> G(i)]
    BY <1>3 DEF LoopOf
  <2> HIDE DEF G
  <2>2. \A i \in 1 .. n : f[i] = G(i)
    BY <2>1
  <2> QED BY <2>2 DEF G
<1>5. f[1] = s[1] /\ f[1] \in Seq(Calls)
  <2>1. 1 \in 1 .. n
    OBVIOUS
  <2> QED BY <1>1, <1>4, <2>1
<1>6. ASSUME NEW i \in 1 .. n - 1, f[i] \in Seq(Calls)
      PROVE  f[i + 1] = f[i] \o s[i + 1] /\ f[i + 1] \in Seq(Calls)
  <2>1. i + 1 \in 1 .. n /\ i + 1 # 1 /\ (i + 1) - 1 = i /\ i \in 1 .. n
    OBVIOUS
  <2>2. f[i + 1] = op[<<f[i], i>>]
    BY <1>4, <2>1
  <2>3. s[i + 1] \in Seq(Calls)
    BY <2>1
  <2> QED BY <1>6, <2>1, <2>2, <2>3, ConcatProperties
<1>7. \A i \in 1 .. n : f[i] \in Seq(Calls)
  <2> DEFINE P == {i \in 1 .. n : f[i] \in Seq(Calls)}
  <2>1. 1 \in P
    BY <1>5
  <2>2. ASSUME NEW i \in 1 .. n - 1, i \in P PROVE i + 1 \in P
    <3>1. i + 1 \in 1 .. n
      OBVIOUS
    <3>2. f[i + 1] \in Seq(Calls)
      BY <1>6, <2>2
    <3> QED BY <3>1, <3>2
  <2>3. \A i \in 1 .. n : i \in P
    <3> HIDE DEF P
    <3> QED BY <1>2, <2>1, <2>2, UpTo
  <2> QED BY <2>3
<1> HIDE DEF op
<1>8. f = [i \in 1 .. n |-> f[i]]
  <2> DEFINE G(i) == IF i = 1 THEN s[1] ELSE op[<<f[i - 1], i - 1>>]
  <2>1. f = [i \in 1 .. n |-> G(i)]
    BY <1>3 DEF LoopOf
  <2> HIDE DEF G
  <2> QED BY <2>1
<1>9. \A i \in 1 .. n : f[i] = F(f, i)
  <2>1. ASSUME NEW i \in 1 .. n, i # 1 PROVE f[i] = f[i - 1] \o s[i]
    <3>1. PICK j \in 1 .. n - 1 : j + 1 = i /\ j = i - 1 /\ j \in 1 .. n
      BY <2>1
    <3>2. f[j + 1] = f[j] \o s[j + 1]
      BY <1>6, <1>7, <3>1
    <3> QED BY <3>1, <3>2
  <2> QED BY <1>5, <2>1
<1>10. f = [i \in 1 .. n |-> F(f, i)]
  BY <1>8, <1>9
<1> DEFINE C == CHOOSE g : g = [i \in 1 .. n |-> F(g, i)]
<1>11. C = [i \in 1 .. n |-> F(C, i)]
  <2>1. \E g : g = [i \in 1 .. n |-> F(g, i)]
    <3> HIDE DEF F
    <3> QED BY <1>10
  <2> HIDE DEF F
  <2> QED BY <2>1
<1>12. FlattenSeq(s) = C[n]
  BY <1>1 DEF FlattenSeq
<1> HIDE DEF C
<1>13. \A i \in 1 .. n : C[i] = F(C, i)
  <2> HIDE DEF F
  <2> QED BY <1>11
<1>14. \A i \in 1 .. n : C[i] = f[i]
  <2> DEFINE P == {i \in 1 .. n : C[i] = f[i]}
  <2>1. 1 \in P
    BY <1>5, <1>13
  <2>2. ASSUME NEW i \in 1 .. n - 1, i \in P PROVE i + 1 \in P
    <3>1. i + 1 \in 1 .. n /\ i + 1 # 1 /\ (i + 1) - 1 = i
      OBVIOUS
    <3>2. C[i + 1] = C[i] \o s[i + 1]
      BY <1>13, <3>1
    <3> QED BY <1>6, <1>7, <2>2, <3>1, <3>2
  <2>3. \A i \in 1 .. n : i \in P
    <3> HIDE DEF P
    <3> QED BY <1>2, <2>1, <2>2, UpTo
  <2> QED BY <2>3
<1>15. FlattenSeq(s) = f[n] /\ f \in [1 .. n -> Seq(Calls)]
  BY <1>7, <1>8, <1>12, <1>14
<1>16. \A i \in 1 .. n - 1 : f[i + 1] = f[i] \o s[i + 1]
  <2>1. \A i \in 1 .. n - 1 : i \in 1 .. n
    OBVIOUS
  <2> QED BY <1>6, <1>7, <2>1
<1> QED BY <1>5, <1>15, <1>16

\* Where the pages of the descriptors are.
LEMMA SlotFacts ==
  /\ MAXFD \in Nat /\ MAXFD > 5
  /\ \A n \in Fds : /\ n \in Nat /\ n < MAXFD /\ fd(n) = n /\ data(n) = MAXFD + n
                    /\ fd(n) \in Slots /\ data(n) \in Slots
  /\ \A n, k \in Fds : fd(n) # data(k) /\ (fd(n) = fd(k) => n = k) /\ (data(n) = data(k) => n = k)
  /\ \A s \in Slots : \E n \in Fds : s = fd(n) \/ s = data(n)
  /\ {0, 1, 2, 3, 4} \subseteq Fds
<1>1. MAXFD \in Nat /\ MAXFD > 5
  BY ShellAssumption
<1>2. ASSUME NEW s \in Slots PROVE \E n \in Fds : s = fd(n) \/ s = data(n)
  <2>1. CASE s < MAXFD
    <3>1. s \in Fds
      BY <1>1, <2>1 DEF Slots, Fds
    <3> QED BY <3>1 DEF fd
  <2>2. CASE ~(s < MAXFD)
    <3>1. s - MAXFD \in Fds /\ MAXFD + (s - MAXFD) = s
      BY <1>1, <2>2 DEF Slots, Fds
    <3> QED BY <3>1 DEF data
  <2> QED BY <2>1, <2>2
<1> QED BY <1>1, <1>2 DEF Fds, Slots, fd, data

\* What a call does to one slot.
LEMMA EffIs ==
  ASSUME NEW f \in Maps, NEW p, NEW c \in Moves(p)
  PROVE  /\ Eff(f, c) \in Maps
         /\ \A s \in Slots : Eff(f, c)[s] = IF s # c.slot THEN f[s] ELSE IF c.call = "map" THEN c.page ELSE NIL
BY DEF Eff, Moves, Calls, Maps

\* Before and after its calls a process has a legal set of mappings.
LEMMA SegFine ==
  ASSUME NEW p, NEW o \in Seq(Calls), NEW m, NEW f, NEW k, Seg(p, o, m, f, k)
  PROVE  Fine(m, k) /\ Fine(f, k) /\ (o = <<>> => f = m)
<1>1. 0 \in 0 .. Len(o) /\ Len(o) \in 0 .. Len(o) /\ (o = <<>> => Len(o) = 0)
  OBVIOUS
<1> QED BY <1>1 DEF Seg

\* Making no calls.
LEMMA SegNil ==
  ASSUME NEW p, NEW m, NEW k, Fine(m, k)
  PROVE  Seg(p, <<>>, m, m, k)
<1> DEFINE h == [j \in 0 .. 0 |-> m]
<1>1. h \in [0 .. 0 -> Maps] /\ h[0] = m /\ Len(<<>>) = 0 /\ \A j \in 0 .. 0 : Fine(h[j], k)
  BY DEF Fine
<1>2. \A j \in 1 .. 0 : FALSE
  OBVIOUS
<1> HIDE DEF h
<1> QED BY <1>1, <1>2 DEF Seg

\* Making one call that leaves a legal set of mappings.
LEMMA SegOne ==
  ASSUME NEW p, NEW m, NEW k, NEW c \in Moves(p), Fine(m, k), NEW f, f = Eff(m, c), Fine(f, k)
  PROVE  Seg(p, <<c>>, m, f, k)
<1> DEFINE h == [j \in 0 .. 1 |-> IF j = 0 THEN m ELSE f]
<1>1. h \in [0 .. 1 -> Maps] /\ h[0] = m /\ h[1] = f /\ Len(<<c>>) = 1 /\ <<c>>[1] = c
  BY DEF Fine
<1>2. \A j \in 0 .. 1 : Fine(h[j], k)
  OBVIOUS
<1>3. \A j \in 1 .. 1 : <<c>>[j] \in Moves(p) /\ h[j] = Eff(h[j - 1], <<c>>[j])
  OBVIOUS
<1> HIDE DEF h
<1> QED BY <1>1, <1>2, <1>3 DEF Seg

\* The first call is made.
LEMMA SegTail ==
  ASSUME NEW p, NEW o \in Seq(Calls), o # <<>>, NEW m, NEW f, NEW k, Seg(p, o, m, f, k)
  PROVE  o[1] \in Moves(p) /\ Seg(p, Tail(o), Eff(m, o[1]), f, k)
<1>1. PICK h \in [0 .. Len(o) -> Maps] :
        /\ h[0] = m /\ h[Len(o)] = f
        /\ \A j \in 0 .. Len(o) : Fine(h[j], k)
        /\ \A j \in 1 .. Len(o) : o[j] \in Moves(p) /\ h[j] = Eff(h[j - 1], o[j])
  BY DEF Seg
<1> DEFINE g == [j \in 0 .. Len(o) - 1 |-> h[j + 1]]
<1>2. Len(o) \in Nat /\ Len(o) > 0 /\ Len(Tail(o)) = Len(o) - 1
      /\ \A j \in 1 .. Len(o) - 1 : Tail(o)[j] = o[j + 1]
  OBVIOUS
<1>3. g \in [0 .. Len(o) - 1 -> Maps]
  BY <1>1, <1>2
<1>4. 1 \in 1 .. Len(o)
  BY <1>2
<1>5. o[1] \in Moves(p) /\ g[0] = Eff(m, o[1])
  BY <1>1, <1>2, <1>4
<1>6. g[Len(o) - 1] = f
  BY <1>1, <1>2
<1>7. \A j \in 0 .. Len(o) - 1 : Fine(g[j], k)
  BY <1>1, <1>2
<1>8. ASSUME NEW j \in 1 .. Len(o) - 1 PROVE Tail(o)[j] \in Moves(p) /\ g[j] = Eff(g[j - 1], Tail(o)[j])
  <2>1. j + 1 \in 1 .. Len(o) /\ j \in 0 .. Len(o) - 1 /\ j - 1 \in 0 .. Len(o) - 1 /\ (j + 1) - 1 = j /\ (j - 1) + 1 = j
    BY <1>2
  <2>2. o[j + 1] \in Moves(p) /\ h[j + 1] = Eff(h[(j + 1) - 1], o[j + 1])
    BY <1>1, <2>1
  <2>3. g[j] = h[j + 1] /\ g[j - 1] = h[j]
    BY <2>1
  <2> QED BY <1>2, <2>1, <2>2, <2>3
<1> HIDE DEF g
<1> QED BY <1>2, <1>3, <1>5, <1>6, <1>7, <1>8 DEF Seg

\* Calls after calls.
LEMMA SegCat ==
  ASSUME NEW p, NEW a \in Seq(Calls), NEW b \in Seq(Calls), NEW m, NEW g, NEW f, NEW k,
         Seg(p, a, m, g, k), Seg(p, b, g, f, k)
  PROVE  a \o b \in Seq(Calls) /\ Seg(p, a \o b, m, f, k)
<1>1. PICK h1 \in [0 .. Len(a) -> Maps] :
        /\ h1[0] = m /\ h1[Len(a)] = g
        /\ \A j \in 0 .. Len(a) : Fine(h1[j], k)
        /\ \A j \in 1 .. Len(a) : a[j] \in Moves(p) /\ h1[j] = Eff(h1[j - 1], a[j])
  BY DEF Seg
<1>2. PICK h2 \in [0 .. Len(b) -> Maps] :
        /\ h2[0] = g /\ h2[Len(b)] = f
        /\ \A j \in 0 .. Len(b) : Fine(h2[j], k)
        /\ \A j \in 1 .. Len(b) : b[j] \in Moves(p) /\ h2[j] = Eff(h2[j - 1], b[j])
  BY DEF Seg
<1> DEFINE n == Len(a)
           l == Len(b)
           h == [j \in 0 .. n + l |-> IF j <= n THEN h1[j] ELSE h2[j - n]]
<1>3. n \in Nat /\ l \in Nat /\ a \o b \in Seq(Calls) /\ Len(a \o b) = n + l
      /\ (\A j \in 1 .. n : (a \o b)[j] = a[j]) /\ (\A j \in n + 1 .. n + l : (a \o b)[j] = b[j - n])
  OBVIOUS
<1> HIDE DEF n, l
<1>a. n = Len(a) /\ l = Len(b)
  BY DEF n, l
<1>4. \A j \in 0 .. n : h[j] = h1[j]
  BY <1>3
<1>5. ASSUME NEW j \in n .. n + l PROVE h[j] = h2[j - n]
  <2>1. CASE j = n
    BY <1>1, <1>2, <1>3, <1>a, <2>1
  <2>2. CASE j # n
    BY <1>3, <2>2
  <2> QED BY <2>1, <2>2
<1>6. ASSUME NEW j \in 0 .. n + l PROVE h[j] \in Maps /\ Fine(h[j], k)
  <2>1. CASE j <= n
    <3>1. j \in 0 .. n
      BY <1>3, <2>1
    <3> QED BY <1>1, <1>4, <1>a, <3>1
  <2>2. CASE ~(j <= n)
    <3>1. j \in n .. n + l /\ j - n \in 0 .. l
      BY <1>3, <2>2
    <3> QED BY <1>2, <1>5, <1>a, <3>1
  <2> QED BY <2>1, <2>2
<1>7. h[0] = m /\ h[n + l] = f
  <2>1. 0 \in 0 .. n /\ n + l \in n .. n + l /\ (n + l) - n = l
    BY <1>3
  <2> QED BY <1>1, <1>2, <1>4, <1>5, <1>a, <2>1
<1>8. h \in [0 .. n + l -> Maps]
  BY <1>6
<1>9. ASSUME NEW j \in 1 .. n + l PROVE (a \o b)[j] \in Moves(p) /\ h[j] = Eff(h[j - 1], (a \o b)[j])
  <2>1. CASE j <= n
    <3>1. j \in 1 .. n /\ j \in 0 .. n /\ j - 1 \in 0 .. n
      BY <1>3, <2>1
    <3> QED BY <1>1, <1>3, <1>4, <1>a, <3>1
  <2>2. CASE ~(j <= n)
    <3>1. j \in n + 1 .. n + l /\ j \in n .. n + l /\ j - 1 \in n .. n + l /\ j - n \in 1 .. l
          /\ (j - n) - 1 = (j - 1) - n
      BY <1>3, <2>2
    <3>2. b[j - n] \in Moves(p) /\ h2[j - n] = Eff(h2[(j - n) - 1], b[j - n])
      BY <1>2, <1>a, <3>1
    <3>3. h[j] = h2[j - n] /\ h[j - 1] = h2[(j - 1) - n]
      BY <1>5, <3>1
    <3> QED BY <1>3, <3>1, <3>2, <3>3
  <2> QED BY <2>1, <2>2
<1> HIDE DEF h
<1> QED BY <1>3, <1>6, <1>7, <1>8, <1>9 DEF Seg

\* More pipes do no harm.
LEMMA SegMore ==
  ASSUME NEW p, NEW o, NEW m, NEW f, NEW k \in Int, NEW k2 \in Int, k <= k2, Seg(p, o, m, f, k)
  PROVE  Seg(p, o, m, f, k2)
<1>1. ASSUME NEW g, Fine(g, k) PROVE Fine(g, k2)
  <2>1. \A s \in Slots : g[s] # NIL => g[s].pipe \in Int
    BY <1>1 DEF Fine, Maps, Pages
  <2> QED BY <1>1, <2>1 DEF Fine
<1> QED BY <1>1 DEF Seg

-----------------------------------------------------------------------------
(***************************************************************************)
(* close, dup, close_all and the sharing of fork and spawn.                *)
(***************************************************************************)
\* The maps after close of descriptor n, and after dup of old to new.
Shut(m, n)       == [s \in Slots |-> IF m[fd(n)] # NIL /\ (s = fd(n) \/ (s = data(n) /\ IsPipe(m[fd(n)])))
                                       THEN NIL ELSE m[s]]
Duped(m, old, new) == [s \in Slots |-> IF s = fd(new) THEN m[fd(old)]
                                       ELSE IF s = data(new) /\ m[data(old)] # NIL THEN m[data(old)]
                                       ELSE Shut(m, new)[s]]

\* A page that is unmapped.
LEMMA Unmapped ==
  ASSUME NEW p \in Procs, NEW m, NEW k, Fine(m, k), NEW n \in Fds, NEW s \in Slots,
         s = fd(n) \/ (s = data(n) /\ m[fd(n)] = NIL), NEW x \in Pages \cup {NIL}
  PROVE  /\ Unmap(p, s, x) \in Moves(p) /\ Eff(m, Unmap(p, s, x)) = [m EXCEPT ![s] = NIL]
         /\ Fine([m EXCEPT ![s] = NIL], k)
<1>1. Unmap(p, s, x) \in Moves(p) /\ Eff(m, Unmap(p, s, x)) = [m EXCEPT ![s] = NIL]
  BY DEF Unmap, Moves, Calls, Eff
<1> DEFINE f == [m EXCEPT ![s] = NIL]
<1>2. f \in Maps /\ \A t \in Slots : f[t] = IF t = s THEN NIL ELSE m[t]
  BY DEF Fine, Maps
<1> HIDE DEF f
<1>3. ASSUME NEW i \in Fds, IsPipe(f[fd(i)]) PROVE f[data(i)] = Page(f[fd(i)].pipe, "buf")
  <2>1. f[fd(i)] = m[fd(i)] /\ fd(i) # s /\ IsPipe(m[fd(i)])
    BY <1>2, <1>3, SlotFacts DEF IsPipe
  <2>2. data(i) # s
    <3>1. CASE s = fd(n)
      BY <3>1, SlotFacts
    <3>2. CASE s = data(n) /\ m[fd(n)] = NIL
      <4>1. i # n
        BY <2>1, <3>2 DEF IsPipe
      <4> QED BY <3>2, <4>1, SlotFacts
    <3> QED BY <3>1, <3>2
  <2> QED BY <1>2, <2>1, <2>2, SlotFacts DEF Fine
<1>4. \A i \in Fds : f[data(i)] # NIL => f[data(i)].what = "buf"
  BY <1>2, SlotFacts DEF Fine
<1>5. \A t \in Slots : f[t] # NIL => f[t].pipe <= k
  BY <1>2 DEF Fine
<1>6. Fine(f, k)
  BY <1>2, <1>3, <1>4, <1>5 DEF Fine
<1> QED BY <1>1, <1>6 DEF f

\* close, with calls that have been computed for pages m0.
LEMMA CloseSeg ==
  ASSUME NEW p \in Procs, NEW n \in Fds, NEW m0 \in Maps, NEW m, NEW k, Fine(m, k),
         m[fd(n)] = m0[fd(n)]
  PROVE  close(p, m0, n) \in Seq(Calls) /\ Seg(p, close(p, m0, n), m, Shut(m, n), k)
<1>1. m \in Maps /\ fd(n) \in Slots /\ data(n) \in Slots /\ fd(n) # data(n)
  BY SlotFacts DEF Fine
<1>2. m0[fd(n)] \in Pages \cup {NIL} /\ m0[data(n)] \in Pages \cup {NIL}
  BY <1>1 DEF Maps
<1>3. CASE m0[fd(n)] = NIL
  <2>1. close(p, m0, n) = <<>>
    BY <1>3 DEF close, IsPipe
  <2>2. Shut(m, n) = m
    BY <1>1, <1>3 DEF Shut, Maps
  <2> QED BY <2>1, <2>2, SegNil
<1> DEFINE a == Unmap(p, fd(n), m0[fd(n)])
           b == Unmap(p, data(n), m0[data(n)])
           m1 == [m EXCEPT ![fd(n)] = NIL]
           m2 == [m1 EXCEPT ![data(n)] = NIL]
<1>4. a \in Moves(p) /\ Eff(m, a) = m1 /\ Fine(m1, k)
  BY <1>1, <1>2, Unmapped
<1>5. Seg(p, <<a>>, m, m1, k) /\ a \in Calls
  <2> HIDE DEF a, m1
  <2> QED BY <1>4, SegOne DEF Moves
<1>6. CASE m0[fd(n)] # NIL /\ IsPipe(m0[fd(n)])
  <2>1. close(p, m0, n) = <<a>> \o <<b>>
    BY <1>6 DEF close
  <2>2. m1[fd(n)] = NIL
    BY <1>1 DEF Maps
  <2>3. b \in Moves(p) /\ Eff(m1, b) = m2 /\ Fine(m2, k)
    <3> HIDE DEF m1
    <3> QED BY <1>1, <1>2, <1>4, <2>2, Unmapped
  <2>4. Seg(p, <<b>>, m1, m2, k) /\ b \in Calls
    <3> HIDE DEF b, m1, m2
    <3> QED BY <1>4, <2>3, SegOne DEF Moves
  <2>5. m2 = Shut(m, n)
    BY <1>1, <1>6 DEF Shut, Maps
  <2>6. <<a>> \in Seq(Calls) /\ <<b>> \in Seq(Calls)
    BY <1>5, <2>4
  <2> HIDE DEF a, b, m1, m2
  <2> QED BY <1>5, <2>1, <2>4, <2>5, <2>6, SegCat
<1>7. CASE m0[fd(n)] # NIL /\ ~IsPipe(m0[fd(n)])
  <2>1. close(p, m0, n) = <<a>>
    BY <1>7 DEF close
  <2>2. m1 = Shut(m, n)
    BY <1>1, <1>7 DEF Shut, Maps
  <2> HIDE DEF a, m1
  <2> QED BY <1>5, <2>1, <2>2
<1> QED BY <1>3, <1>6, <1>7

\* A buffer is mapped before the descriptor it belongs to.
LEMMA Mapped ==
  ASSUME NEW p \in Procs, NEW m, NEW k, Fine(m, k), NEW n \in Fds, NEW s \in Slots, NEW x \in Pages,
         \/ s = data(n) /\ m[fd(n)] = NIL /\ x.what = "buf"
         \/ s = fd(n) /\ (IsPipe(x) => m[data(n)] = Page(x.pipe, "buf")),
         x.pipe <= k
  PROVE  /\ Map(p, s, x) \in Moves(p) /\ Eff(m, Map(p, s, x)) = [m EXCEPT ![s] = x]
         /\ Fine([m EXCEPT ![s] = x], k)
<1>1. Map(p, s, x) \in Moves(p) /\ Eff(m, Map(p, s, x)) = [m EXCEPT ![s] = x]
  BY DEF Map, Moves, Calls, Eff
<1> DEFINE f == [m EXCEPT ![s] = x]
<1>2. f \in Maps /\ \A t \in Slots : f[t] = IF t = s THEN x ELSE m[t]
  BY DEF Fine, Maps
<1> HIDE DEF f
<1>3. ASSUME NEW i \in Fds, IsPipe(f[fd(i)]) PROVE f[data(i)] = Page(f[fd(i)].pipe, "buf")
  <2>1. CASE i # n
    BY <1>2, <1>3, <2>1, SlotFacts DEF Fine
  <2>2. CASE i = n /\ s = data(n)
    <3>1. f[fd(i)] = NIL
      BY <1>2, <2>2, SlotFacts
    <3> QED BY <1>3, <3>1 DEF IsPipe
  <2>3. CASE i = n /\ s = fd(n)
    <3>1. f[fd(i)] = x /\ f[data(i)] = m[data(n)] /\ data(n) # s
      BY <1>2, <2>3, SlotFacts
    <3> QED BY <1>3, <2>3, <3>1, SlotFacts
  <2> QED BY <2>1, <2>2, <2>3
<1>4. ASSUME NEW i \in Fds, f[data(i)] # NIL PROVE f[data(i)].what = "buf"
  BY <1>2, <1>4, SlotFacts DEF Fine
<1>5. \A t \in Slots : f[t] # NIL => f[t].pipe <= k
  BY <1>2 DEF Fine
<1>6. Fine(f, k)
  BY <1>2, <1>3, <1>4, <1>5 DEF Fine
<1> QED BY <1>1, <1>6 DEF f

\* dup: what new had is unmapped, then the buffer and the descriptor are mapped.
LEMMA DupSeg ==
  ASSUME NEW p \in Procs, NEW old \in Fds, NEW new \in Fds, old # new, NEW m, NEW k, Fine(m, k), m[fd(old)] # NIL
  PROVE  dup(p, m, old, new) \in Seq(Calls) /\ Seg(p, dup(p, m, old, new), m, Duped(m, old, new), k)
<1>1. /\ m \in Maps /\ fd(new) \in Slots /\ data(new) \in Slots /\ fd(new) # data(new)
      /\ fd(old) \in Slots /\ data(old) \in Slots
  BY SlotFacts DEF Fine
<1>2. close(p, m, new) \in Seq(Calls) /\ Seg(p, close(p, m, new), m, Shut(m, new), k)
  BY <1>1, CloseSeg
<1> DEFINE g == Shut(m, new)
           d == m[data(old)]
           x == m[fd(old)]
           g1 == IF d = NIL THEN g ELSE [g EXCEPT ![data(new)] = d]
           g2 == [g1 EXCEPT ![fd(new)] = x]
           mid == IF d = NIL THEN <<>> ELSE <<Map(p, data(new), d)>>
           last == <<Map(p, fd(new), x)>>
<1>3. dup(p, m, old, new) = (close(p, m, new) \o mid) \o last
  BY DEF dup
<1>4. Fine(g, k) /\ g \in Maps /\ g[fd(new)] = NIL
  <2>1. Fine(g, k)
    <3> HIDE DEF g
    <3> QED BY <1>2, SegFine DEF g
  <2>a. g \in Maps
    BY <2>1 DEF Fine
  <2>2. g[fd(new)] = NIL
    BY <1>1 DEF Shut
  <2> QED BY <2>1, <2>a, <2>2
<1>5. x \in Pages /\ x.pipe <= k /\ (d # NIL => d \in Pages /\ d.what = "buf" /\ d.pipe <= k)
      /\ (IsPipe(x) => d = Page(x.pipe, "buf"))
  BY <1>1 DEF Fine, Maps
<1>6. d = NIL \/ d # NIL
  OBVIOUS
<1>7. Seg(p, mid, g, g1, k) /\ mid \in Seq(Calls) /\ g1 \in Maps /\ g1[fd(new)] = NIL
      /\ g1[data(new)] = (IF d = NIL THEN g[data(new)] ELSE d)
  <2>1. CASE d = NIL
    <3> HIDE DEF g, d
    <3> QED BY <1>4, <2>1, SegNil
  <2>2. CASE d # NIL
    <3>1. d \in Pages /\ d.what = "buf" /\ d.pipe <= k
      BY <1>5, <2>2
    <3> HIDE DEF g, d, x
    <3>2. /\ Map(p, data(new), d) \in Moves(p)
          /\ Eff(g, Map(p, data(new), d)) = [g EXCEPT ![data(new)] = d]
          /\ Fine([g EXCEPT ![data(new)] = d], k)
      BY <1>1, <1>4, <3>1, Mapped
    <3>3. Seg(p, <<Map(p, data(new), d)>>, g, [g EXCEPT ![data(new)] = d], k)
      BY <1>4, <3>2, SegOne
    <3>4. mid = <<Map(p, data(new), d)>> /\ g1 = [g EXCEPT ![data(new)] = d]
      BY <2>2
    <3>5. Map(p, data(new), d) \in Calls
      BY <3>2 DEF Moves
    <3> QED BY <1>1, <1>4, <2>2, <3>1, <3>3, <3>4, <3>5 DEF Maps
  <2> QED BY <1>6, <2>1, <2>2
<1>8. Fine(g1, k)
  <2> HIDE DEF g, g1, mid
  <2> QED BY <1>7, SegFine
<1>9. Seg(p, last, g1, g2, k) /\ last \in Seq(Calls)
  <2>1. IsPipe(x) => g1[data(new)] = Page(x.pipe, "buf")
    <3>1. NIL # Page(x.pipe, "buf") \/ ~IsPipe(x)
      <4>1. IsPipe(x) => Page(x.pipe, "buf") \in Pages
        BY <1>5 DEF Page, Pages
      <4> QED BY <4>1, NilAssumption
    <3> QED BY <1>5, <1>7, <3>1
  <2> HIDE DEF g, g1, x, d
  <2>2. /\ Map(p, fd(new), x) \in Moves(p)
        /\ Eff(g1, Map(p, fd(new), x)) = g2
        /\ Fine(g2, k)
    BY <1>1, <1>5, <1>8, <2>1, Mapped
  <2> HIDE DEF g2
  <2>3. Seg(p, <<Map(p, fd(new), x)>>, g1, g2, k) /\ Map(p, fd(new), x) \in Calls
    BY <1>8, <2>2, SegOne DEF Moves
  <2> QED BY <2>3
<1>10. g2 = Duped(m, old, new)
  BY <1>1, <1>4, <1>7 DEF Duped, Maps
<1> HIDE DEF g, d, x, g1, g2, mid, last
<1>11. close(p, m, new) \o mid \in Seq(Calls) /\ Seg(p, close(p, m, new) \o mid, m, g1, k)
  BY <1>2, <1>7, SegCat DEF g
<1>12. (close(p, m, new) \o mid) \o last \in Seq(Calls) /\ Seg(p, (close(p, m, new) \o mid) \o last, m, g2, k)
  BY <1>9, <1>11, SegCat
<1> QED BY <1>3, <1>10, <1>12

\* close_all, descriptor after descriptor.
LEMMA CloseAllSeg ==
  ASSUME NEW p \in Procs, NEW m, NEW k, Fine(m, k)
  PROVE  close_all(p, m) \in Seq(Calls) /\ \E f : Seg(p, close_all(p, m), m, f, k)
<1> DEFINE s == [j \in 1 .. MAXFD |-> close(p, m, j - 1)]
<1>1. m \in Maps /\ MAXFD \in Nat /\ MAXFD > 0 /\ 1 \in Nat /\ 1 <= MAXFD /\ MAXFD \in 1 .. MAXFD
  BY SlotFacts DEF Fine
<1>2. ASSUME NEW j \in 1 .. MAXFD PROVE s[j] \in Seq(Calls)
  <2>1. j - 1 \in Fds
    BY <1>1 DEF Fds
  <2> QED BY <1>1, <2>1, CloseSeg
<1>3. s \in [1 .. MAXFD -> Seq(Calls)] /\ \A j \in 1 .. MAXFD : s[j] = close(p, m, j - 1)
  BY <1>2
<1>4. close_all(p, m) = FlattenSeq(s)
  BY DEF close_all
<1> HIDE DEF s
<1>r. Row(s, MAXFD)
  BY <1>3 DEF Row
<1>5. PICK F \in [1 .. MAXFD -> Seq(Calls)] :
        F[1] = s[1] /\ (\A i \in 1 .. MAXFD - 1 : F[i + 1] = F[i] \o s[i + 1]) /\ FlattenSeq(s) = F[MAXFD]
  BY <1>1, <1>r, Flatten DEF Row
<1> DEFINE Done(i, g) == Seg(p, F[i], m, g, k) /\ \A n \in Fds : n >= i => g[fd(n)] = m[fd(n)]
           P == {i \in 1 .. MAXFD : \E g : Done(i, g)}
<1>6. 1 \in P
  <2>1. 0 \in Fds /\ 1 \in 1 .. MAXFD /\ 1 - 1 = 0
    BY <1>1, SlotFacts
  <2>2. Seg(p, close(p, m, 0), m, Shut(m, 0), k) /\ F[1] = close(p, m, 0)
    BY <1>1, <1>3, <1>5, <2>1, CloseSeg
  <2>3. ASSUME NEW n \in Fds, n >= 1 PROVE Shut(m, 0)[fd(n)] = m[fd(n)]
    BY <2>1, <2>3, SlotFacts DEF Shut
  <2>4. Done(1, Shut(m, 0))
    BY <2>2, <2>3
  <2> QED BY <2>1, <2>4
<1>7. ASSUME NEW i \in 1 .. MAXFD - 1, i \in P PROVE i + 1 \in P
  <2>1. PICK g : Done(i, g)
    BY <1>7
  <2>2. i \in Fds /\ i \in 1 .. MAXFD /\ i + 1 \in 1 .. MAXFD /\ (i + 1) - 1 = i
    BY <1>1 DEF Fds
  <2>3. s[i + 1] = close(p, m, i) /\ F[i + 1] = F[i] \o close(p, m, i) /\ F[i] \in Seq(Calls)
    BY <1>3, <1>5, <2>2
  <2>4. g[fd(i)] = m[fd(i)] /\ Fine(g, k)
    BY <2>1, <2>2, <2>3, SegFine
  <2>5. close(p, m, i) \in Seq(Calls) /\ Seg(p, close(p, m, i), g, Shut(g, i), k)
    BY <1>1, <2>2, <2>4, CloseSeg
  <2>6. Seg(p, F[i + 1], m, Shut(g, i), k)
    BY <2>1, <2>3, <2>5, SegCat
  <2>7. ASSUME NEW n \in Fds, n >= i + 1 PROVE Shut(g, i)[fd(n)] = m[fd(n)]
    <3>1. n >= i /\ n # i
      BY <2>2, <2>7, SlotFacts
    <3>2. fd(n) # fd(i) /\ fd(n) # data(i) /\ fd(n) \in Slots
      BY <2>2, <3>1, SlotFacts
    <3>3. Shut(g, i)[fd(n)] = g[fd(n)]
      BY <3>2 DEF Shut
    <3> QED BY <2>1, <3>1, <3>3
  <2>8. Done(i + 1, Shut(g, i))
    BY <2>6, <2>7
  <2> HIDE DEF Done
  <2> QED BY <2>2, <2>8
<1>8. MAXFD \in P
  <2> HIDE DEF P
  <2> QED BY <1>1, <1>6, <1>7, UpTo
<1> QED BY <1>1, <1>4, <1>5, <1>8

\* What process q is still to be given of the pages mp, by the calls u, having mq.
Gives(mp, mq, q, u) ==
  /\ u \in Seq(Calls) /\ u # <<>> /\ u[Len(u)] = Start(q)
  /\ \A j \in 1 .. Len(u) - 1 : \E s \in Slots : mp[s] # NIL /\ u[j] = Map(q, s, mp[s])
  /\ \A s \in Slots : \/ mq[s] = mp[s]
                      \/ mq[s] = NIL /\ \E j \in 1 .. Len(u) - 1 : u[j] = Map(q, s, mp[s])

Nothing == [s \in Slots |-> NIL]

\* What fork and spawn do for a child copies each mapping of the parent and then starts
\* the child (fork.c:132, spawn.c:203).
LEMMA ShareGives ==
  ASSUME NEW q \in Procs, NEW m \in Maps
  PROVE  Gives(m, Nothing, q, Share(q, m))
<1> DEFINE N == 2 * MAXFD
           s == [k \in 1 .. N |-> IF m[k - 1] = NIL THEN <<>> ELSE <<Map(q, k - 1, m[k - 1])>>]
<1>1. N \in Nat /\ N > 0 /\ 1 \in Nat /\ 1 <= N /\ N \in 1 .. N /\ \A k \in 1 .. N : k - 1 \in Slots
  BY SlotFacts DEF Slots
<1>2. ASSUME NEW k \in 1 .. N PROVE s[k] \in Seq(Calls)
  <2>1. k - 1 \in Slots
    BY <1>1
  <2>2. m[k - 1] # NIL => Map(q, k - 1, m[k - 1]) \in Calls
    BY <2>1 DEF Map, Calls, Maps
  <2> QED BY <2>2
<1>3. s \in [1 .. N -> Seq(Calls)]
      /\ \A k \in 1 .. N : s[k] = IF m[k - 1] = NIL THEN <<>> ELSE <<Map(q, k - 1, m[k - 1])>>
  BY <1>2
<1>4. Share(q, m) = FlattenSeq(s) \o <<Start(q)>>
  BY DEF Share
<1>a. \A t \in Slots : t \in Nat /\ t + 1 \in 1 .. N /\ (t + 1) - 1 = t
  BY SlotFacts DEF Slots
<1> HIDE DEF s, N
<1>r. Row(s, N)
  BY <1>3 DEF Row
<1>5. PICK F \in [1 .. N -> Seq(Calls)] :
        F[1] = s[1] /\ (\A i \in 1 .. N - 1 : F[i + 1] = F[i] \o s[i + 1]) /\ FlattenSeq(s) = F[N]
  BY <1>1, <1>r, Flatten DEF Row
<1> DEFINE One(c) == \E t \in Slots : m[t] # NIL /\ c = Map(q, t, m[t])
           All(i) == /\ \A j \in 1 .. Len(F[i]) : One(F[i][j])
                     /\ \A t \in Slots : t < i /\ m[t] # NIL => \E j \in 1 .. Len(F[i]) : F[i][j] = Map(q, t, m[t])
           P == {i \in 1 .. N : All(i)}
<1>6. ASSUME NEW k \in 1 .. N
      PROVE  /\ \A j \in 1 .. Len(s[k]) : One(s[k][j])
             /\ m[k - 1] # NIL => Len(s[k]) = 1 /\ s[k][1] = Map(q, k - 1, m[k - 1])
  <2>1. k - 1 \in Slots
    BY <1>1
  <2>2. CASE m[k - 1] = NIL
    <3>1. s[k] = <<>>
      BY <1>3, <2>2
    <3> QED BY <2>2, <3>1
  <2>3. CASE m[k - 1] # NIL
    <3>1. s[k] = <<Map(q, k - 1, m[k - 1])>>
      BY <1>3, <2>3
    <3>2. Len(s[k]) = 1 /\ s[k][1] = Map(q, k - 1, m[k - 1])
      BY <3>1
    <3>3. \A j \in 1 .. Len(s[k]) : j = 1
      BY <3>2
    <3>4. One(s[k][1])
      BY <2>1, <2>3, <3>2
    <3> QED BY <3>2, <3>3, <3>4
  <2> QED BY <2>2, <2>3
<1> HIDE DEF One
<1>7. 1 \in P
  <2>1. 1 \in 1 .. N /\ F[1] = s[1]
    BY <1>1, <1>5
  <2>2. ASSUME NEW t \in Slots, t < 1, m[t] # NIL PROVE \E j \in 1 .. Len(F[1]) : F[1][j] = Map(q, t, m[t])
    <3>1. t = 1 - 1
      BY <1>a, <2>2
    <3>2. Len(s[1]) = 1 /\ s[1][1] = Map(q, t, m[t])
      BY <1>6, <2>1, <2>2, <3>1
    <3>3. 1 \in 1 .. Len(s[1])
      BY <3>2
    <3> QED BY <2>1, <3>2, <3>3
  <2> QED BY <1>6, <2>1, <2>2
<1>8. ASSUME NEW i \in 1 .. N - 1, i \in P PROVE i + 1 \in P
  <2>1. i \in 1 .. N /\ i + 1 \in 1 .. N /\ (i + 1) - 1 = i /\ i \in Nat
    BY <1>1
  <2> DEFINE a == F[i]
             b == s[i + 1]
  <2>2. F[i + 1] = a \o b /\ a \in Seq(Calls) /\ b \in Seq(Calls)
    BY <1>3, <1>5, <2>1
  <2>3. /\ All(i)
        /\ \A j \in 1 .. Len(b) : One(b[j])
        /\ m[i] # NIL => Len(b) = 1 /\ b[1] = Map(q, i, m[i])
    <3>1. All(i)
      BY <1>8
    <3> QED BY <1>6, <2>1, <3>1
  <2>4. Len(F[i + 1]) = Len(a) + Len(b) /\ Len(a) \in Nat /\ Len(b) \in Nat
        /\ (\A j \in 1 .. Len(a) : F[i + 1][j] = a[j])
        /\ (\A j \in Len(a) + 1 .. Len(a) + Len(b) : F[i + 1][j] = b[j - Len(a)])
    <3> HIDE DEF a, b
    <3> QED BY <2>2
  <2> HIDE DEF a, b
  <2>5. ASSUME NEW j \in 1 .. Len(F[i + 1]) PROVE One(F[i + 1][j])
    <3>1. CASE j <= Len(a)
      <4>1. j \in 1 .. Len(a)
        BY <2>4, <3>1
      <4> QED BY <2>3, <2>4, <4>1 DEF a
    <3>2. CASE ~(j <= Len(a))
      <4>1. j \in Len(a) + 1 .. Len(a) + Len(b) /\ j - Len(a) \in 1 .. Len(b)
        BY <2>4, <3>2
      <4> QED BY <2>3, <2>4, <4>1
    <3> QED BY <3>1, <3>2
  <2>6. ASSUME NEW t \in Slots, t < i + 1, m[t] # NIL PROVE \E j \in 1 .. Len(F[i + 1]) : F[i + 1][j] = Map(q, t, m[t])
    <3>1. CASE t < i
      <4>1. PICK j \in 1 .. Len(a) : a[j] = Map(q, t, m[t])
        BY <2>3, <2>6, <3>1 DEF a
      <4>2. j \in 1 .. Len(F[i + 1]) /\ F[i + 1][j] = a[j]
        BY <2>4, <4>1
      <4> QED BY <4>1, <4>2
    <3>2. CASE ~(t < i)
      <4>1. t = i
        BY <1>a, <2>1, <2>6, <3>2
      <4>2. Len(b) = 1 /\ b[1] = Map(q, t, m[t])
        BY <2>3, <2>6, <4>1
      <4>3. Len(a) + 1 \in 1 .. Len(F[i + 1]) /\ F[i + 1][Len(a) + 1] = b[(Len(a) + 1) - Len(a)] /\ (Len(a) + 1) - Len(a) = 1
        BY <2>4, <4>2
      <4> QED BY <4>2, <4>3
    <3> QED BY <3>1, <3>2
  <2> QED BY <2>1, <2>5, <2>6
<1>9. N \in P
  <2> HIDE DEF P
  <2> QED BY <1>1, <1>7, <1>8, UpTo
<1>10. All(N) /\ F[N] \in Seq(Calls)
  BY <1>1, <1>5, <1>9
<1> DEFINE a == F[N]
           u == Share(q, m)
<1>11. Start(q) \in Calls
  <2>1. fd(0) \in Slots
    BY SlotFacts
  <2> QED BY <2>1 DEF Start, Calls
<1>12. u = a \o <<Start(q)>> /\ a \in Seq(Calls)
  BY <1>4, <1>5, <1>10
<1>13. u \in Seq(Calls) /\ u # <<>> /\ Len(u) = Len(a) + 1 /\ u[Len(u)] = Start(q) /\ Len(u) - 1 = Len(a)
       /\ \A j \in 1 .. Len(a) : u[j] = a[j]
  <2> HIDE DEF u, a
  <2> QED BY <1>11, <1>12
<1>14. \A j \in 1 .. Len(a) : One(a[j])
  BY <1>10
<1>15. \A t \in Slots : m[t] # NIL => \E j \in 1 .. Len(a) : a[j] = Map(q, t, m[t])
  <2>1. ASSUME NEW t \in Slots, m[t] # NIL PROVE \E j \in 1 .. Len(a) : a[j] = Map(q, t, m[t])
    <3>1. t < N
      BY <1>a, <1>1
    <3> QED BY <1>10, <2>1, <3>1
  <2> QED BY <2>1
<1> HIDE DEF a, u, All
<1>16. \A j \in 1 .. Len(u) - 1 : \E t \in Slots : m[t] # NIL /\ u[j] = Map(q, t, m[t])
  BY <1>13, <1>14 DEF One
<1>17. ASSUME NEW t \in Slots
       PROVE \/ Nothing[t] = m[t]
             \/ Nothing[t] = NIL /\ \E j \in 1 .. Len(u) - 1 : u[j] = Map(q, t, m[t])
  <2>1. Nothing[t] = NIL
    BY DEF Nothing
  <2>2. CASE m[t] # NIL
    <3>1. PICK j \in 1 .. Len(a) : a[j] = Map(q, t, m[t])
      BY <1>15, <2>2
    <3>2. j \in 1 .. Len(u) - 1 /\ u[j] = Map(q, t, m[t])
      BY <1>13, <3>1
    <3> QED BY <2>1, <3>2
  <2> QED BY <2>1, <2>2
<1>18. Gives(m, Nothing, q, u)
  BY <1>13, <1>16, <1>17 DEF Gives
<1> QED BY <1>18 DEF u

\* One of the pages is given.
LEMMA GivesTail ==
  ASSUME NEW mp, NEW mq \in Maps, NEW q, NEW u, Gives(mp, mq, q, u), Len(u) # 1
  PROVE  /\ Tail(u) # <<>>
         /\ \E s \in Slots : /\ mp[s] # NIL /\ u[1] = Map(q, s, mp[s])
                             /\ Gives(mp, [mq EXCEPT ![s] = mp[s]], q, Tail(u))
<1>1. u \in Seq(Calls) /\ u # <<>>
  BY DEF Gives
<1>2. /\ u \in Seq(Calls) /\ Len(u) \in Nat /\ Len(u) > 1 /\ Tail(u) \in Seq(Calls) /\ Len(Tail(u)) = Len(u) - 1
      /\ \A j \in 1 .. Len(u) - 1 : Tail(u)[j] = u[j + 1]
  <2>1. Len(u) \in Nat /\ Len(u) # 0 /\ Len(u) # 1
    BY <1>1
  <2>2. Tail(u) \in Seq(Calls) /\ Len(Tail(u)) = Len(u) - 1 /\ \A j \in 1 .. Len(Tail(u)) : Tail(u)[j] = u[j + 1]
    BY <1>1, HeadTailProperties
  <2> QED BY <1>1, <2>1, <2>2
<1>3. 1 \in 1 .. Len(u) - 1 /\ Len(u) - 1 \in 1 .. Len(u) - 1 /\ (Len(u) - 1) + 1 = Len(u)
  BY <1>2
<1>4. PICK s \in Slots : mp[s] # NIL /\ u[1] = Map(q, s, mp[s])
  BY <1>3 DEF Gives
<1> DEFINE m2 == [mq EXCEPT ![s] = mp[s]]
<1>5. \A t \in Slots : m2[t] = IF t = s THEN mp[t] ELSE mq[t]
  BY DEF Maps
<1>6. Tail(u) # <<>> /\ Tail(u)[Len(Tail(u))] = Start(q)
  <2>1. Len(Tail(u)) # 0
    BY <1>2
  <2>2. Tail(u) # <<>>
    BY <1>2, <2>1, EmptySeq
  <2>3. u[Len(u)] = Start(q)
    BY DEF Gives
  <2>4. Tail(u)[Len(u) - 1] = u[Len(u)]
    BY <1>2, <1>3
  <2> QED BY <1>2, <2>2, <2>3, <2>4
<1>7. ASSUME NEW j \in 1 .. Len(Tail(u)) - 1 PROVE \E t \in Slots : mp[t] # NIL /\ Tail(u)[j] = Map(q, t, mp[t])
  <2>1. j \in 1 .. Len(u) - 1 /\ j + 1 \in 1 .. Len(u) - 1
    BY <1>2
  <2>2. Tail(u)[j] = u[j + 1]
    BY <1>2, <2>1
  <2> QED BY <2>1, <2>2 DEF Gives
<1>8. ASSUME NEW t \in Slots
      PROVE \/ m2[t] = mp[t]
            \/ m2[t] = NIL /\ \E j \in 1 .. Len(Tail(u)) - 1 : Tail(u)[j] = Map(q, t, mp[t])
  <2>1. CASE t = s
    BY <1>5, <2>1
  <2>2. CASE t # s /\ mq[t] = mp[t]
    BY <1>5, <2>2
  <2>3. CASE t # s /\ mq[t] # mp[t]
    <3>1. PICK j \in 1 .. Len(u) - 1 : mq[t] = NIL /\ u[j] = Map(q, t, mp[t])
      BY <2>3 DEF Gives
    <3>2. j # 1
      BY <1>4, <2>3, <3>1 DEF Map
    <3>3. j - 1 \in 1 .. Len(Tail(u)) - 1 /\ j - 1 \in 1 .. Len(u) - 1 /\ (j - 1) + 1 = j
      BY <1>2, <3>1, <3>2
    <3>4. Tail(u)[j - 1] = u[j]
      BY <1>2, <3>3
    <3> QED BY <1>5, <2>3, <3>1, <3>3, <3>4
  <2> QED BY <2>1, <2>2, <2>3
<1> HIDE DEF m2
<1>9. Gives(mp, m2, q, Tail(u))
  BY <1>2, <1>6, <1>7, <1>8 DEF Gives
<1> QED BY <1>4, <1>6, <1>9 DEF m2

\* All of them are given, and the child starts.
LEMMA GivesEnd ==
  ASSUME NEW mp \in Maps, NEW mq \in Maps, NEW q, NEW u, Gives(mp, mq, q, u), Len(u) = 1
  PROVE  u = <<Start(q)>> /\ mq = mp
<1>1. \A j \in 1 .. Len(u) - 1 : FALSE
  OBVIOUS
<1>2. \A s \in Slots : mq[s] = mp[s]
  BY <1>1 DEF Gives
<1>3. mq = mp
  BY <1>2 DEF Maps
<1>4. u = <<Start(q)>>
  BY DEF Gives
<1> QED BY <1>3, <1>4

-----------------------------------------------------------------------------
(***************************************************************************)
(* All the processes.  fin[p] is what p's mappings will be when its calls  *)
(* are made, by[q] who created q.                                          *)
(***************************************************************************)
Wheres   == {"main", "wait_line", "parse", "spawn", "wait_then", "wait_kid", "wait_right",
             "program", "ask", "exit", "none"}
\* Where a process still has its descriptors, or will have them.
Reading  == {"main", "wait_line", "parse", "spawn", "wait_then", "program", "ask"}
States   == {"free", "new", "run", "gone"}
ProcRecs == [at : Wheres, line : Seq(Symbols \cup Words), word : Words \cup {NIL},
             kid : Procs \cup {NIL}, right : Procs \cup {NIL}, todo : Seq(Calls),
             left : 0 .. Bytes, hold : BOOLEAN]

\* Descriptors 0, 1 and 2 are open and no others; 2 is the shell's .history.
Std(f) ==
  /\ f[fd(0)] # NIL /\ f[fd(1)] # NIL /\ f[fd(2)] = Page(0, "file")
  /\ \A n \in Fds : n >= 3 => f[fd(n)] = NIL

LEMMA FileFacts == /\ Page(0, "file") \in Pages /\ Page(0, "file") # NIL /\ ~IsPipe(Page(0, "file"))
                   /\ Page(0, "file").pipe = 0 /\ Page(0, "file").what = "file"
<1> DEFINE file == Page(0, "file")
<1>1. file \in Pages /\ file.pipe = 0 /\ file.what = "file"
  BY ShellAssumption DEF Page, Pages
<1> HIDE DEF file
<1>2. file # NIL /\ ~IsPipe(file)
  BY <1>1, NilAssumption DEF IsPipe, Ends
<1> QED BY <1>1, <1>2 DEF file

\* Of p's calls tp the first give mp to its child q, who has mq and will make calls tq.
Lends(p, q, tp, mp, mq, fp, tq, fq, k) ==
  \E u \in Seq(Calls), o \in Seq(Calls) :
    tp = u \o o /\ Gives(mp, mq, q, u) /\ Seg(p, o, mp, fp, k) /\ Seg(q, tq, mp, fq, k)

Typed(mp, st, pr, k, fin, by) ==
  /\ mp \in [Procs -> Maps] /\ st \in [Procs -> States] /\ pr \in [Procs -> ProcRecs]
  /\ k \in Nat /\ fin \in [Procs -> Maps] /\ by \in [Procs -> Procs]
\* The free environments are the last ones, and more than the pipes.
Ids(st, pr, k) ==
  /\ st[Root] = "run" /\ pr[Root].at \in {"main", "wait_line"}
  /\ \A q \in Procs : st[q] = "free" => k + 2 <= q /\ \A r \in Procs : r >= q => st[r] = "free"
Idle(mp, st, pr) ==
  \A p \in Procs : st[p] \in {"free", "gone"} => mp[p] = Nothing /\ pr[p].todo = <<>> /\ pr[p].at = "none"
LendsTo(mp, pr, k, fin, p, q) ==
  Lends(p, q, pr[p].todo, mp[p], mp[q], fin[p], pr[q].todo, fin[q], k)
Works(mp, st, pr, k, fin, by) ==
  \A p \in Procs : st[p] = "run" =>
    \/ Seg(p, pr[p].todo, mp[p], fin[p], k)
    \/ \E q \in Procs : st[q] = "new" /\ by[q] = p /\ LendsTo(mp, pr, k, fin, p, q)
Born(mp, st, pr, k, fin, by) ==
  \A q \in Procs : st[q] = "new" => st[by[q]] = "run" /\ LendsTo(mp, pr, k, fin, by[q], q)
Ready(st, pr, fin) ==
  \A p \in Procs : st[p] \in {"new", "run"} => pr[p].at # "none" /\ (pr[p].at \in Reading => Std(fin[p]))

Base(mp, st, pr, k, fin, by) ==
  /\ Typed(mp, st, pr, k, fin, by) /\ Ids(st, pr, k) /\ Idle(mp, st, pr)
  /\ Works(mp, st, pr, k, fin, by) /\ Born(mp, st, pr, k, fin, by) /\ Ready(st, pr, fin)

\* The first call of a process that has a child to give pages to is for the child.
LEMMA LendsFirst ==
  ASSUME NEW p, NEW q, NEW tp, NEW mp, NEW mq, NEW f, NEW tq, NEW fq, NEW k, Lends(p, q, tp, mp, mq, f, tq, fq, k)
  PROVE  tp \in Seq(Calls) /\ tp # <<>> /\ tp[1].who = q /\ (tp[1].call = "map" \/ tp[1] = Start(q))
<1>1. PICK u \in Seq(Calls), o \in Seq(Calls) : tp = u \o o /\ Gives(mp, mq, q, u)
  BY DEF Lends
<1>2. u # <<>> /\ Len(u) \in Nat /\ Len(u) # 0 /\ tp \in Seq(Calls) /\ Len(tp) = Len(u) + Len(o) /\ Len(o) \in Nat /\ tp[1] = u[1]
  <2>1. u # <<>>
    BY <1>1 DEF Gives
  <2>2. Len(u) \in Nat /\ Len(u) # 0
    BY <2>1
  <2> QED BY <1>1, <2>1, <2>2, ConcatProperties
<1>3. CASE Len(u) = 1
  <2>1. tp[1] = Start(q)
    BY <1>1, <1>2, <1>3 DEF Gives
  <2> QED BY <1>2, <2>1 DEF Start
<1>4. CASE Len(u) # 1
  <2>1. 1 \in 1 .. Len(u) - 1
    <3> DEFINE n == Len(u)
    <3>1. n \in Nat /\ n # 0 /\ n # 1
      BY <1>2, <1>4
    <3> HIDE DEF n
    <3>2. 1 \in 1 .. n - 1
      BY <3>1
    <3> QED BY <3>2 DEF n
  <2>2. \E s \in Slots : u[1] = Map(q, s, mp[s])
    BY <1>1, <2>1 DEF Gives
  <2> QED BY <1>2, <2>2 DEF Map
<1> QED BY <1>3, <1>4

\* Nobody has two such children, nor one while it makes calls of its own.
LEMMA OneHeir ==
  ASSUME NEW mp, NEW st, NEW pr, NEW k, NEW fin, NEW by, Base(mp, st, pr, k, fin, by),
         NEW q \in Procs, st[q] = "new"
  PROVE  /\ by[q] \in Procs /\ by[q] # q /\ st[by[q]] = "run" /\ pr[by[q]].todo # <<>>
         /\ LendsTo(mp, pr, k, fin, by[q], q)
         /\ ~Seg(by[q], pr[by[q]].todo, mp[by[q]], fin[by[q]], k)
         /\ \A r \in Procs : st[r] = "new" /\ by[r] = by[q] => r = q
<1>1. st[by[q]] = "run" /\ LendsTo(mp, pr, k, fin, by[q], q) /\ by[q] \in Procs /\ by[q] # q
  BY DEF Base, Born, Typed
<1> DEFINE c == pr[by[q]].todo[1]
<1>2. pr[by[q]].todo \in Seq(Calls) /\ pr[by[q]].todo # <<>> /\ c.who = q
  BY <1>1, LendsFirst DEF LendsTo
<1>3. ASSUME NEW r \in Procs, st[r] = "new", by[r] = by[q] PROVE r = q
  <2>1. LendsTo(mp, pr, k, fin, by[q], r)
    BY <1>3 DEF Base, Born
  <2>2. c.who = r
    BY <2>1, LendsFirst DEF LendsTo
  <2> QED BY <1>2, <2>2
<1>4. ASSUME Seg(by[q], pr[by[q]].todo, mp[by[q]], fin[by[q]], k) PROVE FALSE
  <2>1. c \in Moves(by[q])
    BY <1>2, <1>4, SegTail
  <2> QED BY <1>1, <1>2, <2>1 DEF Moves
<1> QED BY <1>1, <1>2, <1>3, <1>4

\* A process that has no calls to make has what it will have, and no such child.
LEMMA Quiet ==
  ASSUME NEW mp, NEW st, NEW pr, NEW k, NEW fin, NEW by, Base(mp, st, pr, k, fin, by),
         NEW p \in Procs, st[p] = "run", pr[p].todo = <<>>
  PROVE  /\ mp[p] = fin[p] /\ Fine(mp[p], k)
         /\ \A q \in Procs : st[q] = "new" => by[q] # p
<1>1. \A q \in Procs : st[q] = "new" => by[q] # p
  BY OneHeir
<1>2. Seg(p, <<>>, mp[p], fin[p], k)
  BY <1>1 DEF Base, Works
<1>3. <<>> \in Seq(Calls)
  OBVIOUS
<1> QED BY <1>1, <1>2, <1>3, SegFine

\* A process that had no calls to make does something of its own.
LEMMA LocalStep ==
  ASSUME NEW mp, NEW st, NEW pr, NEW k, NEW fin, NEW by, Base(mp, st, pr, k, fin, by),
         NEW p \in Procs, st[p] = "run", pr[p].todo = <<>>,
         NEW r \in ProcRecs, NEW m \in Maps, NEW f \in Maps,
         Seg(p, r.todo, m, f, k), r.at # "none", r.at \in Reading => Std(f),
         p = Root => r.at \in {"main", "wait_line"}
  PROVE  Base([mp EXCEPT ![p] = m], st, [pr EXCEPT ![p] = r], k, [fin EXCEPT ![p] = f], by)
<1> DEFINE mp2 == [mp EXCEPT ![p] = m]
           pr2 == [pr EXCEPT ![p] = r]
           f2  == [fin EXCEPT ![p] = f]
<1>1. Typed(mp, st, pr, k, fin, by)
  BY DEF Base
<1>2. /\ \A x \in Procs : mp2[x] = (IF x = p THEN m ELSE mp[x]) /\ pr2[x] = (IF x = p THEN r ELSE pr[x])
                          /\ f2[x] = (IF x = p THEN f ELSE fin[x])
      /\ Typed(mp2, st, pr2, k, f2, by)
  BY <1>1 DEF Typed
<1>3. \A q \in Procs : st[q] = "new" => by[q] # p /\ q # p /\ by[q] \in Procs
  BY <1>1, Quiet DEF Typed
<1> HIDE DEF mp2, pr2, f2
<1>4. Ids(st, pr2, k)
  <2>1. Ids(st, pr, k) /\ Root \in Procs
    BY ShellAssumption DEF Base, Root, Procs
  <2> QED BY <1>2, <2>1 DEF Ids
<1>5. Idle(mp2, st, pr2)
  BY <1>2 DEF Base, Idle
<1>6. ASSUME NEW q \in Procs, st[q] = "new" PROVE LendsTo(mp2, pr2, k, f2, by[q], q)
  <2>1. LendsTo(mp, pr, k, fin, by[q], q)
    BY <1>6 DEF Base, Born
  <2> QED BY <1>2, <1>3, <1>6, <2>1 DEF LendsTo
<1>7. Born(mp2, st, pr2, k, f2, by)
  BY <1>6 DEF Base, Born
<1>8. Works(mp2, st, pr2, k, f2, by)
  <2>1. ASSUME NEW x \in Procs, st[x] = "run"
        PROVE  \/ Seg(x, pr2[x].todo, mp2[x], f2[x], k)
               \/ \E q \in Procs : st[q] = "new" /\ by[q] = x /\ LendsTo(mp2, pr2, k, f2, x, q)
    <3>1. CASE x = p
      BY <1>2, <3>1
    <3>2. CASE x # p
      BY <1>2, <1>6, <2>1, <3>2 DEF Base, Works
    <3> QED BY <3>1, <3>2
  <2> QED BY <2>1 DEF Works
<1>9. Ready(st, pr2, f2)
  BY <1>2 DEF Base, Ready
<1>10. Base(mp2, st, pr2, k, f2, by)
  BY <1>2, <1>4, <1>5, <1>7, <1>8, <1>9 DEF Base
<1> QED BY <1>10 DEF mp2, pr2, f2

\* A process that had no calls to make ends.
LEMMA ExitStep ==
  ASSUME NEW mp, NEW st, NEW pr, NEW k, NEW fin, NEW by, Base(mp, st, pr, k, fin, by),
         NEW p \in Procs, st[p] = "run", pr[p].todo = <<>>, p # Root,
         NEW r \in ProcRecs, r.todo = <<>>, r.at = "none"
  PROVE  Base([mp EXCEPT ![p] = Nothing], [st EXCEPT ![p] = "gone"], [pr EXCEPT ![p] = r], k, fin, by)
<1> DEFINE mp2 == [mp EXCEPT ![p] = Nothing]
           pr2 == [pr EXCEPT ![p] = r]
           st2 == [st EXCEPT ![p] = "gone"]
<1>1. Typed(mp, st, pr, k, fin, by)
  BY DEF Base
<1>2. /\ \A x \in Procs : mp2[x] = (IF x = p THEN Nothing ELSE mp[x]) /\ pr2[x] = (IF x = p THEN r ELSE pr[x])
                          /\ st2[x] = (IF x = p THEN "gone" ELSE st[x])
      /\ Typed(mp2, st2, pr2, k, fin, by)
  <2>1. Nothing \in Maps
    BY DEF Nothing, Maps
  <2> QED BY <1>1, <2>1 DEF Typed, States
<1>3. \A q \in Procs : st[q] = "new" => by[q] # p /\ q # p /\ by[q] \in Procs
  BY <1>1, Quiet DEF Typed
<1> HIDE DEF mp2, pr2, st2
<1>4. Ids(st2, pr2, k)
  <2>1. Ids(st, pr, k) /\ Root \in Procs
    BY ShellAssumption DEF Base, Root, Procs
  <2> QED BY <1>2, <2>1 DEF Ids
<1>5. Idle(mp2, st2, pr2)
  BY <1>2 DEF Base, Idle
<1>6. ASSUME NEW q \in Procs, st[q] = "new" PROVE LendsTo(mp2, pr2, k, fin, by[q], q)
  <2>1. LendsTo(mp, pr, k, fin, by[q], q)
    BY <1>6 DEF Base, Born
  <2> QED BY <1>2, <1>3, <1>6, <2>1 DEF LendsTo
<1>7. Born(mp2, st2, pr2, k, fin, by)
  BY <1>2, <1>3, <1>6 DEF Base, Born
<1>8. Works(mp2, st2, pr2, k, fin, by)
  <2>1. ASSUME NEW x \in Procs, st2[x] = "run"
        PROVE  \/ Seg(x, pr2[x].todo, mp2[x], fin[x], k)
               \/ \E q \in Procs : st2[q] = "new" /\ by[q] = x /\ LendsTo(mp2, pr2, k, fin, x, q)
    <3>1. x # p /\ st[x] = "run"
      BY <1>2, <2>1
    <3>2. CASE Seg(x, pr[x].todo, mp[x], fin[x], k)
      BY <1>2, <3>1, <3>2
    <3>3. ASSUME NEW q \in Procs, st[q] = "new", by[q] = x
          PROVE  st2[q] = "new" /\ LendsTo(mp2, pr2, k, fin, x, q)
      BY <1>2, <1>3, <1>6, <3>3
    <3> QED BY <3>1, <3>2, <3>3 DEF Base, Works
  <2> QED BY <2>1 DEF Works
<1>9. Ready(st2, pr2, fin)
  BY <1>2 DEF Base, Ready
<1>10. Base(mp2, st2, pr2, k, fin, by)
  BY <1>2, <1>4, <1>5, <1>7, <1>8, <1>9 DEF Base
<1> QED BY <1>10 DEF mp2, pr2, st2

\* p becomes r and gives m to its child q, which becomes c; they will have f and fq.
Forking(st, pr, k, p, q, l, m, r, c, o, f, fq) ==
  /\ p \in Procs /\ st[p] = "run" /\ pr[p].todo = <<>>
  /\ q \in Procs /\ st[q] = "free" /\ \A x \in Procs : st[x] = "free" => q <= x
  /\ l \in {k, k + 1} /\ m \in Maps /\ r \in ProcRecs /\ c \in ProcRecs /\ o \in Seq(Calls)
  /\ r.todo = Share(q, m) \o o /\ f \in Maps /\ fq \in Maps
  /\ Seg(p, o, m, f, l) /\ Seg(q, c.todo, m, fq, l)
  /\ r.at # "none" /\ (r.at \in Reading => Std(f)) /\ c.at # "none" /\ (c.at \in Reading => Std(fq))
  /\ p = Root => r.at \in {"main", "wait_line"}

\* A process that had no calls to make creates another one.
LEMMA ForkStep ==
  ASSUME NEW mp, NEW st, NEW pr, NEW k, NEW fin, NEW by, Base(mp, st, pr, k, fin, by),
         NEW p, NEW q, NEW l, NEW m, NEW r, NEW c, NEW o, NEW f, NEW fq,
         Forking(st, pr, k, p, q, l, m, r, c, o, f, fq)
  PROVE  Base([mp EXCEPT ![p] = m], [st EXCEPT ![q] = "new"], [pr EXCEPT ![p] = r, ![q] = c], l,
              [fin EXCEPT ![p] = f, ![q] = fq], [by EXCEPT ![q] = p])
<1> DEFINE mp2 == [mp EXCEPT ![p] = m]
           pr2 == [pr EXCEPT ![p] = r, ![q] = c]
           st2 == [st EXCEPT ![q] = "new"]
           f2  == [fin EXCEPT ![p] = f, ![q] = fq]
           by2 == [by EXCEPT ![q] = p]
<1>1. /\ p \in Procs /\ st[p] = "run" /\ pr[p].todo = <<>>
      /\ q \in Procs /\ st[q] = "free" /\ \A x \in Procs : st[x] = "free" => q <= x
  BY DEF Forking
<1>a. /\ l \in {k, k + 1} /\ m \in Maps /\ r \in ProcRecs /\ c \in ProcRecs /\ o \in Seq(Calls)
      /\ r.todo = Share(q, m) \o o /\ f \in Maps /\ fq \in Maps
      /\ Seg(p, o, m, f, l) /\ Seg(q, c.todo, m, fq, l)
  BY DEF Forking
<1>b. /\ r.at # "none" /\ (r.at \in Reading => Std(f)) /\ c.at # "none" /\ (c.at \in Reading => Std(fq))
      /\ p = Root => r.at \in {"main", "wait_line"}
  BY DEF Forking
<1>2. Typed(mp, st, pr, k, fin, by) /\ p # q
  BY <1>1, <1>a, <1>b DEF Base
<1>3. /\ \A x \in Procs : /\ mp2[x] = (IF x = p THEN m ELSE mp[x])
                          /\ pr2[x] = (IF x = q THEN c ELSE IF x = p THEN r ELSE pr[x])
                          /\ st2[x] = (IF x = q THEN "new" ELSE st[x])
                          /\ f2[x] = (IF x = q THEN fq ELSE IF x = p THEN f ELSE fin[x])
                          /\ by2[x] = (IF x = q THEN p ELSE by[x])
      /\ Typed(mp2, st2, pr2, l, f2, by2)
  <2>1. m \in Maps /\ r \in ProcRecs /\ c \in ProcRecs /\ f \in Maps /\ fq \in Maps /\ l \in {k, k + 1} /\ p \in Procs /\ q \in Procs
    BY <1>1, <1>a
  <2>2. mp \in [Procs -> Maps] /\ st \in [Procs -> States] /\ pr \in [Procs -> ProcRecs] /\ k \in Nat /\ l \in Nat
        /\ fin \in [Procs -> Maps] /\ by \in [Procs -> Procs]
    BY <1>2, <2>1 DEF Typed
  <2>3. mp2 \in [Procs -> Maps] /\ st2 \in [Procs -> States] /\ pr2 \in [Procs -> ProcRecs]
        /\ f2 \in [Procs -> Maps] /\ by2 \in [Procs -> Procs]
    BY <2>1, <2>2 DEF States
  <2> QED BY <1>2, <2>1, <2>2, <2>3 DEF Typed
<1>4. \A x \in Procs : st[x] = "new" => by[x] # p /\ x # p /\ by[x] \in Procs /\ x # q /\ st[by[x]] = "run" /\ by[x] # q
  BY <1>1, <1>a, <1>b, <1>2, Quiet DEF Typed, Base, Born
<1>k. k \in Nat /\ l \in Nat /\ k <= l /\ l <= k + 1
  BY <1>1, <1>a, <1>b, <1>2 DEF Typed
<1> HIDE DEF mp2, pr2, st2, f2, by2
<1>5. Ids(st2, pr2, l)
  <2>1. Ids(st, pr, k) /\ Root \in Procs /\ q # Root /\ \A x \in Procs : x \in Nat
    BY <1>1, <1>a, <1>b, ShellAssumption DEF Base, Root, Procs, Ids
  <2>2. st2[Root] = "run" /\ pr2[Root].at \in {"main", "wait_line"}
    BY <1>1, <1>a, <1>b, <1>3, <2>1 DEF Ids
  <2>3. ASSUME NEW x \in Procs, st2[x] = "free" PROVE l + 2 <= x /\ \A y \in Procs : y >= x => st2[y] = "free"
    <3>1. st[x] = "free" /\ x # q /\ q <= x /\ q < x /\ k + 2 <= q
      BY <1>1, <1>a, <1>b, <1>3, <2>1, <2>3 DEF Ids
    <3>2. ASSUME NEW y \in Procs, y >= x PROVE st2[y] = "free"
      <4>1. y # q
        BY <1>1, <1>a, <1>b, <2>1, <3>1, <3>2
      <4> QED BY <1>1, <1>a, <1>b, <1>3, <2>1, <3>1, <3>2, <4>1 DEF Ids
    <3> QED BY <1>1, <1>a, <1>b, <1>k, <2>1, <3>1, <3>2
  <2> QED BY <1>1, <1>a, <1>b, <2>2, <2>3 DEF Ids
<1>6. Idle(mp2, st2, pr2)
  <2>1. Idle(mp, st, pr)
    BY <1>1, <1>a, <1>b DEF Base
  <2> QED BY <1>1, <1>a, <1>b, <1>3, <2>1 DEF Idle
<1>7. ASSUME NEW x \in Procs, st2[x] = "new" PROVE st2[by2[x]] = "run" /\ LendsTo(mp2, pr2, l, f2, by2[x], x)
  <2>1. CASE x = q
    <3>1. mp[q] = Nothing
      BY <1>1, <1>a, <1>b DEF Base, Idle
    <3>2. Gives(m, Nothing, q, Share(q, m)) /\ Share(q, m) \in Seq(Calls)
      BY <1>1, <1>a, <1>b, ShareGives DEF Gives
    <3>3. Lends(p, q, r.todo, m, Nothing, f, c.todo, fq, l)
      BY <1>1, <1>a, <1>b, <3>2 DEF Lends
    <3> QED BY <1>1, <1>a, <1>b, <1>2, <1>3, <2>1, <3>1, <3>3 DEF LendsTo
  <2>2. CASE x # q
    <3>1. st[x] = "new"
      BY <1>1, <1>a, <1>b, <1>3, <1>7, <2>2
    <3>2. LendsTo(mp, pr, k, fin, by[x], x)
      BY <1>1, <1>a, <1>b, <3>1 DEF Base, Born
    <3>3. LendsTo(mp, pr, l, fin, by[x], x)
      <4> DEFINE b == by[x]
      <4>1. PICK u \in Seq(Calls), v \in Seq(Calls) :
              /\ pr[b].todo = u \o v /\ Gives(mp[b], mp[x], x, u)
              /\ Seg(b, v, mp[b], fin[b], k) /\ Seg(x, pr[x].todo, mp[b], fin[x], k)
        BY <1>1, <1>a, <1>b, <3>2 DEF LendsTo, Lends
      <4>2. Seg(b, v, mp[b], fin[b], l) /\ Seg(x, pr[x].todo, mp[b], fin[x], l)
        BY <1>1, <1>a, <1>b, <1>k, <4>1, SegMore
      <4> QED BY <1>1, <1>a, <1>b, <4>1, <4>2 DEF LendsTo, Lends
    <3>4. by[x] \in Procs /\ by[x] # p /\ by[x] # q /\ x # p /\ st[by[x]] = "run"
      BY <1>1, <1>a, <1>b, <1>4, <3>1
    <3>5. by2[x] = by[x] /\ st2[by[x]] = "run"
      BY <1>1, <1>a, <1>b, <1>3, <2>2, <3>4
    <3>6. /\ pr2[by[x]] = pr[by[x]] /\ mp2[by[x]] = mp[by[x]] /\ f2[by[x]] = fin[by[x]]
          /\ pr2[x] = pr[x] /\ mp2[x] = mp[x] /\ f2[x] = fin[x]
      BY <1>1, <1>a, <1>b, <1>3, <2>2, <3>4
    <3> QED BY <1>1, <1>a, <1>b, <3>3, <3>5, <3>6 DEF LendsTo
  <2> QED BY <1>1, <1>a, <1>b, <2>1, <2>2
<1>8. Born(mp2, st2, pr2, l, f2, by2)
  BY <1>1, <1>a, <1>b, <1>7 DEF Born
<1>9. Works(mp2, st2, pr2, l, f2, by2)
  <2>1. ASSUME NEW x \in Procs, st2[x] = "run"
        PROVE  \/ Seg(x, pr2[x].todo, mp2[x], f2[x], l)
               \/ \E y \in Procs : st2[y] = "new" /\ by2[y] = x /\ LendsTo(mp2, pr2, l, f2, x, y)
    <3>1. CASE x = p
      <4>1. st2[q] = "new" /\ by2[q] = x
        BY <1>1, <1>a, <1>b, <1>3, <3>1
      <4> QED BY <1>1, <1>a, <1>b, <1>7, <4>1
    <3>2. CASE x # p /\ Seg(x, pr[x].todo, mp[x], fin[x], k)
      <4>1. Seg(x, pr[x].todo, mp[x], fin[x], l)
        BY <1>1, <1>a, <1>b, <1>k, <3>2, SegMore
      <4>2. x # q
        BY <1>1, <1>a, <1>b, <1>3, <2>1
      <4> QED BY <1>1, <1>a, <1>b, <1>3, <3>2, <4>1, <4>2
    <3>3. CASE x # p /\ ~Seg(x, pr[x].todo, mp[x], fin[x], k)
      <4>1. st[x] = "run"
        BY <1>1, <1>a, <1>b, <1>3, <2>1
      <4>2. PICK y \in Procs : st[y] = "new" /\ by[y] = x
        BY <1>1, <1>a, <1>b, <3>3, <4>1 DEF Base, Works
      <4>3. st2[y] = "new" /\ by2[y] = x
        BY <1>1, <1>a, <1>b, <1>3, <1>4, <4>2
      <4> QED BY <1>1, <1>a, <1>b, <1>7, <4>3
    <3> QED BY <1>1, <1>a, <1>b, <3>1, <3>2, <3>3
  <2> QED BY <1>1, <1>a, <1>b, <2>1 DEF Works
<1>10. Ready(st2, pr2, f2)
  <2>1. Ready(st, pr, fin)
    BY <1>1, <1>a, <1>b DEF Base
  <2> QED BY <1>1, <1>a, <1>b, <1>3, <2>1 DEF Ready
<1>11. Base(mp2, st2, pr2, l, f2, by2)
  BY <1>1, <1>a, <1>b, <1>3, <1>5, <1>6, <1>8, <1>9, <1>10 DEF Base
<1> QED BY <1>1, <1>a, <1>b, <1>11 DEF mp2, pr2, st2, f2, by2

-----------------------------------------------------------------------------
(***************************************************************************)
(* A system call.                                                          *)
(***************************************************************************)
After(st, c) == IF c.call = "start" THEN [st EXCEPT ![c.who] = "run"] ELSE st

\* The first call is made, and the others are left.
LEMMA OneCall ==
  ASSUME NEW mp, NEW st, NEW pr, NEW k, NEW fin, NEW by, Base(mp, st, pr, k, fin, by),
         NEW p \in Procs, st[p] = "run", pr[p].todo # <<>>
  PROVE  Base(Effect(mp, pr[p].todo[1]), After(st, pr[p].todo[1]),
              [pr EXCEPT ![p].todo = Tail(pr[p].todo)], k, fin, by)
<1> DEFINE c   == pr[p].todo[1]
           o2  == Tail(pr[p].todo)
           pr2 == [pr EXCEPT ![p].todo = o2]
           mp2 == Effect(mp, c)
           st2 == After(st, c)
<1>1. Typed(mp, st, pr, k, fin, by) /\ pr[p] \in ProcRecs /\ pr[p].todo \in Seq(Calls)
  BY DEF Base, Typed, ProcRecs
<1>2. o2 \in Seq(Calls) /\ c \in Calls
  <2> DEFINE o == pr[p].todo
  <2>1. o \in Seq(Calls) /\ o # <<>>
    BY <1>1
  <2> HIDE DEF o
  <2>2. Tail(o) \in Seq(Calls) /\ o[1] \in Calls
    BY <2>1, HeadTailProperties
  <2> QED BY <2>2 DEF o
<1>3. /\ \A x \in Procs : pr2[x].todo = (IF x = p THEN o2 ELSE pr[x].todo) /\ pr2[x].at = pr[x].at
      /\ pr2 \in [Procs -> ProcRecs]
  BY <1>1, <1>2 DEF Typed, ProcRecs
<1> HIDE DEF pr2
<1>4. CASE Seg(p, pr[p].todo, mp[p], fin[p], k)
  <2> DEFINE m == Eff(mp[p], c)
  <2>1. c \in Moves(p) /\ Seg(p, o2, m, fin[p], k) /\ mp[p] \in Maps
    BY <1>1, <1>4, SegTail DEF Typed
  <2>2. m \in Maps /\ c.who = p /\ c.call \in {"map", "unmap"} /\ c.slot \in Slots
    BY <2>1, EffIs DEF Moves, Calls
  <2>3. mp2 = [mp EXCEPT ![p] = m] /\ st2 = st
    BY <1>1, <2>2 DEF Effect, Eff, After, Typed
  <2> HIDE DEF m, mp2, st2, c, o2
  <2>4. mp2 \in [Procs -> Maps] /\ \A x \in Procs : mp2[x] = (IF x = p THEN m ELSE mp[x])
    BY <1>1, <2>2, <2>3 DEF Typed
  <2>5. \A q \in Procs : st[q] = "new" => by[q] # p /\ q # p /\ by[q] \in Procs
    BY <1>1, <1>4, OneHeir DEF Typed
  <2>6. ASSUME NEW q \in Procs, st[q] = "new" PROVE LendsTo(mp2, pr2, k, fin, by[q], q)
    <3>1. LendsTo(mp, pr, k, fin, by[q], q)
      BY <2>6 DEF Base, Born
    <3> QED BY <1>3, <2>4, <2>5, <2>6, <3>1 DEF LendsTo
  <2>7. Born(mp2, st, pr2, k, fin, by)
    BY <2>6 DEF Base, Born
  <2>8. Works(mp2, st, pr2, k, fin, by)
    <3>1. ASSUME NEW x \in Procs, st[x] = "run"
          PROVE  \/ Seg(x, pr2[x].todo, mp2[x], fin[x], k)
                 \/ \E q \in Procs : st[q] = "new" /\ by[q] = x /\ LendsTo(mp2, pr2, k, fin, x, q)
      <4>1. CASE x = p
        BY <1>3, <2>1, <2>4, <4>1
      <4>2. CASE x # p
        BY <1>3, <2>4, <2>6, <3>1, <4>2 DEF Base, Works
      <4> QED BY <4>1, <4>2
    <3> QED BY <3>1 DEF Works
  <2>9. Typed(mp2, st, pr2, k, fin, by) /\ Ids(st, pr2, k) /\ Idle(mp2, st, pr2) /\ Ready(st, pr2, fin)
    <3>1. Typed(mp2, st, pr2, k, fin, by)
      BY <1>1, <1>3, <2>4 DEF Typed
    <3>2. Ids(st, pr, k) /\ Root \in Procs
      BY ShellAssumption DEF Base, Root, Procs
    <3>3. Ids(st, pr2, k)
      BY <1>3, <3>2 DEF Ids
    <3>4. Idle(mp, st, pr) /\ Ready(st, pr, fin)
      BY DEF Base
    <3>5. Idle(mp2, st, pr2)
      BY <1>3, <2>4, <3>4 DEF Idle
    <3>6. Ready(st, pr2, fin)
      BY <1>3, <3>4 DEF Ready
    <3> QED BY <3>1, <3>3, <3>5, <3>6
  <2>10. Base(mp2, st2, pr2, k, fin, by)
    BY <2>3, <2>7, <2>8, <2>9 DEF Base
  <2> QED BY <2>10 DEF c, o2, mp2, st2, pr2
<1>5. CASE ~Seg(p, pr[p].todo, mp[p], fin[p], k)
  <2>1. PICK q \in Procs : st[q] = "new" /\ by[q] = p /\ LendsTo(mp, pr, k, fin, p, q)
    BY <1>5 DEF Base, Works
  <2>2. PICK u \in Seq(Calls), o \in Seq(Calls) :
          /\ pr[p].todo = u \o o /\ Gives(mp[p], mp[q], q, u)
          /\ Seg(p, o, mp[p], fin[p], k) /\ Seg(q, pr[q].todo, mp[p], fin[q], k)
    BY <2>1 DEF LendsTo, Lends
  <2>3. p # q /\ mp[p] \in Maps /\ mp[q] \in Maps
    BY <1>1, <2>1 DEF Typed
  <2>4. u # <<>>
    BY <2>2 DEF Gives
  <2>5. c = u[1] /\ o2 = Tail(u) \o o
    BY <2>2, <2>4
  <2>a. \A r \in Procs : st[r] = "new" /\ r # q => by[r] # p /\ by[r] # q /\ by[r] \in Procs
    BY <1>1, <2>1, OneHeir DEF Typed
  <2>6. CASE Len(u) # 1
    <3>1. PICK s \in Slots : /\ mp[p][s] # NIL /\ u[1] = Map(q, s, mp[p][s])
                             /\ Gives(mp[p], [mp[q] EXCEPT ![s] = mp[p][s]], q, Tail(u))
      BY <2>2, <2>3, <2>6, GivesTail
    <3> DEFINE m == [mp[q] EXCEPT ![s] = mp[p][s]]
    <3>2. mp2 = [mp EXCEPT ![q] = m] /\ st2 = st /\ m \in Maps
      BY <1>1, <2>3, <2>5, <3>1 DEF Effect, After, Map, Typed, Maps
    <3> HIDE DEF m, mp2, st2, c, o2
    <3>3. mp2 \in [Procs -> Maps] /\ \A x \in Procs : mp2[x] = (IF x = q THEN m ELSE mp[x])
      BY <1>1, <3>2 DEF Typed
    <3>4. Tail(u) \in Seq(Calls)
      BY <2>4, HeadTailProperties
    <3>5. Lends(p, q, o2, mp[p], m, fin[p], pr[q].todo, fin[q], k)
      BY <2>2, <2>5, <3>1, <3>4 DEF Lends, m
    <3>6. ASSUME NEW r \in Procs, st[r] = "new" PROVE LendsTo(mp2, pr2, k, fin, by[r], r)
      <4>1. CASE r = q
        BY <1>3, <2>1, <2>3, <3>3, <3>5, <4>1 DEF LendsTo
      <4>2. CASE r # q
        <5>1. LendsTo(mp, pr, k, fin, by[r], r)
          BY <3>6 DEF Base, Born
        <5>2. r # p /\ by[r] # p /\ by[r] # q /\ by[r] \in Procs
          BY <2>a, <3>6, <4>2
        <5> QED BY <1>3, <3>3, <4>2, <5>1, <5>2 DEF LendsTo
      <4> QED BY <4>1, <4>2
    <3>7. Born(mp2, st, pr2, k, fin, by)
      BY <3>6 DEF Base, Born
    <3>8. Works(mp2, st, pr2, k, fin, by)
      <4>1. ASSUME NEW x \in Procs, st[x] = "run"
            PROVE  \/ Seg(x, pr2[x].todo, mp2[x], fin[x], k)
                   \/ \E r \in Procs : st[r] = "new" /\ by[r] = x /\ LendsTo(mp2, pr2, k, fin, x, r)
        <5>1. CASE x = p
          BY <2>1, <3>6, <5>1
        <5>2. CASE x # p
          <6>1. x # q
            BY <2>1, <4>1
          <6> QED BY <1>3, <3>3, <3>6, <4>1, <5>2, <6>1 DEF Base, Works
        <5> QED BY <5>1, <5>2
      <4> QED BY <4>1 DEF Works
    <3>9. Typed(mp2, st, pr2, k, fin, by) /\ Ids(st, pr2, k) /\ Idle(mp2, st, pr2) /\ Ready(st, pr2, fin)
      <4>1. Typed(mp2, st, pr2, k, fin, by)
        BY <1>1, <1>3, <3>3 DEF Typed
      <4>2. Ids(st, pr, k) /\ Root \in Procs
        BY ShellAssumption DEF Base, Root, Procs
      <4>3. Ids(st, pr2, k)
        BY <1>3, <4>2 DEF Ids
      <4>4. Idle(mp, st, pr) /\ Ready(st, pr, fin)
        BY DEF Base
      <4>5. Idle(mp2, st, pr2)
        BY <1>3, <2>1, <3>3, <4>4 DEF Idle
      <4>6. Ready(st, pr2, fin)
        BY <1>3, <4>4 DEF Ready
      <4> QED BY <4>1, <4>3, <4>5, <4>6
    <3>10. Base(mp2, st2, pr2, k, fin, by)
      BY <3>2, <3>7, <3>8, <3>9 DEF Base
    <3> QED BY <3>10 DEF c, o2, mp2, st2, pr2
  <2>7. CASE Len(u) = 1
    <3>1. u = <<Start(q)>> /\ mp[q] = mp[p]
      BY <2>2, <2>3, <2>7, GivesEnd
    <3>2. c = Start(q) /\ o2 = o
      BY <2>5, <3>1
    <3>3. mp2 = mp /\ st2 = [st EXCEPT ![q] = "run"]
      BY <3>2 DEF Effect, After, Start
    <3> HIDE DEF mp2, st2, c, o2
    <3>4. st2 \in [Procs -> States] /\ \A x \in Procs : st2[x] = (IF x = q THEN "run" ELSE st[x])
      BY <1>1, <3>3 DEF Typed, States
    <3>5. ASSUME NEW r \in Procs, st2[r] = "new" PROVE st2[by[r]] = "run" /\ LendsTo(mp, pr2, k, fin, by[r], r)
      <4>1. st[r] = "new" /\ r # q
        BY <3>4, <3>5
      <4>2. st[by[r]] = "run" /\ LendsTo(mp, pr, k, fin, by[r], r)
        BY <4>1 DEF Base, Born
      <4>3. r # p /\ by[r] # p /\ by[r] # q /\ by[r] \in Procs
        BY <2>a, <4>1
      <4> QED BY <1>3, <3>4, <4>2, <4>3 DEF LendsTo
    <3>6. Born(mp, st2, pr2, k, fin, by)
      BY <3>5 DEF Born
    <3>7. Works(mp, st2, pr2, k, fin, by)
      <4>1. ASSUME NEW x \in Procs, st2[x] = "run"
            PROVE  \/ Seg(x, pr2[x].todo, mp[x], fin[x], k)
                   \/ \E r \in Procs : st2[r] = "new" /\ by[r] = x /\ LendsTo(mp, pr2, k, fin, x, r)
        <5>1. CASE x = p
          BY <1>3, <2>2, <3>2, <5>1
        <5>2. CASE x = q
          BY <1>3, <2>2, <2>3, <3>1, <5>2
        <5>3. CASE x # p /\ x # q
          <6>1. st[x] = "run"
            BY <3>4, <4>1, <5>3
          <6>2. CASE Seg(x, pr[x].todo, mp[x], fin[x], k)
            BY <1>3, <5>3, <6>2
          <6>3. ASSUME NEW r \in Procs, st[r] = "new", by[r] = x
                PROVE  st2[r] = "new" /\ LendsTo(mp, pr2, k, fin, x, r)
            <7>1. r # q
              BY <2>1, <5>3, <6>3
            <7>2. st2[r] = "new"
              BY <3>4, <6>3, <7>1
            <7> QED BY <3>5, <6>3, <7>2
          <6> QED BY <6>1, <6>2, <6>3 DEF Base, Works
        <5> QED BY <5>1, <5>2, <5>3
      <4> QED BY <4>1 DEF Works
    <3>8. Typed(mp, st2, pr2, k, fin, by) /\ Ids(st2, pr2, k) /\ Idle(mp, st2, pr2) /\ Ready(st2, pr2, fin)
      <4>1. Typed(mp, st2, pr2, k, fin, by)
        BY <1>1, <1>3, <3>4 DEF Typed
      <4>2. Ids(st, pr, k) /\ Root \in Procs
        BY ShellAssumption DEF Base, Root, Procs
      <4>3. Ids(st2, pr2, k)
        BY <1>3, <2>1, <3>4, <4>2 DEF Ids
      <4>4. Idle(mp, st, pr) /\ Ready(st, pr, fin)
        BY DEF Base
      <4>5. Idle(mp, st2, pr2)
        BY <1>3, <3>4, <4>4 DEF Idle
      <4>6. Ready(st2, pr2, fin)
        BY <1>3, <2>1, <3>4, <4>4 DEF Ready
      <4> QED BY <4>1, <4>3, <4>5, <4>6
    <3>9. Base(mp2, st2, pr2, k, fin, by)
      BY <3>3, <3>6, <3>7, <3>8 DEF Base
    <3> QED BY <3>9 DEF c, o2, mp2, st2, pr2
  <2> QED BY <2>6, <2>7
<1> QED BY <1>4, <1>5

\* The least and the greatest of some numbers.
LEMMA MinIs ==
  ASSUME NEW S \in SUBSET Nat, S # {}
  PROVE  Min(S) \in S /\ \A x \in S : Min(S) <= x
<1>1. PICK n \in S : \A y \in S : ~(<<y, n>> \in OpToRel(<, Nat))
  <2>1. PICK n \in S : \A y \in S : ~(<<y, n>> \in OpToRel(<, Nat))
    BY NatLessThanWellFounded, WFMin
  <2> QED BY <2>1
<1>2. \A y \in S : n <= y
  <2>1. ASSUME NEW y \in S, y < n PROVE FALSE
    <3>1. <<y, n>> \in OpToRel(<, Nat)
      BY <2>1 DEF OpToRel
    <3> QED BY <1>1, <3>1
  <2> QED BY <2>1
<1> QED BY <1>2 DEF Min

\* The largest number of a set of small numbers is one of them.
LEMMA MaxIs ==
  ASSUME NEW N \in Nat, NEW S \in SUBSET (0 .. N), S # {}
  PROVE  Max(S) \in S
<1> DEFINE D == {N - x : x \in S}
<1>1. D \in SUBSET Nat /\ D # {}
  OBVIOUS
<1>2. Min(D) \in D /\ \A d \in D : Min(D) <= d
  <2> HIDE DEF D
  <2> QED BY <1>1, MinIs
<1>3. PICK x \in S : Min(D) = N - x
  BY <1>2
<1>4. \A y \in S : x >= y
  <2>1. ASSUME NEW y \in S PROVE x >= y
    <3>1. N - x <= N - y
      BY <1>2, <1>3
    <3> QED BY <3>1
  <2> QED BY <2>1
<1> QED BY <1>4 DEF Max

\* What is left of the calls.
LEMMA RestIs ==
  ASSUME NEW o \in Seq(Calls), NEW i \in 0 .. Len(o) - 1
  PROVE  /\ SubSeq(o, i + 1, Len(o)) \in Seq(Calls) /\ SubSeq(o, i + 1, Len(o)) # <<>>
         /\ SubSeq(o, i + 1, Len(o))[1] = o[i + 1]
         /\ Tail(SubSeq(o, i + 1, Len(o))) = SubSeq(o, (i + 1) + 1, Len(o))
<1> DEFINE L == Len(o)
           s == SubSeq(o, i + 1, L)
           t == SubSeq(o, (i + 1) + 1, L)
<1>1. L \in Nat /\ i \in Nat /\ i < L /\ \A j \in 1 .. L : o[j] \in Calls
  OBVIOUS
<1>2. s \in Seq(Calls) /\ Len(s) = L - i /\ \A j \in 1 .. L - i : s[j] = o[i + j]
  <2>1. i + 1 \in 1 .. L + 1 /\ L \in i .. L
    BY <1>1
  <2> QED BY <1>1, <2>1
<1>3. t \in Seq(Calls) /\ Len(t) = L - i - 1 /\ \A j \in 1 .. L - i - 1 : t[j] = o[i + 1 + j]
  BY <1>1
<1> HIDE DEF L, s, t
<1>4. s # <<>> /\ 1 \in 1 .. L - i
  BY <1>1, <1>2, EmptySeq
<1>5. Tail(s) \in Seq(Calls) /\ Len(Tail(s)) = L - i - 1 /\ \A j \in 1 .. L - i - 1 : Tail(s)[j] = s[j + 1]
  BY <1>1, <1>2, <1>4, HeadTailProperties
<1>6. \A j \in 1 .. L - i - 1 : Tail(s)[j] = t[j]
  <2>1. ASSUME NEW j \in 1 .. L - i - 1 PROVE Tail(s)[j] = t[j]
    <3>1. j + 1 \in 1 .. L - i /\ i + (j + 1) = i + 1 + j
      BY <1>1
    <3> QED BY <1>2, <1>3, <1>5, <3>1
  <2> QED BY <2>1
<1>7. Tail(s) = t
  BY <1>3, <1>5, <1>6, SeqEqual
<1> QED BY <1>2, <1>4, <1>7 DEF s, t, L

\* Who gives pages to a child keeps its own until the child runs.
LEMMA LenderKeeps ==
  ASSUME NEW mp, NEW st, NEW pr, NEW k, NEW fin, NEW by, Base(mp, st, pr, k, fin, by),
         NEW p \in Procs, st[p] = "run", pr[p].todo # <<>>, NEW y \in Procs, st[y] = "new"
  PROVE  Effect(mp, pr[p].todo[1])[by[y]] = mp[by[y]]
<1> DEFINE c == pr[p].todo[1]
<1>1. mp \in [Procs -> Maps] /\ pr[p] \in ProcRecs
  BY DEF Base, Typed
<1>2. by[y] \in Procs /\ st[by[y]] = "run" /\ ~Seg(by[y], pr[by[y]].todo, mp[by[y]], fin[by[y]], k)
  BY OneHeir
<1>3. c.who # by[y]
  <2>1. CASE Seg(p, pr[p].todo, mp[p], fin[p], k)
    <3>1. pr[p].todo \in Seq(Calls)
      BY <1>1 DEF ProcRecs
    <3>2. c \in Moves(p)
      BY <2>1, <3>1, SegTail
    <3> QED BY <1>2, <2>1, <3>2 DEF Moves
  <2>2. ASSUME NEW q \in Procs, st[q] = "new", LendsTo(mp, pr, k, fin, p, q) PROVE c.who # by[y]
    <3>1. c.who = q
      BY <2>2, LendsFirst DEF LendsTo
    <3> QED BY <1>2, <2>2, <3>1
  <2> QED BY <2>1, <2>2 DEF Base, Works
<1> QED BY <1>1, <1>2, <1>3 DEF Effect

\* A system call, with the silent ones after it.
LEMMA SyscallStep ==
  ASSUME NEW p \in Procs, Syscall(p), NEW fin, NEW by, Base(map, status, proc, Len(used), fin, by)
  PROVE  /\ Base(map', status', proc', Len(used'), fin, by)
         /\ \E o \in Seq(Calls) : proc' = [proc EXCEPT ![p].todo = o]
         /\ \A x \in Procs : status'[x] # status[x] => status[x] = "new" /\ status'[x] = "run"
         /\ used' = used /\ status[p] = "run"
         /\ \A y \in Procs : status'[y] = "new" => map'[by[y]] = map[by[y]]
<1> DEFINE calls == proc[p].todo
           n == Max({i \in DOMAIN calls : \A j \in 2 .. i : Silent(calls[j])})
           F(f, i) == IF i = 0 THEN map ELSE Effect(f[i - 1], calls[i])
           C == CHOOSE f : f = [i \in 0 .. n |-> F(f, i)]
           st1 == After(status, calls[1])
           rest(i) == SubSeq(calls, i + 1, Len(calls))
           k == Len(used)
<1>1. Typed(map, status, proc, k, fin, by) /\ calls \in Seq(Calls) /\ calls # <<>> /\ status[p] = "run" /\ used' = used
  BY DEF Base, Typed, ProcRecs, Syscall
<1>2. map' = C[n] /\ status' = st1 /\ proc' = [proc EXCEPT ![p].todo = rest(n)]
  BY DEF Syscall, After
<1> HIDE DEF C, k
<1> DEFINE L == Len(calls)
<1>3. L \in Nat /\ L # 0 /\ DOMAIN calls = 1 .. L
  <2> DEFINE o == calls
  <2>1. o \in Seq(Calls) /\ o # <<>>
    BY <1>1
  <2> HIDE DEF o
  <2>2. Len(o) \in Nat /\ Len(o) # 0 /\ DOMAIN o = 1 .. Len(o)
    BY <2>1, EmptySeq, LenProperties
  <2> QED BY <2>2 DEF o
<1>4. n \in 1 .. L /\ \A j \in 2 .. n : Silent(calls[j])
  <2> DEFINE S == {i \in DOMAIN calls : \A j \in 2 .. i : Silent(calls[j])}
  <2> HIDE DEF L
  <2>1. S \in SUBSET (0 .. L)
    BY <1>3
  <2>2. 1 \in S
    BY <1>3
  <2>3. S # {}
    BY <2>2
  <2> HIDE DEF S
  <2>4. Max(S) \in S
    BY <1>3, <2>1, <2>3, MaxIs
  <2> QED BY <1>3, <2>4 DEF S
<1>c. \A i \in 1 .. L : calls[i] \in Calls
  BY <1>1, <1>3
<1> HIDE DEF n, L, calls
<1>5. C[0] = map /\ \A i \in 0 .. n - 1 : C[i + 1] = Effect(C[i], calls[i + 1])
  <2> DEFINE AllMaps == [Procs -> Maps]
             op == [x \in AllMaps \X (0 .. n - 1) |-> Effect(x[1], calls[x[2] + 1])]
  <2>1. n \in Nat /\ 0 \in Nat /\ 0 <= n
    BY <1>3, <1>4
  <2>2. PICK f : LoopOf(f, map, op, 0, n)
    <3> HIDE DEF op
    <3> QED BY <2>1, LoopExists
  <2>3. \A i \in 0 .. n : f[i] = IF i = 0 THEN map ELSE op[<<f[i - 1], i - 1>>]
    <3> DEFINE G(i) == IF i = 0 THEN map ELSE op[<<f[i - 1], i - 1>>]
    <3>1. f = [i \in 0 .. n |-> G(i)]
      BY <2>2 DEF LoopOf
    <3> HIDE DEF G
    <3>2. \A i \in 0 .. n : f[i] = G(i)
      BY <3>1
    <3> QED BY <3>2 DEF G
  <2>4. f[0] = map /\ f[0] \in AllMaps
    <3>1. 0 \in 0 .. n
      BY <2>1
    <3>2. f[0] = map
      BY <2>3, <3>1
    <3> QED BY <1>1, <3>2 DEF Typed
  <2>5. ASSUME NEW i \in 0 .. n - 1, f[i] \in AllMaps
        PROVE  f[i + 1] = Effect(f[i], calls[i + 1]) /\ f[i + 1] \in AllMaps
    <3>1. i + 1 \in 0 .. n /\ i + 1 # 0 /\ (i + 1) - 1 = i /\ i + 1 \in 1 .. L
      BY <1>3, <1>4, <2>1
    <3>2. f[i + 1] = op[<<f[i], i>>]
      BY <2>3, <3>1
    <3>3. f[i + 1] = Effect(f[i], calls[i + 1])
      BY <2>5, <3>2
    <3>4. calls[i + 1] \in Calls
      BY <1>c, <3>1
    <3> HIDE DEF op
    <3>5. Effect(f[i], calls[i + 1]) \in AllMaps
      BY <2>5, <3>4 DEF Effect, Calls, Maps
    <3> QED BY <3>3, <3>5
  <2>6. \A i \in 0 .. n : f[i] \in AllMaps
    <3> DEFINE P == {i \in 0 .. n : f[i] \in AllMaps}
    <3>1. 0 \in P
      BY <2>1, <2>4
    <3>2. ASSUME NEW i \in 0 .. n - 1, i \in P PROVE i + 1 \in P
      <4>1. i + 1 \in 0 .. n
        BY <2>1
      <4>2. f[i + 1] \in AllMaps
        BY <2>5, <3>2
      <4> QED BY <4>1, <4>2
    <3>3. \A i \in 0 .. n : i \in P
      <4> HIDE DEF P
      <4> QED BY <2>1, <3>1, <3>2, UpTo
    <3> QED BY <3>3
  <2>7. f = [i \in 0 .. n |-> f[i]]
    <3> DEFINE G(i) == IF i = 0 THEN map ELSE op[<<f[i - 1], i - 1>>]
    <3>1. f = [i \in 0 .. n |-> G(i)]
      BY <2>2 DEF LoopOf
    <3> HIDE DEF G
    <3> QED BY <3>1
  <2> HIDE DEF op, AllMaps
  <2>8. \A i \in 0 .. n : f[i] = F(f, i)
    <3>1. ASSUME NEW i \in 0 .. n, i # 0 PROVE f[i] = Effect(f[i - 1], calls[i])
      <4>1. PICK j \in 0 .. n - 1 : j + 1 = i /\ j = i - 1 /\ j \in 0 .. n
        BY <2>1, <3>1
      <4>2. f[j + 1] = Effect(f[j], calls[j + 1])
        BY <2>5, <2>6, <4>1
      <4> QED BY <4>1, <4>2
    <3> QED BY <2>4, <3>1
  <2>9. f = [i \in 0 .. n |-> F(f, i)]
    BY <2>7, <2>8
  <2>10. C = [i \in 0 .. n |-> F(C, i)]
    <3>1. \E g : g = [i \in 0 .. n |-> F(g, i)]
      <4> HIDE DEF F
      <4> QED BY <2>9
    <3> HIDE DEF F
    <3> QED BY <3>1 DEF C
  <2>11. \A i \in 0 .. n : C[i] = F(C, i)
    <3> HIDE DEF F
    <3> QED BY <2>10
  <2>12. \A i \in 0 .. n - 1 : i + 1 \in 0 .. n /\ i + 1 # 0 /\ (i + 1) - 1 = i
    BY <2>1
  <2> QED BY <2>1, <2>11, <2>12
<1> HIDE DEF F
<1>6. ASSUME NEW i \in 0 .. L - 1
      PROVE  rest(i) \in Seq(Calls) /\ rest(i) # <<>> /\ rest(i)[1] = calls[i + 1] /\ Tail(rest(i)) = rest(i + 1)
  <2>1. i \in Nat /\ i + 1 \in 1 .. L /\ L \in Nat /\ calls \in Seq(Calls) /\ Len(calls) = L
    BY <1>1, <1>3 DEF calls, L
  <2> QED BY <2>1, RestIs DEF L
<1>7. rest(0) = calls
  BY <1>1, <1>3 DEF L, calls
<1> DEFINE pr(i) == [proc EXCEPT ![p].todo = rest(i)]
           OK(i) == Base(C[i], st1, pr(i), k, fin, by)
           Keeps(i) == \A y \in Procs : st1[y] = "new" => C[i][by[y]] = map[by[y]]
           P == {i \in 1 .. n : OK(i) /\ Keeps(i)}
<1>8. \A i : pr(i)[p].todo = rest(i) /\ [pr(i) EXCEPT ![p].todo = rest(i + 1)] = pr(i + 1)
  BY <1>1 DEF Typed, ProcRecs
<1>9. st1 \in [Procs -> States] /\ st1[p] = "run"
      /\ \A x \in Procs : st1[x] # status[x] => status[x] = "new" /\ st1[x] = "run"
  <2>1. 1 \in 1 .. L
    BY <1>3
  <2>2. calls[1] \in Calls
    BY <1>c, <2>1
  <2>3. st1 \in [Procs -> States] /\ st1[p] = "run"
    BY <1>1, <2>2 DEF After, Typed, States, Calls
  <2>4. ASSUME calls[1].call = "start" PROVE status[calls[1].who] = "new"
    <3>1. ~(calls[1] \in Moves(p))
      BY <2>4 DEF Moves
    <3>2. ~Seg(p, proc[p].todo, map[p], fin[p], k)
      BY <1>1, <3>1, SegTail DEF calls
    <3>3. PICK q \in Procs : status[q] = "new" /\ LendsTo(map, proc, k, fin, p, q)
      BY <1>1, <3>2 DEF Base, Works, k
    <3>4. calls[1].who = q
      BY <3>3, LendsFirst DEF LendsTo, calls
    <3> QED BY <3>3, <3>4
  <2> QED BY <1>1, <2>2, <2>3, <2>4 DEF After, Typed, Calls
<1>10. 1 \in P
  <2>1. Base(Effect(map, calls[1]), st1, [proc EXCEPT ![p].todo = Tail(calls)], k, fin, by)
    BY <1>1, OneCall DEF calls, k
  <2>2. 0 \in 0 .. L - 1 /\ 0 \in 0 .. n - 1 /\ 0 + 1 = 1 /\ 1 \in 1 .. n
    BY <1>3, <1>4
  <2>3. C[1] = Effect(map, calls[1])
    BY <1>5, <2>2
  <2>4. Tail(calls) = rest(1)
    BY <1>6, <1>7, <2>2
  <2>5. Keeps(1)
    <3>1. ASSUME NEW y \in Procs, st1[y] = "new" PROVE Effect(map, calls[1])[by[y]] = map[by[y]]
      <4>1. status[y] = "new"
        BY <1>9, <3>1
      <4> QED BY <1>1, <4>1, LenderKeeps DEF calls, k
    <3> QED BY <2>3, <3>1
  <2> QED BY <2>1, <2>2, <2>3, <2>4, <2>5
<1> HIDE DEF st1, rest
<1>11. ASSUME NEW i \in 1 .. n - 1, i \in P PROVE i + 1 \in P
  <2>1. i \in 0 .. n - 1 /\ i \in 0 .. L - 1 /\ i + 1 \in 1 .. n /\ i + 1 \in 2 .. n
    BY <1>3, <1>4
  <2>2. Base(C[i], st1, pr(i), k, fin, by)
    BY <1>11
  <2>3. pr(i)[p].todo = rest(i) /\ rest(i) # <<>> /\ rest(i)[1] = calls[i + 1] /\ Tail(rest(i)) = rest(i + 1)
    BY <1>6, <1>8, <2>1
  <2>4. C[i + 1] = Effect(C[i], calls[i + 1])
    BY <1>5, <2>1
  <2>5. After(st1, calls[i + 1]) = st1
    BY <1>4, <2>1 DEF After, Silent
  <2>6. [pr(i) EXCEPT ![p].todo = rest(i + 1)] = pr(i + 1)
    BY <1>8
  <2> DEFINE r == pr(i)
             c == r[p].todo[1]
             t == Tail(r[p].todo)
  <2>7. Base(C[i], st1, r, k, fin, by) /\ r[p].todo # <<>> /\ c = calls[i + 1] /\ t = rest(i + 1)
    BY <2>2, <2>3
  <2> HIDE DEF r, OK, P, pr, Keeps
  <2>8. Base(Effect(C[i], c), After(st1, c), [r EXCEPT ![p].todo = t], k, fin, by)
    BY <1>9, <2>7, OneCall
  <2>9. Effect(C[i], c) = C[i + 1] /\ After(st1, c) = st1
    BY <2>4, <2>5, <2>7
  <2>10. [r EXCEPT ![p].todo = t] = [r EXCEPT ![p].todo = rest(i + 1)]
    BY <2>7
  <2>11. [r EXCEPT ![p].todo = t] = pr(i + 1)
    BY <2>6, <2>10 DEF r
  <2> HIDE DEF c, t
  <2>12. OK(i + 1)
    BY <2>8, <2>9, <2>11 DEF OK
  <2>13. Keeps(i + 1)
    <3>1. ASSUME NEW y \in Procs, st1[y] = "new" PROVE C[i + 1][by[y]] = map[by[y]]
      <4>1. Effect(C[i], c)[by[y]] = C[i][by[y]]
        BY <1>9, <2>7, <3>1, LenderKeeps DEF c
      <4>2. C[i][by[y]] = map[by[y]]
        BY <1>11, <3>1 DEF P, Keeps
      <4> QED BY <2>9, <4>1, <4>2
    <3> QED BY <3>1 DEF Keeps
  <2> QED BY <2>1, <2>12, <2>13 DEF P
<1>12. OK(n) /\ Keeps(n)
  <2>1. n \in Nat /\ 1 \in Nat /\ 1 <= n /\ n \in 1 .. n
    BY <1>3, <1>4
  <2> HIDE DEF OK, Keeps
  <2>2. \A i \in 1 .. n : i \in P
    <3> HIDE DEF P
    <3> QED BY <1>10, <1>11, <2>1, UpTo
  <2> QED BY <2>1, <2>2
<1>13. rest(n) \in Seq(Calls)
  BY <1>1, <1>3, <1>4 DEF rest, L, calls
<1>14. \A y \in Procs : status'[y] = "new" => map'[by[y]] = map[by[y]]
  BY <1>2, <1>12
<1> QED BY <1>1, <1>2, <1>9, <1>12, <1>13, <1>14 DEF k

-----------------------------------------------------------------------------
(***************************************************************************)
(* What the shell does with its descriptors.                               *)
(***************************************************************************)
\* close and dup, as far as the Fd pages are concerned.
LEMMA ShutFd ==
  ASSUME NEW m \in Maps, NEW c \in Fds, NEW n \in Fds
  PROVE  Shut(m, c)[fd(n)] = IF n = c THEN NIL ELSE m[fd(n)]
<1>1. fd(n) \in Slots /\ fd(n) # data(c) /\ (fd(n) = fd(c) <=> n = c)
  BY SlotFacts
<1> QED BY <1>1 DEF Shut

\* What a descriptor names after dup (fd.c:136).
LEMMA DupedFd ==
  ASSUME NEW m \in Maps, NEW old \in Fds, NEW new \in Fds, NEW n \in Fds
  PROVE  Duped(m, old, new)[fd(n)] = IF n = new THEN m[fd(old)] ELSE m[fd(n)]
<1>1. fd(n) \in Slots /\ fd(n) # data(new) /\ (fd(n) = fd(new) <=> n = new)
  BY SlotFacts
<1> QED BY <1>1, ShutFd DEF Duped

\* dup and close of the descriptor that was duplicated.
LEMMA Moved ==
  ASSUME NEW p \in Procs, NEW m, NEW k, Fine(m, k), NEW a \in Fds, NEW new \in Fds, a # new, m[fd(a)] # NIL
  PROVE  LET o == dup(p, m, a, new) \o close(p, m, a)
             f == Shut(Duped(m, a, new), a)
         IN  /\ o \in Seq(Calls) /\ Seg(p, o, m, f, k)
             /\ \A n \in Fds : f[fd(n)] = IF n = a THEN NIL ELSE IF n = new THEN m[fd(a)] ELSE m[fd(n)]
<1> DEFINE g == Duped(m, a, new)
           f == Shut(g, a)
<1>1. dup(p, m, a, new) \in Seq(Calls) /\ Seg(p, dup(p, m, a, new), m, g, k) /\ m \in Maps
  BY DupSeg DEF Fine
<1>2. Fine(g, k) /\ g \in Maps
  <2> HIDE DEF g
  <2>1. Fine(g, k)
    BY <1>1, SegFine
  <2> QED BY <2>1 DEF Fine
<1>3. g[fd(a)] = m[fd(a)]
  BY <1>1, DupedFd
<1>4. close(p, m, a) \in Seq(Calls) /\ Seg(p, close(p, m, a), g, f, k)
  BY <1>1, <1>2, <1>3, CloseSeg
<1>5. dup(p, m, a, new) \o close(p, m, a) \in Seq(Calls) /\ Seg(p, dup(p, m, a, new) \o close(p, m, a), m, f, k)
  <2> HIDE DEF f, g
  <2> QED BY <1>1, <1>4, SegCat
<1>6. ASSUME NEW n \in Fds PROVE f[fd(n)] = IF n = a THEN NIL ELSE IF n = new THEN m[fd(a)] ELSE m[fd(n)]
  <2>1. g[fd(n)] = IF n = new THEN m[fd(a)] ELSE m[fd(n)]
    BY <1>1, DupedFd
  <2>2. f[fd(n)] = IF n = a THEN NIL ELSE g[fd(n)]
    BY <1>2, ShutFd
  <2> QED BY <2>1, <2>2
<1> QED BY <1>5, <1>6

\* dup and close of both descriptors of a new pipe.
LEMMA Rewired ==
  ASSUME NEW p \in Procs, NEW m, NEW k, Fine(m, k), NEW a \in {3, 4}, NEW b \in {3, 4}, a # b, NEW new \in {0, 1},
         m[fd(a)] # NIL, m[fd(0)] # NIL, m[fd(1)] # NIL, m[fd(2)] = Page(0, "file"),
         \A n \in Fds : n >= 5 => m[fd(n)] = NIL
  PROVE  LET o == dup(p, m, a, new) \o close(p, m, a) \o close(p, m, b)
         IN  o \in Seq(Calls) /\ \E f \in Maps : /\ Seg(p, o, m, f, k) /\ Std(f)
                                                 /\ f[fd(new)] = m[fd(a)] /\ f[fd(1 - new)] = m[fd(1 - new)]
<1> DEFINE g == Shut(Duped(m, a, new), a)
           f == Shut(g, b)
           o1 == dup(p, m, a, new) \o close(p, m, a)
<1>1. a \in Fds /\ b \in Fds /\ new \in Fds /\ 1 - new \in Fds /\ a # new /\ b # new /\ m \in Maps
      /\ 1 - new # a /\ 1 - new # b /\ 1 - new # new /\ 0 \in Fds /\ 1 \in Fds
      /\ 2 \in Fds /\ 2 # a /\ 2 # b /\ 2 # new
  BY SlotFacts DEF Fine
<1>2. /\ o1 \in Seq(Calls) /\ Seg(p, o1, m, g, k)
      /\ \A n \in Fds : g[fd(n)] = IF n = a THEN NIL ELSE IF n = new THEN m[fd(a)] ELSE m[fd(n)]
  BY <1>1, Moved
<1> HIDE DEF g, o1
<1>3. Fine(g, k) /\ g \in Maps
  <2>1. Fine(g, k)
    BY <1>2, SegFine
  <2> QED BY <2>1 DEF Fine
<1>4. close(p, m, b) \in Seq(Calls) /\ Seg(p, close(p, m, b), g, f, k)
  <2>1. g[fd(b)] = m[fd(b)]
    BY <1>1, <1>2
  <2> QED BY <1>1, <1>3, <2>1, CloseSeg
<1>5. \A n \in Fds : f[fd(n)] = IF n = b THEN NIL ELSE g[fd(n)]
  BY <1>1, <1>3, ShutFd
<1> HIDE DEF f
<1>6. o1 \o close(p, m, b) \in Seq(Calls) /\ Seg(p, o1 \o close(p, m, b), m, f, k)
  BY <1>2, <1>4, SegCat
<1>7. f \in Maps
  BY <1>4, SegFine DEF Fine
<1>8. f[fd(new)] = m[fd(a)] /\ f[fd(1 - new)] = m[fd(1 - new)]
  BY <1>1, <1>2, <1>5
<1>9. Std(f)
  <2>1. f[fd(0)] # NIL /\ f[fd(1)] # NIL /\ f[fd(2)] = Page(0, "file")
    BY <1>1, <1>2, <1>5
  <2>2. ASSUME NEW n \in Fds, n >= 3 PROVE f[fd(n)] = NIL
    <3>1. n \in Nat
      BY SlotFacts
    <3>2. n = a \/ n = b \/ n >= 5
      BY <2>2, <3>1
    <3> QED BY <1>1, <1>2, <1>5, <2>2, <3>2
  <2> QED BY <2>1, <2>2 DEF Std
<1> QED BY <1>6, <1>7, <1>8, <1>9 DEF o1

\* The first free descriptors.
LEMMA Alloc ==
  ASSUME NEW m \in Maps, NEW a \in {3, 4}, \A n \in Fds : n < a => m[fd(n)] # NIL, m[fd(a)] = NIL
  PROVE  fd_alloc(m) = a
<1> DEFINE S == {n \in Fds \ {MAXFD - 1} : m[fd(n)] = NIL}
<1>1. a \in Fds /\ a # MAXFD - 1 /\ MAXFD \in Nat
  BY SlotFacts
<1>2. S \in SUBSET Nat /\ a \in S
  BY <1>1, SlotFacts
<1>3. \A n \in S : ~(n < a)
  OBVIOUS
<1>4. Min(S) \in S /\ Min(S) <= a /\ Min(S) \in Nat
  <2> HIDE DEF S
  <2>1. Min(S) \in S /\ \A x \in S : Min(S) <= x
    BY <1>2, MinIs
  <2> QED BY <1>2, <2>1
<1>5. Min(S) = a
  BY <1>3, <1>4
<1> QED BY <1>5 DEF fd_alloc

\* A file is opened for a redirection.
LEMMA Redirected ==
  ASSUME NEW p \in Procs, NEW m, NEW k \in Nat, Fine(m, k), Std(m), NEW new \in {0, 1}
  PROVE  LET n == fd_alloc(m)
             m2 == [m EXCEPT ![fd(n)] = Page(0, "file")]
             o == dup(p, m2, n, new) \o close(p, m2, n)
         IN  /\ m2 \in Maps /\ o \in Seq(Calls)
             /\ \E f \in Maps : /\ Seg(p, o, m2, f, k) /\ Std(f)
                                /\ f[fd(new)] = Page(0, "file") /\ f[fd(1 - new)] = m[fd(1 - new)]
<1> DEFINE file == Page(0, "file")
           m2 == [m EXCEPT ![fd(3)] = file]
           f == Shut(Duped(m2, 3, new), 3)
           o == dup(p, m2, 3, new) \o close(p, m2, 3)
<1>1. m \in Maps /\ 3 \in Fds /\ new \in Fds /\ 1 - new \in Fds /\ new # 3 /\ 1 - new # 3 /\ 1 - new # new /\ 0 \in Fds /\ 1 \in Fds
      /\ 2 \in Fds /\ new # 2 /\ 1 - new # 2
  BY SlotFacts DEF Fine
<1>2. fd_alloc(m) = 3
  <2>1. \A n \in Fds : n < 3 => n = 0 \/ n = 1 \/ n = 2
    BY SlotFacts
  <2>2. \A n \in Fds : n < 3 => m[fd(n)] # NIL
    BY <2>1, FileFacts DEF Std
  <2>3. m[fd(3)] = NIL
    BY <1>1 DEF Std
  <2> QED BY <1>1, <2>2, <2>3, Alloc
<1>3. file \in Pages /\ file.pipe = 0 /\ file.what = "file" /\ ~IsPipe(file) /\ file # NIL
  BY FileFacts
<1> HIDE DEF file
<1>4. fd(3) \in Slots /\ (\A n \in Fds : fd(n) \in Slots /\ data(n) \in Slots /\ data(n) # fd(3) /\ (fd(n) = fd(3) => n = 3))
  BY <1>1, SlotFacts
<1>5. m2 \in Maps /\ m2[fd(3)] = file /\ (\A s \in Slots : s # fd(3) => m2[s] = m[s])
  BY <1>1, <1>3, <1>4 DEF Maps
<1> HIDE DEF m2
<1>6. Fine(m2, k)
  BY <1>3, <1>4, <1>5 DEF Fine
<1>7. /\ o \in Seq(Calls) /\ Seg(p, o, m2, f, k)
      /\ \A n \in Fds : f[fd(n)] = IF n = 3 THEN NIL ELSE IF n = new THEN m2[fd(3)] ELSE m2[fd(n)]
  <2>1. 3 \in Fds /\ new \in Fds /\ 3 # new /\ m2[fd(3)] # NIL
    BY <1>1, <1>3, <1>5
  <2> QED BY <1>6, <2>1, Moved
<1> HIDE DEF f, o
<1>8. f \in Maps
  BY <1>7, SegFine DEF Fine
<1>9. f[fd(new)] = file /\ f[fd(1 - new)] = m[fd(1 - new)]
  BY <1>1, <1>4, <1>5, <1>7
<1>10. Std(f)
  <2>1. f[fd(0)] # NIL /\ f[fd(1)] # NIL /\ f[fd(2)] = Page(0, "file")
    BY <1>1, <1>3, <1>4, <1>5, <1>7 DEF Std
  <2>2. ASSUME NEW n \in Fds, n >= 3 PROVE f[fd(n)] = NIL
    BY <1>1, <1>4, <1>5, <1>7, <2>2 DEF Std
  <2> QED BY <2>1, <2>2 DEF Std
<1>11. m2 \in Maps /\ o \in Seq(Calls) /\ \E g \in Maps : /\ Seg(p, o, m2, g, k) /\ Std(g)
                                /\ g[fd(new)] = file /\ g[fd(1 - new)] = m[fd(1 - new)]
  BY <1>5, <1>7, <1>8, <1>9, <1>10
<1> QED BY <1>2, <1>11 DEF o, m2, file

\* pipe(): descriptors 3 and 4.
LEMMA Piped ==
  ASSUME NEW m, NEW k \in Nat, Fine(m, k), Std(m), k + 1 <= MaxProcs
  PROVE  LET r  == fd_alloc(m)
             w  == fd_alloc([m EXCEPT ![fd(r)] = Page(0, "file")])
             m2 == NewPipe(k + 1, m, r, w)
         IN  /\ r = 3 /\ w = 4 /\ Fine(m2, k + 1) /\ m2 \in Maps
             /\ m2[fd(3)] = Page(k + 1, "r") /\ m2[fd(4)] = Page(k + 1, "w")
             /\ m2[fd(0)] = m[fd(0)] /\ m2[fd(1)] = m[fd(1)] /\ m2[fd(2)] = m[fd(2)]
             /\ \A n \in Fds : n >= 5 => m2[fd(n)] = NIL
             /\ Page(k + 1, "r") # NIL /\ Page(k + 1, "w") # NIL
             /\ Page(k + 1, "r") \in Pages /\ Page(k + 1, "w") \in Pages
<1> DEFINE file == Page(0, "file")
           R == Page(k + 1, "r")
           W == Page(k + 1, "w")
           B == Page(k + 1, "buf")
           m1 == [m EXCEPT ![fd(3)] = file]
           m2 == NewPipe(k + 1, m, 3, 4)
<1>1. m \in Maps /\ 2 \in Fds /\ 3 \in Fds /\ 4 \in Fds /\ 0 \in Fds /\ 1 \in Fds /\ \A n \in Fds : n \in Nat
  BY SlotFacts DEF Fine
<1>2. fd_alloc(m) = 3
  <2>1. \A n \in Fds : n < 3 => n = 0 \/ n = 1 \/ n = 2
    BY <1>1
  <2>2. \A n \in Fds : n < 3 => m[fd(n)] # NIL
    BY <2>1, FileFacts DEF Std
  <2>3. m[fd(3)] = NIL
    BY <1>1 DEF Std
  <2> QED BY <1>1, <2>2, <2>3, Alloc
<1>3. /\ file \in Pages /\ R \in Pages /\ W \in Pages /\ B \in Pages
      /\ R.pipe = k + 1 /\ W.pipe = k + 1 /\ B.pipe = k + 1 /\ R.what = "r" /\ W.what = "w" /\ B.what = "buf"
      /\ file # NIL /\ R # NIL /\ W # NIL /\ B # NIL
  <2>1. k + 1 \in 0 .. MaxProcs /\ 0 \in 0 .. MaxProcs
    BY ShellAssumption
  <2>2. file \in Pages /\ R \in Pages /\ W \in Pages /\ B \in Pages
    BY <2>1 DEF Page, Pages, Ends
  <2>3. /\ R.pipe = k + 1 /\ W.pipe = k + 1 /\ B.pipe = k + 1 /\ R.what = "r" /\ W.what = "w" /\ B.what = "buf"
    BY DEF Page
  <2> HIDE DEF file, R, W, B
  <2> QED BY <2>2, <2>3, NilAssumption
<1> HIDE DEF file, R, W, B
<1>4. \A n \in Fds : \A j \in Fds : /\ fd(n) \in Slots /\ data(n) \in Slots /\ data(n) # fd(j) /\ fd(n) # data(j)
                                    /\ (fd(n) = fd(j) => n = j) /\ (data(n) = data(j) => n = j)
  BY SlotFacts
<1>5. m1 \in Maps /\ m1[fd(3)] = file /\ (\A s \in Slots : s # fd(3) => m1[s] = m[s])
  BY <1>1, <1>3, <1>4 DEF Maps
<1>6. fd_alloc(m1) = 4
  <2> HIDE DEF m1
  <2>1. \A n \in Fds : n < 4 => n = 0 \/ n = 1 \/ n = 2 \/ n = 3
    BY <1>1
  <2>2. m1[fd(0)] # NIL /\ m1[fd(1)] # NIL /\ m1[fd(2)] # NIL /\ m1[fd(3)] # NIL
    BY <1>1, <1>3, <1>4, <1>5 DEF Std, file
  <2>3. \A n \in Fds : n < 4 => m1[fd(n)] # NIL
    BY <2>1, <2>2
  <2>4. m1[fd(4)] = NIL
    BY <1>1, <1>4, <1>5 DEF Std
  <2> QED BY <1>5, <2>3, <2>4, Alloc
<1>7. /\ m2 \in Maps
      /\ m2[fd(3)] = R /\ m2[fd(4)] = W /\ m2[data(3)] = B /\ m2[data(4)] = B
      /\ \A s \in Slots : s \notin {fd(3), fd(4), data(3), data(4)} => m2[s] = m[s]
  <2>1. fd(3) # fd(4) /\ data(3) # data(4) /\ fd(3) # data(3) /\ fd(3) # data(4) /\ fd(4) # data(3) /\ fd(4) # data(4)
        /\ fd(3) \in Slots /\ fd(4) \in Slots /\ data(3) \in Slots /\ data(4) \in Slots
    BY <1>1, <1>4
  <2>2. m2 = [m EXCEPT ![fd(3)] = R, ![fd(4)] = W, ![data(3)] = B, ![data(4)] = B]
    BY DEF NewPipe, R, W, B
  <2> HIDE DEF m2
  <2> QED BY <1>1, <1>3, <2>1, <2>2 DEF Maps
<1> HIDE DEF m1, m2
<1>8. \A n \in Fds : n # 3 /\ n # 4 => m2[fd(n)] = m[fd(n)] /\ m2[data(n)] = m[data(n)]
  BY <1>1, <1>4, <1>7
<1>9. Fine(m2, k + 1)
  <2>1. ASSUME NEW n \in Fds, IsPipe(m2[fd(n)]) PROVE m2[data(n)] = Page(m2[fd(n)].pipe, "buf")
    <3>1. CASE n = 3 \/ n = 4
      <4>1. m2[fd(n)].pipe = k + 1 /\ m2[data(n)] = B
        BY <1>3, <1>7, <3>1
      <4> QED BY <4>1 DEF B
    <3>2. CASE n # 3 /\ n # 4
      BY <1>8, <2>1, <3>2 DEF Fine
    <3> QED BY <3>1, <3>2
  <2>2. ASSUME NEW n \in Fds, m2[data(n)] # NIL PROVE m2[data(n)].what = "buf"
    <3>1. CASE n = 3 \/ n = 4
      BY <1>3, <1>7, <3>1
    <3>2. CASE n # 3 /\ n # 4
      BY <1>8, <2>2, <3>2 DEF Fine
    <3> QED BY <3>1, <3>2
  <2>3. ASSUME NEW s \in Slots, m2[s] # NIL PROVE m2[s].pipe <= k + 1
    <3>1. CASE s \in {fd(3), fd(4), data(3), data(4)}
      BY <1>3, <1>7, <3>1
    <3>2. CASE s \notin {fd(3), fd(4), data(3), data(4)}
      <4>1. m2[s] = m[s] /\ m[s] \in Pages
        BY <1>1, <1>7, <2>3, <3>2 DEF Maps
      <4>2. m[s].pipe <= k /\ m[s].pipe \in Int
        BY <2>3, <4>1 DEF Fine, Pages
      <4> QED BY <4>1, <4>2
    <3> QED BY <3>1, <3>2
  <2> QED BY <1>7, <2>1, <2>2, <2>3 DEF Fine
<1>10. \A n \in Fds : n >= 5 => m2[fd(n)] = NIL
  BY <1>1, <1>8 DEF Std
<1>11. m2[fd(0)] = m[fd(0)] /\ m2[fd(1)] = m[fd(1)] /\ m2[fd(2)] = m[fd(2)]
  BY <1>1, <1>8
<1>12. /\ Fine(m2, k + 1) /\ m2 \in Maps
       /\ m2[fd(3)] = R /\ m2[fd(4)] = W
       /\ m2[fd(0)] = m[fd(0)] /\ m2[fd(1)] = m[fd(1)] /\ m2[fd(2)] = m[fd(2)]
       /\ \A n \in Fds : n >= 5 => m2[fd(n)] = NIL
       /\ R # NIL /\ W # NIL /\ R \in Pages /\ W \in Pages
  BY <1>3, <1>7, <1>9, <1>10, <1>11
<1>13. fd_alloc([m EXCEPT ![fd(3)] = Page(0, "file")]) = 4
  BY <1>6 DEF m1, file
<1> QED BY <1>2, <1>12, <1>13 DEF m2, R, W

\* The next environment.
LEMMA NextIs ==
  ASSUME Room
  PROVE  NextId \in Procs /\ status[NextId] = "free" /\ \A x \in Procs : status[x] = "free" => NextId <= x
<1> DEFINE S == {q \in Procs : status[q] = "free"}
<1>1. S \in SUBSET Nat /\ S # {}
  BY ShellAssumption DEF Room, Procs
<1>2. Min(S) \in S /\ \A x \in S : Min(S) <= x
  <2> HIDE DEF S
  <2> QED BY <1>1, MinIs
<1> QED BY <1>2 DEF NextId

\* The tokens of a line.
LEMMA Tokens ==
  ASSUME NEW p \in Procs, proc[p].line \in Seq(Symbols \cup Words), proc[p].word \in Words \cup {NIL}
  PROVE  /\ NextSym(p) \in 0 .. Len(proc[p].line)
         /\ NextSym(p) # 0 => proc[p].line[NextSym(p)] \in Symbols
         /\ \A j \in 1 .. Len(proc[p].line) : proc[p].line[j] \in Symbols => NextSym(p) # 0 /\ NextSym(p) <= j
         /\ Rest(p) \in Seq(Symbols \cup Words)
         /\ Len(Rest(p)) = Len(proc[p].line) - NextSym(p)
         /\ \A j \in 1 .. Len(Rest(p)) : Rest(p)[j] = proc[p].line[NextSym(p) + j]
         /\ Argv0(p) \in Words \cup {NIL}
         /\ Rest(p) # <<>> => /\ Tail(Rest(p)) \in Seq(Symbols \cup Words) /\ Len(Tail(Rest(p))) = Len(Rest(p)) - 1
                              /\ \A j \in 1 .. Len(Rest(p)) - 1 : Tail(Rest(p))[j] = Rest(p)[j + 1]
<1> DEFINE T == Symbols \cup Words
           L == proc[p].line
           S == {j \in 1 .. Len(L) : L[j] \in Symbols}
           s == NextSym(p)
<1>1. L \in Seq(T) /\ Len(L) \in Nat /\ \A j \in 1 .. Len(L) : L[j] \in T
  OBVIOUS
<1>2. /\ s \in 0 .. Len(L) /\ (s # 0 => L[s] \in Symbols)
      /\ \A j \in 1 .. Len(L) : L[j] \in Symbols => s # 0 /\ s <= j
  <2>1. s = IF S # {} THEN Min(S) ELSE 0
    BY DEF NextSym, SelectInSeq
  <2>2. CASE S = {}
    BY <1>1, <2>1, <2>2
  <2>3. CASE S # {}
    <3>1. S \in SUBSET Nat
      OBVIOUS
    <3>2. Min(S) \in S /\ \A x \in S : Min(S) <= x
      <4> HIDE DEF S
      <4> QED BY <2>3, <3>1, MinIs
    <3>3. s \in S /\ \A x \in S : s <= x
      <4> HIDE DEF s, S
      <4> QED BY <2>1, <2>3, <3>2
    <3> HIDE DEF s
    <3>4. s \in 1 .. Len(L) /\ L[s] \in Symbols /\ s # 0 /\ s \in 0 .. Len(L)
      <4>1. s \in 1 .. Len(L) /\ L[s] \in Symbols
        BY <3>3
      <4> QED BY <1>1, <4>1
    <3>5. \A j \in 1 .. Len(L) : L[j] \in Symbols => s <= j
      BY <3>3
    <3> QED BY <3>4, <3>5
  <2> QED BY <2>2, <2>3
<1> HIDE DEF s
<1> DEFINE R == SubSeq(L, s + 1, Len(L))
<1>3. R \in Seq(T) /\ Len(R) = Len(L) - s /\ \A j \in 1 .. Len(R) : R[j] = L[s + j]
  <2> HIDE DEF L, T
  <2>1. s \in Nat /\ s <= Len(L)
    BY <1>1, <1>2
  <2> QED BY <1>1, <2>1
<1>4. Rest(p) = R
  BY DEF Rest, s
<1>5. ASSUME R # <<>>
      PROVE  Tail(R) \in Seq(T) /\ Len(Tail(R)) = Len(R) - 1 /\ \A j \in 1 .. Len(R) - 1 : Tail(R)[j] = R[j + 1]
  <2> HIDE DEF R, T
  <2> QED BY <1>3, <1>5, HeadTailProperties
<1>6. Argv0(p) \in Words \cup {NIL}
  <2>1. CASE proc[p].word # NIL \/ s = 1 \/ L = <<>>
    BY <2>1 DEF Argv0, s
  <2>2. CASE ~(proc[p].word # NIL \/ s = 1 \/ L = <<>>)
    <3>1. Argv0(p) = Head(L) /\ Head(L) = L[1]
      BY <1>1, <2>2 DEF Argv0, s
    <3>2. 1 \in 1 .. Len(L)
      BY <1>1, <2>2
    <3>3. L[1] \notin Symbols
      BY <1>1, <1>2, <2>2, <3>2
    <3> QED BY <1>1, <3>1, <3>2, <3>3
  <2> QED BY <2>1, <2>2
<1> HIDE DEF R
<1> QED BY <1>2, <1>3, <1>4, <1>5, <1>6 DEF s

-----------------------------------------------------------------------------
(***************************************************************************)
(* Every action but Syscall is of one of three kinds: a process goes on by *)
(* itself, it creates another one, or it ends.                             *)
(***************************************************************************)
LocalMoves == {<<"parse", "parse">>, <<"parse", "exit">>, <<"spawn", "exit">>, <<"parse", "wait_right">>,
               <<"spawn", "wait_right">>, <<"wait_line", "main">>, <<"wait_then", "parse">>,
               <<"wait_kid", "wait_right">>, <<"wait_right", "exit">>, <<"program", "program">>,
               <<"program", "ask">>, <<"program", "exit">>, <<"ask", "program">>, <<"ask", "exit">>}

\* p becomes r, has m, and will have f.
LocalAct(p, fin, r, m, f) ==
  /\ status[p] = "run" /\ proc[p].todo = <<>>
  /\ r \in ProcRecs /\ m \in Maps /\ f \in Maps
  /\ map' = [map EXCEPT ![p] = m] /\ proc' = [proc EXCEPT ![p] = r] /\ status' = status
  /\ Seg(p, r.todo, m, f, Len(used)) /\ Len(used') = Len(used)
  /\ <<proc[p].at, r.at>> \in LocalMoves
  /\ r.at \in Reading => Std(f) /\ \A n \in {0, 1} : f[fd(n)] = fin[p][fd(n)] \/ f[fd(n)] = Page(0, "file")
  /\ r.at \in {"program", "ask"} => r.todo = <<>>
  /\ r.right = proc[p].right /\ r.kid = proc[p].kid
  /\ proc[p].at \in {"wait_line", "wait_then", "wait_right"} => Gone(proc[p].right)
  /\ proc[p].at = "wait_kid" => Gone(proc[p].kid)
  /\ (proc[p].at = "spawn" /\ r.at = "exit") => proc[p].word = NIL
  /\ IF proc[p].at = "parse" /\ r.at = "parse"
       THEN /\ Token(p) \in {"<", ">"} /\ Rest(p) # <<>> /\ Rest(p)[1] \in Words
            /\ r.line = Tail(Rest(p)) /\ r.word = Argv0(p)
       ELSE r.line = proc[p].line /\ r.word = proc[p].word

ForkMoves == {<<"main", "wait_line", "parse">>, <<"parse", "spawn", "parse">>, <<"parse", "wait_then", "spawn">>,
              <<"parse", "parse", "spawn">>, <<"parse", "wait_kid", "program">>, <<"spawn", "wait_kid", "program">>}

\* p becomes r and gives m to its child c; they will have f and fq.
ForkAct(p, r, c, o, m, f, fq) ==
  /\ Room /\ status[p] = "run" /\ proc[p].todo = <<>>
  /\ r \in ProcRecs /\ c \in ProcRecs /\ o \in Seq(Calls) /\ m \in Maps /\ f \in Maps /\ fq \in Maps
  /\ map' = [map EXCEPT ![p] = m] /\ status' = [status EXCEPT ![NextId] = "new"]
  /\ proc' = [proc EXCEPT ![p] = r, ![NextId] = c]
  /\ r.todo = Share(NextId, m) \o o
  /\ Seg(p, o, m, f, Len(used')) /\ Seg(NextId, c.todo, m, fq, Len(used'))
  /\ <<proc[p].at, r.at, c.at>> \in ForkMoves
  /\ r.at \in Reading => Std(f)
  /\ Std(fq)
  /\ IF r.at = "spawn"
       THEN /\ Len(used') = Len(used) + 1
            /\ m[fd(0)] = map[p][fd(0)] /\ m[fd(1)] = map[p][fd(1)]
            /\ m[fd(2)] = Page(0, "file")
            /\ m[fd(3)] = Page(Len(used'), "r") /\ m[fd(4)] = Page(Len(used'), "w")
            /\ \A n \in Fds : n >= 5 => m[fd(n)] = NIL
            /\ f[fd(0)] = map[p][fd(0)] /\ f[fd(1)] = Page(Len(used'), "w")
            /\ fq[fd(0)] = Page(Len(used'), "r") /\ fq[fd(1)] = map[p][fd(1)]
       ELSE m = map[p] /\ fq = m /\ Len(used') = Len(used) /\ (r.at \in Reading => f = m)
  /\ IF r.at = "wait_kid" THEN r.kid = NextId /\ r.right = proc[p].right
                          ELSE r.right = NextId /\ r.kid = proc[p].kid
  /\ c.kid = NIL /\ c.right = NIL
  /\ c.at = "program" => c.todo = <<>>
  /\ r.at = "wait_line" => /\ p = Root /\ proc[p].line = <<>> /\ r.line \in Lines
                           /\ c.line = r.line /\ c.word = NIL /\ r.word = proc[p].word
  /\ r.at = "spawn" => Token(p) = "|" /\ r.line = Rest(p) /\ c.line = Rest(p) /\ r.word = Argv0(p) /\ c.word = NIL
  /\ r.at \in {"wait_then", "parse"} => /\ Token(p) = (IF r.at = "parse" THEN "&" ELSE ";")
                                        /\ r.line = Rest(p) /\ c.line = Rest(p) /\ r.word = NIL
  /\ r.at = "wait_kid" => r.line = proc[p].line /\ c.line = <<>>

ExitAct(p, r) ==
  /\ status[p] = "run" /\ proc[p].todo = <<>> /\ proc[p].at = "exit"
  /\ r \in ProcRecs /\ r.todo = <<>> /\ r.at = "none" /\ r.line = <<>> /\ r.right = NIL /\ r.kid = NIL
  /\ map' = [map EXCEPT ![p] = Nothing] /\ status' = [status EXCEPT ![p] = "gone"]
  /\ proc' = [proc EXCEPT ![p] = r] /\ Len(used') = Len(used)

\* The invariant survives a process that goes on by itself.
LEMMA LocalBase ==
  ASSUME NEW p \in Procs, NEW fin, NEW by, Base(map, status, proc, Len(used), fin, by),
         NEW r, NEW m, NEW f, LocalAct(p, fin, r, m, f)
  PROVE  Base(map', status', proc', Len(used'), [fin EXCEPT ![p] = f], by)
<1>1. /\ status[p] = "run" /\ proc[p].todo = <<>> /\ r \in ProcRecs /\ m \in Maps /\ f \in Maps
      /\ map' = [map EXCEPT ![p] = m] /\ proc' = [proc EXCEPT ![p] = r] /\ status' = status
      /\ Seg(p, r.todo, m, f, Len(used)) /\ Len(used') = Len(used)
      /\ <<proc[p].at, r.at>> \in LocalMoves /\ (r.at \in Reading => Std(f))
  BY DEF LocalAct
<1>2. r.at # "none" /\ (p = Root => r.at \in {"main", "wait_line"})
  <2>1. p = Root => proc[p].at \in {"main", "wait_line"}
    BY DEF Base, Ids
  <2> QED BY <1>1, <2>1 DEF LocalMoves
<1> QED BY <1>1, <1>2, LocalStep

\* It survives a fork or a spawn, with what both will have in the end.
LEMMA ForkBase ==
  ASSUME NEW p \in Procs, NEW fin, NEW by, Base(map, status, proc, Len(used), fin, by),
         NEW r, NEW c, NEW o, NEW m, NEW f, NEW fq, ForkAct(p, r, c, o, m, f, fq)
  PROVE  Base(map', status', proc', Len(used'), [fin EXCEPT ![p] = f, ![NextId] = fq], [by EXCEPT ![NextId] = p])
<1>1. /\ status[p] = "run" /\ proc[p].todo = <<>> /\ r \in ProcRecs /\ c \in ProcRecs /\ o \in Seq(Calls)
      /\ m \in Maps /\ f \in Maps /\ fq \in Maps
      /\ map' = [map EXCEPT ![p] = m] /\ status' = [status EXCEPT ![NextId] = "new"]
      /\ proc' = [proc EXCEPT ![p] = r, ![NextId] = c]
      /\ r.todo = Share(NextId, m) \o o
      /\ Seg(p, o, m, f, Len(used')) /\ Seg(NextId, c.todo, m, fq, Len(used'))
      /\ <<proc[p].at, r.at, c.at>> \in ForkMoves
      /\ (r.at \in Reading => Std(f)) /\ Std(fq) /\ Len(used') \in {Len(used), Len(used) + 1}
  BY DEF ForkAct
<1>2. r.at # "none" /\ c.at # "none" /\ (p = Root => r.at \in {"main", "wait_line"})
  <2>1. p = Root => proc[p].at \in {"main", "wait_line"}
    BY DEF Base, Ids
  <2> QED BY <1>1, <2>1 DEF ForkMoves
<1>3. NextId \in Procs /\ status[NextId] = "free" /\ \A x \in Procs : status[x] = "free" => NextId <= x
  BY NextIs DEF ForkAct
<1> DEFINE q == NextId
           l == Len(used')
           k == Len(used)
<1>4. q \in Procs /\ status[q] = "free" /\ (\A x \in Procs : status[x] = "free" => q <= x) /\ l \in {k, k + 1}
      /\ Base(map, status, proc, k, fin, by)
  BY <1>1, <1>3
<1>5. r.todo = Share(q, m) \o o /\ Seg(p, o, m, f, l) /\ Seg(q, c.todo, m, fq, l)
  BY <1>1
<1> HIDE DEF q, l, k
<1>6. Base([map EXCEPT ![p] = m], [status EXCEPT ![q] = "new"], [proc EXCEPT ![p] = r, ![q] = c], l,
           [fin EXCEPT ![p] = f, ![q] = fq], [by EXCEPT ![q] = p])
  <2>1. Forking(status, proc, k, p, q, l, m, r, c, o, f, fq)
    BY <1>1, <1>2, <1>4, <1>5 DEF Forking
  <2> QED BY <1>4, <2>1, ForkStep
<1> QED BY <1>1, <1>6 DEF q, l

\* It survives the end of a process.
LEMMA ExitBase ==
  ASSUME NEW p \in Procs, NEW fin, NEW by, Base(map, status, proc, Len(used), fin, by), NEW r, ExitAct(p, r)
  PROVE  Base(map', status', proc', Len(used'), fin, by)
<1>1. p # Root
  BY DEF Base, Ids, ExitAct
<1> QED BY <1>1, ExitStep DEF ExitAct

\* A process that is somewhere in its program.
LEMMA AtIs ==
  ASSUME NEW p \in Procs, NEW fin, NEW by, Base(map, status, proc, Len(used), fin, by),
         status[p] = "run", proc[p].todo = <<>>
  PROVE  /\ map[p] = fin[p] /\ map[p] \in Maps /\ Fine(map[p], Len(used)) /\ (proc[p].at \in Reading => Std(map[p]))
         /\ proc[p] \in ProcRecs /\ map = [map EXCEPT ![p] = map[p]] /\ map \in [Procs -> Maps]
         /\ proc \in [Procs -> ProcRecs] /\ Len(used) \in Nat /\ Root \in Procs
         /\ (p = Root => proc[p].at \in {"main", "wait_line"})
         /\ Seg(p, <<>>, map[p], map[p], Len(used)) /\ <<>> \in Seq(Calls)
         /\ \A q : Seg(q, <<>>, map[p], map[p], Len(used))
<1>1. Typed(map, status, proc, Len(used), fin, by) /\ Ready(status, proc, fin) /\ Ids(status, proc, Len(used))
  BY DEF Base
<1>2. map[p] = fin[p] /\ Fine(map[p], Len(used))
  BY Quiet
<1>3. map = [map EXCEPT ![p] = map[p]] /\ map[p] \in Maps
  BY <1>1 DEF Typed
<1>4. Root \in Procs
  BY ShellAssumption DEF Root, Procs
<1>5. \A q : Seg(q, <<>>, map[p], map[p], Len(used))
  BY <1>2, SegNil
<1> QED BY <1>1, <1>2, <1>3, <1>4, <1>5 DEF Typed, Ready, Ids

\* A process that stays as it is but for its place, or that closes all and exits.
LEMMA Goes ==
  ASSUME NEW p \in Procs, NEW fin, NEW by, Base(map, status, proc, Len(used), fin, by),
         status[p] = "run", proc[p].todo = <<>>,
         NEW r \in ProcRecs, proc' = [proc EXCEPT ![p] = r], UNCHANGED <<map, status>>, Len(used') = Len(used),
         \/ r.todo = <<>> /\ (r.at \in Reading => proc[p].at \in Reading)
         \/ r.todo = close_all(p, map[p]) /\ r.at \notin Reading,
         <<proc[p].at, r.at>> \in LocalMoves, ~(proc[p].at = "parse" /\ r.at = "parse"),
         r.right = proc[p].right, r.kid = proc[p].kid, r.line = proc[p].line, r.word = proc[p].word,
         proc[p].at \in {"wait_line", "wait_then", "wait_right"} => Gone(proc[p].right),
         proc[p].at = "wait_kid" => Gone(proc[p].kid),
         (proc[p].at = "spawn" /\ r.at = "exit") => proc[p].word = NIL
  PROVE  \E m, f : LocalAct(p, fin, r, m, f)
<1>1. /\ map[p] = fin[p] /\ map[p] \in Maps /\ Fine(map[p], Len(used)) /\ (proc[p].at \in Reading => Std(map[p]))
      /\ map = [map EXCEPT ![p] = map[p]] /\ Seg(p, <<>>, map[p], map[p], Len(used))
  BY AtIs
<1>2. r.at \in {"program", "ask"} => r.todo = <<>>
  BY DEF Reading
<1>3. CASE r.todo = <<>> /\ (r.at \in Reading => proc[p].at \in Reading)
  <2>1. LocalAct(p, fin, r, map[p], map[p])
    BY <1>1, <1>2, <1>3 DEF LocalAct
  <2> QED BY <2>1
<1>4. CASE r.todo = close_all(p, map[p]) /\ r.at \notin Reading
  <2>1. PICK f : Seg(p, close_all(p, map[p]), map[p], f, Len(used))
    BY <1>1, CloseAllSeg
  <2>2. close_all(p, map[p]) \in Seq(Calls)
    BY <1>1, CloseAllSeg
  <2>3. f \in Maps
    <3>1. Fine(f, Len(used))
      BY <2>1, <2>2, SegFine
    <3> QED BY <3>1 DEF Fine
  <2>4. LocalAct(p, fin, r, map[p], f)
    BY <1>1, <1>2, <1>4, <2>1, <2>3 DEF LocalAct
  <2> QED BY <2>4
<1> QED BY <1>3, <1>4

\* wait lets a process go on by itself when the environment is gone (wait.c).
LEMMA WaitIs ==
  ASSUME NEW p \in Procs, NEW fin, NEW by, Base(map, status, proc, Len(used), fin, by), Wait(p)
  PROVE  \E r, m, f : LocalAct(p, fin, r, m, f)
<1>1. ASSUME NEW from, NEW envid, NEW to, wait(p, from, envid, to),
             \/ from = "wait_line" /\ envid = proc[p].right /\ to = "main"
             \/ from = "wait_then" /\ envid = proc[p].right /\ to = "parse"
             \/ from = "wait_kid" /\ envid = proc[p].kid /\ to = "wait_right"
             \/ from = "wait_right" /\ envid = proc[p].right /\ to = "exit"
      PROVE  \E r, m, f : LocalAct(p, fin, r, m, f)
  <2> DEFINE r == [proc[p] EXCEPT !.at = to, !.todo = IF to = "exit" THEN close_all(p, map[p]) ELSE <<>>]
  <2>1. status[p] = "run" /\ proc[p].todo = <<>> /\ proc[p].at = from /\ Gone(envid)
        /\ UNCHANGED <<map, used, status>>
    BY <1>1 DEF wait, At
  <2>2. /\ proc[p] \in ProcRecs /\ proc \in [Procs -> ProcRecs] /\ Fine(map[p], Len(used))
    BY <2>1, AtIs
  <2>3. close_all(p, map[p]) \in Seq(Calls)
    BY <2>2, CloseAllSeg
  <2>4. /\ r \in ProcRecs /\ r.at = to /\ r.todo = (IF to = "exit" THEN close_all(p, map[p]) ELSE <<>>)
        /\ r.right = proc[p].right /\ r.kid = proc[p].kid /\ r.line = proc[p].line /\ r.word = proc[p].word
    <3> DEFINE o == IF to = "exit" THEN close_all(p, map[p]) ELSE <<>>
    <3>1. o \in Seq(Calls) /\ to \in Wheres
      BY <1>1, <2>3 DEF Wheres
    <3>2. r = [proc[p] EXCEPT !.at = to, !.todo = o]
      OBVIOUS
    <3> HIDE DEF o, r
    <3>3. r \in ProcRecs /\ r.at = to /\ r.todo = o
          /\ r.right = proc[p].right /\ r.kid = proc[p].kid /\ r.line = proc[p].line /\ r.word = proc[p].word
      BY <2>2, <3>1, <3>2 DEF ProcRecs
    <3> QED BY <3>3 DEF o
  <2>5. proc' = [proc EXCEPT ![p] = r]
    <3>1. proc' = [proc EXCEPT ![p].at = to, ![p].todo = IF to = "exit" THEN close_all(p, map[p]) ELSE <<>>]
      BY <1>1 DEF wait
    <3> QED BY <2>2, <3>1
  <2> HIDE DEF r
  <2>6. <<proc[p].at, r.at>> \in LocalMoves /\ ~(proc[p].at = "parse" /\ r.at = "parse")
        /\ (r.at \in Reading => proc[p].at \in Reading) /\ (to = "exit" => r.at \notin Reading)
        /\ ~(proc[p].at = "spawn" /\ r.at = "exit")
    BY <1>1, <2>1, <2>4 DEF LocalMoves, Reading
  <2>7. /\ proc[p].at \in {"wait_line", "wait_then", "wait_right"} => Gone(proc[p].right)
        /\ proc[p].at = "wait_kid" => Gone(proc[p].kid)
    BY <1>1, <2>1
  <2>8. \E m, f : LocalAct(p, fin, r, m, f)
    BY <2>1, <2>4, <2>5, <2>6, <2>7, Goes
  <2> QED BY <2>8
<1> QED BY <1>1 DEF Wait

\* exit ends a process that has closed everything.
LEMMA ExitIs ==
  ASSUME NEW p \in Procs, NEW fin, NEW by, Base(map, status, proc, Len(used), fin, by), Exit(p)
  PROVE  \E r : ExitAct(p, r)
<1> DEFINE r == Fresh("none", <<>>, NIL, <<>>)
<1>1. r \in ProcRecs /\ r.todo = <<>> /\ r.at = "none" /\ r.line = <<>> /\ r.right = NIL /\ r.kid = NIL
  BY ShellAssumption DEF Fresh, ProcRecs, Wheres
<1>2. ExitAct(p, r)
  BY <1>1 DEF ExitAct, Exit, At, Nothing
<1> QED BY <1>2

\* The programs.
LEMMA ProgramIs ==
  ASSUME NEW p \in Procs, NEW fin, NEW by, Base(map, status, proc, Len(used), fin, by),
         used \in Seq(0 .. BY2PIPE), Fetch(p) \/ Put(p) \/ Ask(p)
  PROVE  used' \in Seq(0 .. BY2PIPE) /\ Len(used') = Len(used) /\ \E r, m, f : LocalAct(p, fin, r, m, f)
<1>1. status[p] = "run" /\ proc[p].todo = <<>> /\ proc[p].at \in {"program", "ask"} /\ UNCHANGED <<map, status>>
  BY DEF Fetch, Put, Ask, At
<1>2. /\ proc[p] \in ProcRecs /\ proc \in [Procs -> ProcRecs] /\ Fine(map[p], Len(used))
  BY <1>1, AtIs
<1>3. close_all(p, map[p]) \in Seq(Calls)
  BY <1>2, CloseAllSeg
<1>4. used' \in Seq(0 .. BY2PIPE) /\ Len(used') = Len(used)
  <2>1. ASSUME NEW k, NEW v, k \in DOMAIN used => v \in 0 .. BY2PIPE
        PROVE  [used EXCEPT ![k] = v] \in Seq(0 .. BY2PIPE) /\ Len([used EXCEPT ![k] = v]) = Len(used)
    <3>1. CASE k \in DOMAIN used
      <4>1. k \in 1 .. Len(used)
        BY <3>1
      <4> QED BY <2>1, <3>1, <4>1, ExceptSeq
    <3>2. CASE k \notin DOMAIN used
      <4>1. used = [i \in 1 .. Len(used) |-> used[i]] /\ DOMAIN used = 1 .. Len(used)
        OBVIOUS
      <4>2. [used EXCEPT ![k] = v] = [i \in 1 .. Len(used) |-> IF i = k THEN v ELSE used[i]]
        BY <4>1
      <4>3. [used EXCEPT ![k] = v] = used
        BY <3>2, <4>1, <4>2
      <4> QED BY <4>3
    <3> QED BY <3>1, <3>2
  <2>2. CASE used' = used
    BY <2>2
  <2>3. CASE \E k : used[k] # 0 /\ used' = [used EXCEPT ![k] = @ - 1]
    <3>1. PICK k : used[k] # 0 /\ used' = [used EXCEPT ![k] = used[k] - 1]
      BY <2>3
    <3>2. k \in DOMAIN used => used[k] - 1 \in 0 .. BY2PIPE
      BY <3>1, ShellAssumption
    <3> QED BY <2>1, <3>1, <3>2
  <2>4. CASE \E k : used[k] # BY2PIPE /\ used' = [used EXCEPT ![k] = @ + 1]
    <3>1. PICK k : used[k] # BY2PIPE /\ used' = [used EXCEPT ![k] = used[k] + 1]
      BY <2>4
    <3>2. k \in DOMAIN used => used[k] + 1 \in 0 .. BY2PIPE
      BY <3>1, ShellAssumption
    <3> QED BY <2>1, <3>1, <3>2
  <2> QED BY <2>2, <2>3, <2>4 DEF Fetch, Put, Ask
<1>5. PICK r \in ProcRecs : /\ proc' = [proc EXCEPT ![p] = r]
                            /\ (r.at \in {"program", "ask"} /\ r.todo = <<>>) \/ (r.at = "exit" /\ r.todo = close_all(p, map[p]))
                            /\ (r.at = "ask" => proc[p].at # "ask")
                            /\ r.right = proc[p].right /\ r.kid = proc[p].kid /\ r.line = proc[p].line /\ r.word = proc[p].word
  <2>1. CASE proc' = Stop(p)
    <3> DEFINE r == [proc[p] EXCEPT !.at = "exit", !.todo = close_all(p, map[p])]
    <3>1. r \in ProcRecs
      BY <1>2, <1>3 DEF ProcRecs, Wheres
    <3>2. proc' = [proc EXCEPT ![p] = r]
      BY <1>2, <2>1 DEF Stop
    <3>3. r.at = "exit" /\ r.todo = close_all(p, map[p]) /\ r.right = proc[p].right /\ r.kid = proc[p].kid
          /\ r.line = proc[p].line /\ r.word = proc[p].word
      BY <1>2 DEF ProcRecs
    <3> HIDE DEF r
    <3> QED BY <3>1, <3>2, <3>3
  <2>2. CASE \E w \in {"program", "ask"} : proc' = [proc EXCEPT ![p].at = w] /\ (w = "ask" => proc[p].at # "ask")
    <3>1. PICK w \in {"program", "ask"} : proc' = [proc EXCEPT ![p].at = w] /\ (w = "ask" => proc[p].at # "ask")
      BY <2>2
    <3> DEFINE r == [proc[p] EXCEPT !.at = w]
    <3>2. r \in ProcRecs /\ proc' = [proc EXCEPT ![p] = r]
      BY <1>2, <3>1 DEF ProcRecs, Wheres
    <3>3. r.at = w /\ r.todo = <<>> /\ r.right = proc[p].right /\ r.kid = proc[p].kid
          /\ r.line = proc[p].line /\ r.word = proc[p].word
      BY <1>1, <1>2 DEF ProcRecs
    <3> HIDE DEF r
    <3> QED BY <3>1, <3>2, <3>3
  <2>3. CASE proc[p].at = "program" /\ \E b \in BOOLEAN : proc' = [proc EXCEPT ![p].hold = b]
    <3>1. PICK b \in BOOLEAN : proc' = [proc EXCEPT ![p].hold = b]
      BY <2>3
    <3> DEFINE r == [proc[p] EXCEPT !.hold = b]
    <3>2. r \in ProcRecs /\ proc' = [proc EXCEPT ![p] = r]
      BY <1>2, <3>1 DEF ProcRecs, Wheres
    <3>3. r.at = "program" /\ r.todo = <<>> /\ r.right = proc[p].right /\ r.kid = proc[p].kid
          /\ r.line = proc[p].line /\ r.word = proc[p].word
      BY <1>1, <1>2, <2>3 DEF ProcRecs
    <3> HIDE DEF r
    <3> QED BY <3>2, <3>3
  <2>4. CASE proc[p].at = "program" /\ proc[p].left > 0 /\ proc' = [proc EXCEPT ![p].left = @ - 1]
    <3> DEFINE r == [proc[p] EXCEPT !.left = @ - 1]
    <3>1. proc[p].left - 1 \in 0 .. Bytes
      BY <1>2, <2>4, ShellAssumption DEF ProcRecs
    <3>2. r \in ProcRecs /\ proc' = [proc EXCEPT ![p] = r]
      BY <1>2, <2>4, <3>1 DEF ProcRecs, Wheres
    <3>3. r.at = "program" /\ r.todo = <<>> /\ r.right = proc[p].right /\ r.kid = proc[p].kid
          /\ r.line = proc[p].line /\ r.word = proc[p].word
      BY <1>1, <1>2, <2>4 DEF ProcRecs
    <3> HIDE DEF r
    <3> QED BY <3>2, <3>3
  <2>5. CASE Fetch(p)
    BY <2>1, <2>2, <2>3, <2>5 DEF Fetch, At
  <2>6. CASE Put(p)
    BY <2>2, <2>3, <2>4, <2>6 DEF Put, HasByte, At
  <2>7. CASE Ask(p)
    BY <2>1, <2>2, <2>7 DEF Ask
  <2> QED BY <2>5, <2>6, <2>7
<1>6. <<proc[p].at, r.at>> \in LocalMoves /\ ~(proc[p].at = "parse" /\ r.at = "parse")
      /\ (r.at \in Reading => proc[p].at \in Reading)
      /\ ~(proc[p].at = "spawn" /\ r.at = "exit") /\ (r.at = "exit" => r.at \notin Reading)
  BY <1>1, <1>5 DEF LocalMoves, Reading
<1>7. \E m, f : LocalAct(p, fin, r, m, f)
  BY <1>1, <1>4, <1>5, <1>6, Goes
<1> QED BY <1>4, <1>7

\* A redirection, or one without a file.
LEMMA RedirectIs ==
  ASSUME NEW p \in Procs, NEW fin, NEW by, Base(map, status, proc, Len(used), fin, by), Redirect(p)
  PROVE  \E r, m, f : LocalAct(p, fin, r, m, f)
<1>1. /\ status[p] = "run" /\ proc[p].todo = <<>> /\ proc[p].at = "parse" /\ Token(p) \in {"<", ">"}
      /\ UNCHANGED <<used, status>>
  BY DEF Redirect, Parsing, At
<1>2. /\ proc[p] \in ProcRecs /\ proc \in [Procs -> ProcRecs] /\ map \in [Procs -> Maps]
      /\ Fine(map[p], Len(used)) /\ Std(map[p]) /\ map[p] = fin[p] /\ Len(used) \in Nat
  BY <1>1, AtIs DEF Reading
<1>3. proc[p].line \in Seq(Symbols \cup Words) /\ proc[p].word \in Words \cup {NIL}
  BY <1>2 DEF ProcRecs
<1> DEFINE named  == Rest(p) # <<>> /\ Head(Rest(p)) \in Words
           new    == IF Token(p) = "<" THEN 0 ELSE 1
           n      == fd_alloc(map[p])
           m      == [map[p] EXCEPT ![fd(n)] = Page(0, "file")]
           o      == dup(p, m, n, new) \o close(p, m, n)
           opened == /\ named /\ map' = [map EXCEPT ![p] = m]
                     /\ proc' = [proc EXCEPT ![p].line = Tail(Rest(p)), ![p].word = Argv0(p), ![p].todo = o]
           absent == /\ named /\ proc' = [proc EXCEPT ![p].line = Tail(Rest(p)), ![p].word = Argv0(p)]
                     /\ UNCHANGED map
           fails  == /\ proc' = [proc EXCEPT ![p].at = "exit", ![p].todo = close_all(p, map[p])]
                     /\ UNCHANGED map
<1>4. opened \/ absent \/ fails
  BY DEF Redirect
<1>5. CASE opened
  <2> DEFINE r == [proc[p] EXCEPT !.line = Tail(Rest(p)), !.word = Argv0(p), !.todo = o]
  <2>1. new \in {0, 1}
    OBVIOUS
  <2>2. map' = [map EXCEPT ![p] = m] /\ proc' = [proc EXCEPT ![p].line = Tail(Rest(p)), ![p].word = Argv0(p), ![p].todo = o]
        /\ Rest(p) # <<>> /\ Head(Rest(p)) \in Words
    BY <1>5
  <2> HIDE DEF new
  <2>3. m \in Maps /\ o \in Seq(Calls)
        /\ \E f \in Maps : /\ Seg(p, o, m, f, Len(used)) /\ Std(f)
                           /\ f[fd(new)] = Page(0, "file") /\ f[fd(1 - new)] = map[p][fd(1 - new)]
    <3> DEFINE mp == map[p]
               k == Len(used)
    <3>1. Fine(mp, k) /\ Std(mp) /\ k \in Nat
      BY <1>2
    <3> HIDE DEF mp, k
    <3>2. LET a == fd_alloc(mp)
              m2 == [mp EXCEPT ![fd(a)] = Page(0, "file")]
              v == dup(p, m2, a, new) \o close(p, m2, a)
          IN  /\ m2 \in Maps /\ v \in Seq(Calls)
              /\ \E f \in Maps : /\ Seg(p, v, m2, f, k) /\ Std(f)
                                 /\ f[fd(new)] = Page(0, "file") /\ f[fd(1 - new)] = mp[fd(1 - new)]
      BY <2>1, <3>1, Redirected
    <3> QED BY <3>2 DEF mp, k
  <2> HIDE DEF m, o, n
  <2>4. PICK f \in Maps : /\ Seg(p, o, m, f, Len(used)) /\ Std(f)
                          /\ f[fd(new)] = Page(0, "file") /\ f[fd(1 - new)] = map[p][fd(1 - new)]
    BY <2>3
  <2>5. Tail(Rest(p)) \in Seq(Symbols \cup Words) /\ Argv0(p) \in Words \cup {NIL}
    BY <1>3, <2>2, Tokens
  <2>6. /\ r \in ProcRecs /\ r.at = "parse" /\ r.todo = o /\ r.right = proc[p].right /\ r.kid = proc[p].kid
        /\ r.line = Tail(Rest(p)) /\ r.word = Argv0(p) /\ proc' = [proc EXCEPT ![p] = r]
    BY <1>1, <1>2, <2>2, <2>3, <2>5 DEF ProcRecs
  <2> HIDE DEF r
  <2>7. \A j \in {0, 1} : f[fd(j)] = fin[p][fd(j)] \/ f[fd(j)] = Page(0, "file")
    <3>1. \A j \in {0, 1} : j = new \/ j = 1 - new
      BY <2>1
    <3> QED BY <1>2, <2>4, <3>1
  <2>8. <<proc[p].at, r.at>> \in LocalMoves /\ Rest(p)[1] \in Words
    BY <1>1, <2>2, <2>6 DEF LocalMoves
  <2>9. LocalAct(p, fin, r, m, f)
    BY <1>1, <2>2, <2>3, <2>4, <2>6, <2>7, <2>8 DEF LocalAct
  <2> QED BY <2>9
<1>6. CASE absent
  <2> DEFINE r == [proc[p] EXCEPT !.line = Tail(Rest(p)), !.word = Argv0(p)]
  <2>1. /\ UNCHANGED map /\ proc' = [proc EXCEPT ![p].line = Tail(Rest(p)), ![p].word = Argv0(p)]
        /\ Rest(p) # <<>> /\ Head(Rest(p)) \in Words
    BY <1>6
  <2>2. Tail(Rest(p)) \in Seq(Symbols \cup Words) /\ Argv0(p) \in Words \cup {NIL}
    BY <1>3, <2>1, Tokens
  <2>3. /\ r \in ProcRecs /\ r.at = "parse" /\ r.todo = <<>> /\ r.right = proc[p].right /\ r.kid = proc[p].kid
        /\ r.line = Tail(Rest(p)) /\ r.word = Argv0(p) /\ proc' = [proc EXCEPT ![p] = r]
    BY <1>1, <1>2, <2>1, <2>2 DEF ProcRecs
  <2> HIDE DEF r
  <2>4. <<proc[p].at, r.at>> \in LocalMoves /\ Rest(p)[1] \in Words
    BY <1>1, <2>1, <2>3 DEF LocalMoves
  <2>5. Seg(p, <<>>, map[p], map[p], Len(used)) /\ map[p] \in Maps /\ map = [map EXCEPT ![p] = map[p]]
    BY <1>1, AtIs
  <2>6. LocalAct(p, fin, r, map[p], map[p])
    BY <1>1, <1>2, <2>1, <2>3, <2>4, <2>5 DEF LocalAct
  <2> QED BY <2>6
<1>7. CASE fails
  <2> DEFINE all == close_all(p, map[p])
             r == [proc[p] EXCEPT !.at = "exit", !.todo = all]
  <2>1. UNCHANGED <<map, status>> /\ proc' = [proc EXCEPT ![p].at = "exit", ![p].todo = all]
    BY <1>1, <1>7
  <2>2. all \in Seq(Calls)
    BY <1>2, CloseAllSeg
  <2> HIDE DEF all
  <2>3. /\ r \in ProcRecs /\ r.at = "exit" /\ r.todo = all /\ r.right = proc[p].right /\ r.kid = proc[p].kid
        /\ r.line = proc[p].line /\ r.word = proc[p].word /\ proc' = [proc EXCEPT ![p] = r]
    BY <1>2, <2>1, <2>2 DEF ProcRecs, Wheres
  <2> HIDE DEF r
  <2>4. <<proc[p].at, r.at>> \in LocalMoves /\ r.at \notin Reading
    BY <1>1, <2>3 DEF LocalMoves, Reading
  <2>5. \E x, f : LocalAct(p, fin, r, x, f)
    BY <1>1, <2>1, <2>3, <2>4, Goes DEF all
  <2> QED BY <2>5
<1> QED BY <1>4, <1>5, <1>6, <1>7

\* A fork without a new pipe.
LEMMA Forked ==
  ASSUME NEW p \in Procs, NEW fin, NEW by, Base(map, status, proc, Len(used), fin, by),
         status[p] = "run", proc[p].todo = <<>>, proc[p].at \in Reading, Room, UNCHANGED <<map, used>>,
         status' = [status EXCEPT ![NextId] = "new"],
         NEW r \in ProcRecs, NEW c \in ProcRecs, proc' = [proc EXCEPT ![p] = r, ![NextId] = c],
         NEW o, r.todo = Share(NextId, map[p]) \o o, c.todo = <<>>,
         \/ o = <<>>
         \/ o = close_all(p, map[p]) /\ r.at \notin Reading,
         <<proc[p].at, r.at, c.at>> \in ForkMoves, r.at # "spawn",
         IF r.at = "wait_kid" THEN r.kid = NextId /\ r.right = proc[p].right
                              ELSE r.right = NextId /\ r.kid = proc[p].kid,
         c.kid = NIL /\ c.right = NIL,
         r.at = "wait_line" => /\ p = Root /\ proc[p].line = <<>> /\ r.line \in Lines
                               /\ c.line = r.line /\ c.word = NIL /\ r.word = proc[p].word,
         r.at \in {"wait_then", "parse"} => /\ Token(p) = (IF r.at = "parse" THEN "&" ELSE ";")
                                            /\ r.line = Rest(p) /\ c.line = Rest(p) /\ r.word = NIL,
         r.at = "wait_kid" => r.line = proc[p].line /\ c.line = <<>>
  PROVE  \E f : ForkAct(p, r, c, o, map[p], f, map[p])
<1> DEFINE m == map[p]
           k == Len(used)
<1>1. /\ m = fin[p] /\ m \in Maps /\ Fine(m, k) /\ Std(m) /\ map = [map EXCEPT ![p] = m]
      /\ (\A q : Seg(q, <<>>, m, m, k)) /\ <<>> \in Seq(Calls)
  BY AtIs
<1> HIDE DEF k
<1>2. PICK f \in Maps : o \in Seq(Calls) /\ Seg(p, o, m, f, k) /\ (r.at \in Reading => f = m)
  <2>1. CASE o = <<>>
    BY <1>1, <2>1
  <2>2. CASE o = close_all(p, m) /\ r.at \notin Reading
    <3>1. PICK f : Seg(p, close_all(p, m), m, f, k)
      BY <1>1, CloseAllSeg
    <3>2. close_all(p, m) \in Seq(Calls)
      BY <1>1, CloseAllSeg
    <3>3. f \in Maps
      <4>1. Fine(f, k)
        BY <3>1, <3>2, SegFine
      <4> QED BY <4>1 DEF Fine
    <3> QED BY <2>2, <3>1, <3>2, <3>3
  <2> QED BY <2>1, <2>2
<1>3. c.at = "program" => c.todo = <<>>
  OBVIOUS
<1>4. Seg(p, o, m, f, Len(used')) /\ Seg(NextId, c.todo, m, m, Len(used')) /\ Len(used') = Len(used)
  BY <1>1, <1>2 DEF k
<1>5. (r.at \in Reading => Std(f)) /\ Std(m)
  BY <1>1, <1>2
<1>6. ForkAct(p, r, c, o, m, f, m)
  BY <1>1, <1>2, <1>3, <1>4, <1>5 DEF ForkAct
<1> QED BY <1>6

\* main forks a child for a line (sh.c).
LEMMA CommandIs ==
  ASSUME NEW line \in Lines, NEW fin, NEW by, Base(map, status, proc, Len(used), fin, by), Command(line)
  PROVE  \E r, c, o, m, f, fq : ForkAct(Root, r, c, o, m, f, fq)
<1> DEFINE q == NextId
           u == Share(q, map[Root])
           r == [proc[Root] EXCEPT !.at = "wait_line", !.line = line, !.right = q, !.todo = u]
           c == Fresh("parse", line, NIL, <<>>)
<1>1. /\ status[Root] = "run" /\ proc[Root].todo = <<>> /\ proc[Root].at = "main" /\ proc[Root].line = <<>>
      /\ Room /\ UNCHANGED <<map, used>> /\ status' = [status EXCEPT ![q] = "new"]
      /\ proc' = [proc EXCEPT ![Root] = [[proc[Root] EXCEPT !.at = "wait_line", !.line = line]
                                           EXCEPT !.right = q, !.todo = u \o @],
                              ![q] = c]
  BY DEF Command, fork, At
<1>2. Root \in Procs
  BY ShellAssumption DEF Root, Procs
<1>3. proc[Root] \in ProcRecs /\ proc \in [Procs -> ProcRecs] /\ map[Root] \in Maps
  BY <1>1, <1>2, AtIs
<1>4. q \in Procs
  BY <1>1, NextIs
<1> HIDE DEF q
<1>5. u \in Seq(Calls)
  BY <1>3, <1>4, ShareGives DEF Gives
<1> HIDE DEF u
<1>6. u \o <<>> = u /\ line \in Seq(Symbols \cup Words)
  BY <1>5, ShellAssumption
<1>7. /\ r \in ProcRecs /\ r.at = "wait_line" /\ r.line = line /\ r.right = q /\ r.kid = proc[Root].kid /\ r.todo = u \o <<>>
      /\ r.word = proc[Root].word
  BY <1>3, <1>4, <1>5, <1>6 DEF ProcRecs, Wheres
<1>8. c \in ProcRecs /\ c.at = "parse" /\ c.line = line /\ c.word = NIL /\ c.todo = <<>> /\ c.kid = NIL /\ c.right = NIL
  BY <1>6, ShellAssumption DEF Fresh, ProcRecs, Wheres
<1>9. proc' = [proc EXCEPT ![Root] = r, ![q] = c]
  <2>1. [[proc[Root] EXCEPT !.at = "wait_line", !.line = line] EXCEPT !.right = q, !.todo = u \o @] = r
    BY <1>1, <1>3, <1>6 DEF ProcRecs
  <2> QED BY <1>1, <2>1
<1> HIDE DEF r, c
<1>10. <<proc[Root].at, r.at, c.at>> \in ForkMoves /\ r.at # "spawn" /\ r.at # "wait_kid" /\ proc[Root].at \in Reading
       /\ r.at \notin {"wait_then", "parse"}
  BY <1>1, <1>7, <1>8 DEF ForkMoves, Reading
<1>11. \E f : ForkAct(Root, r, c, <<>>, map[Root], f, map[Root])
  BY <1>1, <1>2, <1>7, <1>8, <1>9, <1>10, Forked DEF q, u
<1> QED BY <1>11

\* A ';' or '&' forks the child that runs what was read (sh.c).
LEMMA SequenceIs ==
  ASSUME NEW p \in Procs, NEW fin, NEW by, Base(map, status, proc, Len(used), fin, by), Sequence(p)
  PROVE  \E r, c, o, m, f, fq : ForkAct(p, r, c, o, m, f, fq)
<1> DEFINE q == NextId
           u == Share(q, map[p])
           to == IF Token(p) = ";" THEN "wait_then" ELSE "parse"
           r == [proc[p] EXCEPT !.at = to, !.line = Rest(p), !.word = NIL, !.right = q, !.todo = u]
           c == Fresh("spawn", Rest(p), Argv0(p), <<>>)
<1>1. /\ status[p] = "run" /\ proc[p].todo = <<>> /\ proc[p].at = "parse" /\ Token(p) \in {";", "&"}
      /\ Room /\ UNCHANGED <<map, used>> /\ status' = [status EXCEPT ![q] = "new"]
      /\ proc' = [proc EXCEPT ![p] = [[proc[p] EXCEPT !.at = to, !.line = Rest(p), !.word = NIL]
                                           EXCEPT !.right = q, !.todo = u \o @],
                              ![q] = c]
  BY DEF Sequence, Parsing, fork, At
<1>2. proc[p] \in ProcRecs /\ proc \in [Procs -> ProcRecs] /\ map[p] \in Maps /\ p # Root
  BY <1>1, AtIs
<1>3. q \in Procs
  BY <1>1, NextIs
<1>4. Rest(p) \in Seq(Symbols \cup Words) /\ Argv0(p) \in Words \cup {NIL}
  <2>1. proc[p].line \in Seq(Symbols \cup Words) /\ proc[p].word \in Words \cup {NIL}
    BY <1>2 DEF ProcRecs
  <2> QED BY <2>1, Tokens
<1> HIDE DEF q
<1>5. u \in Seq(Calls)
  BY <1>2, <1>3, ShareGives DEF Gives
<1> HIDE DEF u
<1>6. u \o <<>> = u
  BY <1>5
<1>7. to \in {"wait_then", "parse"} /\ Token(p) = (IF to = "parse" THEN "&" ELSE ";")
  BY <1>1
<1> HIDE DEF to
<1>8. /\ r \in ProcRecs /\ r.at = to /\ r.line = Rest(p) /\ r.right = q /\ r.kid = proc[p].kid /\ r.todo = u \o <<>>
      /\ r.word = NIL
  BY <1>2, <1>3, <1>4, <1>5, <1>6, <1>7 DEF ProcRecs, Wheres
<1>9. c \in ProcRecs /\ c.at = "spawn" /\ c.line = Rest(p) /\ c.todo = <<>> /\ c.kid = NIL /\ c.right = NIL
  BY <1>4, ShellAssumption DEF Fresh, ProcRecs, Wheres
<1>10. proc' = [proc EXCEPT ![p] = r, ![q] = c]
  <2>1. [[proc[p] EXCEPT !.at = to, !.line = Rest(p), !.word = NIL] EXCEPT !.right = q, !.todo = u \o @] = r
    BY <1>1, <1>2, <1>6 DEF ProcRecs
  <2> QED BY <1>1, <2>1
<1> HIDE DEF r, c
<1>11. <<proc[p].at, r.at, c.at>> \in ForkMoves /\ r.at # "spawn" /\ r.at # "wait_kid" /\ proc[p].at \in Reading
       /\ r.at # "wait_line"
  BY <1>1, <1>7, <1>8, <1>9 DEF ForkMoves, Reading
<1>12. \E f : ForkAct(p, r, c, <<>>, map[p], f, map[p])
  BY <1>1, <1>2, <1>7, <1>8, <1>9, <1>10, <1>11, Forked DEF q, u
<1> QED BY <1>12

\* The program is started, or there is none to start.
LEMMA SpawnIs ==
  ASSUME NEW p \in Procs, NEW fin, NEW by, Base(map, status, proc, Len(used), fin, by), Spawn(p)
  PROVE  \/ \E r, m, f : LocalAct(p, fin, r, m, f)
         \/ \E r, c, o, m, f, fq : ForkAct(p, r, c, o, m, f, fq)
<1> DEFINE w == IF proc[p].at = "parse" THEN Argv0(p) ELSE proc[p].word
           q == NextId
           u == Share(q, map[p])
           a == close_all(p, map[p])
<1>1. /\ status[p] = "run" /\ proc[p].todo = <<>> /\ proc[p].at \in {"parse", "spawn"} /\ UNCHANGED <<map, used>>
  BY DEF Spawn, Parsing, At
<1>2. proc[p] \in ProcRecs /\ proc \in [Procs -> ProcRecs] /\ map[p] \in Maps /\ Fine(map[p], Len(used))
  BY <1>1, AtIs
<1>3. w \in Words \cup {NIL}
  <2>1. proc[p].line \in Seq(Symbols \cup Words) /\ proc[p].word \in Words \cup {NIL}
    BY <1>2 DEF ProcRecs
  <2> QED BY <2>1, Tokens
<1>4. a \in Seq(Calls)
  BY <1>2, CloseAllSeg
<1>5. CASE Runs(w)
  <2> DEFINE r == [proc[p] EXCEPT !.at = "wait_kid", !.kid = q, !.todo = u \o a]
             c == Fresh("program", <<>>, w, <<>>)
  <2>1. /\ Room /\ status' = [status EXCEPT ![q] = "new"]
        /\ proc' = [proc EXCEPT ![p].at = "wait_kid", ![p].kid = q, ![p].todo = u \o a, ![q] = c]
    BY <1>5 DEF Spawn
  <2>2. q \in Procs
    BY <2>1, NextIs
  <2> HIDE DEF q, w
  <2>3. u \in Seq(Calls)
    BY <1>2, <2>2, ShareGives DEF Gives
  <2> HIDE DEF u, a
  <2>4. u \o a \in Seq(Calls)
    BY <1>4, <2>3
  <2>5. /\ r \in ProcRecs /\ r.at = "wait_kid" /\ r.line = proc[p].line /\ r.right = proc[p].right /\ r.kid = q /\ r.todo = u \o a
    BY <1>2, <2>2, <2>4 DEF ProcRecs, Wheres
  <2>6. c \in ProcRecs /\ c.at = "program" /\ c.line = <<>> /\ c.todo = <<>> /\ c.kid = NIL /\ c.right = NIL
    BY <1>3, ShellAssumption DEF Fresh, ProcRecs, Wheres
  <2>7. proc' = [proc EXCEPT ![p] = r, ![q] = c]
    BY <1>2, <2>1
  <2> HIDE DEF r, c
  <2>8. <<proc[p].at, r.at, c.at>> \in ForkMoves /\ r.at # "spawn" /\ r.at # "wait_line" /\ proc[p].at \in Reading
        /\ r.at \notin {"wait_then", "parse"} /\ r.at \notin Reading
    BY <1>1, <2>5, <2>6 DEF ForkMoves, Reading
  <2>9. \E f : ForkAct(p, r, c, a, map[p], f, map[p])
    BY <1>1, <2>1, <2>5, <2>6, <2>7, <2>8, Forked DEF q, u, a
  <2> QED BY <2>9
<1>6. CASE ~Runs(w)
  <2> DEFINE to == IF w = NIL THEN "exit" ELSE "wait_right"
             r == [proc[p] EXCEPT !.at = to, !.todo = a]
  <2>1. proc' = [proc EXCEPT ![p].at = to, ![p].todo = a] /\ status' = status
    BY <1>6 DEF Spawn
  <2>2. to \in {"exit", "wait_right"} /\ (to = "exit" /\ proc[p].at = "spawn" => proc[p].word = NIL)
    BY <1>1
  <2> HIDE DEF to, w, a
  <2>3. /\ r \in ProcRecs /\ r.at = to /\ r.todo = a /\ r.right = proc[p].right /\ r.kid = proc[p].kid
        /\ r.line = proc[p].line /\ r.word = proc[p].word /\ proc' = [proc EXCEPT ![p] = r]
    BY <1>2, <1>4, <2>1, <2>2 DEF ProcRecs, Wheres
  <2> HIDE DEF r
  <2>4. <<proc[p].at, r.at>> \in LocalMoves /\ r.at \notin Reading /\ ~(proc[p].at = "parse" /\ r.at = "parse")
    BY <1>1, <2>2, <2>3 DEF LocalMoves, Reading
  <2>5. \E m, f : LocalAct(p, fin, r, m, f)
    BY <1>1, <2>1, <2>2, <2>3, <2>4, Goes DEF a
  <2> QED BY <2>5
<1> QED BY <1>5, <1>6

\* A '|' makes a pipe and forks the right side (sh.c:172).
LEMMA PipelineIs ==
  ASSUME NEW p \in Procs, NEW fin, NEW by, Base(map, status, proc, Len(used), fin, by), used \in Seq(0 .. BY2PIPE), Pipeline(p)
  PROVE  used' \in Seq(0 .. BY2PIPE) /\ \E r, c, o, m, f, fq : ForkAct(p, r, c, o, m, f, fq)
<1> DEFINE k == Len(used)
           m0 == map[p]
           q == NextId
           a == fd_alloc(m0)
           b == fd_alloc([m0 EXCEPT ![fd(a)] = Page(0, "file")])
           m == NewPipe(k + 1, m0, a, b)
           u == Share(q, m)
           o == dup(p, m, 4, 1) \o close(p, m, 4) \o close(p, m, 3)
           oq == dup(q, m, 3, 0) \o close(q, m, 3) \o close(q, m, 4)
           r == [proc[p] EXCEPT !.at = "spawn", !.line = Rest(p), !.word = Argv0(p), !.right = q, !.todo = u \o o]
           c == Fresh("parse", Rest(p), NIL, oq)
<1>1. /\ status[p] = "run" /\ proc[p].todo = <<>> /\ proc[p].at = "parse" /\ Token(p) = "|" /\ Room
  BY DEF Pipeline, Parsing, At, fork
<1>2. /\ proc[p] \in ProcRecs /\ proc \in [Procs -> ProcRecs] /\ Fine(m0, k) /\ Std(m0) /\ k \in Nat
  BY <1>1, AtIs DEF Reading
<1>3. q \in Procs /\ status[q] = "free"
  BY <1>1, NextIs
<1>4. k + 1 <= MaxProcs
  <2>1. k + 2 <= q /\ q <= MaxProcs /\ q \in Nat
    BY <1>3 DEF Base, Ids, Procs
  <2> QED BY <1>2, <2>1, ShellAssumption
<1>5. /\ a = 3 /\ b = 4 /\ Fine(m, k + 1) /\ m \in Maps
      /\ m[fd(3)] = Page(k + 1, "r") /\ m[fd(4)] = Page(k + 1, "w")
      /\ m[fd(0)] = m0[fd(0)] /\ m[fd(1)] = m0[fd(1)] /\ m[fd(2)] = m0[fd(2)]
      /\ \A n \in Fds : n >= 5 => m[fd(n)] = NIL
      /\ m[fd(3)] # NIL /\ m[fd(4)] # NIL
  <2> DEFINE x == m0
             y == k
  <2>1. y \in Nat /\ Fine(x, y) /\ Std(x) /\ y + 1 <= MaxProcs
    BY <1>2, <1>4
  <2> HIDE DEF x, y
  <2>2. LET r2 == fd_alloc(x)
            w2 == fd_alloc([x EXCEPT ![fd(r2)] = Page(0, "file")])
            m2 == NewPipe(y + 1, x, r2, w2)
        IN  /\ r2 = 3 /\ w2 = 4 /\ Fine(m2, y + 1) /\ m2 \in Maps
            /\ m2[fd(3)] = Page(y + 1, "r") /\ m2[fd(4)] = Page(y + 1, "w")
            /\ m2[fd(0)] = x[fd(0)] /\ m2[fd(1)] = x[fd(1)] /\ m2[fd(2)] = x[fd(2)]
            /\ \A n \in Fds : n >= 5 => m2[fd(n)] = NIL
            /\ Page(y + 1, "r") # NIL /\ Page(y + 1, "w") # NIL
    BY <2>1, Piped
  <2> QED BY <2>2 DEF x, y
<1>6. /\ map' = [map EXCEPT ![p] = m] /\ used' = Append(used, 0) /\ status' = [status EXCEPT ![q] = "new"]
      /\ proc' = [proc EXCEPT ![p] = [[proc[p] EXCEPT !.at = "spawn", !.line = Rest(p), !.word = Argv0(p), !.todo = o]
                                        EXCEPT !.right = q, !.todo = u \o @],
                              ![q] = c]
  <2>1. /\ map' = [map EXCEPT ![p] = m] /\ used' = Append(used, 0)
        /\ fork(p, m, [proc[p] EXCEPT !.at = "spawn", !.line = Rest(p), !.word = Argv0(p),
                         !.todo = dup(p, m, b, 1) \o close(p, m, b) \o close(p, m, a)],
                Fresh("parse", Rest(p), NIL, dup(q, m, a, 0) \o close(q, m, a) \o close(q, m, b)))
    BY DEF Pipeline
  <2> HIDE DEF a, b, m
  <2> QED BY <1>5, <2>1 DEF fork
<1>7. used' \in Seq(0 .. BY2PIPE) /\ Len(used') = k + 1
  <2>1. 0 \in 0 .. BY2PIPE
    BY ShellAssumption
  <2> QED BY <1>6, <2>1
<1> HIDE DEF m, a, b, q, k
<1>8. u \in Seq(Calls)
  BY <1>3, <1>5, ShareGives DEF Gives
<1>9. m[fd(0)] # NIL /\ m[fd(1)] # NIL /\ m[fd(2)] = Page(0, "file") /\ 1 - 0 = 1 /\ 1 - 1 = 0
  BY <1>2, <1>5 DEF Std
<1>10. o \in Seq(Calls) /\ \E f \in Maps : /\ Seg(p, o, m, f, k + 1) /\ Std(f)
                                           /\ f[fd(1)] = m[fd(4)] /\ f[fd(0)] = m[fd(0)]
  <2>1. LET v == dup(p, m, 4, 1) \o close(p, m, 4) \o close(p, m, 3)
        IN v \in Seq(Calls) /\ \E f \in Maps : /\ Seg(p, v, m, f, k + 1) /\ Std(f)
                                               /\ f[fd(1)] = m[fd(4)] /\ f[fd(1 - 1)] = m[fd(1 - 1)]
    BY <1>5, <1>9, Rewired
  <2> QED BY <1>9, <2>1
<1>11. oq \in Seq(Calls) /\ \E f \in Maps : /\ Seg(q, oq, m, f, k + 1) /\ Std(f)
                                            /\ f[fd(0)] = m[fd(3)] /\ f[fd(1)] = m[fd(1)]
  <2>1. LET v == dup(q, m, 3, 0) \o close(q, m, 3) \o close(q, m, 4)
        IN v \in Seq(Calls) /\ \E f \in Maps : /\ Seg(q, v, m, f, k + 1) /\ Std(f)
                                               /\ f[fd(0)] = m[fd(3)] /\ f[fd(1 - 0)] = m[fd(1 - 0)]
    BY <1>3, <1>5, <1>9, Rewired
  <2> QED BY <1>9, <2>1
<1> HIDE DEF o, oq, u
<1>12. PICK f \in Maps : Seg(p, o, m, f, k + 1) /\ Std(f) /\ f[fd(1)] = m[fd(4)] /\ f[fd(0)] = m[fd(0)]
  BY <1>10
<1>13. PICK fq \in Maps : Seg(q, oq, m, fq, k + 1) /\ Std(fq) /\ fq[fd(0)] = m[fd(3)] /\ fq[fd(1)] = m[fd(1)]
  BY <1>11
<1>14. Rest(p) \in Seq(Symbols \cup Words) /\ Argv0(p) \in Words \cup {NIL}
  <2>1. proc[p].line \in Seq(Symbols \cup Words) /\ proc[p].word \in Words \cup {NIL}
    BY <1>2 DEF ProcRecs
  <2> QED BY <2>1, Tokens
<1>15. /\ r \in ProcRecs /\ r.at = "spawn" /\ r.line = Rest(p) /\ r.word = Argv0(p) /\ r.right = q
       /\ r.kid = proc[p].kid /\ r.todo = u \o o
  <2>1. u \o o \in Seq(Calls)
    BY <1>8, <1>10
  <2> QED BY <1>2, <1>3, <1>14, <2>1 DEF ProcRecs, Wheres
<1>16. c \in ProcRecs /\ c.at = "parse" /\ c.line = Rest(p) /\ c.word = NIL /\ c.todo = oq /\ c.kid = NIL /\ c.right = NIL
  BY <1>11, <1>14, ShellAssumption DEF Fresh, ProcRecs, Wheres
<1>17. proc' = [proc EXCEPT ![p] = r, ![q] = c]
  <2>1. [[proc[p] EXCEPT !.at = "spawn", !.line = Rest(p), !.word = Argv0(p), !.todo = o]
            EXCEPT !.right = q, !.todo = u \o @] = r
    BY <1>2 DEF ProcRecs
  <2> QED BY <1>6, <2>1
<1> HIDE DEF r, c
<1>18. <<proc[p].at, r.at, c.at>> \in ForkMoves
  BY <1>1, <1>15, <1>16 DEF ForkMoves
<1>19. /\ Len(used') = Len(used) + 1
       /\ m[fd(0)] = map[p][fd(0)] /\ m[fd(1)] = map[p][fd(1)] /\ m[fd(2)] = Page(0, "file")
       /\ m[fd(3)] = Page(Len(used'), "r") /\ m[fd(4)] = Page(Len(used'), "w")
       /\ \A n \in Fds : n >= 5 => m[fd(n)] = NIL
       /\ f[fd(0)] = map[p][fd(0)] /\ f[fd(1)] = Page(Len(used'), "w")
       /\ fq[fd(0)] = Page(Len(used'), "r") /\ fq[fd(1)] = map[p][fd(1)]
  BY <1>5, <1>7, <1>9, <1>12, <1>13 DEF k
<1>20. /\ map' = [map EXCEPT ![p] = m] /\ status' = [status EXCEPT ![NextId] = "new"]
       /\ proc' = [proc EXCEPT ![p] = r, ![NextId] = c]
       /\ r.todo = Share(NextId, m) \o o
       /\ Seg(p, o, m, f, Len(used')) /\ Seg(NextId, c.todo, m, fq, Len(used'))
  BY <1>6, <1>7, <1>12, <1>13, <1>15, <1>16, <1>17 DEF q, u
<1>21. ForkAct(p, r, c, o, m, f, fq)
  <2>1. r.right = NextId
    BY <1>15 DEF q
  <2>2. o \in Seq(Calls) /\ m \in Maps
    BY <1>5, <1>10
  <2> QED BY <1>1, <1>12, <1>13, <1>15, <1>16, <1>18, <1>19, <1>20, <2>1, <2>2 DEF ForkAct
<1> QED BY <1>7, <1>21

Core(fin, by) == used \in Seq(0 .. BY2PIPE) /\ Base(map, status, proc, Len(used), fin, by)
IInv == \E fin, by : Core(fin, by)

\* Every step is a system call, or of one of the three kinds.
LEMMA StepIs ==
  ASSUME NEW fin, NEW by, Core(fin, by), Next
  PROVE  /\ used' \in Seq(0 .. BY2PIPE)
         /\ \E p \in Procs : \/ Syscall(p)
                             \/ \E r, m, f : LocalAct(p, fin, r, m, f)
                             \/ \E r, c, o, m, f, fq : ForkAct(p, r, c, o, m, f, fq)
                             \/ \E r : ExitAct(p, r)
<1>1. used \in Seq(0 .. BY2PIPE) /\ Base(map, status, proc, Len(used), fin, by) /\ Root \in Procs
  BY ShellAssumption DEF Core, Root, Procs
<1>2. ASSUME NEW line \in Lines, Command(line)
      PROVE  used' = used /\ \E r, c, o, m, f, fq : ForkAct(Root, r, c, o, m, f, fq)
  <2>1. used' = used
    BY <1>2 DEF Command
  <2> QED BY <1>1, <1>2, <2>1, CommandIs
<1>3. ASSUME NEW p \in Procs, Redirect(p) PROVE used' = used /\ \E r, m, f : LocalAct(p, fin, r, m, f)
  <2>1. used' = used
    BY <1>3 DEF Redirect
  <2> QED BY <1>1, <1>3, <2>1, RedirectIs
<1>4. ASSUME NEW p \in Procs, Pipeline(p)
      PROVE  used' \in Seq(0 .. BY2PIPE) /\ \E r, c, o, m, f, fq : ForkAct(p, r, c, o, m, f, fq)
  BY <1>1, <1>4, PipelineIs
<1>5. ASSUME NEW p \in Procs, Sequence(p) PROVE used' = used /\ \E r, c, o, m, f, fq : ForkAct(p, r, c, o, m, f, fq)
  <2>1. used' = used
    BY <1>5 DEF Sequence
  <2> QED BY <1>1, <1>5, <2>1, SequenceIs
<1>6. ASSUME NEW p \in Procs, Spawn(p)
      PROVE  /\ used' = used
             /\ \/ \E r, m, f : LocalAct(p, fin, r, m, f)
                \/ \E r, c, o, m, f, fq : ForkAct(p, r, c, o, m, f, fq)
  <2>1. used' = used
    BY <1>6 DEF Spawn
  <2> QED BY <1>1, <1>6, <2>1, SpawnIs
<1>7. ASSUME NEW p \in Procs, Wait(p) PROVE used' = used /\ \E r, m, f : LocalAct(p, fin, r, m, f)
  <2>1. used' = used
    BY <1>7 DEF Wait, wait
  <2> QED BY <1>1, <1>7, <2>1, WaitIs
<1>8. ASSUME NEW p \in Procs, Exit(p) PROVE used' = used /\ \E r : ExitAct(p, r)
  <2>1. used' = used
    BY <1>8 DEF Exit
  <2> QED BY <1>1, <1>8, <2>1, ExitIs
<1>9. ASSUME NEW p \in Procs, Fetch(p) \/ Put(p) \/ Ask(p)
      PROVE  used' \in Seq(0 .. BY2PIPE) /\ \E r, m, f : LocalAct(p, fin, r, m, f)
  BY <1>1, <1>9, ProgramIs
<1>10. ASSUME NEW p \in Procs, Syscall(p) PROVE used' = used
  BY <1>10 DEF Syscall
<1>11. CASE \E line \in Lines : Command(line)
  BY <1>1, <1>2, <1>11
<1>12. ASSUME NEW p \in Procs, Step(p)
       PROVE  /\ used' \in Seq(0 .. BY2PIPE)
              /\ \/ Syscall(p)
                 \/ \E r, m, f : LocalAct(p, fin, r, m, f)
                 \/ \E r, c, o, m, f, fq : ForkAct(p, r, c, o, m, f, fq)
                 \/ \E r : ExitAct(p, r)
  <2>1. CASE Syscall(p)
    BY <1>1, <1>10, <2>1
  <2>2. CASE Redirect(p)
    BY <1>1, <1>3, <2>2
  <2>3. CASE Pipeline(p)
    BY <1>4, <2>3
  <2>4. CASE Sequence(p)
    BY <1>1, <1>5, <2>4
  <2>5. CASE Spawn(p)
    BY <1>1, <1>6, <2>5
  <2>6. CASE Wait(p)
    BY <1>1, <1>7, <2>6
  <2>7. CASE Exit(p)
    BY <1>1, <1>8, <2>7
  <2>8. CASE Fetch(p) \/ Put(p) \/ Ask(p)
    BY <1>9, <2>8
  <2> QED BY <1>12, <2>1, <2>2, <2>3, <2>4, <2>5, <2>6, <2>7, <2>8 DEF Step
<1> QED BY <1>11, <1>12 DEF Next

\* It holds when the shell comes up, with the console as 0 and 1.
LEMMA BaseInit ==
  ASSUME Init
  PROVE  \E by : Core(map, by)
<1> DEFINE by == [p \in Procs |-> p]
           cons == Page(0, "cons")
           file == Page(0, "file")
<1>1. Root \in Procs /\ Root = 1
  BY ShellAssumption DEF Root, Procs
<1>2. /\ cons \in Pages /\ cons.pipe = 0 /\ ~IsPipe(cons) /\ cons # NIL
      /\ file \in Pages /\ file.pipe = 0 /\ ~IsPipe(file) /\ file # NIL
  <2>1. cons \in Pages
    BY ShellAssumption DEF Page, Pages
  <2>2. cons.pipe = 0 /\ cons.what = "cons"
    BY DEF Page
  <2>3. cons # NIL /\ ~IsPipe(cons)
    BY <2>1, <2>2, NilAssumption DEF IsPipe, Ends
  <2> QED BY <2>1, <2>2, <2>3, FileFacts
<1> HIDE DEF cons, file
<1>3. \A p \in Procs : \A s \in Slots :
        map[p][s] = CASE p = Root /\ s \in {fd(0), fd(1)} -> cons
                      [] p = Root /\ s = fd(2)            -> file
                      [] OTHER                            -> NIL
  BY DEF Init, cons, file
<1>4. map \in [Procs -> Maps]
  <2>1. map = [p \in Procs |-> [s \in Slots |->
                CASE p = Root /\ s \in {fd(0), fd(1)} -> cons
                  [] p = Root /\ s = fd(2)            -> file
                  [] OTHER                            -> NIL]]
    BY DEF Init, cons, file
  <2> QED BY <1>2, <2>1 DEF Maps
<1>5. /\ used = <<>> /\ status = [p \in Procs |-> IF p = Root THEN "run" ELSE "free"]
      /\ \A p \in Procs : /\ proc[p] \in ProcRecs /\ proc[p].todo = <<>>
                          /\ proc[p].at = IF p = Root THEN "main" ELSE "none"
  BY ShellAssumption DEF Init, Fresh, ProcRecs, Wheres
<1>6. proc \in [Procs -> ProcRecs] /\ status \in [Procs -> States]
  BY <1>5 DEF Init, States
<1>7. Typed(map, status, proc, 0, map, by)
  BY <1>4, <1>6 DEF Typed
<1>8. Ids(status, proc, 0)
  <2>1. ASSUME NEW q \in Procs, status[q] = "free" PROVE 0 + 2 <= q /\ \A x \in Procs : x >= q => status[x] = "free"
    <3>1. q # 1 /\ q >= 2 /\ \A x \in Procs : x >= q => x # 1
      BY <1>1, <1>5, <2>1 DEF Procs
    <3> QED BY <1>1, <1>5, <3>1
  <2> QED BY <1>1, <1>5, <2>1 DEF Ids
<1>9. Idle(map, status, proc)
  <2>1. ASSUME NEW p \in Procs, p # Root PROVE map[p] = Nothing
    BY <2>1 DEF Init, Nothing
  <2> QED BY <1>1, <1>5, <2>1 DEF Idle
<1>10. Std(map[Root]) /\ Fine(map[Root], 0)
  <2>1. \A n \in Fds : /\ fd(n) \in Slots /\ data(n) \in Slots /\ data(n) \notin {fd(0), fd(1), fd(2)}
                       /\ (fd(n) = fd(0) => n = 0) /\ (fd(n) = fd(1) => n = 1) /\ (fd(n) = fd(2) => n = 2)
    BY SlotFacts
  <2>2. \A n \in Fds : map[Root][data(n)] = NIL
    BY <1>1, <1>3, <2>1
  <2>3. \A s \in Slots : map[Root][s] \in {cons, file, NIL}
    BY <1>1, <1>3
  <2>4. \A s \in Slots : ~IsPipe(map[Root][s])
    <3>1. ~IsPipe(NIL)
      BY DEF IsPipe
    <3> QED BY <1>2, <2>3, <3>1
  <2>5. Fine(map[Root], 0)
    <3>1. \A s \in Slots : map[Root][s] # NIL => map[Root][s].pipe <= 0
      BY <1>2, <2>3
    <3>2. map[Root] \in Maps
      BY <1>1, <1>4
    <3> QED BY <2>1, <2>2, <2>4, <3>1, <3>2 DEF Fine
  <2>6. 0 \in Fds /\ 1 \in Fds /\ 2 \in Fds /\ fd(2) # fd(0) /\ fd(2) # fd(1)
    BY SlotFacts
  <2>7. map[Root][fd(0)] = cons /\ map[Root][fd(1)] = cons /\ map[Root][fd(2)] = file
    BY <1>1, <1>3, <2>1, <2>6
  <2>8. ASSUME NEW n \in Fds, n >= 3 PROVE map[Root][fd(n)] = NIL
    <3>1. fd(n) \notin {fd(0), fd(1), fd(2)} /\ fd(n) \in Slots
      BY <2>1, <2>8
    <3> QED BY <1>1, <1>3, <3>1
  <2> QED BY <1>2, <2>5, <2>7, <2>8 DEF Std, file
<1>11. Works(map, status, proc, 0, map, by)
  <2>1. Seg(Root, <<>>, map[Root], map[Root], 0)
    BY <1>10, SegNil
  <2> QED BY <1>1, <1>5, <2>1 DEF Works
<1>12. Born(map, status, proc, 0, map, by)
  BY <1>5 DEF Born
<1>13. Ready(status, proc, map)
  BY <1>1, <1>5, <1>10 DEF Ready
<1>14. Len(used) = 0 /\ used \in Seq(0 .. BY2PIPE)
  BY <1>5
<1>15. Core(map, by)
  BY <1>7, <1>8, <1>9, <1>11, <1>12, <1>13, <1>14 DEF Core, Base
<1> QED BY <1>15

\* It survives every step.
LEMMA BaseNext ==
  ASSUME NEW fin, NEW by, Core(fin, by), Next
  PROVE  \E f2, b2 : Core(f2, b2)'
<1>1. used' \in Seq(0 .. BY2PIPE) /\ Base(map, status, proc, Len(used), fin, by)
  BY StepIs DEF Core
<1>2. PICK p \in Procs : \/ Syscall(p)
                         \/ \E r, m, f : LocalAct(p, fin, r, m, f)
                         \/ \E r, c, o, m, f, fq : ForkAct(p, r, c, o, m, f, fq)
                         \/ \E r : ExitAct(p, r)
  BY StepIs
<1>3. \E f2, b2 : Base(map', status', proc', Len(used'), f2, b2)
  <2>1. CASE Syscall(p)
    BY <1>1, <2>1, SyscallStep
  <2>2. CASE \E r, m, f : LocalAct(p, fin, r, m, f)
    BY <1>1, <2>2, LocalBase
  <2>3. CASE \E r, c, o, m, f, fq : ForkAct(p, r, c, o, m, f, fq)
    BY <1>1, <2>3, ForkBase
  <2>4. CASE \E r : ExitAct(p, r)
    BY <1>1, <2>4, ExitBase
  <2> QED BY <1>2, <2>1, <2>2, <2>3, <2>4
<1> QED BY <1>1, <1>3 DEF Core

\* It implies the types.
LEMMA BaseType ==
  ASSUME NEW fin, NEW by, Core(fin, by)
  PROVE  TypeOK
<1>1. map \in [Procs -> Maps] /\ status \in [Procs -> States] /\ proc \in [Procs -> ProcRecs] /\ used \in Seq(0 .. BY2PIPE)
  BY DEF Core, Base, Typed
<1>2. \A k \in DOMAIN used : used[k] \in 0 .. BY2PIPE
  <2> DEFINE S == 0 .. BY2PIPE
  <2>1. used \in Seq(S)
    BY <1>1
  <2> HIDE DEF S
  <2>2. DOMAIN used = 1 .. Len(used) /\ \A k \in 1 .. Len(used) : used[k] \in S
    BY <2>1
  <2> QED BY <2>2 DEF S
<1>3. map \in [Procs -> [Slots -> Pages \cup {NIL}]]
  BY <1>1 DEF Maps
<1>4. status \in [Procs -> {"free", "new", "run", "gone"}]
  BY <1>1 DEF States
<1>5. \A p \in Procs : /\ proc[p].word \in Words \cup {NIL}
                       /\ proc[p].kid \in Procs \cup {NIL} /\ proc[p].right \in Procs \cup {NIL}
                       /\ proc[p].left \in 0 .. Bytes /\ proc[p].hold \in BOOLEAN
  <2>1. \A p \in Procs : proc[p] \in ProcRecs
    BY <1>1
  <2> QED BY <2>1 DEF ProcRecs
<1> QED BY <1>2, <1>3, <1>4, <1>5 DEF TypeOK

\* For every number of processes, descriptors and bytes and all lines: the variables
\* keep their types; in particular a pipe never holds more than BY2PIPE bytes or fewer
\* than none, whichever programs of the line are at its ends and in whatever order their
\* descriptors are passed on and closed (pipe_read, pipe_write, fork.c:132,
\* spawn.c:203).
THEOREM TypeSafe == Spec => []TypeOK
<1>1. Init => IInv
  BY BaseInit DEF IInv
<1>2. IInv /\ [Next]_vars => IInv'
  <2>1. CASE Next
    BY <2>1, BaseNext DEF IInv
  <2>2. ASSUME UNCHANGED vars, NEW fin, NEW by, Core(fin, by) PROVE Core(fin, by)'
    <3>1. map' = map /\ status' = status /\ proc' = proc /\ used' = used
      BY <2>2 DEF vars
    <3> QED BY <2>2, <3>1 DEF Core
  <2> QED BY <2>1, <2>2 DEF IInv
<1>3. IInv => TypeOK
  BY BaseType DEF IInv
<1> QED BY <1>1, <1>2, <1>3, PTL DEF Spec

-----------------------------------------------------------------------------
(***************************************************************************)
(* Who waits for whom.                                                     *)
(***************************************************************************)
Seps == {"|", ";", "&"}
\* Whatever is to the left of a '|' has a command to run; w is argv[0] so far.
Named(w, L) ==
  \A i \in 1 .. Len(L) : L[i] = "|" =>
    \/ w # NIL /\ \A k \in 1 .. i - 1 : L[k] \notin Seps
    \/ \E j \in 1 .. i - 1 : /\ L[j] \in Words /\ (j = 1 \/ L[j - 1] \notin {"<", ">"})
                             /\ \A k \in j + 1 .. i - 1 : L[k] \notin Seps

\* The tokens of sh.c's gettoken are symbols or words.
LEMMA SymbolsAreNoWords == Symbols \cap Words = {} /\ Seps \subseteq Symbols /\ NIL \notin Words
BY NilAssumption DEF Symbols, Words, Seps

\* Behind a separator.
LEMMA NamedRest ==
  ASSUME NEW w, NEW L \in Seq(Symbols \cup Words), Named(w, L), NEW s \in 1 .. Len(L), L[s] \in Seps,
         NEW R, Len(R) = Len(L) - s, \A j \in 1 .. Len(R) : R[j] = L[s + j]
  PROVE  Named(NIL, R)
<1>1. Len(L) \in Nat /\ s \in Nat /\ s >= 1 /\ s <= Len(L) /\ Len(R) \in Nat
  OBVIOUS
<1>2. ASSUME NEW i \in 1 .. Len(R), R[i] = "|"
      PROVE  \E j \in 1 .. i - 1 : /\ R[j] \in Words /\ (j = 1 \/ R[j - 1] \notin {"<", ">"})
                                   /\ \A k \in j + 1 .. i - 1 : R[k] \notin Seps
  <2>1. s + i \in 1 .. Len(L) /\ L[s + i] = "|" /\ s \in 1 .. (s + i) - 1 /\ i \in Nat
    BY <1>1, <1>2
  <2>2. PICK j \in 1 .. (s + i) - 1 : /\ L[j] \in Words /\ (j = 1 \/ L[j - 1] \notin {"<", ">"})
                                      /\ \A k \in j + 1 .. (s + i) - 1 : L[k] \notin Seps
    BY <2>1 DEF Named
  <2>3. j # s
    BY <2>2, SymbolsAreNoWords
  <2>4. ~(j < s)
    <3>1. j < s => s \in j + 1 .. (s + i) - 1
      BY <1>1, <2>1
    <3> QED BY <2>2, <3>1
  <2>5. j - s \in 1 .. i - 1 /\ j - s \in 1 .. Len(R) /\ s + (j - s) = j
    BY <1>1, <1>2, <2>1, <2>3, <2>4
  <2>6. R[j - s] = L[j]
    BY <2>5
  <2>7. j - s = 1 \/ R[(j - s) - 1] \notin {"<", ">"}
    <3>1. CASE j - s # 1
      <4>1. (j - s) - 1 \in 1 .. Len(R) /\ s + ((j - s) - 1) = j - 1 /\ j # 1
        BY <1>1, <2>5, <3>1
      <4>2. R[(j - s) - 1] = L[j - 1]
        BY <4>1
      <4> QED BY <2>2, <4>1, <4>2
    <3> QED BY <3>1
  <2>8. ASSUME NEW k \in (j - s) + 1 .. i - 1 PROVE R[k] \notin Seps
    <3>1. s + k \in j + 1 .. (s + i) - 1 /\ k \in 1 .. Len(R)
      BY <1>1, <1>2, <2>1, <2>5
    <3> QED BY <2>2, <3>1
  <2> QED BY <2>2, <2>5, <2>6, <2>7, <2>8
<1> QED BY <1>2 DEF Named

\* At a '|' there is a command to run.
LEMMA NamedWord ==
  ASSUME NEW p \in Procs, proc[p].line \in Seq(Symbols \cup Words), proc[p].word \in Words \cup {NIL},
         Named(proc[p].word, proc[p].line), Token(p) = "|"
  PROVE  Argv0(p) # NIL
<1> DEFINE L == proc[p].line
           s == NextSym(p)
<1>1. s \in 0 .. Len(L) /\ s # 0 /\ L[s] = "|" /\ Len(L) \in Nat
  BY Tokens DEF Token
<1>2. \A j \in 1 .. Len(L) : L[j] \in Symbols => s <= j
  BY Tokens
<1>3. CASE proc[p].word # NIL
  BY <1>3 DEF Argv0
<1>4. CASE proc[p].word = NIL
  <2> HIDE DEF s, L
  <2>1. s \in 1 .. Len(L) /\ s \in Nat
    BY <1>1
  <2>2. PICK j \in 1 .. s - 1 : L[j] \in Words
    BY <1>1, <1>4, <2>1 DEF Named, L
  <2>3. s # 1 /\ 1 \in 1 .. Len(L) /\ ~(s <= 1)
    BY <1>1, <2>1, <2>2
  <2>4. L[1] \in Words
    BY <1>2, <2>3 DEF L
  <2>5. L # <<>> /\ Head(L) = L[1]
    BY <2>3 DEF L
  <2> QED BY <1>4, <2>3, <2>4, <2>5, SymbolsAreNoWords DEF Argv0, s, L
<1> QED BY <1>3, <1>4

\* Behind a redirection.
LEMMA NamedTail ==
  ASSUME NEW p \in Procs, proc[p].line \in Seq(Symbols \cup Words), proc[p].word \in Words \cup {NIL},
         Named(proc[p].word, proc[p].line), Token(p) \in {"<", ">"}, Rest(p) # <<>>, Rest(p)[1] \in Words
  PROVE  Named(Argv0(p), Tail(Rest(p)))
<1> DEFINE L == proc[p].line
           s == NextSym(p)
           R == Rest(p)
           T == Tail(R)
<1>1. s \in 0 .. Len(L) /\ s # 0 /\ L[s] \in {"<", ">"} /\ Len(L) \in Nat
  BY Tokens DEF Token
<1>2. /\ \A j \in 1 .. Len(L) : L[j] \in Symbols => s <= j
      /\ R \in Seq(Symbols \cup Words)
      /\ Len(R) = Len(L) - s /\ \A j \in 1 .. Len(R) : R[j] = L[s + j]
      /\ Len(T) = Len(R) - 1 /\ \A j \in 1 .. Len(R) - 1 : T[j] = R[j + 1]
  BY Tokens
<1>3. proc[p].word # NIL => Argv0(p) # NIL
  BY DEF Argv0
<1>4. s # 1 => Argv0(p) # NIL
  <2>1. ASSUME s # 1 PROVE L[1] \in Words /\ L # <<>> /\ Head(L) = L[1]
    <3>1. 1 \in 1 .. Len(L) /\ ~(s <= 1)
      BY <1>1, <2>1
    <3>2. L[1] \in Words
      BY <1>2, <3>1
    <3> QED BY <3>1, <3>2
  <2> QED BY <2>1, SymbolsAreNoWords DEF Argv0
<1>n. Named(proc[p].word, L)
  OBVIOUS
<1>r. R # <<>> /\ L \in Seq(Symbols \cup Words) /\ R[1] \in Words
  OBVIOUS
<1> HIDE DEF L, s, R, T
<1>5. s \in Nat /\ s >= 1 /\ s <= Len(L) /\ Len(R) \in Nat /\ Len(T) \in Nat /\ Len(R) # 0
  BY <1>1, <1>2, <1>r, EmptySeq
<1>6. \A j \in 1 .. Len(T) : T[j] = L[s + 1 + j] /\ s + 1 + j \in 1 .. Len(L) /\ j \in Nat
  <2>1. ASSUME NEW j \in 1 .. Len(T) PROVE T[j] = L[s + 1 + j] /\ s + 1 + j \in 1 .. Len(L) /\ j \in Nat
    <3>1. j \in 1 .. Len(R) - 1 /\ j + 1 \in 1 .. Len(R) /\ s + (j + 1) = s + 1 + j /\ s + 1 + j \in 1 .. Len(L) /\ j \in Nat
      BY <1>1, <1>2, <1>5
    <3> QED BY <1>2, <3>1
  <2> QED BY <2>1
<1>7. L[s + 1] \in Words
  <2>1. 1 \in 1 .. Len(R)
    BY <1>5
  <2> QED BY <1>2, <1>r, <2>1
<1>8. ASSUME NEW i \in 1 .. Len(T), T[i] = "|"
      PROVE  \/ Argv0(p) # NIL /\ \A k \in 1 .. i - 1 : T[k] \notin Seps
             \/ \E j \in 1 .. i - 1 : /\ T[j] \in Words /\ (j = 1 \/ T[j - 1] \notin {"<", ">"})
                                      /\ \A k \in j + 1 .. i - 1 : T[k] \notin Seps
  <2> DEFINE I == s + 1 + i
  <2>1. L[I] = "|" /\ I \in 1 .. Len(L) /\ i \in Nat
    BY <1>6, <1>8
  <2>2. CASE proc[p].word # NIL /\ \A k \in 1 .. I - 1 : L[k] \notin Seps
    <3>1. ASSUME NEW k \in 1 .. i - 1 PROVE T[k] \notin Seps
      <4>1. k \in 1 .. Len(T) /\ s + 1 + k \in 1 .. I - 1
        BY <1>5, <1>8, <2>1
      <4> QED BY <1>6, <2>2, <4>1
    <3> QED BY <1>3, <2>2, <3>1
  <2>3. ASSUME NEW j \in 1 .. I - 1, L[j] \in Words, j = 1 \/ L[j - 1] \notin {"<", ">"},
               \A k \in j + 1 .. I - 1 : L[k] \notin Seps
        PROVE  \/ Argv0(p) # NIL /\ \A k \in 1 .. i - 1 : T[k] \notin Seps
               \/ \E n \in 1 .. i - 1 : /\ T[n] \in Words /\ (n = 1 \/ T[n - 1] \notin {"<", ">"})
                                        /\ \A k \in n + 1 .. i - 1 : T[k] \notin Seps
    <3>1. j # s
      BY <1>1, <2>3, SymbolsAreNoWords DEF Symbols
    <3>2. j # s + 1
      <4>1. j = s + 1 => j # 1 /\ L[j - 1] = L[s]
        BY <1>5
      <4> QED BY <1>1, <2>3, <4>1
    <3>3. CASE j < s
      <4>1. s # 1
        BY <2>3, <3>3
      <4>2. ASSUME NEW k \in 1 .. i - 1 PROVE T[k] \notin Seps
        <5>1. k \in 1 .. Len(T) /\ s + 1 + k \in j + 1 .. I - 1
          BY <1>5, <1>8, <2>1, <3>3
        <5> QED BY <1>6, <2>3, <5>1
      <4> QED BY <1>4, <4>1, <4>2
    <3>4. CASE j > s + 1
      <4> DEFINE n == j - s - 1
      <4>1. n \in 1 .. i - 1 /\ n \in 1 .. Len(T) /\ s + 1 + n = j
        BY <1>5, <1>8, <2>1, <3>4
      <4>2. T[n] = L[j]
        BY <1>6, <4>1
      <4>3. n = 1 \/ T[n - 1] \notin {"<", ">"}
        <5>1. CASE n # 1
          <6>1. n - 1 \in 1 .. Len(T) /\ s + 1 + (n - 1) = j - 1 /\ j # 1
            BY <1>5, <4>1, <5>1
          <6>2. T[n - 1] = L[j - 1]
            BY <1>6, <6>1
          <6> QED BY <2>3, <6>1, <6>2
        <5> QED BY <5>1
      <4>4. ASSUME NEW k \in n + 1 .. i - 1 PROVE T[k] \notin Seps
        <5>1. k \in 1 .. Len(T) /\ s + 1 + k \in j + 1 .. I - 1
          BY <1>5, <1>8, <2>1, <4>1
        <5> QED BY <1>6, <2>3, <5>1
      <4> QED BY <2>3, <4>1, <4>2, <4>3, <4>4
    <3>5. j \in Int /\ s \in Int
      BY <1>5
    <3> QED BY <3>1, <3>2, <3>3, <3>4, <3>5
  <2>4. \/ proc[p].word # NIL /\ \A k \in 1 .. I - 1 : L[k] \notin Seps
        \/ \E j \in 1 .. I - 1 : /\ L[j] \in Words /\ (j = 1 \/ L[j - 1] \notin {"<", ">"})
                                 /\ \A k \in j + 1 .. I - 1 : L[k] \notin Seps
    BY <1>n, <2>1 DEF Named
  <2> QED BY <2>2, <2>3, <2>4
<1>9. Named(Argv0(p), T)
  BY <1>8 DEF Named
<1> QED BY <1>9 DEF T, R

Live   == {"new", "run"}
Quietly(L) == \A i \in 1 .. Len(L) : L[i] # "&"
Ended(st, x) == x = NIL \/ st[x] = "gone"

\* w goes on when x has ended.
Awaits(pr, w, x) ==
  \/ pr[w].right = x /\ pr[w].at \in {"wait_line", "wait_then", "spawn", "wait_kid", "wait_right"}
  \/ pr[w].kid = x /\ pr[w].at = "wait_kid"

\* What is left of a line has no '&', and every '|' in it a command before it.
Reads(st, pr) ==
  \A p \in Procs : st[p] \in Live =>
    /\ Quietly(pr[p].line)
    /\ pr[p].at \in {"parse", "wait_then"} => Named(pr[p].word, pr[p].line)
    /\ pr[p].at = "spawn" /\ pr[p].right # NIL => pr[p].word # NIL
    /\ pr[p].at = "parse" => Ended(st, pr[p].right)
\* Somebody older waits for everybody but the shell.
Waited(st, pr) ==
  \A x \in Procs \ {Root} : st[x] \in Live => \E w \in Procs : w < x /\ st[w] = "run" /\ Awaits(pr, w, x)

Tree(st, pr) == Quietly(pr[Root].line) /\ Named(NIL, pr[Root].line) => Reads(st, pr) /\ Waited(st, pr)

\* A part of a line without '&' has none.
LEMMA QuietRest ==
  ASSUME NEW p \in Procs, proc[p].line \in Seq(Symbols \cup Words), proc[p].word \in Words \cup {NIL},
         Quietly(proc[p].line)
  PROVE  Quietly(Rest(p)) /\ (Rest(p) # <<>> => Quietly(Tail(Rest(p)))) /\ Token(p) # "&"
<1> DEFINE L == proc[p].line
           s == NextSym(p)
           R == Rest(p)
<1>1. s \in 0 .. Len(L) /\ R \in Seq(Symbols \cup Words) /\ Len(R) = Len(L) - s /\ \A j \in 1 .. Len(R) : R[j] = L[s + j]
  BY Tokens
<1>2. R # <<>> => Len(Tail(R)) = Len(R) - 1 /\ \A j \in 1 .. Len(R) - 1 : Tail(R)[j] = R[j + 1]
  BY Tokens
<1>3. Token(p) # "&"
  <2>1. s # 0 => s \in 1 .. Len(L)
    BY <1>1
  <2> QED BY <2>1 DEF Token, Quietly
<1>4. Len(L) \in Nat /\ Quietly(L) /\ Len(R) \in Nat
  BY <1>1
<1> HIDE DEF L, s, R
<1>5. \A j \in 1 .. Len(R) : s + j \in 1 .. Len(L)
  BY <1>1, <1>4
<1>6. Quietly(R)
  BY <1>1, <1>4, <1>5 DEF Quietly
<1>7. ASSUME R # <<>> PROVE Quietly(Tail(R))
  <2>1. \A j \in 1 .. Len(Tail(R)) : j + 1 \in 1 .. Len(R) /\ Tail(R)[j] = R[j + 1]
    BY <1>2, <1>4, <1>7
  <2> QED BY <1>6, <2>1 DEF Quietly
<1> QED BY <1>3, <1>6, <1>7 DEF R

\* A position that is not 0.
LEMMA NotZero ==
  ASSUME NEW n \in Nat, NEW s \in 0 .. n, s # 0
  PROVE  s \in 1 .. n
OBVIOUS

\* What is behind a ';' or a '|' has its commands named.
LEMMA NamedBehind ==
  ASSUME NEW p \in Procs, proc[p].line \in Seq(Symbols \cup Words), proc[p].word \in Words \cup {NIL},
         Named(proc[p].word, proc[p].line), Token(p) \in {"|", ";"}
  PROVE  Named(NIL, Rest(p))
<1>1. NextSym(p) \in 1 .. Len(proc[p].line) /\ proc[p].line[NextSym(p)] \in Seps
  <2>1. NextSym(p) \in 0 .. Len(proc[p].line)
    BY Tokens
  <2>2. NextSym(p) # 0 /\ proc[p].line[NextSym(p)] = Token(p)
    BY DEF Token
  <2>3. Len(proc[p].line) \in Nat
    BY LenProperties
  <2> QED BY <2>1, <2>2, <2>3, NotZero DEF Seps
<1>2. Len(Rest(p)) = Len(proc[p].line) - NextSym(p) /\ \A j \in 1 .. Len(Rest(p)) : Rest(p)[j] = proc[p].line[NextSym(p) + j]
  BY Tokens
<1> DEFINE L == proc[p].line
           s == NextSym(p)
           R == Rest(p)
           w == proc[p].word
<1>3. L \in Seq(Symbols \cup Words) /\ Named(w, L) /\ s \in 1 .. Len(L) /\ L[s] \in Seps
      /\ Len(R) = Len(L) - s /\ \A j \in 1 .. Len(R) : R[j] = L[s + j]
  BY <1>1, <1>2
<1> HIDE DEF L, s, R, w
<1>4. Named(NIL, R)
  BY <1>3, NamedRest
<1> QED BY <1>4 DEF R

\* A process that goes on by itself has nobody else to wait for.
LEMMA TreeLocal ==
  ASSUME NEW p \in Procs, NEW fin, NEW by, Base(map, status, proc, Len(used), fin, by), Tree(status, proc),
         NEW r, NEW m, NEW f, LocalAct(p, fin, r, m, f)
  PROVE  Tree(status', proc')
<1>1. /\ status[p] = "run" /\ r \in ProcRecs /\ proc' = [proc EXCEPT ![p] = r] /\ status' = status
      /\ <<proc[p].at, r.at>> \in LocalMoves /\ r.right = proc[p].right /\ r.kid = proc[p].kid
      /\ proc[p].at \in {"wait_line", "wait_then", "wait_right"} => Gone(proc[p].right)
      /\ proc[p].at = "wait_kid" => Gone(proc[p].kid)
      /\ (proc[p].at = "spawn" /\ r.at = "exit") => proc[p].word = NIL
      /\ IF proc[p].at = "parse" /\ r.at = "parse"
           THEN /\ Token(p) \in {"<", ">"} /\ Rest(p) # <<>> /\ Rest(p)[1] \in Words
                /\ r.line = Tail(Rest(p)) /\ r.word = Argv0(p)
           ELSE r.line = proc[p].line /\ r.word = proc[p].word
  BY DEF LocalAct
<1>2. proc \in [Procs -> ProcRecs] /\ proc[p] \in ProcRecs
  BY DEF Base, Typed
<1>3. proc[p].line \in Seq(Symbols \cup Words) /\ proc[p].word \in Words \cup {NIL}
  BY <1>2 DEF ProcRecs
<1>4. Root \in Procs /\ (p = Root => proc[p].at = "wait_line" /\ r.line = proc[p].line)
  <2>1. Root \in Procs
    BY ShellAssumption DEF Root, Procs
  <2>2. p = Root => proc[p].at \in {"main", "wait_line"}
    BY DEF Base, Ids
  <2>3. proc[p].at # "main"
    BY <1>1 DEF LocalMoves
  <2> QED BY <1>1, <2>1, <2>2, <2>3
<1>5. proc'[p] = r /\ \A x \in Procs : x # p => proc'[x] = proc[x]
  BY <1>1, <1>2
<1>6. proc'[Root].line = proc[Root].line
  BY <1>4, <1>5
<1> SUFFICES ASSUME Quietly(proc[Root].line), Named(NIL, proc[Root].line) PROVE Reads(status', proc') /\ Waited(status', proc')
  BY <1>6 DEF Tree
<1>7. Reads(status, proc) /\ Waited(status, proc)
  BY DEF Tree
<1>8. /\ Quietly(proc[p].line)
      /\ proc[p].at \in {"parse", "wait_then"} => Named(proc[p].word, proc[p].line)
      /\ proc[p].at = "spawn" /\ proc[p].right # NIL => proc[p].word # NIL
      /\ proc[p].at = "parse" => Ended(status, proc[p].right)
  BY <1>1, <1>7 DEF Reads, Live
<1>9. Quietly(r.line)
  BY <1>1, <1>3, <1>8, QuietRest
<1>10. r.at \in {"parse", "wait_then"} => Named(r.word, r.line)
  <2>1. CASE proc[p].at = "parse" /\ r.at = "parse"
    BY <1>1, <1>3, <1>8, <2>1, NamedTail
  <2>2. CASE ~(proc[p].at = "parse" /\ r.at = "parse") /\ r.at \in {"parse", "wait_then"}
    <3>1. proc[p].at = "wait_then"
      BY <1>1, <2>2 DEF LocalMoves
    <3> QED BY <1>1, <1>8, <2>2, <3>1
  <2> QED BY <2>1, <2>2
<1>11. r.at # "spawn" /\ (r.at = "parse" => Ended(status, r.right))
  <2>1. r.at # "spawn"
    BY <1>1 DEF LocalMoves
  <2>2. r.at = "parse" => proc[p].at \in {"parse", "wait_then"}
    BY <1>1 DEF LocalMoves
  <2> QED BY <1>1, <1>8, <2>1, <2>2 DEF Gone, Ended
<1>12. Reads(status', proc')
  BY <1>1, <1>5, <1>7, <1>9, <1>10, <1>11 DEF Reads, Live
<1>13. ASSUME NEW x \in Procs \ {Root}, status[x] \in Live
       PROVE  \E w \in Procs : w < x /\ status'[w] = "run" /\ Awaits(proc', w, x)
  <2>1. PICK w \in Procs : w < x /\ status[w] = "run" /\ Awaits(proc, w, x)
    BY <1>7, <1>13 DEF Waited
  <2>2. CASE w # p
    BY <1>1, <1>5, <2>1, <2>2 DEF Awaits
  <2>3. CASE w = p
    <3>1. x # NIL /\ ~Gone(x)
      BY <1>13, NilAssumption DEF Gone, Live
    <3>2. proc[p].at \notin {"wait_line", "wait_then", "wait_right"} /\ ~(proc[p].at = "wait_kid" /\ proc[p].kid = x)
      BY <1>1, <2>1, <2>3, <3>1 DEF Awaits
    <3>3. proc[p].right = x /\ proc[p].at \in {"spawn", "wait_kid"}
      BY <2>1, <2>3, <3>2 DEF Awaits
    <3>4. r.at = "wait_right"
      BY <1>1, <1>8, <3>1, <3>3 DEF LocalMoves
    <3>5. Awaits(proc', p, x)
      BY <1>1, <1>5, <3>3, <3>4 DEF Awaits
    <3> QED BY <1>1, <2>1, <2>3, <3>5
  <2> QED BY <2>2, <2>3
<1>14. Waited(status', proc')
  BY <1>1, <1>13 DEF Waited
<1> QED BY <1>12, <1>14

\* The environment a process creates is younger and waited for, and what the
\* process waits for is what it waited for before.
LEMMA TreeFork ==
  ASSUME NEW p \in Procs, NEW fin, NEW by, Base(map, status, proc, Len(used), fin, by), Tree(status, proc),
         NEW r, NEW c, NEW o, NEW m, NEW f, NEW fq, ForkAct(p, r, c, o, m, f, fq)
  PROVE  Tree(status', proc')
<1> DEFINE q == NextId
<1>1. /\ status[p] = "run" /\ r \in ProcRecs /\ c \in ProcRecs /\ Room
      /\ status' = [status EXCEPT ![q] = "new"] /\ proc' = [proc EXCEPT ![p] = r, ![q] = c]
      /\ <<proc[p].at, r.at, c.at>> \in ForkMoves /\ c.kid = NIL /\ c.right = NIL
      /\ IF r.at = "wait_kid" THEN r.kid = q /\ r.right = proc[p].right ELSE r.right = q
      /\ r.at = "wait_line" => /\ p = Root /\ proc[p].line = <<>> /\ c.line = r.line /\ c.word = NIL
      /\ r.at = "spawn" => Token(p) = "|" /\ r.line = Rest(p) /\ c.line = Rest(p) /\ r.word = Argv0(p) /\ c.word = NIL
      /\ r.at \in {"wait_then", "parse"} => /\ Token(p) = (IF r.at = "parse" THEN "&" ELSE ";")
                                            /\ r.line = Rest(p) /\ c.line = Rest(p) /\ r.word = NIL
      /\ r.at = "wait_kid" => r.line = proc[p].line /\ c.line = <<>>
  BY DEF ForkAct
<1>2. q \in Procs /\ status[q] = "free" /\ q # p
  BY <1>1, NextIs
<1>3. proc \in [Procs -> ProcRecs] /\ status \in [Procs -> States] /\ proc[p] \in ProcRecs
  BY DEF Base, Typed
<1>4. proc[p].line \in Seq(Symbols \cup Words) /\ proc[p].word \in Words \cup {NIL}
  BY <1>3 DEF ProcRecs
<1>5. /\ \A x \in Procs : x # q => status'[x] = status[x]
      /\ status'[q] = "new" /\ proc'[p] = r /\ proc'[q] = c
      /\ \A x \in Procs : x # p /\ x # q => proc'[x] = proc[x]
  BY <1>1, <1>2, <1>3
<1>6. p < q /\ p \in Nat /\ q \in Nat
  <2>1. \A x \in Procs : x >= q => status[x] = "free"
    BY <1>2 DEF Base, Ids
  <2>2. ~(p >= q)
    BY <1>1, <2>1
  <2> QED BY <1>2, <2>2 DEF Procs
<1>7. Root \in Procs /\ q # Root /\ (p = Root <=> r.at = "wait_line")
  <2>1. Root \in Procs
    BY ShellAssumption DEF Root, Procs
  <2>2. status[Root] = "run" /\ proc[Root].at \in {"main", "wait_line"}
    BY DEF Base, Ids
  <2>3. p = Root => r.at = "wait_line"
    BY <1>1, <2>2 DEF ForkMoves
  <2> QED BY <1>1, <1>2, <2>1, <2>2, <2>3
<1> HIDE DEF q
<1> SUFFICES ASSUME Quietly(proc'[Root].line), Named(NIL, proc'[Root].line) PROVE Reads(status', proc') /\ Waited(status', proc')
  BY DEF Tree
<1>8. Quietly(<<>>) /\ \A w : Named(w, <<>>)
  <2>1. Len(<<>>) = 0
    OBVIOUS
  <2> QED BY <2>1 DEF Quietly, Named
<1>9. Reads(status, proc) /\ Waited(status, proc)
  <2>1. CASE p = Root
    BY <1>1, <1>7, <1>8, <2>1 DEF Tree
  <2>2. CASE p # Root
    BY <1>5, <1>7, <2>2 DEF Tree
  <2> QED BY <2>1, <2>2
<1>10. /\ Quietly(proc[p].line)
       /\ proc[p].at = "parse" => Named(proc[p].word, proc[p].line)
       /\ proc[p].at = "spawn" /\ proc[p].right # NIL => proc[p].word # NIL
       /\ proc[p].at = "parse" => Ended(status, proc[p].right)
  BY <1>1, <1>9 DEF Reads, Live
<1>11. Quietly(Rest(p)) /\ Token(p) # "&" /\ r.at # "parse"
  BY <1>1, <1>4, <1>10, QuietRest
<1>12. Quietly(r.line) /\ Quietly(c.line)
  <2>1. CASE r.at = "wait_line"
    BY <1>1, <1>5, <1>7, <2>1
  <2>2. CASE r.at \in {"spawn", "wait_then"}
    BY <1>1, <1>11, <2>2
  <2>3. CASE r.at = "wait_kid"
    BY <1>1, <1>8, <1>10, <2>3
  <2> QED BY <1>1, <1>11, <2>1, <2>2, <2>3 DEF ForkMoves
<1>13. /\ r.at \in {"parse", "wait_then"} => Named(r.word, r.line)
       /\ c.at \in {"parse", "wait_then"} => Named(c.word, c.line)
       /\ r.at = "spawn" => r.word # NIL
  <2>1. CASE r.at = "wait_line"
    BY <1>1, <1>5, <1>7, <2>1
  <2>2. CASE r.at = "spawn"
    <3>1. proc[p].at = "parse" /\ Token(p) = "|"
      BY <1>1, <2>2 DEF ForkMoves
    <3>2. Named(NIL, Rest(p)) /\ Argv0(p) # NIL
      BY <1>4, <1>10, <3>1, NamedBehind, NamedWord
    <3> QED BY <1>1, <2>2, <3>2
  <2>3. CASE r.at = "wait_then"
    <3>1. proc[p].at = "parse" /\ Token(p) = ";" /\ c.at = "spawn"
      BY <1>1, <2>3 DEF ForkMoves
    <3>2. Named(NIL, Rest(p))
      BY <1>4, <1>10, <3>1, NamedBehind
    <3> QED BY <1>1, <2>3, <3>1, <3>2
  <2>4. CASE r.at = "wait_kid"
    BY <1>1, <2>4 DEF ForkMoves
  <2> QED BY <1>1, <1>11, <2>1, <2>2, <2>3, <2>4 DEF ForkMoves
<1>14. ASSUME NEW x \in Procs, status'[x] \in Live
       PROVE  /\ Quietly(proc'[x].line)
              /\ proc'[x].at \in {"parse", "wait_then"} => Named(proc'[x].word, proc'[x].line)
              /\ proc'[x].at = "spawn" /\ proc'[x].right # NIL => proc'[x].word # NIL
              /\ proc'[x].at = "parse" => Ended(status', proc'[x].right)
  <2>1. CASE x = p
    BY <1>5, <1>11, <1>12, <1>13, <2>1
  <2>2. CASE x = q
    BY <1>1, <1>5, <1>12, <1>13, <2>2 DEF Ended
  <2>3. CASE x # p /\ x # q
    <3>1. status[x] \in Live /\ proc'[x] = proc[x]
      BY <1>5, <1>14, <2>3
    <3>2. proc[x].at = "parse" => Ended(status, proc[x].right)
      BY <1>9, <3>1 DEF Reads
    <3>3. proc[x] \in ProcRecs
      BY <1>3
    <3>4. proc[x].right \in Procs \cup {NIL}
      BY <3>3 DEF ProcRecs
    <3>5. Ended(status, proc[x].right) => Ended(status', proc[x].right)
      BY <1>2, <1>5, <3>4 DEF Ended
    <3> QED BY <1>9, <3>1, <3>2, <3>5 DEF Reads
  <2> QED BY <2>1, <2>2, <2>3
<1>15. ASSUME NEW x \in Procs \ {Root}, status'[x] \in Live
       PROVE  \E w \in Procs : w < x /\ status'[w] = "run" /\ Awaits(proc', w, x)
  <2>1. CASE x = q
    <3>1. Awaits(proc', p, q)
      BY <1>1, <1>5, <1>11 DEF Awaits, ForkMoves
    <3> QED BY <1>1, <1>2, <1>5, <1>6, <2>1, <3>1
  <2>2. CASE x # q
    <3>1. PICK w \in Procs : w < x /\ status[w] = "run" /\ Awaits(proc, w, x)
      BY <1>5, <1>9, <1>15, <2>2 DEF Waited
    <3>2. w # q /\ status'[w] = "run"
      BY <1>2, <1>5, <3>1
    <3>3. CASE w # p
      BY <1>5, <3>1, <3>2, <3>3 DEF Awaits
    <3>4. CASE w = p
      <4>1. proc[p].at = "spawn" /\ proc[p].right = x
        BY <1>1, <3>1, <3>4 DEF Awaits, ForkMoves
      <4>2. r.at = "wait_kid" /\ r.right = x
        BY <1>1, <4>1 DEF ForkMoves
      <4>3. Awaits(proc', p, x)
        BY <1>5, <4>2 DEF Awaits
      <4> QED BY <3>1, <3>2, <3>4, <4>3
    <3> QED BY <3>3, <3>4
  <2> QED BY <2>1, <2>2
<1>16. Reads(status', proc')
  BY <1>14 DEF Reads
<1>17. Waited(status', proc')
  BY <1>15 DEF Waited
<1> QED BY <1>16, <1>17

\* Nobody ends while somebody else is still waited for by it.
LEMMA TreeExit ==
  ASSUME NEW p \in Procs, NEW fin, NEW by, Base(map, status, proc, Len(used), fin, by), Tree(status, proc),
         NEW r, ExitAct(p, r)
  PROVE  Tree(status', proc')
<1>1. /\ status[p] = "run" /\ proc[p].at = "exit"
      /\ status' = [status EXCEPT ![p] = "gone"] /\ proc' = [proc EXCEPT ![p] = r]
  BY DEF ExitAct
<1>2. proc \in [Procs -> ProcRecs] /\ status \in [Procs -> States]
  BY DEF Base, Typed
<1>3. /\ \A x \in Procs : x # p => status'[x] = status[x] /\ proc'[x] = proc[x]
      /\ status'[p] = "gone"
  BY <1>1, <1>2
<1>4. Root \in Procs /\ p # Root
  BY <1>1, ShellAssumption DEF Base, Ids, Root, Procs
<1> SUFFICES ASSUME Quietly(proc[Root].line), Named(NIL, proc[Root].line) PROVE Reads(status', proc') /\ Waited(status', proc')
  BY <1>3, <1>4 DEF Tree
<1>5. Reads(status, proc) /\ Waited(status, proc)
  BY DEF Tree
<1>6. ASSUME NEW x \in Procs, status'[x] \in Live
      PROVE  /\ Quietly(proc'[x].line)
             /\ proc'[x].at \in {"parse", "wait_then"} => Named(proc'[x].word, proc'[x].line)
             /\ proc'[x].at = "spawn" /\ proc'[x].right # NIL => proc'[x].word # NIL
             /\ proc'[x].at = "parse" => Ended(status', proc'[x].right)
  <2>1. x # p /\ status[x] \in Live /\ proc'[x] = proc[x]
    BY <1>3, <1>6 DEF Live
  <2>2. proc[x] \in ProcRecs
    BY <1>2
  <2>3. proc[x].right \in Procs \cup {NIL}
    BY <2>2 DEF ProcRecs
  <2>4. Ended(status, proc[x].right) => Ended(status', proc[x].right)
    BY <1>3, <2>3 DEF Ended
  <2> QED BY <1>5, <2>1, <2>4 DEF Reads
<1>7. ASSUME NEW x \in Procs \ {Root}, status'[x] \in Live
      PROVE  \E w \in Procs : w < x /\ status'[w] = "run" /\ Awaits(proc', w, x)
  <2>1. x # p /\ status[x] \in Live
    BY <1>3, <1>7 DEF Live
  <2>2. PICK w \in Procs : w < x /\ status[w] = "run" /\ Awaits(proc, w, x)
    BY <1>5, <2>1 DEF Waited
  <2>3. w # p
    BY <1>1, <2>2 DEF Awaits
  <2> QED BY <1>3, <2>2, <2>3 DEF Awaits
<1>8. Reads(status', proc')
  BY <1>6 DEF Reads
<1>9. Waited(status', proc')
  BY <1>7 DEF Waited
<1> QED BY <1>8, <1>9

\* A system call changes neither lines nor who waits for whom.
LEMMA TreeSyscall ==
  ASSUME NEW p \in Procs, NEW fin, NEW by, Base(map, status, proc, Len(used), fin, by), Tree(status, proc), Syscall(p)
  PROVE  Tree(status', proc')
<1>1. PICK t \in Seq(Calls) : proc' = [proc EXCEPT ![p].todo = t]
  BY SyscallStep
<1>2. /\ \A x \in Procs : status'[x] # status[x] => status[x] = "new" /\ status'[x] = "run"
      /\ proc \in [Procs -> ProcRecs]
  BY SyscallStep DEF Base, Typed
<1>3. \A x \in Procs : /\ proc'[x].at = proc[x].at /\ proc'[x].line = proc[x].line /\ proc'[x].word = proc[x].word
                       /\ proc'[x].right = proc[x].right /\ proc'[x].kid = proc[x].kid
  <2>1. proc[p] \in ProcRecs
    BY <1>2
  <2>2. [proc[p] EXCEPT !.todo = t].at = proc[p].at /\ [proc[p] EXCEPT !.todo = t].line = proc[p].line
        /\ [proc[p] EXCEPT !.todo = t].word = proc[p].word /\ [proc[p] EXCEPT !.todo = t].right = proc[p].right
        /\ [proc[p] EXCEPT !.todo = t].kid = proc[p].kid
    BY <2>1 DEF ProcRecs
  <2> QED BY <1>1, <1>2, <2>2
<1>4. \A x \in Procs : (status'[x] \in Live <=> status[x] \in Live) /\ (status[x] = "run" => status'[x] = "run")
                       /\ (status[x] = "gone" => status'[x] = "gone")
  BY <1>2 DEF Live
<1>5. Root \in Procs /\ proc'[Root].line = proc[Root].line
  BY <1>3, ShellAssumption DEF Root, Procs
<1> SUFFICES ASSUME Quietly(proc[Root].line), Named(NIL, proc[Root].line) PROVE Reads(status', proc') /\ Waited(status', proc')
  BY <1>5 DEF Tree
<1>6. Reads(status, proc) /\ Waited(status, proc)
  BY DEF Tree
<1>7. \A x \in Procs : Ended(status, proc[x].right) => Ended(status', proc[x].right)
  <2>1. ASSUME NEW x \in Procs PROVE proc[x].right \in Procs \cup {NIL}
    <3>1. proc[x] \in ProcRecs
      BY <1>2
    <3> QED BY <3>1 DEF ProcRecs
  <2> QED BY <1>4, <2>1 DEF Ended
<1>8. Reads(status', proc')
  BY <1>3, <1>4, <1>6, <1>7 DEF Reads
<1>9. Waited(status', proc')
  BY <1>3, <1>4, <1>6 DEF Waited, Awaits
<1> QED BY <1>8, <1>9

IInvTree == \E fin, by : Core(fin, by) /\ Tree(status, proc)

\* The shell alone waits for nobody.
LEMMA TreeInit ==
  ASSUME Init
  PROVE  Tree(status, proc)
<1>1. \A p \in Procs : /\ status[p] = (IF p = Root THEN "run" ELSE "free")
                       /\ proc[p].line = <<>> /\ proc[p].at \in {"main", "none"}
  BY DEF Init, Fresh
<1>2. Quietly(<<>>)
  <2>1. Len(<<>>) = 0
    OBVIOUS
  <2> QED BY <2>1 DEF Quietly
<1>3. Reads(status, proc)
  BY <1>1, <1>2 DEF Reads
<1>4. Waited(status, proc)
  BY <1>1 DEF Waited, Live
<1> QED BY <1>3, <1>4 DEF Tree

\* Every step keeps what processes wait for, and what they have still to read.
LEMMA TreeNext ==
  ASSUME NEW fin, NEW by, Core(fin, by), Tree(status, proc), Next
  PROVE  Tree(status', proc')
<1>1. Base(map, status, proc, Len(used), fin, by)
  BY DEF Core
<1>2. PICK p \in Procs : \/ Syscall(p)
                         \/ \E r, m, f : LocalAct(p, fin, r, m, f)
                         \/ \E r, c, o, m, f, fq : ForkAct(p, r, c, o, m, f, fq)
                         \/ \E r : ExitAct(p, r)
  BY StepIs
<1>3. CASE Syscall(p)
  BY <1>1, <1>3, TreeSyscall
<1>4. CASE \E r, m, f : LocalAct(p, fin, r, m, f)
  BY <1>1, <1>4, TreeLocal
<1>5. CASE \E r, c, o, m, f, fq : ForkAct(p, r, c, o, m, f, fq)
  BY <1>1, <1>5, TreeFork
<1>6. CASE \E r : ExitAct(p, r)
  BY <1>1, <1>6, TreeExit
<1> QED BY <1>2, <1>3, <1>4, <1>5, <1>6

\* The oldest of those who are left is waited for by the shell.
LEMMA TreePrompt ==
  ASSUME NEW fin, NEW by, Core(fin, by), Tree(status, proc), Named(NIL, proc[Root].line)
  PROVE  PromptComesLast
<1> SUFFICES ASSUME At(Root, "main"), ~Contains(proc[Root].line, "&"),
                    NEW p \in Procs \ {Root}, status[p] \notin {"free", "gone"}
             PROVE  FALSE
  BY DEF PromptComesLast
<1>1. status \in [Procs -> States] /\ Quietly(proc[Root].line)
  BY DEF Core, Base, Typed, Contains, Quietly
<1>2. Waited(status, proc)
  BY <1>1 DEF Tree
<1> DEFINE S == {n \in Nat : n \in Procs \ {Root} /\ status[n] \in Live}
           P == {n \in Nat : \A x \in S : ~(x < n)}
<1>3. p \in S
  BY <1>1 DEF States, Live, Procs
<1>4. 0 \in P
  OBVIOUS
<1>5. ASSUME NEW n \in Nat, n \in P PROVE n + 1 \in P
  <2>1. ASSUME NEW x \in S, x < n + 1 PROVE FALSE
    <3>1. x = n
      BY <1>5, <2>1
    <3>2. PICK w \in Procs : w < x /\ status[w] = "run" /\ Awaits(proc, w, x)
      BY <1>2, <2>1 DEF Waited
    <3>3. w # Root
      BY <3>2 DEF Awaits, At
    <3>4. w \in S
      BY <3>2, <3>3 DEF Live, Procs
    <3> QED BY <1>5, <3>1, <3>2, <3>4
  <2> QED BY <2>1
<1>6. P = Nat
  <2>1. P \in SUBSET Nat
    OBVIOUS
  <2> HIDE DEF P
  <2> QED BY <1>4, <1>5, <2>1, LeastNat
<1>7. p + 1 \in P
  BY <1>3, <1>6
<1> QED BY <1>3, <1>7

\* For every line that has a command before each '|', however long it is: when the shell
\* is back at its prompt, no process of the line is left, unless it has a '&'
\* (PromptComesLast; main, runcmd and wait, sh.c:213-221). The code does need the
\* command: at "| cat" runcmd returns without waiting for its right side, argc being 0.
THEOREM PromptSafe == Spec => [](Named(NIL, proc[Root].line) => PromptComesLast)
<1>1. Init => IInvTree
  BY BaseInit, TreeInit DEF IInvTree
<1>2. IInvTree /\ [Next]_vars => IInvTree'
  <2>1. ASSUME Next, NEW fin, NEW by, Core(fin, by), Tree(status, proc) PROVE IInvTree'
    <3>1. \E f2, b2 : Core(f2, b2)'
      BY <2>1, BaseNext
    <3>2. Tree(status', proc')
      BY <2>1, TreeNext
    <3> QED BY <3>1, <3>2 DEF IInvTree
  <2>2. ASSUME UNCHANGED vars, NEW fin, NEW by, Core(fin, by), Tree(status, proc) PROVE IInvTree'
    <3>1. map' = map /\ status' = status /\ proc' = proc /\ used' = used
      BY <2>2 DEF vars
    <3>2. Core(fin, by)' /\ Tree(status', proc')
      BY <2>2, <3>1 DEF Core
    <3> QED BY <3>2 DEF IInvTree
  <2> QED BY <2>1, <2>2 DEF IInvTree
<1>3. IInvTree => (Named(NIL, proc[Root].line) => PromptComesLast)
  BY TreePrompt DEF IInvTree
<1> QED BY <1>1, <1>2, <1>3, PTL DEF Spec

-----------------------------------------------------------------------------
(***************************************************************************)
(* Who has which end of a pipe.                                            *)
(***************************************************************************)
Has(f, page)  == IsPipe(page) /\ \E n \in Fds : f[fd(n)] = page
Shares(f, g)  == \E page : Has(f, page) /\ Has(g, page)
\* At a ';' x has lent what it has to its child y, or to the program of its child.
Lent(pr, x, y) ==
  pr[x].at = "wait_then" /\ (y = pr[x].right \/ (pr[pr[x].right].at = "wait_kid" /\ y = pr[pr[x].right].kid))

Quieter(st, pr) == \A p \in Procs : st[p] \in Live => Quietly(pr[p].line)
\* Nobody else shares an end with another.
Loans(st, pr, fin) ==
  \A x \in Procs, y \in Procs :
    x # y /\ st[x] \in Live /\ st[y] \in Live /\ pr[x].at \in Reading /\ pr[y].at \in Reading /\ Shares(fin[x], fin[y])
      => Lent(pr, x, y) \/ Lent(pr, y, x)
\* An end that a parent still has, it or the child will keep.
Held(mp, st, pr, fin, by) ==
  \A y \in Procs : st[y] = "new" => \A page :
    Has(mp[by[y]], page) => Has(fin[y], page) \/ (pr[by[y]].at \in Reading /\ Has(fin[by[y]], page))
\* What a program is, a child that runs a command, and a child that does not run yet.
Stages(st, pr, by) ==
  \A p \in Procs :
    /\ st[p] \in Live /\ pr[p].at \in {"program", "ask"} => pr[p].todo = <<>>
    /\ st[p] \in Live /\ pr[p].at = "wait_kid" =>
         pr[p].kid \in Procs /\ st[pr[p].kid] # "free" /\ pr[pr[p].kid].at \in {"program", "ask", "exit", "none"}
    /\ st[p] \in Live /\ pr[p].at = "wait_then" =>
         pr[p].right \in Procs /\ st[pr[p].right] # "free"
           /\ pr[pr[p].right].at \in {"spawn", "wait_kid", "wait_right", "exit", "none"}
    /\ st[p] = "new" =>
         pr[p].at \in {"parse", "spawn", "program"} /\ (pr[by[p]].at = "wait_then" => pr[by[p]].right = p)
\* Only reading ends are descriptor 0, only writing ends descriptor 1, and the shell has none.
Sides(st, pr, fin) ==
  /\ \A p \in Procs : st[p] \in Live /\ pr[p].at \in Reading =>
       /\ IsPipe(fin[p][fd(0)]) => fin[p][fd(0)].what = "r"
       /\ IsPipe(fin[p][fd(1)]) => fin[p][fd(1)].what = "w"
  /\ \A page : ~Has(fin[Root], page)

Keeping(mp, st, pr, fin, by) ==
  Quietly(pr[Root].line) =>
    Quieter(st, pr) /\ Loans(st, pr, fin) /\ Held(mp, st, pr, fin, by) /\ Stages(st, pr, by) /\ Sides(st, pr, fin)

\* What a process has and will have is legal.
LEMMA AllFine ==
  ASSUME NEW mp, NEW st, NEW pr, NEW k, NEW fin, NEW by, Base(mp, st, pr, k, fin, by), NEW x \in Procs
  PROVE  (st[x] \in Live => Fine(fin[x], k)) /\ (st[x] = "run" => Fine(mp[x], k))
<1>1. pr[x].todo \in Seq(Calls)
  <2>1. pr[x] \in ProcRecs
    BY DEF Base, Typed
  <2> QED BY <2>1 DEF ProcRecs
<1>2. CASE st[x] = "run"
  <2>1. CASE Seg(x, pr[x].todo, mp[x], fin[x], k)
    BY <1>1, <1>2, <2>1, SegFine
  <2>2. ASSUME NEW q, LendsTo(mp, pr, k, fin, x, q) PROVE Fine(mp[x], k) /\ Fine(fin[x], k)
    <3>1. PICK o \in Seq(Calls) : Seg(x, o, mp[x], fin[x], k)
      BY <2>2 DEF LendsTo, Lends
    <3> QED BY <3>1, SegFine
  <2> QED BY <1>2, <2>1, <2>2 DEF Base, Works
<1>3. CASE st[x] = "new"
  <2>1. LendsTo(mp, pr, k, fin, by[x], x)
    BY <1>3 DEF Base, Born
  <2>2. Seg(x, pr[x].todo, mp[by[x]], fin[x], k)
    BY <2>1 DEF LendsTo, Lends
  <2> QED BY <1>1, <1>3, <2>2, SegFine
<1> QED BY <1>2, <1>3 DEF Live

\* The ends of a process with two descriptors are those.
LEMMA TwoEnds ==
  ASSUME NEW f, Std(f), NEW page, Has(f, page)
  PROVE  page = f[fd(0)] \/ page = f[fd(1)]
<1>1. PICK n \in Fds : f[fd(n)] = page
  BY DEF Has
<1>2. page # NIL /\ n \in Nat
  BY DEF Has, IsPipe, Fds
<1>3. n = 0 \/ n = 1 \/ n = 2 \/ n >= 3
  BY <1>2
<1>4. page # Page(0, "file")
  BY FileFacts DEF Has
<1> QED BY <1>1, <1>2, <1>3, <1>4 DEF Std

\* Whoever has an open pipe has its end in a descriptor and its buffer behind it.
LEMMA EndsAreDescriptors ==
  ASSUME NEW f, NEW k, Fine(f, k), NEW s \in Slots, NEW page, IsPipe(page), f[s] = page
  PROVE  \E n \in Fds : s = fd(n) /\ f[data(n)] = Page(page.pipe, "buf")
<1>1. page # NIL /\ page.what # "buf"
  BY DEF IsPipe, Ends
<1>2. \E n \in Fds : s = fd(n) \/ s = data(n)
  BY SlotFacts
<1>3. PICK n \in Fds : s = fd(n) \/ s = data(n)
  BY <1>2
<1>4. s # data(n)
  BY <1>1 DEF Fine
<1> QED BY <1>3, <1>4 DEF Fine

\* A process that goes on by itself gets no ends of pipes, and takes back what it has
\* lent only when the borrower is gone.
LEMMA KeepLocal ==
  ASSUME NEW p \in Procs, NEW fin, NEW by, Base(map, status, proc, Len(used), fin, by), Keeping(map, status, proc, fin, by),
         NEW r, NEW m, NEW f, LocalAct(p, fin, r, m, f)
  PROVE  Keeping(map', status', proc', [fin EXCEPT ![p] = f], by)
<1> DEFINE fin2 == [fin EXCEPT ![p] = f]
<1>1. /\ status[p] = "run" /\ proc[p].todo = <<>> /\ r \in ProcRecs /\ proc' = [proc EXCEPT ![p] = r] /\ status' = status
      /\ map' = [map EXCEPT ![p] = m]
      /\ <<proc[p].at, r.at>> \in LocalMoves /\ r.right = proc[p].right /\ r.kid = proc[p].kid
      /\ r.at \in Reading => Std(f) /\ \A n \in {0, 1} : f[fd(n)] = fin[p][fd(n)] \/ f[fd(n)] = Page(0, "file")
      /\ r.at \in {"program", "ask"} => r.todo = <<>>
      /\ proc[p].at \in {"wait_line", "wait_then", "wait_right"} => Gone(proc[p].right)
      /\ proc[p].at = "wait_kid" => Gone(proc[p].kid)
      /\ IF proc[p].at = "parse" /\ r.at = "parse"
           THEN Rest(p) # <<>> /\ r.line = Tail(Rest(p)) ELSE r.line = proc[p].line
  BY DEF LocalAct
<1>2. /\ proc \in [Procs -> ProcRecs] /\ proc[p] \in ProcRecs /\ map \in [Procs -> Maps]
      /\ fin \in [Procs -> Maps] /\ by \in [Procs -> Procs]
  BY DEF Base, Typed
<1>3. /\ proc'[p] = r /\ fin2[p] = f
      /\ \A x \in Procs : x # p => proc'[x] = proc[x] /\ fin2[x] = fin[x] /\ map'[x] = map[x]
  BY <1>1, <1>2
<1>4. Root \in Procs /\ (p = Root => proc[p].at = "wait_line" /\ r.at = "main" /\ r.line = proc[p].line)
  <2>1. Root \in Procs
    BY ShellAssumption DEF Root, Procs
  <2>2. p = Root => proc[p].at \in {"main", "wait_line"}
    BY DEF Base, Ids
  <2>3. proc[p].at # "main" /\ (proc[p].at = "wait_line" => r.at = "main")
    BY <1>1 DEF LocalMoves
  <2> QED BY <1>1, <2>1, <2>2, <2>3
<1>5. proc'[Root].line = proc[Root].line
  BY <1>3, <1>4
<1> HIDE DEF fin2
<1> SUFFICES ASSUME Quietly(proc[Root].line)
             PROVE  /\ Quieter(status', proc') /\ Loans(status', proc', fin2) /\ Held(map', status', proc', fin2, by)
                    /\ Stages(status', proc', by) /\ Sides(status', proc', fin2)
  BY <1>5 DEF Keeping, fin2
<1>6. /\ Quieter(status, proc) /\ Loans(status, proc, fin) /\ Held(map, status, proc, fin, by)
      /\ Stages(status, proc, by) /\ Sides(status, proc, fin)
  BY DEF Keeping
<1>7. \A y \in Procs : status[y] = "new" => by[y] # p /\ y # p /\ by[y] \in Procs
  BY <1>1, <1>2, Quiet
<1>8. r.at \in Reading => proc[p].at \in Reading
  BY <1>1 DEF LocalMoves, Reading
<1>9. ASSUME r.at \in Reading, NEW page, Has(f, page) PROVE Has(fin[p], page) /\ (page = f[fd(0)] \/ page = f[fd(1)])
  <2>1. page = f[fd(0)] \/ page = f[fd(1)]
    BY <1>1, <1>9, TwoEnds
  <2>2. IsPipe(page) /\ ~IsPipe(Page(0, "file"))
    BY <1>9 DEF Has, IsPipe, Page, Ends
  <2>3. 0 \in Fds /\ 1 \in Fds
    BY SlotFacts
  <2> QED BY <1>1, <1>9, <2>1, <2>2, <2>3 DEF Has
<1>10. Quieter(status', proc')
  <2>1. Quietly(proc[p].line)
    BY <1>1, <1>6 DEF Quieter, Live
  <2>2. proc[p].line \in Seq(Symbols \cup Words) /\ proc[p].word \in Words \cup {NIL}
    BY <1>2 DEF ProcRecs
  <2>3. Quietly(r.line)
    BY <1>1, <2>1, <2>2, QuietRest
  <2> QED BY <1>1, <1>3, <1>6, <2>3 DEF Quieter
<1>11. ASSUME NEW x \in Procs, NEW y \in Procs, status[x] \in Live, status[y] \in Live, Lent(proc, x, y)
       PROVE  Lent(proc', x, y)
  <2> DEFINE z == proc[x].right
  <2>1. proc[x].at = "wait_then" /\ z \in Procs /\ y # NIL /\ z # NIL /\ ~Gone(y)
    BY <1>6, <1>11, NilAssumption DEF Lent, Stages, Gone, Live
  <2>2. y = z \/ (proc[z].at = "wait_kid" /\ y = proc[z].kid)
    BY <1>11 DEF Lent
  <2> HIDE DEF z
  <2>3. x # p
    <3>1. CASE x = p
      <4>1. Gone(z)
        BY <1>1, <2>1, <3>1 DEF z
      <4>2. status[z] = "gone"
        BY <2>1, <4>1 DEF Gone
      <4>3. proc[z].at = "none"
        BY <2>1, <4>2 DEF Base, Idle
      <4> QED BY <2>1, <2>2, <4>1, <4>3
    <3> QED BY <3>1
  <2>4. y # z => z # p
    BY <1>1, <2>1, <2>2
  <2> QED BY <1>3, <2>1, <2>2, <2>3, <2>4 DEF Lent, z
<1>12. Loans(status', proc', fin2)
  <2>1. ASSUME NEW x \in Procs, NEW y \in Procs, x # y, status[x] \in Live, status[y] \in Live,
               proc'[x].at \in Reading, proc'[y].at \in Reading, Shares(fin2[x], fin2[y])
        PROVE  Lent(proc', x, y) \/ Lent(proc', y, x)
    <3>1. \A w \in Procs : proc'[w].at \in Reading =>
            proc[w].at \in Reading /\ \A page : Has(fin2[w], page) => Has(fin[w], page)
      BY <1>3, <1>8, <1>9
    <3>2. Shares(fin[x], fin[y]) /\ proc[x].at \in Reading /\ proc[y].at \in Reading
      BY <2>1, <3>1 DEF Shares
    <3>3. Lent(proc, x, y) \/ Lent(proc, y, x)
      BY <1>6, <2>1, <3>2 DEF Loans
    <3> QED BY <1>11, <2>1, <3>3
  <2> QED BY <1>1, <2>1 DEF Loans
<1>13. Held(map', status', proc', fin2, by)
  BY <1>1, <1>3, <1>6, <1>7 DEF Held
<1>14. Stages(status', proc', by)
  <2>1. ASSUME NEW x \in Procs, status[x] \in Live
        PROVE  /\ proc'[x].at \in {"program", "ask"} => proc'[x].todo = <<>>
               /\ proc'[x].at = "wait_kid" =>
                    proc'[x].kid \in Procs /\ status[proc'[x].kid] # "free"
                      /\ proc'[proc'[x].kid].at \in {"program", "ask", "exit", "none"}
               /\ proc'[x].at = "wait_then" =>
                    proc'[x].right \in Procs /\ status[proc'[x].right] # "free"
                      /\ proc'[proc'[x].right].at \in {"spawn", "wait_kid", "wait_right", "exit", "none"}
    <3>1. proc'[x].at \in {"program", "ask"} => proc'[x].todo = <<>>
      BY <1>1, <1>3, <1>6, <2>1 DEF Stages
    <3>2. ASSUME proc'[x].at \in {"wait_kid", "wait_then"} PROVE x # p /\ proc'[x] = proc[x]
      BY <1>1, <1>3, <3>2 DEF LocalMoves
    <3>3. /\ proc[p].at \in {"program", "ask", "exit", "none"} => r.at \in {"program", "ask", "exit", "none"}
          /\ proc[p].at \in {"spawn", "wait_kid", "wait_right", "exit", "none"} =>
               r.at \in {"spawn", "wait_kid", "wait_right", "exit", "none"}
      BY <1>1 DEF LocalMoves
    <3>4. ASSUME proc'[x].at = "wait_kid"
          PROVE  proc'[x].kid \in Procs /\ status[proc'[x].kid] # "free"
                      /\ proc'[proc'[x].kid].at \in {"program", "ask", "exit", "none"}
      BY <1>3, <1>6, <2>1, <3>2, <3>3, <3>4 DEF Stages
    <3>5. ASSUME proc'[x].at = "wait_then"
          PROVE  proc'[x].right \in Procs /\ status[proc'[x].right] # "free"
                      /\ proc'[proc'[x].right].at \in {"spawn", "wait_kid", "wait_right", "exit", "none"}
      BY <1>3, <1>6, <2>1, <3>2, <3>3, <3>5 DEF Stages
    <3> QED BY <3>1, <3>4, <3>5
  <2>2. ASSUME NEW x \in Procs, status[x] = "new"
        PROVE  proc'[x].at \in {"parse", "spawn", "program"} /\ (proc'[by[x]].at = "wait_then" => proc'[by[x]].right = x)
    BY <1>3, <1>6, <1>7, <2>2 DEF Stages
  <2> QED BY <1>1, <2>1, <2>2 DEF Stages
<1>15. Sides(status', proc', fin2)
  <2>1. ASSUME NEW x \in Procs, status[x] \in Live, proc'[x].at \in Reading
        PROVE  /\ IsPipe(fin2[x][fd(0)]) => fin2[x][fd(0)].what = "r"
               /\ IsPipe(fin2[x][fd(1)]) => fin2[x][fd(1)].what = "w"
    <3>1. CASE x # p
      BY <1>3, <1>6, <2>1, <3>1 DEF Sides
    <3>2. CASE x = p
      <4>1. ~IsPipe(Page(0, "file"))
        BY DEF IsPipe, Page, Ends
      <4>2. /\ IsPipe(fin[p][fd(0)]) => fin[p][fd(0)].what = "r"
            /\ IsPipe(fin[p][fd(1)]) => fin[p][fd(1)].what = "w"
        BY <1>3, <1>6, <1>8, <2>1, <3>2 DEF Sides
      <4>3. \A n \in {0, 1} : f[fd(n)] = fin[p][fd(n)] \/ f[fd(n)] = Page(0, "file")
        BY <1>1, <1>3, <2>1, <3>2
      <4> QED BY <1>3, <3>2, <4>1, <4>2, <4>3
    <3> QED BY <3>1, <3>2
  <2>2. ASSUME NEW page PROVE ~Has(fin2[Root], page)
    <3>1. ~Has(fin[Root], page)
      BY <1>6 DEF Sides
    <3>2. p = Root => r.at \in Reading
      BY <1>4 DEF Reading
    <3> QED BY <1>3, <1>4, <1>9, <3>1, <3>2
  <2> QED BY <1>1, <2>1, <2>2 DEF Sides
<1> QED BY <1>10, <1>12, <1>13, <1>14, <1>15

\* What p and its child q will have p has had, or it is an end of a new pipe; and
\* of that each end goes to one of them.
LEMMA ForkEnds ==
  ASSUME NEW p \in Procs, NEW fin, NEW by, Base(map, status, proc, Len(used), fin, by),
         Sides(status, proc, fin), NEW r, NEW c, NEW o, NEW m, NEW f, NEW fq, ForkAct(p, r, c, o, m, f, fq)
  PROVE  /\ \A page : Has(fq, page) => Has(fin[p], page) \/ page.pipe = Len(used) + 1
         /\ r.at \in Reading => \A page : Has(f, page) => Has(fin[p], page) \/ page.pipe = Len(used) + 1
         /\ r.at = "spawn" => ~Shares(f, fq)
         /\ \A page : Has(m, page) => Has(fq, page) \/ (r.at \in Reading /\ Has(f, page))
         /\ /\ IsPipe(fq[fd(0)]) => fq[fd(0)].what = "r"
            /\ IsPipe(fq[fd(1)]) => fq[fd(1)].what = "w"
         /\ r.at \in Reading => /\ IsPipe(f[fd(0)]) => f[fd(0)].what = "r"
                                /\ IsPipe(f[fd(1)]) => f[fd(1)].what = "w"
         /\ r.at # "spawn" => fq = fin[p] /\ (r.at \in Reading => f = fin[p])
<1> DEFINE k == Len(used)
           l == Len(used')
           A == map[p][fd(0)]
           B == map[p][fd(1)]
           R == Page(l, "r")
           W == Page(l, "w")
<1>1. /\ status[p] = "run" /\ proc[p].todo = <<>> /\ m \in Maps /\ f \in Maps /\ fq \in Maps
      /\ <<proc[p].at, r.at, c.at>> \in ForkMoves /\ (r.at \in Reading => Std(f)) /\ Std(fq)
      /\ IF r.at = "spawn"
           THEN /\ l = k + 1 /\ m[fd(0)] = A /\ m[fd(1)] = B /\ m[fd(2)] = Page(0, "file") /\ m[fd(3)] = R /\ m[fd(4)] = W
                /\ \A n \in Fds : n >= 5 => m[fd(n)] = NIL
                /\ f[fd(0)] = A /\ f[fd(1)] = W /\ fq[fd(0)] = R /\ fq[fd(1)] = B
           ELSE m = map[p] /\ fq = m /\ (r.at \in Reading => f = m)
  BY DEF ForkAct
<1>2. map[p] = fin[p] /\ Fine(map[p], k)
  BY <1>1, Quiet
<1>3. R.pipe = l /\ W.pipe = l /\ R.what = "r" /\ W.what = "w"
  BY DEF Page
<1>4. proc[p].at \in Reading /\ ("spawn" \in Reading) /\ k \in Nat
  BY <1>1 DEF ForkMoves, Reading, Base, Typed
<1>5. (IsPipe(A) => A.what = "r") /\ (IsPipe(B) => B.what = "w")
  BY <1>1, <1>2, <1>4 DEF Sides, Live
<1>6. \A n \in {0, 1, 2, 3, 4} : n \in Fds
  BY SlotFacts
<1>7. CASE r.at # "spawn"
  <2>1. m = fin[p] /\ fq = fin[p] /\ (r.at \in Reading => f = fin[p])
    BY <1>1, <1>2, <1>7
  <2>2. A = fin[p][fd(0)] /\ B = fin[p][fd(1)]
    BY <1>2
  <2> QED BY <1>5, <1>7, <2>1, <2>2
<1>8. CASE r.at = "spawn"
  <2> HIDE DEF k, l, A, B, R, W
  <2>1. Std(f) /\ Std(fq) /\ l = k + 1 /\ r.at \in Reading
    BY <1>1, <1>4, <1>8
  <2>2. f[fd(0)] = A /\ f[fd(1)] = W /\ fq[fd(0)] = R /\ fq[fd(1)] = B
    BY <1>1, <1>8
  <2>3. \A page : Has(f, page) => page = A \/ page = W
    BY <2>1, <2>2, TwoEnds
  <2>4. \A page : Has(fq, page) => page = R \/ page = B
    BY <2>1, <2>2, TwoEnds
  <2>5. \A page : IsPipe(page) /\ page \in {A, B} => Has(fin[p], page)
    BY <1>2, <1>6 DEF Has, A, B
  <2>6. \A page : Has(f, page) \/ Has(fq, page) => IsPipe(page)
    BY DEF Has
  <2>7. \A page : Has(fq, page) => Has(fin[p], page) \/ page.pipe = k + 1
    BY <1>3, <2>1, <2>4, <2>5, <2>6
  <2>8. \A page : Has(f, page) => Has(fin[p], page) \/ page.pipe = k + 1
    BY <1>3, <2>1, <2>3, <2>5, <2>6
  <2>9. ~Shares(f, fq)
    <3>1. ASSUME NEW page, Has(f, page), Has(fq, page) PROVE FALSE
      <4>1. page \in {A, W} /\ page \in {R, B} /\ IsPipe(page)
        BY <2>3, <2>4, <2>6, <3>1
      <4>2. CASE page = A
        <5>1. page = B => FALSE
          BY <1>5, <4>1, <4>2
        <5>2. page = R
          BY <4>1, <5>1
        <5>3. Fine(map[p], k) /\ A # NIL /\ fd(0) \in Slots
          BY <1>2, <1>6, <4>1, <4>2, SlotFacts DEF IsPipe
        <5>4. A.pipe <= k
          BY <5>3 DEF Fine, A
        <5> QED BY <1>3, <1>4, <2>1, <4>2, <5>2, <5>4 DEF k
      <4>3. CASE page = W
        <5>1. page # R
          BY <1>3, <4>3
        <5>2. page = B
          BY <4>1, <5>1
        <5>3. Fine(map[p], k) /\ B # NIL /\ fd(1) \in Slots
          BY <1>2, <1>6, <4>1, <5>2, SlotFacts DEF IsPipe
        <5>4. B.pipe <= k
          BY <5>3 DEF Fine, B
        <5> QED BY <1>3, <1>4, <2>1, <4>3, <5>2, <5>4 DEF k
      <4> QED BY <4>1, <4>2, <4>3
    <3> QED BY <3>1 DEF Shares
  <2>10. ASSUME NEW page, Has(m, page) PROVE Has(fq, page) \/ Has(f, page)
    <3>1. PICK n \in Fds : m[fd(n)] = page
      BY <2>10 DEF Has
    <3>2. page # NIL /\ n \in Nat /\ IsPipe(page)
      BY <2>10, SlotFacts DEF Has, IsPipe
    <3>3. ~(n >= 5)
      BY <1>1, <1>8, <3>1, <3>2
    <3>4. n \in {0, 1, 2, 3, 4}
      BY <3>2, <3>3
    <3>5. page \in {A, B, R, W}
      <4>1. page # Page(0, "file")
        BY <3>2, FileFacts
      <4> QED BY <1>1, <1>8, <3>1, <3>4, <4>1
    <3> QED BY <1>6, <2>2, <3>2, <3>5 DEF Has
  <2>11. /\ IsPipe(fq[fd(0)]) => fq[fd(0)].what = "r"
         /\ IsPipe(fq[fd(1)]) => fq[fd(1)].what = "w"
         /\ IsPipe(f[fd(0)]) => f[fd(0)].what = "r"
         /\ IsPipe(f[fd(1)]) => f[fd(1)].what = "w"
    BY <1>3, <1>5, <2>2
  <2>12. k = Len(used)
    BY DEF k
  <2> QED BY <1>8, <2>1, <2>7, <2>8, <2>9, <2>10, <2>11, <2>12
<1> QED BY <1>7, <1>8

\* Whoever forks or spawns shares no end with anybody but, if it runs a command that
\* a ';' ends, with the process that waits for it; and that one lends to the child as well.
LEMMA KeepFork ==
  ASSUME NEW p \in Procs, NEW fin, NEW by, Base(map, status, proc, Len(used), fin, by), Keeping(map, status, proc, fin, by),
         NEW r, NEW c, NEW o, NEW m, NEW f, NEW fq, ForkAct(p, r, c, o, m, f, fq)
  PROVE  Keeping(map', status', proc', [fin EXCEPT ![p] = f, ![NextId] = fq], [by EXCEPT ![NextId] = p])
<1> DEFINE q == NextId
           fin2 == [fin EXCEPT ![p] = f, ![q] = fq]
           by2  == [by EXCEPT ![q] = p]
           k    == Len(used)
<1>1. /\ status[p] = "run" /\ proc[p].todo = <<>> /\ r \in ProcRecs /\ c \in ProcRecs /\ Room
      /\ map' = [map EXCEPT ![p] = m] /\ m \in Maps
      /\ status' = [status EXCEPT ![q] = "new"] /\ proc' = [proc EXCEPT ![p] = r, ![q] = c]
      /\ <<proc[p].at, r.at, c.at>> \in ForkMoves /\ c.kid = NIL /\ c.right = NIL
      /\ IF r.at = "wait_kid" THEN r.kid = q /\ r.right = proc[p].right ELSE r.right = q
      /\ c.at = "program" => c.todo = <<>>
      /\ r.at = "wait_line" => /\ p = Root /\ proc[p].line = <<>> /\ c.line = r.line
      /\ r.at = "spawn" => r.line = Rest(p) /\ c.line = Rest(p)
      /\ r.at \in {"wait_then", "parse"} => /\ Token(p) = (IF r.at = "parse" THEN "&" ELSE ";")
                                            /\ r.line = Rest(p) /\ c.line = Rest(p)
      /\ r.at = "wait_kid" => r.line = proc[p].line /\ c.line = <<>>
  BY DEF ForkAct
<1>d. proc[p].todo = <<>> /\ status[p] = "run"
  BY <1>1
<1>e. (c.at = "program" => c.todo = <<>>) /\ (r.at = "wait_kid" => r.kid = q) /\ (r.at = "wait_then" => r.right = q)
  BY <1>1
<1>2. q \in Procs /\ status[q] = "free" /\ q # p
  BY <1>1, NextIs
<1>3. /\ proc \in [Procs -> ProcRecs] /\ status \in [Procs -> States] /\ proc[p] \in ProcRecs
      /\ fin \in [Procs -> Maps] /\ by \in [Procs -> Procs] /\ map \in [Procs -> Maps]
  BY DEF Base, Typed
<1>4. proc[p].line \in Seq(Symbols \cup Words) /\ proc[p].word \in Words \cup {NIL}
  BY <1>3 DEF ProcRecs
<1>5. /\ \A x \in Procs : x # q => status'[x] = status[x] /\ by2[x] = by[x]
      /\ status'[q] = "new" /\ proc'[p] = r /\ proc'[q] = c /\ by2[q] = p
      /\ fin2[p] = f /\ fin2[q] = fq /\ map'[p] = m
      /\ \A x \in Procs : x # p => map'[x] = map[x]
      /\ \A x \in Procs : x # p /\ x # q => proc'[x] = proc[x] /\ fin2[x] = fin[x]
  BY <1>1, <1>2, <1>3
<1>6. Root \in Procs /\ q # Root /\ status[Root] = "run" /\ (p = Root <=> r.at = "wait_line")
  <2>1. Root \in Procs
    BY ShellAssumption DEF Root, Procs
  <2>2. status[Root] = "run" /\ proc[Root].at \in {"main", "wait_line"}
    BY DEF Base, Ids
  <2>3. p = Root => r.at = "wait_line"
    BY <1>1, <2>2 DEF ForkMoves
  <2> QED BY <1>1, <1>2, <2>1, <2>2, <2>3
<1>a. \A x \in Procs : status[x] \in Live => Fine(fin[x], k)
  BY AllFine
<1>b. \A y \in Procs : status[y] = "new" => by[y] # p /\ y # p /\ by[y] \in Procs /\ status[by[y]] = "run"
  <2>1. \A y \in Procs : status[y] = "new" => by[y] # p /\ y # p
    BY <1>d, Quiet
  <2>2. \A y \in Procs : status[y] = "new" => by[y] \in Procs /\ status[by[y]] = "run"
    BY OneHeir
  <2> QED BY <2>1, <2>2
<1> SUFFICES ASSUME Quietly(proc'[Root].line)
             PROVE  /\ Quieter(status', proc') /\ Loans(status', proc', fin2) /\ Held(map', status', proc', fin2, by2)
                    /\ Stages(status', proc', by2) /\ Sides(status', proc', fin2)
  BY DEF Keeping
<1>c. Quietly(<<>>)
  <2>1. Len(<<>>) = 0
    OBVIOUS
  <2> QED BY <2>1 DEF Quietly
<1>7. /\ Quieter(status, proc) /\ Loans(status, proc, fin) /\ Held(map, status, proc, fin, by)
      /\ Stages(status, proc, by) /\ Sides(status, proc, fin)
  <2>1. CASE p = Root
    BY <1>1, <1>6, <1>c, <2>1 DEF Keeping
  <2>2. CASE p # Root
    BY <1>5, <1>6, <2>2 DEF Keeping
  <2> QED BY <2>1, <2>2
<1>8. /\ \A page : Has(fq, page) => Has(fin[p], page) \/ page.pipe = k + 1
      /\ r.at \in Reading => \A page : Has(f, page) => Has(fin[p], page) \/ page.pipe = k + 1
      /\ r.at = "spawn" => ~Shares(f, fq)
      /\ \A page : Has(m, page) => Has(fq, page) \/ (r.at \in Reading /\ Has(f, page))
      /\ /\ IsPipe(fq[fd(0)]) => fq[fd(0)].what = "r"
         /\ IsPipe(fq[fd(1)]) => fq[fd(1)].what = "w"
      /\ r.at \in Reading => /\ IsPipe(f[fd(0)]) => f[fd(0)].what = "r"
                             /\ IsPipe(f[fd(1)]) => f[fd(1)].what = "w"
      /\ r.at # "spawn" => fq = fin[p] /\ (r.at \in Reading => f = fin[p])
  BY <1>7, ForkEnds
<1>9. r.at \in {"wait_line", "spawn", "wait_then", "wait_kid"} /\ Quietly(Rest(p)) /\ status[p] \in Live
  <2>1. Quietly(proc[p].line)
    BY <1>1, <1>7 DEF Quieter, Live
  <2>2. Quietly(Rest(p)) /\ Token(p) # "&"
    BY <1>4, <2>1, QuietRest
  <2> QED BY <1>1, <2>2 DEF ForkMoves, Live
<1> HIDE DEF q, fin2, by2, k
<1>10. Quieter(status', proc')
  <2>1. Quietly(proc[p].line)
    BY <1>7, <1>9 DEF Quieter
  <2>2. Quietly(r.line) /\ Quietly(c.line)
    <3>1. CASE r.at = "wait_line"
      BY <1>1, <1>5, <1>6, <3>1
    <3>2. CASE r.at \in {"spawn", "wait_then"}
      BY <1>1, <1>9, <3>2
    <3>3. CASE r.at = "wait_kid"
      BY <1>1, <1>c, <2>1, <3>3
    <3> QED BY <1>9, <3>1, <3>2, <3>3
  <2> QED BY <1>5, <1>7, <2>2 DEF Quieter
\* Whoever shares with p or its child afterwards shared with p before.
<1>11. ASSUME NEW y \in Procs, y # p, y # q, status[y] \in Live, proc[y].at \in Reading, Shares(fin[p], fin[y])
       PROVE  proc[p].at = "spawn" /\ proc[y].at = "wait_then" /\ proc[y].right = p
  <2>1. proc[p].at \in Reading /\ proc[p].at \in {"main", "parse", "spawn"}
    BY <1>1 DEF ForkMoves, Reading
  <2>2. Lent(proc, p, y) \/ Lent(proc, y, p)
    BY <1>7, <1>9, <1>11, <2>1 DEF Loans
  <2>3. Lent(proc, y, p)
    BY <2>1, <2>2 DEF Lent
  <2> DEFINE z == proc[y].right
  <2>4. proc[y].at = "wait_then" /\ z \in Procs /\ status[z] # "free"
        /\ proc[z].at \in {"spawn", "wait_kid", "wait_right", "exit", "none"}
    BY <1>7, <1>11, <2>3 DEF Lent, Stages
  <2>5. p = z \/ (proc[z].at = "wait_kid" /\ p = proc[z].kid)
    BY <2>3 DEF Lent
  <2> HIDE DEF z
  <2>6. CASE proc[z].at = "wait_kid" /\ p = proc[z].kid
    <3>1. status[z] \in Live
      <4>1. status[z] # "gone"
        BY <2>4, <2>6 DEF Base, Idle
      <4>2. status[z] \in States
        BY <1>3, <2>4
      <4> QED BY <2>4, <4>1, <4>2 DEF Live, States
    <3>2. proc[p].at \in {"program", "ask", "exit", "none"}
      BY <1>7, <2>4, <2>6, <3>1 DEF Stages
    <3> QED BY <2>1, <3>2
  <2>7. CASE p = z
    BY <2>1, <2>4, <2>7 DEF z
  <2> QED BY <2>5, <2>6, <2>7
<1>12. ASSUME NEW y \in Procs, y # p, y # q, status[y] \in Live, NEW page, Has(fin[y], page)
       PROVE  page.pipe # k + 1
  <2>1. PICK n \in Fds : fin[y][fd(n)] = page
    BY <1>12 DEF Has
  <2>2. Fine(fin[y], k) /\ page # NIL /\ fd(n) \in Slots
    BY <1>a, <1>12, SlotFacts DEF Has, IsPipe
  <2>3. page.pipe <= k /\ k \in Nat
    BY <2>1, <2>2 DEF Fine, Base, Typed, k
  <2>4. page \in Pages
    BY <1>3, <2>1, <2>2 DEF Maps
  <2>5. page.pipe \in Nat
    BY <2>4, ShellAssumption DEF Pages
  <2> QED BY <2>3, <2>5
<1>13. ASSUME NEW x \in Procs, NEW y \in Procs, y # p, y # q, status[y] \in Live, proc[y].at \in Reading,
              x \in {p, q}, proc'[x].at \in Reading, Shares(fin2[x], fin[y])
       PROVE  Lent(proc', y, x)
  <2>1. PICK page : Has(fin2[x], page) /\ Has(fin[y], page)
    BY <1>13 DEF Shares
  <2>2. Has(fin[p], page)
    <3>1. Has(fin[p], page) \/ page.pipe = k + 1
      BY <1>5, <1>8, <1>13, <2>1
    <3> QED BY <1>12, <1>13, <2>1, <3>1
  <2>3. proc[p].at = "spawn" /\ proc[y].at = "wait_then" /\ proc[y].right = p
    BY <1>11, <1>13, <2>1, <2>2 DEF Shares
  <2>4. r.at = "wait_kid" /\ r.kid = q
    BY <1>1, <2>3 DEF ForkMoves
  <2>5. x = q
    BY <1>5, <1>13, <2>4 DEF Reading
  <2> QED BY <1>5, <1>13, <2>3, <2>4, <2>5 DEF Lent
<1>14. ASSUME NEW x \in Procs, NEW y \in Procs, x # y, x \notin {p, q}, y \notin {p, q}, status[x] \in Live, Lent(proc, x, y)
       PROVE  Lent(proc', x, y)
  <2> DEFINE z == proc[x].right
  <2>1. proc[x].at = "wait_then" /\ z \in Procs /\ status[z] # "free" /\ (y = z \/ (proc[z].at = "wait_kid" /\ y = proc[z].kid))
    BY <1>7, <1>14 DEF Lent, Stages
  <2> HIDE DEF z
  <2>2. y # z => z # p
    BY <1>1, <2>1 DEF ForkMoves
  <2>3. z # q
    BY <1>2, <2>1
  <2> QED BY <1>5, <1>14, <2>1, <2>2, <2>3 DEF Lent, z
<1>15. r.at \in Reading /\ Shares(f, fq) => Lent(proc', p, q)
  <2>1. CASE r.at = "wait_line"
    BY <1>6, <1>7, <1>8, <2>1 DEF Shares, Sides
  <2>2. CASE r.at = "spawn"
    BY <1>8, <2>2
  <2>3. CASE r.at = "wait_then"
    BY <1>1, <1>5, <2>3 DEF Lent
  <2>4. CASE r.at = "wait_kid"
    BY <2>4 DEF Reading
  <2> QED BY <1>9, <2>1, <2>2, <2>3, <2>4
<1>16. Loans(status', proc', fin2)
  <2>1. \A g, h : Shares(g, h) => Shares(h, g)
    BY DEF Shares
  <2>2. ASSUME NEW x \in Procs, NEW y \in Procs, x # y, status'[x] \in Live, status'[y] \in Live,
               proc'[x].at \in Reading, proc'[y].at \in Reading, Shares(fin2[x], fin2[y])
        PROVE  Lent(proc', x, y) \/ Lent(proc', y, x)
    <3>1. CASE x \notin {p, q} /\ y \notin {p, q}
      <4>1. status[x] \in Live /\ status[y] \in Live /\ proc[x].at \in Reading /\ proc[y].at \in Reading
            /\ Shares(fin[x], fin[y])
        BY <1>5, <2>2, <3>1
      <4>2. Lent(proc, x, y) \/ Lent(proc, y, x)
        BY <1>7, <2>2, <4>1 DEF Loans
      <4> QED BY <1>14, <2>2, <3>1, <4>1, <4>2
    <3>2. CASE x \in {p, q} /\ y \notin {p, q}
      BY <1>5, <1>13, <2>2, <3>2
    <3>3. CASE x \notin {p, q} /\ y \in {p, q}
      BY <1>5, <1>13, <2>1, <2>2, <3>3
    <3>4. CASE x = p /\ y = q
      BY <1>5, <1>15, <2>2, <3>4
    <3>5. CASE x = q /\ y = p
      BY <1>5, <1>15, <2>1, <2>2, <3>5
    <3> QED BY <2>2, <3>1, <3>2, <3>3, <3>4, <3>5
  <2> QED BY <2>2 DEF Loans
<1>17. Held(map', status', proc', fin2, by2)
  <2>1. ASSUME NEW y \in Procs, status'[y] = "new", NEW page, Has(map'[by2[y]], page)
        PROVE  Has(fin2[y], page) \/ (proc'[by2[y]].at \in Reading /\ Has(fin2[by2[y]], page))
    <3>1. CASE y = q
      BY <1>5, <1>8, <2>1, <3>1
    <3>2. CASE y # q
      <4>1. status[y] = "new" /\ by2[y] = by[y] /\ by[y] # p /\ by[y] # q /\ y # p /\ by[y] \in Procs
        BY <1>2, <1>5, <1>b, <2>1, <3>2
      <4> QED BY <1>5, <1>7, <2>1, <3>2, <4>1 DEF Held
    <3> QED BY <3>1, <3>2
  <2> QED BY <2>1 DEF Held
<1>18. Stages(status', proc', by2)
  <2>1. Stages(status, proc, by)
    BY <1>7
  <2>2. proc[p].at \in {"main", "parse", "spawn"} /\ (proc[p].at = "spawn" => r.at = "wait_kid")
        /\ c.at \in {"parse", "spawn", "program"} /\ (r.at = "wait_kid" => c.at = "program") /\ (r.at = "wait_then" => c.at = "spawn")
    BY <1>1 DEF ForkMoves
  <2>3. ASSUME NEW x \in Procs, status'[x] \in Live, proc'[x].at \in {"program", "ask"} PROVE proc'[x].todo = <<>>
    <3>1. CASE x = p
      BY <1>5, <1>9, <2>3, <3>1
    <3>2. CASE x = q
      BY <1>5, <1>e, <2>3, <2>2, <3>2
    <3>3. CASE x # p /\ x # q
      <4>1. status[x] \in Live /\ proc'[x] = proc[x]
        BY <1>5, <2>3, <3>3
      <4> QED BY <2>1, <2>3, <4>1 DEF Stages
    <3> QED BY <3>1, <3>2, <3>3
  <2>4. ASSUME NEW x \in Procs, status'[x] \in Live, proc'[x].at = "wait_kid"
        PROVE  proc'[x].kid \in Procs /\ status'[proc'[x].kid] # "free"
                 /\ proc'[proc'[x].kid].at \in {"program", "ask", "exit", "none"}
    <3>1. CASE x = p
      BY <1>2, <1>5, <1>e, <2>2, <2>4, <3>1
    <3>2. CASE x = q
      BY <1>5, <2>2, <2>4, <3>2
    <3>3. CASE x # p /\ x # q
      <4> DEFINE z == proc[x].kid
      <4>1. proc'[x].kid = z /\ z \in Procs /\ status[z] # "free" /\ proc[z].at \in {"program", "ask", "exit", "none"}
        <5>1. status[x] \in Live /\ proc'[x] = proc[x]
          BY <1>5, <2>4, <3>3
        <5> QED BY <2>1, <2>4, <5>1 DEF Stages
      <4> HIDE DEF z
      <4>2. z # p /\ z # q
        BY <1>2, <2>2, <4>1
      <4> QED BY <1>5, <4>1, <4>2
    <3> QED BY <3>1, <3>2, <3>3
  <2>5. ASSUME NEW x \in Procs, status'[x] \in Live, proc'[x].at = "wait_then"
        PROVE  proc'[x].right \in Procs /\ status'[proc'[x].right] # "free"
                 /\ proc'[proc'[x].right].at \in {"spawn", "wait_kid", "wait_right", "exit", "none"}
    <3>1. CASE x = p
      BY <1>2, <1>5, <1>e, <2>2, <2>5, <3>1
    <3>2. CASE x = q
      BY <1>5, <2>2, <2>5, <3>2
    <3>3. CASE x # p /\ x # q
      <4> DEFINE z == proc[x].right
      <4>1. proc'[x].right = z /\ z \in Procs /\ status[z] # "free"
            /\ proc[z].at \in {"spawn", "wait_kid", "wait_right", "exit", "none"}
        <5>1. status[x] \in Live /\ proc'[x] = proc[x]
          BY <1>5, <2>5, <3>3
        <5> QED BY <2>1, <2>5, <5>1 DEF Stages
      <4> HIDE DEF z
      <4>2. z # q /\ (z = p => r.at = "wait_kid")
        BY <1>2, <2>2, <4>1
      <4> QED BY <1>5, <4>1, <4>2
    <3> QED BY <3>1, <3>2, <3>3
  <2>6. ASSUME NEW x \in Procs, status'[x] = "new"
        PROVE  /\ proc'[x].at \in {"parse", "spawn", "program"}
               /\ proc'[by2[x]].at = "wait_then" => proc'[by2[x]].right = x
    <3>1. CASE x = q
      BY <1>5, <1>e, <2>2, <3>1
    <3>2. CASE x # q
      <4>1. status[x] = "new" /\ by2[x] = by[x] /\ by[x] # p /\ by[x] # q /\ x # p /\ by[x] \in Procs
        BY <1>2, <1>5, <1>b, <2>6, <3>2
      <4>2. proc'[x] = proc[x] /\ proc'[by2[x]] = proc[by[x]]
        BY <1>5, <3>2, <4>1
      <4> QED BY <2>1, <4>1, <4>2 DEF Stages
    <3> QED BY <3>1, <3>2
  <2> QED BY <2>3, <2>4, <2>5, <2>6 DEF Stages
<1>19. Sides(status', proc', fin2)
  <2>1. ASSUME NEW x \in Procs, status'[x] \in Live, proc'[x].at \in Reading
        PROVE  /\ IsPipe(fin2[x][fd(0)]) => fin2[x][fd(0)].what = "r"
               /\ IsPipe(fin2[x][fd(1)]) => fin2[x][fd(1)].what = "w"
    <3>1. CASE x = p
      BY <1>5, <1>8, <2>1, <3>1
    <3>2. CASE x = q
      BY <1>5, <1>8, <2>1, <3>2
    <3>3. CASE x # p /\ x # q
      BY <1>5, <1>7, <2>1, <3>3 DEF Sides
    <3> QED BY <3>1, <3>2, <3>3
  <2>2. ASSUME NEW page PROVE ~Has(fin2[Root], page)
    <3>1. ~Has(fin[Root], page)
      BY <1>7 DEF Sides
    <3>2. p = Root => f = fin[Root]
      BY <1>6, <1>8 DEF Reading
    <3> QED BY <1>5, <1>6, <3>1, <3>2
  <2> QED BY <2>1, <2>2 DEF Sides
<1> QED BY <1>10, <1>16, <1>17, <1>18, <1>19

\* Who ends has nothing that anybody counts on.
LEMMA KeepExit ==
  ASSUME NEW p \in Procs, NEW fin, NEW by, Base(map, status, proc, Len(used), fin, by), Keeping(map, status, proc, fin, by),
         NEW r, ExitAct(p, r)
  PROVE  Keeping(map', status', proc', fin, by)
<1>1. /\ status[p] = "run" /\ proc[p].todo = <<>> /\ proc[p].at = "exit" /\ r.at = "none"
      /\ map' = [map EXCEPT ![p] = Nothing] /\ status' = [status EXCEPT ![p] = "gone"] /\ proc' = [proc EXCEPT ![p] = r]
  BY DEF ExitAct
<1>2. /\ proc \in [Procs -> ProcRecs] /\ status \in [Procs -> States] /\ map \in [Procs -> Maps] /\ by \in [Procs -> Procs]
  BY DEF Base, Typed
<1>3. /\ \A x \in Procs : x # p => status'[x] = status[x] /\ proc'[x] = proc[x] /\ map'[x] = map[x]
      /\ status'[p] = "gone" /\ proc'[p] = r
  BY <1>1, <1>2
<1>4. Root \in Procs /\ p # Root
  BY <1>1, ShellAssumption DEF Base, Ids, Root, Procs
<1>5. \A y \in Procs : status[y] = "new" => by[y] # p /\ y # p
  BY <1>1, Quiet
<1> SUFFICES ASSUME Quietly(proc[Root].line)
             PROVE  /\ Quieter(status', proc') /\ Loans(status', proc', fin) /\ Held(map', status', proc', fin, by)
                    /\ Stages(status', proc', by) /\ Sides(status', proc', fin)
  BY <1>3, <1>4 DEF Keeping
<1>6. /\ Quieter(status, proc) /\ Loans(status, proc, fin) /\ Held(map, status, proc, fin, by)
      /\ Stages(status, proc, by) /\ Sides(status, proc, fin)
  BY DEF Keeping
<1>7. \A x \in Procs : status'[x] \in Live => x # p /\ status[x] \in Live /\ proc'[x] = proc[x]
  BY <1>3 DEF Live
<1>8. Quieter(status', proc')
  BY <1>6, <1>7 DEF Quieter
<1>9. ASSUME NEW x \in Procs, NEW y \in Procs, x # p, status[x] \in Live, Lent(proc, x, y)
      PROVE  Lent(proc', x, y)
  <2> DEFINE z == proc[x].right
  <2>1. proc[x].at = "wait_then" /\ z \in Procs /\ (y = z \/ (proc[z].at = "wait_kid" /\ y = proc[z].kid))
    BY <1>6, <1>9 DEF Lent, Stages
  <2> HIDE DEF z
  <2>2. y # z => z # p
    BY <1>1, <2>1
  <2> QED BY <1>3, <1>9, <2>1, <2>2 DEF Lent, z
<1>10. Loans(status', proc', fin)
  <2>1. ASSUME NEW x \in Procs, NEW y \in Procs, x # y, status'[x] \in Live, status'[y] \in Live,
               proc'[x].at \in Reading, proc'[y].at \in Reading, Shares(fin[x], fin[y])
        PROVE  Lent(proc', x, y) \/ Lent(proc', y, x)
    <3>1. x # p /\ y # p /\ status[x] \in Live /\ status[y] \in Live /\ proc[x].at \in Reading /\ proc[y].at \in Reading
      BY <1>7, <2>1
    <3>2. Lent(proc, x, y) \/ Lent(proc, y, x)
      BY <1>6, <2>1, <3>1 DEF Loans
    <3> QED BY <1>9, <3>1, <3>2
  <2> QED BY <2>1 DEF Loans
<1>11. Held(map', status', proc', fin, by)
  <2>1. ASSUME NEW y \in Procs, status'[y] = "new"
        PROVE  status[y] = "new" /\ map'[by[y]] = map[by[y]] /\ proc'[by[y]] = proc[by[y]]
    <3>1. status[y] = "new"
      BY <1>3, <2>1
    <3>2. by[y] # p /\ by[y] \in Procs
      BY <1>2, <1>5, <3>1
    <3> QED BY <1>3, <3>1, <3>2
  <2> QED BY <1>6, <2>1 DEF Held
<1>12. Stages(status', proc', by)
  <2>1. Stages(status, proc, by)
    BY <1>6
  <2>2. ASSUME NEW x \in Procs, status'[x] \in Live, proc'[x].at \in {"program", "ask"} PROVE proc'[x].todo = <<>>
    BY <1>7, <2>1, <2>2 DEF Stages
  <2>3. ASSUME NEW x \in Procs, status'[x] \in Live, proc'[x].at = "wait_kid"
        PROVE  proc'[x].kid \in Procs /\ status'[proc'[x].kid] # "free"
                 /\ proc'[proc'[x].kid].at \in {"program", "ask", "exit", "none"}
    <3> DEFINE z == proc[x].kid
    <3>1. proc'[x].kid = z /\ z \in Procs /\ status[z] # "free" /\ proc[z].at \in {"program", "ask", "exit", "none"}
      BY <1>7, <2>1, <2>3 DEF Stages
    <3> HIDE DEF z
    <3> QED BY <1>1, <1>3, <3>1
  <2>4. ASSUME NEW x \in Procs, status'[x] \in Live, proc'[x].at = "wait_then"
        PROVE  proc'[x].right \in Procs /\ status'[proc'[x].right] # "free"
                 /\ proc'[proc'[x].right].at \in {"spawn", "wait_kid", "wait_right", "exit", "none"}
    <3> DEFINE z == proc[x].right
    <3>1. proc'[x].right = z /\ z \in Procs /\ status[z] # "free"
          /\ proc[z].at \in {"spawn", "wait_kid", "wait_right", "exit", "none"}
      BY <1>7, <2>1, <2>4 DEF Stages
    <3> HIDE DEF z
    <3> QED BY <1>1, <1>3, <3>1
  <2>5. ASSUME NEW x \in Procs, status'[x] = "new"
        PROVE  /\ proc'[x].at \in {"parse", "spawn", "program"}
               /\ proc'[by[x]].at = "wait_then" => proc'[by[x]].right = x
    <3>1. status[x] = "new" /\ proc'[x] = proc[x]
      BY <1>3, <2>5
    <3>2. by[x] # p /\ by[x] \in Procs
      BY <1>2, <1>5, <3>1
    <3>3. proc'[by[x]] = proc[by[x]]
      BY <1>3, <3>2
    <3> QED BY <2>1, <3>1, <3>3 DEF Stages
  <2> QED BY <2>2, <2>3, <2>4, <2>5 DEF Stages
<1>13. Sides(status', proc', fin)
  BY <1>6, <1>7 DEF Sides
<1> QED BY <1>8, <1>10, <1>11, <1>12, <1>13

\* A system call moves nobody, and a program makes none.
LEMMA KeepSyscall ==
  ASSUME NEW p \in Procs, NEW fin, NEW by, Base(map, status, proc, Len(used), fin, by), Keeping(map, status, proc, fin, by),
         Syscall(p)
  PROVE  Keeping(map', status', proc', fin, by)
<1>1. PICK t \in Seq(Calls) : proc' = [proc EXCEPT ![p].todo = t]
  BY SyscallStep
<1>2. /\ \A x \in Procs : status'[x] # status[x] => status[x] = "new" /\ status'[x] = "run"
      /\ \A y \in Procs : status'[y] = "new" => map'[by[y]] = map[by[y]]
      /\ status[p] = "run" /\ proc[p].todo # <<>> /\ proc \in [Procs -> ProcRecs] /\ by \in [Procs -> Procs]
  BY SyscallStep DEF Base, Typed, Syscall
<1>3. \A x \in Procs : /\ proc'[x].at = proc[x].at /\ proc'[x].line = proc[x].line
                       /\ proc'[x].right = proc[x].right /\ proc'[x].kid = proc[x].kid
                       /\ x # p => proc'[x].todo = proc[x].todo
  <2>1. proc[p] \in ProcRecs
    BY <1>2
  <2>2. [proc[p] EXCEPT !.todo = t].at = proc[p].at /\ [proc[p] EXCEPT !.todo = t].line = proc[p].line
        /\ [proc[p] EXCEPT !.todo = t].right = proc[p].right /\ [proc[p] EXCEPT !.todo = t].kid = proc[p].kid
    BY <2>1 DEF ProcRecs
  <2> QED BY <1>1, <1>2, <2>2
<1>4. \A x \in Procs : /\ status'[x] \in Live <=> status[x] \in Live
                       /\ status'[x] = "new" => status[x] = "new"
                       /\ status'[x] = "free" <=> status[x] = "free"
  BY <1>2 DEF Live
<1>5. Root \in Procs /\ proc'[Root].line = proc[Root].line
  BY <1>3, ShellAssumption DEF Root, Procs
<1> SUFFICES ASSUME Quietly(proc[Root].line)
             PROVE  /\ Quieter(status', proc') /\ Loans(status', proc', fin) /\ Held(map', status', proc', fin, by)
                    /\ Stages(status', proc', by) /\ Sides(status', proc', fin)
  BY <1>5 DEF Keeping
<1>6. /\ Quieter(status, proc) /\ Loans(status, proc, fin) /\ Held(map, status, proc, fin, by)
      /\ Stages(status, proc, by) /\ Sides(status, proc, fin)
  BY DEF Keeping
<1>7. Quieter(status', proc')
  BY <1>3, <1>4, <1>6 DEF Quieter
<1>8. ASSUME NEW x \in Procs, NEW y \in Procs, status[x] \in Live, Lent(proc, x, y)
      PROVE  Lent(proc', x, y)
  <2>1. proc[x].at = "wait_then" /\ proc[x].right \in Procs
    BY <1>6, <1>8 DEF Lent, Stages
  <2> QED BY <1>3, <1>8, <2>1 DEF Lent
<1>9. Loans(status', proc', fin)
  <2>1. ASSUME NEW x \in Procs, NEW y \in Procs, x # y, status'[x] \in Live, status'[y] \in Live,
               proc'[x].at \in Reading, proc'[y].at \in Reading, Shares(fin[x], fin[y])
        PROVE  Lent(proc', x, y) \/ Lent(proc', y, x)
    <3>1. status[x] \in Live /\ status[y] \in Live /\ proc[x].at \in Reading /\ proc[y].at \in Reading
      BY <1>3, <1>4, <2>1
    <3>2. Lent(proc, x, y) \/ Lent(proc, y, x)
      BY <1>6, <2>1, <3>1 DEF Loans
    <3> QED BY <1>8, <3>1, <3>2
  <2> QED BY <2>1 DEF Loans
<1>10. Held(map', status', proc', fin, by)
  <2>1. ASSUME NEW y \in Procs, status'[y] = "new"
        PROVE  status[y] = "new" /\ map'[by[y]] = map[by[y]] /\ proc'[by[y]].at = proc[by[y]].at
    <3>1. by[y] \in Procs
      BY <1>2
    <3> QED BY <1>2, <1>3, <1>4, <2>1, <3>1
  <2> QED BY <1>6, <2>1 DEF Held
<1>11. Stages(status', proc', by)
  <2>1. Stages(status, proc, by)
    BY <1>6
  <2>2. ASSUME NEW x \in Procs, status'[x] \in Live, proc'[x].at \in {"program", "ask"} PROVE proc'[x].todo = <<>>
    <3>1. status[x] \in Live /\ proc[x].at \in {"program", "ask"}
      BY <1>3, <1>4, <2>2
    <3>2. proc[x].todo = <<>>
      BY <2>1, <3>1 DEF Stages
    <3> QED BY <1>2, <1>3, <3>2
  <2>3. ASSUME NEW x \in Procs, status'[x] \in Live, proc'[x].at = "wait_kid"
        PROVE  proc'[x].kid \in Procs /\ status'[proc'[x].kid] # "free"
                 /\ proc'[proc'[x].kid].at \in {"program", "ask", "exit", "none"}
    <3> DEFINE z == proc[x].kid
    <3>1. status[x] \in Live /\ proc[x].at = "wait_kid" /\ proc'[x].kid = z
      BY <1>3, <1>4, <2>3
    <3>2. z \in Procs /\ status[z] # "free" /\ proc[z].at \in {"program", "ask", "exit", "none"}
      BY <2>1, <3>1 DEF Stages
    <3> HIDE DEF z
    <3> QED BY <1>3, <1>4, <3>1, <3>2
  <2>4. ASSUME NEW x \in Procs, status'[x] \in Live, proc'[x].at = "wait_then"
        PROVE  proc'[x].right \in Procs /\ status'[proc'[x].right] # "free"
                 /\ proc'[proc'[x].right].at \in {"spawn", "wait_kid", "wait_right", "exit", "none"}
    <3> DEFINE z == proc[x].right
    <3>1. status[x] \in Live /\ proc[x].at = "wait_then" /\ proc'[x].right = z
      BY <1>3, <1>4, <2>4
    <3>2. z \in Procs /\ status[z] # "free" /\ proc[z].at \in {"spawn", "wait_kid", "wait_right", "exit", "none"}
      BY <2>1, <3>1 DEF Stages
    <3> HIDE DEF z
    <3> QED BY <1>3, <1>4, <3>1, <3>2
  <2>5. ASSUME NEW x \in Procs, status'[x] = "new"
        PROVE  /\ proc'[x].at \in {"parse", "spawn", "program"}
               /\ proc'[by[x]].at = "wait_then" => proc'[by[x]].right = x
    <3>1. status[x] = "new" /\ by[x] \in Procs
      BY <1>2, <1>4, <2>5
    <3>2. /\ proc[x].at \in {"parse", "spawn", "program"}
          /\ proc[by[x]].at = "wait_then" => proc[by[x]].right = x
      BY <2>1, <3>1 DEF Stages
    <3> QED BY <1>3, <3>1, <3>2
  <2> QED BY <2>2, <2>3, <2>4, <2>5 DEF Stages
<1>12. Sides(status', proc', fin)
  <2>1. ASSUME NEW x \in Procs, status'[x] \in Live, proc'[x].at \in Reading
        PROVE  status[x] \in Live /\ proc[x].at \in Reading
    BY <1>3, <1>4, <2>1
  <2> QED BY <1>6, <2>1 DEF Sides
<1> QED BY <1>7, <1>9, <1>10, <1>11, <1>12

IInvKeep == \E fin, by : Core(fin, by) /\ Keeping(map, status, proc, fin, by)

\* At the prompt nobody has an end of a pipe.
LEMMA KeepInit ==
  ASSUME Init, NEW by
  PROVE  Keeping(map, status, proc, map, by)
<1>1. \A p \in Procs : /\ status[p] = (IF p = Root THEN "run" ELSE "free")
                       /\ proc[p].line = <<>> /\ proc[p].at = (IF p = Root THEN "main" ELSE "none")
  BY DEF Init, Fresh
<1>2. Quietly(<<>>)
  <2>1. Len(<<>>) = 0
    OBVIOUS
  <2> QED BY <2>1 DEF Quietly
<1>3. Root \in Procs
  BY ShellAssumption DEF Root, Procs
<1>4. \A s \in Slots : ~IsPipe(map[Root][s])
  <2>1. ~IsPipe(Page(0, "cons")) /\ ~IsPipe(Page(0, "file")) /\ ~IsPipe(NIL)
    BY DEF IsPipe, Page, Ends
  <2>2. \A s \in Slots : map[Root][s] \in {Page(0, "cons"), Page(0, "file"), NIL}
    BY <1>3 DEF Init
  <2> QED BY <2>1, <2>2
<1>5. Quieter(status, proc)
  BY <1>1, <1>2 DEF Quieter
<1>6. Loans(status, proc, map)
  BY <1>1 DEF Loans, Live
<1>7. Held(map, status, proc, map, by)
  BY <1>1 DEF Held
<1>8. Stages(status, proc, by)
  BY <1>1 DEF Stages, Live
<1>9. Sides(status, proc, map)
  <2>1. ASSUME NEW p \in Procs, status[p] \in Live PROVE p = Root
    BY <1>1, <2>1 DEF Live
  <2>2. fd(0) \in Slots /\ fd(1) \in Slots /\ \A n \in Fds : fd(n) \in Slots
    BY SlotFacts
  <2>3. \A page : ~Has(map[Root], page)
    BY <1>4, <2>2 DEF Has
  <2>4. ~IsPipe(map[Root][fd(0)]) /\ ~IsPipe(map[Root][fd(1)])
    BY <1>4, <2>2
  <2> QED BY <2>1, <2>3, <2>4 DEF Sides
<1> QED BY <1>5, <1>6, <1>7, <1>8, <1>9 DEF Keeping

\* Every step keeps who has which end, and will have it.
LEMMA KeepNext ==
  ASSUME NEW fin, NEW by, Core(fin, by), Keeping(map, status, proc, fin, by), Next
  PROVE  IInvKeep'
<1>1. Base(map, status, proc, Len(used), fin, by) /\ used' \in Seq(0 .. BY2PIPE)
  BY StepIs DEF Core
<1>2. PICK p \in Procs : \/ Syscall(p)
                         \/ \E r, m, f : LocalAct(p, fin, r, m, f)
                         \/ \E r, c, o, m, f, fq : ForkAct(p, r, c, o, m, f, fq)
                         \/ \E r : ExitAct(p, r)
  BY StepIs
<1>3. \E f2, b2 : Base(map', status', proc', Len(used'), f2, b2) /\ Keeping(map', status', proc', f2, b2)
  <2>1. CASE Syscall(p)
    <3>1. Base(map', status', proc', Len(used'), fin, by)
      BY <1>1, <2>1, SyscallStep
    <3>2. Keeping(map', status', proc', fin, by)
      BY <1>1, <2>1, KeepSyscall
    <3> QED BY <3>1, <3>2
  <2>2. CASE \E r, m, f : LocalAct(p, fin, r, m, f)
    <3>1. PICK r, m, f : LocalAct(p, fin, r, m, f)
      BY <2>2
    <3>2. Base(map', status', proc', Len(used'), [fin EXCEPT ![p] = f], by)
      BY <1>1, <3>1, LocalBase
    <3>3. Keeping(map', status', proc', [fin EXCEPT ![p] = f], by)
      BY <1>1, <3>1, KeepLocal
    <3> QED BY <3>2, <3>3
  <2>3. CASE \E r, c, o, m, f, fq : ForkAct(p, r, c, o, m, f, fq)
    <3>1. PICK r, c, o, m, f, fq : ForkAct(p, r, c, o, m, f, fq)
      BY <2>3
    <3> DEFINE fin2 == [fin EXCEPT ![p] = f, ![NextId] = fq]
               by2  == [by EXCEPT ![NextId] = p]
    <3>2. Base(map', status', proc', Len(used'), fin2, by2)
      BY <1>1, <3>1, ForkBase
    <3>3. Keeping(map', status', proc', fin2, by2)
      BY <1>1, <3>1, KeepFork
    <3> HIDE DEF fin2, by2
    <3> QED BY <3>2, <3>3
  <2>4. CASE \E r : ExitAct(p, r)
    <3>1. Base(map', status', proc', Len(used'), fin, by)
      BY <1>1, <2>4, ExitBase
    <3>2. Keeping(map', status', proc', fin, by)
      BY <1>1, <2>4, KeepExit
    <3> QED BY <3>1, <3>2
  <2> QED BY <1>2, <2>1, <2>2, <2>3, <2>4
<1> QED BY <1>1, <1>3 DEF IInvKeep, Core

\* Different descriptors have their buffers in different slots.
LEMMA SameBehind ==
  ASSUME NEW a \in Slots, NEW b \in Slots, MAXFD + a = MAXFD + b
  PROVE  a = b
BY ShellAssumption DEF Slots

\* Sets between which a one-to-one function is onto because they have equally many
\* elements: the ends of a pipe and its buffers.
LEMMA OntoBuffers ==
  ASSUME NEW page, NEW buf, Refs(page) = Refs(buf),
         \A x \in Procs : \A s \in Slots : map[x][s] = page => \E n \in Fds : s = fd(n) /\ map[x][data(n)] = buf,
         NEW x \in Procs, NEW n \in Fds, map[x][data(n)] = buf
  PROVE  map[x][fd(n)] = page
<1> DEFINE A == {y \in Procs \X Slots : map[y[1]][y[2]] = page}
           B == {y \in Procs \X Slots : map[y[1]][y[2]] = buf}
           g == [y \in A |-> <<y[1], MAXFD + y[2]>>]
<1>1. IsFiniteSet(Procs \X Slots)
  <2>1. IsFiniteSet(Procs) /\ IsFiniteSet(Slots)
    BY FS_Interval, ShellAssumption DEF Procs, Slots
  <2> QED BY <2>1, FS_Product
<1>2. IsFiniteSet(A) /\ IsFiniteSet(B)
  BY <1>1, FS_Subset
<1>3. \A k \in Fds : fd(k) = k /\ data(k) = MAXFD + k /\ data(k) \in Slots /\ k \in Nat /\ k \in Slots
  BY SlotFacts
<1>4. ASSUME NEW y \in A PROVE g[y] \in B
  <2>1. y[1] \in Procs /\ y[2] \in Slots /\ map[y[1]][y[2]] = page
    OBVIOUS
  <2>2. PICK k \in Fds : y[2] = fd(k) /\ map[y[1]][data(k)] = buf
    BY <2>1
  <2>3. g[y] = <<y[1], data(k)>>
    BY <1>3, <2>2
  <2> QED BY <1>3, <2>1, <2>2, <2>3
<1>5. ASSUME NEW y \in A, NEW z \in A, g[y] = g[z] PROVE y = z
  <2>1. y \in Procs \X Slots /\ z \in Procs \X Slots /\ y = <<y[1], y[2]>> /\ z = <<z[1], z[2]>>
    OBVIOUS
  <2>2. y[1] = z[1] /\ MAXFD + y[2] = MAXFD + z[2]
    BY <1>5
  <2>3. y[2] \in Slots /\ z[2] \in Slots
    BY <2>1
  <2>4. y[2] = z[2]
    BY <2>2, <2>3, SameBehind
  <2> QED BY <2>1, <2>2, <2>4
<1>6. g \in Injection(A, B)
  BY <1>4, <1>5 DEF Injection, IsInjective
<1>7. g \in Surjection(A, B)
  <2>1. Cardinality(A) = Cardinality(B)
    BY DEF Refs
  <2> HIDE DEF g, A, B
  <2> QED BY <1>2, <1>6, <2>1, FS_Injection
<1>8. <<x, data(n)>> \in B
  BY <1>3
<1>9. PICK y \in A : g[y] = <<x, data(n)>>
  <2> HIDE DEF g, A, B
  <2> QED BY <1>7, <1>8 DEF Surjection
<1>10. y[1] = x /\ MAXFD + y[2] = MAXFD + n /\ y[2] \in Slots /\ map[y[1]][y[2]] = page
  BY <1>3, <1>9
<1>11. y[2] = n
  <2>1. n \in Slots
    BY <1>3
  <2> QED BY <1>10, <2>1, SameBehind
<1> QED BY <1>3, <1>10, <1>11

\* An end of a pipe that anybody has somebody has who runs: a child that does not run
\* yet has it from its parent, in the same slot.
LEMMA HeldByRunning ==
  ASSUME NEW fin, NEW by, Base(map, status, proc, Len(used), fin, by),
         NEW x \in Procs, NEW s \in Slots, NEW page, IsPipe(page), map[x][s] = page
  PROVE  \/ status[x] = "run"
         \/ status[x] = "new" /\ by[x] \in Procs /\ status[by[x]] = "run" /\ map[by[x]][s] = page
<1>1. page # NIL
  BY DEF IsPipe
<1>2. status[x] \in States
  BY DEF Base, Typed
<1>3. status[x] \notin {"free", "gone"}
  BY <1>1 DEF Base, Idle, Nothing
<1>4. CASE status[x] = "new"
  <2>1. by[x] \in Procs /\ status[by[x]] = "run" /\ LendsTo(map, proc, Len(used), fin, by[x], x)
    BY <1>4, OneHeir
  <2>2. map[x][s] = map[by[x]][s] \/ map[x][s] = NIL
    BY <2>1 DEF LendsTo, Lends, Gives
  <2> QED BY <1>1, <1>4, <2>1, <2>2
<1> QED BY <1>2, <1>3, <1>4 DEF States

\* While a program has an end of a pipe, nobody is giving that end to a child.
LEMMA NoHeirs ==
  ASSUME NEW fin, NEW by, Base(map, status, proc, Len(used), fin, by), Keeping(map, status, proc, fin, by),
         Quietly(proc[Root].line),
         NEW p \in Procs, status[p] = "run", proc[p].at \in {"program", "ask"}, NEW page, Has(map[p], page),
         NEW y \in Procs, status[y] = "new"
  PROVE  ~Has(map[by[y]], page)
<1> DEFINE z == by[y]
<1> SUFFICES ASSUME Has(map[z], page) PROVE FALSE
  OBVIOUS
<1>1. Loans(status, proc, fin) /\ Held(map, status, proc, fin, by) /\ Stages(status, proc, by)
  BY DEF Keeping
<1>2. proc[p].todo = <<>> /\ map[p] = fin[p]
  <2>1. proc[p].todo = <<>>
    BY <1>1 DEF Stages, Live
  <2> QED BY <2>1, Quiet
<1>3. z \in Procs /\ status[z] = "run" /\ proc[z].todo # <<>>
  BY OneHeir
<1>4. proc[y].at \in {"parse", "spawn", "program"} /\ (proc[z].at = "wait_then" => proc[z].right = y)
  BY <1>1 DEF Stages
<1>5. Has(fin[y], page) \/ (proc[z].at \in Reading /\ Has(fin[z], page))
  BY <1>1 DEF Held
<1> HIDE DEF z
<1>6. CASE Has(fin[y], page)
  <2>1. Shares(fin[p], fin[y]) /\ p # y
    BY <1>2, <1>6 DEF Shares
  <2>2. Lent(proc, p, y) \/ Lent(proc, y, p)
    BY <1>1, <1>4, <2>1 DEF Loans, Live, Reading
  <2> QED BY <1>4, <2>2 DEF Lent
<1>7. CASE proc[z].at \in Reading /\ Has(fin[z], page)
  <2>1. Shares(fin[p], fin[z]) /\ p # z
    BY <1>2, <1>3, <1>7 DEF Shares
  <2>2. Lent(proc, p, z) \/ Lent(proc, z, p)
    BY <1>1, <1>3, <1>7, <2>1 DEF Loans, Live, Reading
  <2>3. Lent(proc, z, p) /\ proc[z].at = "wait_then"
    BY <2>2 DEF Lent
  <2>4. p = y \/ proc[y].at = "wait_kid"
    BY <1>4, <2>3 DEF Lent
  <2> QED BY <1>4, <2>4
<1> QED BY <1>5, <1>6, <1>7

\* When the ends of one side are as many as the buffers, there is none of the other.
LEMMA KeepClosed ==
  ASSUME NEW fin, NEW by, Core(fin, by), Keeping(map, status, proc, fin, by), Quietly(proc[Root].line)
  PROVE  ClosedIsTrue
<1>1. Base(map, status, proc, Len(used), fin, by)
  BY DEF Core
<1> SUFFICES ASSUME NEW p \in Procs, NEW n \in {0, 1}, status[p] = "run", proc[p].at \in {"program", "ask"},
                    IsPipe(map[p][fd(n)]), Closed(p, n)
             PROVE  Refs(Page(Pipe(p, n), Other(map[p][fd(n)].what))) = 0
  BY DEF ClosedIsTrue
<1> DEFINE E == map[p][fd(n)]
           D == Page(E.pipe, "buf")
           O == Page(E.pipe, Other(E.what))
<1>2. n \in Fds /\ IsPipe(E) /\ E.what \in Ends
  BY SlotFacts DEF IsPipe
<1>3. map[p][data(n)] = D
  <2>1. Fine(map[p], Len(used))
    BY <1>1, AllFine
  <2> QED BY <1>2, <2>1 DEF Fine
<1>4. Has(map[p], E)
  BY <1>2 DEF Has
<1>5. O.pipe = E.pipe /\ O.what = Other(E.what) /\ O.what \in Ends /\ O.what # E.what
  BY <1>2 DEF Page, Other, Ends
<1>6. IsPipe(O)
  <2>1. E \in Pages
    <3>1. map[p] \in Maps
      BY <1>1 DEF Base, Typed
    <3>2. fd(n) \in Slots /\ E # NIL
      BY <1>2, SlotFacts DEF IsPipe
    <3> QED BY <3>1, <3>2 DEF Maps
  <2>2. O \in Pages
    BY <1>5, <2>1 DEF Pages, Page
  <2>3. O # NIL
    BY <2>2, NilAssumption
  <2> QED BY <1>5, <2>3 DEF IsPipe
<1>7. Refs(E) = Refs(D)
  BY <1>3 DEF Closed
<1> HIDE DEF E, D, O
<1>8. ASSUME NEW x \in Procs, NEW s \in Slots, map[x][s] = E
      PROVE  \E i \in Fds : s = fd(i) /\ map[x][data(i)] = D
  <2>1. status[x] = "run"
    <3>1. CASE status[x] = "new" /\ by[x] \in Procs /\ status[by[x]] = "run" /\ map[by[x]][s] = E
      <4>1. Fine(map[by[x]], Len(used))
        BY <1>1, <3>1, AllFine
      <4>2. \E i \in Fds : s = fd(i)
        BY <1>2, <3>1, <4>1, EndsAreDescriptors
      <4>3. Has(map[by[x]], E)
        BY <1>2, <3>1, <4>2 DEF Has
      <4> QED BY <1>1, <1>4, <3>1, <4>3, NoHeirs
    <3> QED BY <1>1, <1>2, <1>8, <3>1, HeldByRunning
  <2>2. Fine(map[x], Len(used))
    BY <1>1, <2>1, AllFine
  <2>3. \E i \in Fds : s = fd(i) /\ map[x][data(i)] = Page(E.pipe, "buf")
    BY <1>2, <1>8, <2>2, EndsAreDescriptors
  <2> QED BY <2>3 DEF D
<1>9. ASSUME NEW x \in Procs, NEW i \in Fds, map[x][data(i)] = D PROVE map[x][fd(i)] = E
  <2>1. \A y \in Procs : \A s \in Slots : map[y][s] = E => \E j \in Fds : s = fd(j) /\ map[y][data(j)] = D
    BY <1>8
  <2> QED BY <1>7, <1>9, <2>1, OntoBuffers
<1>10. ASSUME NEW x \in Procs, NEW s \in Slots, map[x][s] = O PROVE FALSE
  <2>1. PICK w \in Procs : status[w] = "run" /\ map[w][s] = O
    BY <1>1, <1>6, <1>10, HeldByRunning
  <2>2. Fine(map[w], Len(used))
    BY <1>1, <2>1, AllFine
  <2>3. PICK i \in Fds : s = fd(i) /\ map[w][data(i)] = Page(O.pipe, "buf")
    BY <1>6, <2>1, <2>2, EndsAreDescriptors
  <2>4. map[w][data(i)] = D
    BY <1>5, <2>3 DEF D
  <2>5. map[w][fd(i)] = E
    BY <1>9, <2>4
  <2> QED BY <1>5, <2>1, <2>3, <2>5
<1>11. {x \in Procs \X Slots : map[x[1]][x[2]] = O} = {}
  BY <1>10
<1>12. Refs(O) = 0
  BY <1>11, FS_EmptySet DEF Refs
<1> QED BY <1>12 DEF O, E, Pipe

\* While no line has a '&', a program is told that its pipe is closed only when nobody
\* has the other end any more (_pipe_is_closed, user/lib/pipe.c:89).
THEOREM ClosedSafe == Spec => [](~Contains(proc[Root].line, "&") => ClosedIsTrue)
<1>1. Init => IInvKeep
  <2>1. ASSUME Init, NEW by, Core(map, by) PROVE IInvKeep
    BY <2>1, KeepInit DEF IInvKeep
  <2> QED BY <2>1, BaseInit
<1>2. IInvKeep /\ [Next]_vars => IInvKeep'
  <2>1. ASSUME Next, NEW fin, NEW by, Core(fin, by), Keeping(map, status, proc, fin, by) PROVE IInvKeep'
    BY <2>1, KeepNext
  <2>2. ASSUME UNCHANGED vars, NEW fin, NEW by, Core(fin, by), Keeping(map, status, proc, fin, by) PROVE IInvKeep'
    <3>1. map' = map /\ status' = status /\ proc' = proc /\ used' = used
      BY <2>2 DEF vars
    <3>2. Core(fin, by)' /\ Keeping(map', status', proc', fin, by)
      BY <2>2, <3>1 DEF Core
    <3> QED BY <3>2 DEF IInvKeep
  <2> QED BY <2>1, <2>2 DEF IInvKeep
<1>3. IInvKeep => (~Contains(proc[Root].line, "&") => ClosedIsTrue)
  <2>1. ASSUME ~Contains(proc[Root].line, "&"), NEW fin, NEW by, Core(fin, by), Keeping(map, status, proc, fin, by)
        PROVE  ClosedIsTrue
    <3>1. Quietly(proc[Root].line)
      BY <2>1 DEF Contains, Quietly
    <3> QED BY <2>1, <3>1, KeepClosed
  <2> QED BY <2>1 DEF IInvKeep
<1> QED BY <1>1, <1>2, <1>3, PTL DEF Spec
=============================================================================
