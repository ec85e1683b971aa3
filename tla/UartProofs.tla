------------------------------ MODULE UartProofs ------------------------------
(***************************************************************************)
(* Three theorems about the console driver (ns16550a.c), each for any      *)
(* number of processes and any ring sizes that divide the range of their   *)
(* counters.  The rings lose, repeat and reorder no character on a machine *)
(* whose keys fit into the receive ring: RingInv is inductive and implies  *)
(* BuffersInv.  console.lock keeps the characters of a message together on *)
(* any machine: MessageInv is inductive and implies MessagesWhole.  No     *)
(* wakeup is lost on one hart: SleepInv is inductive and implies           *)
(* NoSleeperForgotten.                                                     *)
(***************************************************************************)
EXTENDS Uart, PowerLemmas

\* Steps without arithmetic go to Zenon; the others name SMT.
USE ZenonT(30)

-----------------------------------------------------------------------------
(* Counters and slots *)

\* Counting the characters of a message.
LEMMA Successor ==
    ASSUME NEW m \in Nat \ {0}, NEW k \in 0..m, k < m
    PROVE  k + 1 \in 1..m
  BY SMT

\* a is a tuple of n elements.
Tuple(a, n) == a = [i \in 1..n |-> a[i]]

\* A tuple that agrees with b up to its length and has c after it.
LEMMA OneLonger ==
    ASSUME NEW u \in Nat, NEW a, NEW b, NEW c,
           Tuple(a, u + 1), Tuple(b, u), \A i \in 1..u : a[i] = b[i], a[u + 1] = c
    PROVE  a = Append(b, c)
  <1>1. Append(b, c) = [i \in 1..(u + 1) |-> IF i = u + 1 THEN c ELSE b[i]]
    BY SMT DEF Tuple
  <1>2. ASSUME NEW i \in 1..(u + 1) PROVE a[i] = IF i = u + 1 THEN c ELSE b[i]
    BY SMT
  <1>3. a = [i \in 1..(u + 1) |-> IF i = u + 1 THEN c ELSE b[i]]
    BY <1>2 DEF Tuple
  <1> QED
    BY <1>1, <1>3

\* Division with remainder.
LEMMA DivRem ==
    ASSUME NEW n \in Nat \ {0}, NEW a \in Nat
    PROVE  a = n * (a \div n) + (a % n) /\ a % n \in 0..(n - 1) /\ a \div n \in Nat
  BY SMT

\* The remainder is the part below the divisor.
LEMMA Remainder ==
    ASSUME NEW n \in Nat \ {0}, NEW c \in Nat, NEW d \in 0..(n - 1)
    PROVE  (n * c + d) % n = d
  BY SMT

\* No multiple of n lies strictly between 0 and n.
LEMMA NoMultiple ==
    ASSUME NEW n \in Nat \ {0}, NEW d \in Int, 0 < n * d, n * d < n
    PROVE  FALSE
  BY SMT

\* Positions less than n apart are in different slots.
LEMMA Apart ==
    ASSUME NEW n \in Nat \ {0}, NEW a \in Nat, NEW b \in Nat, a < b, b < a + n
    PROVE  a % n # b % n
  <1> DEFINE p == a \div n
             q == b \div n
  <1>1. SUFFICES ASSUME a % n = b % n PROVE FALSE
    OBVIOUS
  <1>2. p \in Nat /\ q \in Nat /\ a = n * p + (a % n) /\ b = n * q + (b % n)
    BY DivRem
  <1>3. a % n \in Int
    BY SMT, DivRem
  <1> HIDE DEF p, q
  <1>4. n * (q - p) = n * q - n * p
    BY SMT, <1>2
  <1>5. 0 < n * (q - p) /\ n * (q - p) < n
    BY SMT, <1>1, <1>2, <1>3, <1>4
  <1> QED
    BY SMT, <1>2, <1>5, NoMultiple

\* Adding a multiple of n does not change the slot.
LEMMA Wrap ==
    ASSUME NEW n \in Nat \ {0}, NEW M \in Nat \ {0}, M % n = 0, NEW a \in Nat
    PROVE  (a + M) % n = a % n
  <1> DEFINE k == M \div n
             p == a \div n
             d == a % n
  <1>1. k \in Nat /\ M = n * k /\ p \in Nat /\ a = n * p + d /\ d \in 0..(n - 1)
    BY SMT, DivRem
  <1> HIDE DEF k, p, d
  <1>2. n * (p + k) = n * p + n * k
    BY SMT, <1>1
  <1>3. a + M = n * (p + k) + d /\ p + k \in Nat
    BY SMT, <1>1, <1>2
  <1>4. (n * (p + k) + d) % n = d
    BY <1>1, <1>3, Remainder
  <1> QED
    BY <1>3, <1>4 DEF d

\* What a ring of n slots needs: the counters wrap at a multiple of n.
Sized(n) == n \in Nat \ {0} /\ CounterMod \in Nat /\ CounterMod % n = 0 /\ n < CounterMod

\* A counter below twice its modulus wraps at most once.
LEMMA Fold ==
    ASSUME NEW M \in Nat \ {0}, NEW x \in 0..(2 * M - 1)
    PROVE  x % M = IF x < M THEN x ELSE x - M
  BY SMT

\* tail - head, as the unsigned counters of ns16550a.c compute it.
LEMMA UsedCases ==
    ASSUME NEW n, Sized(n), NEW C, NEW r \in Ring(n, C)
    PROVE  /\ Used(r) \in 0..(CounterMod - 1)
           /\ Used(r) = IF r.tail >= r.head THEN r.tail - r.head
                        ELSE r.tail - r.head + CounterMod
  <1> DEFINE x == r.tail - r.head + CounterMod
  <1>1. CounterMod \in Nat \ {0}
    BY SMT DEF Sized
  <1>2. r.head \in 0..(CounterMod - 1) /\ r.tail \in 0..(CounterMod - 1)
    BY DEF Ring
  <1>3. x \in 0..(2 * CounterMod - 1)
    BY SMT, <1>1, <1>2
  <1>4. Used(r) = IF x < CounterMod THEN x ELSE x - CounterMod
    BY <1>1, <1>3, Fold DEF Used
  <1> QED
    BY SMT, <1>1, <1>2, <1>4

\* The slot a counter refers to does not change when the counter wraps.
LEMMA SlotWraps ==
    ASSUME NEW n, Sized(n), NEW x \in 0..(2 * CounterMod - 1), NEW j \in Nat
    PROVE  ((x % CounterMod) + j) % n = (x + j) % n
  <1>1. CounterMod \in Nat \ {0} /\ n \in Nat \ {0} /\ CounterMod % n = 0
    BY SMT DEF Sized
  <1> DEFINE y == x % CounterMod
  <1>2. y = IF x < CounterMod THEN x ELSE x - CounterMod
    BY <1>1, Fold
  <1> HIDE DEF y
  <1>3. y + j \in Nat /\ (x + j = y + j \/ x + j = (y + j) + CounterMod)
    BY SMT, <1>1, <1>2
  <1>4. ((y + j) + CounterMod) % n = (y + j) % n
    BY <1>1, <1>3, Wrap
  <1>5. (y + j) % n = (x + j) % n
    BY <1>3, <1>4
  <1> QED
    BY <1>5 DEF y

\* Storing at the tail of a ring that is not full appends to its content
\* (putc_async, and the receive half of the interrupt handler).
LEMMA PushContent ==
    ASSUME NEW n, Sized(n), NEW C, NEW r \in Ring(n, C), NEW c \in C, Used(r) < n
    PROVE  /\ Push(r, n, c) \in Ring(n, C) /\ Used(Push(r, n, c)) = Used(r) + 1
           /\ Content(Push(r, n, c), n) = Append(Content(r, n), c)
  <1> DEFINE s == Push(r, n, c)
             u == Used(r)
             h == r.head
             t == r.tail
             k == t % n
             x == t + 1
  <1>1. CounterMod \in Nat \ {0} /\ n \in Nat \ {0} /\ n < CounterMod
    BY SMT DEF Sized
  <1>2. h \in 0..(CounterMod - 1) /\ t \in 0..(CounterMod - 1)
    BY DEF Ring
  <1>3. u \in 0..(n - 1) /\ (u = IF t >= h THEN t - h ELSE t - h + CounterMod)
    BY SMT, <1>1, UsedCases
  <1>4. k \in 0..(n - 1)
    BY SMT, <1>1, <1>2
  <1>5. /\ s = [slots |-> [r.slots EXCEPT ![k] = c], head |-> h, tail |-> x % CounterMod]
        /\ r.slots \in [0..(n - 1) -> C \cup {NULL}]
    BY DEF Ring, Push
  <1>6. x = t + 1 /\ x \in 0..(2 * CounterMod - 1)
    BY SMT, <1>1, <1>2
  <1> HIDE DEF x
  <1>7. x % CounterMod = IF x < CounterMod THEN x ELSE x - CounterMod
    BY <1>1, <1>6, Fold
  <1> HIDE DEF k
  <1>8. s \in Ring(n, C)
    <2>1. x % CounterMod \in 0..(CounterMod - 1)
      BY SMT, <1>1, <1>2, <1>6, <1>7
    <2>2. [r.slots EXCEPT ![k] = c] \in [0..(n - 1) -> C \cup {NULL}]
      BY <1>4, <1>5
    <2> QED
      BY SMT, <1>2, <1>5, <2>1, <2>2 DEF Ring
  <1>9. Used(s) = u + 1
    <2>1. Used(s) = IF s.tail >= s.head THEN s.tail - s.head
                    ELSE s.tail - s.head + CounterMod
      BY <1>8, UsedCases
    <2>2. s.head = h /\ s.tail = x % CounterMod
      BY SMT, <1>5
    <2> QED
      BY SMT, <1>1, <1>2, <1>3, <1>6, <1>7, <2>1, <2>2
  <1>10. /\ k = (h + u) % n
        /\ \A j \in 1..u : (h + j - 1) % n \in 0..(n - 1) /\ (h + j - 1) % n # k
    <2>1. k = (h + u) % n
      <3> DEFINE y == h + u
      <3>1. y \in 0..(2 * CounterMod - 1) /\ y \in Nat
        BY SMT, <1>1, <1>2, <1>3
      <3>2. t = IF y < CounterMod THEN y ELSE y - CounterMod
        BY SMT, <1>1, <1>2, <1>3
      <3> HIDE DEF y
      <3>3. t = y % CounterMod
        BY <1>1, <3>1, <3>2, Fold
      <3>4. ((y % CounterMod) + 0) % n = (y + 0) % n
        BY <3>1, SlotWraps
      <3>5. t \in Int /\ y \in Int
        BY SMT, <1>2, <3>1
      <3>6. t + 0 = t /\ y + 0 = y
        BY SMT, <3>5
      <3> QED
        BY <3>3, <3>4, <3>6 DEF k, y
    <2>2. ASSUME NEW j \in 1..u PROVE (h + j - 1) % n # (h + u) % n
      <3> DEFINE a == h + j - 1
                 b == h + u
      <3>1. a \in Nat /\ b \in Nat /\ a < b /\ b < a + n
        BY SMT, <1>1, <1>2, <1>3
      <3> HIDE DEF a, b
      <3>2. a % n # b % n
        BY <1>1, <3>1, Apart
      <3> QED
        BY <3>2 DEF a, b
    <2>3. ASSUME NEW j \in 1..u PROVE (h + j - 1) % n \in 0..(n - 1)
      BY SMTT(30), <1>1, <1>2
    <2> QED
      BY <2>1, <2>2, <2>3
  <1>11. Content(s, n) = Append(Content(r, n), c)
    <2>1. Content(s, n) = [i \in 1..(u + 1) |-> s.slots[(h + i - 1) % n]]
      BY SMT, <1>5, <1>9 DEF Content
    <2>2. Content(r, n) = [i \in 1..u |-> r.slots[(h + i - 1) % n]]
      BY DEF Content
    <2>3. \A j \in 1..u : s.slots[(h + j - 1) % n] = r.slots[(h + j - 1) % n]
      BY SMT, <1>4, <1>5, <1>10
    <2>4. s.slots[(h + (u + 1) - 1) % n] = c
      <3>1. h + (u + 1) - 1 = h + u
        BY SMT, <1>2, <1>3
      <3>2. s.slots = [r.slots EXCEPT ![k] = c]
        BY SMT, <1>5
      <3>3. k \in DOMAIN r.slots
        BY <1>4, <1>5
      <3>4. s.slots[k] = c
        BY <3>2, <3>3
      <3> QED
        BY <1>10, <3>1, <3>4
    <2> DEFINE a == Content(s, n)
               b == Content(r, n)
    <2>5. u \in Nat
      BY SMT, <1>3
    <2>6. u + 1 \in 1..(u + 1) /\ \A i \in 1..u : i \in 1..(u + 1)
      BY SMT, <1>3
    <2>7. Tuple(a, u + 1) /\ Tuple(b, u)
      BY <2>1, <2>2 DEF Tuple
    <2>8. (\A i \in 1..u : a[i] = b[i]) /\ a[u + 1] = c
      BY <2>1, <2>2, <2>3, <2>4, <2>6
    <2> HIDE DEF a, b, u
    <2>9. a = Append(b, c)
      BY SMT, <2>5, <2>7, <2>8, OneLonger
    <2> QED
      BY <2>9 DEF a, b
  <1> QED
    BY <1>8, <1>9, <1>11

\* Advancing the head by k drops the first k characters of the content (the
\* loop of flush, and readc for k = 1).
LEMMA PopContent ==
    ASSUME NEW n, Sized(n), NEW C, NEW r \in Ring(n, C), NEW k \in 0..Used(r)
    PROVE  /\ Pop(r, k) \in Ring(n, C) /\ Used(Pop(r, k)) = Used(r) - k
           /\ Content(Pop(r, k), n) = [i \in 1..(Used(r) - k) |-> Content(r, n)[i + k]]
  <1> DEFINE s == Pop(r, k)
             u == Used(r)
             h == r.head
             t == r.tail
             x == h + k
  <1>1. CounterMod \in Nat \ {0} /\ n \in Nat \ {0}
    BY SMT DEF Sized
  <1>2. h \in 0..(CounterMod - 1) /\ t \in 0..(CounterMod - 1)
    BY DEF Ring
  <1>3. /\ u \in 0..(CounterMod - 1) /\ k \in 0..u
        /\ u = IF t >= h THEN t - h ELSE t - h + CounterMod
    BY UsedCases
  <1>4. s = [slots |-> r.slots, head |-> x % CounterMod, tail |-> t]
    BY DEF Pop
  <1>5. x = h + k /\ x \in 0..(2 * CounterMod - 1)
    BY SMT, <1>1, <1>2, <1>3
  <1> HIDE DEF x
  <1>6. x % CounterMod = IF x < CounterMod THEN x ELSE x - CounterMod
    BY <1>1, <1>5, Fold
  <1>7. s \in Ring(n, C)
    <2>1. x % CounterMod \in 0..(CounterMod - 1)
      BY SMT, <1>1, <1>5, <1>6
    <2>2. r.slots \in [0..(n - 1) -> C \cup {NULL}]
      BY DEF Ring
    <2> QED
      BY SMT, <1>2, <1>4, <2>1, <2>2 DEF Ring
  <1>8. Used(s) = u - k
    <2>1. Used(s) = IF s.tail >= s.head THEN s.tail - s.head
                    ELSE s.tail - s.head + CounterMod
      BY <1>7, UsedCases
    <2>2. s.head = x % CounterMod /\ s.tail = t
      BY SMT, <1>4
    <2>3. CASE x < CounterMod
      BY SMTT(30), <1>1, <1>2, <1>3, <1>5, <1>6, <2>1, <2>2, <2>3
    <2>4. CASE x >= CounterMod
      BY SMT, <1>1, <1>2, <1>3, <1>5, <1>6, <2>1, <2>2, <2>4
    <2> QED
      BY SMT, <1>1, <1>5, <2>3, <2>4
  <1>9. ASSUME NEW i \in 1..(u - k)
        PROVE  s.slots[(s.head + i - 1) % n] = Content(r, n)[i + k]
    <2>1. i - 1 \in Nat /\ i + k \in 1..u /\ h + (i + k) - 1 = x + (i - 1)
      BY SMT, <1>2, <1>3, <1>5
    <2>2. ((x % CounterMod) + (i - 1)) % n = (x + (i - 1)) % n
      BY <1>5, <2>1, SlotWraps
    <2>3. Content(r, n)[i + k] = r.slots[(h + (i + k) - 1) % n]
      BY <2>1 DEF Content
    <2>4. s.slots = r.slots /\ s.head = x % CounterMod
      BY SMT, <1>4
    <2> QED
      BY <2>1, <2>2, <2>3, <2>4
  <1>10. Content(s, n) = [i \in 1..(u - k) |-> s.slots[(s.head + i - 1) % n]]
    BY <1>8 DEF Content
  <1> QED
    BY <1>7, <1>8, <1>9, <1>10

-----------------------------------------------------------------------------
(* Sequences *)

\* Two sequences with the same elements are equal.
LEMMA SameSeq ==
    ASSUME NEW S, NEW s \in Seq(S), NEW t \in Seq(S), Len(s) = Len(t),
           \A i \in 1..Len(s) : s[i] = t[i]
    PROVE  s = t
  BY SMT

\* A sequence over S is a sequence over every larger set.
LEMMA Wider ==
    ASSUME NEW S, NEW T, NEW s \in Seq(S), S \subseteq T
    PROVE  s \in Seq(T)
  BY SMT

\* Head and Tail, element by element.
LEMMA Beheaded ==
    ASSUME NEW S, NEW f \in Seq(S), f # <<>>
    PROVE  /\ Len(f) \in Nat \ {0} /\ Head(f) = f[1] /\ Head(f) \in S
           /\ Tail(f) \in Seq(S) /\ Len(Tail(f)) = Len(f) - 1
           /\ \A i \in 1..Len(Tail(f)) : Tail(f)[i] = f[i + 1]
  BY SMT

\* Concatenation, element by element.
LEMMA Joined ==
    ASSUME NEW S, NEW s \in Seq(S), NEW t \in Seq(S)
    PROVE  /\ s \o t \in Seq(S) /\ Len(s) \in Nat /\ Len(t) \in Nat
           /\ Len(s \o t) = Len(s) + Len(t)
           /\ \A i \in 1..(Len(s) + Len(t)) :
                 (s \o t)[i] = IF i <= Len(s) THEN s[i] ELSE t[i - Len(s)]
  BY SMT

\* Append, element by element.
LEMMA Appended ==
    ASSUME NEW S, NEW s \in Seq(S), NEW x \in S
    PROVE  /\ Append(s, x) \in Seq(S) /\ Len(Append(s, x)) = Len(s) + 1
           /\ \A i \in 1..Len(s) : Append(s, x)[i] = s[i]
           /\ Append(s, x)[Len(s) + 1] = x
  BY SMT

\* Moving the first element of s to the end of g leaves g \o s as it is.
LEMMA TakeFirst ==
    ASSUME NEW S, NEW g \in Seq(S), NEW s \in Seq(S), NEW t \in Seq(S), Len(s) > 0,
           Len(t) = Len(s) - 1, \A i \in 1..Len(t) : t[i] = s[i + 1]
    PROVE  Append(g, s[1]) \o t = g \o s
  <1> DEFINE a == Append(g, s[1])
  <1>1. Len(g) \in Nat /\ Len(s) \in Nat /\ Len(t) \in Nat /\ s[1] \in S
    BY SMT
  <1>2. /\ a \in Seq(S) /\ Len(a) = Len(g) + 1 /\ a[Len(g) + 1] = s[1]
        /\ \A i \in 1..Len(g) : a[i] = g[i]
    BY SMT, <1>1, Appended
  <1> HIDE DEF a
  <1>3. /\ Len(a \o t) = Len(a) + Len(t) /\ a \o t \in Seq(S)
        /\ \A i \in 1..(Len(a) + Len(t)) :
              (a \o t)[i] = IF i <= Len(a) THEN a[i] ELSE t[i - Len(a)]
    BY <1>2, Joined
  <1>4. /\ Len(g \o s) = Len(g) + Len(s) /\ g \o s \in Seq(S)
        /\ \A i \in 1..(Len(g) + Len(s)) :
              (g \o s)[i] = IF i <= Len(g) THEN g[i] ELSE s[i - Len(g)]
    BY Joined
  <1>5. ASSUME NEW i \in 1..(Len(g) + Len(s)) PROVE (a \o t)[i] = (g \o s)[i]
    <2>1. CASE i <= Len(g)
      BY SMTT(30), <1>1, <1>2, <1>3, <1>4, <2>1
    <2>2. CASE i = Len(g) + 1
      BY SMT, <1>1, <1>2, <1>3, <1>4, <2>2
    <2>3. CASE i > Len(g) + 1
      <3>1. i - Len(a) \in 1..Len(t) /\ (i - Len(a)) + 1 = i - Len(g)
        BY SMT, <1>1, <1>2, <2>3
      <3>2. t[i - Len(a)] = s[i - Len(g)]
        BY <3>1
      <3>3. (a \o t)[i] = t[i - Len(a)] /\ (g \o s)[i] = s[i - Len(g)]
        BY SMTT(30), <1>1, <1>2, <1>3, <1>4, <2>3
      <3> QED
        BY <3>2, <3>3
    <2>4. i <= Len(g) \/ i = Len(g) + 1 \/ i > Len(g) + 1
      BY SMT, <1>1
    <2> QED
      BY <2>1, <2>2, <2>3, <2>4
  <1>6. a \o t = g \o s
    <2>1. Len(a \o t) = Len(g) + Len(s)
      BY SMT, <1>1, <1>2, <1>3
    <2> QED
      BY <1>3, <1>4, <1>5, <2>1, SameSeq
  <1> QED
    BY <1>6 DEF a

\* Keys read, keys in the ring and keys in the FIFO, in this order.
Joint(g, s, f) == g \o s \o f

\* Moving the first element of f to the end of s leaves the whole as it is.
LEMMA MoveFirst ==
    ASSUME NEW S, NEW g \in Seq(S), NEW s \in Seq(S), NEW f \in Seq(S), f # <<>>
    PROVE  Joint(g, Append(s, Head(f)), Tail(f)) = Joint(g, s, f)
  <1> DEFINE t == Append(s, Head(f))
             e == Tail(f)
  <1>1. Head(f) = f[1] /\ Head(f) \in S /\ e \in Seq(S) /\ Len(f) > 0
    BY SMT, Beheaded
  <1>2. t \in Seq(S)
    BY <1>1, Appended
  <1>3. t \o e = s \o f
    <2>1. Append(s, f[1]) \o e = s \o f
      BY SMTT(30), <1>1, Beheaded, TakeFirst
    <2> QED
      BY <1>1, <2>1
  <1> HIDE DEF t, e
  <1>4. (g \o t) \o e = g \o (t \o e)
    BY SMTT(30), <1>1, <1>2
  <1>5. (g \o s) \o f = g \o (s \o f)
    BY SMTT(30)
  <1> QED
    BY <1>3, <1>4, <1>5 DEF t, e, Joint

\* Appending to the last part appends to the whole.
LEMMA AddLast ==
    ASSUME NEW S, NEW s \in Seq(S), NEW f \in Seq(S), NEW x \in S
    PROVE  s \o Append(f, x) = Append(s \o f, x)
  BY SMTT(30)

-----------------------------------------------------------------------------
(* The driver *)

\* The types of everything but the characters; a message in progress has
\* characters left, and a process that prints is at a printing operation.
ControlInv ==
    /\ machine \in Machines
    /\ st \in [Proc -> {"RUNNABLE", "RUNNING", "SLEEPING"}]
    /\ step \in [Proc -> 0..Len(Script)]
    /\ pc \in [Proc -> {"go", "put", "doze"}]
    /\ count \in [Proc -> 0..MsgLen]
    /\ yells \in [Proc -> 0..MaxYells] /\ killed \in [Proc -> BOOLEAN]
    /\ console \in Proc \cup {NULL} /\ rx_lock \in Proc \cup {NULL}
    /\ busy \in BOOLEAN /\ irq \in BOOLEAN /\ panicked \in BOOLEAN
    /\ host \in Proc \cup {NULL, Sched}
    /\ hpc \in {"none", "rx", "tx", "complete"}
    /\ \A p \in Proc : count[p] < MsgLen /\ (pc[p] = "put" => step[p] > 0)

\* The transmit ring holds exactly what is owed to the device.
TxInv ==
    /\ tx \in Ring(TxSize, Char) /\ owed \in Seq(Char)
    /\ OutputInOrder /\ Used(tx) <= TxSize

\* The receive ring and the FIFO hold exactly the keys not yet read, and no
\* more of them than were typed ahead.
RxInv ==
    /\ rx \in Ring(RxSize, 1..MaxTyped) /\ fifo \in Seq(1..MaxTyped)
    /\ typed \in 0..MaxTyped /\ got \in Seq(1..MaxTyped)
    /\ InputInOrder /\ Used(rx) + Len(fifo) <= machine.ahead

\* The output side, which does not depend on the input side.
OutInv == ControlInv /\ TxInv

\* The inductive invariant.
RingInv == ControlInv /\ TxInv /\ RxInv

\* No more keys are typed ahead than rx_buffer has room for: the handler stores a
\* key without asking whether the ring is full.
RoomForKeys == \A m \in Machines : m.ahead <= RxSize

\* Both rings of ns16550a.c satisfy what the ring lemmas ask for.
LEMMA Sizes == Sized(TxSize) /\ Sized(RxSize)
  BY SizeAssumption DEF Sized

\* The parameters of a machine are positive.
LEMMA MachineFacts ==
    ASSUME machine \in Machines
    PROVE  /\ MsgLen \in Nat \ {0} /\ MaxYells \in Nat \ {0} /\ MaxTyped \in Nat \ {0}
           /\ machine.ahead \in Nat \ {0} /\ Instant \in BOOLEAN
  BY MachineAssumption DEF MsgLen, MaxYells, MaxTyped, Instant

\* The content of a ring is a sequence of Used(r) entries.
LEMMA ContentSeq ==
    ASSUME NEW n, Sized(n), NEW C, NEW r \in Ring(n, C)
    PROVE  /\ Content(r, n) \in Seq(C \cup {NULL}) /\ Len(Content(r, n)) = Used(r)
           /\ Used(r) \in Nat
  <1>1. Used(r) \in Nat /\ n \in Nat \ {0}
    BY SMT, UsedCases DEF Sized
  <1>2. r.slots \in [0..(n - 1) -> C \cup {NULL}] /\ r.head \in Nat
    BY SMT DEF Ring
  <1>3. ASSUME NEW i \in 1..Used(r) PROVE r.slots[(r.head + i - 1) % n] \in C \cup {NULL}
    <2> DEFINE j == r.head + i - 1
    <2>1. j \in Nat
      BY SMT, <1>1, <1>2
    <2> HIDE DEF j
    <2>2. j % n \in 0..(n - 1)
      BY <1>1, <2>1, DivRem
    <2>3. r.slots[j % n] \in C \cup {NULL}
      BY <1>2, <2>2
    <2> QED
      BY <2>3 DEF j
  <1> QED
    BY SMT, <1>1, <1>3 DEF Content

\* flush sends a prefix of what is owed and keeps the rest in the ring.
LEMMA TxFlush ==
    ASSUME ControlInv, NEW r \in Ring(TxSize, Char), Used(r) <= TxSize,
           NEW due \in Seq(Char), due = Content(r, TxSize),
           NEW n \in FlushCounts(r), Flush(r, n, due), machine' = machine
    PROVE  TxInv' /\ busy' \in BOOLEAN /\ irq' \in BOOLEAN
  <1>1. Used(r) \in Nat /\ Len(due) = Used(r)
    BY Sizes, ContentSeq
  <1>2. n \in 0..Used(r)
    BY SMT, <1>1 DEF FlushCounts
  <1>3. /\ tx' \in Ring(TxSize, Char) /\ Used(tx') = Used(r) - n
        /\ Content(tx', TxSize) = [i \in 1..(Used(r) - n) |-> due[i + n]]
    BY SMT, <1>2, Sizes, PopContent DEF Flush
  <1>4. owed' = SubSeq(due, n + 1, Len(due))
    BY DEF Flush
  <1>5. owed' = [i \in 1..(Used(r) - n) |-> due[i + n]] /\ owed' \in Seq(Char)
    BY SMT, <1>1, <1>2, <1>4
  <1>6. Char' = Char
    BY DEF Char, MsgLen
  <1>7. busy' \in BOOLEAN /\ irq' \in BOOLEAN
    BY DEF Flush
  <1>8. TxInv'
    <2>1. Used(tx') <= TxSize
      BY SMT, <1>1, <1>2, <1>3, SizeAssumption
    <2>2. /\ Used(tx)' = Used(tx') /\ Content(tx, TxSize)' = Content(tx', TxSize)
          /\ Ring(TxSize, Char)' = Ring(TxSize, Char)
      BY <1>6 DEF Used, Content, Ring
    <2> QED
      BY <1>3, <1>5, <1>6, <2>1, <2>2 DEF TxInv, OutputInOrder
  <1> QED
    BY <1>7, <1>8

\* readc takes the oldest key that was received.
LEMMA RxRead ==
    ASSUME RingInv, ~RxEmpty(rx), got' = Append(got, Front(rx, RxSize)), rx' = Pop(rx, 1),
           UNCHANGED <<machine, fifo, typed>>
    PROVE  RxInv'
  <1> DEFINE S == (1..MaxTyped) \cup {NULL}
             s == Content(rx, RxSize)
             t == Content(rx', RxSize)
  <1>1. /\ s \in Seq(S) /\ Len(s) = Used(rx) /\ Used(rx) \in Nat \ {0}
        /\ rx \in Ring(RxSize, 1..MaxTyped) /\ RxSize \in Nat \ {0}
    BY Sizes, ContentSeq, SizeAssumption DEF RingInv, RxInv, RxEmpty
  <1>2. /\ rx' \in Ring(RxSize, 1..MaxTyped) /\ Used(rx') = Used(rx) - 1
        /\ t = [i \in 1..(Used(rx) - 1) |-> s[i + 1]]
    <2>1. 1 \in 0..Used(rx)
      BY SMT, <1>1
    <2> QED
      BY SMT, <1>1, <2>1, Sizes, PopContent
  <1>3. t \in Seq(S) /\ Len(t) = Used(rx')
    BY <1>2, Sizes, ContentSeq
  <1>4. Front(rx, RxSize) = s[1]
    <2>1. s[1] = rx.slots[(rx.head + 1 - 1) % RxSize]
      BY SMT, <1>1 DEF Content
    <2>2. rx.head + 1 - 1 = rx.head
      BY SMT, <1>1 DEF Ring
    <2> QED
      BY <2>1, <2>2 DEF Front
  <1>5. /\ got \in Seq(1..MaxTyped) /\ got \in Seq(S) /\ fifo \in Seq(S)
        /\ (got \o s) \o fifo = [i \in 1..typed |-> i] /\ typed \in 0..MaxTyped /\ MaxTyped \in Nat
    <2>1. MaxTyped \in Nat
      BY MachineFacts DEF RingInv, ControlInv
    <2>2. got \in Seq(1..MaxTyped) /\ fifo \in Seq(1..MaxTyped) /\ 1..MaxTyped \subseteq S
      BY DEF RingInv, RxInv
    <2> QED
      BY <2>1, <2>2, Wider DEF RingInv, RxInv, InputInOrder
  <1> HIDE DEF s, t, S
  <1>6. s[1] \in 1..MaxTyped
    <2> DEFINE a == got \o s
    <2>1. /\ a \in Seq(S) /\ Len(got) \in Nat /\ Len(a) = Len(got) + Len(s)
          /\ a[Len(got) + 1] = s[1]
      <3>1. /\ a \in Seq(S) /\ Len(got) \in Nat /\ Len(a) = Len(got) + Len(s)
            /\ \A i \in 1..(Len(got) + Len(s)) :
                  a[i] = IF i <= Len(got) THEN got[i] ELSE s[i - Len(got)]
        <4>1. got \in Seq(S) /\ s \in Seq(S)
          BY <1>1, <1>5
        <4> QED
          BY <4>1, Joined
      <3>2. Len(got) + 1 \in 1..(Len(got) + Len(s)) /\ (Len(got) + 1) - Len(got) = 1
        BY SMT, <1>1, <3>1
      <3> QED
        BY SMT, <3>1, <3>2
    <2> HIDE DEF a
    <2>2. (a \o fifo)[Len(got) + 1] = a[Len(got) + 1] /\ Len(a \o fifo) >= Len(got) + 1
      BY SMTT(30), <1>1, <1>5, <2>1, Joined
    <2>3. a \o fifo = [i \in 1..typed |-> i]
      BY <1>5 DEF a
    <2>4. Len(got) + 1 \in 1..typed
      BY SMT, <1>5, <2>1, <2>2, <2>3
    <2> QED
      BY SMTT(30), <1>5, <2>1, <2>2, <2>3, <2>4
  <1>7. got' \o t = got \o s
    <2>1. Len(s) > 0 /\ Len(t) = Len(s) - 1 /\ \A i \in 1..Len(t) : t[i] = s[i + 1]
      BY SMT, <1>1, <1>2, <1>3
    <2>2. Append(got, s[1]) \o t = got \o s
      <3>1. got \in Seq(S) /\ s \in Seq(S) /\ t \in Seq(S)
        BY <1>1, <1>3, <1>5
      <3> QED
        BY <2>1, <3>1, TakeFirst
    <2> QED
      BY <1>4, <2>2
  <1>8. got' \in Seq(1..MaxTyped)
    BY SMT, <1>4, <1>5, <1>6
  <1>9. MaxTyped' = MaxTyped /\ machine.ahead \in Nat /\ Len(fifo) \in Nat
    BY SMTT(30), <1>5, MachineFacts DEF MaxTyped, RingInv, ControlInv
  <1>10. Used(rx') + Len(fifo) <= machine.ahead
    BY SMTT(30), <1>1, <1>2, <1>9 DEF RingInv, RxInv
  <1>11. InputInOrder'
    BY <1>5, <1>7 DEF InputInOrder, Content, Used, t
  <1> QED
    BY <1>2, <1>5, <1>8, <1>9, <1>10, <1>11 DEF RingInv, RxInv, Ring, Used

\* The handler moves the oldest key from the FIFO to the ring: with room for
\* the keys typed ahead no unread key is overwritten.
LEMMA RxStored ==
    ASSUME RoomForKeys, RingInv, fifo # <<>>, rx' = Push(rx, RxSize, Head(fifo)),
           fifo' = Tail(fifo), UNCHANGED <<machine, typed, got>>
    PROVE  RxInv'
  <1> DEFINE S == (1..MaxTyped) \cup {NULL}
             s == Content(rx, RxSize)
             t == Content(rx', RxSize)
  <1>1. /\ s \in Seq(S) /\ Used(rx) \in Nat /\ rx \in Ring(RxSize, 1..MaxTyped)
        /\ fifo \in Seq(1..MaxTyped) /\ fifo \in Seq(S) /\ got \in Seq(S)
    <2>1. /\ rx \in Ring(RxSize, 1..MaxTyped) /\ 1..MaxTyped \subseteq S
          /\ got \in Seq(1..MaxTyped) /\ fifo \in Seq(1..MaxTyped)
      BY DEF RingInv, RxInv
    <2> QED
      BY <2>1, Wider, Sizes, ContentSeq
  <1>2. /\ Head(fifo) = fifo[1] /\ Head(fifo) \in 1..MaxTyped /\ Tail(fifo) \in Seq(1..MaxTyped)
        /\ Len(fifo) \in Nat \ {0} /\ Len(Tail(fifo)) = Len(fifo) - 1
        /\ \A i \in 1..Len(Tail(fifo)) : Tail(fifo)[i] = fifo[i + 1]
    BY <1>1, Beheaded
  <1>3. Used(rx) < RxSize /\ machine.ahead \in Nat
    <2>1. machine.ahead \in Nat /\ machine.ahead <= RxSize /\ RxSize \in Nat
      BY MachineFacts, SizeAssumption DEF RingInv, ControlInv, RoomForKeys
    <2>2. Used(rx) + Len(fifo) <= machine.ahead
      BY DEF RingInv, RxInv
    <2> QED
      BY SMT, <1>1, <1>2, <2>1, <2>2
  <1>4. /\ rx' \in Ring(RxSize, 1..MaxTyped) /\ Used(rx') = Used(rx) + 1
        /\ t = Append(s, Head(fifo))
    BY SMTT(30), <1>1, <1>2, <1>3, Sizes, PushContent
  <1> HIDE DEF s, t, S
  <1>5. Joint(got, t, Tail(fifo)) = Joint(got, s, fifo)
    BY <1>1, <1>4, MoveFirst
  <1>6. InputInOrder'
    BY <1>5 DEF RingInv, RxInv, InputInOrder, Content, Used, Joint, s, t
  <1>7. Used(rx') + Len(fifo') <= machine.ahead
    BY SMT, <1>1, <1>2, <1>3, <1>4 DEF RingInv, RxInv
  <1> QED
    BY <1>2, <1>4, <1>6, <1>7 DEF RingInv, RxInv, Ring, Used, MaxTyped

\* A key that is typed goes to the end of the FIFO.
LEMMA RxTyped ==
    ASSUME RingInv, Type
    PROVE  RxInv'
  <1> DEFINE S == (1..MaxTyped) \cup {NULL}
             a == got \o Content(rx, RxSize)
  <1>1. Content(rx, RxSize) \in Seq(S) /\ Used(rx) \in Nat
    BY Sizes, ContentSeq DEF RingInv, RxInv
  <1>2. /\ got \in Seq(S) /\ fifo \in Seq(S) /\ fifo \in Seq(1..MaxTyped) /\ Len(fifo) \in Nat
        /\ typed + 1 \in 1..MaxTyped /\ typed \in Nat /\ machine.ahead \in Nat /\ MaxTyped \in Nat
    <2>1. MaxTyped \in Nat /\ machine.ahead \in Nat
      BY MachineFacts DEF RingInv, ControlInv
    <2>2. /\ got \in Seq(1..MaxTyped) /\ fifo \in Seq(1..MaxTyped) /\ 1..MaxTyped \subseteq S
          /\ typed \in 0..MaxTyped /\ typed < MaxTyped
      BY DEF RingInv, RxInv, Type
    <2>3. typed + 1 \in 1..MaxTyped /\ typed \in Nat
      BY SMT, <2>1, <2>2
    <2>4. got \in Seq(S) /\ fifo \in Seq(S)
      BY <2>2, Wider
    <2> QED
      BY SMT, <2>1, <2>2, <2>3, <2>4
  <1>3. a \in Seq(S) /\ a \o fifo = [i \in 1..typed |-> i]
    BY <1>1, <1>2, Joined DEF RingInv, RxInv, InputInOrder
  <1>4. typed + 1 \in S
    BY <1>2
  <1> HIDE DEF a, S
  <1>5. a \o Append(fifo, typed + 1) = Append(a \o fifo, typed + 1)
    <2>1. a \in Seq(S) /\ fifo \in Seq(S)
      BY <1>2, <1>3
    <2> QED
      BY SMT, <1>4, <2>1, AddLast
  <1>6. Append([i \in 1..typed |-> i], typed + 1) = [i \in 1..(typed + 1) |-> i]
    BY SMT, <1>2
  <1>7. a \o Append(fifo, typed + 1) = [i \in 1..(typed + 1) |-> i]
    BY <1>3, <1>5, <1>6
  <1>8. InputInOrder'
    BY <1>7 DEF Type, InputInOrder, Content, Used, a
  <1>9. fifo' = Append(fifo, typed + 1) /\ typed' = typed + 1 /\ UNCHANGED <<machine, rx, got>>
    BY DEF Type
  <1>10. fifo' \in Seq(1..MaxTyped) /\ Used(rx) + Len(fifo') <= machine.ahead
    BY SMT, <1>1, <1>2, <1>9 DEF Type
  <1> QED
    BY SMT, <1>2, <1>8, <1>9, <1>10 DEF RingInv, RxInv, Ring, Used, MaxTyped

\* A step that does not touch the transmit ring keeps it exact.
LEMMA CalmStep ==
    ASSUME OutInv, UNCHANGED <<machine, tx, owed>>, ControlInv'
    PROVE  OutInv'
  <1>1. TxInv'
    BY DEF OutInv, TxInv, OutputInOrder, Content, Used, Ring, Char, MsgLen
  <1> QED
    BY <1>1 DEF OutInv

\* The operations a process of the model goes through.
LEMMA ScriptLength == Len(Script) = 5
  BY DEF Script

\* Scheduling, killing, panicking and taking the console lock.
LEMMA ScheduleRing ==
    ASSUME OutInv, NEW p \in Proc, NEW q \in Proc,
           Dispatch(p) \/ Preempt(p) \/ Kill(q, p) \/ Yell(p) \/ PrintLock(p)
    PROVE  OutInv'
  <1>1. CASE Dispatch(p) \/ Preempt(p)
    <2>1. ControlInv'
      BY <1>1 DEF OutInv, ControlInv, Dispatch, Preempt, MsgLen, MaxYells, lockVars
    <2> QED
      BY <1>1, <2>1, CalmStep DEF Dispatch, Preempt
  <1>2. CASE Kill(q, p)
    <2>1. ControlInv'
      BY <1>2 DEF OutInv, ControlInv, Kill, MsgLen, MaxYells, lockVars
    <2> QED
      BY <1>2, <2>1, CalmStep DEF Kill
  <1>3. CASE Yell(p)
    <2>1. ControlInv'
      BY SMT, <1>3, MachineFacts, ScriptLength
         DEF OutInv, ControlInv, Yell, MsgLen, MaxYells, lockVars
    <2> QED
      BY <1>3, <2>1, CalmStep DEF Yell
  <1>4. CASE PrintLock(p)
    <2>1. ControlInv'
      BY <1>4 DEF OutInv, ControlInv, PrintLock, AtOp, MsgLen, MaxYells
    <2> QED
      BY <1>4, <2>1, CalmStep DEF PrintLock
  <1> QED
    BY <1>1, <1>2, <1>3, <1>4

\* The steps of the interrupt handler that move no character.
LEMMA HandlerRing ==
    ASSUME OutInv, Claim \/ HandlerRxEnd \/ Complete \/ Transmit
    PROVE  OutInv'
  <1>1. ControlInv'
    <2>1. CASE Claim
      BY <2>1 DEF OutInv, ControlInv, Claim, MsgLen, MaxYells, lockVars, procVars
    <2>2. CASE HandlerRxEnd \/ Complete \/ Transmit
      BY <2>2 DEF OutInv, ControlInv, HandlerRxEnd, Complete, Transmit, MsgLen, MaxYells, lockVars,
                  procVars
    <2> QED
      BY <2>1, <2>2
  <1> QED
    BY <1>1, CalmStep DEF Claim, HandlerRxEnd, Complete, Transmit

\* The next operation of a process.
LEMMA NextStepOK ==
    ASSUME ControlInv, NEW p \in Proc, NextStep(p)
    PROVE  /\ step' \in [Proc -> 0..Len(Script)]
           /\ \A q \in Proc : q # p => step'[q] = step[q]
  <1>1. step[p] \in 0..5
    BY ScriptLength DEF ControlInv
  <1>2. (step[p] + 1) % 6 \in 0..5
    BY SMT, <1>1
  <1>3. step' = [step EXCEPT ![p] = (step[p] + 1) % 6]
    BY SMT, ScriptLength DEF NextStep
  <1> QED
    BY <1>2, <1>3, ScriptLength DEF ControlInv

\* readc: read, find the ring empty, or go to sleep.
LEMMA ReadRing ==
    ASSUME OutInv, NEW p \in Proc, ReadChar(p) \/ ReadSleep(p)
    PROVE  OutInv'
  <1>1. CASE ReadSleep(p)
    <2>1. ControlInv'
      BY <1>1 DEF OutInv, ControlInv, ReadSleep, MsgLen, MaxYells
    <2> QED
      BY <1>1, <2>1, CalmStep DEF ReadSleep
  <1>2. CASE ReadChar(p) /\ RxEmpty(rx)
    <2>1. ControlInv'
      BY <1>2 DEF OutInv, ControlInv, ReadChar, MsgLen, MaxYells
    <2> QED
      BY <1>2, <2>1, CalmStep DEF ReadChar
  <1>3. CASE ReadChar(p) /\ ~RxEmpty(rx)
    <2>1. NextStep(p) /\ pc[p] = "go"
      BY <1>3 DEF ReadChar, AtOp
    <2>2. ControlInv'
      BY <1>3, <2>1, NextStepOK DEF OutInv, ControlInv, ReadChar, MsgLen, MaxYells
    <2> QED
      BY <1>3, <2>2, CalmStep DEF ReadChar
  <1> QED
    BY <1>1, <1>2, <1>3

\* proc_wakeup makes sleepers runnable and changes nothing else.
LEMMA WokenTypes ==
    ASSUME ControlInv, NEW c, NEW n
    PROVE  /\ Woken(c) \in [Proc -> {"RUNNABLE", "RUNNING", "SLEEPING"}]
           /\ WokenByFlush(n) \in [Proc -> {"RUNNABLE", "RUNNING", "SLEEPING"}]
  BY DEF ControlInv, Woken, WokenByFlush

\* A key is typed, or moved into the ring by the handler.
LEMMA InputRing ==
    ASSUME OutInv, HandlerRx \/ Type
    PROVE  OutInv'
  <1>1. ControlInv'
    <2>1. CASE HandlerRx
      BY <2>1, WokenTypes DEF OutInv, ControlInv, HandlerRx, MsgLen, MaxYells, lockVars
    <2>2. CASE Type
      BY <2>2 DEF OutInv, ControlInv, Type, MsgLen, MaxYells, lockVars, procVars
    <2> QED
      BY <2>1, <2>2
  <1> QED
    BY <1>1, CalmStep DEF HandlerRx, Type

\* The transmit half of the interrupt handler.
LEMMA HandlerTxRing ==
    ASSUME OutInv, HandlerTx
    PROVE  OutInv'
  <1>1. PICK n \in FlushCounts(tx) : Flush(tx, n, owed) /\ st' = WokenByFlush(n)
    BY DEF HandlerTx
  <1>2. TxInv' /\ busy' \in BOOLEAN /\ irq' \in BOOLEAN
    BY <1>1, TxFlush DEF HandlerTx, OutInv, TxInv, OutputInOrder
  <1>3. ControlInv'
    BY <1>1, <1>2, WokenTypes DEF OutInv, ControlInv, HandlerTx, MsgLen, MaxYells, lockVars
  <1> QED
    BY <1>2, <1>3 DEF OutInv

\* What holds when c is stored in the transmit ring.
Stored(c) ==
    LET r == Push(tx, TxSize, c)
    IN  /\ c \in Char /\ owed \in Seq(Char) /\ r \in Ring(TxSize, Char)
        /\ Used(r) <= TxSize /\ Append(owed, c) \in Seq(Char)
        /\ Content(r, TxSize) = Append(owed, c)

\* putc_async stores the character at the end of what is owed.
LEMMA PutStored ==
    ASSUME OutInv, NEW p \in Proc, pc[p] = "put", ~TxFull(tx)
    PROVE  Stored(<<p, step[p], count[p] + 1>>)
  <1> DEFINE c == <<p, step[p], count[p] + 1>>
             r == Push(tx, TxSize, c)
  <1>1. c \in Char
    <2>1. step[p] \in 1..Len(Script)
      BY SMT, ScriptLength DEF OutInv, ControlInv
    <2>2. MsgLen \in Nat \ {0} /\ count[p] \in 0..MsgLen /\ count[p] < MsgLen
      BY MachineFacts DEF OutInv, ControlInv
    <2>3. count[p] + 1 \in 1..MsgLen
      BY <2>2, Successor
    <2> QED
      BY <2>1, <2>3 DEF Char
  <1>2. /\ tx \in Ring(TxSize, Char) /\ owed \in Seq(Char) /\ owed = Content(tx, TxSize)
        /\ Used(tx) < TxSize /\ Used(tx) \in Nat /\ TxSize \in Nat
    <2>1. /\ tx \in Ring(TxSize, Char) /\ owed \in Seq(Char) /\ owed = Content(tx, TxSize)
          /\ Used(tx) <= TxSize /\ Used(tx) # TxSize
      BY DEF OutInv, TxInv, OutputInOrder, TxFull
    <2>2. Used(tx) \in Nat /\ TxSize \in Nat
      BY <2>1, Sizes, ContentSeq, SizeAssumption
    <2> QED
      BY SMT, <2>1, <2>2
  <1>3. /\ r \in Ring(TxSize, Char) /\ Used(r) = Used(tx) + 1
        /\ Content(r, TxSize) = Append(owed, c)
    BY <1>1, <1>2, Sizes, PushContent
  <1> HIDE DEF r, c
  <1>4. Used(r) <= TxSize /\ Append(owed, c) \in Seq(Char)
    BY SMT, <1>1, <1>2, <1>3
  <1> QED
    BY <1>1, <1>2, <1>3, <1>4 DEF Stored, r, c

\* putc_async: store and flush, or sleep while the ring is full.
LEMMA PutCharRing ==
    ASSUME OutInv, NEW p \in Proc, PutChar(p)
    PROVE  OutInv'
  <1> DEFINE c == <<p, step[p], count[p] + 1>>
             r == Push(tx, TxSize, c)
  <1>1. CASE TxFull(tx)
    <2>1. ControlInv'
      BY <1>1 DEF OutInv, ControlInv, PutChar, MsgLen, MaxYells
    <2> QED
      BY <1>1, <2>1, CalmStep DEF PutChar
  <1>2. CASE ~TxFull(tx)
    <2>1. PICK n \in FlushCounts(r) : Flush(r, n, Append(owed, c)) /\ st' = WokenByFlush(n)
      BY <1>2 DEF PutChar
    <2>2. /\ r \in Ring(TxSize, Char) /\ Content(r, TxSize) = Append(owed, c)
          /\ Used(r) <= TxSize /\ Append(owed, c) \in Seq(Char)
      <3>1. Stored(c)
        BY <1>2, PutStored DEF PutChar
      <3> QED
        BY <3>1 DEF Stored
    <2> HIDE DEF r, c
    <2>3. TxInv' /\ busy' \in BOOLEAN /\ irq' \in BOOLEAN
      BY <2>1, <2>2, TxFlush DEF OutInv, PutChar
    <2>4. ControlInv'
      <3>1. st' \in [Proc -> {"RUNNABLE", "RUNNING", "SLEEPING"}]
        BY <2>1, WokenTypes DEF OutInv
      <3>2. UNCHANGED <<machine, yells, killed, rx_lock, host, hpc, panicked>>
        BY DEF PutChar
      <3>3. MsgLen \in Nat \ {0} /\ count[p] \in 0..(MsgLen - 1)
        BY SMT, MachineFacts DEF OutInv, ControlInv
      <3>4. count \in [Proc -> 0..MsgLen] /\ \A q \in Proc : count[q] < MsgLen
        BY DEF OutInv, ControlInv
      <3>5. CASE count[p] + 1 = MsgLen
        <4>1. /\ count' = [count EXCEPT ![p] = 0] /\ pc' = [pc EXCEPT ![p] = "go"]
              /\ console' = NULL /\ NextStep(p)
          BY <1>2, <3>5 DEF PutChar, Unlocked
        <4>2. count' \in [Proc -> 0..MsgLen] /\ \A q \in Proc : count'[q] < MsgLen
          BY SMT, <3>3, <3>4, <4>1
        <4>3. /\ pc' \in [Proc -> {"go", "put", "doze"}]
              /\ step' \in [Proc -> 0..Len(Script)]
              /\ \A q \in Proc : pc'[q] = "put" => step'[q] > 0
          BY <4>1, NextStepOK DEF OutInv, ControlInv
        <4> QED
          BY <2>3, <3>1, <3>2, <4>1, <4>2, <4>3 DEF OutInv, ControlInv, MsgLen, MaxYells
      <3>6. CASE count[p] + 1 # MsgLen
        <4>1. count' = [count EXCEPT ![p] = count[p] + 1] /\ UNCHANGED <<pc, console, step>>
          BY <1>2, <3>6 DEF PutChar
        <4>2. count' \in [Proc -> 0..MsgLen] /\ \A q \in Proc : count'[q] < MsgLen
          BY SMT, <3>3, <3>4, <3>6, <4>1
        <4> QED
          BY <2>3, <3>1, <3>2, <4>1, <4>2 DEF OutInv, ControlInv, MsgLen, MaxYells
      <3> QED
        BY <3>5, <3>6
    <2> QED
      BY <2>3, <2>4 DEF OutInv
  <1> QED
    BY <1>1, <1>2

\* ns16550a_driver_init leaves both rings empty.
LEMMA InitRing == Init => RingInv
  <1> SUFFICES ASSUME Init PROVE RingInv
    OBVIOUS
  <1>1. CounterMod \in Nat \ {0} /\ TxSize \in Nat \ {0} /\ RxSize \in Nat \ {0}
    BY SMT, Sizes DEF Sized
  <1>2. ControlInv
    <2>1. machine \in Machines
      BY DEF Init
    <2>2. MsgLen \in Nat \ {0} /\ MaxYells \in Nat
      BY <2>1, MachineFacts
    <2>3. /\ st \in [Proc -> {"RUNNABLE", "RUNNING", "SLEEPING"}] /\ killed \in [Proc -> BOOLEAN]
          /\ pc \in [Proc -> {"go", "put", "doze"}] /\ \A p \in Proc : pc[p] # "put"
      BY DEF Init
    <2>4. /\ step \in [Proc -> 0..Len(Script)] /\ count \in [Proc -> 0..MsgLen]
          /\ yells \in [Proc -> 0..MaxYells] /\ \A p \in Proc : count[p] < MsgLen
      BY SMT, <2>2, ScriptLength DEF Init
    <2> QED
      BY <2>1, <2>3, <2>4 DEF Init, ControlInv
  <1>3. tx \in Ring(TxSize, Char) /\ rx \in Ring(RxSize, 1..MaxTyped)
    BY SMT, <1>1 DEF Init, EmptyRing, Ring
  <1>4. Used(tx) = 0 /\ Used(rx) = 0
    BY SMT, <1>1 DEF Init, EmptyRing, Used
  <1>5. Content(tx, TxSize) = <<>> /\ Content(rx, RxSize) = <<>>
    BY SMT, <1>4 DEF Content
  <1>6. TxInv
    BY SMT, <1>1, <1>3, <1>4, <1>5 DEF Init, TxInv, OutputInOrder
  <1>7. RxInv
    <2>1. machine.ahead \in Nat /\ MaxTyped \in Nat
      BY <1>2, MachineFacts DEF ControlInv
    <2>2. InputInOrder
      BY SMT, <1>5 DEF Init, InputInOrder
    <2> QED
      BY SMT, <1>3, <1>4, <2>1, <2>2 DEF Init, RxInv
  <1> QED
    BY <1>2, <1>6, <1>7 DEF RingInv

\* Every step keeps the transmit ring exact.
LEMMA StepOut == OutInv /\ [Next]_vars => OutInv'
  <1> SUFFICES ASSUME OutInv, [Next]_vars PROVE OutInv'
    OBVIOUS
  <1>1. ASSUME NEW p \in Proc, NEW q \in Proc,
               Dispatch(p) \/ Preempt(p) \/ Kill(q, p) \/ Yell(p) \/ PrintLock(p)
        PROVE  OutInv'
    BY <1>1, ScheduleRing
  <1>2. ASSUME NEW p \in Proc, PutChar(p) PROVE OutInv'
    BY <1>2, PutCharRing
  <1>3. ASSUME NEW p \in Proc, ReadChar(p) \/ ReadSleep(p) PROVE OutInv'
    BY <1>3, ReadRing
  <1>4. CASE HandlerRx \/ Type
    BY <1>4, InputRing
  <1>5. CASE Claim \/ HandlerRxEnd \/ Complete \/ Transmit
    BY <1>5, HandlerRing
  <1>6. CASE HandlerTx
    BY <1>6, HandlerTxRing
  <1>7. CASE UNCHANGED vars
    <2>1. ControlInv'
      BY <1>7 DEF OutInv, ControlInv, vars, procVars, lockVars, MsgLen, MaxYells
    <2> QED
      BY <1>7, <2>1, CalmStep DEF vars
  <1> QED
    BY <1>1, <1>2, <1>3, <1>4, <1>5, <1>6, <1>7 DEF Next

\* The receive side of a step that does not touch it.
LEMMA RxKept ==
    ASSUME RingInv, UNCHANGED <<machine, rx, fifo, typed, got>>
    PROVE  RxInv'
  BY DEF RingInv, RxInv, InputInOrder, Content, Used, Ring, MaxTyped

\* Every step keeps the receive ring exact, if it has room for the keys.
LEMMA StepRx == RoomForKeys /\ RingInv /\ [Next]_vars => RxInv'
  <1> SUFFICES ASSUME RoomForKeys, RingInv, [Next]_vars PROVE RxInv'
    OBVIOUS
  <1>1. ASSUME NEW p \in Proc, NEW q \in Proc,
               Dispatch(p) \/ Preempt(p) \/ Kill(q, p) \/ Yell(p) \/ PrintLock(p)
        PROVE  RxInv'
    BY <1>1, RxKept DEF Dispatch, Preempt, Kill, Yell, PrintLock
  <1>2. ASSUME NEW p \in Proc, PutChar(p) \/ ReadSleep(p) PROVE RxInv'
    BY <1>2, RxKept DEF PutChar, ReadSleep
  <1>3. ASSUME NEW p \in Proc, ReadChar(p) PROVE RxInv'
    BY <1>3, RxKept, RxRead DEF ReadChar
  <1>4. CASE HandlerRx \/ Type
    BY <1>4, RxStored, RxTyped DEF HandlerRx
  <1>5. CASE Claim \/ HandlerRxEnd \/ HandlerTx \/ Complete \/ Transmit \/ UNCHANGED vars
    BY <1>5, RxKept DEF Claim, HandlerRxEnd, HandlerTx, Complete, Transmit, vars
  <1> QED
    BY <1>1, <1>2, <1>3, <1>4, <1>5 DEF Next

\* Every step keeps both rings exact.
LEMMA StepRing == RoomForKeys /\ RingInv /\ [Next]_vars => RingInv'
  BY StepOut, StepRx DEF OutInv, RingInv

\* For machines with room for the keys typed ahead, any number of processes and
\* any ring sizes that divide the range of the counters: what the transmit ring
\* holds is what putc_async stored and flush has not sent, in order, and keys
\* are read in the order they were typed, none lost and none twice, also when the
\* unsigned counters of ns16550a.c wrap.
THEOREM BuffersExact ==
    ASSUME RoomForKeys PROVE Spec => []BuffersInv
  <1>1. RingInv => BuffersInv
    BY DEF RingInv, ControlInv, TxInv, RxInv, BuffersInv, TypeOK
  <1> QED
    BY <1>1, InitRing, StepRing, PTL DEF Spec

-----------------------------------------------------------------------------
(* Messages *)

\* The first k characters of the message p prints at step s.
Message(p, s, k) == [i \in 1..k |-> <<p, s, i>>]

\* What is on the wire before c and after it, if messages are kept together.
Before(c) == Message(c[1], c[2], c[3] - 1)
After(c) == IF c[3] = MsgLen THEN <<>> ELSE Message(c[1], c[2], c[3])

\* The characters s lead the wire from the state w to the state e.
Carries(s, w, e) ==
    /\ s = <<>> => w = e
    /\ s # <<>> => w = Before(s[1]) /\ After(s[Len(s)]) = e
    /\ \A i \in 1..(Len(s) - 1) : After(s[i]) = Before(s[i + 1])

\* What will be on the wire when all that is owed was sent: what the holder of
\* console.lock has printed of its message.
Printed == IF console = NULL THEN <<>> ELSE Message(console, step[console], count[console])

\* Only the holder of console.lock is inside printf, and only it has printed a
\* part of a message.
LockInv ==
    /\ console # NULL => pc[console] = "put"
    /\ \A p \in Proc : pc[p] = "put" => console = p
    /\ \A p \in Proc : p # console => count[p] = 0

\* The inductive invariant: with the transmit ring exact, what is owed continues
\* what is on the wire, message by message.
MessageInv == OutInv /\ LockInv /\ Carries(owed, wire, Printed)

\* The parts of a character.
LEMMA CharParts ==
    ASSUME machine \in Machines, NEW c \in Char
    PROVE  /\ c = <<c[1], c[2], c[3]>> /\ c[1] \in Proc /\ c[2] \in 1..Len(Script)
           /\ c[3] \in 1..MsgLen /\ c[3] - 1 \in Nat /\ (c[3] - 1) + 1 = c[3]
           /\ MsgLen \in Nat
  <1>1. MsgLen \in Nat
    BY MachineFacts
  <1>2. /\ c = <<c[1], c[2], c[3]>> /\ c[1] \in Proc /\ c[2] \in 1..Len(Script)
        /\ c[3] \in 1..MsgLen
    BY SMT DEF Char
  <1> QED
    BY SMT, <1>1, <1>2

\* The beginning of a message is a sequence, and grows character by character.
LEMMA MessageSeq ==
    ASSUME NEW p \in Proc, NEW s \in 1..Len(Script), NEW k \in 0..MsgLen, MsgLen \in Nat
    PROVE  /\ Message(p, s, k) \in Seq(Char) /\ Len(Message(p, s, k)) = k
           /\ \A i \in 1..k : Message(p, s, k)[i] = <<p, s, i>>
           /\ k = 0 => Message(p, s, k) = <<>>
  <1>1. k \in Nat /\ \A i \in 1..k : i \in 1..MsgLen
    BY SMT
  <1>2. \A i \in 1..k : <<p, s, i>> \in Char
    BY <1>1 DEF Char
  <1> QED
    BY SMT, <1>1, <1>2 DEF Message

\* One more character of the same message.
LEMMA MessageGrows ==
    ASSUME NEW p, NEW s, NEW k \in Nat
    PROVE  Append(Message(p, s, k), <<p, s, k + 1>>) = Message(p, s, k + 1)
  <1> DEFINE a == Message(p, s, k + 1)
             b == Message(p, s, k)
             c == <<p, s, k + 1>>
  <1>1. Tuple(a, k + 1) /\ Tuple(b, k)
    BY DEF Tuple, Message
  <1>2. k + 1 \in 1..(k + 1) /\ \A i \in 1..k : i \in 1..(k + 1)
    BY SMT
  <1>3. (\A i \in 1..k : a[i] = b[i]) /\ a[k + 1] = c
    BY <1>2 DEF Message
  <1> HIDE DEF a, b, c
  <1>4. a = Append(b, c)
    BY SMT, <1>1, <1>3, OneLonger
  <1> QED
    BY <1>4 DEF a, b, c

\* A character sent when its predecessors are on the wire leaves them and itself,
\* or nothing if the message is complete.
LEMMA OneSent ==
    ASSUME machine \in Machines, NEW c \in Char
    PROVE  OnWire(Before(c), c) = After(c)
  <1> DEFINE p == c[1]
             s == c[2]
             k == c[3]
  <1>1. /\ c = <<p, s, k>> /\ p \in Proc /\ s \in 1..Len(Script) /\ k \in 1..MsgLen
        /\ k - 1 \in Nat /\ (k - 1) + 1 = k /\ MsgLen \in Nat
    BY CharParts
  <1>2. Before(c) = Message(p, s, k - 1) /\ (After(c) = IF k = MsgLen THEN <<>> ELSE Message(p, s, k))
    BY DEF Before, After
  <1>3. Append(Before(c), c) = Message(p, s, k)
    <2>1. Append(Message(p, s, k - 1), <<p, s, (k - 1) + 1>>) = Message(p, s, (k - 1) + 1)
      BY <1>1, MessageGrows
    <2> QED
      BY <1>1, <1>2, <2>1
  <1>4. OnWire(Before(c), c) = IF Message(p, s, k) = Message(p, s, MsgLen) THEN <<>>
                               ELSE Message(p, s, k)
    BY <1>3 DEF OnWire, Message
  <1> HIDE DEF p, s, k
  <1>5. Message(p, s, k) = Message(p, s, MsgLen) <=> k = MsgLen
    <2>1. k \in 0..MsgLen /\ MsgLen \in 0..MsgLen
      BY SMT, <1>1
    <2>2. Len(Message(p, s, k)) = k /\ Len(Message(p, s, MsgLen)) = MsgLen
      BY <1>1, <2>1, MessageSeq
    <2> QED
      BY <2>2
  <1> QED
    BY <1>2, <1>4, <1>5

\* A character that continues the message goes to the end of what is owed.
LEMMA CarryOn ==
    ASSUME NEW S, NEW s \in Seq(S), NEW c \in S, NEW w, NEW e, Carries(s, w, e), Before(c) = e
    PROVE  Carries(Append(s, c), w, After(c))
  <1> DEFINE t == Append(s, c)
  <1>1. /\ Len(s) \in Nat /\ Len(t) = Len(s) + 1 /\ t[Len(t)] = c /\ t # <<>>
        /\ \A i \in 1..Len(s) : t[i] = s[i]
    BY SMT, Appended
  <1> HIDE DEF t
  <1>2. CASE s = <<>>
    <2>1. Len(t) = 1
      BY SMT, <1>1, <1>2
    <2>2. 1..(Len(t) - 1) = {}
      BY SMT, <2>1
    <2> QED
      BY <1>1, <1>2, <2>1, <2>2 DEF Carries, t
  <1>3. CASE s # <<>>
    <2>1. Len(s) \in Nat \ {0} /\ 1 \in 1..Len(s) /\ Len(s) \in 1..Len(s)
      BY SMT, <1>3
    <2>2. t[1] = s[1] /\ w = Before(t[1])
      BY <1>1, <1>3, <2>1 DEF Carries
    <2>3. ASSUME NEW i \in 1..(Len(t) - 1) PROVE After(t[i]) = Before(t[i + 1])
      <3>1. i \in 1..Len(s)
        BY SMT, <1>1
      <3>2. CASE i = Len(s)
        <4>1. t[i] = s[Len(s)] /\ t[i + 1] = c
          BY <1>1, <3>1, <3>2
        <4> QED
          BY <1>3, <4>1 DEF Carries
      <3>3. CASE i # Len(s)
        <4>1. i \in 1..(Len(s) - 1) /\ i + 1 \in 1..Len(s)
          BY SMT, <1>1, <3>1, <3>3
        <4> QED
          BY <1>1, <3>1, <4>1 DEF Carries
      <3> QED
        BY <3>2, <3>3
    <2> QED
      BY <1>1, <2>2, <2>3 DEF Carries, t
  <1> QED
    BY <1>2, <1>3

\* The wire after the first n of the characters due, as the loop of flush makes it.
Sent(due, wire0, n) ==
    LET w[i \in 0..n] == IF i = 0 THEN wire0 ELSE OnWire(w[i - 1], due[i]) IN w[n]

\* The loop of flush goes through the states the characters lead to.
LEMMA ManySent ==
    ASSUME machine \in Machines, NEW due \in Seq(Char), NEW w, NEW e, Carries(due, w, e),
           NEW n \in 0..Len(due)
    PROVE  Sent(due, w, n) = IF n = Len(due) THEN e ELSE Before(due[n + 1])
  <1> DEFINE Fits(f) == f = [i \in 0..n |-> IF i = 0 THEN w ELSE OnWire(f[i - 1], due[i])]
             g == [i \in 0..n |-> IF i = Len(due) THEN e ELSE Before(due[i + 1])]
             F == CHOOSE f : Fits(f)
  <1>1. Len(due) \in Nat /\ n \in Nat /\ n <= Len(due) /\ 0 \in 0..n /\ n \in 0..n
    BY SMT
  <1>2. g[0] = w
    <2>1. CASE due = <<>>
      BY <1>1, <2>1 DEF Carries
    <2>2. CASE due # <<>>
      <3>1. Len(due) # 0 /\ 0 + 1 = 1
        BY SMT, <2>2
      <3> QED
        BY <1>1, <2>2, <3>1 DEF Carries
    <2> QED
      BY <2>1, <2>2
  <1>3. ASSUME NEW i \in 0..n, i # 0 PROVE g[i] = OnWire(g[i - 1], due[i])
    <2>1. /\ i - 1 \in 0..n /\ i - 1 # Len(due) /\ (i - 1) + 1 = i /\ i \in 1..Len(due)
          /\ (i = Len(due) \/ i \in 1..(Len(due) - 1)) /\ due # <<>>
      BY SMT, <1>1, <1>3
    <2>2. due[i] \in Char
      BY SMT, <2>1
    <2>3. g[i - 1] = Before(due[i])
      BY <2>1
    <2>4. OnWire(Before(due[i]), due[i]) = After(due[i])
      BY <2>2, OneSent
    <2>5. g[i] = After(due[i])
      BY <2>1 DEF Carries
    <2> QED
      BY <2>3, <2>4, <2>5
  <1>4. Fits(g)
    <2>1. \A i \in 0..n : g[i] = IF i = 0 THEN w ELSE OnWire(g[i - 1], due[i])
      BY <1>2, <1>3
    <2>2. g = [i \in 0..n |-> g[i]]
      OBVIOUS
    <2> HIDE DEF g
    <2> QED
      BY <2>1, <2>2
  <1>5. Fits(F)
    BY <1>4
  <1>6. Sent(due, w, n) = F[n]
    BY DEF Sent
  <1> HIDE DEF F, g
  <1> DEFINE S == {i \in Nat : i \in 0..n => F[i] = g[i]}
  <1>7. 0 \in S
    BY <1>1, <1>2, <1>5
  <1>8. ASSUME NEW i \in Nat, i \in S PROVE i + 1 \in S
    <2>1. i + 1 \in Nat /\ i + 1 # 0 /\ (i + 1) - 1 = i /\ (i + 1 \in 0..n => i \in 0..n)
      BY SMT
    <2> SUFFICES ASSUME i + 1 \in 0..n PROVE F[i + 1] = g[i + 1]
      BY <2>1
    <2>2. F[i + 1] = OnWire(F[i], due[i + 1])
      BY <1>5, <2>1
    <2>3. g[i + 1] = OnWire(g[i], due[i + 1])
      BY <1>3, <2>1
    <2>4. F[i] = g[i]
      BY <1>8, <2>1
    <2> QED
      BY <2>2, <2>3, <2>4
  <1> HIDE DEF S
  <1>9. n \in S
    BY <1>1, <1>7, <1>8, Induct
  <1>10. F[n] = g[n]
    BY <1>1, <1>9 DEF S
  <1> QED
    BY <1>1, <1>6, <1>10 DEF g

\* What flush leaves in the ring continues what it left on the wire.
LEMMA CarrySent ==
    ASSUME machine \in Machines, NEW due \in Seq(Char), NEW w, NEW e, Carries(due, w, e),
           NEW n \in 0..Len(due)
    PROVE  Carries(SubSeq(due, n + 1, Len(due)), Sent(due, w, n), e)
  <1> DEFINE t == SubSeq(due, n + 1, Len(due))
  <1>1. /\ Len(due) \in Nat /\ n \in Nat /\ n <= Len(due) /\ t \in Seq(Char)
        /\ Len(t) = Len(due) - n
    BY SMT
  <1>2. \A i \in 1..Len(t) : t[i] = due[i + n]
    BY SMT, <1>1
  <1>3. Sent(due, w, n) = IF n = Len(due) THEN e ELSE Before(due[n + 1])
    BY ManySent
  <1> HIDE DEF t
  <1>4. CASE n = Len(due)
    <2>1. t = <<>> /\ 1..(Len(t) - 1) = {}
      BY SMT, <1>1, <1>4
    <2> QED
      BY <1>3, <1>4, <2>1 DEF Carries, t
  <1>5. CASE n # Len(due)
    <2>1. /\ t # <<>> /\ due # <<>> /\ 1 \in 1..Len(t) /\ Len(t) \in 1..Len(t) /\ 1 + n = n + 1
          /\ Len(t) + n = Len(due)
      BY SMT, <1>1, <1>5
    <2>2. t[1] = due[n + 1] /\ t[Len(t)] = due[Len(due)]
      BY <1>2, <2>1
    <2>3. ASSUME NEW i \in 1..(Len(t) - 1) PROVE After(t[i]) = Before(t[i + 1])
      <3>1. /\ i \in 1..Len(t) /\ i + 1 \in 1..Len(t) /\ i + n \in 1..(Len(due) - 1)
            /\ (i + 1) + n = (i + n) + 1
        BY SMT, <1>1
      <3>2. t[i] = due[i + n] /\ t[i + 1] = due[(i + 1) + n]
        BY <1>2, <3>1
      <3> QED
        BY <3>1, <3>2 DEF Carries
    <2> QED
      BY <1>3, <1>5, <2>1, <2>2, <2>3 DEF Carries, t
  <1> QED
    BY <1>4, <1>5

\* What holds of the output now and after a step, in the words of the state before.
LEMMA CarryPrimed ==
    ASSUME machine' = machine, NEW e, Printed' = e, Carries(owed', wire', e)
    PROVE  Carries(owed, wire, Printed)'
  BY DEF Carries, Before, After, Message, MsgLen

\* A step that prints nothing, and neither enters nor leaves printf.
LEMMA QuietStep ==
    ASSUME MessageInv, UNCHANGED <<machine, console, count, owed, wire>>,
           \A p \in Proc : /\ pc'[p] = "put" <=> pc[p] = "put"
                           /\ pc[p] = "put" => step'[p] = step[p]
    PROVE  LockInv' /\ Carries(owed, wire, Printed)'
  <1>1. LockInv /\ Carries(owed, wire, Printed) /\ console \in Proc \cup {NULL}
    BY DEF MessageInv, OutInv, ControlInv
  <1>2. LockInv'
    BY <1>1 DEF LockInv
  <1>3. Printed' = Printed
    BY <1>1 DEF Printed, LockInv, Message
  <1>4. Carries(owed', wire', Printed)
    BY <1>1
  <1> QED
    BY <1>2, <1>3, <1>4, CarryPrimed

\* Processes that are not inside printf.
LEMMA QuietProc ==
    ASSUME MessageInv, NEW p \in Proc, NEW q \in Proc,
           \/ Dispatch(p) \/ Preempt(p) \/ Kill(q, p)
           \/ Yell(p) \/ ReadChar(p) \/ ReadSleep(p)
    PROVE  LockInv' /\ Carries(owed, wire, Printed)'
  <1>1. OutInv /\ ControlInv
    BY DEF MessageInv, OutInv
  <1>2. CASE Dispatch(p) \/ Preempt(p) \/ Kill(q, p)
    <2>1. UNCHANGED <<machine, console, count, owed, wire, pc, step>>
      BY <1>2 DEF Dispatch, Preempt, Kill, lockVars
    <2> QED
      BY <2>1, QuietStep
  <1>3. CASE Yell(p)
    <2>1. UNCHANGED <<machine, console, count, owed, wire, pc>> /\ step[p] = 0
          /\ step' = [step EXCEPT ![p] = 1]
      BY <1>3 DEF Yell, lockVars
    <2>2. ~(0 > 0)
      BY SMT
    <2>3. pc[p] # "put"
      BY <1>1, <2>1, <2>2 DEF ControlInv
    <2>4. \A x \in Proc : x # p => step'[x] = step[x]
      BY <1>1, <2>1 DEF ControlInv
    <2> QED
      BY <2>1, <2>3, <2>4, QuietStep
  <1>4. CASE ReadChar(p)
    <2>1. /\ UNCHANGED <<machine, console, count, owed, wire>> /\ pc[p] = "go"
          /\ \/ pc' = [pc EXCEPT ![p] = "doze"] /\ UNCHANGED step
             \/ NextStep(p) /\ UNCHANGED pc
      BY <1>4 DEF ReadChar, AtOp
    <2>2. \A x \in Proc : /\ pc'[x] = "put" <=> pc[x] = "put"
                          /\ x # p => step'[x] = step[x]
      BY <1>1, <2>1, NextStepOK DEF ControlInv
    <2> QED
      BY <2>1, <2>2, QuietStep
  <1>5. CASE ReadSleep(p)
    <2>1. /\ UNCHANGED <<machine, console, count, owed, wire, step>> /\ pc[p] = "doze"
          /\ pc' = [pc EXCEPT ![p] = "go"]
      BY <1>5 DEF ReadSleep
    <2>2. \A x \in Proc : pc'[x] = "put" <=> pc[x] = "put"
      BY <1>1, <2>1 DEF ControlInv
    <2> QED
      BY <2>1, <2>2, QuietStep
  <1> QED
    BY <1>2, <1>3, <1>4, <1>5

\* printf takes console.lock, or finds its own hart holding it.
LEMMA LockMessages ==
    ASSUME MessageInv, NEW p \in Proc, PrintLock(p)
    PROVE  LockInv' /\ Carries(owed, wire, Printed)'
  <1>1. /\ ControlInv /\ LockInv /\ Carries(owed, wire, Printed)
        /\ UNCHANGED <<machine, count, owed, wire, step>> /\ pc[p] = "go"
    BY DEF MessageInv, OutInv, PrintLock, AtOp
  <1>2. CASE UNCHANGED <<console, pc>>
    BY <1>1, <1>2, QuietStep
  <1>3. CASE console = NULL /\ console' = p /\ pc' = [pc EXCEPT ![p] = "put"]
    <2>1. p # NULL
      BY ProcAssumption
    <2>2. pc \in [Proc -> {"go", "put", "doze"}]
      BY <1>1 DEF ControlInv
    <2>3. LockInv'
      <3>1. pc'[p] = "put" /\ \A q \in Proc : q # p => pc'[q] = pc[q]
        BY <1>3, <2>2
      <3>2. \A q \in Proc : pc[q] # "put" /\ count[q] = 0
        <4>1. \A q \in Proc : q # NULL
          BY ProcAssumption
        <4> QED
          BY <1>1, <1>3, <4>1 DEF LockInv
      <3> QED
        BY <1>1, <1>3, <3>1, <3>2 DEF LockInv
    <2>4. Printed = <<>> /\ count[p] = 0
      BY <1>1, <1>3, <2>1 DEF Printed, LockInv
    <2>5. Printed' = <<>>
      <3>1. Printed' = [i \in 1..0 |-> <<p, step[p], i>>]
        BY <1>1, <1>3, <2>1, <2>4 DEF Printed, Message
      <3> QED
        BY SMT, <3>1
    <2> QED
      BY <1>1, <2>3, <2>4, <2>5, CarryPrimed
  <1> QED
    BY <1>2, <1>3 DEF PrintLock, ConsoleFree

\* flush sends characters of the messages in their order.
LEMMA FlushMessages ==
    ASSUME machine \in Machines, NEW r \in Ring(TxSize, Char), NEW due \in Seq(Char),
           due = Content(r, TxSize), NEW n \in FlushCounts(r), Flush(r, n, due),
           NEW e, Carries(due, wire, e)
    PROVE  Carries(owed', wire', e)
  <1>1. Used(r) \in Nat /\ Len(due) = Used(r)
    BY Sizes, ContentSeq
  <1>2. n \in 0..Len(due)
    BY SMT, <1>1 DEF FlushCounts
  <1>3. wire' = Sent(due, wire, n) /\ owed' = SubSeq(due, n + 1, Len(due))
    BY DEF Flush, Sent
  <1> QED
    BY <1>2, <1>3, CarrySent

\* The transmit half of the handler.
LEMMA HandlerMessages ==
    ASSUME MessageInv, HandlerTx
    PROVE  LockInv' /\ Carries(owed, wire, Printed)'
  <1>1. /\ machine \in Machines /\ LockInv /\ Carries(owed, wire, Printed)
        /\ tx \in Ring(TxSize, Char) /\ owed \in Seq(Char) /\ owed = Content(tx, TxSize)
    BY DEF MessageInv, OutInv, ControlInv, TxInv, OutputInOrder
  <1>2. PICK n \in FlushCounts(tx) : Flush(tx, n, owed)
    BY DEF HandlerTx
  <1>3. UNCHANGED <<machine, console, count, pc, step>>
    BY DEF HandlerTx, lockVars
  <1>4. Carries(owed', wire', Printed)
    BY <1>1, <1>2, FlushMessages
  <1>5. Printed' = Printed
    BY <1>3 DEF Printed, Message
  <1>6. LockInv'
    BY <1>1, <1>3 DEF LockInv
  <1> QED
    BY <1>3, <1>4, <1>5, <1>6, CarryPrimed

\* putc_async puts the next character of the message of the holder of console.lock.
LEMMA PutMessages ==
    ASSUME MessageInv, NEW p \in Proc, PutChar(p)
    PROVE  LockInv' /\ Carries(owed, wire, Printed)'
  <1> DEFINE c == <<p, step[p], count[p] + 1>>
             r == Push(tx, TxSize, c)
  <1>1. /\ OutInv /\ ControlInv /\ LockInv /\ Carries(owed, wire, Printed)
        /\ machine \in Machines /\ machine' = machine /\ pc[p] = "put"
    BY DEF MessageInv, OutInv, ControlInv, PutChar
  <1>2. console = p /\ p # NULL /\ \A q \in Proc : q # p => pc[q] # "put" /\ count[q] = 0
    <2>1. console = p
      BY <1>1 DEF LockInv
    <2> QED
      BY <1>1, <2>1, ProcAssumption DEF LockInv
  <1>3. CASE TxFull(tx)
    <2>1. UNCHANGED <<machine, console, count, owed, wire, pc, step>>
      BY <1>3 DEF PutChar
    <2> QED
      BY <2>1, QuietStep
  <1>4. CASE ~TxFull(tx)
    <2>1. PICK n \in FlushCounts(r) : Flush(r, n, Append(owed, c))
      BY <1>4 DEF PutChar
    <2>2. /\ c \in Char /\ owed \in Seq(Char) /\ r \in Ring(TxSize, Char)
          /\ Append(owed, c) \in Seq(Char) /\ Content(r, TxSize) = Append(owed, c)
      <3>1. Stored(c)
        BY <1>1, <1>4, PutStored
      <3> QED
        BY <3>1 DEF Stored
    <2>3. Before(c) = Printed
      <3>1. c[1] = p /\ c[2] = step[p] /\ c[3] = count[p] + 1
        OBVIOUS
      <3>2. (count[p] + 1) - 1 = count[p]
        BY SMT, <1>1 DEF ControlInv
      <3> QED
        BY <1>2, <3>1, <3>2 DEF Before, Printed
    <2>4. After(c) = IF count[p] + 1 = MsgLen THEN <<>> ELSE Message(p, step[p], count[p] + 1)
      BY DEF After
    <2> HIDE DEF c, r
    <2>5. Carries(Append(owed, c), wire, After(c))
      BY <1>1, <2>2, <2>3, CarryOn
    <2>6. Carries(owed', wire', After(c))
      BY <1>1, <2>1, <2>2, <2>5, FlushMessages
    <2>7. Printed' = After(c) /\ LockInv'
      <3>1. pc \in [Proc -> {"go", "put", "doze"}] /\ count \in [Proc -> 0..MsgLen]
        BY <1>1 DEF ControlInv
      <3>2. CASE count[p] + 1 = MsgLen
        <4>1. /\ count' = [count EXCEPT ![p] = 0] /\ pc' = [pc EXCEPT ![p] = "go"]
              /\ console' = NULL
          BY <1>4, <3>2 DEF PutChar, Unlocked
        <4>2. \A q \in Proc : pc'[q] # "put" /\ count'[q] = 0
          BY <1>2, <3>1, <4>1
        <4>3. LockInv'
          BY <4>1, <4>2 DEF LockInv
        <4> QED
          BY <2>4, <3>2, <4>1, <4>3 DEF Printed
      <3>3. CASE count[p] + 1 # MsgLen
        <4>1. /\ count' = [count EXCEPT ![p] = count[p] + 1]
              /\ pc' = pc /\ console' = console /\ step' = step
          BY <1>4, <3>3 DEF PutChar
        <4>2. count'[p] = count[p] + 1 /\ \A q \in Proc : q # p => count'[q] = count[q]
          BY <3>1, <4>1
        <4>3. LockInv'
          BY <1>1, <1>2, <4>1, <4>2 DEF LockInv
        <4>4. Printed' = Message(p, step[p], count[p] + 1)
          BY <1>2, <4>1, <4>2 DEF Printed, Message
        <4> QED
          BY <2>4, <3>3, <4>3, <4>4
      <3> QED
        BY <3>2, <3>3
    <2> QED
      BY <1>1, <2>6, <2>7, CarryPrimed
  <1> QED
    BY <1>3, <1>4

\* Every step keeps the messages in order.
LEMMA StepMessages == MessageInv /\ [Next]_vars => MessageInv'
  <1> SUFFICES ASSUME MessageInv, [Next]_vars PROVE MessageInv'
    OBVIOUS
  <1>1. OutInv'
    BY StepOut DEF MessageInv
  <1> SUFFICES LockInv' /\ Carries(owed, wire, Printed)'
    BY <1>1 DEF MessageInv
  <1>2. ASSUME NEW p \in Proc, NEW q \in Proc,
               \/ Dispatch(p) \/ Preempt(p) \/ Kill(q, p)
               \/ Yell(p) \/ ReadChar(p) \/ ReadSleep(p)
        PROVE  LockInv' /\ Carries(owed, wire, Printed)'
    BY <1>2, QuietProc
  <1>3. ASSUME NEW p \in Proc, PrintLock(p) PROVE LockInv' /\ Carries(owed, wire, Printed)'
    BY <1>3, LockMessages
  <1>4. ASSUME NEW p \in Proc, PutChar(p) PROVE LockInv' /\ Carries(owed, wire, Printed)'
    BY <1>4, PutMessages
  <1>5. CASE HandlerTx
    BY <1>5, HandlerMessages
  <1>6. CASE \/ Claim \/ HandlerRx \/ HandlerRxEnd \/ Complete \/ Type \/ Transmit
             \/ UNCHANGED vars
    <2>1. UNCHANGED <<machine, console, count, owed, wire, pc, step>>
      BY <1>6 DEF Claim, HandlerRx, HandlerRxEnd, Complete, Type, Transmit, vars, procVars, lockVars
    <2> QED
      BY <2>1, QuietStep
  <1> QED
    BY <1>2, <1>3, <1>4, <1>5, <1>6 DEF Next

\* What is on the wire is the beginning of one message.
LEMMA WireWhole == MessageInv => MessagesWhole
  <1> SUFFICES ASSUME MessageInv PROVE MessagesWhole
    OBVIOUS
  <1>1. /\ ControlInv /\ LockInv /\ Carries(owed, wire, Printed) /\ owed \in Seq(Char)
        /\ machine \in Machines /\ MsgLen \in Nat
    BY MachineFacts DEF MessageInv, OutInv, ControlInv, TxInv
  <1>2. ASSUME NEW p \in Proc, NEW s \in 1..Len(Script), NEW k \in 0..MsgLen,
               wire = Message(p, s, k)
        PROVE  MessagesWhole
    <2>1. /\ wire \in Seq(Char) /\ Len(wire) = k
          /\ \A i \in 1..k : wire[i] = <<p, s, i>>
      BY <1>1, <1>2, MessageSeq
    <2>2. DOMAIN wire = 1..k
      BY SMT, <2>1
    <2>3. ASSUME NEW i \in DOMAIN wire PROVE wire[i] = <<wire[1][1], wire[1][2], i>>
      <3>1. i \in 1..k /\ 1 \in 1..k
        BY SMT, <2>2
      <3>2. wire[1] = <<p, s, 1>> /\ wire[i] = <<p, s, i>>
        BY <2>1, <3>1
      <3>3. wire[1][1] = p /\ wire[1][2] = s
        BY SMT, <3>2
      <3> QED
        BY <3>2, <3>3
    <2> QED
      BY <2>1, <2>3 DEF MessagesWhole
  <1>3. ASSUME wire = <<>> PROVE MessagesWhole
    <2>1. wire \in Seq(Char) /\ DOMAIN wire = {}
      BY SMT, <1>3
    <2> QED
      BY <2>1 DEF MessagesWhole
  <1>4. CASE owed # <<>>
    <2>1. owed[1] \in Char
      BY SMT, <1>1, <1>4
    <2> DEFINE c == owed[1]
    <2>2. wire = Message(c[1], c[2], c[3] - 1)
      BY <1>1, <1>4 DEF Carries, Before
    <2>3. /\ c[1] \in Proc /\ c[2] \in 1..Len(Script) /\ c[3] \in 1..MsgLen
      BY <1>1, <2>1, CharParts
    <2>4. c[3] - 1 \in 0..MsgLen
      BY SMT, <1>1, <2>3
    <2> QED
      BY <1>2, <2>2, <2>3, <2>4
  <1>5. CASE owed = <<>>
    <2>1. wire = Printed
      BY <1>1, <1>5 DEF Carries
    <2>2. CASE console = NULL
      BY <1>3, <2>1, <2>2 DEF Printed
    <2>3. CASE console # NULL
      <3>1. console \in Proc /\ step[console] > 0 /\ step[console] \in 0..Len(Script)
            /\ count[console] \in 0..MsgLen
        BY <1>1, <2>3 DEF LockInv, ControlInv
      <3>2. step[console] \in 1..Len(Script)
        BY SMT, <3>1, ScriptLength
      <3> QED
        BY <1>2, <2>1, <2>3, <3>1, <3>2 DEF Printed
    <2> QED
      BY <2>2, <2>3
  <1> QED
    BY <1>4, <1>5

\* For any number of processes and harts and any ring size, and whenever putc_async
\* sleeps or flush is cut short: the characters of one printf reach THR together and
\* in order, not mixed with those of another.
THEOREM MessagesTogether == Spec => []MessagesWhole
  <1>1. Init => MessageInv
    <2> SUFFICES ASSUME Init PROVE MessageInv
      OBVIOUS
    <2>1. OutInv
      BY InitRing DEF RingInv, OutInv
    <2>2. LockInv
      BY DEF Init, LockInv
    <2>3. Printed = <<>> /\ owed = <<>> /\ wire = <<>>
      BY DEF Init, Printed
    <2>4. 1..(Len(owed) - 1) = {}
      BY SMT, <2>3
    <2>5. Carries(owed, wire, Printed)
      BY <2>3, <2>4 DEF Carries
    <2> QED
      BY <2>1, <2>2, <2>5 DEF MessageInv
  <1> QED
    BY <1>1, StepMessages, WireWhole, PTL DEF Spec

-----------------------------------------------------------------------------
(* Sleepers *)

INSTANCE FiniteSetTheorems

\* The types of what decides who sleeps; an interrupt is handled on some hart.
ShapeInv ==
    /\ machine \in Machines
    /\ st \in [Proc -> {"RUNNABLE", "RUNNING", "SLEEPING"}]
    /\ pc \in [Proc -> {"go", "put", "doze"}]
    /\ tx.head \in 0..(CounterMod - 1) /\ tx.tail \in 0..(CounterMod - 1)
    /\ host \in Proc \cup {NULL, Sched} /\ (hpc = "none" <=> host = NULL)

\* On one hart at most one process runs, and none beside an interrupt taken in
\* scheduler(); the handler interrupts a process only where interrupts are on,
\* and a process on its way to sleep in readc still sees an empty ring.
HostInv ==
    /\ \A p, q \in Proc : st[p] = "RUNNING" /\ st[q] = "RUNNING" => p = q
    /\ host = Sched => \A p \in Proc : st[p] # "RUNNING"
    /\ host \in Proc => st[host] = "RUNNING" /\ pc[host] = "go"
    /\ \A p \in Proc : pc[p] = "doze" => st[p] = "RUNNING" /\ Used(rx) = 0

\* The inductive invariant: the claim about sleepers needs that the handler
\* cannot run between the test of readc and its proc_sleep.
SleepInv == ShapeInv /\ (Harts = 1 => HostInv /\ AwakeInTime)

\* Processes, the scheduler and NULL are told apart.
LEMMA Names == NULL # Sched /\ NULL \notin Proc /\ Sched \notin Proc
  BY ProcAssumption

\* With one hart, a hart that is free to take the interrupt in the scheduler
\* means that no process runs.
LEMMA NobodyRuns ==
    ASSUME FreeHart, Harts = 1
    PROVE  host # Sched /\ \A p \in Proc : st[p] # "RUNNING"
  <1> DEFINE R == {p \in Proc : st[p] = "RUNNING"}
  <1>1. IsFiniteSet(R)
    BY ProcAssumption, FS_Subset
  <1>2. Cardinality(R) \in Nat
    BY <1>1, FS_CardinalityType
  <1>3. Cardinality(R) = 0 /\ host # Sched
    BY SMT, <1>2 DEF FreeHart
  <1>4. R = {}
    BY <1>1, <1>3, FS_EmptySet
  <1> QED
    BY <1>3, <1>4

\* proc_wakeup(c) makes the sleepers on c runnable and changes no other state.
LEMMA WokenStates ==
    ASSUME ShapeInv, NEW c
    PROVE  /\ Woken(c) \in [Proc -> {"RUNNABLE", "RUNNING", "SLEEPING"}]
           /\ \A p \in Proc : /\ Woken(c)[p] = "RUNNING" <=> st[p] = "RUNNING"
                              /\ Woken(c)[p] = "SLEEPING" => st[p] = "SLEEPING" /\ ~SleepsOn(p, c)
  BY DEF Woken, ShapeInv, SleepsOn

\* scheduler() dispatches a process; the timer interrupt preempts one.
LEMMA ScheduleStep ==
    ASSUME SleepInv, NEW p \in Proc, Dispatch(p) \/ Preempt(p)
    PROVE  SleepInv'
  <1> USE DEF SleepInv, ShapeInv
  <1>1. CASE Dispatch(p)
    <2>1. ShapeInv'
      BY <1>1 DEF Dispatch
    <2>2. ASSUME Harts' = 1 PROVE HostInv'
      BY <1>1, <2>2, NobodyRuns, Names DEF Dispatch, HostInv, Harts, Used
    <2>3. ASSUME Harts' = 1 PROVE AwakeInTime'
      BY <1>1, <2>3 DEF Dispatch, AwakeInTime, Harts, SleepsOn, Used
    <2> QED
      BY <2>1, <2>2, <2>3
  <1>2. CASE Preempt(p)
    <2>1. ShapeInv'
      BY <1>2 DEF Preempt
    <2>2. ASSUME Harts' = 1 PROVE HostInv'
      BY <1>2, <2>2, Names DEF Preempt, InterruptsOn, Running, HostInv, Harts, Used
    <2>3. ASSUME Harts' = 1 PROVE AwakeInTime'
      BY <1>2, <2>3 DEF Preempt, AwakeInTime, Harts, SleepsOn, Used
    <2> QED
      BY <2>1, <2>2, <2>3
  <1> QED
    BY <1>1, <1>2

\* A step that changes neither a process state nor a ring.
LEMMA StillStep ==
    ASSUME SleepInv, UNCHANGED <<machine, st, pc, tx, rx, host>>, hpc' = "none" <=> hpc = "none"
    PROVE  SleepInv'
  BY DEF SleepInv, ShapeInv, HostInv, AwakeInTime, SleepsOn, Harts, Used

\* proc_kill wakes its victim if that sleeps.
LEMMA KillStep ==
    ASSUME SleepInv, NEW p \in Proc, NEW q \in Proc, Kill(q, p)
    PROVE  SleepInv'
  <1> USE DEF SleepInv, ShapeInv, Kill
  <1>1. ShapeInv'
    OBVIOUS
  <1>2. ASSUME Harts' = 1 PROVE HostInv'
    BY <1>2 DEF HostInv, Harts, Used
  <1>3. ASSUME Harts' = 1 PROVE AwakeInTime'
    BY <1>3 DEF AwakeInTime, Harts, SleepsOn, Used
  <1> QED
    BY <1>1, <1>2, <1>3

\* printf takes the console lock.
LEMMA PrintLockStep ==
    ASSUME SleepInv, NEW p \in Proc, PrintLock(p)
    PROVE  SleepInv'
  <1> USE DEF SleepInv, ShapeInv, PrintLock, AtOp, Running
  <1>1. ShapeInv'
    OBVIOUS
  <1>2. ASSUME Harts' = 1 PROVE HostInv'
    BY <1>2 DEF HostInv, Harts, Used
  <1>3. ASSUME Harts' = 1 PROVE AwakeInTime'
    BY <1>3 DEF AwakeInTime, Harts, SleepsOn, Used
  <1> QED
    BY <1>1, <1>2, <1>3

\* flush either sends nothing and wakes nobody, or wakes every process
\* that sleeps on the transmit ring.
LEMMA Flushed ==
    ASSUME ShapeInv, NEW r, r.head \in 0..(CounterMod - 1), r.tail \in 0..(CounterMod - 1),
           NEW due, NEW n \in FlushCounts(r), Flush(r, n, due), st' = WokenByFlush(n)
    PROVE  /\ tx'.head \in 0..(CounterMod - 1) /\ tx'.tail \in 0..(CounterMod - 1)
           /\ st' \in [Proc -> {"RUNNABLE", "RUNNING", "SLEEPING"}]
           /\ \A p \in Proc : /\ st'[p] = "RUNNING" <=> st[p] = "RUNNING"
                              /\ st'[p] = "SLEEPING" => st[p] = "SLEEPING"
           /\ \/ Used(tx') = Used(r) /\ st' = st
              \/ \A p \in Proc : st'[p] = "SLEEPING" => ~SleepsOn(p, "tx")
  <1>1. tx' = Pop(r, n)
    BY DEF Flush
  <1>2. CounterMod \in Nat \ {0}
    BY SMT, SizeAssumption
  <1>3. n \in Nat
    BY SMTT(30), <1>2 DEF FlushCounts, Used
  <1>4. tx'.head = (r.head + n) % CounterMod /\ tx'.tail = r.tail
    BY <1>1 DEF Pop
  <1>5. tx'.head \in 0..(CounterMod - 1) /\ tx'.tail \in 0..(CounterMod - 1)
    BY SMTT(30), <1>2, <1>3, <1>4
  <1>6. CASE n = 0
    <2>1. (r.head + 0) % CounterMod = r.head
      BY SMTT(30), <1>2
    <2>2. st' = st /\ Used(tx') = Used(r)
      BY SMTT(30), <1>4, <1>6, <2>1 DEF WokenByFlush, Used
    <2> QED
      BY <1>5, <2>2 DEF ShapeInv
  <1>7. CASE n > 0
    BY <1>5, <1>7, WokenStates DEF WokenByFlush
  <1> QED
    BY SMT, <1>3, <1>6, <1>7

\* putc_async sleeps only when the transmit ring is full, and otherwise stores
\* its character and flushes.
LEMMA PutCharStep ==
    ASSUME SleepInv, NEW p \in Proc, PutChar(p)
    PROVE  SleepInv'
  <1> DEFINE c == <<p, step[p], count[p] + 1>>
             r == Push(tx, TxSize, c)
  <1>1. /\ Running(p) /\ pc[p] = "put" /\ UNCHANGED <<machine, rx, host, hpc>>
        /\ pc' \in [Proc -> {"go", "put", "doze"}]
        /\ \A q \in Proc : pc'[q] # pc[q] => q = p /\ pc'[q] = "go"
    <2>1. Running(p) /\ pc[p] = "put" /\ UNCHANGED <<machine, rx, host, hpc>>
      BY DEF PutChar
    <2>2. pc' = pc \/ pc' = [pc EXCEPT ![p] = "go"]
      BY DEF PutChar
    <2>3. pc \in [Proc -> {"go", "put", "doze"}]
      BY DEF SleepInv, ShapeInv
    <2> QED
      BY <2>1, <2>2, <2>3
  <1>2. CASE TxFull(tx)
    <2>1. st' = [st EXCEPT ![p] = "SLEEPING"] /\ UNCHANGED <<pc, tx>>
      BY <1>2 DEF PutChar
    <2>2. ShapeInv'
      BY <1>1, <2>1 DEF SleepInv, ShapeInv
    <2>3. ASSUME Harts' = 1 PROVE HostInv'
      BY SMTT(30), <1>1, <2>1, <2>3 DEF SleepInv, ShapeInv, HostInv, Harts, Used, Running
    <2>4. ASSUME Harts' = 1 PROVE AwakeInTime'
      BY <1>1, <1>2, <2>1, <2>4 DEF SleepInv, ShapeInv, AwakeInTime, SleepsOn, Harts, Used, TxFull
    <2> QED
      BY <2>2, <2>3, <2>4 DEF SleepInv
  <1>3. CASE ~TxFull(tx)
    <2>1. PICK n \in FlushCounts(r) : Flush(r, n, Append(owed, c)) /\ st' = WokenByFlush(n)
      BY <1>3 DEF PutChar
    <2>2. r.head \in 0..(CounterMod - 1) /\ r.tail \in 0..(CounterMod - 1)
      <3>1. r.head = tx.head /\ r.tail = (tx.tail + 1) % CounterMod
        BY DEF Push
      <3>2. CounterMod \in Nat \ {0}
        BY SMT, SizeAssumption
      <3> QED
        BY SMTT(30), <3>1, <3>2 DEF SleepInv, ShapeInv
    <2> HIDE DEF r
    <2>3. /\ tx'.head \in 0..(CounterMod - 1) /\ tx'.tail \in 0..(CounterMod - 1)
          /\ st' \in [Proc -> {"RUNNABLE", "RUNNING", "SLEEPING"}]
          /\ \A q \in Proc : /\ st'[q] = "RUNNING" <=> st[q] = "RUNNING"
                             /\ st'[q] = "SLEEPING" => st[q] = "SLEEPING"
      BY <2>1, <2>2, Flushed DEF SleepInv
    <2>4. ShapeInv'
      BY <1>1, <2>3 DEF SleepInv, ShapeInv
    <2>5. ASSUME Harts' = 1 PROVE HostInv'
      BY SMTT(30), <1>1, <2>3, <2>5 DEF SleepInv, HostInv, Harts, Used
    <2>6. ASSUME Harts' = 1 PROVE AwakeInTime'
      <3>1. \A q \in Proc : st[q] = "SLEEPING" => pc[q] # "put" /\ Used(rx) = 0
        BY <1>1, <1>3, <2>6 DEF SleepInv, AwakeInTime, SleepsOn, Harts, TxFull
      <3> QED
        BY <1>1, <2>3, <3>1 DEF AwakeInTime, SleepsOn, Running, Used
    <2> QED
      BY <2>4, <2>5, <2>6 DEF SleepInv
  <1> QED
    BY <1>2, <1>3

\* readc finds the ring empty, and then sleeps: with interrupts off on the
\* only hart, no key can arrive in between.
LEMMA ReadStep ==
    ASSUME SleepInv, NEW p \in Proc, ReadChar(p) \/ ReadSleep(p)
    PROVE  SleepInv'
  <1> USE DEF SleepInv, ShapeInv
  <1>1. CASE ReadChar(p)
    <2> USE DEF ReadChar, AtOp, Running
    <2>1. ShapeInv'
      BY <1>1
    <2>2. ASSUME Harts' = 1 PROVE HostInv'
      BY <1>1, <2>2 DEF HostInv, Harts, Used, RxEmpty
    <2>3. ASSUME Harts' = 1 PROVE AwakeInTime'
      BY <1>1, <2>3 DEF AwakeInTime, Harts, SleepsOn, Used, RxEmpty
    <2> QED
      BY <2>1, <2>2, <2>3
  <1>2. CASE ReadSleep(p)
    <2> USE DEF ReadSleep, Running
    <2>1. ShapeInv'
      BY <1>2
    <2>2. ASSUME Harts' = 1 PROVE HostInv'
      BY <1>2, <2>2 DEF HostInv, Harts, Used
    <2>3. ASSUME Harts' = 1 PROVE AwakeInTime'
      BY <1>2, <2>3 DEF AwakeInTime, HostInv, Harts, SleepsOn, Used
    <2> QED
      BY <2>1, <2>2, <2>3
  <1> QED
    BY <1>1, <1>2

\* The hart that takes the interrupt has interrupts on.
LEMMA ClaimStep ==
    ASSUME SleepInv, Claim
    PROVE  SleepInv'
  <1> USE DEF SleepInv, ShapeInv
  <1>1. PICK h \in {p \in Proc : InterruptsOn(p)} \cup (IF FreeHart THEN {Sched} ELSE {}) :
          host' = h
    BY DEF Claim
  <1>2. UNCHANGED <<machine, st, pc, tx, rx>> /\ hpc' = "rx"
    BY DEF Claim, procVars
  <1>3. ShapeInv'
    BY SMT, <1>1, <1>2, Names
  <1>4. ASSUME Harts' = 1 PROVE HostInv'
    BY <1>1, <1>2, <1>4, NobodyRuns, Names DEF HostInv, Harts, Used, InterruptsOn, Running
  <1>5. ASSUME Harts' = 1 PROVE AwakeInTime'
    BY <1>2, <1>5 DEF AwakeInTime, Harts, SleepsOn, Used
  <1> QED
    BY <1>3, <1>4, <1>5

\* The handler stores a key and wakes the readers.
LEMMA HandlerRxStep ==
    ASSUME SleepInv, HandlerRx
    PROVE  SleepInv'
  <1>1. /\ UNCHANGED <<machine, pc, tx, host, hpc>> /\ st' = Woken("rx") /\ hpc = "rx"
    BY DEF HandlerRx
  <1>2. /\ st' \in [Proc -> {"RUNNABLE", "RUNNING", "SLEEPING"}]
        /\ \A p \in Proc : /\ st'[p] = "RUNNING" <=> st[p] = "RUNNING"
                           /\ st'[p] = "SLEEPING" => st[p] = "SLEEPING" /\ ~SleepsOn(p, "rx")
    BY <1>1, WokenStates DEF SleepInv
  <1>3. ShapeInv'
    BY <1>1, <1>2 DEF SleepInv, ShapeInv
  <1>4. ASSUME Harts' = 1 PROVE HostInv'
    BY <1>1, <1>2, <1>4 DEF SleepInv, ShapeInv, HostInv, Harts
  <1>5. ASSUME Harts' = 1 PROVE AwakeInTime'
    BY <1>1, <1>2, <1>5 DEF SleepInv, AwakeInTime, SleepsOn, Harts, Used
  <1> QED
    BY <1>3, <1>4, <1>5 DEF SleepInv

\* The handler flushes the transmit ring and wakes the writers.
LEMMA HandlerTxStep ==
    ASSUME SleepInv, HandlerTx
    PROVE  SleepInv'
  <1>1. UNCHANGED <<machine, pc, rx, host>> /\ hpc = "tx" /\ hpc' = "complete"
    BY DEF HandlerTx
  <1>2. PICK n \in FlushCounts(tx) : Flush(tx, n, owed) /\ st' = WokenByFlush(n)
    BY DEF HandlerTx
  <1>3. /\ tx'.head \in 0..(CounterMod - 1) /\ tx'.tail \in 0..(CounterMod - 1)
        /\ st' \in [Proc -> {"RUNNABLE", "RUNNING", "SLEEPING"}]
        /\ \A p \in Proc : /\ st'[p] = "RUNNING" <=> st[p] = "RUNNING"
                           /\ st'[p] = "SLEEPING" => st[p] = "SLEEPING"
        /\ \/ Used(tx') = Used(tx) /\ st' = st
           \/ \A p \in Proc : st'[p] = "SLEEPING" => ~SleepsOn(p, "tx")
    BY <1>2, Flushed DEF SleepInv, ShapeInv
  <1>4. ShapeInv'
    BY <1>1, <1>3 DEF SleepInv, ShapeInv
  <1>5. ASSUME Harts' = 1 PROVE HostInv'
    BY <1>1, <1>3, <1>5 DEF SleepInv, HostInv, Harts, Used
  <1>6. ASSUME Harts' = 1 PROVE AwakeInTime'
    <2>1. Used(tx)' = Used(tx') /\ Used(rx)' = Used(rx)
      BY <1>1 DEF Used
    <2> QED
      BY <1>1, <1>3, <1>6, <2>1 DEF SleepInv, AwakeInTime, SleepsOn, Harts
  <1> QED
    BY <1>4, <1>5, <1>6 DEF SleepInv

\* plic_complete: the interrupted code goes on.
LEMMA CompleteStep ==
    ASSUME SleepInv, Complete
    PROVE  SleepInv'
  <1> USE DEF SleepInv, ShapeInv, Complete, procVars
  <1>1. ShapeInv'
    OBVIOUS
  <1>2. ASSUME Harts' = 1 PROVE HostInv'
    BY <1>2, Names DEF HostInv, Harts, Used
  <1>3. ASSUME Harts' = 1 PROVE AwakeInTime'
    BY <1>3 DEF AwakeInTime, Harts, SleepsOn, Used
  <1> QED
    BY <1>1, <1>2, <1>3

\* At the start nobody sleeps.
LEMMA InitSleep == Init => SleepInv
  <1>1. CounterMod \in Nat \ {0}
    BY SMT, SizeAssumption
  <1> SUFFICES ASSUME Init PROVE SleepInv
    OBVIOUS
  <1>2. ShapeInv
    BY SMT, <1>1, Names DEF Init, ShapeInv, EmptyRing
  <1>3. HostInv /\ AwakeInTime
    BY Names DEF Init, HostInv, AwakeInTime, SleepsOn
  <1> QED
    BY <1>2, <1>3 DEF SleepInv

\* Every step keeps SleepInv.
LEMMA StepSleep == SleepInv /\ [Next]_vars => SleepInv'
  <1> SUFFICES ASSUME SleepInv, [Next]_vars PROVE SleepInv'
    OBVIOUS
  <1>1. ASSUME NEW p \in Proc, Dispatch(p) \/ Preempt(p) PROVE SleepInv'
    BY <1>1, ScheduleStep
  <1>2. ASSUME NEW p \in Proc, NEW q \in Proc, Kill(q, p) PROVE SleepInv'
    BY <1>2, KillStep
  <1>3. ASSUME NEW p \in Proc, Yell(p) PROVE SleepInv'
    BY <1>3, StillStep DEF Yell
  <1>4. ASSUME NEW p \in Proc, PrintLock(p) PROVE SleepInv'
    BY <1>4, PrintLockStep
  <1>5. ASSUME NEW p \in Proc, PutChar(p) PROVE SleepInv'
    BY <1>5, PutCharStep
  <1>6. ASSUME NEW p \in Proc, ReadChar(p) \/ ReadSleep(p) PROVE SleepInv'
    BY <1>6, ReadStep
  <1>7. CASE HandlerRxEnd \/ Type \/ Transmit
    BY <1>7, StillStep DEF HandlerRxEnd, Type, Transmit, procVars
  <1>8. CASE UNCHANGED vars
    BY <1>8, StillStep DEF vars, procVars
  <1> QED
    BY <1>1, <1>2, <1>3, <1>4, <1>5, <1>6, <1>7, <1>8, ClaimStep, HandlerRxStep, HandlerTxStep,
       CompleteStep DEF Next

\* On one hart, for any number of processes and any buffer sizes, nobody sleeps
\* on the channel of a ring that has become ready: whoever waits in putc_async
\* waits on a full transmit ring, whoever waits in readc on an empty receive
\* ring, so the wakeups of flush and of the handler are never missed.
THEOREM Awake == Spec => []NoSleeperForgotten
  <1>1. SleepInv => NoSleeperForgotten
    BY DEF SleepInv, NoSleeperForgotten
  <1> QED
    BY <1>1, InitSleep, StepSleep, PTL DEF Spec
=============================================================================
