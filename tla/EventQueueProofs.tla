-------------------------- MODULE EventQueueProofs --------------------------
(***************************************************************************)
(* Proofs about EventQueue, for any sensors, posts, queue sizes and number *)
(* of restarts.                                                            *)
(*                                                                         *)
(* What is on its way is held in two queues, and for a moment in both of   *)
(* them: the thread takes a post out of the pending queue only after it    *)
(* wrote it and got the mutex again.  The inductive invariant QueueInv     *)
(* says how the parts fit together: both queues are in the order of the    *)
(* posts and one comes before the other (OrderInv), the size is that of    *)
(* the pending queue (SizeMatches), and initializeCommon has excluded the  *)
(* thread and the posts by the time it clears the queues (ControlInv).     *)
(* One lemma per step of the queues shows that it keeps QueueInv and what  *)
(* it does to the events on their way: adds the first events of a post,    *)
(* takes the oldest, or loses a run of them.  No stale event, the balance  *)
(* of the wakelock and the refinement of EventStream follow from that.     *)
(***************************************************************************)
EXTENDS EventQueue, FiniteSetTheorems, SequenceTheorems, TLAPS

-----------------------------------------------------------------------------
(* Sequences of events, in the order of their numbers, and sets of them.   *)

Increasing(s) == \A i, j \in DOMAIN s : i < j => s[i].id < s[j].id

Before(S, T) == \A e \in S, f \in T : e.id < f.id

LEMMA BeforeDisjoint ==
  ASSUME NEW S \in SUBSET Event, NEW T, Before(S, T)
  PROVE  S \cap T = {}
  BY DEF Before, Event

LEMMA SeqFacts ==
  ASSUME NEW s \in Seq(Event)
  PROVE  /\ Len(s) \in Nat /\ DOMAIN s = 1..Len(s)
         /\ \A i \in 1..Len(s) : s[i] \in Event /\ s[i].id \in Nat \ {0}
         /\ ToSet(s) = {s[i] : i \in 1..Len(s)}
         /\ ToSet(s) \subseteq Event
         /\ s = <<>> <=> Len(s) = 0
         /\ s = <<>> <=> ToSet(s) = {}
<1>1. /\ Len(s) \in Nat /\ DOMAIN s = 1..Len(s)
      /\ \A i \in 1..Len(s) : s[i] \in Event
      /\ s = <<>> <=> Len(s) = 0
  BY LenProperties, ElementOfSeq, EmptySeq
<1>2. \A e \in Event : e.id \in Nat \ {0}
  BY DEF Event
<1>3. ToSet(s) = {s[i] : i \in 1..Len(s)}
  BY <1>1, Zenon DEF ToSet
<1>4. Len(s) # 0 => s[1] \in ToSet(s)
  BY <1>1, <1>3
<1>5. Len(s) = 0 => ToSet(s) = {}
  BY <1>1, <1>3
<1> QED
  BY <1>1, <1>2, <1>3, <1>4, <1>5

LEMMA SubSeqFacts ==
  ASSUME NEW s \in Seq(Event), NEW m \in Int, NEW n \in Int,
         \A i \in m..n : s[i] \in Event
  PROVE  /\ SubSeq(s, m, n) \in Seq(Event)
         /\ Len(SubSeq(s, m, n)) = IF m <= n THEN n - m + 1 ELSE 0
         /\ \A i \in 1..(n - m + 1) : SubSeq(s, m, n)[i] = s[m + i - 1]
<1>1. SubSeq(s, m, n) \in Seq(Event)
  BY SubSeqProperties
<1>2. Len(SubSeq(s, m, n)) = IF m <= n THEN n - m + 1 ELSE 0
  OBVIOUS
<1>3. \A i \in 1..(n - m + 1) : SubSeq(s, m, n)[i] = s[m + i - 1]
  OBVIOUS
<1> QED
  BY <1>1, <1>2, <1>3, Zenon

(* A sequence cut in two.                                                  *)
LEMMA SplitSeq ==
  ASSUME NEW s \in Seq(Event), Increasing(s), NEW n \in 0..Len(s)
  PROVE  LET a == SubSeq(s, 1, n)
             b == SubSeq(s, n + 1, Len(s))
         IN  /\ a \in Seq(Event) /\ Len(a) = n /\ Increasing(a)
             /\ b \in Seq(Event) /\ Len(b) = Len(s) - n /\ Increasing(b)
             /\ ToSet(s) = ToSet(a) \cup ToSet(b)
             /\ Before(ToSet(a), ToSet(b))
<1> DEFINE a == SubSeq(s, 1, n)
           b == SubSeq(s, n + 1, Len(s))
<1>1. /\ Len(s) \in Nat /\ DOMAIN s = 1..Len(s) /\ ToSet(s) = {s[i] : i \in 1..Len(s)}
      /\ \A i \in 1..Len(s) : s[i] \in Event
  BY SeqFacts
<1>2. a \in Seq(Event) /\ Len(a) = n /\ \A i \in 1..n : a[i] = s[i]
  <2>1. 1 \in Int /\ n \in Int /\ \A i \in 1..n : s[i] \in Event
    BY <1>1
  <2>2. /\ a \in Seq(Event)
        /\ Len(a) = IF 1 <= n THEN n - 1 + 1 ELSE 0
        /\ \A i \in 1..(n - 1 + 1) : a[i] = s[1 + i - 1]
    BY <2>1, SubSeqFacts, Zenon
  <2> QED
    BY <2>2, <1>1
<1>3. /\ b \in Seq(Event) /\ Len(b) = Len(s) - n
      /\ \A i \in 1..(Len(s) - n) : b[i] = s[n + i]
  <2>1. n + 1 \in Int /\ Len(s) \in Int /\ \A i \in (n + 1)..Len(s) : s[i] \in Event
    BY <1>1
  <2>2. /\ b \in Seq(Event)
        /\ Len(b) = IF n + 1 <= Len(s) THEN Len(s) - (n + 1) + 1 ELSE 0
        /\ \A i \in 1..(Len(s) - (n + 1) + 1) : b[i] = s[n + 1 + i - 1]
    BY <2>1, SubSeqFacts, Zenon
  <2> HIDE DEF b
  <2>3. n \in Int /\ Len(s) \in Int /\ n <= Len(s)
    BY <1>1
  <2>4. Len(b) = Len(s) - n
    BY <2>2, <2>3
  <2>5. ASSUME NEW i \in 1..(Len(s) - n)
        PROVE  b[i] = s[n + i]
    <3>1. i \in 1..(Len(s) - (n + 1) + 1) /\ n + 1 + i - 1 = n + i
      BY <2>3
    <3> QED
      BY <3>1, <2>2
  <2> QED
    BY <2>2, <2>4, <2>5
<1> HIDE DEF a, b
<1>4. ToSet(a) = {a[i] : i \in 1..n} /\ ToSet(b) = {b[i] : i \in 1..(Len(s) - n)}
  BY <1>2, <1>3, SeqFacts
<1>5. DOMAIN a = 1..n /\ DOMAIN b = 1..(Len(s) - n)
  BY <1>2, <1>3, SeqFacts
<1>6. Increasing(a)
  BY <1>1, <1>2, <1>5 DEF Increasing
<1>7. Increasing(b)
  <2> SUFFICES ASSUME NEW i \in 1..(Len(s) - n), NEW j \in 1..(Len(s) - n), i < j
               PROVE  b[i].id < b[j].id
    BY <1>5 DEF Increasing
  <2>1. n + i \in 1..Len(s) /\ n + j \in 1..Len(s) /\ n + i < n + j
    BY <1>1
  <2> QED
    BY <2>1, <1>1, <1>3 DEF Increasing
<1>8. ToSet(s) = ToSet(a) \cup ToSet(b)
  <2>1. \A i \in 1..Len(s) : i \in 1..n \/ (i - n \in 1..(Len(s) - n) /\ n + (i - n) = i)
    BY <1>1
  <2>2. ASSUME NEW i \in 1..Len(s)
        PROVE  s[i] \in ToSet(a) \cup ToSet(b)
    <3>1. CASE i \in 1..n
      BY <3>1, <1>2, <1>4
    <3>2. CASE i - n \in 1..(Len(s) - n) /\ n + (i - n) = i
      <4>1. b[i - n] = s[n + (i - n)]
        BY <3>2, <1>3
      <4> QED
        BY <3>2, <4>1, <1>4
    <3> QED
      BY <3>1, <3>2, <2>1
  <2>3. \A i \in 1..n : i \in 1..Len(s)
    BY <1>1
  <2>4. \A i \in 1..(Len(s) - n) : n + i \in 1..Len(s)
    BY <1>1
  <2>5. ToSet(a) \subseteq ToSet(s)
    BY <2>3, <1>1, <1>2, <1>4
  <2>6. ToSet(b) \subseteq ToSet(s)
    BY <2>4, <1>1, <1>3, <1>4
  <2> QED
    BY <2>2, <2>5, <2>6, <1>1
<1>9. Before(ToSet(a), ToSet(b))
  <2> SUFFICES ASSUME NEW i \in 1..n, NEW j \in 1..(Len(s) - n)
               PROVE  a[i].id < b[j].id
    BY <1>4 DEF Before
  <2>1. i \in 1..Len(s) /\ n + j \in 1..Len(s) /\ i < n + j
    BY <1>1
  <2> QED
    BY <2>1, <1>1, <1>2, <1>3 DEF Increasing
<1> QED
  BY <1>2, <1>3, <1>6, <1>7, <1>8, <1>9 DEF a, b

LEMMA WholeSeq ==
  ASSUME NEW s \in Seq(Event), Increasing(s)
  PROVE  ToSet(SubSeq(s, 1, Len(s))) = ToSet(s)
<1> DEFINE n == Len(s)
           b == SubSeq(s, n + 1, n)
<1>1. n \in 0..n
  BY LenProperties
<1>2. b \in Seq(Event) /\ Len(b) = n - n /\ ToSet(s) = ToSet(SubSeq(s, 1, n)) \cup ToSet(b)
  BY <1>1, SplitSeq
<1> HIDE DEF n, b
<1>3. n - n = 0
  BY <1>1
<1>4. ToSet(b) = {}
  BY <1>2, <1>3, SeqFacts
<1> QED
  BY <1>2, <1>4 DEF n

(* Two sequences joined.                                                   *)
LEMMA ConcatSeq ==
  ASSUME NEW a \in Seq(Event), Increasing(a), NEW b \in Seq(Event), Increasing(b),
         Before(ToSet(a), ToSet(b))
  PROVE  /\ a \o b \in Seq(Event) /\ Len(a \o b) = Len(a) + Len(b) /\ Increasing(a \o b)
         /\ ToSet(a \o b) = ToSet(a) \cup ToSet(b)
<1>1. PICK s : s = a \o b
  OBVIOUS
<1>2. /\ s \in Seq(Event)
      /\ Len(s) = Len(a) + Len(b)
      /\ \A i \in 1..(Len(a) + Len(b)) : s[i] = IF i <= Len(a) THEN a[i] ELSE b[i - Len(a)]
  BY <1>1, ConcatProperties
<1>3. /\ Len(a) \in Nat /\ ToSet(a) = {a[i] : i \in 1..Len(a)} /\ DOMAIN a = 1..Len(a)
      /\ Len(b) \in Nat /\ ToSet(b) = {b[i] : i \in 1..Len(b)} /\ DOMAIN b = 1..Len(b)
  BY SeqFacts
<1>4. DOMAIN s = 1..Len(s) /\ ToSet(s) = {s[i] : i \in 1..Len(s)}
  BY <1>2, SeqFacts
<1>5. /\ \A i \in 1..Len(a) : i \in 1..Len(s) /\ s[i] = a[i]
      /\ \A i \in 1..Len(b) : Len(a) + i \in 1..Len(s) /\ s[Len(a) + i] = b[i]
  <2>1. \A i \in 1..Len(a) : i \in 1..Len(s) /\ i \in 1..(Len(a) + Len(b)) /\ i <= Len(a)
    BY <1>2, <1>3
  <2>2. \A i \in 1..Len(b) : /\ Len(a) + i \in 1..Len(s) /\ Len(a) + i \in 1..(Len(a) + Len(b))
                             /\ ~(Len(a) + i <= Len(a)) /\ Len(a) + i - Len(a) = i
    BY <1>2, <1>3
  <2> QED
    BY <2>1, <2>2, <1>2
<1>6. \A i \in 1..Len(s) :
        \/ i \in 1..Len(a) /\ s[i] = a[i]
        \/ i - Len(a) \in 1..Len(b) /\ s[i] = b[i - Len(a)]
  BY <1>2, <1>3
<1>7. ToSet(s) = ToSet(a) \cup ToSet(b)
  <2>1. ToSet(s) \subseteq ToSet(a) \cup ToSet(b)
    BY <1>3, <1>4, <1>6
  <2>2. ToSet(a) \subseteq ToSet(s)
    BY <1>3, <1>4, <1>5
  <2>3. ToSet(b) \subseteq ToSet(s)
    BY <1>3, <1>4, <1>5
  <2> QED
    BY <2>1, <2>2, <2>3
<1>8. Increasing(s)
  <2> SUFFICES ASSUME NEW i \in 1..Len(s), NEW j \in 1..Len(s), i < j
               PROVE  s[i].id < s[j].id
    BY <1>4 DEF Increasing
  <2>1. CASE j \in 1..Len(a)
    <3>1. i \in 1..Len(a)
      BY <2>1, <1>2, <1>3
    <3> QED
      BY <2>1, <3>1, <1>3, <1>5 DEF Increasing
  <2>2. CASE i \in 1..Len(a) /\ j \notin 1..Len(a)
    <3>1. s[i] \in ToSet(a)
      BY <2>2, <1>3, <1>5
    <3>2. s[j] \in ToSet(b)
      BY <2>2, <1>3, <1>6
    <3> QED
      BY <3>1, <3>2 DEF Before
  <2>3. CASE i \notin 1..Len(a)
    <3>1. j \notin 1..Len(a)
      BY <2>3, <1>2, <1>3
    <3>2. /\ i - Len(a) \in 1..Len(b) /\ s[i] = b[i - Len(a)]
          /\ j - Len(a) \in 1..Len(b) /\ s[j] = b[j - Len(a)]
      BY <2>3, <3>1, <1>6
    <3>3. i - Len(a) < j - Len(a)
      BY <1>2, <1>3
    <3> QED
      BY <3>2, <3>3, <1>3 DEF Increasing
  <2> QED
    BY <2>1, <2>2, <2>3
<1> QED
  BY <1>1, <1>2, <1>7, <1>8

(* A sequence without its first event.                                     *)
LEMMA TailSeq ==
  ASSUME NEW s \in Seq(Event), Increasing(s), s # <<>>
  PROVE  /\ Head(s) \in Event
         /\ Tail(s) \in Seq(Event) /\ Len(Tail(s)) = Len(s) - 1 /\ Increasing(Tail(s))
         /\ ToSet(s) = ToSet(Tail(s)) \cup {Head(s)}
         /\ Before({Head(s)}, ToSet(Tail(s)))
<1>1. /\ Len(s) \in Nat /\ Len(s) # 0 /\ ToSet(s) = {s[i] : i \in 1..Len(s)}
      /\ DOMAIN s = 1..Len(s) /\ \A i \in 1..Len(s) : s[i] \in Event
  BY SeqFacts
<1>2. PICK t : t = Tail(s)
  OBVIOUS
<1>3. /\ t \in Seq(Event) /\ Len(t) = Len(s) - 1 /\ Head(s) = s[1]
      /\ \A i \in 1..Len(t) : t[i] = s[i + 1]
  BY <1>2, HeadTailProperties
<1>4. ToSet(t) = {t[i] : i \in 1..Len(t)} /\ DOMAIN t = 1..Len(t)
  BY <1>3, SeqFacts
<1>5. \A i \in 1..Len(t) : i + 1 \in 1..Len(s) /\ 1 < i + 1
  BY <1>1, <1>3
<1>6. 1 \in 1..Len(s)
  BY <1>1
<1>7. \A i \in 1..Len(s) : i = 1 \/ (i - 1 \in 1..Len(t) /\ (i - 1) + 1 = i)
  BY <1>1, <1>3
<1>8. ToSet(s) = ToSet(t) \cup {s[1]}
  <2>1. ASSUME NEW i \in 1..Len(s)
        PROVE  s[i] \in ToSet(t) \cup {s[1]}
    <3>1. CASE i - 1 \in 1..Len(t) /\ (i - 1) + 1 = i
      <4>1. t[i - 1] = s[(i - 1) + 1]
        BY <3>1, <1>3
      <4> QED
        BY <3>1, <4>1, <1>4
    <3> QED
      BY <3>1, <1>7
  <2>2. ToSet(t) \cup {s[1]} \subseteq ToSet(s)
    BY <1>1, <1>3, <1>4, <1>5, <1>6
  <2> QED
    BY <2>1, <2>2, <1>1
<1>9. Before({s[1]}, ToSet(t))
  BY <1>1, <1>3, <1>4, <1>5, <1>6 DEF Before, Increasing
<1>10. Increasing(t)
  <2> SUFFICES ASSUME NEW i \in 1..Len(t), NEW j \in 1..Len(t), i < j
               PROVE  t[i].id < t[j].id
    BY <1>4 DEF Increasing
  <2>1. i + 1 \in DOMAIN s /\ j + 1 \in DOMAIN s /\ i + 1 < j + 1
    BY <1>1, <1>5
  <2> QED
    BY <2>1, <1>3 DEF Increasing
<1> QED
  BY <1>1, <1>2, <1>3, <1>6, <1>8, <1>9, <1>10

(* No event comes twice in such a sequence.                                *)
LEMMA SeqSize ==
  ASSUME NEW s \in Seq(Event), Increasing(s)
  PROVE  IsFiniteSet(ToSet(s)) /\ Cardinality(ToSet(s)) = Len(s)
<1>1. /\ Len(s) \in Nat /\ ToSet(s) = {s[i] : i \in 1..Len(s)}
      /\ DOMAIN s = 1..Len(s) /\ \A i \in 1..Len(s) : s[i].id \in Nat
  BY SeqFacts
<1> DEFINE f == [i \in 1..Len(s) |-> s[i]]
<1>2. IsFiniteSet(1..Len(s)) /\ Cardinality(1..Len(s)) = Len(s)
  <2>1. 1 \in Int /\ Len(s) \in Int
    BY <1>1
  <2>2. /\ IsFiniteSet(1..Len(s))
        /\ Cardinality(1..Len(s)) = IF 1 > Len(s) THEN 0 ELSE Len(s) - 1 + 1
    BY <2>1, FS_Interval, Zenon
  <2> QED
    BY <2>2, <1>1
<1>3. f \in [1..Len(s) -> ToSet(s)]
  BY <1>1
<1>4. \A e \in ToSet(s) : \E i \in 1..Len(s) : f[i] = e
  BY <1>1
<1>5. \A i, j \in 1..Len(s) : f[i] = f[j] => i = j
  <2> SUFFICES ASSUME NEW i \in 1..Len(s), NEW j \in 1..Len(s), s[i] = s[j], i # j
               PROVE  FALSE
    OBVIOUS
  <2>1. i < j \/ j < i
    BY <1>1
  <2> QED
    BY <2>1, <1>1 DEF Increasing
<1> HIDE DEF f
<1>6. f \in Surjection(1..Len(s), ToSet(s)) /\ f \in Injection(1..Len(s), ToSet(s))
  BY <1>3, <1>4, <1>5, Zenon DEF Surjection, Injection, IsInjective
<1> QED
  BY <1>2, <1>6, FS_Surjection

(* countNumWakeupEvents counts the wake-up events of the first n.          *)
LEMMA CountIsSize ==
  ASSUME NEW s \in Seq(Event), Increasing(s), NEW n \in 0..Len(s)
  PROVE  CountNumWakeupEvents(s, n) =
           Cardinality({e \in ToSet(SubSeq(s, 1, n)) : e.wake})
<1> DEFINE I == {i \in 1..n : s[i].wake}
           a == SubSeq(s, 1, n)
           E == {e \in ToSet(a) : e.wake}
           f == [i \in I |-> s[i]]
<1>1. /\ Len(s) \in Nat /\ DOMAIN s = 1..Len(s)
      /\ \A i \in 1..Len(s) : s[i] \in Event /\ s[i].id \in Nat
  BY SeqFacts
<1>2. a \in Seq(Event) /\ Len(a) = n /\ \A i \in 1..n : a[i] = s[i]
  <2>1. 1 \in Int /\ n \in Int /\ \A i \in 1..n : s[i] \in Event
    BY <1>1
  <2>2. /\ a \in Seq(Event)
        /\ Len(a) = IF 1 <= n THEN n - 1 + 1 ELSE 0
        /\ \A i \in 1..(n - 1 + 1) : a[i] = s[1 + i - 1]
    BY <2>1, SubSeqFacts, Zenon
  <2> QED
    BY <2>2, <1>1
<1>3. ToSet(a) = {s[i] : i \in 1..n}
  <2> HIDE DEF a
  <2> QED
    BY <1>2, SeqFacts
<1>4. IsFiniteSet(I)
  <2>1. IsFiniteSet(1..n)
    BY FS_Interval
  <2> QED
    BY <2>1, FS_Subset
<1> HIDE DEF a
<1>5. f \in [I -> E]
  BY <1>3
<1>6. \A e \in E : \E i \in I : f[i] = e
  BY <1>3
<1>7. \A i, j \in I : f[i] = f[j] => i = j
  <2> SUFFICES ASSUME NEW i \in 1..n, NEW j \in 1..n, s[i] = s[j], i # j
               PROVE  FALSE
    OBVIOUS
  <2>1. (i < j \/ j < i) /\ i \in 1..Len(s) /\ j \in 1..Len(s)
    BY <1>1
  <2> QED
    BY <2>1, <1>1 DEF Increasing
<1> HIDE DEF f, I, E
<1>8. f \in Surjection(I, E) /\ f \in Injection(I, E)
  BY <1>5, <1>6, <1>7, Zenon DEF Surjection, Injection, IsInjective
<1>9. Cardinality(E) = Cardinality(I)
  BY <1>4, <1>8, FS_Surjection
<1> QED
  BY <1>9 DEF CountNumWakeupEvents, I, E, a

-----------------------------------------------------------------------------
(* Queues of posts, every event of a post numbered before those of the     *)
(* posts behind it.                                                        *)

AllEvents(q) == UNION {ToSet(q[i].events) : i \in DOMAIN q}

InPostOrder(q) ==
  /\ \A i \in DOMAIN q : q[i].events # <<>> /\ Increasing(q[i].events)
  /\ \A i, j \in DOMAIN q : i < j => Before(ToSet(q[i].events), ToSet(q[j].events))

LEMMA QueueFacts ==
  ASSUME NEW q \in Seq(PendingPost)
  PROVE  /\ Len(q) \in Nat /\ DOMAIN q = 1..Len(q) /\ (q = <<>> <=> Len(q) = 0)
         /\ \A i \in 1..Len(q) : /\ q[i] \in PendingPost
                                 /\ q[i].events \in Seq(Event)
                                 /\ q[i].numWakeupEvents \in Nat
                                 /\ ToSet(q[i].events) \subseteq Event
         /\ AllEvents(q) = UNION {ToSet(q[i].events) : i \in 1..Len(q)}
         /\ AllEvents(q) \subseteq Event
<1>1. /\ Len(q) \in Nat /\ DOMAIN q = 1..Len(q) /\ (q = <<>> <=> Len(q) = 0)
      /\ \A i \in 1..Len(q) : q[i] \in PendingPost
  BY LenProperties, ElementOfSeq, EmptySeq
<1>2. \A p \in PendingPost : p.events \in Seq(Event) /\ p.numWakeupEvents \in Nat
  BY DEF PendingPost
<1>3. \A i \in 1..Len(q) : /\ q[i].events \in Seq(Event)
                           /\ q[i].numWakeupEvents \in Nat
                           /\ ToSet(q[i].events) \subseteq Event
  BY <1>1, <1>2, SeqFacts, Zenon
<1>4. AllEvents(q) = UNION {ToSet(q[i].events) : i \in 1..Len(q)}
  BY <1>1, Zenon DEF AllEvents
<1> QED
  BY <1>1, <1>3, <1>4

LEMMA QueueFinite ==
  ASSUME NEW q \in Seq(PendingPost), InPostOrder(q)
  PROVE  IsFiniteSet(AllEvents(q))
<1> DEFINE S == {ToSet(q[i].events) : i \in 1..Len(q)}
           f == [i \in 1..Len(q) |-> ToSet(q[i].events)]
<1>1. /\ Len(q) \in Nat /\ DOMAIN q = 1..Len(q)
      /\ \A i \in 1..Len(q) : q[i].events \in Seq(Event)
      /\ AllEvents(q) = UNION S
  BY QueueFacts
<1>2. f \in Surjection(1..Len(q), S)
  BY Zenon DEF Surjection
<1>3. IsFiniteSet(1..Len(q))
  BY <1>1, FS_Interval
<1> HIDE DEF f
<1>4. IsFiniteSet(S)
  BY <1>2, <1>3, FS_Surjection
<1>5. \A i \in 1..Len(q) : IsFiniteSet(ToSet(q[i].events))
  BY <1>1, SeqSize, Zenon DEF InPostOrder
<1>6. \A T \in S : IsFiniteSet(T)
  BY <1>5, Zenon
<1> HIDE DEF S
<1> QED
  BY <1>1, <1>4, <1>6, FS_UNION

(* A post of later events is put behind.                                   *)
LEMMA AppendPost ==
  ASSUME NEW q \in Seq(PendingPost), InPostOrder(q),
         NEW p \in PendingPost, p.events # <<>>, Increasing(p.events),
         Before(AllEvents(q), ToSet(p.events))
  PROVE  LET r == Append(q, p)
         IN  /\ r \in Seq(PendingPost) /\ Len(r) = Len(q) + 1 /\ r # <<>>
             /\ \A i \in 1..Len(q) : r[i] = q[i]
             /\ r[Len(q) + 1] = p
             /\ InPostOrder(r)
             /\ AllEvents(r) = AllEvents(q) \cup ToSet(p.events)
             /\ q # <<>> => Head(r) = Head(q)
<1>1. /\ Len(q) \in Nat /\ DOMAIN q = 1..Len(q) /\ (q = <<>> <=> Len(q) = 0)
      /\ AllEvents(q) = UNION {ToSet(q[i].events) : i \in 1..Len(q)}
  BY QueueFacts
<1>2. PICK r : r = Append(q, p)
  OBVIOUS
<1>3. /\ r \in Seq(PendingPost) /\ Len(r) = Len(q) + 1 /\ r # <<>>
      /\ \A i \in 1..Len(q) : r[i] = q[i]
      /\ r[Len(q) + 1] = p
  BY <1>2, AppendProperties
<1>4. DOMAIN r = 1..Len(r) /\ AllEvents(r) = UNION {ToSet(r[i].events) : i \in 1..Len(r)}
  BY <1>3, QueueFacts
<1>5. \A i \in 1..Len(r) : i \in 1..Len(q) \/ i = Len(q) + 1
  BY <1>1, <1>3
<1>6. Len(q) + 1 \in 1..Len(r) /\ \A i \in 1..Len(q) : i \in 1..Len(r) /\ i < Len(q) + 1
  BY <1>1, <1>3
<1>7. AllEvents(r) = AllEvents(q) \cup ToSet(p.events)
  <2>1. ASSUME NEW e \in AllEvents(r)
        PROVE  e \in AllEvents(q) \cup ToSet(p.events)
    BY <1>1, <1>3, <1>4, <1>5, Zenon
  <2>2. ASSUME NEW e \in AllEvents(q)
        PROVE  e \in AllEvents(r)
    <3>1. PICK i \in 1..Len(q) : e \in ToSet(q[i].events)
      BY <2>2, <1>1
    <3>2. i \in 1..Len(r) /\ r[i] = q[i]
      BY <1>3, <1>6
    <3> QED
      BY <3>1, <3>2, <1>4
  <2>3. ASSUME NEW e \in ToSet(p.events)
        PROVE  e \in AllEvents(r)
    BY <1>3, <1>4, <1>6, Zenon
  <2> QED
    BY <2>1, <2>2, <2>3
<1>8. \A i \in 1..Len(r) : r[i].events # <<>> /\ Increasing(r[i].events)
  BY <1>1, <1>3, <1>5 DEF InPostOrder
<1>9. ASSUME NEW i \in 1..Len(r), NEW j \in 1..Len(r), i < j
      PROVE  Before(ToSet(r[i].events), ToSet(r[j].events))
  <2>1. i \in 1..Len(q)
    BY <1>1, <1>3, <1>9
  <2>2. CASE j \in 1..Len(q)
    BY <2>1, <2>2, <1>1, <1>3, <1>9, Zenon DEF InPostOrder
  <2>3. CASE j = Len(q) + 1
    <3>1. ToSet(q[i].events) \subseteq AllEvents(q)
      BY <2>1, <1>1
    <3> QED
      BY <3>1, <2>1, <2>3, <1>3, Zenon DEF Before
  <2> QED
    BY <2>2, <2>3, <1>5
<1>10. InPostOrder(r)
  BY <1>4, <1>8, <1>9 DEF InPostOrder
<1>11. q # <<>> => Head(r) = Head(q)
  <2>1. q # <<>> => 1 \in 1..Len(q)
    BY <1>1
  <2>2. Head(r) = r[1] /\ (q # <<>> => Head(q) = q[1])
    BY <1>3, HeadTailProperties
  <2> QED
    BY <2>1, <2>2, <1>3
<1> QED
  BY <1>2, <1>3, <1>7, <1>10, <1>11

(* The posts behind the first one.                                         *)
LEMMA TailPosts ==
  ASSUME NEW q \in Seq(PendingPost), InPostOrder(q), q # <<>>
  PROVE  LET r == Tail(q)
         IN  /\ Head(q) = q[1] /\ 1 \in DOMAIN q
             /\ r \in Seq(PendingPost) /\ Len(r) = Len(q) - 1
             /\ \A i \in 1..Len(r) : r[i] = q[i + 1]
             /\ InPostOrder(r)
             /\ AllEvents(q) = ToSet(q[1].events) \cup AllEvents(r)
             /\ Before(ToSet(q[1].events), AllEvents(r))
<1>1. /\ Len(q) \in Nat /\ Len(q) # 0 /\ DOMAIN q = 1..Len(q)
      /\ AllEvents(q) = UNION {ToSet(q[i].events) : i \in 1..Len(q)}
  BY QueueFacts
<1>2. PICK r : r = Tail(q)
  OBVIOUS
<1>3. /\ Head(q) = q[1] /\ r \in Seq(PendingPost) /\ Len(r) = Len(q) - 1
      /\ \A i \in 1..Len(r) : r[i] = q[i + 1]
  BY <1>2, HeadTailProperties
<1>4. DOMAIN r = 1..Len(r) /\ AllEvents(r) = UNION {ToSet(r[i].events) : i \in 1..Len(r)}
  BY <1>3, QueueFacts
<1>5. 1 \in 1..Len(q) /\ \A i \in 1..Len(r) : i + 1 \in 1..Len(q) /\ 1 < i + 1
  BY <1>1, <1>3
<1>6. \A i \in 1..Len(q) : i = 1 \/ (i - 1 \in 1..Len(r) /\ (i - 1) + 1 = i)
  BY <1>1, <1>3
<1>7. AllEvents(q) = ToSet(q[1].events) \cup AllEvents(r)
  <2>1. ASSUME NEW i \in 1..Len(q)
        PROVE  ToSet(q[i].events) \subseteq ToSet(q[1].events) \cup AllEvents(r)
    <3>1. CASE i - 1 \in 1..Len(r) /\ (i - 1) + 1 = i
      <4>1. r[i - 1] = q[i]
        <5>1. r[i - 1] = q[(i - 1) + 1]
          BY <3>1, <1>3, Zenon
        <5> QED
          BY <5>1, <3>1, Zenon
      <4> QED
        BY <3>1, <4>1, <1>4, Zenon
    <3> QED
      BY <3>1, <1>6, Zenon
  <2>2. AllEvents(q) \subseteq ToSet(q[1].events) \cup AllEvents(r)
    BY <2>1, <1>1, Zenon
  <2>3. ASSUME NEW i \in 1..Len(r)
        PROVE  ToSet(r[i].events) \subseteq AllEvents(q)
    BY <1>1, <1>3, <1>5, Zenon
  <2>4. AllEvents(r) \subseteq AllEvents(q)
    BY <2>3, <1>4, Zenon
  <2>5. ToSet(q[1].events) \subseteq AllEvents(q)
    BY <1>1, <1>5, Zenon
  <2> QED
    BY <2>2, <2>4, <2>5
<1>8. Before(ToSet(q[1].events), AllEvents(r))
  <2> SUFFICES ASSUME NEW i \in 1..Len(r)
               PROVE  Before(ToSet(q[1].events), ToSet(r[i].events))
    BY <1>4, Zenon DEF Before
  <2> QED
    BY <1>1, <1>3, <1>5, Zenon DEF InPostOrder
<1>9. InPostOrder(r)
  <2>1. \A i \in 1..Len(r) : r[i].events # <<>> /\ Increasing(r[i].events)
    BY <1>1, <1>3, <1>5, Zenon DEF InPostOrder
  <2>2. ASSUME NEW i \in 1..Len(r), NEW j \in 1..Len(r), i < j
        PROVE  Before(ToSet(r[i].events), ToSet(r[j].events))
    <3>1. i + 1 \in 1..Len(q) /\ j + 1 \in 1..Len(q) /\ i + 1 < j + 1
      BY <1>5, <2>2
    <3> QED
      BY <3>1, <1>1, <1>3, Zenon DEF InPostOrder
  <2> QED
    BY <2>1, <2>2, <1>4 DEF InPostOrder
<1> QED
  BY <1>1, <1>2, <1>3, <1>5, <1>7, <1>8, <1>9

(* The first n events of the first post, and what is behind them.          *)
LEMMA ChunkOfFront ==
  ASSUME NEW q \in Seq(PendingPost), InPostOrder(q), q # <<>>,
         NEW n \in 0..Len(q[1].events)
  PROVE  LET chunk == SubSeq(q[1].events, 1, n)
             rest == SubSeq(q[1].events, n + 1, Len(q[1].events))
             behind == ToSet(rest) \cup AllEvents(Tail(q))
         IN  /\ chunk \in Seq(Event) /\ Len(chunk) = n /\ Increasing(chunk)
             /\ rest \in Seq(Event) /\ Len(rest) = Len(q[1].events) - n /\ Increasing(rest)
             /\ ToSet(chunk) \subseteq AllEvents(q)
             /\ AllEvents(q) \ ToSet(chunk) = behind
             /\ Before(ToSet(chunk), behind)
             /\ Before(ToSet(rest), AllEvents(Tail(q)))
<1> DEFINE s == q[1].events
           chunk == SubSeq(s, 1, n)
           rest == SubSeq(s, n + 1, Len(s))
<1>1. /\ s \in Seq(Event) /\ Increasing(s)
      /\ AllEvents(q) = ToSet(s) \cup AllEvents(Tail(q))
      /\ Before(ToSet(s), AllEvents(Tail(q)))
  <2>1. 1 \in DOMAIN q
    BY TailPosts
  <2> QED
    BY <2>1, TailPosts, QueueFacts DEF InPostOrder
<1> HIDE DEF s
<1>2. n \in 0..Len(s)
  BY DEF s
<1>3. /\ chunk \in Seq(Event) /\ Len(chunk) = n /\ Increasing(chunk)
      /\ rest \in Seq(Event) /\ Len(rest) = Len(s) - n /\ Increasing(rest)
      /\ ToSet(s) = ToSet(chunk) \cup ToSet(rest)
      /\ Before(ToSet(chunk), ToSet(rest))
  BY <1>1, <1>2, SplitSeq
<1>4. ToSet(chunk) \subseteq Event
  BY <1>3, SeqFacts
<1> HIDE DEF chunk, rest
<1>5. Before(ToSet(chunk), ToSet(rest) \cup AllEvents(Tail(q)))
  BY <1>1, <1>3 DEF Before
<1>6. Before(ToSet(rest), AllEvents(Tail(q)))
  BY <1>1, <1>3 DEF Before
<1>7. ToSet(chunk) \cap (ToSet(rest) \cup AllEvents(Tail(q))) = {}
  BY <1>4, <1>5, BeforeDisjoint
<1>8. AllEvents(q) = ToSet(chunk) \cup (ToSet(rest) \cup AllEvents(Tail(q)))
  BY <1>1, <1>3
<1>9. /\ ToSet(chunk) \subseteq AllEvents(q)
      /\ AllEvents(q) \ ToSet(chunk) = ToSet(rest) \cup AllEvents(Tail(q))
  BY <1>7, <1>8
<1> QED
  BY <1>3, <1>5, <1>6, <1>9 DEF s, chunk, rest

(* The queue without the first n events of its first post.                 *)
WithoutChunk(q, n) == [q EXCEPT ![1].events = SubSeq(@, n + 1, Len(@))]

LEMMA ChunkTaken ==
  ASSUME NEW q \in Seq(PendingPost), InPostOrder(q), q # <<>>,
         NEW n \in 0..Len(q[1].events), n < Len(q[1].events)
  PROVE  LET r == WithoutChunk(q, n)
             rest == SubSeq(q[1].events, n + 1, Len(q[1].events))
         IN  /\ r \in Seq(PendingPost) /\ Len(r) = Len(q) /\ r # <<>>
             /\ r[1] = [events |-> rest, numWakeupEvents |-> q[1].numWakeupEvents]
             /\ \A i \in 2..Len(q) : r[i] = q[i]
             /\ InPostOrder(r)
             /\ AllEvents(r) = AllEvents(q) \ ToSet(SubSeq(q[1].events, 1, n))
<1> DEFINE s == q[1].events
           rest == SubSeq(s, n + 1, Len(s))
           p == [events |-> rest, numWakeupEvents |-> q[1].numWakeupEvents]
<1>1. PICK r : r = WithoutChunk(q, n)
  OBVIOUS
<1>2. /\ Len(q) \in Nat /\ Len(q) # 0 /\ DOMAIN q = 1..Len(q)
      /\ \A i \in 1..Len(q) : q[i] \in PendingPost
      /\ AllEvents(q) = UNION {ToSet(q[i].events) : i \in 1..Len(q)}
      /\ 1 \in 1..Len(q)
  BY QueueFacts
<1>3. /\ s \in Seq(Event) /\ q[1].numWakeupEvents \in Nat
      /\ q[1] = [events |-> s, numWakeupEvents |-> q[1].numWakeupEvents]
  BY <1>2 DEF PendingPost
<1>4. /\ rest \in Seq(Event) /\ Len(rest) = Len(s) - n /\ Increasing(rest)
      /\ AllEvents(q) \ ToSet(SubSeq(s, 1, n)) = ToSet(rest) \cup AllEvents(Tail(q))
      /\ Before(ToSet(rest), AllEvents(Tail(q)))
  BY ChunkOfFront
<1> HIDE DEF s
<1>5. Len(s) \in Nat /\ rest # <<>>
  <2>1. Len(s) \in Nat /\ Len(rest) # 0
    BY <1>3, <1>4, SeqFacts DEF s
  <2> QED
    BY <2>1, <1>4, SeqFacts
<1>6. p \in PendingPost
  BY <1>3, <1>4 DEF PendingPost
<1>7. r = [q EXCEPT ![1] = p]
  <2>1. PICK m : m = q[1].numWakeupEvents
    OBVIOUS
  <2>2. q[1] = [events |-> s, numWakeupEvents |-> m]
    BY <1>3, <2>1
  <2>3. [q[1] EXCEPT !.events = rest] = [events |-> rest, numWakeupEvents |-> m]
    <3>1. \A e, f : [[events |-> e, numWakeupEvents |-> m] EXCEPT !.events = f]
                      = [events |-> f, numWakeupEvents |-> m]
      OBVIOUS
    <3> HIDE DEF rest
    <3>2. [[events |-> s, numWakeupEvents |-> m] EXCEPT !.events = rest]
            = [events |-> rest, numWakeupEvents |-> m]
      BY <3>1
    <3> QED
      BY <2>2, <3>2
  <2>4. r = [q EXCEPT ![1] = [q[1] EXCEPT !.events = rest]]
    BY <1>1 DEF WithoutChunk, s
  <2> QED
    BY <2>1, <2>3, <2>4
<1> HIDE DEF rest
<1>8. p.events = rest
  OBVIOUS
<1> HIDE DEF p
<1>9. /\ r \in Seq(PendingPost) /\ Len(r) = Len(q) /\ r # <<>> /\ r[1] = p
      /\ \A i \in 1..Len(q) : i # 1 => r[i] = q[i]
  <2>1. r \in Seq(PendingPost) /\ Len(r) = Len(q) /\ r[1] = p
    BY <1>2, <1>6, <1>7, ExceptSeq
  <2>2. \A i \in 1..Len(q) : i # 1 => r[i] = q[i]
    BY <1>2, <1>7
  <2>3. r # <<>>
    BY <2>1, <1>2, QueueFacts
  <2> QED
    BY <2>1, <2>2, <2>3
<1>10. DOMAIN r = 1..Len(q) /\ AllEvents(r) = UNION {ToSet(r[i].events) : i \in 1..Len(q)}
  BY <1>9, QueueFacts
<1>11. /\ Tail(q) \in Seq(PendingPost) /\ Len(Tail(q)) = Len(q) - 1
       /\ \A i \in 1..Len(Tail(q)) : Tail(q)[i] = q[i + 1]
       /\ AllEvents(Tail(q)) = UNION {ToSet(Tail(q)[i].events) : i \in 1..Len(Tail(q))}
  BY TailPosts, QueueFacts
<1>12. \A i \in 1..Len(q) : i # 1 => ToSet(q[i].events) \subseteq AllEvents(Tail(q))
  <2> SUFFICES ASSUME NEW i \in 1..Len(q), i # 1
               PROVE  ToSet(q[i].events) \subseteq AllEvents(Tail(q))
    OBVIOUS
  <2>1. PICK k : k = i - 1
    OBVIOUS
  <2>2. k \in 1..Len(Tail(q)) /\ k + 1 = i
    BY <2>1, <1>2, <1>11
  <2>3. Tail(q)[k] = q[i]
    <3>1. Tail(q)[k] = q[k + 1]
      BY <2>2, <1>11, Zenon
    <3> QED
      BY <3>1, <2>2, Zenon
  <2> QED
    BY <2>2, <2>3, <1>11, Zenon
<1>13. AllEvents(r) = ToSet(rest) \cup AllEvents(Tail(q))
  <2>1. ASSUME NEW i \in 1..Len(q)
        PROVE  ToSet(r[i].events) \subseteq ToSet(rest) \cup AllEvents(Tail(q))
    BY <1>8, <1>9, <1>12, Zenon
  <2>2. AllEvents(r) \subseteq ToSet(rest) \cup AllEvents(Tail(q))
    BY <2>1, <1>10, Zenon
  <2>3. ToSet(rest) \subseteq AllEvents(r)
    BY <1>2, <1>8, <1>9, <1>10, Zenon
  <2>4. ASSUME NEW i \in 1..Len(Tail(q))
        PROVE  ToSet(Tail(q)[i].events) \subseteq AllEvents(r)
    <3>1. i + 1 \in 1..Len(q) /\ i + 1 # 1
      BY <1>2, <1>11
    <3>2. r[i + 1] = Tail(q)[i]
      BY <3>1, <1>9, <1>11, Zenon
    <3> QED
      BY <3>1, <3>2, <1>10, Zenon
  <2>5. AllEvents(Tail(q)) \subseteq AllEvents(r)
    BY <2>4, <1>11, Zenon
  <2> QED
    BY <2>2, <2>3, <2>5
<1>14. \A i \in 1..Len(q) : r[i].events # <<>> /\ Increasing(r[i].events)
  BY <1>2, <1>4, <1>5, <1>8, <1>9, Zenon DEF InPostOrder
<1>15. ASSUME NEW i \in 1..Len(q), NEW j \in 1..Len(q), i < j
       PROVE  Before(ToSet(r[i].events), ToSet(r[j].events))
  <2>1. j # 1
    BY <1>15, <1>2
  <2>2. CASE i = 1
    <3>1. ToSet(r[j].events) \subseteq AllEvents(Tail(q))
      BY <2>1, <1>9, <1>12, Zenon
    <3> QED
      BY <3>1, <2>2, <1>4, <1>8, <1>9, Zenon DEF Before
  <2>3. CASE i # 1
    <3>1. r[i] = q[i] /\ r[j] = q[j]
      BY <2>1, <2>3, <1>9, Zenon
    <3> QED
      BY <3>1, <1>2, <1>15, Zenon DEF InPostOrder
  <2> QED
    BY <2>2, <2>3
<1>16. InPostOrder(r)
  BY <1>10, <1>14, <1>15 DEF InPostOrder
<1>17. \A i \in 2..Len(q) : r[i] = q[i]
  <2>1. \A i \in 2..Len(q) : i \in 1..Len(q) /\ i # 1
    BY <1>2
  <2> QED
    BY <2>1, <1>9
<1> QED
  BY <1>1, <1>4, <1>9, <1>13, <1>16, <1>17 DEF p, s, rest

(* The first and the last event of a queue.                                *)
LEMMA FirstAndLast ==
  ASSUME NEW q \in Seq(PendingPost), InPostOrder(q), q # <<>>
  PROVE  \E a, b \in AllEvents(q) : \A e \in AllEvents(q) : a.id <= e.id /\ e.id <= b.id
<1> DEFINE n == Len(q)
           s(i) == q[i].events
<1>1. /\ n \in Nat /\ n # 0 /\ DOMAIN q = 1..n
      /\ \A i \in 1..n : s(i) \in Seq(Event)
      /\ AllEvents(q) = UNION {ToSet(s(i)) : i \in 1..n}
      /\ AllEvents(q) \subseteq Event
  BY QueueFacts
<1>2. /\ \A i \in 1..n : s(i) # <<>> /\ Increasing(s(i))
      /\ \A i, j \in 1..n : i < j => Before(ToSet(s(i)), ToSet(s(j)))
  BY <1>1, Zenon DEF InPostOrder
<1> HIDE DEF n, s
<1>3. ASSUME NEW i \in 1..n
      PROVE  /\ Len(s(i)) \in Nat \ {0} /\ ToSet(s(i)) = {s(i)[k] : k \in 1..Len(s(i))}
             /\ \A k \in 1..Len(s(i)) : s(i)[k].id \in Nat
             /\ \A k, l \in 1..Len(s(i)) : k < l => s(i)[k].id < s(i)[l].id
             /\ ToSet(s(i)) \subseteq AllEvents(q)
  <2>1. s(i) \in Seq(Event) /\ s(i) # <<>> /\ Increasing(s(i))
    BY <1>1, <1>2
  <2>2. ToSet(s(i)) \subseteq AllEvents(q)
    BY <1>1
  <2> QED
    BY <2>1, <2>2, SeqFacts DEF Increasing
<1>4. 1 \in 1..n /\ n \in 1..n
  BY <1>1
<1> DEFINE a == s(1)[1]
           b == s(n)[Len(s(n))]
<1>5. a \in ToSet(s(1)) /\ \A e \in ToSet(s(1)) : a.id <= e.id
  <2>1. 1 \in 1..Len(s(1)) /\ \A k \in 1..Len(s(1)) : k = 1 \/ 1 < k
    BY <1>3, <1>4
  <2>2. a \in ToSet(s(1))
    BY <2>1, <1>3, <1>4, Zenon
  <2>3. ASSUME NEW k \in 1..Len(s(1))
        PROVE  a.id <= s(1)[k].id
    BY <2>1, <1>3, <1>4
  <2>4. ToSet(s(1)) = {s(1)[k] : k \in 1..Len(s(1))}
    BY <1>3, <1>4
  <2> QED
    BY <2>2, <2>3, <2>4
<1>6. b \in ToSet(s(n)) /\ \A e \in ToSet(s(n)) : e.id <= b.id
  <2>1. Len(s(n)) \in 1..Len(s(n)) /\ \A k \in 1..Len(s(n)) : k = Len(s(n)) \/ k < Len(s(n))
    BY <1>3, <1>4
  <2>2. b \in ToSet(s(n))
    BY <2>1, <1>3, <1>4, Zenon
  <2>3. ASSUME NEW k \in 1..Len(s(n))
        PROVE  s(n)[k].id <= b.id
    BY <2>1, <1>3, <1>4
  <2>4. ToSet(s(n)) = {s(n)[k] : k \in 1..Len(s(n))}
    BY <1>3, <1>4
  <2> QED
    BY <2>2, <2>3, <2>4
<1>7. a \in AllEvents(q) /\ b \in AllEvents(q)
  BY <1>3, <1>4, <1>5, <1>6
<1> HIDE DEF a, b
<1>8. ASSUME NEW i \in 1..n, NEW e \in ToSet(s(i))
      PROVE  a.id <= e.id /\ e.id <= b.id
  <2>0. e.id \in Nat /\ a.id \in Nat /\ b.id \in Nat
    BY <1>1, <1>3, <1>7 DEF Event
  <2>1. a.id <= e.id
    <3>1. CASE i = 1
      BY <3>1, <1>5
    <3>2. CASE 1 < i
      <4>1. a.id < e.id
        BY <3>2, <1>2, <1>4, <1>5, Zenon DEF Before
      <4> QED
        BY <4>1, <2>0
    <3> QED
      BY <3>1, <3>2, <1>1
  <2>2. e.id <= b.id
    <3>1. CASE i = n
      BY <3>1, <1>6
    <3>2. CASE i < n
      <4>1. e.id < b.id
        BY <3>2, <1>2, <1>4, <1>6, Zenon DEF Before
      <4> QED
        BY <4>1, <2>0
    <3> QED
      BY <3>1, <3>2, <1>1
  <2> QED
    BY <2>1, <2>2
<1>9. \A e \in AllEvents(q) : a.id <= e.id /\ e.id <= b.id
  BY <1>1, <1>8, Zenon
<1> QED
  BY <1>7, <1>9, Zenon

-----------------------------------------------------------------------------
(* The inductive invariant.                                                *)

(* What initializeCommon has achieved when it gets to each of its steps:   *)
(* the thread is gone, then no post is in progress, then nothing pends.    *)
ControlInv ==
  /\ mThreadsRun <=> control = "running"
  /\ control \in {"disable", "clear", "start"} => thread = "done"
  /\ control \in {"clear", "start"} => \A c \in Clients : client[c] # "checked"
  /\ control = "start" => mPendingWriteEventsQueue = <<>>
  /\ thread \in {"writing", "wrote"} => mPendingWriteEventsQueue # <<>>

(* The events in the FMQ come before those pending, both queues are in the *)
(* order of the posts, and between the last event read and the next one.   *)
OrderInv ==
  /\ Increasing(mEventQueue)
  /\ InPostOrder(mPendingWriteEventsQueue)
  /\ Before(ToSet(mEventQueue), PendingEvents \ Written)
  /\ \A e \in EventsOnTheWay : lastRead < e.id
  /\ \A e \in ToSet(mEventQueue) \cup PendingEvents : e.id < nextId

QueueInv == TypeOK /\ ControlInv /\ OrderInv /\ SizeMatches

(* A pending post keeps the number of its wake-up events, or more once     *)
(* some of them were written.                                              *)
WakeupInv ==
  \A i \in DOMAIN mPendingWriteEventsQueue :
    LET post == mPendingWriteEventsQueue[i]
        wakeups == CountNumWakeupEvents(post.events, Len(post.events))
    IN  /\ post.numWakeupEvents >= wakeups
        /\ ~split => post.numWakeupEvents = wakeups

LEMMA PendingIsAll == PendingEvents = AllEvents(mPendingWriteEventsQueue)
  BY DEF PendingEvents, AllEvents

(* Sets of events, in the states of the invariant.                         *)
LEMMA SetFacts ==
  ASSUME TypeOK, OrderInv
  PROVE  /\ PendingEvents \subseteq Event /\ IsFiniteSet(PendingEvents)
         /\ ToSet(mEventQueue) \subseteq Event /\ IsFiniteSet(ToSet(mEventQueue))
         /\ EventsOnTheWay \subseteq Event /\ IsFiniteSet(EventsOnTheWay)
<1>1. /\ mEventQueue \in Seq(Event) /\ mPendingWriteEventsQueue \in Seq(PendingPost)
      /\ Increasing(mEventQueue) /\ InPostOrder(mPendingWriteEventsQueue)
  BY Zenon DEF TypeOK, OrderInv
<1>2. PendingEvents \subseteq Event /\ IsFiniteSet(PendingEvents)
  BY <1>1, PendingIsAll, QueueFacts, QueueFinite
<1>3. ToSet(mEventQueue) \subseteq Event /\ IsFiniteSet(ToSet(mEventQueue))
  BY <1>1, SeqFacts, SeqSize
<1>4. IsFiniteSet(PendingEvents \ Written)
  BY <1>2, FS_Subset
<1>5. EventsOnTheWay \subseteq Event
  BY <1>2, <1>3 DEF EventsOnTheWay
<1>6. IsFiniteSet(EventsOnTheWay)
  BY <1>3, <1>4, FS_Union DEF EventsOnTheWay
<1> QED
  BY <1>2, <1>3, <1>5, <1>6

Chunk == SubSeq(PendingFront.events, 1, NumToWrite)

(* What the thread takes for one write.                                    *)
LEMMA ChunkFacts ==
  ASSUME TypeOK, OrderInv, mPendingWriteEventsQueue # <<>>
  PROVE  /\ PendingFront = mPendingWriteEventsQueue[1] /\ PendingFront \in PendingPost
         /\ PendingFront.events \in Seq(Event) /\ Increasing(PendingFront.events)
         /\ Len(PendingFront.events) \in Nat \ {0}
         /\ NumToWrite \in 1..Len(PendingFront.events) /\ NumToWrite <= QueueCapacity
         /\ NumToWrite = Len(PendingFront.events) <=> ~(Len(PendingFront.events) > QueueCapacity)
         /\ Len(PendingFront.events) > QueueCapacity => NumToWrite = QueueCapacity
         /\ Chunk \in Seq(Event) /\ Len(Chunk) = NumToWrite /\ Increasing(Chunk)
         /\ ToSet(Chunk) \subseteq PendingEvents
         /\ IsFiniteSet(ToSet(Chunk)) /\ Cardinality(ToSet(Chunk)) = NumToWrite
         /\ Before(ToSet(Chunk), PendingEvents \ ToSet(Chunk))
<1> DEFINE q == mPendingWriteEventsQueue
<1>1. q \in Seq(PendingPost) /\ InPostOrder(q) /\ q # <<>> /\ QueueCapacity \in Nat \ {0}
  BY ConstantsAssumption, Zenon DEF TypeOK, OrderInv
<1> HIDE DEF q
<1>2. PendingFront = q[1] /\ 1 \in DOMAIN q
  BY <1>1, TailPosts DEF PendingFront, q
<1>3. /\ q[1] \in PendingPost /\ q[1].events \in Seq(Event)
      /\ q[1].events # <<>> /\ Increasing(q[1].events)
  BY <1>1, <1>2, QueueFacts DEF InPostOrder
<1>4. Len(q[1].events) \in Nat \ {0}
  BY <1>3, SeqFacts
<1>5. /\ NumToWrite \in 1..Len(q[1].events) /\ NumToWrite <= QueueCapacity
      /\ NumToWrite = Len(q[1].events) <=> ~(Len(q[1].events) > QueueCapacity)
      /\ Len(q[1].events) > QueueCapacity => NumToWrite = QueueCapacity
  BY <1>1, <1>2, <1>4 DEF NumToWrite, Lesser
<1>6. NumToWrite \in 0..Len(q[1].events)
  BY <1>4, <1>5
<1>7. /\ Chunk \in Seq(Event) /\ Len(Chunk) = NumToWrite /\ Increasing(Chunk)
      /\ ToSet(Chunk) \subseteq AllEvents(q)
      /\ Before(ToSet(Chunk), AllEvents(q) \ ToSet(Chunk))
  <2>1. PICK n : n = NumToWrite
    OBVIOUS
  <2>2. n \in 0..Len(q[1].events) /\ Chunk = SubSeq(q[1].events, 1, n)
    BY <2>1, <1>2, <1>6 DEF Chunk
  <2>3. LET chunk == SubSeq(q[1].events, 1, n)
            behind == ToSet(SubSeq(q[1].events, n + 1, Len(q[1].events))) \cup AllEvents(Tail(q))
        IN  /\ chunk \in Seq(Event) /\ Len(chunk) = n /\ Increasing(chunk)
            /\ ToSet(chunk) \subseteq AllEvents(q)
            /\ AllEvents(q) \ ToSet(chunk) = behind
            /\ Before(ToSet(chunk), behind)
    BY <2>2, <1>1, ChunkOfFront, Zenon
  <2> QED
    BY <2>1, <2>2, <2>3, Zenon
<1>8. IsFiniteSet(ToSet(Chunk)) /\ Cardinality(ToSet(Chunk)) = NumToWrite
  BY <1>7, SeqSize
<1> QED
  BY <1>2, <1>3, <1>4, <1>5, <1>7, <1>8, PendingIsAll DEF q

-----------------------------------------------------------------------------
(* Steps that leave the queues alone.                                      *)

LEMMA QuietKeeps ==
  ASSUME UNCHANGED <<queueVars, nextId, lastRead>>, thread' = "wrote" <=> thread = "wrote"
  PROVE  /\ PendingEvents' = PendingEvents /\ Written' = Written
         /\ EventsOnTheWay' = EventsOnTheWay
         /\ OrderInv => OrderInv'
         /\ SizeMatches => SizeMatches'
<1>1. /\ mEventQueue' = mEventQueue /\ mPendingWriteEventsQueue' = mPendingWriteEventsQueue
      /\ mSizePendingWriteEventsQueue' = mSizePendingWriteEventsQueue
      /\ nextId' = nextId /\ lastRead' = lastRead
  BY DEF queueVars
<1>2. PendingEvents' = PendingEvents
  BY <1>1 DEF PendingEvents
<1>3. Written' = Written
  BY <1>1 DEF Written, PendingFront, NumToWrite
<1>4. EventsOnTheWay' = EventsOnTheWay
  BY <1>1, <1>2, <1>3 DEF EventsOnTheWay
<1>5. OrderInv => OrderInv'
  BY <1>1, <1>2, <1>3, <1>4 DEF OrderInv
<1>6. SizeMatches => SizeMatches'
  BY <1>1, <1>2 DEF SizeMatches
<1> QED
  BY <1>2, <1>3, <1>4, <1>5, <1>6

Quiet == UNCHANGED <<queueVars, nextId, lastRead>> /\ (thread' = "wrote" <=> thread = "wrote")

LEMMA ClientQuiet ==
  ASSUME QueueInv, NEW c \in Clients,
         (\E b \in Batches : CreateScopedWakelock(c, b)) \/ CheckThreadsRunning(c)
  PROVE  Quiet /\ TypeOK' /\ ControlInv'
<1>1. CASE \E b \in Batches : CreateScopedWakelock(c, b)
  <2>1. PICK b \in Batches : CreateScopedWakelock(c, b)
    BY <1>1
  <2>2. b \in Seq(BOOLEAN)
    BY ConstantsAssumption
  <2>3. (OfWakeUpSensor(b) /\ mThreadsRun) \in BOOLEAN
    BY Zenon
  <2>4. Quiet
    BY <2>1, Zenon DEF CreateScopedWakelock, Quiet, threadVars
  <2>5. /\ client' = [client EXCEPT ![c] = "scoped"] /\ batch' = [batch EXCEPT ![c] = b]
        /\ locked' = [locked EXCEPT ![c] = OfWakeUpSensor(b) /\ mThreadsRun]
        /\ UNCHANGED <<queueVars, threadVars, controlVars, nextId, lastRead, ledgerVars>>
    BY <2>1 DEF CreateScopedWakelock
  <2>6. TypeOK'
    <3>1. /\ client' \in [Clients -> {"idle", "scoped", "checked"}]
          /\ batch' \in [Clients -> Seq(BOOLEAN)]
          /\ locked' \in [Clients -> BOOLEAN]
      BY <2>2, <2>3, <2>5, Zenon DEF QueueInv, TypeOK
    <3> QED
      BY <2>5, <3>1, Zenon
         DEF QueueInv, TypeOK, queueVars, threadVars, controlVars, ledgerVars
  <2>7. ControlInv'
    <3>1. \A d \in Clients : client'[d] = "checked" => client[d] = "checked"
      BY <2>5 DEF QueueInv, TypeOK
    <3> QED
      BY <2>5, <3>1 DEF QueueInv, ControlInv, queueVars, threadVars, controlVars
  <2> QED
    BY <2>4, <2>6, <2>7
<1>2. CASE CheckThreadsRunning(c)
  <2>1. Quiet
    BY <1>2, Zenon DEF CheckThreadsRunning, Quiet, threadVars
  <2>2. /\ UNCHANGED <<queueVars, threadVars, controlVars, nextId, lastRead, ledgerVars>>
        /\ \/ mThreadsRun /\ client' = [client EXCEPT ![c] = "checked"] /\ UNCHANGED <<batch, locked>>
           \/ client' = [client EXCEPT ![c] = "idle"] /\ batch' = [batch EXCEPT ![c] = <<>>]
              /\ locked' = [locked EXCEPT ![c] = FALSE]
    BY <1>2, Zenon DEF CheckThreadsRunning, PostEnds
  <2>3. <<>> \in Seq(BOOLEAN)
    BY EmptySeq
  <2>4. TypeOK'
    <3>1. /\ client' \in [Clients -> {"idle", "scoped", "checked"}]
          /\ batch' \in [Clients -> Seq(BOOLEAN)]
          /\ locked' \in [Clients -> BOOLEAN]
      BY <2>2, <2>3, Zenon DEF QueueInv, TypeOK
    <3> QED
      BY <2>2, <3>1, Zenon
         DEF QueueInv, TypeOK, queueVars, threadVars, controlVars, ledgerVars
  <2>5. ControlInv'
    <3>1. mThreadsRun \/ \A d \in Clients : client'[d] = "checked" => client[d] = "checked"
      BY <2>2 DEF QueueInv, TypeOK
    <3>2. UNCHANGED <<queueVars, threadVars, controlVars>>
      BY <2>2
    <3> QED
      BY <3>1, <3>2 DEF QueueInv, ControlInv, queueVars, threadVars, controlVars
  <2> QED
    BY <2>1, <2>4, <2>5
<1> QED
  BY <1>1, <1>2

QuietThreadStep ==
  \/ ThreadStart \/ ThreadExit \/ ThreadWait \/ ThreadSleep \/ ThreadWake \/ ThreadBeginWrite
  \/ ThreadSpuriousWake

LEMMA ThreadQuiet ==
  ASSUME QueueInv, QuietThreadStep
  PROVE  Quiet /\ TypeOK' /\ ControlInv'
<1>1. /\ UNCHANGED <<queueVars, clientVars, controlVars, nextId, lastRead, ledgerVars>>
      /\ notified' = notified \/ notified' = FALSE
      /\ thread # "wrote" /\ thread' \in ThreadStates \ {"wrote"} /\ thread # "done"
      /\ thread' = "done" => ~mThreadsRun
      /\ thread' = "writing" => mPendingWriteEventsQueue # <<>>
  BY DEF QuietThreadStep, ThreadStart, ThreadExit, ThreadWait, ThreadSleep, ThreadWake,
         ThreadBeginWrite, ThreadSpuriousWake, ThreadGoto, ThreadStates
<1>2. Quiet
  BY <1>1, Zenon DEF Quiet
<1>3. TypeOK'
  <2>1. thread' \in ThreadStates /\ notified' \in BOOLEAN
    BY <1>1 DEF QueueInv, TypeOK
  <2> QED
    BY <1>1, <2>1, Zenon
       DEF QueueInv, TypeOK, queueVars, clientVars, controlVars, ledgerVars
<1>4. ControlInv'
  BY <1>1 DEF QueueInv, ControlInv, queueVars, clientVars, controlVars
<1> QED
  BY <1>2, <1>3, <1>4

QuietControlStep == StopStore \/ StopNotify \/ StopJoin \/ InitDisableSensors

LEMMA ControlQuiet ==
  ASSUME QueueInv, QuietControlStep
  PROVE  Quiet /\ TypeOK' /\ ControlInv'
<1>1. /\ UNCHANGED <<queueVars, thread, clientVars, sessionStart, nextId, lastRead, ledgerVars>>
      /\ mThreadsRun' = mThreadsRun \/ mThreadsRun' = FALSE
      /\ control' \in ControlStates
  BY Zenon DEF QuietControlStep, StopStore, StopNotify, StopJoin, InitDisableSensors, ControlGoto,
         ControlStates, threadVars
<1>2. Quiet
  BY <1>1, Zenon DEF Quiet
<1>3. notified' \in BOOLEAN
  BY Zenon DEF QueueInv, TypeOK, QuietControlStep, StopStore, StopNotify, StopJoin,
         InitDisableSensors, threadVars, NotifyEventQueueWriteCV
<1>4. restarts' \in 0..MaxRestarts
  <2>1. \/ restarts' = restarts
        \/ restarts < MaxRestarts /\ restarts' = restarts + 1
    BY Zenon DEF QuietControlStep, StopStore, StopNotify, StopJoin, InitDisableSensors
  <2>2. restarts \in 0..MaxRestarts /\ MaxRestarts \in Nat
    BY ConstantsAssumption, Zenon DEF QueueInv, TypeOK
  <2> QED
    BY <2>1, <2>2
<1>5. TypeOK'
  BY <1>1, <1>3, <1>4, Zenon
     DEF QueueInv, TypeOK, queueVars, clientVars, ledgerVars
<1>6. ControlInv'
  <2>1. UNCHANGED <<mPendingWriteEventsQueue, thread, client>>
    BY <1>1 DEF queueVars, clientVars
  <2>2. CASE StopStore \/ StopNotify
    BY <2>1, <2>2 DEF StopStore, StopNotify, ControlGoto, QueueInv, ControlInv
  <2>3. CASE StopJoin
    BY <2>1, <2>3 DEF StopJoin, ControlGoto, QueueInv, ControlInv
  <2>4. CASE InitDisableSensors
    <3>1. \A c \in Clients : client'[c] # "checked"
      BY <2>1, <2>4 DEF InitDisableSensors
    <3> QED
      BY <2>1, <2>4, <3>1 DEF InitDisableSensors, ControlGoto, QueueInv, ControlInv
  <2> QED
    BY <2>2, <2>3, <2>4 DEF QuietControlStep
<1> QED
  BY <1>2, <1>5, <1>6

-----------------------------------------------------------------------------
(* Steps of the queues: each keeps the invariant and changes what is on    *)
(* its way in one of three ways, as a post, a read or a loss does.         *)

LEMMA ReadStep ==
  ASSUME QueueInv, FrameworkRead
  PROVE  LET h == Head(mEventQueue)
         IN  /\ QueueInv'
             /\ h \in EventsOnTheWay /\ lastRead' = h.id
             /\ \A e \in EventsOnTheWay : e # h => h.id < e.id
             /\ EventsOnTheWay' = EventsOnTheWay \ {h}
<1> DEFINE h == Head(mEventQueue)
<1>1. /\ TypeOK /\ ControlInv /\ OrderInv /\ SizeMatches
      /\ mEventQueue \in Seq(Event) /\ mEventQueue # <<>> /\ Increasing(mEventQueue)
      /\ mEventQueue' = Tail(mEventQueue) /\ lastRead' = h.id
      /\ Before(ToSet(mEventQueue), PendingEvents \ Written)
      /\ balance' = IF h.wake THEN balance - 1 ELSE balance
      /\ UNCHANGED <<mPendingWriteEventsQueue, mSizePendingWriteEventsQueue, threadVars,
                     clientVars, controlVars, nextId, overflowed, split, uncounted>>
  BY DEF QueueInv, TypeOK, OrderInv, FrameworkRead
<1>2. /\ h \in Event
      /\ mEventQueue' \in Seq(Event) /\ Len(mEventQueue') = Len(mEventQueue) - 1
      /\ Increasing(mEventQueue')
      /\ ToSet(mEventQueue) = ToSet(mEventQueue') \cup {h}
      /\ Before({h}, ToSet(mEventQueue'))
  BY <1>1, TailSeq
<1> HIDE DEF h
<1>3. PendingEvents' = PendingEvents /\ Written' = Written
  BY <1>1 DEF PendingEvents, Written, PendingFront, NumToWrite, threadVars
<1>4. h.id \in Nat \ {0}
  BY <1>2 DEF Event
<1>5. \A e \in ToSet(mEventQueue') \cup (PendingEvents \ Written) : h.id < e.id
  BY <1>1, <1>2 DEF Before
<1>6. h \notin ToSet(mEventQueue') \cup (PendingEvents \ Written)
  BY <1>4, <1>5
<1>7. EventsOnTheWay = (ToSet(mEventQueue') \cup (PendingEvents \ Written)) \cup {h}
  BY <1>2 DEF EventsOnTheWay
<1>8. EventsOnTheWay' = ToSet(mEventQueue') \cup (PendingEvents \ Written)
  BY <1>3 DEF EventsOnTheWay
<1>9. OrderInv'
  <2>1. InPostOrder(mPendingWriteEventsQueue)'
    BY <1>1 DEF OrderInv
  <2>2. Before(ToSet(mEventQueue), PendingEvents \ Written)'
    BY <1>1, <1>2, <1>3 DEF Before
  <2>3. \A e \in EventsOnTheWay' : lastRead' < e.id
    BY <1>1, <1>5, <1>8
  <2>4. \A e \in ToSet(mEventQueue)' \cup PendingEvents' : e.id < nextId'
    BY <1>1, <1>2, <1>3 DEF OrderInv
  <2> QED
    BY <1>2, <2>1, <2>2, <2>3, <2>4 DEF OrderInv
<1>10. TypeOK'
  <2>1. h.id \in 0..(nextId - 1)
    BY <1>1, <1>2, <1>4 DEF OrderInv, TypeOK
  <2>2. (Len(mEventQueue') <= QueueCapacity)
    BY <1>1, <1>2, ConstantsAssumption, LenProperties DEF TypeOK
  <2>3. balance' \in Int
    <3>1. balance \in Int
      BY <1>1, Zenon DEF TypeOK
    <3> QED
      BY <1>1, <3>1
  <2> QED
    BY <1>1, <1>2, <2>1, <2>2, <2>3, Zenon
       DEF TypeOK, threadVars, clientVars, controlVars
<1>11. ControlInv' /\ SizeMatches'
  BY <1>1, <1>3 DEF ControlInv, SizeMatches, threadVars, clientVars, controlVars
<1> QED
  BY <1>1, <1>5, <1>6, <1>7, <1>8, <1>9, <1>10, <1>11 DEF h, QueueInv

LEMMA WriteSucceedsStep ==
  ASSUME QueueInv, ThreadWriteSucceeds
  PROVE  QueueInv' /\ EventsOnTheWay' = EventsOnTheWay
<1>1. /\ TypeOK /\ ControlInv /\ OrderInv /\ SizeMatches
      /\ mEventQueue \in Seq(Event) /\ Increasing(mEventQueue)
      /\ thread = "writing" /\ thread' = "wrote" /\ mPendingWriteEventsQueue # <<>>
      /\ mEventQueue' = mEventQueue \o Chunk /\ AvailableToWrite >= NumToWrite
      /\ UNCHANGED <<mPendingWriteEventsQueue, mSizePendingWriteEventsQueue, notified,
                     clientVars, controlVars, nextId, lastRead, ledgerVars>>
  BY DEF QueueInv, TypeOK, ControlInv, OrderInv, ThreadWriteSucceeds, ThreadGoto, Chunk
<1>2. /\ Chunk \in Seq(Event) /\ Len(Chunk) = NumToWrite /\ Increasing(Chunk)
      /\ ToSet(Chunk) \subseteq PendingEvents
      /\ Before(ToSet(Chunk), PendingEvents \ ToSet(Chunk))
  BY <1>1, ChunkFacts
<1>3. PendingEvents' = PendingEvents /\ Written = {} /\ Written' = ToSet(Chunk)
  BY <1>1 DEF PendingEvents, Written, PendingFront, NumToWrite, Chunk
<1>4. Before(ToSet(mEventQueue), PendingEvents)
  BY <1>1, <1>3 DEF OrderInv
<1>5. /\ mEventQueue' \in Seq(Event) /\ Len(mEventQueue') = Len(mEventQueue) + Len(Chunk)
      /\ Increasing(mEventQueue')
      /\ ToSet(mEventQueue') = ToSet(mEventQueue) \cup ToSet(Chunk)
  <2>1. Before(ToSet(mEventQueue), ToSet(Chunk))
    BY <1>2, <1>4 DEF Before
  <2> QED
    BY <1>1, <1>2, <2>1, ConcatSeq
<1>6. EventsOnTheWay' = EventsOnTheWay
  BY <1>2, <1>3, <1>5 DEF EventsOnTheWay
<1>7. OrderInv'
  <2>1. InPostOrder(mPendingWriteEventsQueue)'
    BY <1>1 DEF OrderInv
  <2>2. Before(ToSet(mEventQueue), PendingEvents \ Written)'
    BY <1>2, <1>3, <1>4, <1>5 DEF Before
  <2>3. \A e \in EventsOnTheWay' : lastRead' < e.id
    BY <1>1, <1>6 DEF OrderInv
  <2>4. \A e \in ToSet(mEventQueue)' \cup PendingEvents' : e.id < nextId'
    BY <1>1, <1>2, <1>3, <1>5 DEF OrderInv
  <2> QED
    BY <1>5, <2>1, <2>2, <2>3, <2>4 DEF OrderInv
<1>8. TypeOK'
  <2>1. Len(mEventQueue') <= QueueCapacity
    BY <1>1, <1>2, <1>5, ChunkFacts, ConstantsAssumption, LenProperties DEF AvailableToWrite
  <2>2. thread' \in ThreadStates
    BY <1>1 DEF ThreadStates
  <2> QED
    BY <1>1, <1>5, <2>1, <2>2, Zenon DEF TypeOK, clientVars, controlVars, ledgerVars
<1>9. ControlInv' /\ SizeMatches'
  BY <1>1, <1>3 DEF ControlInv, SizeMatches, clientVars, controlVars
<1> QED
  BY <1>6, <1>7, <1>8, <1>9 DEF QueueInv

LEMMA WriteFailsStep ==
  ASSUME QueueInv, ThreadWriteFails
  PROVE  /\ QueueInv'
         /\ mPendingWriteEventsQueue # <<>> /\ ToSet(Chunk) \subseteq EventsOnTheWay
         /\ EventsOnTheWay' = EventsOnTheWay \ ToSet(Chunk)
         /\ \A e \in EventsOnTheWay' : \/ \A f \in ToSet(Chunk) : e.id < f.id
                                       \/ \A f \in ToSet(Chunk) : f.id < e.id
<1>1. /\ TypeOK /\ ControlInv /\ OrderInv /\ SizeMatches
      /\ thread = "writing" /\ thread' = "wrote" /\ mPendingWriteEventsQueue # <<>>
      /\ balance' = IF mThreadsRun THEN balance - NumWakeupEventsDropped ELSE balance
      /\ UNCHANGED <<queueVars, notified, clientVars, controlVars, nextId, lastRead,
                     overflowed, split, uncounted>>
  BY DEF QueueInv, ControlInv, ThreadWriteFails, ThreadGoto
<1>2. /\ ToSet(Chunk) \subseteq PendingEvents
      /\ Before(ToSet(Chunk), PendingEvents \ ToSet(Chunk))
  BY <1>1, ChunkFacts
<1>3. PendingEvents' = PendingEvents /\ Written = {} /\ Written' = ToSet(Chunk)
  BY <1>1 DEF PendingEvents, Written, PendingFront, NumToWrite, Chunk, queueVars
<1>4. mEventQueue' = mEventQueue /\ Before(ToSet(mEventQueue), PendingEvents)
  BY <1>1, <1>3 DEF OrderInv, queueVars
<1>5. ToSet(mEventQueue) \cap PendingEvents = {}
  BY <1>1, <1>4, SetFacts, BeforeDisjoint
<1>6. /\ EventsOnTheWay = ToSet(mEventQueue) \cup PendingEvents
      /\ EventsOnTheWay' = ToSet(mEventQueue) \cup (PendingEvents \ ToSet(Chunk))
  BY <1>3, <1>4 DEF EventsOnTheWay
<1>7. OrderInv'
  <2>1. InPostOrder(mPendingWriteEventsQueue)' /\ Increasing(mEventQueue)'
    BY <1>1 DEF OrderInv, queueVars
  <2>2. Before(ToSet(mEventQueue), PendingEvents \ Written)'
    BY <1>3, <1>4 DEF Before
  <2>3. \A e \in EventsOnTheWay' : lastRead' < e.id
    BY <1>1, <1>6 DEF OrderInv
  <2>4. \A e \in ToSet(mEventQueue)' \cup PendingEvents' : e.id < nextId'
    BY <1>1, <1>3, <1>4 DEF OrderInv
  <2> QED
    BY <2>1, <2>2, <2>3, <2>4 DEF OrderInv
<1>8. TypeOK'
  <2>1. balance' \in Int
    <3>1. PendingFront \in PendingPost /\ PendingFront.events \in Seq(Event)
      BY <1>1, ChunkFacts
    <3>2. PendingFront.numWakeupEvents \in Nat
      BY <3>1 DEF PendingPost
    <3>3. CASE Len(PendingFront.events) > QueueCapacity
      <4>1. NumToWrite = QueueCapacity /\ NumToWrite \in 0..Len(PendingFront.events)
        BY <1>1, <3>3, ChunkFacts
      <4>2. CountNumWakeupEvents(PendingFront.events, QueueCapacity) \in Nat
        <5>1. IsFiniteSet(1..QueueCapacity)
          BY ConstantsAssumption, FS_Interval
        <5>2. IsFiniteSet({i \in 1..QueueCapacity : PendingFront.events[i].wake})
          BY <5>1, FS_Subset
        <5> QED
          BY <5>2, FS_CardinalityType DEF CountNumWakeupEvents
      <4> QED
        BY <1>1, <3>2, <4>2 DEF TypeOK, NumWakeupEventsDropped
    <3>4. CASE ~(Len(PendingFront.events) > QueueCapacity)
      BY <1>1, <3>2, <3>4 DEF TypeOK, NumWakeupEventsDropped
    <3> QED
      BY <3>3, <3>4
  <2>2. thread' \in ThreadStates
    BY <1>1 DEF ThreadStates
  <2> QED
    BY <1>1, <2>1, <2>2, Zenon DEF TypeOK, queueVars, clientVars, controlVars
<1>9. ControlInv' /\ SizeMatches'
  BY <1>1, <1>3 DEF ControlInv, SizeMatches, queueVars, clientVars, controlVars
<1>10. ToSet(Chunk) \subseteq EventsOnTheWay /\ EventsOnTheWay' = EventsOnTheWay \ ToSet(Chunk)
  BY <1>2, <1>5, <1>6
<1>11. \A e \in EventsOnTheWay' : \/ \A f \in ToSet(Chunk) : e.id < f.id
                                  \/ \A f \in ToSet(Chunk) : f.id < e.id
  BY <1>2, <1>4, <1>6 DEF Before
<1> QED
  BY <1>1, <1>7, <1>8, <1>9, <1>10, <1>11 DEF QueueInv

LEMMA FinishWriteStep ==
  ASSUME QueueInv, ThreadFinishWrite
  PROVE  QueueInv' /\ EventsOnTheWay' = EventsOnTheWay
<1> DEFINE q == mPendingWriteEventsQueue
           n == NumToWrite
<1>1. /\ TypeOK /\ ControlInv /\ OrderInv /\ SizeMatches
      /\ thread = "wrote" /\ thread' = "loop" /\ q # <<>>
      /\ q \in Seq(PendingPost) /\ InPostOrder(q)
      /\ mSizePendingWriteEventsQueue' = mSizePendingWriteEventsQueue - n
      /\ UNCHANGED <<mEventQueue, notified, clientVars, controlVars, nextId, lastRead,
                     balance, overflowed, uncounted>>
  BY Zenon DEF QueueInv, TypeOK, ControlInv, OrderInv, ThreadFinishWrite, ThreadGoto, SizeAfterWrite
<1>2. /\ PendingFront = q[1] /\ Len(q[1].events) \in Nat
      /\ n \in 1..Len(q[1].events)
      /\ n = Len(q[1].events) <=> ~(Len(q[1].events) > QueueCapacity)
      /\ Len(q[1].events) > QueueCapacity => n = QueueCapacity
      /\ Chunk \in Seq(Event) /\ Chunk = SubSeq(q[1].events, 1, n)
      /\ ToSet(Chunk) \subseteq PendingEvents
      /\ IsFiniteSet(ToSet(Chunk)) /\ Cardinality(ToSet(Chunk)) = n
  BY <1>1, ChunkFacts DEF Chunk
<1>3. \/ n < Len(q[1].events) /\ q' = WithoutChunk(q, n) /\ split' = TRUE
      \/ n = Len(q[1].events) /\ q' = Tail(q) /\ split' = split
  BY <1>2 DEF ThreadFinishWrite, WithoutChunk
<1> HIDE DEF q, n
<1>4. n \in 0..Len(q[1].events)
  BY <1>2
<1>5. /\ q' \in Seq(PendingPost) /\ InPostOrder(q')
      /\ AllEvents(q') = AllEvents(q) \ ToSet(Chunk)
  <2>1. CASE n < Len(q[1].events)
    <3>1. q' = WithoutChunk(q, n)
      BY <2>1, <1>2, <1>3
    <3> QED
      BY <2>1, <3>1, <1>1, <1>2, <1>4, ChunkTaken
  <2>2. CASE n = Len(q[1].events)
    <3>1. q' = Tail(q)
      BY <2>2, <1>2, <1>3
    <3>2. /\ Tail(q) \in Seq(PendingPost) /\ InPostOrder(Tail(q)) /\ 1 \in DOMAIN q
      BY <1>1, TailPosts
    <3>3. /\ SubSeq(q[1].events, n + 1, Len(q[1].events)) \in Seq(Event)
          /\ Len(SubSeq(q[1].events, n + 1, Len(q[1].events))) = Len(q[1].events) - n
          /\ AllEvents(q) \ ToSet(Chunk)
               = ToSet(SubSeq(q[1].events, n + 1, Len(q[1].events))) \cup AllEvents(Tail(q))
      BY <1>1, <1>2, <1>4, ChunkOfFront
    <3>4. ToSet(SubSeq(q[1].events, n + 1, Len(q[1].events))) = {}
      <4>1. PICK b : b = SubSeq(q[1].events, n + 1, Len(q[1].events))
        OBVIOUS
      <4>2. b \in Seq(Event) /\ Len(b) = 0
        BY <2>2, <3>3, <4>1, <1>2
      <4> QED
        BY <4>1, <4>2, SeqFacts
    <3> QED
      BY <3>1, <3>2, <3>3, <3>4
  <2> QED
    BY <2>1, <2>2, <1>3
<1>6. PendingEvents' = PendingEvents \ ToSet(Chunk)
  BY <1>5, PendingIsAll DEF PendingEvents, AllEvents, q
<1>7. Written = ToSet(Chunk) /\ Written' = {}
  BY <1>1 DEF Written, Chunk
<1>8. EventsOnTheWay' = EventsOnTheWay
  BY <1>1, <1>6, <1>7 DEF EventsOnTheWay
<1>9. OrderInv'
  <2>1. InPostOrder(mPendingWriteEventsQueue)' /\ Increasing(mEventQueue)'
    BY <1>1, <1>5 DEF OrderInv, q
  <2>2. Before(ToSet(mEventQueue), PendingEvents \ Written)'
    BY <1>1, <1>6, <1>7 DEF OrderInv, Before
  <2>3. \A e \in EventsOnTheWay' : lastRead' < e.id
    BY <1>1, <1>8 DEF OrderInv
  <2>4. \A e \in ToSet(mEventQueue)' \cup PendingEvents' : e.id < nextId'
    BY <1>1, <1>6 DEF OrderInv
  <2> QED
    BY <2>1, <2>2, <2>3, <2>4 DEF OrderInv
<1>10. SizeMatches' /\ mSizePendingWriteEventsQueue' \in 0..kMaxSizePendingWriteEventsQueue
  <2>1. /\ IsFiniteSet(PendingEvents) /\ Cardinality(PendingEvents) \in Nat
        /\ PendingEvents \cap ToSet(Chunk) = ToSet(Chunk)
    BY <1>1, <1>2, SetFacts, FS_CardinalityType
  <2>2. IsFiniteSet(PendingEvents') /\ Cardinality(PendingEvents') = Cardinality(PendingEvents) - n
    <3>1. /\ IsFiniteSet(PendingEvents \ ToSet(Chunk))
          /\ Cardinality(PendingEvents \ ToSet(Chunk))
               = Cardinality(PendingEvents) - Cardinality(PendingEvents \cap ToSet(Chunk))
      BY <2>1, FS_Difference, Zenon
    <3> QED
      BY <3>1, <2>1, <1>2, <1>6, Zenon
  <2>3. Cardinality(PendingEvents') \in Nat /\ n \in Nat
    BY <2>2, <1>2, FS_CardinalityType
  <2>4. /\ mSizePendingWriteEventsQueue = Cardinality(PendingEvents)
        /\ mSizePendingWriteEventsQueue \in 0..kMaxSizePendingWriteEventsQueue
        /\ kMaxSizePendingWriteEventsQueue \in Nat
    BY <1>1, ConstantsAssumption, Zenon DEF SizeMatches, TypeOK
  <2>5. mSizePendingWriteEventsQueue' = Cardinality(PendingEvents')
    BY <1>1, <2>2, <2>4
  <2>6. mSizePendingWriteEventsQueue' \in 0..kMaxSizePendingWriteEventsQueue
    BY <1>1, <2>3, <2>4, <2>5
  <2> QED
    BY <2>5, <2>6 DEF SizeMatches
<1>11. TypeOK'
  <2>1. thread' \in ThreadStates
    BY <1>1 DEF ThreadStates
  <2>2. split' \in BOOLEAN
    BY <1>1, <1>3, Zenon DEF TypeOK
  <2> QED
    BY <1>1, <1>5, <1>10, <2>1, <2>2, Zenon DEF TypeOK, clientVars, controlVars, q
<1>12. ControlInv'
  <2>1. control \notin {"disable", "clear", "start"}
    BY <1>1 DEF ControlInv
  <2> QED
    BY <1>1, <2>1 DEF ControlInv, clientVars, controlVars
<1> QED
  BY <1>8, <1>9, <1>10, <1>11, <1>12 DEF QueueInv

LEMMA EmptyQueue ==
  /\ <<>> \in Seq(PendingPost) /\ InPostOrder(<<>>) /\ AllEvents(<<>>) = {}
  /\ <<>> \in Seq(Event) /\ Len(<<>>) = 0 /\ Increasing(<<>>) /\ ToSet(<<>>) = {}
<1>1. <<>> \in Seq(PendingPost) /\ <<>> \in Seq(Event) /\ Len(<<>>) = 0
  BY EmptySeq
<1>2. DOMAIN <<>> = {}
  BY <1>1, SeqFacts
<1> QED
  BY <1>1, <1>2 DEF InPostOrder, AllEvents, Increasing, ToSet

LEMMA DrainStep ==
  ASSUME QueueInv, StopDrain
  PROVE  /\ QueueInv'
         /\ ToSet(mEventQueue) \subseteq EventsOnTheWay
         /\ EventsOnTheWay' = EventsOnTheWay \ ToSet(mEventQueue)
         /\ \A e \in ToSet(mEventQueue), f \in EventsOnTheWay' : e.id < f.id
<1>1. /\ TypeOK /\ ControlInv /\ OrderInv /\ SizeMatches
      /\ control = "drain" /\ control' = "notify" /\ mEventQueue' = <<>>
      /\ UNCHANGED <<mPendingWriteEventsQueue, mSizePendingWriteEventsQueue, threadVars, clientVars,
                     mThreadsRun, restarts, sessionStart, nextId, lastRead, ledgerVars>>
  BY DEF QueueInv, StopDrain, ControlGoto
<1>2. /\ mEventQueue' \in Seq(Event) /\ Len(mEventQueue') = 0
      /\ Increasing(mEventQueue') /\ ToSet(mEventQueue') = {}
  BY <1>1, EmptyQueue
<1>3. PendingEvents' = PendingEvents /\ Written' = Written
  BY <1>1 DEF PendingEvents, Written, PendingFront, NumToWrite, threadVars
<1>4. Before(ToSet(mEventQueue), PendingEvents \ Written)
  BY <1>1 DEF OrderInv
<1>5. ToSet(mEventQueue) \cap (PendingEvents \ Written) = {}
  BY <1>1, <1>4, SetFacts, BeforeDisjoint
<1>6. EventsOnTheWay' = PendingEvents \ Written
  BY <1>2, <1>3 DEF EventsOnTheWay
<1>7. /\ ToSet(mEventQueue) \subseteq EventsOnTheWay
      /\ EventsOnTheWay' = EventsOnTheWay \ ToSet(mEventQueue)
  BY <1>5, <1>6 DEF EventsOnTheWay
<1>8. \A e \in ToSet(mEventQueue), f \in EventsOnTheWay' : e.id < f.id
  BY <1>4, <1>6 DEF Before
<1>9. OrderInv'
  <2>1. InPostOrder(mPendingWriteEventsQueue)' /\ Increasing(mEventQueue)'
    BY <1>1, <1>2 DEF OrderInv
  <2>2. Before(ToSet(mEventQueue), PendingEvents \ Written)'
    BY <1>2 DEF Before
  <2>3. \A e \in EventsOnTheWay' : lastRead' < e.id
    BY <1>1, <1>7 DEF OrderInv
  <2>4. \A e \in ToSet(mEventQueue)' \cup PendingEvents' : e.id < nextId'
    BY <1>1, <1>2, <1>3 DEF OrderInv
  <2> QED
    BY <2>1, <2>2, <2>3, <2>4 DEF OrderInv
<1>10. TypeOK'
  <2>1. Len(mEventQueue') <= QueueCapacity
    BY <1>2, ConstantsAssumption
  <2>2. control' \in ControlStates
    BY <1>1 DEF ControlStates
  <2> QED
    BY <1>1, <1>2, <2>1, <2>2, Zenon DEF TypeOK, threadVars, clientVars, ledgerVars
<1>11. ControlInv' /\ SizeMatches'
  BY <1>1, <1>3 DEF ControlInv, SizeMatches, threadVars, clientVars
<1> QED
  BY <1>7, <1>8, <1>9, <1>10, <1>11 DEF QueueInv

LEMMA ClearStep ==
  ASSUME QueueInv, InitClear
  PROVE  /\ QueueInv'
         /\ PendingEvents \subseteq EventsOnTheWay
         /\ EventsOnTheWay' = EventsOnTheWay \ PendingEvents
         /\ \A e \in PendingEvents, f \in EventsOnTheWay' : f.id < e.id
<1>1. /\ TypeOK /\ ControlInv /\ OrderInv /\ SizeMatches
      /\ control = "clear" /\ control' = "start"
      /\ mPendingWriteEventsQueue' = <<>> /\ mSizePendingWriteEventsQueue' = 0
      /\ UNCHANGED <<mEventQueue, threadVars, clientVars, mThreadsRun, restarts, sessionStart,
                     nextId, lastRead, ledgerVars>>
  BY DEF QueueInv, InitClear, ControlGoto
<1>2. thread = "done" /\ thread' = "done" /\ \A c \in Clients : client'[c] # "checked"
  BY <1>1 DEF ControlInv, threadVars, clientVars
<1>3. PendingEvents' = {} /\ Written = {} /\ Written' = {}
  BY <1>1, <1>2, EmptyQueue DEF PendingEvents, AllEvents, Written
<1>4. Before(ToSet(mEventQueue), PendingEvents)
  BY <1>1, <1>3 DEF OrderInv
<1>5. ToSet(mEventQueue) \cap PendingEvents = {}
  BY <1>1, <1>4, SetFacts, BeforeDisjoint
<1>6. EventsOnTheWay = ToSet(mEventQueue) \cup PendingEvents /\ EventsOnTheWay' = ToSet(mEventQueue)
  BY <1>1, <1>3 DEF EventsOnTheWay
<1>7. PendingEvents \subseteq EventsOnTheWay /\ EventsOnTheWay' = EventsOnTheWay \ PendingEvents
  BY <1>5, <1>6
<1>8. \A e \in PendingEvents, f \in EventsOnTheWay' : f.id < e.id
  BY <1>4, <1>6 DEF Before
<1>9. OrderInv'
  <2>1. InPostOrder(mPendingWriteEventsQueue)' /\ Increasing(mEventQueue)'
    BY <1>1, EmptyQueue DEF OrderInv
  <2>2. Before(ToSet(mEventQueue), PendingEvents \ Written)'
    BY <1>3 DEF Before
  <2>3. \A e \in EventsOnTheWay' : lastRead' < e.id
    BY <1>1, <1>7 DEF OrderInv
  <2>4. \A e \in ToSet(mEventQueue)' \cup PendingEvents' : e.id < nextId'
    BY <1>1, <1>3 DEF OrderInv
  <2> QED
    BY <2>1, <2>2, <2>3, <2>4 DEF OrderInv
<1>10. TypeOK'
  <2>1. mSizePendingWriteEventsQueue' \in 0..kMaxSizePendingWriteEventsQueue
    BY <1>1, ConstantsAssumption
  <2>2. control' \in ControlStates
    BY <1>1 DEF ControlStates
  <2> QED
    BY <1>1, <2>1, <2>2, EmptyQueue, Zenon DEF TypeOK, threadVars, clientVars, ledgerVars
<1>11. ControlInv'
  BY <1>1, <1>2 DEF ControlInv
<1>12. SizeMatches'
  BY <1>1, <1>3, FS_EmptySet DEF SizeMatches
<1> QED
  BY <1>7, <1>8, <1>9, <1>10, <1>11, <1>12 DEF QueueInv

LEMMA StartStep ==
  ASSUME QueueInv, InitStart
  PROVE  /\ QueueInv'
         /\ EventsOnTheWay = ToSet(mEventQueue) /\ EventsOnTheWay' = {}
         /\ mPendingWriteEventsQueue' = <<>>
<1>1. /\ TypeOK /\ ControlInv /\ OrderInv /\ SizeMatches
      /\ control = "start" /\ control' = "running" /\ mThreadsRun' = TRUE
      /\ mEventQueue' = <<>> /\ thread' = "starting" /\ sessionStart' = nextId
      /\ balance' = 0 /\ overflowed' = FALSE /\ split' = FALSE /\ uncounted' = FALSE
      /\ UNCHANGED <<mPendingWriteEventsQueue, mSizePendingWriteEventsQueue, notified, clientVars,
                     restarts, nextId, lastRead>>
  BY DEF QueueInv, InitStart, ControlGoto
<1>2. mPendingWriteEventsQueue = <<>> /\ mPendingWriteEventsQueue' = <<>>
  BY <1>1 DEF ControlInv
<1>3. PendingEvents = {} /\ PendingEvents' = {}
  BY <1>2, EmptyQueue DEF PendingEvents, AllEvents
<1>4. EventsOnTheWay = ToSet(mEventQueue) /\ EventsOnTheWay' = {}
  BY <1>1, <1>3, EmptyQueue DEF EventsOnTheWay
<1>5. OrderInv'
  BY <1>1, <1>2, <1>3, <1>4, EmptyQueue DEF OrderInv, Before
<1>6. TypeOK'
  <2>1. /\ mEventQueue' \in Seq(Event) /\ Len(mEventQueue') <= QueueCapacity
        /\ sessionStart' \in 1..nextId' /\ balance' \in Int
        /\ thread' \in ThreadStates /\ control' \in ControlStates
    BY <1>1, EmptyQueue, ConstantsAssumption DEF TypeOK, ThreadStates, ControlStates
  <2> QED
    BY <1>1, <2>1, Zenon DEF TypeOK, clientVars
<1>7. ControlInv' /\ SizeMatches'
  BY <1>1, <1>2, <1>3 DEF ControlInv, SizeMatches
<1> QED
  BY <1>2, <1>4, <1>5, <1>6, <1>7 DEF QueueInv

(* The events of the post a client makes.                                  *)
Posted(c) == [i \in DOMAIN batch[c] |-> [id |-> nextId + i - 1, wake |-> batch[c][i]]]

LEMMA PostedFacts ==
  ASSUME TypeOK, NEW c \in Clients
  PROVE  /\ Posted(c) \in Seq(Event) /\ Increasing(Posted(c)) /\ Len(Posted(c)) \in Nat
         /\ nextId + Len(Posted(c)) \in Nat \ {0}
         /\ \A i \in 1..Len(Posted(c)) : Posted(c)[i].id = nextId + i - 1
         /\ \A e \in ToSet(Posted(c)) : nextId <= e.id /\ e.id < nextId + Len(Posted(c))
<1>1. nextId \in Nat \ {0} /\ batch[c] \in Seq(BOOLEAN)
  BY DEF TypeOK
<1>2. PICK n \in Nat : DOMAIN batch[c] = 1..n /\ \A i \in 1..n : batch[c][i] \in BOOLEAN
  BY <1>1, LenProperties, ElementOfSeq
<1>3. Posted(c) = [i \in 1..n |-> [id |-> nextId + i - 1, wake |-> batch[c][i]]]
  BY <1>2 DEF Posted
<1>4. PICK s : s = Posted(c)
  OBVIOUS
<1>5. \A i \in 1..n : s[i] = [id |-> nextId + i - 1, wake |-> batch[c][i]]
  BY <1>3, <1>4
<1>6. \A i \in 1..n : s[i].id = nextId + i - 1
  <2>1. ASSUME NEW r, NEW x, NEW y, r = [id |-> x, wake |-> y]
        PROVE  r.id = x
    BY <2>1
  <2>2. ASSUME NEW i \in 1..n
        PROVE  s[i].id = nextId + i - 1
    <3>1. s[i] = [id |-> nextId + i - 1, wake |-> batch[c][i]]
      BY <1>5
    <3> QED
      BY <3>1, <2>1, Zenon
  <2> QED
    BY <2>2
<1>7. \A i \in 1..n : s[i] \in Event
  <2> SUFFICES ASSUME NEW i \in 1..n
               PROVE  s[i] \in Event
    OBVIOUS
  <2>1. nextId + i - 1 \in Nat \ {0}
    BY <1>1
  <2>2. batch[c][i] \in BOOLEAN
    BY <1>2
  <2>3. \A x \in Nat \ {0}, y \in BOOLEAN : [id |-> x, wake |-> y] \in Event
    BY DEF Event
  <2> QED
    BY <2>1, <2>2, <2>3, <1>5, Zenon
<1>8. s \in Seq(Event) /\ Len(s) = n
  <2>1. s = [i \in 1..n |-> s[i]]
    BY <1>3, <1>4
  <2>2. s \in [1..n -> Event]
    BY <1>7, <2>1
  <2>3. s \in Seq(Event)
    BY <2>2, SeqDef
  <2> QED
    BY <2>2, <2>3, LenProperties
<1>9. DOMAIN s = 1..n /\ ToSet(s) = {s[i] : i \in 1..n}
  BY <1>8, SeqFacts
<1>10. Increasing(s)
  BY <1>1, <1>6, <1>9 DEF Increasing
<1>11. \A e \in ToSet(s) : nextId <= e.id /\ e.id < nextId + n
  BY <1>1, <1>6, <1>9
<1>12. nextId + n \in Nat \ {0}
  BY <1>1
<1> QED
  BY <1>4, <1>6, <1>8, <1>10, <1>11, <1>12

(* What does not fit in the FMQ is queued, or dropped; in both cases the   *)
(* events kept are the first ones of the post.                             *)
LEMMA PostParts ==
  ASSUME QueueInv, NEW c \in Clients, PostEventsToMessageQueue(c)
  PROVE  LET events == Posted(c)
             n == Len(events)
             k == DirectWriteSize(n)
             left == SubSeq(events, k + 1, n)
             wakeups == CountNumWakeupEvents(events, n)
         IN  /\ k \in 0..n /\ (k > 0 => mPendingWriteEventsQueue = <<>>)
             /\ nextId' = nextId + n
             /\ mEventQueue' = mEventQueue \o SubSeq(events, 1, k)
             /\ Len(mEventQueue) + k <= QueueCapacity
             /\ balance' = IF locked[c] /\ mThreadsRun THEN balance + wakeups ELSE balance
             /\ uncounted' = (uncounted \/ (wakeups > 0 /\ ~locked[c]))
             /\ \/ /\ k < n
                   /\ mSizePendingWriteEventsQueue + (n - k) <= kMaxSizePendingWriteEventsQueue
                   /\ mPendingWriteEventsQueue' =
                        Append(mPendingWriteEventsQueue,
                               [events |-> left, numWakeupEvents |-> wakeups])
                   /\ mSizePendingWriteEventsQueue' = mSizePendingWriteEventsQueue + (n - k)
                   /\ overflowed' = overflowed /\ split' = (split \/ k > 0)
                \/ /\ k < n /\ overflowed' = TRUE /\ split' = (split \/ k > 0)
                   /\ UNCHANGED <<mPendingWriteEventsQueue, mSizePendingWriteEventsQueue>>
                \/ /\ k = n /\ overflowed' = overflowed /\ split' = split
                   /\ UNCHANGED <<mPendingWriteEventsQueue, mSizePendingWriteEventsQueue>>
<1> DEFINE events == Posted(c)
           n == Len(events)
           k == DirectWriteSize(n)
           left == SubSeq(events, k + 1, n)
           wakeups == CountNumWakeupEvents(events, n)
<1>1. /\ events \in Seq(Event) /\ Increasing(events) /\ n \in Nat
      /\ mEventQueue \in Seq(Event) /\ Len(mEventQueue) <= QueueCapacity
      /\ QueueCapacity \in Nat
  BY PostedFacts, ConstantsAssumption DEF QueueInv, TypeOK
<1>2. Len(mEventQueue) \in Nat
  BY <1>1, LenProperties
<1> HIDE DEF events
<1>3. /\ nextId' = nextId + n
      /\ mEventQueue' = mEventQueue \o SubSeq(events, 1, k)
      /\ balance' = IF locked[c] /\ mThreadsRun THEN balance + wakeups ELSE balance
      /\ uncounted' = (uncounted \/ (wakeups > 0 /\ ~locked[c]))
      /\ IF left # <<>> /\ FitsPendingQueue(Len(left))
         THEN /\ mPendingWriteEventsQueue' =
                   Append(mPendingWriteEventsQueue,
                          [events |-> left, numWakeupEvents |-> wakeups])
              /\ mSizePendingWriteEventsQueue' = mSizePendingWriteEventsQueue + Len(left)
         ELSE UNCHANGED <<mPendingWriteEventsQueue, mSizePendingWriteEventsQueue>>
      /\ overflowed' = (overflowed \/ (left # <<>> /\ ~FitsPendingQueue(Len(left))))
      /\ split' = (split \/ (k > 0 /\ left # <<>>))
  BY Zenon DEF PostEventsToMessageQueue, Posted, events
<1>4. k \in 0..n /\ (k > 0 => mPendingWriteEventsQueue = <<>>) /\ Len(mEventQueue) + k <= QueueCapacity
  BY <1>1, <1>2 DEF DirectWriteSize, Lesser, AvailableToWrite
<1> HIDE DEF k, n
<1>5. left \in Seq(Event) /\ Len(left) = n - k
  BY <1>1, <1>4, SplitSeq DEF n
<1>6. left = <<>> <=> k = n
  <2> HIDE DEF left
  <2>1. left = <<>> <=> Len(left) = 0
    BY <1>5, SeqFacts
  <2>2. n - k = 0 <=> k = n
    BY <1>1, <1>4
  <2> QED
    BY <1>5, <2>1, <2>2, Zenon
<1>7. k \in Nat /\ k <= n /\ (k = n \/ k < n)
  BY <1>1, <1>4
<1> HIDE DEF left
<1>8. FitsPendingQueue(Len(left)) <=>
        mSizePendingWriteEventsQueue + (n - k) <= kMaxSizePendingWriteEventsQueue
  BY <1>5 DEF FitsPendingQueue
<1> HIDE DEF wakeups
<1>9. CASE k = n
  <2>1. overflowed' = overflowed /\ split' = split
    <3>1. left = <<>> /\ overflowed \in BOOLEAN /\ split \in BOOLEAN
      BY <1>6, <1>9 DEF QueueInv, TypeOK
    <3> QED
      BY <3>1, <1>3, Zenon
  <2>2. UNCHANGED <<mPendingWriteEventsQueue, mSizePendingWriteEventsQueue>>
    BY <1>3, <1>6, <1>9, Zenon
  <2> QED
    BY <2>1, <2>2, <1>3, <1>4, <1>9, Zenon DEF left, k, n, wakeups, events
<1>10. CASE k < n /\ FitsPendingQueue(Len(left))
  <2>1. left # <<>> /\ overflowed \in BOOLEAN
    BY <1>6, <1>7, <1>10 DEF QueueInv, TypeOK
  <2>2. overflowed' = overflowed /\ split' = (split \/ k > 0)
    BY <2>1, <1>3, <1>10, Zenon
  <2>3. /\ mPendingWriteEventsQueue' =
             Append(mPendingWriteEventsQueue, [events |-> left, numWakeupEvents |-> wakeups])
        /\ mSizePendingWriteEventsQueue' = mSizePendingWriteEventsQueue + (n - k)
    BY <2>1, <1>3, <1>5, <1>10, Zenon
  <2>4. mSizePendingWriteEventsQueue + (n - k) <= kMaxSizePendingWriteEventsQueue
    BY <1>8, <1>10, Zenon
  <2> QED
    BY <2>2, <2>3, <2>4, <1>3, <1>4, <1>10, Zenon DEF left, k, n, wakeups, events
<1>11. CASE k < n /\ ~FitsPendingQueue(Len(left))
  <2>1. left # <<>>
    BY <1>6, <1>7, <1>11
  <2>2. overflowed' = TRUE /\ split' = (split \/ k > 0)
    BY <2>1, <1>3, <1>11, Zenon
  <2>3. UNCHANGED <<mPendingWriteEventsQueue, mSizePendingWriteEventsQueue>>
    BY <2>1, <1>3, <1>11, Zenon
  <2> QED
    BY <2>2, <2>3, <1>3, <1>4, <1>11, Zenon DEF left, k, n, wakeups, events
<1> QED
  BY <1>7, <1>9, <1>10, <1>11, Zenon

LEMMA PostStep ==
  ASSUME QueueInv, NEW c \in Clients, PostEventsToMessageQueue(c)
  PROVE  LET events == Posted(c)
             n == Len(events)
         IN  /\ QueueInv'
             /\ nextId' = nextId + n
             /\ \E m \in 0..n : /\ EventsOnTheWay' = EventsOnTheWay \cup ToSet(SubSeq(events, 1, m))
                                /\ overflowed' = FALSE => m = n
<1> DEFINE q == mPendingWriteEventsQueue
           events == Posted(c)
           n == Len(events)
           k == DirectWriteSize(n)
           direct == SubSeq(events, 1, k)
           left == SubSeq(events, k + 1, n)
           wakeups == CountNumWakeupEvents(events, n)
           post == [events |-> left, numWakeupEvents |-> wakeups]
           Stored == /\ k < n
                     /\ mSizePendingWriteEventsQueue + (n - k) <= kMaxSizePendingWriteEventsQueue
                     /\ q' = Append(q, post)
                     /\ mSizePendingWriteEventsQueue' = mSizePendingWriteEventsQueue + (n - k)
           NotStored == UNCHANGED <<q, mSizePendingWriteEventsQueue>>
           QueuesKept ==
             /\ OrderInv' /\ SizeMatches'
             /\ mSizePendingWriteEventsQueue' \in 0..kMaxSizePendingWriteEventsQueue
             /\ mPendingWriteEventsQueue' \in Seq(PendingPost)
             /\ mPendingWriteEventsQueue # <<>> => mPendingWriteEventsQueue' # <<>>
             /\ \E m \in 0..n :
                  /\ EventsOnTheWay' = EventsOnTheWay \cup ToSet(SubSeq(events, 1, m))
                  /\ overflowed' = FALSE => m = n
<1>1. TypeOK /\ ControlInv /\ OrderInv /\ SizeMatches
  BY DEF QueueInv
<1>2. /\ events \in Seq(Event) /\ Increasing(events) /\ n \in Nat
      /\ nextId + n \in Nat \ {0}
      /\ \A e \in ToSet(events) : nextId <= e.id /\ e.id < nextId + n
  BY <1>1, PostedFacts
<1>3. /\ k \in 0..n /\ (k > 0 => q = <<>>) /\ nextId' = nextId + n
      /\ mEventQueue' = mEventQueue \o direct /\ Len(mEventQueue) + k <= QueueCapacity
      /\ balance' = IF locked[c] /\ mThreadsRun THEN balance + wakeups ELSE balance
      /\ \/ Stored /\ overflowed' = overflowed
         \/ NotStored /\ k < n /\ overflowed' = TRUE
         \/ NotStored /\ k = n /\ overflowed' = overflowed
  BY PostParts, Zenon
<1> HIDE DEF events, n, k
<1>4. /\ direct \in Seq(Event) /\ Len(direct) = k /\ Increasing(direct)
      /\ left \in Seq(Event) /\ Len(left) = n - k /\ Increasing(left)
      /\ ToSet(events) = ToSet(direct) \cup ToSet(left)
      /\ Before(ToSet(direct), ToSet(left))
  BY <1>2, <1>3, SplitSeq DEF n
<1> HIDE DEF direct, left
<1>5. /\ thread' = thread /\ lastRead' = lastRead /\ UNCHANGED controlVars
      /\ notified' = notified \/ notified' = (notified \/ thread = "sleeping")
      /\ client' = [client EXCEPT ![c] = "idle"] /\ batch' = [batch EXCEPT ![c] = <<>>]
      /\ locked' = [locked EXCEPT ![c] = FALSE]
      /\ client[c] = "checked"
  BY Zenon DEF PostEventsToMessageQueue, PostEnds, NotifyEventQueueWriteCV
<1>6. /\ mEventQueue \in Seq(Event) /\ Increasing(mEventQueue) /\ q \in Seq(PendingPost)
      /\ InPostOrder(q) /\ nextId \in Nat \ {0} /\ lastRead \in 0..(nextId - 1)
      /\ \A e \in ToSet(mEventQueue) \cup PendingEvents : e.id < nextId
      /\ Before(ToSet(mEventQueue), PendingEvents \ Written)
      /\ Written \subseteq PendingEvents
  <2>1. Written \subseteq PendingEvents
    <3>1. CASE thread = "wrote"
      <4>1. q # <<>>
        BY <1>1, <3>1 DEF ControlInv
      <4> QED
        BY <1>1, <3>1, <4>1, ChunkFacts DEF Written, Chunk
    <3>2. CASE thread # "wrote"
      BY <3>2 DEF Written
    <3> QED
      BY <3>1, <3>2
  <2> QED
    BY <1>1, <2>1, Zenon DEF TypeOK, OrderInv
<1>7. /\ PendingEvents \subseteq Event /\ ToSet(mEventQueue) \subseteq Event
      /\ EventsOnTheWay \subseteq Event /\ IsFiniteSet(PendingEvents)
  BY <1>1, SetFacts
<1>8. /\ ToSet(direct) \subseteq Event /\ ToSet(left) \subseteq Event
      /\ \A e \in ToSet(direct) \cup ToSet(left) : nextId <= e.id /\ e.id < nextId + n
  BY <1>2, <1>4, SeqFacts
<1>9. /\ Before(ToSet(mEventQueue), ToSet(direct)) /\ Before(PendingEvents, ToSet(left))
      /\ Before(ToSet(mEventQueue), ToSet(left))
  <2>1. \A e \in Event : e.id \in Nat
    BY DEF Event
  <2> QED
    BY <2>1, <1>6, <1>7, <1>8 DEF Before
<1>10. /\ mEventQueue' \in Seq(Event) /\ Len(mEventQueue') = Len(mEventQueue) + Len(direct)
       /\ Increasing(mEventQueue')
       /\ ToSet(mEventQueue') = ToSet(mEventQueue) \cup ToSet(direct)
  BY <1>3, <1>4, <1>6, <1>9, ConcatSeq
<1>11. k = 0 => ToSet(direct) = {}
  BY <1>4, SeqFacts
<1>12. k > 0 => PendingEvents = {}
  BY <1>3, EmptyQueue, PendingIsAll DEF q
<1>13. k = 0 \/ k > 0
  BY <1>2, <1>3
<1>14. ASSUME Stored
       PROVE  QueuesKept
  <2>0. /\ k < n /\ q' = Append(q, post)
        /\ mSizePendingWriteEventsQueue + (n - k) <= kMaxSizePendingWriteEventsQueue
        /\ mSizePendingWriteEventsQueue' = mSizePendingWriteEventsQueue + (n - k)
    BY <1>14
  <2>1. wakeups \in Nat
    <3>1. IsFiniteSet(1..n)
      BY <1>2, FS_Interval
    <3>2. IsFiniteSet({i \in 1..n : events[i].wake})
      BY <3>1, FS_Subset
    <3> QED
      BY <3>2, FS_CardinalityType DEF CountNumWakeupEvents
  <2>2. post.events = left /\ post \in PendingPost
    BY <2>1, <1>4 DEF PendingPost
  <2>3. left # <<>>
    <3>1. Len(left) # 0
      BY <1>2, <1>3, <1>4, <2>0
    <3> QED
      BY <3>1, <1>4, SeqFacts
  <2> HIDE DEF post, wakeups, q
  <2>4. /\ q' \in Seq(PendingPost) /\ InPostOrder(q')
        /\ AllEvents(q') = AllEvents(q) \cup ToSet(left)
        /\ q # <<>> => Head(q') = Head(q)
        /\ q' # <<>>
    <3>1. AllEvents(q) = PendingEvents
      BY PendingIsAll DEF q
    <3> QED
      BY <3>1, <2>0, <2>2, <2>3, <1>4, <1>6, <1>9, AppendPost
  <2>5. PendingEvents' = PendingEvents \cup ToSet(left)
    BY <2>4, PendingIsAll DEF PendingEvents, AllEvents, q
  <2>6. Written' = Written
    <3>1. CASE thread = "wrote"
      <4>1. q # <<>>
        BY <1>1, <3>1 DEF ControlInv, q
      <4>2. PendingFront' = PendingFront
        BY <2>4, <4>1 DEF PendingFront, q
      <4> QED
        BY <1>5, <4>2 DEF Written, NumToWrite
    <3>2. CASE thread # "wrote"
      BY <3>2, <1>5 DEF Written
    <3> QED
      BY <3>1, <3>2
  <2>7. ToSet(left) \cap PendingEvents = {}
    BY <1>7, <1>9, BeforeDisjoint
  <2>8. PendingEvents' \ Written' = (PendingEvents \ Written) \cup ToSet(left)
    BY <2>5, <2>6, <2>7, <1>6
  <2>9. EventsOnTheWay' = EventsOnTheWay \cup ToSet(events)
    BY <2>8, <1>4, <1>10 DEF EventsOnTheWay
  <2>10. OrderInv'
    <3>1. InPostOrder(mPendingWriteEventsQueue)'
      BY <2>4 DEF q
    <3>2. Before(ToSet(mEventQueue), PendingEvents \ Written)'
      <4>1. CASE k = 0
        <5>1. ToSet(mEventQueue') = ToSet(mEventQueue)
          BY <4>1, <1>10, <1>11
        <5> QED
          BY <5>1, <2>8, <1>6, <1>9 DEF Before
      <4>2. CASE k > 0
        <5>1. PendingEvents' \ Written' = ToSet(left)
          BY <4>2, <2>8, <1>12
        <5> QED
          BY <5>1, <1>4, <1>9, <1>10 DEF Before
      <4> QED
        BY <4>1, <4>2, <1>13
    <3>3. \A e \in EventsOnTheWay' : lastRead' < e.id
      <4>1. \A e \in ToSet(events) : lastRead < e.id
        <5>1. \A e \in ToSet(events) : e.id \in Nat
          BY <1>4, <1>8 DEF Event
        <5> QED
          BY <5>1, <1>2, <1>6
      <4> QED
        BY <4>1, <2>9, <1>1, <1>5 DEF OrderInv
    <3>4. \A e \in ToSet(mEventQueue)' \cup PendingEvents' : e.id < nextId'
      <4>1. \A e \in ToSet(mEventQueue) \cup PendingEvents : e.id < nextId + n
        <5>1. \A e \in ToSet(mEventQueue) \cup PendingEvents : e.id \in Nat
          BY <1>7 DEF Event
        <5> QED
          BY <5>1, <1>2, <1>6
      <4> QED
        BY <4>1, <2>5, <1>3, <1>8, <1>10
    <3> QED
      BY <3>1, <3>2, <3>3, <3>4, <1>10 DEF OrderInv
  <2>11. SizeMatches' /\ mSizePendingWriteEventsQueue' \in 0..kMaxSizePendingWriteEventsQueue
    <3>1. IsFiniteSet(ToSet(left)) /\ Cardinality(ToSet(left)) = n - k
      BY <1>4, SeqSize
    <3>2. Cardinality(PendingEvents \cap ToSet(left)) = 0
      BY <2>7, FS_EmptySet
    <3>3. Cardinality(PendingEvents \cup ToSet(left))
            = Cardinality(PendingEvents) + Cardinality(ToSet(left))
                - Cardinality(PendingEvents \cap ToSet(left))
      BY <3>1, <1>7, FS_Union, Zenon
    <3>4. Cardinality(PendingEvents) \in Nat
      BY <1>7, FS_CardinalityType
    <3>5. Cardinality(PendingEvents') = Cardinality(PendingEvents) + (n - k)
      <4>1. PICK a : a = Cardinality(PendingEvents)
        OBVIOUS
      <4>2. Cardinality(PendingEvents') = a + (n - k) - 0
        BY <4>1, <3>1, <3>2, <3>3, <2>5, Zenon
      <4>3. a \in Nat /\ n - k \in Nat
        BY <4>1, <3>4, <1>2, <1>3
      <4> QED
        BY <4>1, <4>2, <4>3
    <3>6. /\ mSizePendingWriteEventsQueue = Cardinality(PendingEvents)
          /\ kMaxSizePendingWriteEventsQueue \in Nat
      BY <1>1, ConstantsAssumption DEF SizeMatches
    <3>7. mSizePendingWriteEventsQueue' = Cardinality(PendingEvents')
      BY <3>5, <3>6, <2>0
    <3>8. mSizePendingWriteEventsQueue' \in 0..kMaxSizePendingWriteEventsQueue
      BY <3>4, <3>6, <2>0, <1>2, <1>3
    <3> QED
      BY <3>7, <3>8 DEF SizeMatches
  <2>12. ToSet(SubSeq(events, 1, n)) = ToSet(events)
    BY <1>2, WholeSeq DEF n
  <2>13. n \in 0..n
    BY <1>2
  <2> QED
    BY <2>4, <2>9, <2>10, <2>11, <2>12, <2>13 DEF q
<1>15. ASSUME NotStored, (k < n /\ overflowed' = TRUE) \/ k = n
       PROVE  QueuesKept
  <2>1. mPendingWriteEventsQueue' = mPendingWriteEventsQueue
        /\ mSizePendingWriteEventsQueue' = mSizePendingWriteEventsQueue
    BY <1>15 DEF q
  <2>2. PendingEvents' = PendingEvents /\ Written' = Written
    BY <1>5, <2>1 DEF PendingEvents, Written, PendingFront, NumToWrite
  <2>3. EventsOnTheWay' = EventsOnTheWay \cup ToSet(direct)
    BY <2>2, <1>10 DEF EventsOnTheWay
  <2>4. OrderInv'
    <3>1. InPostOrder(mPendingWriteEventsQueue)'
      BY <2>1, <1>6 DEF q
    <3>2. Before(ToSet(mEventQueue), PendingEvents \ Written)'
      <4>1. CASE k = 0
        BY <4>1, <2>2, <1>6, <1>10, <1>11
      <4>2. CASE k > 0
        BY <4>2, <2>2, <1>12 DEF Before
      <4> QED
        BY <4>1, <4>2, <1>13
    <3>3. \A e \in EventsOnTheWay' : lastRead' < e.id
      <4>1. \A e \in ToSet(direct) : lastRead < e.id
        <5>1. \A e \in ToSet(direct) : e.id \in Nat
          BY <1>8 DEF Event
        <5> QED
          BY <5>1, <1>6, <1>8
      <4> QED
        BY <4>1, <2>3, <1>1, <1>5 DEF OrderInv
    <3>4. \A e \in ToSet(mEventQueue)' \cup PendingEvents' : e.id < nextId'
      <4>1. \A e \in ToSet(mEventQueue) \cup PendingEvents : e.id < nextId + n
        <5>1. \A e \in ToSet(mEventQueue) \cup PendingEvents : e.id \in Nat
          BY <1>7 DEF Event
        <5> QED
          BY <5>1, <1>2, <1>6
      <4> QED
        BY <4>1, <2>2, <1>3, <1>8, <1>10
    <3> QED
      BY <3>1, <3>2, <3>3, <3>4, <1>10 DEF OrderInv
  <2>5. SizeMatches' /\ mSizePendingWriteEventsQueue' \in 0..kMaxSizePendingWriteEventsQueue
    BY <2>1, <2>2, <1>1 DEF SizeMatches, TypeOK
  <2>6. overflowed' = FALSE => k = n
    BY <1>15
  <2> QED
    BY <2>1, <2>3, <2>4, <2>5, <2>6, <1>3, <1>6 DEF q, direct
<1>16. QueuesKept
  <2> HIDE DEF Stored, NotStored, QueuesKept
  <2> QED
    BY <1>3, <1>14, <1>15, Zenon
<1>17. TypeOK'
  <2>1. /\ client' \in [Clients -> {"idle", "scoped", "checked"}]
        /\ batch' \in [Clients -> Seq(BOOLEAN)]
        /\ locked' \in [Clients -> BOOLEAN]
    <3>1. <<>> \in Seq(BOOLEAN)
      BY EmptySeq
    <3> QED
      BY <3>1, <1>1, <1>5, Zenon DEF TypeOK
  <2>2. Len(mEventQueue') <= QueueCapacity
    BY <1>3, <1>4, <1>10
  <2>3. nextId' \in Nat \ {0} /\ sessionStart' \in 1..nextId' /\ lastRead' \in 0..(nextId' - 1)
    <3>1. nextId \in Nat \ {0} /\ sessionStart \in 1..nextId /\ lastRead \in 0..(nextId - 1)
      BY <1>1, Zenon DEF TypeOK
    <3>2. sessionStart' = sessionStart
      BY <1>5 DEF controlVars
    <3> QED
      BY <3>1, <3>2, <1>2, <1>3, <1>5
  <2>4. balance' \in Int
    <3>1. wakeups \in Nat
      <4>1. IsFiniteSet(1..n)
        BY <1>2, FS_Interval
      <4>2. IsFiniteSet({i \in 1..n : events[i].wake})
        BY <4>1, FS_Subset
      <4> QED
        BY <4>2, FS_CardinalityType DEF CountNumWakeupEvents
    <3>2. balance \in Int
      BY <1>1, Zenon DEF TypeOK
    <3> QED
      BY <3>1, <3>2, <1>3
  <2>5. /\ overflowed' \in BOOLEAN /\ split' \in BOOLEAN /\ uncounted' \in BOOLEAN
        /\ notified' \in BOOLEAN
    <3>1. notified' \in BOOLEAN
      BY <1>1, <1>5, Zenon DEF TypeOK
    <3>2. /\ \E x : overflowed' = (overflowed \/ x)
          /\ \E x : split' = (split \/ x)
          /\ \E x : uncounted' = (uncounted \/ x)
      BY Zenon DEF PostEventsToMessageQueue
    <3> QED
      BY <3>1, <3>2, Zenon
  <2> QED
    BY <2>1, <2>2, <2>3, <2>4, <2>5, <1>1, <1>5, <1>10, <1>16, Zenon DEF TypeOK, controlVars
<1>18. ControlInv'
  <2>1. \A d \in Clients : client'[d] = "checked" => client[d] = "checked"
    BY <1>1, <1>5 DEF TypeOK
  <2>2. control # "start"
    BY <1>1, <1>5 DEF ControlInv
  <2> QED
    BY <2>1, <2>2, <1>1, <1>5, <1>16 DEF ControlInv, controlVars
<1> QED
  BY <1>3, <1>16, <1>17, <1>18 DEF QueueInv, events, n

-----------------------------------------------------------------------------
(* The steps taken together.                                               *)

QuietStep ==
  \/ \E c \in Clients : (\E b \in Batches : CreateScopedWakelock(c, b)) \/ CheckThreadsRunning(c)
  \/ QuietThreadStep \/ QuietControlStep \/ UNCHANGED vars

QueueStep ==
  \/ \E c \in Clients : PostEventsToMessageQueue(c)
  \/ FrameworkRead
  \/ ThreadWriteSucceeds \/ ThreadWriteFails \/ ThreadFinishWrite
  \/ StopDrain \/ InitClear \/ InitStart

LEMMA StepCases == [Next]_vars => QuietStep \/ QueueStep
  BY Zenon DEF Next, ClientStep, ThreadStep, ControlStep, QuietStep, QuietThreadStep,
               QuietControlStep, QueueStep

LEMMA QuietStepKeeps ==
  ASSUME QueueInv, QuietStep
  PROVE  /\ QueueInv' /\ EventsOnTheWay' = EventsOnTheWay
         /\ UNCHANGED <<queueVars, nextId, lastRead, sessionStart, ledgerVars>>
         /\ mThreadsRun' => mThreadsRun
<1>1. TypeOK /\ ControlInv /\ OrderInv /\ SizeMatches
  BY DEF QueueInv
<1>2. Quiet /\ TypeOK' /\ ControlInv'
  <2>1. CASE UNCHANGED vars
    <3>1. Quiet
      BY <2>1, Zenon DEF vars, Quiet, threadVars
    <3>2. TypeOK'
      BY <2>1, <1>1, Zenon
         DEF vars, TypeOK, queueVars, threadVars, clientVars, controlVars, ledgerVars
    <3>3. ControlInv'
      BY <2>1, <1>1 DEF vars, ControlInv, queueVars, threadVars, clientVars, controlVars
    <3> QED
      BY <3>1, <3>2, <3>3
  <2> QED
    BY <2>1, ClientQuiet, ThreadQuiet, ControlQuiet, Zenon DEF QuietStep
<1>3. UNCHANGED <<sessionStart, ledgerVars>> /\ (mThreadsRun' => mThreadsRun)
  <2>1. CASE \E c \in Clients :
               (\E b \in Batches : CreateScopedWakelock(c, b)) \/ CheckThreadsRunning(c)
    BY <2>1 DEF CreateScopedWakelock, CheckThreadsRunning, controlVars
  <2>2. CASE QuietThreadStep
    BY <2>2 DEF QuietThreadStep, ThreadStart, ThreadExit, ThreadWait, ThreadSleep,
                       ThreadWake, ThreadBeginWrite, ThreadSpuriousWake, controlVars
  <2>3. CASE QuietControlStep
    BY <2>3 DEF QuietControlStep, StopStore, StopNotify, StopJoin, InitDisableSensors
  <2>4. CASE UNCHANGED vars
    BY <2>4, Zenon DEF vars, controlVars
  <2> QED
    BY <2>1, <2>2, <2>3, <2>4 DEF QuietStep
<1>4. EventsOnTheWay' = EventsOnTheWay /\ OrderInv' /\ SizeMatches'
  BY <1>1, <1>2, QuietKeeps DEF Quiet
<1> QED
  BY <1>2, <1>3, <1>4, Zenon DEF QueueInv, Quiet

LEMMA InitQueueInv == Init => QueueInv
<1> SUFFICES ASSUME Init PROVE QueueInv
  OBVIOUS
<1>1. PendingEvents = {} /\ ToSet(mEventQueue) = {} /\ EventsOnTheWay = {}
  BY EmptyQueue DEF Init, PendingEvents, AllEvents, EventsOnTheWay
<1>2. ControlInv /\ OrderInv /\ SizeMatches
  BY <1>1, EmptyQueue, FS_EmptySet DEF Init, ControlInv, OrderInv, SizeMatches, Before
<1>3. TypeOK
  <2>1. <<>> \in Seq(BOOLEAN)
    BY EmptySeq
  <2>2. /\ mEventQueue \in Seq(Event) /\ Len(mEventQueue) <= QueueCapacity
        /\ mPendingWriteEventsQueue \in Seq(PendingPost)
        /\ mSizePendingWriteEventsQueue \in 0..kMaxSizePendingWriteEventsQueue
        /\ restarts \in 0..MaxRestarts
    BY EmptyQueue, ConstantsAssumption DEF Init
  <2>3. /\ nextId \in Nat \ {0} /\ sessionStart \in 1..nextId
        /\ lastRead \in 0..(nextId - 1) /\ balance \in Int
    BY DEF Init
  <2>4. /\ client \in [Clients -> {"idle", "scoped", "checked"}]
        /\ batch \in [Clients -> Seq(BOOLEAN)] /\ locked \in [Clients -> BOOLEAN]
    BY <2>1 DEF Init
  <2> QED
    BY <2>2, <2>3, <2>4 DEF Init, TypeOK, ThreadStates, ControlStates
<1> QED
  BY <1>2, <1>3 DEF QueueInv

LEMMA QueueInvKept ==
  ASSUME QueueInv, [Next]_vars
  PROVE  QueueInv'
<1>1. CASE QuietStep
  BY <1>1, QuietStepKeeps
<1>2. CASE QueueStep
  BY <1>2, PostStep, ReadStep, WriteSucceedsStep, WriteFailsStep, FinishWriteStep, DrainStep,
     ClearStep, StartStep, Zenon DEF QueueStep
<1> QED
  BY <1>1, <1>2, StepCases

(* Through posts that are written in parts, chunks, failed writes, drains  *)
(* and restarts: both queues stay in the order of the posts, the size is   *)
(* right, and initializeCommon has the queues to itself when it clears.    *)
THEOREM QueueInvCorrect == Spec => []QueueInv
<1>1. QueueInv /\ [Next]_vars => QueueInv'
  BY QueueInvKept
<1> QED
  BY InitQueueInv, <1>1, PTL DEF Spec

(* For any sensors, posts, queue sizes and restarts, the variables of the  *)
(* event path keep their types: neither queue grows beyond its limit.      *)
THEOREM TypeCorrect == Spec => []TypeOK
<1>1. QueueInv => TypeOK
  BY DEF QueueInv
<1> QED
  BY QueueInvCorrect, <1>1, PTL

(* mSizePendingWriteEventsQueue never drifts from the number of events     *)
(* that are pending.                                                       *)
THEOREM SizeMatchesCorrect == Spec => []SizeMatches
<1>1. QueueInv => SizeMatches
  BY DEF QueueInv
<1> QED
  BY QueueInvCorrect, <1>1, PTL

(* No event posted before a restart is left in the queues after it.        *)
THEOREM NoStaleEventsCorrect == Spec => []NoStaleEvents
<1>1. Init => NoStaleEvents
  <2>1. Init => EventsOnTheWay = {}
    BY EmptyQueue DEF Init, PendingEvents, AllEvents, EventsOnTheWay
  <2> QED
    BY <2>1 DEF NoStaleEvents
<1>2. QueueInv /\ NoStaleEvents /\ [Next]_vars => NoStaleEvents'
  <2> SUFFICES ASSUME QueueInv, NoStaleEvents, [Next]_vars
               PROVE  NoStaleEvents'
    OBVIOUS
  <2>1. TypeOK
    BY DEF QueueInv
  <2>2. ASSUME NEW c \in Clients, PostEventsToMessageQueue(c)
        PROVE  NoStaleEvents'
    <3>1. PICK m \in 0..Len(Posted(c)) :
            EventsOnTheWay' = EventsOnTheWay \cup ToSet(SubSeq(Posted(c), 1, m))
      BY <2>2, PostStep
    <3>2. ToSet(SubSeq(Posted(c), 1, m)) \subseteq ToSet(Posted(c))
      BY <2>1, PostedFacts, SplitSeq
    <3>3. sessionStart \in 1..nextId /\ nextId \in Nat
      BY <2>1 DEF TypeOK
    <3>4. \A e \in ToSet(Posted(c)) : e.id >= sessionStart
      <4>1. \A e \in ToSet(Posted(c)) : e.id \in Nat /\ nextId <= e.id
        <5>1. ToSet(Posted(c)) \subseteq Event
          BY <2>1, PostedFacts, SeqFacts
        <5> QED
          BY <5>1, <2>1, PostedFacts DEF Event
      <4> QED
        BY <3>3, <4>1
    <3>5. UNCHANGED <<mThreadsRun, sessionStart>>
      BY <2>2 DEF PostEventsToMessageQueue, controlVars
    <3> QED
      BY <3>1, <3>2, <3>4, <3>5 DEF NoStaleEvents
  <2>3. CASE FrameworkRead \/ ThreadWriteSucceeds \/ ThreadWriteFails \/ ThreadFinishWrite
    <3>1. EventsOnTheWay' \subseteq EventsOnTheWay
      BY <2>3, ReadStep, WriteSucceedsStep, WriteFailsStep, FinishWriteStep
    <3>2. UNCHANGED <<mThreadsRun, sessionStart>>
      BY <2>3 DEF FrameworkRead, ThreadWriteSucceeds, ThreadWriteFails, ThreadFinishWrite,
                  controlVars
    <3> QED
      BY <3>1, <3>2 DEF NoStaleEvents
  <2>4. CASE StopDrain \/ InitClear
    <3>1. EventsOnTheWay' \subseteq EventsOnTheWay
      BY <2>4, DrainStep, ClearStep
    <3>2. UNCHANGED <<mThreadsRun, sessionStart>>
      BY <2>4 DEF StopDrain, InitClear
    <3> QED
      BY <3>1, <3>2 DEF NoStaleEvents
  <2>5. CASE InitStart
    BY <2>5, StartStep DEF NoStaleEvents
  <2>6. CASE QuietStep
    BY <2>6, QuietStepKeeps DEF NoStaleEvents
  <2> QED
    BY <2>2, <2>3, <2>4, <2>5, <2>6, StepCases DEF QueueStep
<1> QED
  BY QueueInvCorrect, <1>1, <1>2, PTL DEF Spec

-----------------------------------------------------------------------------
(* The wake-up events among a set of events.                               *)

NumWakeups(S) == Cardinality({e \in S : e.wake})

LEMMA WakeupsOfUnion ==
  ASSUME NEW S, NEW T, IsFiniteSet(S), IsFiniteSet(T), S \cap T = {}
  PROVE  /\ NumWakeups(S) \in Nat /\ NumWakeups(T) \in Nat
         /\ NumWakeups(S \cup T) = NumWakeups(S) + NumWakeups(T)
<1> DEFINE W(X) == {e \in X : e.wake}
<1>1. IsFiniteSet(W(S)) /\ IsFiniteSet(W(T))
  BY FS_Subset
<1>2. W(S \cup T) = W(S) \cup W(T) /\ W(S) \cap W(T) = {}
  OBVIOUS
<1> HIDE DEF W
<1>3. Cardinality(W(S)) \in Nat /\ Cardinality(W(T)) \in Nat
  BY <1>1, FS_CardinalityType
<1>4. Cardinality(W(S) \cup W(T)) =
        Cardinality(W(S)) + Cardinality(W(T)) - Cardinality(W(S) \cap W(T))
  BY <1>1, FS_Union
<1>5. Cardinality(W(S) \cap W(T)) = 0
  BY <1>2, FS_EmptySet
<1>6. Cardinality(W(S \cup T)) = Cardinality(W(S)) + Cardinality(W(T))
  <2>1. Cardinality(W(S \cup T)) = Cardinality(W(S) \cup W(T))
    BY <1>2, Zenon
  <2>2. Cardinality(W(S) \cup W(T)) = Cardinality(W(S)) + Cardinality(W(T)) - 0
    BY <1>4, <1>5, Zenon
  <2> QED
    BY <2>1, <2>2, <1>3
<1> QED
  BY <1>3, <1>6 DEF NumWakeups, W

LEMMA WakeupsOfDifference ==
  ASSUME NEW S, NEW T \in SUBSET S, IsFiniteSet(S)
  PROVE  /\ NumWakeups(S \ T) \in Nat /\ NumWakeups(T) \in Nat
         /\ NumWakeups(S \ T) = NumWakeups(S) - NumWakeups(T)
         /\ NumWakeups(S) >= NumWakeups(T)
<1>1. IsFiniteSet(T) /\ IsFiniteSet(S \ T) /\ (S \ T) \cap T = {} /\ (S \ T) \cup T = S
  BY FS_Subset
<1>2. /\ NumWakeups(S \ T) \in Nat /\ NumWakeups(T) \in Nat
      /\ NumWakeups((S \ T) \cup T) = NumWakeups(S \ T) + NumWakeups(T)
  BY <1>1, WakeupsOfUnion
<1>3. NumWakeups(S) = NumWakeups(S \ T) + NumWakeups(T)
  BY <1>1, <1>2
<1> QED
  BY <1>2, <1>3

LEMMA WakeupsOfSeq ==
  ASSUME NEW s \in Seq(Event), Increasing(s), NEW n \in 0..Len(s)
  PROVE  /\ CountNumWakeupEvents(s, n) = NumWakeups(ToSet(SubSeq(s, 1, n)))
         /\ CountNumWakeupEvents(s, Len(s)) = NumWakeups(ToSet(s))
         /\ CountNumWakeupEvents(s, Len(s)) \in Nat
         /\ CountNumWakeupEvents(s, n) \in Nat
         /\ CountNumWakeupEvents(s, n) <= CountNumWakeupEvents(s, Len(s))
         /\ NumWakeups(ToSet(SubSeq(s, n + 1, Len(s)))) <= CountNumWakeupEvents(s, Len(s))
         /\ NumWakeups(ToSet(SubSeq(s, n + 1, Len(s)))) \in Nat
<1> DEFINE a == ToSet(SubSeq(s, 1, n))
           b == ToSet(SubSeq(s, n + 1, Len(s)))
<1>1. Len(s) \in 0..Len(s)
  BY LenProperties
<1>2. CountNumWakeupEvents(s, n) = NumWakeups(a)
  BY CountIsSize DEF NumWakeups
<1>3. CountNumWakeupEvents(s, Len(s)) = NumWakeups(ToSet(s))
  <2>1. CountNumWakeupEvents(s, Len(s)) = NumWakeups(ToSet(SubSeq(s, 1, Len(s))))
    BY <1>1, CountIsSize, Zenon DEF NumWakeups
  <2> QED
    BY <2>1, WholeSeq, Zenon
<1>4. IsFiniteSet(ToSet(s))
  BY SeqSize
<1>5. a \subseteq ToSet(s) /\ b \subseteq ToSet(s)
  BY SplitSeq
<1> HIDE DEF a, b
<1>6. /\ NumWakeups(a) \in Nat /\ NumWakeups(ToSet(s)) >= NumWakeups(a)
      /\ NumWakeups(ToSet(s) \ a) = NumWakeups(ToSet(s)) - NumWakeups(a)
      /\ NumWakeups(ToSet(s) \ a) \in Nat
  BY <1>4, <1>5, WakeupsOfDifference
<1>7. NumWakeups(b) \in Nat /\ NumWakeups(ToSet(s)) >= NumWakeups(b)
  BY <1>4, <1>5, WakeupsOfDifference
<1>8. NumWakeups(ToSet(s)) \in Nat
  <2>1. ToSet(s) \subseteq ToSet(s) /\ IsFiniteSet(ToSet(s))
    BY <1>4
  <2> QED
    BY <2>1, WakeupsOfDifference
<1> QED
  BY <1>2, <1>3, <1>6, <1>7, <1>8 DEF a, b

LEMMA WakeupsAreCounted ==
  ASSUME QueueInv
  PROVE  WakeupsOnTheWay = NumWakeups(EventsOnTheWay) /\ WakeupsOnTheWay \in Nat
<1>1. IsFiniteSet(EventsOnTheWay)
  BY SetFacts DEF QueueInv
<1>2. IsFiniteSet({e \in EventsOnTheWay : e.wake})
  BY <1>1, FS_Subset
<1> QED
  BY <1>2, FS_CardinalityType DEF WakeupsOnTheWay, NumWakeups

(* A post: as many are counted as there are, and as many are on their way  *)
(* unless some were dropped.                                               *)
LEMMA PostWakeups ==
  ASSUME QueueInv, NEW c \in Clients, PostEventsToMessageQueue(c)
  PROVE  LET w == CountNumWakeupEvents(Posted(c), Len(Posted(c)))
         IN  /\ w \in Nat
             /\ balance' = IF locked[c] /\ mThreadsRun THEN balance + w ELSE balance
             /\ uncounted' = (uncounted \/ (w > 0 /\ ~locked[c]))
             /\ \E x : overflowed' = (overflowed \/ x)
             /\ \E x : split' = (split \/ x)
             /\ UNCHANGED controlVars
             /\ WakeupsOnTheWay' \in Nat
             /\ WakeupsOnTheWay' <= WakeupsOnTheWay + w
             /\ overflowed' = FALSE => WakeupsOnTheWay' = WakeupsOnTheWay + w
<1> DEFINE events == Posted(c)
           n == Len(events)
           w == CountNumWakeupEvents(events, n)
<1>1. TypeOK /\ OrderInv /\ QueueInv'
  BY PostStep DEF QueueInv
<1>2. /\ events \in Seq(Event) /\ Increasing(events) /\ n \in Nat
      /\ \A e \in ToSet(events) : nextId <= e.id
  BY <1>1, PostedFacts
<1>3. PICK m \in 0..n : /\ EventsOnTheWay' = EventsOnTheWay \cup ToSet(SubSeq(events, 1, m))
                        /\ overflowed' = FALSE => m = n
  BY PostStep
<1> HIDE DEF events
<1>4. PICK kept : kept = ToSet(SubSeq(events, 1, m))
  OBVIOUS
<1>5. kept \subseteq ToSet(events) /\ kept \subseteq Event /\ IsFiniteSet(kept)
  <2>1. /\ SubSeq(events, 1, m) \in Seq(Event) /\ Increasing(SubSeq(events, 1, m))
        /\ kept \subseteq ToSet(events)
    BY <1>2, <1>4, SplitSeq
  <2> QED
    BY <2>1, <1>4, SeqFacts, SeqSize
<1>6. /\ NumWakeups(kept) = CountNumWakeupEvents(events, m)
      /\ NumWakeups(kept) \in Nat /\ w \in Nat /\ NumWakeups(kept) <= w
      /\ m = n => NumWakeups(kept) = w
  BY <1>2, <1>4, WakeupsOfSeq
<1>7. EventsOnTheWay \cap kept = {}
  <2>1. \A e \in EventsOnTheWay : e.id < nextId
    BY <1>1 DEF OrderInv, EventsOnTheWay
  <2>2. \A e \in kept : e.id \in Nat /\ nextId <= e.id
    BY <1>2, <1>5 DEF Event
  <2>3. nextId \in Nat
    BY <1>1 DEF TypeOK
  <2> QED
    BY <2>1, <2>2, <2>3
<1>8. IsFiniteSet(EventsOnTheWay)
  BY <1>1, SetFacts
<1>9. WakeupsOnTheWay' = WakeupsOnTheWay + NumWakeups(kept) /\ WakeupsOnTheWay \in Nat
  <2>1. NumWakeups(EventsOnTheWay \cup kept) = NumWakeups(EventsOnTheWay) + NumWakeups(kept)
    BY <1>5, <1>7, <1>8, WakeupsOfUnion
  <2>2. WakeupsOnTheWay' = NumWakeups(EventsOnTheWay')
    BY DEF WakeupsOnTheWay, NumWakeups
  <2> QED
    BY <2>1, <2>2, <1>3, <1>4, WakeupsAreCounted
<1>10. UNCHANGED controlVars
  BY DEF PostEventsToMessageQueue
<1>11. /\ balance' = IF locked[c] /\ mThreadsRun THEN balance + w ELSE balance
       /\ uncounted' = (uncounted \/ (w > 0 /\ ~locked[c]))
       /\ \E x : overflowed' = (overflowed \/ x)
       /\ \E x : split' = (split \/ x)
  BY Zenon DEF PostEventsToMessageQueue, Posted, events
<1>12. /\ WakeupsOnTheWay' \in Nat /\ WakeupsOnTheWay' <= WakeupsOnTheWay + w
       /\ overflowed' = FALSE => WakeupsOnTheWay' = WakeupsOnTheWay + w
  BY <1>3, <1>6, <1>9
<1> QED
  BY <1>6, <1>10, <1>11, <1>12, Zenon DEF events

LEMMA ReadWakeups ==
  ASSUME QueueInv, FrameworkRead
  PROVE  /\ WakeupsOnTheWay' \in Nat
         /\ \/ WakeupsOnTheWay' = WakeupsOnTheWay - 1 /\ balance' = balance - 1
            \/ WakeupsOnTheWay' = WakeupsOnTheWay /\ balance' = balance
         /\ UNCHANGED <<controlVars, overflowed, split, uncounted, mPendingWriteEventsQueue>>
<1> DEFINE h == Head(mEventQueue)
<1>1. /\ h \in EventsOnTheWay /\ EventsOnTheWay' = EventsOnTheWay \ {h}
      /\ IsFiniteSet(EventsOnTheWay)
  BY ReadStep, SetFacts DEF QueueInv
<1>2. balance' = IF h.wake THEN balance - 1 ELSE balance
  BY DEF FrameworkRead
<1> HIDE DEF h
<1>3. NumWakeups({h}) = IF h.wake THEN 1 ELSE 0
  <2>1. CASE h.wake
    <3>1. {e \in {h} : e.wake} = {h}
      BY <2>1
    <3> QED
      BY <2>1, <3>1, FS_Singleton DEF NumWakeups
  <2>2. CASE ~h.wake
    <3>1. {e \in {h} : e.wake} = {}
      BY <2>2
    <3> QED
      BY <2>2, <3>1, FS_EmptySet DEF NumWakeups
  <2> QED
    BY <2>1, <2>2
<1>4. /\ NumWakeups(EventsOnTheWay \ {h}) = NumWakeups(EventsOnTheWay) - NumWakeups({h})
      /\ NumWakeups(EventsOnTheWay \ {h}) \in Nat
  <2>1. {h} \in SUBSET EventsOnTheWay
    BY <1>1
  <2> QED
    BY <2>1, <1>1, WakeupsOfDifference
<1>5. /\ WakeupsOnTheWay' = WakeupsOnTheWay - NumWakeups({h})
      /\ WakeupsOnTheWay' \in Nat /\ WakeupsOnTheWay \in Nat
  <2>1. WakeupsOnTheWay' = NumWakeups(EventsOnTheWay')
    BY DEF WakeupsOnTheWay, NumWakeups
  <2> QED
    BY <2>1, <1>1, <1>4, WakeupsAreCounted
<1>6. UNCHANGED <<controlVars, overflowed, split, uncounted, mPendingWriteEventsQueue>>
  BY DEF FrameworkRead
<1> QED
  BY <1>2, <1>3, <1>5, <1>6

(* A failed write gives back at least what it drops.                       *)
LEMMA FailWakeups ==
  ASSUME QueueInv, WakeupInv, ThreadWriteFails
  PROVE  /\ NumWakeupEventsDropped \in Nat
         /\ WakeupsOnTheWay' \in Nat
         /\ WakeupsOnTheWay' >= WakeupsOnTheWay - NumWakeupEventsDropped
         /\ ~split => WakeupsOnTheWay' = WakeupsOnTheWay - NumWakeupEventsDropped
         /\ balance' = IF mThreadsRun THEN balance - NumWakeupEventsDropped ELSE balance
         /\ UNCHANGED <<controlVars, overflowed, split, uncounted, mPendingWriteEventsQueue>>
<1> DEFINE q == mPendingWriteEventsQueue
           s == PendingFront.events
           D == NumWakeupEventsDropped
<1>1. TypeOK /\ OrderInv /\ q # <<>> /\ q \in Seq(PendingPost)
  BY WriteFailsStep DEF QueueInv, TypeOK
<1>2. /\ ToSet(Chunk) \subseteq EventsOnTheWay
      /\ EventsOnTheWay' = EventsOnTheWay \ ToSet(Chunk)
  BY WriteFailsStep
<1>3. /\ PendingFront = q[1] /\ s \in Seq(Event) /\ Increasing(s) /\ Len(s) \in Nat
      /\ NumToWrite \in 0..Len(s) /\ Chunk = SubSeq(s, 1, NumToWrite)
      /\ NumToWrite = Len(s) <=> ~(Len(s) > QueueCapacity)
      /\ Len(s) > QueueCapacity => NumToWrite = QueueCapacity
      /\ 1 \in DOMAIN q /\ PendingFront.numWakeupEvents \in Nat
  <2>1. 1 \in DOMAIN q /\ PendingFront \in PendingPost
    BY <1>1, ChunkFacts, TailPosts DEF OrderInv
  <2>2. PendingFront.numWakeupEvents \in Nat
    BY <2>1 DEF PendingPost
  <2> QED
    BY <2>1, <2>2, <1>1, ChunkFacts DEF Chunk
<1>4. /\ PendingFront.numWakeupEvents >= CountNumWakeupEvents(s, Len(s))
      /\ ~split => PendingFront.numWakeupEvents = CountNumWakeupEvents(s, Len(s))
  BY <1>3, Zenon DEF WakeupInv
<1> HIDE DEF s, q
<1>5. /\ CountNumWakeupEvents(s, NumToWrite) = NumWakeups(ToSet(Chunk))
      /\ CountNumWakeupEvents(s, NumToWrite) \in Nat
      /\ CountNumWakeupEvents(s, Len(s)) \in Nat
      /\ CountNumWakeupEvents(s, NumToWrite) <= CountNumWakeupEvents(s, Len(s))
  BY <1>3, WakeupsOfSeq
<1>6. D = IF Len(s) > QueueCapacity /\ PendingFront.numWakeupEvents > 0
          THEN CountNumWakeupEvents(s, QueueCapacity) ELSE PendingFront.numWakeupEvents
  BY DEF NumWakeupEventsDropped, s
<1> HIDE DEF D
<1>7. /\ D \in Nat /\ D >= NumWakeups(ToSet(Chunk))
      /\ ~split => D = NumWakeups(ToSet(Chunk))
      /\ NumWakeups(ToSet(Chunk)) \in Nat
  BY <1>3, <1>4, <1>5, <1>6
<1>8. /\ WakeupsOnTheWay' = WakeupsOnTheWay - NumWakeups(ToSet(Chunk))
      /\ WakeupsOnTheWay' \in Nat /\ WakeupsOnTheWay \in Nat
  <2>1. IsFiniteSet(EventsOnTheWay)
    BY <1>1, SetFacts
  <2>2. WakeupsOnTheWay' = NumWakeups(EventsOnTheWay')
    BY DEF WakeupsOnTheWay, NumWakeups
  <2> QED
    BY <2>1, <2>2, <1>2, WakeupsOfDifference, WakeupsAreCounted
<1>9. /\ balance' = IF mThreadsRun THEN balance - D ELSE balance
      /\ UNCHANGED <<controlVars, overflowed, split, uncounted, mPendingWriteEventsQueue>>
  BY DEF ThreadWriteFails, D, queueVars
<1> QED
  BY <1>7, <1>8, <1>9 DEF D

-----------------------------------------------------------------------------
(* The count of the wake-up events.                                        *)

LEMMA PostKeepsWakeupInv ==
  ASSUME QueueInv, WakeupInv, NEW c \in Clients, PostEventsToMessageQueue(c)
  PROVE  WakeupInv'
<1> DEFINE q == mPendingWriteEventsQueue
           events == Posted(c)
           n == Len(events)
           k == DirectWriteSize(n)
           left == SubSeq(events, k + 1, n)
           wakeups == CountNumWakeupEvents(events, n)
           post == [events |-> left, numWakeupEvents |-> wakeups]
<1>1. /\ k \in 0..n
      /\ \/ k < n /\ q' = Append(q, post) /\ split' = (split \/ k > 0)
         \/ q' = q /\ \E x : split' = (split \/ x)
  <2>1. /\ k \in 0..n
        /\ \/ k < n /\ q' = Append(q, post) /\ split' = (split \/ k > 0)
           \/ q' = q
    BY PostParts, Zenon
  <2>2. \E x : split' = (split \/ x)
    BY PostWakeups
  <2> QED
    BY <2>1, <2>2
<1>2. CASE q' = q /\ \E x : split' = (split \/ x)
  BY <1>2, Zenon DEF WakeupInv
<1>3. CASE k < n /\ q' = Append(q, post) /\ split' = (split \/ k > 0)
  <2>1. /\ events \in Seq(Event) /\ Increasing(events) /\ n \in Nat
        /\ q \in Seq(PendingPost) /\ InPostOrder(q)
    BY PostedFacts DEF QueueInv, TypeOK, OrderInv
  <2> HIDE DEF events, k, n
  <2>2. left \in Seq(Event) /\ Increasing(left) /\ Len(left) = n - k
    BY <1>1, <2>1, SplitSeq DEF n
  <2>3. /\ wakeups \in Nat /\ wakeups = NumWakeups(ToSet(events))
        /\ NumWakeups(ToSet(left)) <= wakeups
    BY <1>1, <2>1, WakeupsOfSeq DEF n
  <2>4. CountNumWakeupEvents(left, Len(left)) = NumWakeups(ToSet(left))
    <3>1. PICK t : t = left
      OBVIOUS
    <3>2. 0 \in 0..Len(t) /\ t \in Seq(Event) /\ Increasing(t)
      BY <3>1, <2>2, LenProperties
    <3>3. CountNumWakeupEvents(t, Len(t)) = NumWakeups(ToSet(t))
      BY <3>2, WakeupsOfSeq, Zenon
    <3> QED
      BY <3>1, <3>3, Zenon
  <2>5. k = 0 => left = SubSeq(events, 1, n)
    BY <1>1
  <2>6. ToSet(SubSeq(events, 1, n)) = ToSet(events)
    BY <2>1, WholeSeq DEF n
  <2>7. k = 0 => NumWakeups(ToSet(left)) = wakeups
    BY <2>3, <2>5, <2>6, Zenon
  <2>8. post.events = left /\ post.numWakeupEvents = wakeups /\ post \in PendingPost
    BY <2>2, <2>3 DEF PendingPost
  <2>9. k = 0 \/ k > 0
    BY <1>1, <2>1
  <2>10. NumWakeups(ToSet(left)) \in Nat
    BY <1>1, <2>1, WakeupsOfSeq DEF n
  <2>11. /\ post.numWakeupEvents >= CountNumWakeupEvents(post.events, Len(post.events))
         /\ ~split' => post.numWakeupEvents = CountNumWakeupEvents(post.events, Len(post.events))
    <3>1. wakeups >= NumWakeups(ToSet(left))
      BY <2>3, <2>10
    <3>2. ~split' => wakeups = NumWakeups(ToSet(left))
      BY <1>3, <2>7, <2>9, Zenon
    <3> QED
      BY <3>1, <3>2, <2>4, <2>8, Zenon
  <2> HIDE DEF post, left, wakeups
  <2>12. Len(q) \in Nat /\ DOMAIN q = 1..Len(q)
    BY <2>1, QueueFacts
  <2>13. PICK r : r = Append(q, post)
    OBVIOUS
  <2>14. /\ Len(r) = Len(q) + 1 /\ r \in Seq(PendingPost) /\ r[Len(q) + 1] = post
         /\ \A i \in 1..Len(q) : r[i] = q[i]
    BY <2>1, <2>8, <2>13, AppendProperties
  <2>15. DOMAIN r = 1..Len(r)
    BY <2>14, QueueFacts
  <2>16. \A i \in DOMAIN r : (i \in DOMAIN q /\ r[i] = q[i]) \/ r[i] = post
    BY <2>12, <2>14, <2>15
  <2>17. q' = r /\ (~split' => ~split)
    BY <1>3, <2>13, Zenon
  <2> QED
    BY <2>11, <2>16, <2>17, Zenon DEF WakeupInv, q
<1> QED
  BY <1>1, <1>2, <1>3

LEMMA FinishKeepsWakeupInv ==
  ASSUME QueueInv, WakeupInv, ThreadFinishWrite
  PROVE  WakeupInv'
<1> DEFINE q == mPendingWriteEventsQueue
<1>1. /\ TypeOK /\ OrderInv /\ q # <<>> /\ q \in Seq(PendingPost) /\ InPostOrder(q)
  BY DEF QueueInv, TypeOK, OrderInv, ControlInv, ThreadFinishWrite, ThreadGoto
<1>2. /\ PendingFront = q[1] /\ Len(q[1].events) \in Nat /\ NumToWrite \in 0..Len(q[1].events)
      /\ Len(q[1].events) > QueueCapacity => NumToWrite = QueueCapacity
      /\ NumToWrite = Len(q[1].events) <=> ~(Len(q[1].events) > QueueCapacity)
      /\ q[1].events \in Seq(Event) /\ Increasing(q[1].events)
  BY <1>1, ChunkFacts
<1>3. \/ NumToWrite < Len(q[1].events) /\ q' = WithoutChunk(q, NumToWrite) /\ split' = TRUE
      \/ q' = Tail(q) /\ split' = split
  BY <1>2 DEF ThreadFinishWrite, WithoutChunk
<1>4. PICK n : n = NumToWrite
  OBVIOUS
<1> HIDE DEF q
<1>5. CASE q' = Tail(q) /\ split' = split
  <2>1. PICK r : r = Tail(q)
    OBVIOUS
  <2>2. /\ r \in Seq(PendingPost) /\ Len(r) = Len(q) - 1
        /\ \A i \in 1..Len(r) : r[i] = q[i + 1]
    BY <1>1, <2>1, TailPosts
  <2>3. DOMAIN r = 1..Len(r) /\ DOMAIN q = 1..Len(q) /\ Len(q) \in Nat
    BY <1>1, <2>2, QueueFacts
  <2>4. \A i \in DOMAIN r : i + 1 \in DOMAIN q /\ r[i] = q[i + 1]
    BY <2>2, <2>3
  <2> QED
    BY <1>5, <2>1, <2>4, Zenon DEF WakeupInv, q
<1>6. CASE n < Len(q[1].events) /\ q' = WithoutChunk(q, n) /\ split' = TRUE
  <2> DEFINE rest == SubSeq(q[1].events, n + 1, Len(q[1].events))
  <2>1. PICK r : r = WithoutChunk(q, n)
    OBVIOUS
  <2>2. n \in 0..Len(q[1].events)
    BY <1>2, <1>4
  <2>3. /\ r \in Seq(PendingPost) /\ Len(r) = Len(q)
        /\ r[1] = [events |-> rest, numWakeupEvents |-> q[1].numWakeupEvents]
        /\ \A i \in 2..Len(q) : r[i] = q[i]
    BY <1>1, <1>6, <2>1, <2>2, ChunkTaken
  <2>4. /\ Len(q) \in Nat /\ DOMAIN q = 1..Len(q) /\ DOMAIN r = 1..Len(q)
        /\ q[1].numWakeupEvents \in Nat
    <3>1. 1 \in DOMAIN q
      BY <1>1, TailPosts
    <3> QED
      BY <3>1, <1>1, <2>3, QueueFacts
  <2>5. rest \in Seq(Event) /\ Increasing(rest)
    BY <1>2, <2>2, SplitSeq
  <2>6. /\ NumWakeups(ToSet(rest)) <= CountNumWakeupEvents(q[1].events, Len(q[1].events))
        /\ NumWakeups(ToSet(rest)) \in Nat
        /\ CountNumWakeupEvents(q[1].events, Len(q[1].events)) \in Nat
    BY <1>2, <2>2, WakeupsOfSeq
  <2> HIDE DEF rest
  <2>7. CountNumWakeupEvents(rest, Len(rest)) = NumWakeups(ToSet(rest))
    <3>1. 0 \in 0..Len(rest)
      BY <2>5, LenProperties
    <3> QED
      BY <3>1, <2>5, WakeupsOfSeq, Zenon
  <2>8. q[1].numWakeupEvents >= CountNumWakeupEvents(q[1].events, Len(q[1].events))
    <3>1. 1 \in DOMAIN q
      BY <1>1, TailPosts
    <3> QED
      BY <3>1, Zenon DEF WakeupInv, q
  <2>9. r[1].events = rest /\ r[1].numWakeupEvents = q[1].numWakeupEvents
    <3>1. PICK p : p = r[1]
      OBVIOUS
    <3>2. PICK w : w = q[1].numWakeupEvents
      OBVIOUS
    <3>3. p = [events |-> rest, numWakeupEvents |-> w]
      BY <3>1, <3>2, <2>3, Zenon
    <3>4. p.events = rest /\ p.numWakeupEvents = w
      BY <3>3
    <3> QED
      BY <3>1, <3>2, <3>4, Zenon
  <2>10. r[1].numWakeupEvents >= CountNumWakeupEvents(r[1].events, Len(r[1].events))
    <3>1. q[1].numWakeupEvents >= NumWakeups(ToSet(rest))
      BY <2>4, <2>6, <2>8
    <3> QED
      BY <3>1, <2>7, <2>9, Zenon
  <2>11. \A i \in DOMAIN r : i = 1 \/ (i \in DOMAIN q /\ r[i] = q[i])
    <3>1. \A i \in 1..Len(q) : i = 1 \/ i \in 2..Len(q)
      BY <2>4
    <3> QED
      BY <3>1, <2>3, <2>4, Zenon
  <2> QED
    BY <1>6, <2>1, <2>10, <2>11, Zenon DEF WakeupInv, q
<1> QED
  BY <1>3, <1>4, <1>5, <1>6, Zenon

LEMMA WakeupInvKept ==
  ASSUME QueueInv, WakeupInv, [Next]_vars
  PROVE  WakeupInv'
<1>1. CASE QuietStep
  <2>1. UNCHANGED <<mPendingWriteEventsQueue, split>>
    BY <1>1, QuietStepKeeps DEF queueVars, ledgerVars
  <2> QED
    BY <2>1, Zenon DEF WakeupInv
<1>2. CASE FrameworkRead \/ ThreadWriteSucceeds \/ ThreadWriteFails \/ StopDrain
  <2>1. UNCHANGED <<mPendingWriteEventsQueue, split>>
    BY <1>2 DEF FrameworkRead, ThreadWriteSucceeds, ThreadWriteFails, StopDrain, queueVars,
                ledgerVars
  <2> QED
    BY <2>1, Zenon DEF WakeupInv
<1>3. CASE InitClear \/ InitStart
  <2>1. mPendingWriteEventsQueue' = <<>>
    BY <1>3, StartStep DEF InitClear
  <2>2. DOMAIN mPendingWriteEventsQueue' = {}
    <3>1. DOMAIN <<>> = 1..0
      BY EmptyQueue, SeqFacts
    <3>2. 1..0 = {}
      OBVIOUS
    <3> QED
      BY <2>1, <3>1, <3>2
  <2> QED
    BY <2>2, Zenon DEF WakeupInv
<1> QED
  BY <1>1, <1>2, <1>3, PostKeepsWakeupInv, FinishKeepsWakeupInv, StepCases DEF QueueStep

LEMMA InitWakeupInv == Init => WakeupInv
<1>1. DOMAIN <<>> = {}
  OBVIOUS
<1> QED
  BY <1>1 DEF Init, WakeupInv

(* The wake-up count kept with a pending post, which a failed write gives  *)
(* back, is that of the post's events, unless a post was split.            *)
THEOREM WakeupInvCorrect == Spec => []WakeupInv
<1>1. QueueInv /\ WakeupInv /\ [Next]_vars => WakeupInv'
  BY WakeupInvKept
<1> QED
  BY QueueInvCorrect, InitWakeupInv, <1>1, PTL DEF Spec

(* The count of the wakelock covers every wake-up event on its way, and no *)
(* more, in sessions that split no post and post none without the lock;    *)
(* events dropped because the pending queue was full stay counted.         *)
THEOREM BalanceKeptCorrect == Spec => []BalanceKept
<1>1. Init => BalanceKept
  <2>1. Init => EventsOnTheWay = {}
    BY EmptyQueue DEF Init, PendingEvents, AllEvents, EventsOnTheWay
  <2>2. Init => WakeupsOnTheWay = 0
    <3>1. {e \in {} : e.wake} = {}
      OBVIOUS
    <3> QED
      BY <2>1, <3>1, FS_EmptySet DEF WakeupsOnTheWay
  <2> QED
    BY <2>2 DEF Init, BalanceKept
<1>2. QueueInv /\ WakeupInv /\ BalanceKept /\ [Next]_vars => BalanceKept'
  <2> SUFFICES ASSUME QueueInv, WakeupInv, BalanceKept, [Next]_vars,
                      mThreadsRun', ~split', ~uncounted'
               PROVE  /\ balance' >= WakeupsOnTheWay'
                      /\ ~overflowed' => balance' = WakeupsOnTheWay'
    BY DEF BalanceKept
  <2>1. WakeupsOnTheWay \in Nat /\ balance \in Int
    BY WakeupsAreCounted, Zenon DEF QueueInv, TypeOK
  <2>2. ASSUME EventsOnTheWay' = EventsOnTheWay, balance' = balance,
               mThreadsRun, ~split, ~uncounted, ~overflowed' => ~overflowed
        PROVE  /\ balance' >= WakeupsOnTheWay'
               /\ ~overflowed' => balance' = WakeupsOnTheWay'
    <3>1. WakeupsOnTheWay' = WakeupsOnTheWay
      BY <2>2 DEF WakeupsOnTheWay
    <3> QED
      BY <2>2, <3>1 DEF BalanceKept
  <2>3. ASSUME NEW c \in Clients, PostEventsToMessageQueue(c)
        PROVE  /\ balance' >= WakeupsOnTheWay'
               /\ ~overflowed' => balance' = WakeupsOnTheWay'
    <3>1. PICK w : w = CountNumWakeupEvents(Posted(c), Len(Posted(c)))
      OBVIOUS
    <3>2. /\ w \in Nat
          /\ balance' = IF locked[c] /\ mThreadsRun THEN balance + w ELSE balance
          /\ uncounted' = (uncounted \/ (w > 0 /\ ~locked[c]))
          /\ \E x : overflowed' = (overflowed \/ x)
          /\ \E x : split' = (split \/ x)
          /\ UNCHANGED controlVars
          /\ WakeupsOnTheWay' \in Nat
          /\ WakeupsOnTheWay' <= WakeupsOnTheWay + w
          /\ overflowed' = FALSE => WakeupsOnTheWay' = WakeupsOnTheWay + w
      BY <2>3, <3>1, PostWakeups, Zenon
    <3>3. /\ mThreadsRun /\ ~split /\ ~uncounted
          /\ w > 0 => locked[c]
          /\ ~overflowed' => ~overflowed /\ overflowed' = FALSE
      <4>1. mThreadsRun
        BY <3>2 DEF controlVars
      <4>2. ~split /\ ~uncounted /\ (w > 0 => locked[c])
        BY <3>2, Zenon
      <4>3. ~overflowed' => ~overflowed /\ overflowed' = FALSE
        <5>1. overflowed \in BOOLEAN /\ overflowed' \in BOOLEAN
          <6>1. QueueInv'
            BY <2>3, PostStep
          <6> QED
            BY <6>1, Zenon DEF QueueInv, TypeOK
        <5> QED
          BY <5>1, <3>2, Zenon
      <4> QED
        BY <4>1, <4>2, <4>3
    <3>4. balance' = balance + w
      <4>1. CASE w > 0
        BY <4>1, <3>2, <3>3, Zenon
      <4>2. CASE w = 0
        <5>1. balance + w = balance
          BY <4>2, <2>1
        <5> QED
          BY <5>1, <3>2, Zenon
      <4> QED
        BY <4>1, <4>2, <3>2
    <3>5. balance >= WakeupsOnTheWay /\ (~overflowed => balance = WakeupsOnTheWay)
      BY <3>3, Zenon DEF BalanceKept
    <3>6. balance' >= WakeupsOnTheWay'
      BY <2>1, <3>2, <3>4, <3>5
    <3>7. ASSUME ~overflowed'
          PROVE  balance' = WakeupsOnTheWay'
      <4>1. balance = WakeupsOnTheWay /\ WakeupsOnTheWay' = WakeupsOnTheWay + w
        BY <3>7, <3>2, <3>3, <3>5, Zenon
      <4> QED
        BY <4>1, <3>4, Zenon
    <3> QED
      BY <3>6, <3>7
  <2>4. CASE FrameworkRead
    <3>1. /\ \/ WakeupsOnTheWay' = WakeupsOnTheWay - 1 /\ balance' = balance - 1
             \/ WakeupsOnTheWay' = WakeupsOnTheWay /\ balance' = balance
          /\ UNCHANGED <<mThreadsRun, overflowed, split, uncounted>>
      BY <2>4, ReadWakeups DEF controlVars
    <3>2. balance >= WakeupsOnTheWay /\ (~overflowed => balance = WakeupsOnTheWay)
      BY <3>1, Zenon DEF BalanceKept
    <3> QED
      BY <2>1, <3>1, <3>2
  <2>5. CASE ThreadWriteFails
    <3>1. /\ NumWakeupEventsDropped \in Nat
          /\ ~split => WakeupsOnTheWay' = WakeupsOnTheWay - NumWakeupEventsDropped
          /\ balance' = IF mThreadsRun THEN balance - NumWakeupEventsDropped ELSE balance
          /\ UNCHANGED <<mThreadsRun, overflowed, split, uncounted>>
      BY <2>5, FailWakeups DEF controlVars
    <3>2. /\ balance >= WakeupsOnTheWay /\ (~overflowed => balance = WakeupsOnTheWay)
          /\ WakeupsOnTheWay' = WakeupsOnTheWay - NumWakeupEventsDropped
          /\ balance' = balance - NumWakeupEventsDropped
      BY <3>1, Zenon DEF BalanceKept
    <3> QED
      BY <2>1, <3>1, <3>2
  <2>6. CASE ThreadWriteSucceeds
    <3>1. UNCHANGED <<mThreadsRun, ledgerVars>>
      BY <2>6 DEF ThreadWriteSucceeds, controlVars
    <3> QED
      BY <2>2, <2>6, <3>1, WriteSucceedsStep, Zenon DEF ledgerVars
  <2>7. CASE ThreadFinishWrite
    <3>1. UNCHANGED <<mThreadsRun, balance, overflowed, uncounted>> /\ (split' = TRUE \/ split' = split)
      BY <2>7 DEF ThreadFinishWrite, controlVars
    <3> QED
      BY <2>2, <2>7, <3>1, FinishWriteStep, Zenon
  <2>8. CASE StopDrain \/ InitClear
    <3>1. ~mThreadsRun'
      BY <2>8 DEF StopDrain, InitClear, ControlGoto, QueueInv, ControlInv
    <3> QED
      BY <3>1
  <2>9. CASE InitStart
    <3>1. balance' = 0 /\ EventsOnTheWay' = {}
      BY <2>9, StartStep DEF InitStart
    <3>2. WakeupsOnTheWay' = 0
      <4>1. {e \in {} : e.wake} = {}
        OBVIOUS
      <4> QED
        BY <3>1, <4>1, FS_EmptySet DEF WakeupsOnTheWay
    <3> QED
      BY <3>1, <3>2
  <2>10. CASE QuietStep
    <3>1. /\ EventsOnTheWay' = EventsOnTheWay /\ UNCHANGED ledgerVars
          /\ mThreadsRun' => mThreadsRun
      BY <2>10, QuietStepKeeps
    <3> QED
      BY <2>2, <3>1, Zenon DEF ledgerVars
  <2> QED
    BY <2>3, <2>4, <2>5, <2>6, <2>7, <2>8, <2>9, <2>10, StepCases DEF QueueStep
<1> QED
  BY QueueInvCorrect, WakeupInvCorrect, <1>1, <1>2, PTL DEF Spec

-----------------------------------------------------------------------------
(* EventQueue implements EventStream: every step of the queues is a post,  *)
(* a read, a loss or nothing at all to the stream of the events on their   *)
(* way.                                                                    *)

LEMMA FirstAndLastOfSeq ==
  ASSUME NEW s \in Seq(Event), Increasing(s), s # <<>>
  PROVE  \E a, b \in ToSet(s) : \A e \in ToSet(s) : a.id <= e.id /\ e.id <= b.id
<1>1. PICK n \in Nat \ {0} : n = Len(s)
  BY SeqFacts
<1>2. ToSet(s) = {s[i] : i \in 1..n} /\ \A i \in 1..n : s[i].id \in Nat
  BY <1>1, SeqFacts
<1>3. \A i, j \in 1..n : i < j => s[i].id < s[j].id
  BY <1>1, SeqFacts DEF Increasing
<1>4. 1 \in 1..n /\ n \in 1..n
  BY <1>1
<1>5. \A i \in 1..n : s[1].id <= s[i].id /\ s[i].id <= s[n].id
  <2> SUFFICES ASSUME NEW i \in 1..n
               PROVE  s[1].id <= s[i].id /\ s[i].id <= s[n].id
    OBVIOUS
  <2>1. s[1].id <= s[i].id
    <3>1. CASE i = 1
      BY <3>1, <1>2
    <3>2. CASE 1 < i
      BY <3>2, <1>2, <1>3, <1>4
    <3> QED
      BY <3>1, <3>2
  <2>2. s[i].id <= s[n].id
    <3>1. CASE i = n
      BY <3>1, <1>2
    <3>2. CASE i < n
      BY <3>2, <1>2, <1>3, <1>4
    <3> QED
      BY <3>1, <3>2
  <2> QED
    BY <2>1, <2>2
<1>6. s[1] \in ToSet(s) /\ s[n] \in ToSet(s)
  BY <1>2, <1>4
<1>7. \A e \in ToSet(s) : s[1].id <= e.id /\ e.id <= s[n].id
  BY <1>2, <1>5, Zenon
<1> QED
  BY <1>6, <1>7, Zenon

(* Losing a run of events.                                                 *)
LEMMA RunLost ==
  ASSUME QueueInv, QueueInv', UNCHANGED <<nextId, lastRead>>,
         NEW T \in SUBSET EventsOnTheWay, NEW a \in T, NEW b \in T,
         \A e \in T : a.id <= e.id /\ e.id <= b.id,
         EventsOnTheWay' = EventsOnTheWay \ T,
         \A e \in EventsOnTheWay' : \/ \A f \in T : e.id < f.id
                                    \/ \A f \in T : f.id < e.id
  PROVE  Stream!Next
<1> DEFINE E == EventsOnTheWay
           stream == {e.id : e \in E}
<1>1. \A e \in E : e.id \in Nat
  BY SetFacts DEF QueueInv, Event
<1>2. {e.id : e \in E \ T} = {n \in stream : n < a.id \/ b.id < n}
  <2>1. ASSUME NEW e \in E \ T
        PROVE  e.id \in stream /\ (e.id < a.id \/ b.id < e.id)
    OBVIOUS
  <2>2. ASSUME NEW e \in E, e.id < a.id \/ b.id < e.id
        PROVE  e \notin T
    <3>1. ~(a.id <= e.id /\ e.id <= b.id)
      BY <2>2, <1>1
    <3> QED
      BY <3>1
  <2> QED
    BY <2>1, <2>2
<1>3. {e.id : e \in EventsOnTheWay'} = {n \in stream : n < a.id \/ b.id < n}
  BY <1>2
<1>4. a.id \in stream /\ b.id \in stream
  OBVIOUS
<1>5. Stream!Lose(a.id, b.id)
  BY <1>3, Zenon DEF Stream!Lose
<1> QED
  BY <1>4, <1>5, Zenon DEF Stream!Next

(* The numbers of the first m events of a post.                            *)
LEMMA IdsOfPost ==
  ASSUME TypeOK, NEW c \in Clients, NEW m \in 0..Len(Posted(c))
  PROVE  {e.id : e \in ToSet(SubSeq(Posted(c), 1, m))} = nextId..(nextId + m - 1)
<1> DEFINE s == Posted(c)
<1>1. /\ s \in Seq(Event) /\ Len(s) \in Nat /\ nextId \in Nat \ {0}
      /\ \A i \in 1..Len(s) : s[i].id = nextId + i - 1
  BY PostedFacts DEF TypeOK
<1>m. m \in Nat /\ \A i \in 1..m : i \in 1..Len(s)
  BY <1>1
<1> HIDE DEF s
<1>2. ToSet(SubSeq(s, 1, m)) = {s[i] : i \in 1..m}
  <2>1. PICK t : t = SubSeq(s, 1, m)
    OBVIOUS
  <2>2. t \in Seq(Event) /\ Len(t) = m /\ \A i \in 1..m : t[i] = s[i]
    <3>1. \A i \in 1..m : s[i] \in Event
      BY <1>m, <1>1, SeqFacts, Zenon
    <3>2. SubSeq(s, 1, m) \in Seq(Event) /\ Len(SubSeq(s, 1, m)) = m
      BY <3>1, <1>m, <1>1, SubSeqProperties
    <3>3. \A i \in 1..m : SubSeq(s, 1, m)[i] = s[i]
      BY <1>m, <1>1
    <3> QED
      BY <2>1, <3>2, <3>3, Zenon
  <2>3. ToSet(t) = {t[i] : i \in 1..m}
    BY <2>2, SeqFacts
  <2> QED
    BY <2>1, <2>2, <2>3
<1>3. {e.id : e \in ToSet(SubSeq(s, 1, m))} = {s[i].id : i \in 1..m}
  BY <1>2, Zenon
<1>4. {s[i].id : i \in 1..m} = {nextId + i - 1 : i \in 1..m}
  <2>1. \A i \in 1..m : s[i].id = nextId + i - 1
    BY <1>1, <1>m, Zenon
  <2> QED
    BY <2>1, Zenon
<1>5. {nextId + i - 1 : i \in 1..m} = nextId..(nextId + m - 1)
  <2>1. ASSUME NEW k \in nextId..(nextId + m - 1)
        PROVE  \E i \in 1..m : k = nextId + i - 1
    <3>1. k - nextId + 1 \in 1..m /\ k = nextId + (k - nextId + 1) - 1
      BY <1>1
    <3> QED
      BY <3>1
  <2>2. \A i \in 1..m : nextId + i - 1 \in nextId..(nextId + m - 1)
    BY <1>1
  <2> QED
    BY <2>1, <2>2
<1> QED
  BY <1>3, <1>4, <1>5, Zenon DEF s

LEMMA PostIsStreamPost ==
  ASSUME QueueInv, NEW c \in Clients, PostEventsToMessageQueue(c)
  PROVE  Stream!Post
<1> DEFINE n == Len(Posted(c))
           E == EventsOnTheWay
<1>1. TypeOK /\ n \in Nat /\ nextId \in Nat
  BY PostedFacts DEF QueueInv, TypeOK
<1>2. PICK m \in 0..n : E' = E \cup ToSet(SubSeq(Posted(c), 1, m))
  BY PostStep
<1>3. nextId' = nextId + n /\ lastRead' = lastRead
  BY PostStep DEF PostEventsToMessageQueue
<1>4. {e.id : e \in ToSet(SubSeq(Posted(c), 1, m))} = nextId..(nextId + m - 1)
  BY <1>1, IdsOfPost
<1>5. {e.id : e \in E'} = {e.id : e \in E} \cup nextId..(nextId + m - 1)
  <2>1. PICK kept : kept = ToSet(SubSeq(Posted(c), 1, m))
    OBVIOUS
  <2>2. {e.id : e \in E \cup kept} = {e.id : e \in E} \cup {e.id : e \in kept}
    OBVIOUS
  <2> QED
    BY <1>2, <1>4, <2>1, <2>2, Zenon
<1> HIDE DEF n
<1>6. nextId' - nextId = n /\ nextId' \in Nat
  BY <1>1, <1>3
<1> QED
  BY <1>3, <1>5, <1>6, Zenon DEF Stream!Post

LEMMA ReadIsStreamRead ==
  ASSUME QueueInv, FrameworkRead
  PROVE  Stream!Read
<1> DEFINE E == EventsOnTheWay
<1>1. PICK h \in E : /\ lastRead' = h.id
                     /\ \A e \in E : e # h => h.id < e.id
                     /\ E' = E \ {h}
  BY ReadStep
<1>2. \A e \in E : e.id \in Nat
  BY SetFacts DEF QueueInv, Event
<1>3. \A e \in E : h.id <= e.id
  BY <1>1, <1>2
<1>4. \A e \in E : e # h => e.id # h.id
  BY <1>1, <1>2
<1>5. {e.id : e \in E \ {h}} = {e.id : e \in E} \ {h.id}
  BY <1>4
<1>6. UNCHANGED nextId
  BY DEF FrameworkRead
<1> HIDE DEF E
<1>7. {e.id : e \in E'} = {e.id : e \in E} \ {lastRead'}
  BY <1>1, <1>5, Zenon
<1>8. lastRead' \in {e.id : e \in E} /\ \A k \in {e.id : e \in E} : lastRead' <= k
  BY <1>1, <1>3, Zenon
<1> QED
  BY <1>6, <1>7, <1>8, Zenon DEF Stream!Read, E

LEMMA StepIsStreamStep ==
  ASSUME QueueInv, [Next]_vars
  PROVE  [Stream!Next]_(Stream!vars)
<1> DEFINE E == EventsOnTheWay
<1>1. /\ TypeOK /\ OrderInv /\ QueueInv'
      /\ mEventQueue \in Seq(Event) /\ Increasing(mEventQueue)
      /\ mPendingWriteEventsQueue \in Seq(PendingPost) /\ InPostOrder(mPendingWriteEventsQueue)
  <2>1. QueueInv'
    BY QueueInvKept
  <2> QED
    BY <2>1, Zenon DEF QueueInv, TypeOK, OrderInv
<1>2. ASSUME E' = E, UNCHANGED <<nextId, lastRead>>
      PROVE  UNCHANGED Stream!vars
  BY <1>2, Zenon DEF Stream!vars
<1>3. CASE QuietStep
  BY <1>2, <1>3, QuietStepKeeps
<1>4. CASE ThreadWriteSucceeds \/ ThreadFinishWrite
  <2>1. UNCHANGED <<nextId, lastRead>>
    BY <1>4 DEF ThreadWriteSucceeds, ThreadFinishWrite
  <2> QED
    BY <1>2, <1>4, <2>1, WriteSucceedsStep, FinishWriteStep
<1>5. CASE \E c \in Clients : PostEventsToMessageQueue(c)
  BY <1>5, PostIsStreamPost, Zenon DEF Stream!Next
<1>6. CASE FrameworkRead
  BY <1>6, ReadIsStreamRead, Zenon DEF Stream!Next
<1>7. CASE ThreadWriteFails
  <2>1. UNCHANGED <<nextId, lastRead>>
    BY <1>7 DEF ThreadWriteFails
  <2>2. /\ mPendingWriteEventsQueue # <<>> /\ ToSet(Chunk) \subseteq E /\ E' = E \ ToSet(Chunk)
        /\ \A e \in E' : \/ \A f \in ToSet(Chunk) : e.id < f.id
                         \/ \A f \in ToSet(Chunk) : f.id < e.id
    BY <1>7, WriteFailsStep
  <2>3. Chunk \in Seq(Event) /\ Increasing(Chunk) /\ Chunk # <<>>
    <3>1. Chunk \in Seq(Event) /\ Increasing(Chunk) /\ Len(Chunk) \in Nat \ {0}
      BY <1>1, <2>2, ChunkFacts
    <3> QED
      BY <3>1, SeqFacts
  <2>4. PICK a, b \in ToSet(Chunk) : \A e \in ToSet(Chunk) : a.id <= e.id /\ e.id <= b.id
    BY <2>3, FirstAndLastOfSeq
  <2> QED
    BY <1>1, <2>1, <2>2, <2>4, RunLost, Zenon
<1>8. CASE StopDrain \/ InitStart
  <2>1. UNCHANGED <<nextId, lastRead>>
    BY <1>8 DEF StopDrain, InitStart
  <2>2. /\ ToSet(mEventQueue) \subseteq E /\ E' = E \ ToSet(mEventQueue)
        /\ \A e \in ToSet(mEventQueue), f \in E' : e.id < f.id
    <3>1. CASE StopDrain
      BY <3>1, DrainStep
    <3>2. CASE InitStart
      BY <3>2, StartStep
    <3> QED
      BY <1>8, <3>1, <3>2
  <2>3. CASE mEventQueue = <<>>
    <3>1. E' = E
      BY <2>2, <2>3, EmptyQueue
    <3> QED
      BY <1>2, <2>1, <3>1
  <2>4. CASE mEventQueue # <<>>
    <3>1. PICK a, b \in ToSet(mEventQueue) :
            \A e \in ToSet(mEventQueue) : a.id <= e.id /\ e.id <= b.id
      BY <1>1, <2>4, FirstAndLastOfSeq
    <3> QED
      BY <1>1, <2>1, <2>2, <3>1, RunLost, Zenon
  <2> QED
    BY <2>3, <2>4
<1>9. CASE InitClear
  <2>1. UNCHANGED <<nextId, lastRead>>
    BY <1>9 DEF InitClear
  <2>2. /\ PendingEvents \subseteq E /\ E' = E \ PendingEvents
        /\ \A e \in PendingEvents, f \in E' : f.id < e.id
    BY <1>9, ClearStep
  <2>3. CASE mPendingWriteEventsQueue = <<>>
    <3>1. E' = E
      BY <2>2, <2>3, EmptyQueue, PendingIsAll
    <3> QED
      BY <1>2, <2>1, <3>1
  <2>4. CASE mPendingWriteEventsQueue # <<>>
    <3>1. PICK a, b \in PendingEvents :
            \A e \in PendingEvents : a.id <= e.id /\ e.id <= b.id
      BY <1>1, <2>4, FirstAndLast, PendingIsAll
    <3> QED
      BY <1>1, <2>1, <2>2, <3>1, RunLost, Zenon
  <2> QED
    BY <2>3, <2>4
<1> QED
  BY <1>3, <1>4, <1>5, <1>6, <1>7, <1>8, <1>9, StepCases DEF QueueStep

(* The event path is a stream that may lose runs of events but reads the   *)
(* others in the order they were posted, none twice: through the FMQ, the  *)
(* pending queue, split and failed writes, and restarts.                   *)
THEOREM StreamSpecCorrect == Spec => StreamSpec
<1>1. Init => Stream!Init
  <2>1. Init => EventsOnTheWay = {}
    BY EmptyQueue DEF Init, PendingEvents, AllEvents, EventsOnTheWay
  <2> QED
    BY <2>1 DEF Init, Stream!Init
<1>2. QueueInv /\ [Next]_vars => [Stream!Next]_(Stream!vars)
  BY StepIsStreamStep
<1> QED
  BY QueueInvCorrect, <1>1, <1>2, PTL DEF Spec, StreamSpec, Stream!Spec

(* What a reader of the stream relies on: the events still on their way    *)
(* were all posted after the last one read.                                *)
THEOREM ReadInOrder == Spec => []Stream!InOrder
<1>1. QueueInv => Stream!InOrder
  <2> SUFFICES ASSUME QueueInv
               PROVE  \A e \in EventsOnTheWay : lastRead < e.id /\ e.id < nextId
    BY DEF Stream!InOrder
  <2>1. EventsOnTheWay \subseteq ToSet(mEventQueue) \cup PendingEvents
    BY DEF EventsOnTheWay
  <2> QED
    BY <2>1 DEF QueueInv, OrderInv
<1> QED
  BY QueueInvCorrect, <1>1, PTL

-----------------------------------------------------------------------------
(* The pending writes thread misses no post: the predicate of its wait and *)
(* the queueing of a post exclude each other by mEventQueueWriteMutex,     *)
(* which the thread keeps from the test of the predicate until it sleeps.  *)

(* Between the predicate and the sleep the pending queue stays empty.      *)
PresleepEmpty == thread = "presleep" => mPendingWriteEventsQueue = <<>>

WakeInv == PresleepEmpty /\ NoLostPendingWake

(* A post finds the thread asleep, and then notifies it, or awake without  *)
(* the mutex, and then not about to sleep.                                 *)
LEMMA PostKeepsWake ==
  ASSUME WakeInv, NEW c \in Clients, PostEventsToMessageQueue(c)
  PROVE  WakeInv'
<1>1. thread' = thread /\ thread \notin {"loop", "presleep"}
  BY DEF PostEventsToMessageQueue, MutexFree
<1>2. \/ notified' = (notified \/ thread = "sleeping")
      \/ /\ notified' = notified
         /\ mPendingWriteEventsQueue' = mPendingWriteEventsQueue
  BY DEF PostEventsToMessageQueue, NotifyEventQueueWriteCV
<1>3. NoLostPendingWake'
  BY <1>1, <1>2 DEF WakeInv, NoLostPendingWake
<1> QED
  BY <1>1, <1>3 DEF WakeInv, PresleepEmpty

LEMMA ThreadKeepsWake ==
  ASSUME WakeInv, ThreadStep \/ ThreadSpuriousWake
  PROVE  WakeInv'
<1> USE DEF WakeInv, PresleepEmpty, NoLostPendingWake, ThreadGoto
<1>1. CASE ThreadWait
  BY <1>1 DEF ThreadWait, queueVars
<1>2. CASE ThreadSleep
  BY <1>2 DEF ThreadSleep, queueVars
<1>3. CASE ThreadStart \/ ThreadExit \/ ThreadWake \/ ThreadBeginWrite
  BY <1>3 DEF ThreadStart, ThreadExit, ThreadWake, ThreadBeginWrite
<1>4. CASE ThreadWriteSucceeds \/ ThreadWriteFails \/ ThreadFinishWrite
  BY <1>4 DEF ThreadWriteSucceeds, ThreadWriteFails, ThreadFinishWrite
<1>5. CASE ThreadSpuriousWake
  BY <1>5 DEF ThreadSpuriousWake
<1> QED
  BY <1>1, <1>2, <1>3, <1>4, <1>5 DEF ThreadStep

(* stopThreads notifies and initializeCommon empties the queue: neither    *)
(* takes the mutex, and neither can put a post in front of a thread that   *)
(* goes to sleep.                                                          *)
LEMMA ControlKeepsWake ==
  ASSUME WakeInv, ControlStep
  PROVE  WakeInv'
<1> USE DEF WakeInv, PresleepEmpty, NoLostPendingWake
<1>1. CASE StopStore \/ StopJoin \/ InitDisableSensors
  BY <1>1 DEF StopStore, StopJoin, InitDisableSensors, queueVars, threadVars
<1>2. CASE StopDrain
  BY <1>2 DEF StopDrain, threadVars
<1>3. CASE StopNotify
  BY <1>3 DEF StopNotify, NotifyEventQueueWriteCV, queueVars
<1>4. CASE InitClear
  BY <1>4 DEF InitClear
<1>5. CASE InitStart
  BY <1>5 DEF InitStart
<1> QED
  BY <1>1, <1>2, <1>3, <1>4, <1>5 DEF ControlStep

(* For any number of sensor threads, any posts and any sizes of the        *)
(* queues: the pending writes thread is never asleep, without a            *)
(* notification on its way, while events are waiting to be written.        *)
THEOREM NoLostPendingWakeCorrect == Spec => []NoLostPendingWake
<1>1. Init => WakeInv
  BY DEF Init, WakeInv, PresleepEmpty, NoLostPendingWake
<1>2. WakeInv /\ [Next]_vars => WakeInv'
  <2> SUFFICES ASSUME WakeInv, [Next]_vars
               PROVE  WakeInv'
    OBVIOUS
  <2>1. ASSUME NEW c \in Clients, ClientStep(c)
        PROVE  WakeInv'
    <3>1. CASE (\E b \in Batches : CreateScopedWakelock(c, b)) \/ CheckThreadsRunning(c)
      BY <3>1 DEF CreateScopedWakelock, CheckThreadsRunning, queueVars, threadVars,
                  WakeInv, PresleepEmpty, NoLostPendingWake
    <3>2. CASE PostEventsToMessageQueue(c)
      BY <3>2, PostKeepsWake
    <3> QED
      BY <2>1, <3>1, <3>2 DEF ClientStep
  <2>2. CASE FrameworkRead
    BY <2>2 DEF FrameworkRead, threadVars, WakeInv, PresleepEmpty, NoLostPendingWake
  <2>3. CASE ThreadStep \/ ThreadSpuriousWake
    BY <2>3, ThreadKeepsWake
  <2>4. CASE ControlStep
    BY <2>4, ControlKeepsWake
  <2>5. CASE UNCHANGED vars
    BY <2>5 DEF vars, queueVars, threadVars, WakeInv, PresleepEmpty, NoLostPendingWake
  <2> QED
    BY <2>1, <2>2, <2>3, <2>4, <2>5 DEF Next
<1>3. WakeInv => NoLostPendingWake
  BY DEF WakeInv
<1> QED
  BY <1>1, <1>2, <1>3, PTL DEF Spec

-----------------------------------------------------------------------------
(* stopThreads and the pending writes thread.                              *)

(* A join that can return stays so until it does.                          *)
JoinableKept == [][Joinable => Joinable' \/ control' = "disable"]_vars

(* Steps that neither put the thread to sleep nor take a notification away *)
(* from one asleep.                                                        *)
LEMMA KeepsJoinable ==
  ASSUME Joinable, control' = control,
         \/ thread' \notin {"presleep", "sleeping"}
         \/ thread' = thread /\ (notified => notified')
  PROVE  Joinable'
BY DEF Joinable

LEMMA JoinableClient ==
  ASSUME Joinable, NEW c \in Clients, ClientStep(c)
  PROVE  Joinable'
<1> USE DEF threadVars, controlVars
<1>1. CASE (\E b \in Batches : CreateScopedWakelock(c, b)) \/ CheckThreadsRunning(c)
  BY <1>1, KeepsJoinable DEF CreateScopedWakelock, CheckThreadsRunning
<1>2. CASE PostEventsToMessageQueue(c)
  <2>1. notified' = (notified \/ thread = "sleeping") \/ notified' = notified
    BY <1>2 DEF PostEventsToMessageQueue, NotifyEventQueueWriteCV
  <2>2. notified => notified'
    BY <2>1, Zenon
  <2>3. thread' = thread /\ control' = control
    BY <1>2 DEF PostEventsToMessageQueue
  <2> QED
    BY <2>2, <2>3, KeepsJoinable
<1> QED
  BY <1>1, <1>2 DEF ClientStep

LEMMA JoinableThread ==
  ASSUME ControlInv, Joinable, ThreadStep \/ ThreadSpuriousWake
  PROVE  Joinable'
<1> USE DEF ThreadGoto, controlVars
<1>1. ~mThreadsRun /\ thread # "presleep"
  BY DEF ControlInv, Joinable
<1>2. CASE ThreadWait \/ ThreadSleep
  BY <1>1, <1>2 DEF ThreadWait, ThreadSleep
<1>3. CASE ThreadStart \/ ThreadExit \/ ThreadWake \/ ThreadSpuriousWake
  BY <1>3, KeepsJoinable DEF ThreadStart, ThreadExit, ThreadWake, ThreadSpuriousWake
<1>4. CASE ThreadBeginWrite \/ ThreadWriteSucceeds \/ ThreadWriteFails
  BY <1>4, KeepsJoinable DEF ThreadBeginWrite, ThreadWriteSucceeds, ThreadWriteFails
<1>5. CASE ThreadFinishWrite
  BY <1>5, KeepsJoinable DEF ThreadFinishWrite
<1> QED
  BY <1>2, <1>3, <1>4, <1>5 DEF ThreadStep

LEMMA JoinableStep ==
  ASSUME ControlInv, [Next]_vars, Joinable
  PROVE  Joinable' \/ control' = "disable"
<1>1. CASE FrameworkRead \/ UNCHANGED vars
  <2>1. UNCHANGED <<control, thread, notified>>
    BY <1>1 DEF FrameworkRead, vars, threadVars, controlVars
  <2> QED
    BY <2>1, KeepsJoinable
<1>2. CASE ControlStep
  <2>1. control = "join"
    BY DEF Joinable
  <2> QED
    BY <1>2, <2>1 DEF ControlStep, ControlGoto, StopStore, StopDrain, StopNotify, StopJoin,
                      InitDisableSensors, InitClear, InitStart
<1> QED
  BY <1>1, <1>2, JoinableClient, JoinableThread DEF Next

(* The safety half of InitializeCompletes: once stopThreads waits in its   *)
(* join and the pending writes thread is anywhere but between its test and *)
(* its sleep, no post, read or write makes the thread sleep through the    *)
(* stop; the next thing that can happen to the join is that it returns.    *)
THEOREM JoinableCorrect == Spec => JoinableKept
<1>1. QueueInv /\ [Next]_vars => [Joinable => Joinable' \/ control' = "disable"]_vars
  BY JoinableStep DEF QueueInv
<1> QED
  BY <1>1, QueueInvCorrect, PTL DEF Spec, JoinableKept
=============================================================================
