------------------------- MODULE LlamaServerProofs -------------------------
(***************************************************************************)
(* ServerContext for any number of requests, slots, batch and context      *)
(* sizes: a task is in one place at a time, its final result is its last,  *)
(* no slot works for nobody, no deferred task is left without a slot that  *)
(* will wake it, and what is sampled is what the slot itself put into the  *)
(* batch.                                                                  *)
(***************************************************************************)
EXTENDS ServerContext, FiniteSetTheorems, SequenceTheorems, TLAPS

-----------------------------------------------------------------------------
(* Where a task can be: in either queue, in the main loop's hand, in a     *)
(* slot.                                                                   *)
Elements(s) == {s[i] : i \in 1 .. Len(s)}
Runs(q) == {t \in Task : Run(t) \in Elements(q)}
Cancels(q) == {t \in Task : Cancel(t) \in Elements(q)}
InHand == {t \in Task : loop = "task" /\ hand = Run(t)}
InSlots == {slots[s].task : s \in Processing}

Queued == Runs(queue_tasks)
Deferred == Elements(queue_tasks_deferred)
Live == Queued \cup Deferred \cup InHand \cup InSlots

\* No element of X is twice in s.
Once(s, X) == \A i, j \in 1 .. Len(s) : s[i] = s[j] /\ s[i] \in X => i = j

RunEntry == {Run(t) : t \in Task}
HasNext(q) == NextResponse \in Elements(q)

(* The tasks with a result in rs, and those with their last one in it.     *)
ResultEntry == [task : Task, kind : {"partial", "final", "error"}]

Told(rs) == {x.task : x \in Elements(rs)}
Ends(rs) == {x.task : x \in {y \in Elements(rs) : y.kind # "partial"}}

LastIsLast(rs) ==
    \A i, j \in 1 .. Len(rs) : i < j /\ rs[i].kind # "partial" => rs[j].task # rs[i].task

Counted == {t \in Task : t \in received[t[1]]}

(* The reader's way, and what exists of its tasks at each place of it.     *)
Waiting == {t \in Task : reader[t[1]] = "wait" /\ t \in TasksOf(t[1])}

ReaderState ==
    /\ \A r \in Requests : shape[r] = NoTask <=> reader[r] = "idle"
    /\ waiting_task_ids = Waiting
    /\ \A r \in Requests : received[r] # {} => reader[r] = "wait"
    /\ \A t \in Live : reader[t[1]] \in {"wait", "gone"} /\ t \in TasksOf(t[1])

SlotState ==
    \A s \in SlotIds : slots[s].state = "IDLE" <=> slots[s].task = NoTask

KindState == \A t \in InSlots : TypeOf(t) \in {"completion", "embedding"}

(* A task is in one place at a time, and there once.                       *)
PlaceState ==
    /\ Once(queue_tasks, RunEntry)
    /\ Once(queue_tasks_deferred, Task)
    /\ \A s, u \in Processing : slots[s].task = slots[u].task => s = u
    /\ Queued \cap Deferred = {} /\ Queued \cap InHand = {} /\ Queued \cap InSlots = {}
    /\ Deferred \cap InHand = {} /\ Deferred \cap InSlots = {} /\ InHand \cap InSlots = {}

(* A task with its last result, queued or counted, is nowhere any more.    *)
ResultState ==
    /\ Told(queue_results) \subseteq waiting_task_ids \ Counted
    /\ LastIsLast(queue_results)
    /\ (Ends(queue_results) \cup Counted) \cap Live = {}

(* Every task that is somewhere has a reader, or is known to have none.    *)
ServeState ==
    /\ Queued \cup Deferred \subseteq waiting_task_ids \cup orphans
    /\ InHand \subseteq waiting_task_ids \cup orphans \cup Cancels(queue_tasks)
    /\ \A t \in InSlots : \/ t \in waiting_task_ids \cup orphans \cup Cancels(queue_tasks)
                          \/ loop = "task" /\ hand = Cancel(t)

(* The main loop does not go to sleep while a slot works.                  *)
WakeState ==
    /\ loop \in {"prompt", "decode", "sample"} => HasNext(queue_tasks)
    /\ loop = "wait" => Processing = {} \/ HasNext(queue_tasks)
    /\ loop = "asleep" => Processing = {}

(* A slot that waits for logits has a token of its own ahead in the batch. *)
Awaits(s) ==
    /\ slots[s].i_batch \in view.i .. Len(batch) - 1
    /\ batch[slots[s].i_batch + 1] = s
    /\ loop = "sample" /\ slots[s].i_batch < ViewEnd => cursor <= s

BatchState ==
    /\ loop \notin {"decode", "sample"} => view = [i |-> 0, n |-> NBatch]
    /\ loop \notin {"prompt", "decode", "sample"} => batch = <<>>
    /\ view.i <= Len(batch)
    /\ loop = "prompt" => slots[cursor].state \in {"STARTED", "PROCESSING_PROMPT"}
    /\ loop = "sample" => cursor \in ToSample(cursor)
    /\ \A s \in SlotIds :
          /\ slots[s].state = "PROCESSING_PROMPT" => slots[s].prompt < n_tokens(s)
          /\ slots[s].state = "DONE_PROMPT" => Awaits(s)
          /\ slots[s].state = "GENERATING" => slots[s].i_batch = -1 \/ Awaits(s)

(* What the queues, the readers and the slots have to do with each other.  *)
CoreState ==
    /\ ReaderState
    /\ SlotState
    /\ KindState
    /\ PlaceState
    /\ ResultState
    /\ ServeState
    /\ DeferredHasWaker

IInv ==
    /\ TypeOK
    /\ CoreState
    /\ WakeState
    /\ BatchState

-----------------------------------------------------------------------------
(* The n-th smallest element of a finite set of integers is one of them,   *)
(* a larger one for a larger n, and every element is the n-th where n - 1  *)
(* elements are smaller.                                                   *)
LEMMA NthProperties ==
    ASSUME NEW I \in SUBSET Int, IsFiniteSet(I)
    PROVE  /\ Cardinality(I) \in Nat
           /\ \A n \in 1 .. Cardinality(I) : Nth(I, n) \in I
           /\ \A m, n \in 1 .. Cardinality(I) : m < n => Nth(I, m) < Nth(I, n)
           /\ \A i \in I : /\ Cardinality({k \in I : k < i}) + 1 \in 1 .. Cardinality(I)
                          /\ Nth(I, Cardinality({k \in I : k < i}) + 1) = i
<1> DEFINE N == Cardinality(I)
           Below(i) == {k \in I : k < i}
           rank == [i \in I |-> Cardinality(Below(i))]
<1>1. N \in Nat
  BY FS_CardinalityType
<1>2. \A i \in I : IsFiniteSet(Below(i)) /\ Cardinality(Below(i)) \in Nat
  BY FS_Subset, FS_CardinalityType
<1>3. \A i \in I : Cardinality(Below(i)) < N
  <2> TAKE i \in I
  <2>1. Below(i) \subseteq I /\ Below(i) # I
    OBVIOUS
  <2> QED BY <2>1, <1>1, <1>2, FS_Subset
<1>4. \A i, j \in I : i < j => Cardinality(Below(i)) < Cardinality(Below(j))
  <2> SUFFICES ASSUME NEW i \in I, NEW j \in I, i < j
               PROVE  Cardinality(Below(i)) < Cardinality(Below(j))
    OBVIOUS
  <2>1. Below(i) \subseteq Below(j) /\ i \in Below(j) /\ i \notin Below(i)
    <3>1. i \in Int /\ j \in Int /\ ~(i < i)
      OBVIOUS
    <3>2. \A k \in I : k < i => k < j
      BY <3>1
    <3> QED BY <3>1, <3>2
  <2>2. Below(i) # Below(j)
    BY <2>1
  <2> HIDE DEF Below
  <2> QED BY <2>1, <2>2, <1>2, FS_Subset
<1>5. \A i, j \in I : Cardinality(Below(i)) = Cardinality(Below(j)) => i = j
  BY <1>2, <1>4
<1>6. rank \in Injection(I, 0 .. N - 1)
  <2> HIDE DEF Below
  <2> QED BY <1>1, <1>2, <1>3, <1>5 DEF Injection, IsInjective
<1>7. IsFiniteSet(0 .. N - 1) /\ Cardinality(0 .. N - 1) = N
  BY <1>1, FS_Interval
<1>8. rank \in Surjection(I, 0 .. N - 1)
  BY <1>6, <1>7, FS_Injection
<1>9. \A n \in 1 .. N : \E i \in I : Cardinality(Below(i)) = n - 1
  <2> TAKE n \in 1 .. N
  <2>1. n - 1 \in 0 .. N - 1
    BY <1>1
  <2>2. PICK i \in I : rank[i] = n - 1
    BY <1>8, <2>1 DEF Surjection
  <2> QED BY <2>2
<1>10. \A n \in 1 .. N : Nth(I, n) \in I /\ Cardinality(Below(Nth(I, n))) = n - 1
  BY <1>9 DEF Nth
<1>11. \A m, n \in 1 .. N : m < n => Nth(I, m) < Nth(I, n)
  <2> SUFFICES ASSUME NEW m \in 1 .. N, NEW n \in 1 .. N, m < n
               PROVE  Nth(I, m) < Nth(I, n)
    OBVIOUS
  <2>1. PICK x \in I : x = Nth(I, m) /\ Cardinality(Below(x)) = m - 1
    <3> HIDE DEF Below
    <3> QED BY <1>10
  <2>2. PICK y \in I : y = Nth(I, n) /\ Cardinality(Below(y)) = n - 1
    <3> HIDE DEF Below
    <3> QED BY <1>10
  <2>3. x # y /\ ~(y < x)
    <3> HIDE DEF Below
    <3> QED BY <1>1, <1>4, <2>1, <2>2
  <2>4. x \in Int /\ y \in Int
    OBVIOUS
  <2>5. x < y
    BY <2>3, <2>4
  <2> QED BY <2>1, <2>2, <2>5
<1>12. \A i \in I : /\ Cardinality(Below(i)) + 1 \in 1 .. N
                   /\ Nth(I, Cardinality(Below(i)) + 1) = i
  <2> TAKE i \in I
  <2> DEFINE n == Cardinality(Below(i)) + 1
  <2>1. n \in 1 .. N
    BY <1>1, <1>2, <1>3
  <2>2. Cardinality(Below(Nth(I, n))) = Cardinality(Below(i)) /\ Nth(I, n) \in I
    <3> HIDE DEF Below
    <3> QED BY <1>2, <2>1, <1>10
  <2> QED BY <2>1, <2>2, <1>5
<1> QED BY <1>1, <1>10, <1>11, <1>12

(* Kept(s, I) has the elements of s at the positions I, in their order.    *)
LEMMA KeptProperties ==
    ASSUME NEW S, NEW s \in Seq(S), NEW I \in SUBSET (1 .. Len(s))
    PROVE  /\ Kept(s, I) \in Seq(S)
           /\ \E f \in [1 .. Len(Kept(s, I)) -> I] :
                /\ \A n \in 1 .. Len(Kept(s, I)) : Kept(s, I)[n] = s[f[n]]
                /\ \A m, n \in 1 .. Len(Kept(s, I)) : m < n => f[m] < f[n]
                /\ \A i \in I : \E n \in 1 .. Len(Kept(s, I)) : f[n] = i
<1> DEFINE N == Cardinality(I)
           f == [n \in 1 .. N |-> Nth(I, n)]
           w == [n \in 1 .. N |-> s[Nth(I, n)]]
<1>1. IsFiniteSet(I) /\ I \in SUBSET Int
  <2>1. IsFiniteSet(1 .. Len(s))
    BY FS_Interval
  <2>2. I \in SUBSET Int
    OBVIOUS
  <2> QED BY <2>1, <2>2, FS_Subset
<1>2. /\ N \in Nat
      /\ \A n \in 1 .. N : Nth(I, n) \in I
      /\ \A m, n \in 1 .. N : m < n => Nth(I, m) < Nth(I, n)
      /\ \A i \in I : \E n \in 1 .. N : Nth(I, n) = i
  <2>1. /\ N \in Nat
        /\ \A n \in 1 .. N : Nth(I, n) \in I
        /\ \A m, n \in 1 .. N : m < n => Nth(I, m) < Nth(I, n)
        /\ \A i \in I : /\ Cardinality({k \in I : k < i}) + 1 \in 1 .. N
                       /\ Nth(I, Cardinality({k \in I : k < i}) + 1) = i
    BY <1>1, NthProperties, Zenon
  <2> QED BY <2>1, Zenon
<1> HIDE DEF N
<1>3. w \in Seq(S) /\ Len(w) = N
  <2>1. \A i \in I : s[i] \in S
    OBVIOUS
  <2>2. \A n \in 1 .. N : s[Nth(I, n)] \in S
    BY <1>2, <2>1
  <2> QED BY <1>2, <2>2
<1>4. f \in [1 .. N -> I] /\ \A n \in 1 .. N : w[n] = s[f[n]]
  BY <1>2
<1>5. Kept(s, I) = w
  BY DEF Kept, N
<1>6. /\ \A m, n \in 1 .. N : m < n => f[m] < f[n]
      /\ \A i \in I : \E n \in 1 .. N : f[n] = i
  BY <1>2
<1> HIDE DEF f, w
<1> QED BY <1>3, <1>4, <1>5, <1>6

(* The least element of a non-empty finite set of integers, and of a pair. *)
LEMMA MinIsLeast ==
    ASSUME NEW I \in SUBSET Int, IsFiniteSet(I), I # {}
    PROVE  Min(I) \in I /\ \A i \in I : Min(I) <= i
<1> DEFINE N == Cardinality(I)
<1>1. N \in Nat /\ N # 0
  BY FS_CardinalityType, FS_EmptySet
<1>2. /\ \A n \in 1 .. N : Nth(I, n) \in I
      /\ \A m, n \in 1 .. N : m < n => Nth(I, m) < Nth(I, n)
      /\ \A i \in I : \E n \in 1 .. N : Nth(I, n) = i
  <2>1. /\ \A n \in 1 .. N : Nth(I, n) \in I
        /\ \A m, n \in 1 .. N : m < n => Nth(I, m) < Nth(I, n)
        /\ \A i \in I : /\ Cardinality({k \in I : k < i}) + 1 \in 1 .. N
                       /\ Nth(I, Cardinality({k \in I : k < i}) + 1) = i
    BY NthProperties, Zenon
  <2> QED BY <2>1, Zenon
<1> HIDE DEF N
<1>3. PICK x \in I : x = Nth(I, 1)
  <2>1. 1 \in 1 .. N
    BY <1>1
  <2> QED BY <1>2, <2>1
<1>4. \A n \in 1 .. N : x <= Nth(I, n)
  <2> TAKE n \in 1 .. N
  <2>1. PICK y \in I : y = Nth(I, n)
    BY <1>2
  <2>2. CASE n = 1
    BY <1>3, <2>1, <2>2
  <2>3. CASE 1 < n
    BY <1>1, <1>2, <1>3, <2>1, <2>3
  <2> QED BY <2>2, <2>3
<1>5. \A i \in I : x <= i
  BY <1>2, <1>4
<1> QED BY <1>5 DEF Min

LEMMA MinOfPair ==
    ASSUME NEW a \in Int, NEW b \in Int
    PROVE  Min({a, b}) = IF a <= b THEN a ELSE b
BY DEF Min

LEMMA MaxOfPair ==
    ASSUME NEW a \in Int, NEW b \in Int
    PROVE  Max({a, b}) = IF a <= b THEN b ELSE a
BY DEF Max

-----------------------------------------------------------------------------
(* The three kinds of queue entries.                                       *)
LEMMA Entries ==
    /\ NextResponse \in Entry
    /\ \A t \in Task : /\ Run(t) \in Entry /\ Cancel(t) \in Entry
                       /\ Run(t) # NextResponse /\ Cancel(t) # NextResponse
    /\ \A t, u : Run(t) # Cancel(u) /\ (Run(t) = Run(u) => t = u) /\ (Cancel(t) = Cancel(u) => t = u)
    /\ \A e \in Entry : e.op = "run" \/ e.op = "cancel" \/ e.op = "next"
    /\ \A e \in Entry : e.op = "run" => e.task \in Task /\ e = Run(e.task)
    /\ \A e \in Entry : e.op = "cancel" => e.task \in Task /\ e = Cancel(e.task)
    /\ \A e \in Entry : e.op = "next" => e = NextResponse
    /\ \A t : Run(t).op = "run" /\ Run(t).task = t /\ Cancel(t).op = "cancel" /\ Cancel(t).task = t
    /\ NextResponse.op = "next"
BY DEF Entry, Run, Cancel, NextResponse

(* Which elements a sequence has, and which of them once.                  *)
LEMMA ElementsType ==
    ASSUME NEW S, NEW s \in Seq(S)
    PROVE  Elements(s) \subseteq S
BY DEF Elements

LEMMA ElementsNone == \A X : Elements(<<>>) = {} /\ Once(<<>>, X)
BY DEF Elements, Once

LEMMA ElementsOne == \A e, X : Elements(<<e>>) = {e} /\ Once(<<e>>, X)
<1> TAKE e, X
<1>1. Len(<<e>>) = 1 /\ <<e>>[1] = e
  OBVIOUS
<1>2. \A i \in 1 .. 1 : i = 1
  OBVIOUS
<1> QED BY <1>1, <1>2 DEF Elements, Once

LEMMA ElementsConcat ==
    ASSUME NEW S, NEW s \in Seq(S), NEW t \in Seq(S)
    PROVE  /\ s \o t \in Seq(S)
           /\ Elements(s \o t) = Elements(s) \cup Elements(t)
           /\ \A X : Once(s \o t, X) <=>
                 Once(s, X) /\ Once(t, X) /\ Elements(s) \cap Elements(t) \cap X = {}
<1>1. PICK u \in Seq(S) : u = s \o t
  BY ConcatProperties
<1>2. PICK m \in Nat, n \in Nat : m = Len(s) /\ n = Len(t)
  OBVIOUS
<1>3. /\ Len(u) = m + n
      /\ \A i \in 1 .. m + n : u[i] = IF i <= m THEN s[i] ELSE t[i - m]
  BY <1>1, <1>2, ConcatProperties
<1>4. \A i \in 1 .. m : i \in 1 .. m + n /\ u[i] = s[i]
  BY <1>3
<1>5. \A i \in 1 .. n : m + i \in 1 .. m + n /\ u[m + i] = t[i]
  <2> TAKE i \in 1 .. n
  <2>1. m + i \in 1 .. m + n /\ ~(m + i <= m) /\ (m + i) - m = i
    OBVIOUS
  <2> QED BY <1>3, <2>1
<1>6. \A i \in 1 .. m + n : i \in 1 .. m \/ \E j \in 1 .. n : i = m + j
  <2> TAKE i \in 1 .. m + n
  <2>1. CASE i > m
    <3>1. i - m \in 1 .. n /\ i = m + (i - m)
      BY <2>1
    <3> QED BY <3>1
  <2> QED BY <2>1
<1>7. Elements(u) = Elements(s) \cup Elements(t)
  <2>1. \A i \in 1 .. m + n : u[i] \in Elements(s) \cup Elements(t)
    BY <1>2, <1>4, <1>5, <1>6 DEF Elements
  <2>2. \A i \in 1 .. m : s[i] \in Elements(u)
    BY <1>3, <1>4 DEF Elements
  <2>3. \A i \in 1 .. n : t[i] \in Elements(u)
    BY <1>3, <1>5 DEF Elements
  <2>4. \A x \in Elements(u) : x \in Elements(s) \cup Elements(t)
    BY <1>3, <2>1 DEF Elements
  <2>5. \A x \in Elements(s) : x \in Elements(u)
    BY <1>2, <2>2 DEF Elements
  <2>6. \A x \in Elements(t) : x \in Elements(u)
    BY <1>2, <2>3 DEF Elements
  <2> QED BY <2>4, <2>5, <2>6
<1>8. ASSUME NEW X
      PROVE  Once(u, X) <=>
                Once(s, X) /\ Once(t, X) /\ Elements(s) \cap Elements(t) \cap X = {}
  <2>1. ASSUME Once(u, X)
        PROVE  Once(s, X) /\ Once(t, X) /\ Elements(s) \cap Elements(t) \cap X = {}
    <3>1. \A i, j \in 1 .. m + n : u[i] = u[j] /\ u[i] \in X => i = j
      BY <1>3, <2>1 DEF Once
    <3>2. \A i, j \in 1 .. m : s[i] = s[j] /\ s[i] \in X => i = j
      BY <1>4, <3>1
    <3>3. \A i, j \in 1 .. n : t[i] = t[j] /\ t[i] \in X => i = j
      <4> TAKE i, j \in 1 .. n
      <4>1. t[i] = t[j] /\ t[i] \in X => m + i = m + j
        BY <1>5, <3>1
      <4> QED BY <4>1
    <3>4. \A i \in 1 .. m, j \in 1 .. n : s[i] \in X => s[i] # t[j]
      <4> TAKE i \in 1 .. m, j \in 1 .. n
      <4>1. s[i] = t[j] /\ s[i] \in X => i = m + j
        BY <1>4, <1>5, <3>1
      <4> QED BY <4>1
    <3> QED BY <1>2, <3>2, <3>3, <3>4 DEF Once, Elements
  <2>2. ASSUME Once(s, X), Once(t, X), Elements(s) \cap Elements(t) \cap X = {}
        PROVE  Once(u, X)
    <3>1. \A i, j \in 1 .. m : u[i] = u[j] /\ u[i] \in X => i = j
      BY <1>2, <1>4, <2>2 DEF Once
    <3>2. \A i, j \in 1 .. n : u[m + i] = u[m + j] /\ u[m + i] \in X => i = j
      BY <1>2, <1>5, <2>2 DEF Once
    <3>3. \A i \in 1 .. m, j \in 1 .. n : u[i] \in X => u[i] # u[m + j]
      <4> TAKE i \in 1 .. m, j \in 1 .. n
      <4>1. s[i] \in Elements(s) /\ t[j] \in Elements(t)
        BY <1>2 DEF Elements
      <4>2. u[i] = s[i] /\ u[m + j] = t[j]
        BY <1>4, <1>5
      <4> QED BY <2>2, <4>1, <4>2
    <3>4. \A i, j \in 1 .. m + n : u[i] = u[j] /\ u[i] \in X => i = j
      <4> SUFFICES ASSUME NEW i \in 1 .. m + n, NEW j \in 1 .. m + n,
                          u[i] = u[j], u[i] \in X
                   PROVE  i = j
        OBVIOUS
      <4>1. CASE i \in 1 .. m
        <5>1. j \in 1 .. m
          BY <1>6, <3>3, <4>1
        <5> QED BY <3>1, <4>1, <5>1
      <4>2. CASE j \in 1 .. m
        <5>1. i \in 1 .. m
          BY <1>6, <3>3, <4>2
        <5> QED BY <3>1, <4>2, <5>1
      <4>3. ASSUME NEW k \in 1 .. n, NEW l \in 1 .. n, i = m + k, j = m + l
            PROVE  i = j
        <5>1. k = l
          BY <3>2, <4>3
        <5> QED BY <4>3, <5>1
      <4> QED BY <1>6, <4>1, <4>2, <4>3
    <3> QED BY <1>3, <3>4 DEF Once
  <2> QED BY <2>1, <2>2
<1> QED BY <1>1, <1>7, <1>8

LEMMA ElementsTail ==
    ASSUME NEW S, NEW s \in Seq(S), s # <<>>
    PROVE  /\ Head(s) \in S /\ Tail(s) \in Seq(S)
           /\ Elements(s) = {Head(s)} \cup Elements(Tail(s))
           /\ \A X : Once(s, X) => /\ Once(Tail(s), X)
                                   /\ Head(s) \in X => Head(s) \notin Elements(Tail(s))
<1>1. Head(s) \in S /\ Tail(s) \in Seq(S) /\ <<Head(s)>> \in Seq(S)
  BY HeadTailProperties
<1>2. s = <<Head(s)>> \o Tail(s)
  OBVIOUS
<1>3. PICK h \in S, t \in Seq(S) : h = Head(s) /\ t = Tail(s)
  BY <1>1
<1>4. /\ Elements(s) = Elements(<<h>>) \cup Elements(t)
      /\ \A X : Once(s, X) <=>
            Once(<<h>>, X) /\ Once(t, X) /\ Elements(<<h>>) \cap Elements(t) \cap X = {}
  <2>1. <<h>> \in Seq(S)
    OBVIOUS
  <2>2. s = <<h>> \o t
    BY <1>2, <1>3
  <2> QED BY <2>1, <2>2, ElementsConcat
<1> QED BY <1>3, <1>4, ElementsOne

(* What is kept of a sequence.                                             *)
LEMMA ElementsKept ==
    ASSUME NEW S, NEW s \in Seq(S), NEW I \in SUBSET (1 .. Len(s))
    PROVE  /\ Kept(s, I) \in Seq(S)
           /\ Elements(Kept(s, I)) = {s[i] : i \in I}
           /\ \A X : Once(s, X) => Once(Kept(s, I), X)
<1>1. PICK w \in Seq(S) : w = Kept(s, I)
  BY KeptProperties
<1>2. PICK f \in [1 .. Len(w) -> I] :
         /\ \A n \in 1 .. Len(w) : w[n] = s[f[n]]
         /\ \A m, n \in 1 .. Len(w) : m < n => f[m] < f[n]
         /\ \A i \in I : \E n \in 1 .. Len(w) : f[n] = i
  BY <1>1, KeptProperties
<1>3. Elements(w) = {s[i] : i \in I}
  <2>1. \A n \in 1 .. Len(w) : w[n] \in {s[i] : i \in I}
    BY <1>2
  <2>2. \A i \in I : \E n \in 1 .. Len(w) : w[n] = s[i]
    BY <1>2
  <2> QED BY <2>1, <2>2 DEF Elements
<1>4. \A m, n \in 1 .. Len(w) : f[m] = f[n] => m = n
  <2> TAKE m, n \in 1 .. Len(w)
  <2>1. f[m] \in Int /\ f[n] \in Int
    <3>1. f[m] \in I /\ f[n] \in I /\ \A i \in I : i \in Int
      BY <1>2
    <3> QED BY <3>1
  <2>2. m < n \/ n < m \/ m = n
    OBVIOUS
  <2> QED BY <1>2, <2>1, <2>2
<1>5. ASSUME NEW X, Once(s, X) PROVE Once(w, X)
  <2> SUFFICES ASSUME NEW m \in 1 .. Len(w), NEW n \in 1 .. Len(w), w[m] = w[n], w[m] \in X
               PROVE  m = n
    BY DEF Once
  <2>1. f[m] \in 1 .. Len(s) /\ f[n] \in 1 .. Len(s) /\ s[f[m]] = s[f[n]] /\ s[f[m]] \in X
    BY <1>2
  <2>2. f[m] = f[n]
    BY <1>5, <2>1 DEF Once
  <2> QED BY <1>4, <2>2
<1> QED BY <1>1, <1>3, <1>5

(* A prefix of length n, if there is one, and the rest.                    *)
LEMMA ElementsSplit ==
    ASSUME NEW S, NEW s \in Seq(S), NEW n \in 0 .. Len(s)
    PROVE  LET head == SubSeq(s, 1, n)
               rest == SubSeq(s, n + 1, Len(s))
           IN  /\ head \in Seq(S) /\ Len(head) = n /\ rest \in Seq(S)
               /\ Elements(s) = Elements(head) \cup Elements(rest)
               /\ \A X : Once(s, X) => /\ Once(head, X) /\ Once(rest, X)
                                       /\ Elements(head) \cap Elements(rest) \cap X = {}
<1> DEFINE head == SubSeq(s, 1, n)
           rest == SubSeq(s, n + 1, Len(s))
<1>1. head \in Seq(S) /\ Len(head) = n /\ rest \in Seq(S)
  BY SubSeqProperties
<1>2. s = head \o rest
  <2>1. SubSeq(s, 1, Len(s)) = s
    BY SubSeqFull
  <2>2. 1 \in 1 .. Len(s) + 1 /\ n \in 1 - 1 .. Len(s) /\ Len(s) \in n .. Len(s)
    OBVIOUS
  <2> QED BY <2>1, <2>2, ConcatAdjacentSubSeq
<1> HIDE DEF head, rest
<1>3. /\ Elements(s) = Elements(head) \cup Elements(rest)
      /\ \A X : Once(s, X) => /\ Once(head, X) /\ Once(rest, X)
                              /\ Elements(head) \cap Elements(rest) \cap X = {}
  BY <1>1, <1>2, ElementsConcat
<1> QED BY <1>1, <1>3 DEF head, rest

(* The popped tasks go to the front in reverse.                            *)
LEMMA ElementsReverse ==
    ASSUME NEW s \in Seq(Task)
    PROVE  LET q == [i \in DOMAIN s |-> Run(Reverse(s)[i])]
           IN  /\ q \in Seq(Entry)
               /\ Elements(q) = {Run(t) : t \in Elements(s)}
               /\ Once(s, Task) => Once(q, RunEntry)
<1> DEFINE n == Len(s)
           q == [i \in DOMAIN s |-> Run(Reverse(s)[i])]
<1>1. n \in Nat /\ DOMAIN s = 1 .. n
  OBVIOUS
<1>2. \A i \in 1 .. n : n - i + 1 \in 1 .. n /\ q[i] = Run(s[n - i + 1])
  BY <1>1 DEF Reverse
<1>3. \A i \in 1 .. n : s[i] \in Task
  OBVIOUS
<1>4. q \in Seq(Entry) /\ Len(q) = n
  <2>1. \A i \in 1 .. n : q[i] \in Entry
    <3> TAKE i \in 1 .. n
    <3>1. PICK j \in 1 .. n : q[i] = Run(s[j])
      BY <1>2
    <3> HIDE DEF q
    <3> QED BY <1>3, <3>1, Entries
  <2>2. q = [i \in 1 .. n |-> q[i]]
    BY <1>1
  <2> HIDE DEF q, n
  <2>3. [i \in 1 .. n |-> q[i]] \in Seq(Entry) /\ Len([i \in 1 .. n |-> q[i]]) = n
    BY <1>1, <2>1
  <2> QED BY <2>2, <2>3
<1> HIDE DEF q
<1>5. Elements(q) = {Run(t) : t \in Elements(s)}
  <2>1. \A i \in 1 .. n : q[i] \in {Run(t) : t \in Elements(s)}
    BY <1>2 DEF Elements
  <2>2. \A i \in 1 .. n : Run(s[i]) \in Elements(q)
    <3> TAKE i \in 1 .. n
    <3>1. PICK j \in 1 .. n : j = n - i + 1 /\ n - j + 1 = i
      <4>1. n - i + 1 \in 1 .. n /\ n - (n - i + 1) + 1 = i
        BY <1>1
      <4> QED BY <4>1
    <3>2. q[j] = Run(s[i])
      BY <1>2, <3>1
    <3> QED BY <1>4, <3>2 DEF Elements
  <2> QED BY <1>4, <2>1, <2>2 DEF Elements
<1>6. ASSUME Once(s, Task) PROVE Once(q, RunEntry)
  <2> SUFFICES ASSUME NEW i \in 1 .. n, NEW j \in 1 .. n, q[i] = q[j]
               PROVE  i = j
    BY <1>4 DEF Once
  <2>1. s[n - i + 1] = s[n - j + 1]
    BY <1>2, Entries
  <2>2. n - i + 1 = n - j + 1
    BY <1>2, <1>3, <1>6, <2>1 DEF Once
  <2> QED BY <1>1, <2>2
<1> QED BY <1>4, <1>5, <1>6 DEF q

-----------------------------------------------------------------------------
(* Lists of results in which the last result of a task is its last.        *)
LEMMA ToldType ==
    ASSUME NEW rs \in Seq(ResultEntry)
    PROVE  Told(rs) \subseteq Task /\ Ends(rs) \subseteq Told(rs)
<1>1. \A x \in Elements(rs) : x.task \in Task
  BY ElementsType DEF ResultEntry
<1> QED BY <1>1 DEF Told, Ends

LEMMA ResultsConcat ==
    ASSUME NEW rs \in Seq(ResultEntry), NEW ts \in Seq(ResultEntry),
           LastIsLast(rs), LastIsLast(ts), Ends(rs) \cap Told(ts) = {}
    PROVE  /\ Told(rs \o ts) = Told(rs) \cup Told(ts)
           /\ Ends(rs \o ts) = Ends(rs) \cup Ends(ts)
           /\ LastIsLast(rs \o ts)
<1>1. PICK us \in Seq(ResultEntry) : us = rs \o ts
  BY ConcatProperties
<1>2. Elements(us) = Elements(rs) \cup Elements(ts)
  BY <1>1, ElementsConcat
<1>3. Told(us) = Told(rs) \cup Told(ts) /\ Ends(us) = Ends(rs) \cup Ends(ts)
  BY <1>2 DEF Told, Ends
<1>4. PICK m \in Nat, n \in Nat : m = Len(rs) /\ n = Len(ts)
  OBVIOUS
<1>5. /\ Len(us) = m + n
      /\ \A i \in 1 .. m + n : us[i] = IF i <= m THEN rs[i] ELSE ts[i - m]
  BY <1>1, <1>4, ConcatProperties
<1>6. LastIsLast(us)
  <2> SUFFICES ASSUME NEW i \in 1 .. m + n, NEW j \in 1 .. m + n, i < j, us[i].kind # "partial"
               PROVE  us[j].task # us[i].task
    BY <1>5 DEF LastIsLast
  <2>1. CASE j <= m
    <3>1. i \in 1 .. m /\ j \in 1 .. m /\ us[i] = rs[i] /\ us[j] = rs[j]
      BY <1>5, <2>1
    <3> QED BY <1>4, <3>1 DEF LastIsLast
  <2>2. CASE i > m
    <3>1. i - m \in 1 .. n /\ j - m \in 1 .. n /\ i - m < j - m
      BY <2>2
    <3>2. us[i] = ts[i - m] /\ us[j] = ts[j - m]
      BY <1>5, <2>2
    <3> QED BY <1>4, <3>1, <3>2 DEF LastIsLast
  <2>3. CASE i <= m /\ j > m
    <3>1. i \in 1 .. m /\ j - m \in 1 .. n /\ us[i] = rs[i] /\ us[j] = ts[j - m]
      BY <1>5, <2>3
    <3>2. rs[i].task \in Ends(rs)
      BY <1>4, <3>1 DEF Ends, Elements
    <3>3. ts[j - m].task \in Told(ts)
      BY <1>4, <3>1 DEF Told, Elements
    <3> QED BY <3>1, <3>2, <3>3
  <2> QED BY <2>1, <2>2, <2>3
<1> QED BY <1>1, <1>3, <1>6

LEMMA ResultsKept ==
    ASSUME NEW rs \in Seq(ResultEntry), NEW I \in SUBSET (1 .. Len(rs)), LastIsLast(rs)
    PROVE  /\ Kept(rs, I) \in Seq(ResultEntry)
           /\ Told(Kept(rs, I)) = {rs[i].task : i \in I}
           /\ Ends(Kept(rs, I)) \subseteq Ends(rs)
           /\ LastIsLast(Kept(rs, I))
<1>1. PICK w \in Seq(ResultEntry) : w = Kept(rs, I)
  BY KeptProperties
<1>2. PICK f \in [1 .. Len(w) -> I] :
         /\ \A n \in 1 .. Len(w) : w[n] = rs[f[n]]
         /\ \A m, n \in 1 .. Len(w) : m < n => f[m] < f[n]
  BY <1>1, KeptProperties
<1>3. Elements(w) = {rs[i] : i \in I}
  BY <1>1, ElementsKept
<1>4. Told(w) = {rs[i].task : i \in I}
  BY <1>3 DEF Told
<1>5. Ends(w) \subseteq Ends(rs)
  BY <1>3 DEF Ends, Elements
<1>6. LastIsLast(w)
  <2> SUFFICES ASSUME NEW m \in 1 .. Len(w), NEW n \in 1 .. Len(w), m < n, w[m].kind # "partial"
               PROVE  w[n].task # w[m].task
    BY DEF LastIsLast
  <2>1. f[m] \in 1 .. Len(rs) /\ f[n] \in 1 .. Len(rs) /\ f[m] < f[n]
    BY <1>2
  <2> QED BY <1>2, <2>1 DEF LastIsLast
<1> QED BY <1>1, <1>4, <1>5, <1>6

(* One result is taken out of the list: the first one for a task of T.     *)
LEMMA ResultsRemoveAt ==
    ASSUME NEW rs \in Seq(ResultEntry), NEW i \in 1 .. Len(rs), LastIsLast(rs), NEW T,
           rs[i].task \in T, \A j \in 1 .. i - 1 : rs[j].task \notin T
    PROVE  LET rest == RemoveAt(rs, i)
           IN  /\ rest \in Seq(ResultEntry)
               /\ Told(rest) \subseteq Told(rs) /\ Ends(rest) \subseteq Ends(rs)
               /\ LastIsLast(rest)
               /\ rs[i].kind # "partial" => rs[i].task \notin Told(rest)
<1> DEFINE n == Len(rs)
           head == SubSeq(rs, 1, i - 1)
           tail == SubSeq(rs, i + 1, n)
           rest == RemoveAt(rs, i)
<1>1. n \in Nat /\ i \in 1 .. n
  OBVIOUS
<1>2. /\ head \in Seq(ResultEntry) /\ Len(head) = i - 1
      /\ \A j \in 1 .. i - 1 : head[j] = rs[j]
  BY <1>1, SubSeqProperties
<1>3. /\ tail \in Seq(ResultEntry) /\ Len(tail) = n - i
      /\ \A j \in 1 .. n - i : tail[j] = rs[i + j]
  BY <1>1, SubSeqProperties
<1>4. rest = head \o tail
  BY DEF RemoveAt
<1> HIDE DEF head, tail
<1>5. /\ rest \in Seq(ResultEntry) /\ Len(rest) = n - 1
      /\ \A j \in 1 .. n - 1 : rest[j] = IF j < i THEN rs[j] ELSE rs[j + 1]
  <2>1. /\ head \o tail \in Seq(ResultEntry)
        /\ Len(head \o tail) = Len(head) + Len(tail)
        /\ \A j \in 1 .. Len(head) + Len(tail) :
              (head \o tail)[j] = IF j <= Len(head) THEN head[j] ELSE tail[j - Len(head)]
    BY <1>2, <1>3, ConcatProperties
  <2>2. Len(rest) = n - 1
    BY <1>1, <1>2, <1>3, <1>4, <2>1
  <2>3. \A j \in 1 .. n - 1 : rest[j] = IF j < i THEN rs[j] ELSE rs[j + 1]
    <3> TAKE j \in 1 .. n - 1
    <3>1. rest[j] = IF j <= i - 1 THEN head[j] ELSE tail[j - (i - 1)]
      BY <1>1, <1>2, <1>3, <1>4, <2>1
    <3>2. CASE j < i
      BY <1>1, <1>2, <3>1, <3>2
    <3>3. CASE ~(j < i)
      <4>1. PICK k \in 1 .. n - i : k = j - (i - 1) /\ i + k = j + 1
        BY <1>1, <3>3
      <4> QED BY <1>1, <1>3, <3>1, <3>3, <4>1
    <3> QED BY <3>2, <3>3
  <2> QED BY <1>4, <2>1, <2>2, <2>3
<1> HIDE DEF rest, n
<1>6. \A j \in 1 .. n - 1 : \E k \in 1 .. n : rest[j] = rs[k] /\ (k < i \/ k > i)
                                              /\ (j < i => k = j) /\ (~(j < i) => k = j + 1)
  <2> TAKE j \in 1 .. n - 1
  <2>1. CASE j < i
    BY <1>1, <1>5, <2>1
  <2>2. CASE ~(j < i)
    <3>1. j + 1 \in 1 .. n /\ j + 1 > i
      BY <1>1, <2>2
    <3> QED BY <1>5, <2>2, <3>1
  <2> QED BY <2>1, <2>2
<1>7. Elements(rest) \subseteq Elements(rs)
  BY <1>5, <1>6 DEF Elements, n
<1>8. LastIsLast(rest)
  <2> SUFFICES ASSUME NEW j \in 1 .. n - 1, NEW k \in 1 .. n - 1, j < k,
                      rest[j].kind # "partial"
               PROVE  rest[k].task # rest[j].task
    BY <1>5 DEF LastIsLast
  <2>1. PICK a \in 1 .. n : rest[j] = rs[a] /\ (j < i => a = j) /\ (~(j < i) => a = j + 1)
    BY <1>6
  <2>2. PICK b \in 1 .. n : rest[k] = rs[b] /\ (k < i => b = k) /\ (~(k < i) => b = k + 1)
    BY <1>6
  <2>3. a < b
    BY <1>1, <2>1, <2>2
  <2> QED BY <2>1, <2>2, <2>3 DEF LastIsLast, n
<1>9. ASSUME rs[i].kind # "partial" PROVE rs[i].task \notin Told(rest)
  <2>1. \A j \in 1 .. n - 1 : rest[j].task # rs[i].task
    <3> TAKE j \in 1 .. n - 1
    <3>1. PICK k \in 1 .. n : rest[j] = rs[k] /\ (k < i \/ k > i)
      BY <1>6
    <3>2. CASE k < i
      <4>1. k \in 1 .. i - 1
        BY <1>1, <3>2
      <4> QED BY <3>1, <4>1
    <3>3. CASE k > i
      BY <1>1, <1>9, <3>1, <3>3 DEF LastIsLast, n
    <3> QED BY <3>1, <3>2, <3>3
  <2> QED BY <1>5, <2>1 DEF Told, Elements
<1> QED BY <1>5, <1>7, <1>8, <1>9 DEF Told, Ends, rest

-----------------------------------------------------------------------------
(* What the operations of the queues do with them.                         *)
LEMMA TasksOfFacts ==
    ASSUME TypeOK, NEW r \in Requests
    PROVE  /\ TasksOf(r) \subseteq Task /\ IsFiniteSet(TasksOf(r))
           /\ \A t \in TasksOf(r) : t[1] = r
           /\ shape[r] # NoTask => <<r, 0>> \in TasksOf(r)
<1>1. CASE shape[r] = NoTask
  BY <1>1, FS_EmptySet DEF TasksOf
<1>2. CASE shape[r] # NoTask
  <2>1. shape[r] \in UNION {Shapes[q] : q \in Requests}
    BY <1>2 DEF TypeOK
  <2>2. PICK m \in Nat : m = shape[r].more
    BY <2>1, QueueAssumption DEF QueueAssumption
  <2>3. TasksOf(r) = {<<r, k>> : k \in 0 .. m}
    BY <1>2, <2>2 DEF TasksOf
  <2>4. [k \in 0 .. m |-> <<r, k>>] \in Surjection(0 .. m, TasksOf(r))
    BY <2>3 DEF Surjection
  <2>5. IsFiniteSet(TasksOf(r))
    BY <2>4, FS_Surjection, FS_Interval
  <2> QED BY <2>2, <2>3, <2>5 DEF Task
<1> QED BY <1>1, <1>2

LEMMA TasksDisjoint ==
    ASSUME TypeOK, NEW t \in Task, NEW r \in Requests
    PROVE  /\ t[1] \in Requests
           /\ t \in TasksOf(r) => t[1] = r
BY TasksOfFacts DEF Task

LEMMA SendProperties ==
    ASSUME TypeOK, NEW results \in Seq(ResultEntry), send(results),
           LastIsLast(queue_results), LastIsLast(results),
           Ends(queue_results) \cap Told(results) = {},
           Told(queue_results) \subseteq waiting_task_ids
    PROVE  /\ queue_results' \in Seq(ResultEntry)
           /\ Told(queue_results') \subseteq
                 waiting_task_ids \cap (Told(queue_results) \cup Told(results))
           /\ Ends(queue_results') \subseteq Ends(queue_results) \cup Ends(results)
           /\ LastIsLast(queue_results')
<1> DEFINE I == {i \in DOMAIN results : results[i].task \in waiting_task_ids}
<1>1. I \in SUBSET (1 .. Len(results))
  OBVIOUS
<1>2. PICK w \in Seq(ResultEntry) :
         /\ w = Kept(results, I)
         /\ Told(w) = {results[i].task : i \in I}
         /\ Ends(w) \subseteq Ends(results)
         /\ LastIsLast(w)
  <2> HIDE DEF I
  <2> QED BY <1>1, ResultsKept
<1>3. Told(w) \subseteq waiting_task_ids \cap Told(results)
  <2>1. \A i \in I : results[i].task \in Told(results) /\ results[i].task \in waiting_task_ids
    BY DEF Told, Elements
  <2> HIDE DEF I
  <2> QED BY <1>2, <2>1
<1>4. queue_results \in Seq(ResultEntry) /\ queue_results' = queue_results \o w
  BY <1>2 DEF send, TypeOK, ResultEntry
<1>5. Ends(queue_results) \cap Told(w) = {}
  BY <1>3
<1>6. /\ Told(queue_results') = Told(queue_results) \cup Told(w)
      /\ Ends(queue_results') = Ends(queue_results) \cup Ends(w)
      /\ LastIsLast(queue_results')
  BY <1>2, <1>4, <1>5, ResultsConcat
<1>7. queue_results' \in Seq(ResultEntry)
  BY <1>4
<1> QED BY <1>2, <1>3, <1>6, <1>7

LEMMA PopProperties ==
    ASSUME TypeOK, NEW n \in Nat, NEW q \in Seq(Entry), pop_deferred_tasks(n, q),
           Once(queue_tasks_deferred, Task), Once(q, RunEntry), Runs(q) \cap Deferred = {}
    PROVE  /\ queue_tasks' \in Seq(Entry) /\ queue_tasks_deferred' \in Seq(Task)
           /\ woken' \subseteq Task /\ lost' \in BOOLEAN
           /\ Once(queue_tasks', RunEntry) /\ Once(queue_tasks_deferred', Task)
           /\ Cancels(queue_tasks') = Cancels(q)
           /\ HasNext(queue_tasks') <=> HasNext(q)
           /\ \E P \in SUBSET Deferred :
                 /\ Queued' = P \cup Runs(q)
                 /\ Deferred' = Deferred \ P
                 /\ woken' = woken \cup P
                 /\ n > 0 /\ Deferred # {} => P # {}
                 /\ n = 0 => P = {} /\ lost' = lost
<1>1. PICK d \in Seq(Task) : d = queue_tasks_deferred
  BY DEF TypeOK
<1>2. PICK l \in Nat : l = Len(d)
  BY <1>1
<1>3. PICK m \in 0 .. l : m = Min({n, l}) /\ (n > 0 /\ l > 0 => m > 0) /\ (n = 0 => m = 0)
  BY MinOfPair
<1>4. PICK popped, rest : /\ popped = SubSeq(d, 1, m)
                          /\ rest = SubSeq(d, m + 1, l)
  OBVIOUS
<1>5. /\ popped \in Seq(Task) /\ Len(popped) = m /\ rest \in Seq(Task)
      /\ Elements(d) = Elements(popped) \cup Elements(rest)
      /\ \A X : Once(d, X) => /\ Once(popped, X) /\ Once(rest, X)
                              /\ Elements(popped) \cap Elements(rest) \cap X = {}
  BY <1>2, <1>4, ElementsSplit
<1>6. PICK front : front = [i \in DOMAIN popped |-> Run(Reverse(popped)[i])]
  OBVIOUS
<1>7. /\ queue_tasks_deferred' = rest
      /\ queue_tasks' = front \o q
      /\ woken' = woken \cup Range(popped)
      /\ lost' = (lost /\ n = 0)
  <2>1. popped = SubSeq(queue_tasks_deferred, 1, Min({n, Len(queue_tasks_deferred)}))
    BY <1>1, <1>2, <1>3, <1>4
  <2>2. rest = SubSeq(queue_tasks_deferred, Len(popped) + 1, Len(queue_tasks_deferred))
    BY <1>1, <1>2, <1>4, <1>5
  <2> QED BY <1>6, <2>1, <2>2, Zenon DEF pop_deferred_tasks
<1>8. /\ front \in Seq(Entry)
      /\ Elements(front) = {Run(t) : t \in Elements(popped)}
      /\ Once(popped, Task) => Once(front, RunEntry)
  BY <1>5, <1>6, ElementsReverse
<1>9. Range(popped) = Elements(popped)
  <2>1. DOMAIN popped = 1 .. Len(popped)
    BY <1>5
  <2> QED BY <2>1 DEF Range, Elements
<1>10. Elements(popped) \subseteq Task /\ Elements(rest) \subseteq Task /\ Elements(q) \subseteq Entry
  BY <1>5, ElementsType
<1>11. Deferred = Elements(d) /\ Deferred' = Elements(rest)
  BY <1>1, <1>7 DEF Deferred
<1>12. Once(popped, Task) /\ Once(rest, Task) /\ Elements(popped) \cap Elements(rest) = {}
  BY <1>1, <1>5, <1>10
<1>13. Elements(front) \cap Elements(q) \cap RunEntry = {}
  <2> SUFFICES ASSUME NEW t \in Elements(popped), Run(t) \in Elements(q) PROVE FALSE
    BY <1>8
  <2>1. t \in Runs(q)
    BY <1>10 DEF Runs
  <2> QED BY <1>5, <1>11, <2>1
<1>14. /\ queue_tasks' \in Seq(Entry)
       /\ Elements(queue_tasks') = Elements(front) \cup Elements(q)
       /\ Once(queue_tasks', RunEntry)
  BY <1>7, <1>8, <1>12, <1>13, ElementsConcat
<1>15. Queued' = Elements(popped) \cup Runs(q)
  <2>1. \A t \in Task : Run(t) \in Elements(queue_tasks') <=>
                            t \in Elements(popped) \/ Run(t) \in Elements(q)
    BY <1>8, <1>14, Entries
  <2> QED BY <1>10, <2>1 DEF Queued, Runs
<1>16. Cancels(queue_tasks') = Cancels(q) /\ (HasNext(queue_tasks') <=> HasNext(q))
  <2>1. \A t \in Task : Cancel(t) \notin Elements(front)
    BY <1>8, Entries
  <2>2. NextResponse \notin Elements(front)
    BY <1>8, <1>10, Entries
  <2> QED BY <1>14, <2>1, <2>2 DEF Cancels, HasNext
<1>17. m > 0 => Elements(popped) # {}
  <2>1. m > 0 => 1 \in 1 .. m
    OBVIOUS
  <2> QED BY <1>5, <2>1 DEF Elements
<1>18. l = 0 => Elements(d) = {}
  BY <1>2 DEF Elements
<1>19. m = 0 => Elements(popped) = {}
  BY <1>5 DEF Elements
<1>20. /\ Elements(popped) \in SUBSET Deferred
       /\ Deferred' = Deferred \ Elements(popped)
       /\ woken' = woken \cup Elements(popped)
       /\ n > 0 /\ Deferred # {} => Elements(popped) # {}
       /\ n = 0 => Elements(popped) = {} /\ lost' = lost
  <2>1. n > 0 /\ Deferred # {} => m > 0
    BY <1>2, <1>3, <1>11, <1>18
  <2>2. n = 0 => lost' = lost
    BY <1>7 DEF TypeOK
  <2> QED BY <1>3, <1>5, <1>7, <1>9, <1>11, <1>12, <1>17, <1>19, <2>1, <2>2
<1>21. woken' \subseteq Task /\ lost' \in BOOLEAN
  BY <1>7, <1>9, <1>10 DEF TypeOK
<1> QED BY <1>5, <1>7, <1>12, <1>14, <1>15, <1>16, <1>20, <1>21

(* cleanup_pending_task                                                    *)
LEMMA CleanupProperties ==
    ASSUME TypeOK, NEW r \in Requests, NEW q \in Seq(Entry), NEW d \in Seq(Task)
    PROVE  /\ WithoutRuns(q, r) \in Seq(Entry) /\ WithoutTasks(d, r) \in Seq(Task)
           /\ Elements(WithoutTasks(d, r)) = Elements(d) \ TasksOf(r)
           /\ Elements(WithoutRuns(q, r)) = Elements(q) \ {Run(t) : t \in TasksOf(r)}
           /\ Once(q, RunEntry) => Once(WithoutRuns(q, r), RunEntry)
           /\ Once(d, Task) => Once(WithoutTasks(d, r), Task)
<1> DEFINE I == {i \in DOMAIN q : ~(q[i].op = "run" /\ q[i].task \in TasksOf(r))}
           J == {i \in DOMAIN d : d[i] \notin TasksOf(r)}
<1>1. I \in SUBSET (1 .. Len(q)) /\ J \in SUBSET (1 .. Len(d))
  OBVIOUS
<1>2. /\ Kept(q, I) \in Seq(Entry) /\ Elements(Kept(q, I)) = {q[i] : i \in I}
      /\ \A X : Once(q, X) => Once(Kept(q, I), X)
  <2> HIDE DEF I
  <2> QED BY <1>1, ElementsKept
<1>3. /\ Kept(d, J) \in Seq(Task) /\ Elements(Kept(d, J)) = {d[i] : i \in J}
      /\ \A X : Once(d, X) => Once(Kept(d, J), X)
  <2> HIDE DEF J
  <2> QED BY <1>1, ElementsKept
<1>4. {d[i] : i \in J} = Elements(d) \ TasksOf(r)
  BY DEF Elements
<1>5. {q[i] : i \in I} = Elements(q) \ {Run(t) : t \in TasksOf(r)}
  <2>1. \A i \in 1 .. Len(q) :
           q[i] \in {Run(t) : t \in TasksOf(r)} <=> q[i].op = "run" /\ q[i].task \in TasksOf(r)
    <3> TAKE i \in 1 .. Len(q)
    <3>1. q[i] \in Entry
      OBVIOUS
    <3> QED BY <3>1, Entries
  <2> QED BY <2>1 DEF Elements
<1> HIDE DEF I, J
<1>6. WithoutRuns(q, r) = Kept(q, I) /\ WithoutTasks(d, r) = Kept(d, J)
  BY DEF WithoutRuns, WithoutTasks, I, J
<1> QED BY <1>2, <1>3, <1>4, <1>5, <1>6

(* post_tasks posts every task of the request once.                        *)
LEMMA PostOrderProperties ==
    ASSUME TypeOK, NEW r \in Requests, shape[r] # NoTask
    PROVE  /\ PostOrder(r) \in Seq(Entry)
           /\ Elements(PostOrder(r)) = {Run(t) : t \in TasksOf(r)}
           /\ Once(PostOrder(r), RunEntry)
<1>1. shape[r] \in UNION {Shapes[q] : q \in Requests}
  BY DEF TypeOK
<1>2. PICK m \in Nat : m = shape[r].more
  BY <1>1, QueueAssumption DEF QueueAssumption
<1> DEFINE K(j) == IF j <= m THEN j ELSE 0
           q == [j \in 1 .. m + 1 |-> Run(<<r, K(j)>>)]
<1>3. PostOrder(r) = q
  BY <1>2 DEF PostOrder, Run
<1>4. TasksOf(r) = {<<r, k>> : k \in 0 .. m}
  BY <1>2 DEF TasksOf
<1>5. /\ \A j \in 1 .. m + 1 : K(j) \in 0 .. m
      /\ \A k \in 0 .. m : \E j \in 1 .. m + 1 : K(j) = k
      /\ \A i, j \in 1 .. m + 1 : K(i) = K(j) => i = j
  <2>1. \A k \in 0 .. m : \E j \in 1 .. m + 1 : K(j) = k
    <3> TAKE k \in 0 .. m
    <3>1. CASE k = 0
      <4>1. m + 1 \in 1 .. m + 1 /\ K(m + 1) = 0
        OBVIOUS
      <4> QED BY <3>1, <4>1
    <3>2. CASE k > 0
      <4>1. k \in 1 .. m + 1 /\ K(k) = k
        BY <3>2
      <4> QED BY <4>1
    <3> QED BY <3>1, <3>2
  <2> QED BY <2>1
<1> HIDE DEF K
<1>6. \A j \in 1 .. m + 1 : q[j] = Run(<<r, K(j)>>) /\ <<r, K(j)>> \in TasksOf(r)
  BY <1>4, <1>5
<1>7. q \in Seq(Entry) /\ Len(q) = m + 1
  <2>1. \A j \in 1 .. m + 1 : Run(<<r, K(j)>>) \in Entry
    BY <1>6, TasksOfFacts, Entries
  <2> QED BY <2>1
<1> HIDE DEF q
<1>8. Elements(q) = {Run(t) : t \in TasksOf(r)}
  <2>1. \A j \in 1 .. m + 1 : q[j] \in {Run(t) : t \in TasksOf(r)}
    BY <1>6
  <2>2. \A t \in TasksOf(r) : \E j \in 1 .. m + 1 : q[j] = Run(t)
    BY <1>4, <1>5, <1>6
  <2> QED BY <1>7, <2>1, <2>2 DEF Elements
<1>9. Once(q, RunEntry)
  <2> SUFFICES ASSUME NEW i \in 1 .. m + 1, NEW j \in 1 .. m + 1, q[i] = q[j] PROVE i = j
    BY <1>7 DEF Once
  <2>1. Run(<<r, K(i)>>) = Run(<<r, K(j)>>)
    BY <1>6
  <2>2. <<r, K(i)>> = <<r, K(j)>>
    BY <2>1 DEF Run
  <2> QED BY <1>5, <2>2
<1> QED BY <1>3, <1>7, <1>8, <1>9

(* A cancel for every task of a set, in whatever order it is iterated.     *)
LEMMA CancelOrder ==
    ASSUME NEW T \in SUBSET Task, IsFiniteSet(T), NEW order \in Orders(T)
    PROVE  LET c == [i \in DOMAIN order |-> Cancel(order[i])]
           IN  /\ c \in Seq(Entry)
               /\ Elements(c) = {Cancel(t) : t \in T}
               /\ Once(c, RunEntry)
<1> DEFINE N == Cardinality(T)
           c == [i \in DOMAIN order |-> Cancel(order[i])]
<1>1. N \in Nat /\ IsFiniteSet(1 .. N) /\ Cardinality(1 .. N) = N
  BY FS_CardinalityType, FS_Interval
<1>2. DOMAIN order = 1 .. N /\ order \in Injection(1 .. N, T)
  BY DEF Orders, Injection, IsInjective
<1>3. order \in Surjection(1 .. N, T)
  BY <1>1, <1>2, FS_Injection
<1>4. \A t \in T : \E i \in 1 .. N : order[i] = t
  BY <1>3 DEF Surjection
<1>5. \A i \in 1 .. N : order[i] \in T /\ c[i] = Cancel(order[i])
  BY <1>2 DEF Injection
<1> HIDE DEF N
<1>6. c \in Seq(Entry) /\ Len(c) = N
  <2>1. \A i \in 1 .. N : Cancel(order[i]) \in Entry
    BY <1>5, Entries
  <2> QED BY <1>1, <1>2, <2>1
<1> HIDE DEF c
<1>7. Elements(c) = {Cancel(t) : t \in T}
  <2>1. \A i \in 1 .. N : c[i] \in {Cancel(t) : t \in T}
    BY <1>5
  <2>2. \A t \in T : \E i \in 1 .. N : c[i] = Cancel(t)
    BY <1>4, <1>5
  <2> QED BY <1>6, <2>1, <2>2 DEF Elements
<1>8. Once(c, RunEntry)
  <2>1. \A i \in 1 .. N : c[i] \notin RunEntry
    BY <1>5, Entries DEF RunEntry
  <2> QED BY <1>6, <2>1 DEF Once
<1> QED BY <1>6, <1>7, <1>8 DEF c

(* stop() when some final result is missing.                               *)
LEMMA StopProperties ==
    ASSUME TypeOK, NEW r \in Requests, NEW got, NEW rest \in Seq(ResultEntry), LastIsLast(rest),
           stop(r, got, rest), got # TasksOf(r),
           Once(queue_tasks, RunEntry), Once(queue_tasks_deferred, Task)
    PROVE  /\ queue_tasks' \in Seq(Entry) /\ queue_tasks_deferred' \in Seq(Task)
           /\ queue_results' \in Seq(ResultEntry)
           /\ woken' \subseteq woken /\ lost' \in BOOLEAN
           /\ Once(queue_tasks', RunEntry) /\ Once(queue_tasks_deferred', Task)
           /\ Queued' = Queued \ TasksOf(r) /\ Deferred' = Deferred \ TasksOf(r)
           /\ Cancels(queue_tasks') = Cancels(queue_tasks) \cup TasksOf(r)
           /\ HasNext(queue_tasks') <=> HasNext(queue_tasks)
           /\ Told(queue_results') \subseteq Told(rest) \ TasksOf(r)
           /\ Ends(queue_results') \subseteq Ends(rest)
           /\ LastIsLast(queue_results')
           /\ lost => lost'
           /\ woken' = woken \/ lost'
<1> DEFINE dropped == {t \in TasksOf(r) : \E i \in DOMAIN queue_tasks : queue_tasks[i] = Run(t)}
           I == {i \in DOMAIN rest : rest[i].task \notin TasksOf(r)}
<1>1. PICK order \in Orders(TasksOf(r)) :
         queue_tasks' = [i \in DOMAIN order |-> Cancel(order[i])] \o WithoutRuns(queue_tasks, r)
  BY DEF stop
<1>2. /\ queue_tasks_deferred' = WithoutTasks(queue_tasks_deferred, r)
      /\ queue_results' = Kept(rest, I)
      /\ woken' = woken \ dropped
      /\ lost' = (lost \/ woken \cap dropped # {})
  BY DEF stop
<1> HIDE DEF dropped
<1>3. queue_tasks \in Seq(Entry) /\ queue_tasks_deferred \in Seq(Task) /\ lost \in BOOLEAN
  BY DEF TypeOK
<1>4. PICK c \in Seq(Entry) : /\ c = [i \in DOMAIN order |-> Cancel(order[i])]
                              /\ Elements(c) = {Cancel(t) : t \in TasksOf(r)}
                              /\ Once(c, RunEntry)
  <2>1. TasksOf(r) \in SUBSET Task /\ IsFiniteSet(TasksOf(r))
    BY TasksOfFacts
  <2>2. LET c == [i \in DOMAIN order |-> Cancel(order[i])]
        IN  /\ c \in Seq(Entry)
            /\ Elements(c) = {Cancel(t) : t \in TasksOf(r)}
            /\ Once(c, RunEntry)
    BY <2>1, CancelOrder
  <2> QED BY <2>2
<1>5. PICK w \in Seq(Entry) : /\ w = WithoutRuns(queue_tasks, r)
                              /\ Elements(w) = Elements(queue_tasks) \ {Run(t) : t \in TasksOf(r)}
                              /\ Once(w, RunEntry)
  BY <1>3, CleanupProperties
<1>6. NextResponse \notin Elements(c) /\ \A t \in Task : Run(t) \notin Elements(c)
  BY <1>4, TasksOfFacts, Entries
<1>7. Elements(c) \cap Elements(w) \cap RunEntry = {}
  BY <1>6 DEF RunEntry
<1>8. /\ queue_tasks' \in Seq(Entry)
      /\ Elements(queue_tasks') = Elements(c) \cup Elements(w)
      /\ Once(queue_tasks', RunEntry)
  BY <1>1, <1>4, <1>5, <1>7, ElementsConcat, SMTT(20)
<1>9. Queued' = Queued \ TasksOf(r)
  <2>1. \A t \in Task : Run(t) \in Elements(queue_tasks') <=>
                            Run(t) \in Elements(queue_tasks) /\ t \notin TasksOf(r)
    BY <1>5, <1>6, <1>8, Entries
  <2> QED BY <2>1 DEF Queued, Runs
<1>10. Cancels(queue_tasks') = Cancels(queue_tasks) \cup TasksOf(r)
  <2>1. \A t \in Task : Cancel(t) \in Elements(queue_tasks') <=>
                            Cancel(t) \in Elements(queue_tasks) \/ t \in TasksOf(r)
    BY <1>4, <1>5, <1>8, Entries
  <2> QED BY <2>1, TasksOfFacts DEF Cancels
<1>11. HasNext(queue_tasks') <=> HasNext(queue_tasks)
  <2>1. \A t \in TasksOf(r) : Run(t) # NextResponse /\ Cancel(t) # NextResponse
    BY TasksOfFacts, Entries
  <2> QED BY <1>4, <1>5, <1>8, <2>1 DEF HasNext
<1>12. /\ queue_tasks_deferred' \in Seq(Task) /\ Once(queue_tasks_deferred', Task)
       /\ Deferred' = Deferred \ TasksOf(r)
  <2>1. /\ WithoutTasks(queue_tasks_deferred, r) \in Seq(Task)
        /\ Once(WithoutTasks(queue_tasks_deferred, r), Task)
        /\ Elements(WithoutTasks(queue_tasks_deferred, r)) =
              Elements(queue_tasks_deferred) \ TasksOf(r)
    BY <1>3, CleanupProperties
  <2> QED BY <1>2, <2>1 DEF Deferred
<1>13. /\ queue_results' \in Seq(ResultEntry)
       /\ Told(queue_results') \subseteq Told(rest) \ TasksOf(r)
       /\ Ends(queue_results') \subseteq Ends(rest)
       /\ LastIsLast(queue_results')
  <2>1. I \in SUBSET (1 .. Len(rest))
    OBVIOUS
  <2>2. /\ Kept(rest, I) \in Seq(ResultEntry)
        /\ Told(Kept(rest, I)) = {rest[i].task : i \in I}
        /\ Ends(Kept(rest, I)) \subseteq Ends(rest)
        /\ LastIsLast(Kept(rest, I))
    <3> HIDE DEF I
    <3> QED BY <2>1, ResultsKept
  <2>3. {rest[i].task : i \in I} \subseteq Told(rest) \ TasksOf(r)
    BY SMTT(20) DEF Told, Elements
  <2> HIDE DEF I
  <2> QED BY <1>2, <2>2, <2>3
<1>14. /\ woken' \subseteq woken /\ lost' \in BOOLEAN /\ (lost => lost')
       /\ woken' = woken \/ lost'
  BY <1>2, <1>3
<1> QED BY <1>8, <1>9, <1>10, <1>11, <1>12, <1>13, <1>14

-----------------------------------------------------------------------------
(* Steps of the main loop.  The reader's side does not change; what comes  *)
(* to be nowhere may have been told its last result.                       *)
SlotType == [state : {"IDLE", "STARTED", "PROCESSING_PROMPT", "DONE_PROMPT", "GENERATING"},
             task : Task \cup {NoTask}, i_batch : Int, prompt : Nat]

LEMMA LoopReader ==
    ASSUME ReaderState, LoopFrame, Live' \subseteq Live
    PROVE  ReaderState'
<1>1. \A r : TasksOf(r)' = TasksOf(r)
  BY DEF LoopFrame, readerVars, TasksOf
<1> QED BY <1>1 DEF ReaderState, LoopFrame, readerVars, Waiting

LEMMA LoopResults ==
    ASSUME TypeOK, ReaderState, ResultState, LoopFrame, Live' \subseteq Live,
           NEW results \in Seq(ResultEntry), send(results), LastIsLast(results),
           Told(results) \subseteq Live, Ends(results) \cap Live' = {}
    PROVE  ResultState'
<1>1. Ends(queue_results) \cap Told(results) = {} /\ Told(queue_results) \subseteq waiting_task_ids
  BY DEF ResultState
<1>2. /\ Told(queue_results') \subseteq
            waiting_task_ids \cap (Told(queue_results) \cup Told(results))
      /\ Ends(queue_results') \subseteq Ends(queue_results) \cup Ends(results)
      /\ LastIsLast(queue_results')
  BY <1>1, SendProperties DEF ResultState
<1>3. Counted' = Counted /\ waiting_task_ids' = waiting_task_ids
  BY DEF LoopFrame, readerVars, Counted
<1> QED BY <1>2, <1>3 DEF ResultState

LEMMA LoopQuiet ==
    ASSUME ResultState, LoopFrame, UNCHANGED queue_results, Live' \subseteq Live
    PROVE  ResultState'
<1>1. Counted' = Counted
  BY DEF LoopFrame, readerVars, Counted
<1> QED BY <1>1 DEF ResultState, LoopFrame

(* The slots of R are released, the others keep their tasks.               *)
Releases(R) ==
    \A s \in SlotIds :
        IF s \in R
        THEN slots'[s].state = "IDLE" /\ slots'[s].task = NoTask
        ELSE /\ slots'[s].task = slots[s].task
             /\ slots'[s].state = "IDLE" <=> slots[s].state = "IDLE"

TasksIn(R) == {slots[s].task : s \in R}

LEMMA InSlotsFacts ==
    ASSUME TypeOK, SlotState
    PROVE  /\ \A s \in Processing : s \in SlotIds /\ slots[s].task \in Task
           /\ InSlots \subseteq Task
           /\ \A s \in SlotIds : slots[s].task \in Task => s \in Processing
<1>1. \A s \in SlotIds : slots[s].task \in Task \cup {NoTask}
  BY DEF TypeOK
<1>2. NoTask \notin Task
  BY QueueAssumption DEF QueueAssumption
<1> QED BY <1>1, <1>2 DEF SlotState, InSlots, Processing, is_processing

LEMMA ReleasedSlots ==
    ASSUME TypeOK, SlotState, PlaceState, NEW R \in SUBSET SlotIds, Releases(R)
    PROVE  /\ SlotState'
           /\ Processing' = Processing \ R
           /\ InSlots' = InSlots \ TasksIn(R)
           /\ \A s, u \in Processing' : slots'[s].task = slots'[u].task => s = u
<1>1. SlotState'
  BY DEF SlotState, Releases
<1>2. Processing' = Processing \ R
  BY DEF Processing, is_processing, Releases
<1>3. \A s \in Processing \ R : slots'[s].task = slots[s].task
  BY DEF Processing, Releases
<1>4. \A s, u \in Processing : slots[s].task = slots[u].task => s = u
  BY DEF PlaceState
<1>5. \A s \in R, u \in Processing \ R : slots[s].task # slots[u].task
  <2> SUFFICES ASSUME NEW s \in R, NEW u \in Processing \ R, slots[s].task = slots[u].task
               PROVE  FALSE
    OBVIOUS
  <2>1. s \in Processing
    BY InSlotsFacts
  <2> QED BY <1>4, <2>1
<1>6. InSlots' = InSlots \ TasksIn(R)
  BY <1>2, <1>3, <1>5 DEF InSlots, TasksIn
<1> QED BY <1>1, <1>2, <1>3, <1>4, <1>6

(* Each release fetches a deferred task, if there is one.                  *)
Fetches(R) ==
    /\ queue_tasks_deferred' \in Seq(Task)
    /\ Once(queue_tasks', RunEntry) /\ Once(queue_tasks_deferred', Task)
    /\ Cancels(queue_tasks) \subseteq Cancels(queue_tasks')
    /\ \E P \in SUBSET Deferred :
          /\ Queued' = P \cup Queued
          /\ Deferred' = Deferred \ P
          /\ woken' = woken \cup P
          /\ R # {} /\ Deferred # {} => P # {}
          /\ R = {} => P = {} /\ lost' = lost

LEMMA FetchesAfterPop ==
    ASSUME TypeOK, PlaceState, NEW R, NEW n \in Nat, n = 0 <=> R = {},
           NEW q \in Seq(Entry), pop_deferred_tasks(n, q),
           Once(q, RunEntry), Runs(q) = Queued, Cancels(queue_tasks) \subseteq Cancels(q)
    PROVE  /\ Fetches(R)
           /\ queue_tasks' \in Seq(Entry) /\ queue_tasks_deferred' \in Seq(Task)
           /\ woken' \subseteq Task /\ lost' \in BOOLEAN
           /\ HasNext(queue_tasks') <=> HasNext(q)
<1>1. Once(queue_tasks_deferred, Task) /\ Runs(q) \cap Deferred = {}
  BY DEF PlaceState
<1>2. /\ queue_tasks' \in Seq(Entry) /\ queue_tasks_deferred' \in Seq(Task)
      /\ woken' \subseteq Task /\ lost' \in BOOLEAN
      /\ Once(queue_tasks', RunEntry) /\ Once(queue_tasks_deferred', Task)
      /\ Cancels(queue_tasks') = Cancels(q)
      /\ HasNext(queue_tasks') <=> HasNext(q)
      /\ \E P \in SUBSET Deferred :
            /\ Queued' = P \cup Runs(q)
            /\ Deferred' = Deferred \ P
            /\ woken' = woken \cup P
            /\ n > 0 /\ Deferred # {} => P # {}
            /\ n = 0 => P = {} /\ lost' = lost
  BY <1>1, PopProperties
<1>3. n > 0 <=> R # {}
  OBVIOUS
<1> QED BY <1>2, <1>3 DEF Fetches

LEMMA FetchesNothing ==
    ASSUME TypeOK, PlaceState, UNCHANGED taskVars
    PROVE  Fetches({})
<1>0. queue_tasks_deferred' \in Seq(Task)
  BY DEF taskVars, TypeOK
<1>1. Queued' = Queued /\ Deferred' = Deferred
  BY DEF taskVars, Queued, Deferred
<1> QED BY <1>0, <1>1 DEF taskVars, Fetches, PlaceState

LEMMA ReleaseStep ==
    ASSUME TypeOK, ReaderState, SlotState, PlaceState, ServeState, DeferredHasWaker,
           LoopFrame, UNCHANGED orphans, loop' # "task", InHand = {},
           NEW R \in SUBSET SlotIds, Releases(R), Fetches(R),
           \A t \in Task, s \in SlotIds :
              loop = "task" /\ hand = Cancel(t) /\ slots[s].task = t => s \in R
    PROVE  /\ ReaderState' /\ SlotState' /\ PlaceState' /\ ServeState' /\ DeferredHasWaker'
           /\ Processing' = Processing \ R
           /\ Live' \subseteq Live /\ Live' \cap TasksIn(R) = {}
<1>1. /\ SlotState'
      /\ Processing' = Processing \ R
      /\ InSlots' = InSlots \ TasksIn(R)
      /\ \A s, u \in Processing' : slots'[s].task = slots'[u].task => s = u
  BY ReleasedSlots
<1>2. PICK P \in SUBSET Deferred :
          /\ Queued' = P \cup Queued
          /\ Deferred' = Deferred \ P
          /\ woken' = woken \cup P
          /\ R # {} /\ Deferred # {} => P # {}
          /\ R = {} => P = {} /\ lost' = lost
  BY DEF Fetches
<1>3. InHand' = {}
  BY DEF InHand
<1>4. PlaceState'
  BY <1>1, <1>2, <1>3 DEF PlaceState, Fetches
<1>5. Live' \subseteq Live
  BY <1>1, <1>2, <1>3 DEF Live
<1>6. Live' \cap TasksIn(R) = {}
  <2> SUFFICES ASSUME NEW s \in R, slots[s].task \in Live' PROVE FALSE
    BY DEF TasksIn
  <2>1. slots[s].task \in TasksIn(R)
    BY DEF TasksIn
  <2>2. slots[s].task \in Queued \cup Deferred
    BY <1>1, <1>2, <1>3, <2>1 DEF Live
  <2>3. slots[s].task \in Task
    BY <2>2, ElementsType DEF Queued, Deferred, Runs, TypeOK
  <2>4. slots[s].task \in InSlots
    BY <2>3, InSlotsFacts DEF InSlots
  <2> QED BY <2>2, <2>4 DEF PlaceState
<1>7. ReaderState'
  BY <1>5, LoopReader
<1>8. ServeState'
  <2>1. UNCHANGED <<waiting_task_ids, orphans>>
    BY DEF LoopFrame
  <2>2. \A t \in InSlots' : t \in waiting_task_ids \cup orphans \cup Cancels(queue_tasks)
    <3> SUFFICES ASSUME NEW s \in Processing, slots[s].task \notin TasksIn(R)
                 PROVE  slots[s].task \in waiting_task_ids \cup orphans \cup Cancels(queue_tasks)
      BY <1>1 DEF InSlots
    <3>1. slots[s].task \in InSlots /\ slots[s].task \in Task /\ s \in SlotIds
      BY InSlotsFacts DEF InSlots
    <3>2. ~(loop = "task" /\ hand = Cancel(slots[s].task))
      BY <3>1 DEF TasksIn
    <3> QED BY <3>1, <3>2 DEF ServeState
  <2> QED BY <1>2, <1>3, <2>1, <2>2 DEF ServeState, Fetches
<1>9. DeferredHasWaker'
  <2>0. \A t : IdSlot(t)' = IdSlot(t)
    BY DEF LoopFrame, readerVars, IdSlot, IsChild, TypeOf
  <2> SUFFICES ASSUME NEW t \in Range(queue_tasks_deferred'), IdSlot(t)' < NSlots,
                      Processing' = {}, woken' = {}
               PROVE  lost'
    BY DEF DeferredHasWaker
  <2>1. \A d \in Seq(Task) : Range(d) = Elements(d)
    BY DEF Range, Elements
  <2>2. t \in Deferred' /\ IdSlot(t) < NSlots
    BY <2>0, <2>1 DEF Deferred, Fetches
  <2>3. P = {} /\ woken = {}
    BY <1>2
  <2>4. queue_tasks_deferred \in Seq(Task)
    BY DEF TypeOK
  <2>5. CASE R = {}
    <3>1. Processing = {}
      BY <1>1, <2>5
    <3>2. t \in Range(queue_tasks_deferred)
      BY <1>2, <2>1, <2>2, <2>3, <2>4 DEF Deferred
    <3> QED BY <1>2, <2>2, <2>3, <2>5, <3>1, <3>2 DEF DeferredHasWaker
  <2>6. CASE R # {}
    <3>1. Deferred' = {}
      BY <1>2, <2>3, <2>6
    <3> QED BY <2>2, <3>1
  <2> QED BY <2>5, <2>6
<1> QED BY <1>1, <1>4, <1>5, <1>6, <1>7, <1>8, <1>9


(* A step of the main loop that touches only slots it releases.            *)
LEMMA LoopStep ==
    ASSUME TypeOK, CoreState, LoopFrame, UNCHANGED orphans, loop' # "task", InHand = {},
           NEW R \in SUBSET SlotIds, Releases(R), Fetches(R),
           \A t \in Task, s \in SlotIds :
              loop = "task" /\ hand = Cancel(t) /\ slots[s].task = t => s \in R,
           \/ UNCHANGED queue_results
           \/ \E results \in Seq(ResultEntry) :
                 /\ send(results)
                 /\ LastIsLast(results)
                 /\ Told(results) \subseteq Live /\ Ends(results) \subseteq TasksIn(R)
    PROVE  CoreState' /\ Processing' = Processing \ R
<1>1. /\ ReaderState' /\ SlotState' /\ PlaceState' /\ ServeState' /\ DeferredHasWaker'
      /\ Processing' = Processing \ R
      /\ Live' \subseteq Live /\ Live' \cap TasksIn(R) = {}
  BY ReleaseStep DEF CoreState
<1>2. ResultState'
  <2>1. CASE UNCHANGED queue_results
    BY <1>1, <2>1, LoopQuiet DEF CoreState
  <2>2. ASSUME NEW results \in Seq(ResultEntry),
               send(results), LastIsLast(results), Told(results) \subseteq Live,
               Ends(results) \subseteq TasksIn(R)
        PROVE  ResultState'
    BY <1>1, <2>2, LoopResults DEF CoreState
  <2> QED BY <2>1, <2>2
<1>3. KindState'
  <2>1. InSlots' \subseteq InSlots
    BY ReleasedSlots DEF CoreState
  <2>2. \A t : TypeOf(t)' = TypeOf(t)
    BY DEF LoopFrame, readerVars, TypeOf
  <2> QED BY <2>1, <2>2 DEF CoreState, KindState
<1> QED BY <1>1, <1>2, <1>3 DEF CoreState

LEMMA QuietStep ==
    ASSUME TypeOK, CoreState, LoopFrame, loop # "task", loop' # "task",
           UNCHANGED <<taskVars, queue_results, orphans>>, Releases({})
    PROVE  CoreState' /\ Processing' = Processing
<1>1. Fetches({})
  BY FetchesNothing DEF CoreState
<1>2. InHand = {}
  BY DEF InHand
<1>3. CoreState' /\ Processing' = Processing \ {}
  BY <1>1, <1>2, LoopStep
<1> QED BY <1>3

(* Where the loop over the prompts and the loop over the samples go on.    *)
LEMMA SlotIdsFacts ==
    /\ IsFiniteSet(SlotIds) /\ SlotIds \subseteq Nat /\ 0 \in SlotIds
    /\ \A S \in SUBSET SlotIds : /\ IsFiniteSet(S) /\ S \in SUBSET Int
                                 /\ S # {} => Min(S) \in S /\ \A s \in S : Min(S) <= s
<1>1. NSlots \in Nat /\ NSlots # 0
  BY QueueAssumption DEF QueueAssumption
<1>2. IsFiniteSet(SlotIds) /\ SlotIds \subseteq Nat /\ 0 \in SlotIds
  BY <1>1, FS_Interval DEF SlotIds
<1>3. ASSUME NEW S \in SUBSET SlotIds
      PROVE  /\ IsFiniteSet(S) /\ S \in SUBSET Int
             /\ S # {} => Min(S) \in S /\ \A s \in S : Min(S) <= s
  <2>1. IsFiniteSet(S)
    BY <1>2, FS_Subset
  <2>2. S \in SUBSET Int
    BY <1>2
  <2> QED BY <2>1, <2>2, MinIsLeast
<1> QED BY <1>2, <1>3

LEMMA TurnsFacts ==
    \A c, b, k, sl : \A s \in Turns(c, b, k, sl) :
        s \in SlotIds /\ sl[s].state \in {"STARTED", "PROCESSING_PROMPT"}
BY DEF Turns

LEMMA NextTurnProperties ==
    ASSUME TypeOK, NEW T \in SUBSET SlotIds, NEW b \in Seq(SlotIds),
           NEW k \in {NoTask, "completion", "embedding"}, NextTurn(T, b, k)
    PROVE  /\ loop' \in {"prompt", "decode", "wait"}
           /\ cursor' \in SlotIds
           /\ batch' = b /\ view' = view
           /\ kind' \in {NoTask, "completion", "embedding"}
           /\ loop' = "prompt" => cursor' \in T
           /\ loop' = "wait" => b = <<>>
<1>1. 0 \in SlotIds /\ (T # {} => Min(T) \in T)
  BY SlotIdsFacts
<1>2. batch' = b /\ view' = view
  BY DEF NextTurn
<1>3. kind' \in {NoTask, "completion", "embedding"}
  BY DEF NextTurn
<1>4. CASE T # {}
  BY <1>1, <1>2, <1>3, <1>4 DEF NextTurn
<1>5. CASE T = {}
  BY <1>1, <1>2, <1>3, <1>5 DEF NextTurn
<1> QED BY <1>4, <1>5

LEMMA LoopType ==
    ASSUME TypeOK, LoopFrame, UNCHANGED <<sleepVars, orphans>>,
           queue_tasks' \in Seq(Entry), queue_tasks_deferred' \in Seq(Task),
           woken' \subseteq Task, lost' \in BOOLEAN, queue_results' \in Seq(ResultEntry),
           loop' \in {"take", "update", "prompt", "decode", "sample", "wait", "asleep", "ended"},
           hand' = NoTask, slots' \in [SlotIds -> SlotType], cursor' \in SlotIds,
           batch' \in Seq(SlotIds), kind' \in {NoTask, "completion", "embedding"},
           view' \in [i : Nat, n : Nat \ {0}]
    PROVE  TypeOK'
BY DEF TypeOK, LoopFrame, readerVars, sleepVars, SlotType, ResultEntry

(* The batch while it is built: a slot that will sample has its token in   *)
(* it.                                                                     *)
LEMMA PromptBatch ==
    ASSUME TypeOK, BatchState, loop \in {"update", "prompt"},
           NEW T \in SUBSET SlotIds, NEW b \in Seq(SlotIds),
           NEW k \in {NoTask, "completion", "embedding"}, NextTurn(T, b, k),
           \A s \in T : slots'[s].state \in {"STARTED", "PROCESSING_PROMPT"},
           \A s \in SlotIds :
              /\ slots'[s].state = "PROCESSING_PROMPT" => slots'[s].prompt < n_tokens(s)'
              /\ slots'[s].state \in {"DONE_PROMPT", "GENERATING"} =>
                    \/ slots'[s].state = "GENERATING" /\ slots'[s].i_batch = -1
                    \/ slots'[s].i_batch \in 0 .. Len(b) - 1 /\ b[slots'[s].i_batch + 1] = s
    PROVE  BatchState'
<1>1. /\ loop' \in {"prompt", "decode", "wait"}
      /\ batch' = b /\ view' = view
      /\ loop' = "prompt" => cursor' \in T
      /\ loop' = "wait" => b = <<>>
  BY NextTurnProperties
<1>2. view = [i |-> 0, n |-> NBatch] /\ view.i = 0
  BY DEF BatchState
<1>3. ASSUME NEW s \in SlotIds,
             slots'[s].i_batch \in 0 .. Len(b) - 1, b[slots'[s].i_batch + 1] = s
      PROVE  Awaits(s)'
  BY <1>1, <1>2, <1>3 DEF Awaits
<1>4. Len(b) \in Nat /\ view'.i <= Len(batch')
  BY <1>1, <1>2
<1>5. loop' \notin {"prompt", "decode", "sample"} => batch' = <<>>
  BY <1>1
<1>6. loop' = "prompt" => slots'[cursor'].state \in {"STARTED", "PROCESSING_PROMPT"}
  BY <1>1
<1>7. /\ (loop \notin {"decode", "sample"} => view = [i |-> 0, n |-> NBatch])'
      /\ (loop = "sample" => cursor \in ToSample(cursor))'
  BY <1>1, <1>2
<1>8. \A s \in SlotIds :
         /\ (slots[s].state = "PROCESSING_PROMPT" => slots[s].prompt < n_tokens(s))'
         /\ (slots[s].state = "DONE_PROMPT" => Awaits(s))'
         /\ (slots[s].state = "GENERATING" => slots[s].i_batch = -1 \/ Awaits(s))'
  BY <1>3
<1> QED BY <1>4, <1>5, <1>6, <1>7, <1>8 DEF BatchState

LEMMA AllIdleStep == IInv /\ AllIdle => IInv'
<1> SUFFICES ASSUME IInv, AllIdle PROVE IInv'
  OBVIOUS
<1> USE DEF IInv
<1>1. Releases({})
  BY DEF AllIdle, Releases
<1>2. CoreState' /\ Processing' = Processing
  BY <1>1, QuietStep DEF AllIdle
<1>3. TypeOK'
  BY DEF AllIdle, TypeOK, LoopFrame, readerVars, sleepVars, taskVars, batchVars
<1>4. WakeState'
  BY <1>2 DEF AllIdle, WakeState
<1>5. BatchState'
  BY DEF AllIdle, BatchState, batchVars, LoopFrame, readerVars, n_tokens, Awaits
<1> QED BY <1>2, <1>3, <1>4, <1>5

(* What the release of the slot the loop has come to does.                 *)
LEMMA ReleasedType ==
    ASSUME TypeOK, NEW s \in SlotIds
    PROVE  /\ released(slots[s]) \in SlotType
           /\ released(slots[s]).state = "IDLE" /\ released(slots[s]).task = NoTask
<1>1. slots[s] \in SlotType /\ slots[s].prompt \in Nat
  BY DEF TypeOK, SlotType
<1>2. Min({slots[s].prompt, 1}) \in Nat
  BY <1>1, MinOfPair
<1>3. released(slots[s]) = [slots[s] EXCEPT !.state = "IDLE", !.task = NoTask,
                                            !.prompt = Min({slots[s].prompt, 1})]
  BY DEF released
<1> QED BY <1>1, <1>2, <1>3 DEF SlotType

LEMMA OneResult ==
    ASSUME NEW t \in Task, NEW k \in {"partial", "final", "error"}
    PROVE  /\ <<Result(t, k)>> \in Seq(ResultEntry)
           /\ LastIsLast(<<Result(t, k)>>)
           /\ Told(<<Result(t, k)>>) = {t}
           /\ Ends(<<Result(t, k)>>) = IF k = "partial" THEN {} ELSE {t}
<1>1. Result(t, k) \in ResultEntry
  BY DEF Result, ResultEntry
<1>2. Elements(<<Result(t, k)>>) = {Result(t, k)}
  BY ElementsOne
<1>3. LastIsLast(<<Result(t, k)>>)
  <2>1. Len(<<Result(t, k)>>) = 1
    OBVIOUS
  <2>2. \A i, j \in 1 .. 1 : ~(i < j)
    OBVIOUS
  <2> QED BY <2>1, <2>2 DEF LastIsLast
<1>4. Result(t, k).task = t /\ Result(t, k).kind = k
  BY DEF Result
<1> QED BY <1>1, <1>2, <1>3, <1>4 DEF Told, Ends

LEMMA SlotTask ==
    ASSUME TypeOK, CoreState, NEW s \in Processing
    PROVE  /\ s \in SlotIds /\ slots[s].task \in Task /\ slots[s].task \in InSlots
           /\ slots[s].task \in Live
           /\ TypeOf(slots[s].task) \in {"completion", "embedding"}
           /\ n_tokens(s) \in Nat
<1>1. s \in SlotIds /\ slots[s].task \in Task /\ slots[s].task \in InSlots
  BY InSlotsFacts DEF CoreState, InSlots
<1>2. slots[s].task \in Live
  BY <1>1 DEF Live
<1>3. PICK r \in Requests : r = slots[s].task[1] /\ slots[s].task \in TasksOf(r)
  <2>1. slots[s].task[1] \in Requests
    BY <1>1 DEF Task
  <2>2. slots[s].task \in TasksOf(slots[s].task[1])
    BY <1>2 DEF CoreState, ReaderState
  <2> QED BY <2>1, <2>2
<1>4. shape[r] \in Shapes[r]
  BY <1>3 DEF TasksOf, TypeOK
<1>5. shape[r].len \in Nat
  BY <1>4, QueueAssumption DEF QueueAssumption
<1> QED BY <1>1, <1>2, <1>3, <1>5 DEF CoreState, KindState, n_tokens

LEMMA AtCursor ==
    ASSUME IInv, loop \in {"prompt", "sample"}
    PROVE  cursor \in SlotIds /\ cursor \in Processing
<1>1. cursor \in SlotIds
  BY DEF IInv, TypeOK
<1>2. slots[cursor].state # "IDLE"
  BY DEF IInv, BatchState, ToSample
<1> QED BY <1>1, <1>2 DEF Processing, is_processing

(* Slots are released, their tasks get a last result, and q is what is in  *)
(* the queue behind the deferred tasks that are fetched.                   *)
LEMMA EndSlots ==
    ASSUME IInv, LoopFrame, UNCHANGED orphans, loop # "task", loop' # "task",
           NEW R \in SUBSET SlotIds, Releases(R),
           NEW n \in Nat, n = 0 <=> R = {},
           NEW q \in Seq(Entry), Once(q, RunEntry), Runs(q) = Queued,
           Cancels(queue_tasks) \subseteq Cancels(q), pop_deferred_tasks(n, q),
           NEW results \in Seq(ResultEntry), send(results), LastIsLast(results),
           Told(results) \subseteq Live, Ends(results) \subseteq TasksIn(R)
    PROVE  /\ CoreState' /\ Processing' = Processing \ R
           /\ queue_tasks' \in Seq(Entry) /\ queue_tasks_deferred' \in Seq(Task)
           /\ woken' \subseteq Task /\ lost' \in BOOLEAN
           /\ queue_results' \in Seq(ResultEntry)
           /\ HasNext(queue_tasks') <=> HasNext(q)
<1>1. TypeOK /\ CoreState
  BY DEF IInv
<1>2. /\ Fetches(R)
      /\ queue_tasks' \in Seq(Entry) /\ queue_tasks_deferred' \in Seq(Task)
      /\ woken' \subseteq Task /\ lost' \in BOOLEAN
      /\ HasNext(queue_tasks') <=> HasNext(q)
  BY <1>1, FetchesAfterPop DEF CoreState
<1>3. CoreState' /\ Processing' = Processing \ R
  <2>1. InHand = {}
    BY DEF InHand
  <2> QED BY <1>1, <1>2, <2>1, LoopStep
<1>4. queue_results' \in Seq(ResultEntry)
  <2>1. /\ LastIsLast(queue_results) /\ Ends(queue_results) \cap Live = {}
        /\ Told(queue_results) \subseteq waiting_task_ids
    BY <1>1 DEF CoreState, ResultState
  <2>2. Ends(queue_results) \cap Told(results) = {}
    BY <2>1
  <2> QED BY <1>1, <2>1, <2>2, SendProperties
<1> QED BY <1>2, <1>3, <1>4

LEMMA EndAtStartStep == IInv /\ EndAtStart => IInv'
<1> SUFFICES ASSUME IInv, EndAtStart PROVE IInv'
  OBVIOUS
<1> USE DEF IInv
<1>1. PICK t \in Task : t = slots[cursor].task /\ t \in Live
  BY AtCursor, SlotTask DEF EndAtStart
<1>2. cursor \in SlotIds /\ cursor \in Processing
  BY AtCursor DEF EndAtStart
<1>3. PICK k \in {"final", "error"} : send(<<Result(t, k)>>)
  <2>1. send(<<Result(slots[cursor].task, IF n_tokens(cursor) = 0 THEN "final" ELSE "error")>>)
    BY DEF EndAtStart
  <2> QED BY <1>1, <2>1
<1>4. PICK sl : sl = [slots EXCEPT ![cursor] = released(slots[cursor])]
  OBVIOUS
<1>5. /\ slots' = sl
      /\ NextTurn(Turns(cursor + 1, batch, kind, sl), batch, kind)
      /\ pop_deferred_tasks(1, queue_tasks)
      /\ LoopFrame /\ UNCHANGED <<sleepVars, hand, orphans>>
      /\ loop = "prompt"
  BY <1>4 DEF EndAtStart
<1>6. PICK T : T = Turns(cursor + 1, batch, kind, sl)
  OBVIOUS
<1>7. T \in SUBSET SlotIds /\ \A s \in T : slots'[s].state \in {"STARTED", "PROCESSING_PROMPT"}
  BY <1>5, <1>6, TurnsFacts
<1>8. slots' \in [SlotIds -> SlotType]
  BY <1>2, <1>4, <1>5, ReleasedType DEF TypeOK, SlotType
<1>9. /\ slots'[cursor].state = "IDLE" /\ slots'[cursor].task = NoTask
      /\ \A s \in SlotIds \ {cursor} : slots'[s] = slots[s]
  BY <1>2, <1>4, <1>5, ReleasedType DEF TypeOK
<1>10. /\ loop' \in {"prompt", "decode", "wait"} /\ cursor' \in SlotIds
       /\ batch' = batch /\ view' = view
       /\ kind' \in {NoTask, "completion", "embedding"}
       /\ batch \in Seq(SlotIds) /\ kind \in {NoTask, "completion", "embedding"}
  <2>1. batch \in Seq(SlotIds) /\ kind \in {NoTask, "completion", "embedding"}
    BY DEF TypeOK
  <2> QED BY <1>5, <1>6, <1>7, <2>1, NextTurnProperties
<1>11. /\ CoreState' /\ Processing' = Processing \ {cursor}
       /\ queue_tasks' \in Seq(Entry) /\ queue_tasks_deferred' \in Seq(Task)
       /\ woken' \subseteq Task /\ lost' \in BOOLEAN
       /\ queue_results' \in Seq(ResultEntry)
       /\ HasNext(queue_tasks') <=> HasNext(queue_tasks)
  <2>1. /\ <<Result(t, k)>> \in Seq(ResultEntry)
        /\ LastIsLast(<<Result(t, k)>>)
        /\ Told(<<Result(t, k)>>) \subseteq Live /\ Ends(<<Result(t, k)>>) \subseteq TasksIn({cursor})
    <3>1. /\ <<Result(t, k)>> \in Seq(ResultEntry) /\ LastIsLast(<<Result(t, k)>>)
          /\ Told(<<Result(t, k)>>) = {t} /\ Ends(<<Result(t, k)>>) \subseteq {t}
      BY OneResult
    <3>2. t \in Live /\ t \in TasksIn({cursor})
      BY <1>1 DEF TasksIn
    <3> QED BY <3>1, <3>2
  <2>2. Releases({cursor})
    BY <1>9 DEF Releases
  <2>3. queue_tasks \in Seq(Entry) /\ Once(queue_tasks, RunEntry) /\ Runs(queue_tasks) = Queued
    BY DEF TypeOK, CoreState, PlaceState, Queued
  <2>4. loop # "task" /\ loop' # "task" /\ 1 \in Nat /\ (1 = 0 <=> {cursor} = {})
    BY <1>5, <1>10
  <2> QED BY <1>2, <1>3, <1>5, <2>1, <2>2, <2>3, <2>4, EndSlots
<1>12. TypeOK'
  <2>1. hand' = NoTask /\ view' \in [i : Nat, n : Nat \ {0}]
    BY <1>5, <1>10 DEF TypeOK
  <2>2. loop' \in {"take", "update", "prompt", "decode", "sample", "wait", "asleep", "ended"}
    BY <1>10
  <2> QED BY <1>5, <1>8, <1>10, <1>11, <2>1, <2>2, LoopType
<1>13. WakeState'
  BY <1>5, <1>10, <1>11 DEF WakeState
<1>14. BatchState'
  <2>1. \A s \in SlotIds : slots'[s] = slots[s] => n_tokens(s)' = n_tokens(s)
    BY <1>5 DEF n_tokens, LoopFrame, readerVars
  <2>2. view.i = 0
    BY <1>5 DEF BatchState
  <2>3. ASSUME NEW s \in SlotIds
        PROVE  /\ slots'[s].state = "PROCESSING_PROMPT" => slots'[s].prompt < n_tokens(s)'
               /\ slots'[s].state \in {"DONE_PROMPT", "GENERATING"} =>
                    \/ slots'[s].state = "GENERATING" /\ slots'[s].i_batch = -1
                    \/ slots'[s].i_batch \in 0 .. Len(batch) - 1 /\ batch[slots'[s].i_batch + 1] = s
    <3>1. CASE s = cursor
      BY <1>9, <3>1
    <3>2. CASE s # cursor
      BY <1>9, <2>1, <2>2, <3>2 DEF BatchState, Awaits
    <3> QED BY <3>1, <3>2
  <2>4. NextTurn(T, batch, kind)
    BY <1>5, <1>6
  <2> QED BY <1>5, <1>7, <1>10, <2>3, <2>4, PromptBatch
<1> QED BY <1>11, <1>12, <1>13, <1>14

(* A step of the loop over the prompts that ends no slot.                  *)
LEMMA PromptStep ==
    ASSUME IInv, loop = "prompt", LoopFrame,
           UNCHANGED <<sleepVars, taskVars, queue_results, hand, orphans>>,
           NEW T \in SUBSET SlotIds, NEW b \in Seq(SlotIds),
           NEW k \in {NoTask, "completion", "embedding"}, NextTurn(T, b, k),
           \A s \in T : slots'[s].state \in {"STARTED", "PROCESSING_PROMPT"},
           slots' \in [SlotIds -> SlotType],
           slots'[cursor].task = slots[cursor].task, slots'[cursor].state # "IDLE",
           \A s \in SlotIds \ {cursor} : slots'[s] = slots[s],
           \A i \in 1 .. Len(batch) : i \in 1 .. Len(b) /\ b[i] = batch[i],
           /\ slots'[cursor].state = "PROCESSING_PROMPT" => slots'[cursor].prompt < n_tokens(cursor)
           /\ slots'[cursor].state = "DONE_PROMPT" =>
                 slots'[cursor].i_batch \in 0 .. Len(b) - 1 /\ b[slots'[cursor].i_batch + 1] = cursor
           /\ slots'[cursor].state # "GENERATING"
    PROVE  IInv'
<1> USE DEF IInv
<1>1. cursor \in SlotIds /\ slots[cursor].state # "IDLE"
  BY AtCursor DEF Processing, is_processing
<1>2. /\ loop' \in {"prompt", "decode", "wait"} /\ cursor' \in SlotIds
      /\ batch' = b /\ view' = view
      /\ kind' \in {NoTask, "completion", "embedding"}
  BY NextTurnProperties
<1>3. CoreState' /\ Processing' = Processing
  <2>1. Releases({})
    BY <1>1 DEF Releases
  <2> QED BY <1>2, <2>1, QuietStep
<1>4. TypeOK'
  <2>1. hand' = NoTask /\ view' \in [i : Nat, n : Nat \ {0}]
    BY <1>2 DEF TypeOK
  <2>2. /\ queue_tasks' \in Seq(Entry) /\ queue_tasks_deferred' \in Seq(Task)
        /\ woken' \subseteq Task /\ lost' \in BOOLEAN
        /\ queue_results' \in Seq(ResultEntry)
    BY DEF TypeOK, taskVars, ResultEntry
  <2>3. loop' \in {"take", "update", "prompt", "decode", "sample", "wait", "asleep", "ended"}
    BY <1>2
  <2>4. UNCHANGED <<sleepVars, orphans>>
    OBVIOUS
  <2> QED BY <1>2, <2>1, <2>2, <2>3, <2>4, LoopType
<1>5. WakeState'
  BY <1>2 DEF WakeState, taskVars, HasNext
<1>6. BatchState'
  <2>1. \A s \in SlotIds : n_tokens(s)' = n_tokens(s)
    BY DEF n_tokens, LoopFrame, readerVars
  <2>2. view.i = 0
    BY DEF BatchState
  <2>3. ASSUME NEW s \in SlotIds
        PROVE  /\ slots'[s].state = "PROCESSING_PROMPT" => slots'[s].prompt < n_tokens(s)'
               /\ slots'[s].state \in {"DONE_PROMPT", "GENERATING"} =>
                    \/ slots'[s].state = "GENERATING" /\ slots'[s].i_batch = -1
                    \/ slots'[s].i_batch \in 0 .. Len(b) - 1 /\ b[slots'[s].i_batch + 1] = s
    <3>1. CASE s = cursor
      BY <2>1, <3>1
    <3>2. CASE s # cursor
      <4>1. slots'[s] = slots[s]
        BY <3>2
      <4>2. slots[s].state = "PROCESSING_PROMPT" => slots'[s].prompt < n_tokens(s)'
        BY <2>1, <4>1 DEF BatchState
      <4>3. ASSUME Awaits(s)
            PROVE  slots[s].i_batch \in 0 .. Len(b) - 1 /\ b[slots[s].i_batch + 1] = s
        <5>1. PICK i \in 0 .. Len(batch) - 1 : i = slots[s].i_batch /\ batch[i + 1] = s
          BY <2>2, <4>3 DEF Awaits
        <5>0. batch \in Seq(SlotIds)
          BY DEF TypeOK
        <5>2. i + 1 \in 1 .. Len(batch)
          BY <5>0, <5>1
        <5>3. i + 1 \in 1 .. Len(b) /\ b[i + 1] = s
          BY <5>1, <5>2
        <5> QED BY <5>1, <5>3
      <4> QED BY <4>1, <4>2, <4>3 DEF BatchState
    <3> QED BY <3>1, <3>2
  <2> QED BY <2>3, PromptBatch
<1> QED BY <1>3, <1>4, <1>5, <1>6

LEMMA WaitForBatchStep == IInv /\ WaitForBatch => IInv'
<1> SUFFICES ASSUME IInv, WaitForBatch PROVE IInv'
  OBVIOUS
<1>1. cursor \in SlotIds /\ cursor \in Processing
  BY AtCursor DEF WaitForBatch
<1>2. n_tokens(cursor) \in Nat /\ n_tokens(cursor) > 0
  BY <1>1, SlotTask DEF IInv, WaitForBatch
<1>3. PICK sl : sl = [slots EXCEPT ![cursor].state = "PROCESSING_PROMPT", ![cursor].prompt = 0]
  OBVIOUS
<1>4. PICK T : T = Turns(cursor + 1, batch, kind, sl)
  OBVIOUS
<1>5. /\ slots' = sl /\ NextTurn(T, batch, kind) /\ loop = "prompt" /\ LoopFrame
      /\ UNCHANGED <<sleepVars, taskVars, queue_results, hand, orphans>>
  BY <1>3, <1>4 DEF WaitForBatch
<1>6. T \in SUBSET SlotIds /\ \A s \in T : slots'[s].state \in {"STARTED", "PROCESSING_PROMPT"}
  BY <1>4, <1>5, TurnsFacts
<1>7. slots \in [SlotIds -> SlotType]
  BY DEF IInv, TypeOK, SlotType
<1>8. /\ slots' \in [SlotIds -> SlotType]
      /\ slots'[cursor].task = slots[cursor].task /\ slots'[cursor].state = "PROCESSING_PROMPT"
      /\ slots'[cursor].prompt = 0
      /\ \A s \in SlotIds \ {cursor} : slots'[s] = slots[s]
  BY <1>1, <1>3, <1>5, <1>7 DEF SlotType
<1>9. batch \in Seq(SlotIds) /\ kind \in {NoTask, "completion", "embedding"}
  BY DEF IInv, TypeOK
<1>10. slots'[cursor].prompt < n_tokens(cursor)
  BY <1>2, <1>8
<1> QED BY <1>5, <1>6, <1>8, <1>9, <1>10, PromptStep

LEMMA PastFacts ==
    ASSUME IInv, loop = "prompt", n_tokens(cursor) > 0, NEW past \in n_past(cursor)
    PROVE  past \in Nat /\ n_tokens(cursor) \in Nat /\ past < n_tokens(cursor)
<1>1. cursor \in SlotIds /\ cursor \in Processing
  BY AtCursor
<1>2. n_tokens(cursor) \in Nat
  BY <1>1, SlotTask DEF IInv
<1>3. slots[cursor].prompt \in Nat
  BY <1>1 DEF IInv, TypeOK
<1>4. slots[cursor].state = "PROCESSING_PROMPT" => slots[cursor].prompt < n_tokens(cursor)
  BY <1>1 DEF IInv, BatchState
<1>5. CASE slots[cursor].state = "PROCESSING_PROMPT"
  BY <1>2, <1>3, <1>4, <1>5 DEF n_past
<1>6. CASE slots[cursor].state # "PROCESSING_PROMPT"
  BY <1>2, <1>6 DEF n_past
<1> QED BY <1>5, <1>6

LEMMA AddPromptStep == IInv /\ AddPrompt => IInv'
<1> SUFFICES ASSUME IInv, AddPrompt PROVE IInv'
  OBVIOUS
<1>1. cursor \in SlotIds /\ cursor \in Processing
  BY AtCursor DEF AddPrompt
<1>2. PICK past \in n_past(cursor) :
         LET add == Min({n_tokens(cursor) - past, Max({NBatch - Len(batch), 0})})
             b == batch \o [j \in 1 .. add |-> cursor]
             done == past + add = n_tokens(cursor)
             k == TypeOf(slots[cursor].task)
             sl == [slots EXCEPT
                      ![cursor].prompt = past + add,
                      ![cursor].state = IF done THEN "DONE_PROMPT" ELSE "PROCESSING_PROMPT",
                      ![cursor].i_batch = IF done THEN Len(b) - 1 ELSE @]
         IN  /\ slots' = sl
             /\ NextTurn(IF Len(b) >= NBatch THEN {} ELSE Turns(cursor + 1, b, k, sl), b, k)
  BY DEF AddPrompt
<1>3. PICK n \in Nat : n = n_tokens(cursor) /\ past \in Nat /\ past < n
  BY PastFacts DEF AddPrompt
<1>4. PICK l \in Nat : l = Len(batch) /\ batch \in Seq(SlotIds)
  <2>1. batch \in Seq(SlotIds)
    BY DEF IInv, TypeOK
  <2>2. Len(batch) \in Nat
    BY <2>1
  <2> QED BY <2>1, <2>2
<1>5. PICK add \in Nat : add = Min({n - past, Max({NBatch - l, 0})}) /\ past + add <= n
  <2>1. Max({NBatch - l, 0}) \in Nat
    BY MaxOfPair, ContextAssumption DEF ContextAssumption
  <2>2. PICK m \in Nat : m = Max({NBatch - l, 0})
    BY <2>1
  <2>3. Min({n - past, m}) = IF n - past <= m THEN n - past ELSE m
    BY <1>3, MinOfPair
  <2> QED BY <1>3, <2>2, <2>3
<1>6. PICK b \in Seq(SlotIds) :
         /\ b = batch \o [j \in 1 .. add |-> cursor]
         /\ Len(b) = l + add
         /\ \A i \in 1 .. l : b[i] = batch[i]
         /\ \A i \in 1 .. add : b[l + i] = cursor
  <2>0. /\ [j \in 1 .. add |-> cursor] \in Seq(SlotIds)
        /\ Len([j \in 1 .. add |-> cursor]) = add
    BY <1>1
  <2>1. PICK c \in Seq(SlotIds) : /\ c = [j \in 1 .. add |-> cursor]
                                  /\ Len(c) = add /\ \A i \in 1 .. add : c[i] = cursor
    BY <2>0
  <2>2. PICK d \in Seq(SlotIds) : d = batch \o c
    BY <1>4, ConcatProperties
  <2>3. /\ Len(d) = l + add
        /\ \A i \in 1 .. l + add : d[i] = IF i <= l THEN batch[i] ELSE c[i - l]
    BY <1>4, <2>1, <2>2, ConcatProperties
  <2>4. \A i \in 1 .. add : d[l + i] = cursor
    <3> TAKE i \in 1 .. add
    <3>1. l + i \in 1 .. l + add /\ ~(l + i <= l) /\ (l + i) - l = i
      OBVIOUS
    <3> QED BY <2>1, <2>3, <3>1
  <2>5. \A i \in 1 .. l : d[i] = batch[i]
    BY <2>3
  <2> QED BY <2>1, <2>2, <2>3, <2>4, <2>5
<1>7. PICK k \in {"completion", "embedding"} : k = TypeOf(slots[cursor].task)
  BY <1>1, SlotTask DEF IInv
<1>8. PICK st \in {"DONE_PROMPT", "PROCESSING_PROMPT"}, ib \in Int :
         /\ st = IF past + add = n THEN "DONE_PROMPT" ELSE "PROCESSING_PROMPT"
         /\ ib = IF past + add = n THEN Len(b) - 1 ELSE slots[cursor].i_batch
  <2>1. slots[cursor].i_batch \in Int
    BY <1>1 DEF IInv, TypeOK
  <2>2. Len(b) - 1 \in Int
    BY <1>4, <1>6
  <2>3. CASE past + add = n
    BY <2>2, <2>3
  <2>4. CASE past + add # n
    BY <2>1, <2>4
  <2> QED BY <2>3, <2>4
<1>9. PICK sl : sl = [slots EXCEPT
                        ![cursor].prompt = past + add,
                        ![cursor].state = IF past + add = n_tokens(cursor)
                                          THEN "DONE_PROMPT" ELSE "PROCESSING_PROMPT",
                        ![cursor].i_batch = IF past + add = n_tokens(cursor)
                                            THEN Len(b) - 1 ELSE @]
  OBVIOUS
<1>10. PICK T : T = IF Len(b) >= NBatch THEN {} ELSE Turns(cursor + 1, b, k, sl)
  OBVIOUS
<1>11. slots' = sl /\ NextTurn(T, b, k)
  <2>1. /\ add = Min({n_tokens(cursor) - past, Max({NBatch - Len(batch), 0})})
        /\ b = batch \o [j \in 1 .. add |-> cursor]
        /\ k = TypeOf(slots[cursor].task)
    BY <1>3, <1>4, <1>5, <1>6, <1>7
  <2> QED BY <1>2, <1>9, <1>10, <2>1
<1>12. T \in SUBSET SlotIds /\ \A s \in T : slots'[s].state \in {"STARTED", "PROCESSING_PROMPT"}
  BY <1>10, <1>11, TurnsFacts
<1>13. slots \in [SlotIds -> SlotType]
  BY DEF IInv, TypeOK, SlotType
<1>15. /\ slots'[cursor] \in SlotType
       /\ slots'[cursor].task = slots[cursor].task
       /\ slots'[cursor].state = st
       /\ slots'[cursor].prompt = past + add
       /\ slots'[cursor].i_batch = ib
  <2>1. past + add \in Nat /\ slots[cursor] \in SlotType
    BY <1>1, <1>3, <1>13
  <2>2. CASE past + add = n
    BY <1>1, <1>3, <1>8, <1>9, <1>11, <1>13, <2>1, <2>2 DEF SlotType
  <2>3. CASE past + add # n
    BY <1>1, <1>3, <1>8, <1>9, <1>11, <1>13, <2>1, <2>3 DEF SlotType
  <2> QED BY <2>2, <2>3
<1>16. \A s \in SlotIds \ {cursor} : slots'[s] = slots[s]
  BY <1>9, <1>11, <1>13
<1>17. slots' \in [SlotIds -> SlotType]
  BY <1>1, <1>9, <1>11, <1>13, <1>15
<1>18. \A i \in 1 .. Len(batch) : i \in 1 .. Len(b) /\ b[i] = batch[i]
  BY <1>4, <1>6
<1>19. /\ st = "PROCESSING_PROMPT" => past + add < n
       /\ st = "DONE_PROMPT" => ib \in 0 .. Len(b) - 1 /\ b[ib + 1] = cursor
  <2>1. st = "PROCESSING_PROMPT" => past + add # n
    BY <1>8
  <2>2. ASSUME st = "DONE_PROMPT"
        PROVE  ib \in 0 .. Len(b) - 1 /\ b[ib + 1] = cursor
    <3>1. past + add = n /\ ib = Len(b) - 1
      BY <1>8, <2>2
    <3>2. add \in 1 .. add
      BY <1>3, <3>1
    <3>3. b[l + add] = cursor
      BY <1>6, <3>2
    <3> QED BY <1>6, <3>1, <3>2, <3>3
  <2> QED BY <1>3, <1>5, <2>1, <2>2
<1>20. LoopFrame /\ UNCHANGED <<sleepVars, taskVars, queue_results, hand, orphans>> /\ loop = "prompt"
  BY DEF AddPrompt
<1> QED BY <1>3, <1>7, <1>8, <1>11, <1>12, <1>15, <1>16, <1>17, <1>18, <1>19, <1>20, PromptStep

(* The slots that fail together: one error for each of their tasks.        *)
LEMMA FailResults ==
    ASSUME IInv, NEW S \in SUBSET Processing
    PROVE  LET order == Ascending(S)
               results == [k \in DOMAIN order |-> Result(slots[order[k]].task, "error")]
           IN  /\ Len(order) \in Nat /\ (Len(order) = 0 <=> S = {})
               /\ results \in Seq(ResultEntry) /\ LastIsLast(results)
               /\ Told(results) \subseteq Live /\ Ends(results) \subseteq TasksIn(S)
<1> DEFINE order == Ascending(S)
           N == Cardinality(S)
           results == [k \in DOMAIN order |-> Result(slots[order[k]].task, "error")]
<1>1. S \in SUBSET SlotIds /\ IsFiniteSet(S) /\ S \in SUBSET Int
  <2>1. S \in SUBSET SlotIds
    BY DEF Processing
  <2> QED BY <2>1, SlotIdsFacts
<1>2. /\ N \in Nat
      /\ \A n \in 1 .. N : Nth(S, n) \in S
      /\ \A m, n \in 1 .. N : m < n => Nth(S, m) < Nth(S, n)
  BY <1>1, NthProperties
<1>3. N = 0 <=> S = {}
  BY <1>1, FS_EmptySet
<1> HIDE DEF N
<1>4. PICK o : o = order
  OBVIOUS
<1>5. /\ DOMAIN o = 1 .. N /\ Len(o) = N
      /\ \A n \in 1 .. N : o[n] \in S
      /\ \A m, n \in 1 .. N : m < n => o[m] < o[n]
  <2>1. o = [n \in 1 .. N |-> Nth(S, n)]
    BY <1>4 DEF Ascending, N
  <2> QED BY <1>2, <2>1
<1>6. \A n \in 1 .. N : /\ slots[o[n]].task \in Task /\ slots[o[n]].task \in Live
                       /\ slots[o[n]].task \in TasksIn(S)
  BY <1>5, SlotTask DEF IInv, TasksIn
<1>7. PICK w : w = [n \in 1 .. N |-> Result(slots[o[n]].task, "error")]
  OBVIOUS
<1>8. w = results
  BY <1>4, <1>5, <1>7
<1>9. \A n \in 1 .. N : w[n].task = slots[o[n]].task /\ w[n] \in ResultEntry
  BY <1>6, <1>7 DEF Result, ResultEntry
<1>10. w \in Seq(ResultEntry) /\ Len(w) = N
  <2>1. \A n \in 1 .. N : Result(slots[o[n]].task, "error") \in ResultEntry
    BY <1>7, <1>9
  <2> QED BY <1>2, <1>7, <2>1
<1>11. LastIsLast(w)
  <2> SUFFICES ASSUME NEW m \in 1 .. N, NEW n \in 1 .. N, m < n
               PROVE  w[n].task # w[m].task
    BY <1>10 DEF LastIsLast
  <2>1. o[m] \in S /\ o[n] \in S /\ o[m] < o[n]
    BY <1>5
  <2>2. o[m] # o[n]
    <3>1. \A a, b \in S : a < b => a # b
      BY <1>1
    <3> QED BY <2>1, <3>1
  <2>3. \A s, u \in Processing : slots[s].task = slots[u].task => s = u
    BY DEF IInv, CoreState, PlaceState
  <2> QED BY <1>9, <2>1, <2>2, <2>3
<1>12. Told(w) \subseteq Live /\ Ends(w) \subseteq TasksIn(S)
  BY <1>6, <1>9, <1>10 DEF Told, Ends, Elements
<1> QED BY <1>2, <1>3, <1>4, <1>5, <1>8, <1>10, <1>11, <1>12

(* The sampled tokens in the batch: one for each slot, at its rank.        *)
LEMMA SampledBatch ==
    ASSUME NEW in \in SUBSET SlotIds
    PROVE  /\ Ascending(in) \in Seq(SlotIds)
           /\ \A s \in in : LET i == Cardinality({o \in in : o < s})
                            IN  i \in 0 .. Len(Ascending(in)) - 1 /\ Ascending(in)[i + 1] = s
<1> DEFINE N == Cardinality(in)
           Below(s) == Cardinality({o \in in : o < s})
<1>1. in \in SUBSET Int /\ IsFiniteSet(in)
  BY SlotIdsFacts
<1>2. /\ N \in Nat
      /\ \A n \in 1 .. N : Nth(in, n) \in in
      /\ \A i \in in : Below(i) + 1 \in 1 .. N /\ Nth(in, Below(i) + 1) = i
  BY <1>1, NthProperties
<1>3. \A i \in in : Below(i) \in Nat
  <2> TAKE i \in in
  <2>1. IsFiniteSet({o \in in : o < i})
    BY <1>1, FS_Subset
  <2> QED BY <2>1, FS_CardinalityType
<1> HIDE DEF N, Below
<1>4. PICK b : b = [n \in 1 .. N |-> Nth(in, n)]
  OBVIOUS
<1>5. Ascending(in) = b
  BY <1>4 DEF Ascending, N
<1>6. b \in Seq(SlotIds) /\ Len(b) = N /\ \A n \in 1 .. N : b[n] = Nth(in, n)
  <2>1. \A n \in 1 .. N : Nth(in, n) \in SlotIds
    BY <1>2
  <2> QED BY <1>2, <1>4, <2>1
<1>7. \A i \in in : Below(i) \in 0 .. N - 1 /\ b[Below(i) + 1] = i
  BY <1>2, <1>3, <1>6
<1> QED BY <1>5, <1>6, <1>7 DEF Below

LEMMA AddSampledStep == IInv /\ AddSampled => IInv'
<1> SUFFICES ASSUME IInv, AddSampled PROVE IInv'
  OBVIOUS
<1>1. PICK full : full = {s \in SlotIds : slots[s].state = "GENERATING" /\ slots[s].prompt + 1 >= NCtx}
  OBVIOUS
<1>2. PICK gen : gen = {s \in SlotIds \ full : slots[s].state = "GENERATING"}
  OBVIOUS
<1>3. PICK first : first = TypeOf(slots[Min(gen)].task)
  OBVIOUS
<1>4. PICK in : in = {s \in gen : TypeOf(slots[s].task) = first}
  OBVIOUS
<1>5. PICK k : k = IF gen = {} THEN NoTask ELSE first
  OBVIOUS
<1>6. PICK sl : sl = [s \in SlotIds |->
                 IF s \in full THEN released(slots[s])
                 ELSE IF s \in in
                 THEN [slots[s] EXCEPT !.i_batch = Cardinality({o \in in : o < s}), !.prompt = @ + 1]
                 ELSE slots[s]]
  OBVIOUS
<1>7. /\ loop = "update" /\ LoopFrame /\ UNCHANGED <<sleepVars, hand, orphans>>
      /\ FailSlots(full, <<NextResponse>>)
      /\ slots' = sl
      /\ NextTurn(Turns(0, Ascending(in), k, sl), Ascending(in), k)
  BY <1>1, <1>2, <1>3, <1>4, <1>5, <1>6 DEF AddSampled
<1>8. /\ full \in SUBSET SlotIds /\ full \in SUBSET Processing
      /\ in \in SUBSET SlotIds /\ full \cap in = {}
      /\ \A s \in in : slots[s].state = "GENERATING"
  BY <1>1, <1>2, <1>4 DEF Processing, is_processing
<1>9. k \in {NoTask, "completion", "embedding"}
  <2>1. CASE gen # {}
    <3>1. gen \in SUBSET SlotIds /\ gen \in SUBSET Processing
      BY <1>2 DEF Processing, is_processing
    <3>2. Min(gen) \in Processing
      BY <2>1, <3>1, SlotIdsFacts
    <3> QED BY <1>3, <1>5, <2>1, <3>2, SlotTask DEF IInv
  <2> QED BY <1>5, <2>1
<1>10. PICK b \in Seq(SlotIds) :
          /\ b = Ascending(in)
          /\ \A s \in in : LET i == Cardinality({o \in in : o < s})
                           IN  i \in 0 .. Len(b) - 1 /\ b[i + 1] = s
  BY <1>8, SampledBatch
<1>11. PICK T : T = Turns(0, b, k, sl)
  OBVIOUS
<1>12. /\ T \in SUBSET SlotIds /\ NextTurn(T, b, k)
       /\ \A s \in T : slots'[s].state \in {"STARTED", "PROCESSING_PROMPT"}
  BY <1>7, <1>10, <1>11, TurnsFacts
<1>13. TypeOK /\ slots \in [SlotIds -> SlotType]
  BY DEF IInv, TypeOK, SlotType
<1>14. /\ loop' \in {"prompt", "decode", "wait"} /\ cursor' \in SlotIds
       /\ batch' = b /\ view' = view
       /\ kind' \in {NoTask, "completion", "embedding"}
  BY <1>9, <1>12, <1>13, NextTurnProperties
<1>15. ASSUME NEW s \in SlotIds
       PROVE  /\ slots'[s] \in SlotType
              /\ s \in full => slots'[s].state = "IDLE" /\ slots'[s].task = NoTask
              /\ s \in in => /\ slots'[s].state = "GENERATING" /\ slots'[s].task = slots[s].task
                             /\ slots'[s].i_batch \in 0 .. Len(b) - 1
                             /\ b[slots'[s].i_batch + 1] = s
              /\ s \notin full \cup in => slots'[s] = slots[s]
  <2>1. slots[s] \in SlotType
    BY <1>13
  <2>2. CASE s \in full
    BY <1>6, <1>7, <1>8, <1>13, <2>2, ReleasedType
  <2>3. CASE s \in in
    <3>1. PICK i : i = Cardinality({o \in in : o < s})
      OBVIOUS
    <3>2. i \in 0 .. Len(b) - 1 /\ b[i + 1] = s
      BY <1>10, <2>3, <3>1
    <3>3. PICK x \in SlotType : x = slots[s] /\ x.state = "GENERATING"
      BY <1>8, <2>1, <2>3
    <3>4. slots'[s] = [x EXCEPT !.i_batch = i, !.prompt = x.prompt + 1]
      BY <1>6, <1>7, <1>8, <2>3, <3>1, <3>3 DEF SlotType
    <3>5. i \in Int /\ x.prompt + 1 \in Nat
      BY <3>2, <3>3 DEF SlotType
    <3>6. /\ slots'[s] \in SlotType
          /\ slots'[s].state = x.state /\ slots'[s].task = x.task /\ slots'[s].i_batch = i
      BY <3>4, <3>5 DEF SlotType
    <3> QED BY <1>8, <2>3, <3>2, <3>3, <3>6
  <2>4. CASE s \notin full \cup in
    BY <1>6, <1>7, <2>1, <2>4
  <2> QED BY <2>2, <2>3, <2>4
<1>16. slots' \in [SlotIds -> SlotType]
  <2>1. slots' = [s \in SlotIds |-> slots'[s]]
    BY <1>6, <1>7
  <2> QED BY <1>15, <2>1
<1>17. Releases(full)
  BY <1>8, <1>15 DEF Releases
<1>18. PICK q \in Seq(Entry) :
          /\ q = queue_tasks \o <<NextResponse>>
          /\ Once(q, RunEntry) /\ Runs(q) = Queued
          /\ Cancels(queue_tasks) \subseteq Cancels(q) /\ HasNext(q)
  <2>1. PICK e \in Seq(Entry) : /\ e = <<NextResponse>>
                                /\ Elements(e) = {NextResponse} /\ \A X : Once(e, X)
    <3>1. <<NextResponse>> \in Seq(Entry)
      BY Entries
    <3> QED BY <3>1, ElementsOne
  <2>2. queue_tasks \in Seq(Entry) /\ Once(queue_tasks, RunEntry)
    BY DEF IInv, TypeOK, CoreState, PlaceState
  <2>3. NextResponse \notin RunEntry
    BY Entries DEF RunEntry
  <2>4. PICK q \in Seq(Entry) : /\ q = queue_tasks \o e
                                /\ Elements(q) = Elements(queue_tasks) \cup {NextResponse}
                                /\ Once(q, RunEntry)
    <3>1. /\ queue_tasks \o e \in Seq(Entry)
          /\ Elements(queue_tasks \o e) = Elements(queue_tasks) \cup Elements(e)
          /\ Once(queue_tasks \o e, RunEntry) <=>
                Once(queue_tasks, RunEntry) /\ Once(e, RunEntry)
                /\ Elements(queue_tasks) \cap Elements(e) \cap RunEntry = {}
      BY <2>2, ElementsConcat
    <3>2. Elements(queue_tasks) \cap Elements(e) \cap RunEntry = {}
      BY <2>1, <2>3
    <3> QED BY <2>1, <2>2, <3>1, <3>2
  <2>5. \A t \in Task : Run(t) # NextResponse
    BY Entries
  <2> QED BY <2>1, <2>4, <2>5 DEF Runs, Queued, Cancels, HasNext
<1>19. /\ CoreState' /\ Processing' = Processing \ full
       /\ queue_tasks' \in Seq(Entry) /\ queue_tasks_deferred' \in Seq(Task)
       /\ woken' \subseteq Task /\ lost' \in BOOLEAN
       /\ queue_results' \in Seq(ResultEntry)
       /\ HasNext(queue_tasks')
  <2>1. PICK n \in Nat, results \in Seq(ResultEntry) :
           /\ n = Len(Ascending(full)) /\ (n = 0 <=> full = {})
           /\ results = [i \in DOMAIN Ascending(full) |->
                           Result(slots[Ascending(full)[i]].task, "error")]
           /\ LastIsLast(results)
           /\ Told(results) \subseteq Live /\ Ends(results) \subseteq TasksIn(full)
    BY <1>8, FailResults
  <2>2. send(results) /\ pop_deferred_tasks(n, q)
    BY <1>7, <1>18, <2>1, Zenon DEF FailSlots
  <2>3. loop # "task" /\ loop' # "task"
    BY <1>7, <1>14
  <2> QED BY <1>7, <1>8, <1>17, <1>18, <2>1, <2>2, <2>3, EndSlots
<1>20. TypeOK'
  <2>1. hand' = NoTask /\ view' \in [i : Nat, n : Nat \ {0}]
    BY <1>7, <1>13, <1>14 DEF TypeOK
  <2>2. loop' \in {"take", "update", "prompt", "decode", "sample", "wait", "asleep", "ended"}
    BY <1>14
  <2> QED BY <1>7, <1>13, <1>14, <1>16, <1>19, <2>1, <2>2, LoopType
<1>21. WakeState'
  BY <1>14, <1>19 DEF WakeState
<1>22. BatchState'
  <2>1. \A s \in SlotIds : slots'[s] = slots[s] => n_tokens(s)' = n_tokens(s)
    BY <1>7 DEF n_tokens, LoopFrame, readerVars
  <2>2. BatchState /\ batch = <<>> /\ view.i = 0
    BY <1>7 DEF IInv, BatchState
  <2>3. \A s \in SlotIds : ~Awaits(s)
    BY <2>2 DEF Awaits
  <2>4. ASSUME NEW s \in SlotIds
        PROVE  /\ slots'[s].state = "PROCESSING_PROMPT" => slots'[s].prompt < n_tokens(s)'
               /\ slots'[s].state \in {"DONE_PROMPT", "GENERATING"} =>
                    \/ slots'[s].state = "GENERATING" /\ slots'[s].i_batch = -1
                    \/ slots'[s].i_batch \in 0 .. Len(b) - 1 /\ b[slots'[s].i_batch + 1] = s
    <3>1. CASE s \in full \cup in
      BY <1>15, <3>1
    <3>2. CASE s \notin full \cup in
      <4>1. slots'[s] = slots[s]
        BY <1>15, <3>2
      <4> QED BY <2>1, <2>2, <2>3, <4>1 DEF BatchState
    <3> QED BY <3>1, <3>2
  <2> QED BY <1>7, <1>9, <1>12, <1>13, <2>2, <2>4, PromptBatch
<1> QED BY <1>13, <1>19, <1>20, <1>21, <1>22 DEF IInv

LEMMA ViewFacts ==
    ASSUME IInv
    PROVE  /\ view.i \in Nat /\ Len(batch) \in Nat /\ ViewEnd \in Nat
           /\ view.i <= ViewEnd /\ ViewEnd <= Len(batch)
<1>1. PICK i \in Nat, n \in Nat, l \in Nat : i = view.i /\ n = view.n /\ l = Len(batch) /\ i <= l
  <2>1. view \in [i : Nat, n : Nat \ {0}] /\ batch \in Seq(SlotIds) /\ view.i <= Len(batch)
    BY DEF IInv, TypeOK, BatchState
  <2> QED BY <2>1
<1>2. ViewEnd = IF i + n <= l THEN i + n ELSE l
  <2>1. Min({i + n, l}) = IF i + n <= l THEN i + n ELSE l
    BY MinOfPair
  <2> QED BY <1>1, <2>1 DEF ViewEnd
<1> QED BY <1>1, <1>2

(* To the next slot, the next view, or the end: the slots that still wait  *)
(* for logits are those after the one the loop goes on with.               *)
LEMMA NextSampleProperties ==
    ASSUME IInv, loop \in {"decode", "sample"}, LoopFrame,
           NEW c \in Nat, c = IF loop = "decode" THEN 0 ELSE cursor + 1,
           NextSample(ToSample(c)),
           \A s \in SlotIds :
              \/ slots'[s] = slots[s] /\ (loop = "sample" => s # cursor)
              \/ slots'[s].state = "IDLE"
              \/ slots'[s].state = "GENERATING" /\ slots'[s].i_batch = -1
    PROVE  /\ loop' \in {"decode", "sample", "wait"} /\ cursor' \in SlotIds
           /\ batch' \in Seq(SlotIds) /\ kind' \in {NoTask, "completion", "embedding"}
           /\ view' \in [i : Nat, n : Nat \ {0}]
           /\ loop' = "sample" => cursor' \in ToSample(c)
           /\ (\A s \in ToSample(c) : slots'[s] = slots[s]) => BatchState'
<1> DEFINE pending == ToSample(c)
<1>1. TypeOK /\ BatchState
  BY DEF IInv
<1>2. /\ view \in [i : Nat, n : Nat \ {0}] /\ batch \in Seq(SlotIds) /\ cursor \in SlotIds
      /\ kind \in {NoTask, "completion", "embedding"}
  BY <1>1 DEF TypeOK
<1>3. /\ view.i \in Nat /\ Len(batch) \in Nat /\ ViewEnd \in Nat
      /\ view.i <= ViewEnd /\ ViewEnd <= Len(batch)
  BY ViewFacts
<1>4. /\ pending \in SUBSET SlotIds
      /\ \A s \in pending : /\ s >= c /\ slots[s].state \in {"DONE_PROMPT", "GENERATING"}
                         /\ view.i <= slots[s].i_batch /\ slots[s].i_batch < ViewEnd
  BY DEF ToSample
<1>5. /\ 0 \in SlotIds /\ SlotIds \subseteq Nat
      /\ pending # {} => Min(pending) \in pending /\ \A s \in pending : Min(pending) <= s
  BY <1>4, SlotIdsFacts
<1>6. NBatch \in Nat \ {0}
  BY ContextAssumption DEF ContextAssumption
<1>7. ASSUME NEW s \in SlotIds, slots'[s] = slots[s], loop = "sample" => s # cursor,
             slots[s].state \in {"DONE_PROMPT", "GENERATING"}, Awaits(s)
      PROVE  /\ slots[s].i_batch \in view.i .. Len(batch) - 1 /\ batch[slots[s].i_batch + 1] = s
             /\ slots[s].i_batch < ViewEnd => s \in pending
  <2>1. /\ slots[s].i_batch \in view.i .. Len(batch) - 1 /\ batch[slots[s].i_batch + 1] = s
        /\ loop = "sample" /\ slots[s].i_batch < ViewEnd => cursor <= s
    BY <1>7 DEF Awaits
  <2>2. slots[s].i_batch < ViewEnd => s >= c
    BY <1>2, <1>5, <1>7, <2>1
  <2>3. view.i <= slots[s].i_batch
    BY <1>3, <2>1
  <2> QED BY <1>7, <2>1, <2>2, <2>3 DEF ToSample
<1>8. ASSUME NEW s \in SlotIds, slots'[s].state \in {"DONE_PROMPT", "GENERATING"}, slots'[s].i_batch # -1
             \/ slots'[s].state = "DONE_PROMPT"
      PROVE  slots'[s] = slots[s] /\ (loop = "sample" => s # cursor) /\ Awaits(s)
  BY <1>1, <1>8 DEF BatchState
<1>9. \A s \in SlotIds : slots'[s] = slots[s] => n_tokens(s)' = n_tokens(s)
  BY DEF n_tokens, LoopFrame, readerVars
<1>10. \A s \in SlotIds : slots'[s].state = "PROCESSING_PROMPT" => slots'[s].prompt < n_tokens(s)'
  BY <1>1, <1>9 DEF BatchState
<1>11. CASE pending # {}
  <2>1. loop' = "sample" /\ cursor' = Min(pending) /\ batch' = batch /\ kind' = kind /\ view' = view
    BY <1>11 DEF NextSample
  <2>2. ASSUME \A s \in pending : slots'[s] = slots[s]
        PROVE  BatchState'
    <3>1. ViewEnd' = ViewEnd
      BY <2>1 DEF ViewEnd
    <3>2. cursor' \in pending /\ cursor' \in SlotIds /\ slots'[cursor'] = slots[cursor']
      BY <1>4, <1>5, <1>11, <2>1, <2>2
    <3>3. (cursor \in ToSample(cursor))'
      <4>1. cursor' \in Nat
        BY <1>5, <3>2
      <4>2. cursor' >= cursor'
        BY <4>1
      <4> QED BY <1>4, <2>1, <3>1, <3>2, <4>2 DEF ToSample
    <3>4. ASSUME NEW s \in SlotIds, slots'[s].state \in {"DONE_PROMPT", "GENERATING"},
                 slots'[s].i_batch # -1 \/ slots'[s].state = "DONE_PROMPT"
          PROVE  Awaits(s)'
      <4>1. slots'[s] = slots[s] /\ (loop = "sample" => s # cursor) /\ Awaits(s)
        BY <1>8, <3>4
      <4>2. /\ slots[s].i_batch \in view.i .. Len(batch) - 1 /\ batch[slots[s].i_batch + 1] = s
            /\ slots[s].i_batch < ViewEnd => s \in pending
        BY <1>7, <3>4, <4>1
      <4>3. slots[s].i_batch < ViewEnd => cursor' <= s
        BY <1>5, <1>11, <2>1, <4>2
      <4> QED BY <2>1, <3>1, <4>1, <4>2, <4>3 DEF Awaits
    <3> QED BY <1>3, <1>10, <2>1, <3>3, <3>4 DEF BatchState
  <2> QED BY <1>2, <1>4, <1>5, <1>11, <2>1, <2>2
<1>12. CASE pending = {} /\ ViewEnd < Len(batch)
  <2>1. /\ loop' = "decode" /\ cursor' = 0 /\ batch' = batch /\ kind' = kind
        /\ view' = [i |-> ViewEnd, n |-> NBatch]
    BY <1>12 DEF NextSample
  <2>2. view'.i = ViewEnd
    BY <2>1
  <2>3. BatchState'
    <3>4. ASSUME NEW s \in SlotIds, slots'[s].state \in {"DONE_PROMPT", "GENERATING"},
                 slots'[s].i_batch # -1 \/ slots'[s].state = "DONE_PROMPT"
          PROVE  Awaits(s)'
      <4>1. slots'[s] = slots[s] /\ (loop = "sample" => s # cursor) /\ Awaits(s)
        BY <1>8, <3>4
      <4>2. /\ slots[s].i_batch \in view.i .. Len(batch) - 1 /\ batch[slots[s].i_batch + 1] = s
            /\ slots[s].i_batch < ViewEnd => s \in pending
        BY <1>7, <3>4, <4>1
      <4>3. slots[s].i_batch \in ViewEnd .. Len(batch) - 1
        BY <1>3, <1>12, <4>2
      <4> QED BY <2>1, <2>2, <4>1, <4>2, <4>3 DEF Awaits
    <3> QED BY <1>3, <1>10, <2>1, <2>2, <3>4 DEF BatchState
  <2> QED BY <1>2, <1>3, <1>5, <1>6, <2>1, <2>3
<1>13. CASE pending = {} /\ ~(ViewEnd < Len(batch))
  <2>1. /\ loop' = "wait" /\ cursor' = 0 /\ batch' = <<>> /\ kind' = NoTask
        /\ view' = [i |-> 0, n |-> NBatch]
    BY <1>13 DEF NextSample
  <2>2. view'.i = 0 /\ Len(batch') = 0
    BY <2>1
  <2>3. ASSUME NEW s \in SlotIds, slots'[s].state \in {"DONE_PROMPT", "GENERATING"},
               slots'[s].i_batch # -1 \/ slots'[s].state = "DONE_PROMPT"
        PROVE  FALSE
    <3>1. slots'[s] = slots[s] /\ (loop = "sample" => s # cursor) /\ Awaits(s)
      BY <1>8, <2>3
    <3>2. /\ slots[s].i_batch \in view.i .. Len(batch) - 1
          /\ slots[s].i_batch < ViewEnd => s \in pending
      BY <1>7, <2>3, <3>1
    <3> QED BY <1>3, <1>13, <3>2
  <2>4. BatchState'
    BY <1>10, <2>1, <2>2, <2>3 DEF BatchState
  <2>5. <<>> \in Seq(SlotIds)
    OBVIOUS
  <2>6. view' \in [i : Nat, n : Nat \ {0}]
    BY <1>6, <2>1
  <2> QED BY <1>5, <2>1, <2>4, <2>5, <2>6
<1> QED BY <1>11, <1>12, <1>13

LEMMA DecodedStep == IInv /\ Decoded => IInv'
<1> SUFFICES ASSUME IInv, Decoded PROVE IInv'
  OBVIOUS
<1>1. /\ loop = "decode" /\ NextSample(ToSample(0)) /\ LoopFrame
      /\ UNCHANGED <<sleepVars, taskVars, queue_results, hand, slots, orphans>>
  BY DEF Decoded
<1>2. TypeOK /\ CoreState /\ WakeState
  BY DEF IInv
<1>3. /\ loop' \in {"decode", "sample", "wait"} /\ cursor' \in SlotIds
      /\ batch' \in Seq(SlotIds) /\ kind' \in {NoTask, "completion", "embedding"}
      /\ view' \in [i : Nat, n : Nat \ {0}]
      /\ BatchState'
  BY <1>1, NextSampleProperties
<1>4. CoreState'
  <2>1. Releases({})
    BY <1>1 DEF Releases
  <2> QED BY <1>1, <1>2, <1>3, <2>1, QuietStep
<1>5. TypeOK'
  <2>1. /\ hand' = NoTask /\ slots' \in [SlotIds -> SlotType]
        /\ queue_tasks' \in Seq(Entry) /\ queue_tasks_deferred' \in Seq(Task)
        /\ woken' \subseteq Task /\ lost' \in BOOLEAN
        /\ queue_results' \in Seq(ResultEntry)
    BY <1>1, <1>2 DEF TypeOK, taskVars, ResultEntry, SlotType
  <2>2. loop' \in {"take", "update", "prompt", "decode", "sample", "wait", "asleep", "ended"}
    BY <1>3
  <2>3. UNCHANGED <<sleepVars, orphans>>
    BY <1>1
  <2> QED BY <1>1, <1>2, <1>3, <2>1, <2>2, <2>3, LoopType
<1>6. WakeState'
  BY <1>1, <1>2, <1>3 DEF WakeState, taskVars, HasNext
<1> QED BY <1>3, <1>4, <1>5, <1>6 DEF IInv

LEMMA NoRoomStep == IInv /\ NoRoom => IInv'
<1> SUFFICES ASSUME IInv, NoRoom PROVE IInv'
  OBVIOUS
<1>1. PICK idle \in SUBSET SlotIds : idle = {s \in SlotIds \ Processing : slots[s].prompt > 0}
  OBVIOUS
<1>2. /\ loop = "decode" /\ view.n > 1 /\ LoopFrame
      /\ IF idle # {}
         THEN slots' = [slots EXCEPT ![Min(idle)].prompt = 0] /\ UNCHANGED view
         ELSE view' = [view EXCEPT !.n = @ \div 2] /\ UNCHANGED slots
      /\ UNCHANGED <<sleepVars, taskVars, queue_results, loop, hand, cursor, batch, kind, orphans>>
  BY <1>1 DEF NoRoom
<1>3. TypeOK /\ CoreState /\ WakeState /\ BatchState
  BY DEF IInv
<1>4. slots \in [SlotIds -> SlotType] /\ view \in [i : Nat, n : Nat \ {0}] /\ SlotState
  BY <1>3 DEF TypeOK, SlotType, CoreState
<1>5. /\ slots' \in [SlotIds -> SlotType]
      /\ \A s \in SlotIds : \/ slots'[s] = slots[s]
                            \/ slots'[s].state = "IDLE" /\ slots[s].state = "IDLE"
                               /\ slots'[s].task = slots[s].task
  <2>1. CASE idle # {}
    <3>1. PICK m \in SlotIds : m = Min(idle) /\ slots[m].state = "IDLE"
      BY <1>1, <2>1, SlotIdsFacts DEF Processing, is_processing
    <3>2. slots' = [slots EXCEPT ![m].prompt = 0]
      BY <1>2, <2>1, <3>1
    <3> QED BY <1>4, <3>1, <3>2 DEF SlotType
  <2>2. CASE idle = {}
    BY <1>2, <1>4, <2>2
  <2> QED BY <2>1, <2>2
<1>6. view' \in [i : Nat, n : Nat \ {0}] /\ view'.i = view.i
  <2>1. CASE idle # {}
    BY <1>2, <1>4, <2>1
  <2>2. CASE idle = {}
    <3>1. PICK n \in Nat : n = view.n /\ n > 1
      BY <1>2, <1>4
    <3>2. n \div 2 \in Nat \ {0}
      BY <3>1
    <3> QED BY <1>2, <1>4, <2>2, <3>1, <3>2
  <2> QED BY <2>1, <2>2
<1>7. CoreState' /\ Processing' = Processing
  <2>1. Releases({})
    BY <1>5 DEF Releases
  <2> QED BY <1>2, <1>3, <2>1, QuietStep
<1>8. TypeOK'
  <2>1. /\ hand' = NoTask
        /\ queue_tasks' \in Seq(Entry) /\ queue_tasks_deferred' \in Seq(Task)
        /\ woken' \subseteq Task /\ lost' \in BOOLEAN
        /\ queue_results' \in Seq(ResultEntry)
        /\ cursor' \in SlotIds /\ batch' \in Seq(SlotIds)
        /\ kind' \in {NoTask, "completion", "embedding"}
    BY <1>2, <1>3 DEF TypeOK, taskVars, ResultEntry
  <2>2. loop' \in {"take", "update", "prompt", "decode", "sample", "wait", "asleep", "ended"}
    BY <1>2
  <2>3. UNCHANGED <<sleepVars, orphans>>
    BY <1>2
  <2> QED BY <1>2, <1>3, <1>5, <1>6, <2>1, <2>2, <2>3, LoopType
<1>9. WakeState'
  BY <1>2, <1>3 DEF WakeState, taskVars, HasNext
<1>10. BatchState'
  <2>1. loop' = "decode" /\ batch' = batch
    BY <1>2
  <2>2. \A s \in SlotIds : slots'[s] = slots[s] => n_tokens(s)' = n_tokens(s) /\ (Awaits(s) => Awaits(s)')
    BY <1>2, <1>6, <2>1 DEF n_tokens, LoopFrame, readerVars, Awaits
  <2>3. \A s \in SlotIds :
          /\ (slots[s].state = "PROCESSING_PROMPT" => slots[s].prompt < n_tokens(s))'
          /\ (slots[s].state = "DONE_PROMPT" => Awaits(s))'
          /\ (slots[s].state = "GENERATING" => slots[s].i_batch = -1 \/ Awaits(s))'
    BY <1>3, <1>5, <2>2 DEF BatchState
  <2>4. view'.i <= Len(batch')
    BY <1>3, <1>6, <2>1 DEF BatchState
  <2> QED BY <2>1, <2>3, <2>4 DEF BatchState
<1> QED BY <1>7, <1>8, <1>9, <1>10 DEF IInv

LEMMA DecodeFailsStep == IInv /\ DecodeFails => IInv'
<1> SUFFICES ASSUME IInv, DecodeFails PROVE IInv'
  OBVIOUS
<1>1. /\ loop = "decode" /\ FailSlots(Processing, <<>>)
      /\ slots' = [s \in SlotIds |-> IF is_processing(s) THEN [released(slots[s]) EXCEPT !.prompt = 0]
                                                         ELSE slots[s]]
      /\ loop' = "wait" /\ cursor' = 0 /\ batch' = <<>> /\ kind' = NoTask
      /\ view' = [i |-> 0, n |-> NBatch]
      /\ LoopFrame /\ UNCHANGED <<sleepVars, hand, orphans>>
  BY DEF DecodeFails
<1>2. TypeOK /\ slots \in [SlotIds -> SlotType]
  BY DEF IInv, TypeOK, SlotType
<1>3. ASSUME NEW s \in SlotIds
      PROVE  slots'[s] \in SlotType /\ slots'[s].state = "IDLE" /\ slots'[s].task = NoTask
  <2>1. CASE s \in Processing
    <3>1. slots'[s] = [released(slots[s]) EXCEPT !.prompt = 0]
      BY <1>1, <2>1 DEF Processing
    <3>2. PICK x \in SlotType : x = released(slots[s]) /\ x.state = "IDLE" /\ x.task = NoTask
      BY <1>2, ReleasedType
    <3> QED BY <3>1, <3>2 DEF SlotType
  <2>2. CASE s \notin Processing
    <3>1. slots'[s] = slots[s] /\ slots[s].state = "IDLE"
      BY <1>1, <2>2 DEF Processing, is_processing
    <3> QED BY <1>2, <3>1 DEF IInv, CoreState, SlotState
  <2> QED BY <2>1, <2>2
<1>4. slots' \in [SlotIds -> SlotType]
  <2>1. slots' = [s \in SlotIds |-> slots'[s]]
    BY <1>1
  <2> QED BY <1>3, <2>1
<1>5. Releases(Processing)
  <2>1. \A s \in SlotIds \ Processing : slots[s].state = "IDLE" /\ slots[s].task = NoTask
    BY DEF Processing, is_processing, IInv, CoreState, SlotState
  <2> QED BY <1>3, <2>1 DEF Releases
<1>6. PICK q \in Seq(Entry) : /\ q = queue_tasks /\ q = queue_tasks \o <<>>
                              /\ Once(q, RunEntry) /\ Runs(q) = Queued
  <2>1. queue_tasks \in Seq(Entry) /\ Once(queue_tasks, RunEntry)
    BY DEF IInv, TypeOK, CoreState, PlaceState
  <2>2. queue_tasks = queue_tasks \o <<>>
    BY <2>1, ConcatEmptySeq
  <2> QED BY <2>1, <2>2 DEF Queued
<1>7. /\ CoreState' /\ Processing' = Processing \ Processing
      /\ queue_tasks' \in Seq(Entry) /\ queue_tasks_deferred' \in Seq(Task)
      /\ woken' \subseteq Task /\ lost' \in BOOLEAN
      /\ queue_results' \in Seq(ResultEntry)
  <2>1. PICK n \in Nat, results \in Seq(ResultEntry) :
           /\ n = Len(Ascending(Processing)) /\ (n = 0 <=> Processing = {})
           /\ results = [i \in DOMAIN Ascending(Processing) |->
                           Result(slots[Ascending(Processing)[i]].task, "error")]
           /\ LastIsLast(results)
           /\ Told(results) \subseteq Live /\ Ends(results) \subseteq TasksIn(Processing)
    BY FailResults
  <2>2. send(results) /\ pop_deferred_tasks(n, queue_tasks \o <<>>)
    BY <1>1, <2>1, Zenon DEF FailSlots
  <2>3. pop_deferred_tasks(n, q)
    BY <1>6, <2>2
  <2>4. loop # "task" /\ loop' # "task" /\ Cancels(queue_tasks) \subseteq Cancels(q)
    BY <1>1, <1>6
  <2>5. Processing \in SUBSET SlotIds
    BY DEF Processing
  <2> QED BY <1>1, <1>5, <1>6, <2>1, <2>2, <2>3, <2>4, <2>5, EndSlots
<1>8. TypeOK'
  <2>1. hand' = NoTask /\ <<>> \in Seq(SlotIds)
    BY <1>1, <1>2 DEF TypeOK
  <2>2. view' \in [i : Nat, n : Nat \ {0}]
    BY <1>1, ContextAssumption DEF ContextAssumption
  <2>3. 0 \in SlotIds
    BY SlotIdsFacts
  <2> QED BY <1>1, <1>2, <1>4, <1>7, <2>1, <2>2, <2>3, LoopType
<1>9. WakeState'
  BY <1>1, <1>7 DEF WakeState
<1>10. BatchState'
  <2>1. view'.i = 0 /\ Len(batch') = 0
    BY <1>1
  <2>2. \A s \in SlotIds :
           /\ (slots[s].state = "PROCESSING_PROMPT" => slots[s].prompt < n_tokens(s))'
           /\ (slots[s].state = "DONE_PROMPT" => Awaits(s))'
           /\ (slots[s].state = "GENERATING" => slots[s].i_batch = -1 \/ Awaits(s))'
    BY <1>3
  <2>3. loop' = "wait" /\ batch' = <<>> /\ view' = [i |-> 0, n |-> NBatch]
    BY <1>1
  <2> QED BY <2>1, <2>2, <2>3 DEF BatchState
<1> QED BY <1>7, <1>8, <1>9, <1>10 DEF IInv

(* The results of one sample: perhaps some text, perhaps the last answer.  *)
LEMMA SampleResults ==
    ASSUME NEW t \in Task, NEW ends \in BOOLEAN, NEW text \in {<<Result(t, "partial")>>, <<>>}
    PROVE  LET results == text \o IF ends THEN <<Result(t, "final")>> ELSE <<>>
           IN  /\ results \in Seq(ResultEntry) /\ LastIsLast(results)
               /\ Told(results) \subseteq {t}
               /\ Ends(results) \subseteq IF ends THEN {t} ELSE {}
<1>1. PICK a \in Seq(ResultEntry) :
         /\ a = text /\ LastIsLast(a) /\ Told(a) \subseteq {t} /\ Ends(a) = {}
  <2>1. /\ <<>> \in Seq(ResultEntry) /\ LastIsLast(<<>>) /\ Told(<<>>) = {} /\ Ends(<<>>) = {}
    BY DEF LastIsLast, Told, Ends, Elements
  <2> QED BY <2>1, OneResult
<1>2. PICK b \in Seq(ResultEntry) :
         /\ b = IF ends THEN <<Result(t, "final")>> ELSE <<>>
         /\ LastIsLast(b) /\ Told(b) \subseteq {t}
         /\ Ends(b) = IF ends THEN {t} ELSE {}
  <2>1. /\ <<>> \in Seq(ResultEntry) /\ LastIsLast(<<>>) /\ Told(<<>>) = {} /\ Ends(<<>>) = {}
    BY DEF LastIsLast, Told, Ends, Elements
  <2> QED BY <2>1, OneResult
<1>3. /\ a \o b \in Seq(ResultEntry)
      /\ Told(a \o b) = Told(a) \cup Told(b)
      /\ Ends(a \o b) = Ends(a) \cup Ends(b)
      /\ LastIsLast(a \o b)
  <2>1. Ends(a) \cap Told(b) = {} /\ LastIsLast(a) /\ LastIsLast(b)
    BY <1>1, <1>2
  <2>2. a \o b \in Seq(ResultEntry)
    BY ConcatProperties
  <2> QED BY <2>1, <2>2, ResultsConcat
<1> QED BY <1>1, <1>2, <1>3

LEMMA SampleStep == IInv /\ Sample => IInv'
<1> SUFFICES ASSUME IInv, Sample PROVE IInv'
  OBVIOUS
<1>1. PICK ends \in BOOLEAN,
              text \in {IF TypeOf(slots[cursor].task) # "embedding" /\ shape[slots[cursor].task[1]].stream
                       THEN <<Result(slots[cursor].task, "partial")>> ELSE <<>>, <<>>} :
         /\ slots' = [slots EXCEPT ![cursor] =
               [IF ends THEN released(slots[cursor]) ELSE [slots[cursor] EXCEPT !.state = "GENERATING"]
                  EXCEPT !.i_batch = -1]]
         /\ send(text \o IF ends THEN <<Result(slots[cursor].task, "final")>> ELSE <<>>)
         /\ IF ends THEN pop_deferred_tasks(1, queue_tasks) ELSE UNCHANGED taskVars
  BY DEF Sample
<1>2. /\ loop = "sample" /\ NextSample(ToSample(cursor + 1)) /\ LoopFrame
      /\ UNCHANGED <<sleepVars, hand, orphans>>
  BY DEF Sample
<1>3. TypeOK /\ CoreState /\ WakeState /\ BatchState /\ slots \in [SlotIds -> SlotType]
  BY DEF IInv, TypeOK, SlotType
<1>4. cursor \in SlotIds /\ cursor \in Processing /\ slots[cursor].state # "IDLE" /\ cursor + 1 \in Nat
  <2>1. cursor \in SlotIds /\ cursor \in Processing
    BY <1>2, AtCursor
  <2>2. cursor \in Nat
    BY <2>1, SlotIdsFacts
  <2> QED BY <2>1, <2>2 DEF Processing, is_processing
<1>5. PICK t \in Task : t = slots[cursor].task /\ t \in Live
  BY <1>3, <1>4, SlotTask
<1>6. PICK results \in Seq(ResultEntry) :
         /\ send(results) /\ LastIsLast(results)
         /\ Told(results) \subseteq Live
         /\ Ends(results) \subseteq IF ends THEN {t} ELSE {}
  <2>1. text \in {<<Result(t, "partial")>>, <<>>}
    BY <1>1, <1>5
  <2>2. send(text \o IF ends THEN <<Result(t, "final")>> ELSE <<>>)
    BY <1>1, <1>5
  <2>3. PICK results : results = text \o IF ends THEN <<Result(t, "final")>> ELSE <<>>
    OBVIOUS
  <2>4. /\ results \in Seq(ResultEntry) /\ LastIsLast(results)
        /\ Told(results) \subseteq {t}
        /\ Ends(results) \subseteq IF ends THEN {t} ELSE {}
    BY <2>1, <2>3, SampleResults
  <2> QED BY <1>5, <2>2, <2>3, <2>4
<1>7. /\ slots' \in [SlotIds -> SlotType]
      /\ \A s \in SlotIds \ {cursor} : slots'[s] = slots[s]
      /\ slots'[cursor].i_batch = -1
      /\ ends => slots'[cursor].state = "IDLE" /\ slots'[cursor].task = NoTask
      /\ ~ends => slots'[cursor].state = "GENERATING" /\ slots'[cursor].task = t
  <2>1. PICK x \in SlotType :
           /\ x = IF ends THEN released(slots[cursor]) ELSE [slots[cursor] EXCEPT !.state = "GENERATING"]
           /\ ends => x.state = "IDLE" /\ x.task = NoTask
           /\ ~ends => x.state = "GENERATING" /\ x.task = t
    <3>1. CASE ends
      BY <1>3, <1>4, <3>1, ReleasedType
    <3>2. CASE ~ends
      <4>1. PICK y \in SlotType : y = slots[cursor] /\ y.task = t
        BY <1>3, <1>4, <1>5
      <4>2. /\ [y EXCEPT !.state = "GENERATING"] \in SlotType
            /\ [y EXCEPT !.state = "GENERATING"].state = "GENERATING"
            /\ [y EXCEPT !.state = "GENERATING"].task = t
        BY <4>1 DEF SlotType
      <4> QED BY <3>2, <4>1, <4>2
    <3> QED BY <3>1, <3>2
  <2>2. slots' = [slots EXCEPT ![cursor] = [x EXCEPT !.i_batch = -1]]
    BY <1>1, <2>1
  <2>0. /\ [x EXCEPT !.i_batch = -1] \in SlotType
        /\ [x EXCEPT !.i_batch = -1].state = x.state /\ [x EXCEPT !.i_batch = -1].task = x.task
        /\ [x EXCEPT !.i_batch = -1].i_batch = -1
    BY DEF SlotType
  <2>3. PICK e \in SlotType :
           e = [x EXCEPT !.i_batch = -1] /\ e.state = x.state /\ e.task = x.task /\ e.i_batch = -1
    BY <2>0
  <2>4. slots' = [slots EXCEPT ![cursor] = e]
    BY <2>2, <2>3
  <2> QED BY <1>3, <1>4, <2>1, <2>3, <2>4
<1>8. /\ loop' \in {"decode", "sample", "wait"} /\ cursor' \in SlotIds
      /\ batch' \in Seq(SlotIds) /\ kind' \in {NoTask, "completion", "embedding"}
      /\ view' \in [i : Nat, n : Nat \ {0}]
      /\ BatchState'
  <2>1. ASSUME NEW s \in ToSample(cursor + 1)
        PROVE  slots'[s] = slots[s]
    <3>1. s \in SlotIds /\ s >= cursor + 1 /\ s \in Nat /\ cursor \in Nat
      BY <1>4, SlotIdsFacts DEF ToSample
    <3>2. s # cursor
      BY <3>1
    <3> QED BY <1>7, <3>1, <3>2
  <2>2. \A s \in SlotIds :
              \/ slots'[s] = slots[s] /\ (loop = "sample" => s # cursor)
              \/ slots'[s].state = "IDLE"
              \/ slots'[s].state = "GENERATING" /\ slots'[s].i_batch = -1
    BY <1>7
  <2>3. cursor + 1 = IF loop = "decode" THEN 0 ELSE cursor + 1
    BY <1>2
  <2> QED BY <1>2, <1>4, <2>1, <2>2, <2>3, NextSampleProperties
<1>9. /\ CoreState'
      /\ queue_tasks' \in Seq(Entry) /\ queue_tasks_deferred' \in Seq(Task)
      /\ woken' \subseteq Task /\ lost' \in BOOLEAN
      /\ queue_results' \in Seq(ResultEntry)
      /\ HasNext(queue_tasks') <=> HasNext(queue_tasks)
  <2>1. loop # "task" /\ loop' # "task"
    BY <1>2, <1>8
  <2>2. CASE ends
    <3>1. Releases({cursor})
      BY <1>4, <1>7, <2>2 DEF Releases
    <3>2. queue_tasks \in Seq(Entry) /\ Once(queue_tasks, RunEntry) /\ Runs(queue_tasks) = Queued
      BY <1>3 DEF TypeOK, CoreState, PlaceState, Queued
    <3>3. 1 \in Nat /\ (1 = 0 <=> {cursor} = {}) /\ pop_deferred_tasks(1, queue_tasks)
      BY <1>1, <2>2
    <3>4. Ends(results) \subseteq TasksIn({cursor})
      BY <1>5, <1>6, <2>2 DEF TasksIn
    <3> QED BY <1>2, <1>4, <1>6, <2>1, <3>1, <3>2, <3>3, <3>4, EndSlots
  <2>3. CASE ~ends
    <3>1. Releases({})
      BY <1>4, <1>5, <1>7, <2>3 DEF Releases
    <3>2. UNCHANGED taskVars
      BY <1>1, <2>3
    <3>3. Fetches({})
      BY <1>3, <3>2, FetchesNothing DEF CoreState
    <3>4. Ends(results) \subseteq TasksIn({})
      BY <1>6, <2>3
    <3>5. InHand = {}
      BY <2>1 DEF InHand
    <3>6. CoreState'
      BY <1>2, <1>3, <1>6, <2>1, <3>1, <3>3, <3>4, <3>5, LoopStep
    <3>7. queue_results' \in Seq(ResultEntry)
      <4>1. /\ LastIsLast(queue_results) /\ Ends(queue_results) \cap Live = {}
            /\ Told(queue_results) \subseteq waiting_task_ids
        BY <1>3 DEF CoreState, ResultState
      <4>2. Ends(queue_results) \cap Told(results) = {}
        BY <1>6, <4>1
      <4> QED BY <1>3, <1>6, <4>1, <4>2, SendProperties
    <3> QED BY <1>3, <3>2, <3>6, <3>7 DEF TypeOK, taskVars
  <2> QED BY <2>2, <2>3
<1>10. TypeOK'
  <2>1. hand' = NoTask /\ UNCHANGED <<sleepVars, orphans>>
    BY <1>2, <1>3 DEF TypeOK
  <2>2. loop' \in {"take", "update", "prompt", "decode", "sample", "wait", "asleep", "ended"}
    BY <1>8
  <2> QED BY <1>2, <1>3, <1>7, <1>8, <1>9, <2>1, <2>2, LoopType
<1>11. WakeState'
  BY <1>2, <1>3, <1>8, <1>9 DEF WakeState
<1> QED BY <1>8, <1>9, <1>10, <1>11 DEF IInv

-----------------------------------------------------------------------------
(* The steps between the rounds of the main loop.                          *)
LEMMA WaitEndsStep == IInv /\ WaitEnds => IInv'
<1> SUFFICES ASSUME IInv, WaitEnds PROVE IInv'
  OBVIOUS
<1> USE DEF IInv
<1>1. Releases({})
  BY DEF WaitEnds, batchVars, Releases
<1>2. CoreState' /\ Processing' = Processing
  BY <1>1, QuietStep DEF WaitEnds
<1>3. TypeOK'
  BY DEF WaitEnds, TypeOK, LoopFrame, readerVars, sleepVars, taskVars, batchVars
<1>4. WakeState'
  BY <1>2 DEF WaitEnds, WakeState
<1>5. BatchState'
  BY DEF WaitEnds, BatchState, batchVars, LoopFrame, readerVars, n_tokens, Awaits
<1> QED BY <1>2, <1>3, <1>4, <1>5

LEMMA SleepStep == IInv /\ Sleep => IInv'
<1> SUFFICES ASSUME IInv, Sleep PROVE IInv'
  OBVIOUS
<1> USE DEF IInv
<1>1. Releases({})
  BY DEF Sleep, batchVars, Releases
<1>2. CoreState' /\ Processing' = Processing
  BY <1>1, QuietStep DEF Sleep
<1>3. TypeOK'
  BY DEF Sleep, TypeOK, LoopFrame, readerVars, sleepVars, taskVars, batchVars
<1>4. WakeState'
  <2>1. ~HasNext(queue_tasks)
    BY ElementsNone DEF Sleep, HasNext
  <2> QED BY <1>2, <2>1 DEF Sleep, WakeState
<1>5. BatchState'
  BY DEF Sleep, BatchState, batchVars, LoopFrame, readerVars, n_tokens, Awaits
<1> QED BY <1>2, <1>3, <1>4, <1>5

LEMMA WakeStep == IInv /\ Wake => IInv'
<1> SUFFICES ASSUME IInv, Wake PROVE IInv'
  OBVIOUS
<1> USE DEF IInv
<1>1. Processing = {}
  BY DEF Wake, WakeState
<1>2. \A s \in SlotIds : slots[s].state = "IDLE" /\ slots[s].task = NoTask
  BY <1>1 DEF Processing, is_processing, CoreState, SlotState
<1>3. NewSlot \in SlotType /\ NewSlot.state = "IDLE" /\ NewSlot.task = NoTask
  BY DEF NewSlot, SlotType
<1>4. /\ slots' \in [SlotIds -> SlotType]
      /\ \A s \in SlotIds : slots'[s].state = "IDLE" /\ slots'[s].task = NoTask
  <2>1. CASE UNCHANGED slots
    BY <1>2, <2>1 DEF TypeOK, SlotType
  <2>2. CASE slots' = [s \in SlotIds |-> NewSlot]
    <3> HIDE DEF NewSlot
    <3> QED BY <1>3, <2>2
  <2> QED BY <2>1, <2>2 DEF Wake
<1>5. Releases({})
  BY <1>2, <1>4 DEF Releases
<1>6. CoreState' /\ Processing' = Processing
  BY <1>5, QuietStep DEF Wake
<1>7. TypeOK'
  BY <1>4 DEF Wake, TypeOK, LoopFrame, readerVars, sleepVars, taskVars, batchVars, SlotType
<1>8. WakeState'
  BY <1>6 DEF Wake, WakeState
<1>9. BatchState'
  BY <1>4 DEF Wake, BatchState, batchVars
<1> QED BY <1>6, <1>7, <1>8, <1>9

(* A task goes from the front of the queue into the main loop's hand; a    *)
(* cancel in the hand is as good as one in the queue.                      *)
LEMMA TakeStep == IInv /\ Take => IInv'
<1> SUFFICES ASSUME IInv, Take PROVE IInv'
  OBVIOUS
<1>1. /\ loop = "take" /\ LoopFrame
      /\ UNCHANGED <<sleepVars, queue_tasks_deferred, woken, lost, queue_results, slots, batchVars,
                     orphans>>
  BY DEF Take
<1>2. TypeOK /\ CoreState /\ WakeState /\ BatchState
  BY DEF IInv
<1>3. /\ UNCHANGED <<waiting_task_ids, orphans, slots, queue_results, batch, view, cursor,
                     queue_tasks_deferred, woken, lost>>
      /\ loop' \in {"task", "update", "ended"}
  BY <1>1 DEF LoopFrame, batchVars, Take
<1>4. /\ Processing' = Processing /\ InSlots' = InSlots /\ Deferred' = Deferred /\ InHand = {}
      /\ \A t : TypeOf(t)' = TypeOf(t) /\ IdSlot(t)' = IdSlot(t)
      /\ \A s : n_tokens(s)' = n_tokens(s)
  BY <1>1, <1>3 DEF Processing, is_processing, InSlots, Deferred, InHand, LoopFrame, readerVars,
     TypeOf, IdSlot, IsChild, n_tokens
<1>5. WakeState' /\ BatchState' /\ SlotState' /\ KindState' /\ DeferredHasWaker'
  <2>1. WakeState'
    BY <1>3 DEF WakeState
  <2>2. BatchState'
    BY <1>1, <1>2, <1>3, <1>4 DEF BatchState, Awaits
  <2>3. SlotState' /\ KindState'
    BY <1>2, <1>3, <1>4 DEF CoreState, SlotState, KindState
  <2>4. DeferredHasWaker'
    BY <1>2, <1>3, <1>4 DEF CoreState, DeferredHasWaker
  <2> QED BY <2>1, <2>2, <2>3, <2>4
<1>6. CASE running /\ queue_tasks # <<>>
  <2>1. loop' = "task" /\ hand' = Head(queue_tasks) /\ queue_tasks' = Tail(queue_tasks)
    BY <1>6 DEF Take
  <2>2. queue_tasks \in Seq(Entry) /\ Once(queue_tasks, RunEntry)
    BY <1>2 DEF TypeOK, CoreState, PlaceState
  <2>3. /\ hand' \in Entry /\ queue_tasks' \in Seq(Entry)
        /\ Elements(queue_tasks) = {hand'} \cup Elements(queue_tasks')
        /\ Once(queue_tasks', RunEntry)
        /\ hand' \in RunEntry => hand' \notin Elements(queue_tasks')
    BY <1>6, <2>1, <2>2, ElementsTail
  <2>4. Queued' = Queued \ InHand' /\ InHand' \subseteq Queued /\ Live' \subseteq Live
    <3>1. InHand' = {t \in Task : hand' = Run(t)}
      BY <2>1 DEF InHand
    <3>2. \A t \in Task : hand' = Run(t) => Run(t) \notin Elements(queue_tasks')
      BY <2>3 DEF RunEntry
    <3>3. Queued' = Queued \ InHand' /\ InHand' \subseteq Queued
      BY <2>3, <3>1, <3>2 DEF Queued, Runs
    <3> QED BY <1>4, <3>3 DEF Live
  <2>5. ReaderState'
    BY <1>1, <1>2, <2>4, LoopReader DEF CoreState
  <2>6. ResultState'
    BY <1>1, <1>2, <2>4, LoopQuiet DEF CoreState
  <2>7. PlaceState'
    <3>1. /\ Once(queue_tasks_deferred', Task)
          /\ \A s, u \in Processing' : slots'[s].task = slots'[u].task => s = u
      BY <1>2, <1>3, <1>4 DEF CoreState, PlaceState
    <3>2. /\ Queued \cap Deferred = {} /\ Queued \cap InSlots = {} /\ Deferred \cap InSlots = {}
      BY <1>2 DEF CoreState, PlaceState
    <3> QED BY <1>4, <2>3, <2>4, <3>1, <3>2 DEF PlaceState
  <2>8. ServeState'
    <3>1. \A t \in Cancels(queue_tasks) : t \in Cancels(queue_tasks') \/ hand' = Cancel(t)
      BY <2>3 DEF Cancels
    <3>2. \A t \in InSlots : t \in waiting_task_ids \cup orphans \cup Cancels(queue_tasks)
      BY <1>1, <1>2 DEF CoreState, ServeState
    <3>3. Queued \cup Deferred \subseteq waiting_task_ids \cup orphans
      BY <1>2 DEF CoreState, ServeState
    <3> QED BY <1>3, <1>4, <2>1, <2>4, <3>1, <3>2, <3>3 DEF ServeState
  <2>9. TypeOK'
    BY <1>1, <1>2, <2>1, <2>3 DEF TypeOK, LoopFrame, readerVars, sleepVars, batchVars
  <2> QED BY <1>5, <2>5, <2>6, <2>7, <2>8, <2>9 DEF IInv, CoreState
<1>7. CASE ~(running /\ queue_tasks # <<>>)
  <2>1. loop' \in {"update", "ended"} /\ UNCHANGED <<hand, queue_tasks>>
    BY <1>7 DEF Take
  <2>2. Releases({}) /\ UNCHANGED <<taskVars, queue_results, orphans>>
    BY <1>1, <2>1 DEF Releases, taskVars
  <2>3. CoreState'
    BY <1>1, <1>2, <2>1, <2>2, QuietStep
  <2>4. TypeOK'
    BY <1>1, <1>2, <2>1 DEF TypeOK, LoopFrame, readerVars, sleepVars, batchVars
  <2> QED BY <1>5, <2>3, <2>4 DEF IInv
<1> QED BY <1>6, <1>7

(* The main loop has something else than a task in its hand.               *)
LEMMA TaskFrame ==
    ASSUME IInv, process_single_task, slots' \in [SlotIds -> SlotType],
           queue_tasks' \in Seq(Entry), queue_tasks_deferred' \in Seq(Task),
           woken' \subseteq Task, lost' \in BOOLEAN, queue_results' \in Seq(ResultEntry),
           orphans' \subseteq Task,
           \A s \in SlotIds : \/ slots'[s].state \in {"IDLE", "STARTED"}
                              \/ slots'[s] = slots[s]
    PROVE  TypeOK' /\ WakeState' /\ BatchState'
<1>1. /\ loop = "task" /\ loop' = "take" /\ hand' = NoTask /\ LoopFrame
      /\ UNCHANGED <<sleepVars, batchVars>>
  BY DEF process_single_task
<1>2. TypeOK /\ BatchState
  BY DEF IInv
<1>3. TypeOK'
  BY <1>1, <1>2 DEF TypeOK, LoopFrame, readerVars, sleepVars, batchVars, SlotType, ResultEntry
<1>4. WakeState'
  BY <1>1 DEF WakeState
<1>5. BatchState'
  <2>1. batch' = <<>> /\ batch = <<>> /\ view' = view /\ view = [i |-> 0, n |-> NBatch]
    BY <1>1, <1>2 DEF BatchState, batchVars
  <2>2. view'.i <= Len(batch') /\ view.i = 0 /\ Len(batch) = 0
    BY <2>1
  <2>3. \A s \in SlotIds : ~Awaits(s)
    BY <2>2 DEF Awaits
  <2>4. \A s \in SlotIds : slots'[s] = slots[s] => n_tokens(s)' = n_tokens(s)
    BY <1>1 DEF n_tokens, LoopFrame, readerVars
  <2>5. ASSUME NEW s \in SlotIds
        PROVE  /\ slots'[s].state = "PROCESSING_PROMPT" => slots'[s].prompt < n_tokens(s)'
               /\ slots'[s].state # "DONE_PROMPT"
               /\ slots'[s].state = "GENERATING" => slots'[s].i_batch = -1
    <3>1. CASE slots'[s].state \in {"IDLE", "STARTED"}
      BY <3>1
    <3>2. CASE slots'[s] = slots[s]
      BY <1>2, <2>3, <2>4, <3>2 DEF BatchState
    <3> QED BY <3>1, <3>2
  <2> QED BY <1>1, <2>1, <2>2, <2>5 DEF BatchState
<1> QED BY <1>3, <1>4, <1>5

LEMMA CancelStep ==
    ASSUME IInv, process_single_task, hand.op = "cancel"
    PROVE  IInv'
<1>1. /\ loop = "task" /\ loop' = "take" /\ hand' = NoTask /\ LoopFrame
      /\ CancelTask(hand.task)
  BY DEF process_single_task
<1>2. TypeOK /\ CoreState /\ slots \in [SlotIds -> SlotType]
  BY DEF IInv, TypeOK, SlotType
<1>3. PICK t \in Task : hand = Cancel(t) /\ hand.task = t
  BY <1>1, <1>2, Entries DEF TypeOK
<1>4. PICK R \in SUBSET SlotIds : R = {s \in SlotIds : slots[s].task = t}
  OBVIOUS
<1>5. /\ slots' = [s \in SlotIds |-> IF s \in R THEN released(slots[s]) ELSE slots[s]]
      /\ pop_deferred_tasks(Cardinality(R), queue_tasks)
      /\ UNCHANGED <<queue_results, orphans>>
  BY <1>1, <1>3, <1>4 DEF CancelTask
<1>6. ASSUME NEW s \in SlotIds
      PROVE  /\ slots'[s] \in SlotType
             /\ s \in R => slots'[s].state = "IDLE" /\ slots'[s].task = NoTask
             /\ s \notin R => slots'[s] = slots[s]
  <2>1. CASE s \in R
    BY <1>2, <1>5, <2>1, ReleasedType
  <2>2. CASE s \notin R
    BY <1>2, <1>5, <2>2
  <2> QED BY <2>1, <2>2
<1>7. slots' \in [SlotIds -> SlotType]
  <2>1. slots' = [s \in SlotIds |-> slots'[s]]
    BY <1>5
  <2> QED BY <1>6, <2>1
<1>8. Releases(R)
  BY <1>6 DEF Releases
<1>9. /\ Fetches(R)
      /\ queue_tasks' \in Seq(Entry) /\ queue_tasks_deferred' \in Seq(Task)
      /\ woken' \subseteq Task /\ lost' \in BOOLEAN
  <2>1. IsFiniteSet(R)
    BY SlotIdsFacts
  <2>2. Cardinality(R) \in Nat /\ (Cardinality(R) = 0 <=> R = {})
    BY <2>1, FS_CardinalityType, FS_EmptySet
  <2>3. queue_tasks \in Seq(Entry) /\ Once(queue_tasks, RunEntry) /\ Runs(queue_tasks) = Queued
    BY <1>2 DEF TypeOK, CoreState, PlaceState, Queued
  <2> QED BY <1>2, <1>5, <2>2, <2>3, FetchesAfterPop DEF CoreState
<1>10. CoreState'
  <2>1. InHand = {}
    BY <1>3, Entries DEF InHand
  <2>2. \A u \in Task, s \in SlotIds :
           loop = "task" /\ hand = Cancel(u) /\ slots[s].task = u => s \in R
    BY <1>3, <1>4, Entries
  <2> QED BY <1>1, <1>2, <1>5, <1>8, <1>9, <2>1, <2>2, LoopStep
<1>11. TypeOK' /\ WakeState' /\ BatchState'
  <2>1. queue_results' \in Seq(ResultEntry) /\ orphans' \subseteq Task
    BY <1>2, <1>5 DEF TypeOK, ResultEntry
  <2>2. \A s \in SlotIds : \/ slots'[s].state \in {"IDLE", "STARTED"}
                           \/ slots'[s] = slots[s]
    BY <1>6
  <2> QED BY <1>7, <1>9, <2>1, <2>2, TaskFrame
<1> QED BY <1>10, <1>11 DEF IInv

LEMMA NextResponseStep ==
    ASSUME IInv, process_single_task, hand.op = "next"
    PROVE  IInv'
<1>1. /\ loop = "task" /\ loop' = "take" /\ hand' = NoTask /\ LoopFrame
      /\ UNCHANGED <<slots, taskVars, queue_results, orphans>>
  BY DEF process_single_task
<1>2. TypeOK /\ CoreState
  BY DEF IInv
<1>3. hand = NextResponse
  BY <1>1, <1>2, Entries DEF TypeOK
<1>4. CoreState'
  <2>1. InHand = {} /\ \A u \in Task : hand # Cancel(u)
    BY <1>3, Entries DEF InHand
  <2>2. Releases({}) /\ Fetches({})
    BY <1>1, <1>2, FetchesNothing DEF Releases, CoreState
  <2> QED BY <1>1, <1>2, <2>1, <2>2, LoopStep
<1>5. TypeOK' /\ WakeState' /\ BatchState'
  BY <1>1, <1>2, TaskFrame DEF TypeOK, taskVars, SlotType, ResultEntry
<1> QED BY <1>4, <1>5 DEF IInv

LEMMA HandFacts ==
    ASSUME IInv, loop = "task", NEW t \in Task, hand = Run(t)
    PROVE  /\ InHand = {t} /\ t \in Live /\ t \notin Queued \cup Deferred \cup InSlots
           /\ t \in waiting_task_ids \cup orphans \cup Cancels(queue_tasks)
           /\ TypeOf(t) \in {"completion", "embedding", "control", "action"}
           /\ IdSlot(t) \in -1 .. NSlots
           /\ \A u \in Task : hand # Cancel(u)
<1>1. TypeOK /\ CoreState
  BY DEF IInv
<1>2. InHand = {t} /\ \A u \in Task : hand # Cancel(u)
  BY Entries DEF InHand
<1>3. t \in Live /\ t \notin Queued \cup Deferred \cup InSlots
  BY <1>1, <1>2 DEF Live, CoreState, PlaceState
<1>4. t \in waiting_task_ids \cup orphans \cup Cancels(queue_tasks)
  BY <1>1, <1>2 DEF CoreState, ServeState
<1>5. PICK r \in Requests : r = t[1] /\ t \in TasksOf(r)
  <2>1. t[1] \in Requests
    BY DEF Task
  <2>2. t \in TasksOf(t[1])
    BY <1>1, <1>3 DEF CoreState, ReaderState
  <2> QED BY <2>1, <2>2
<1>6. shape[r] \in Shapes[r]
  BY <1>1, <1>5 DEF TasksOf, TypeOK
<1>7. /\ shape[r].type \in {"completion", "embedding", "control", "action"}
      /\ shape[r].id_slot \in -1 .. NSlots
  BY <1>6, QueueAssumption DEF QueueAssumption
<1>8. -1 \in -1 .. NSlots
  BY QueueAssumption DEF QueueAssumption
<1> QED BY <1>2, <1>3, <1>4, <1>5, <1>7, <1>8 DEF TypeOf, IdSlot

LEMMA AnswerStep ==
    ASSUME IInv, process_single_task, NEW t \in Task, hand = Run(t),
           NEW k \in {"final", "error"}, Answer(t, k),
           slots' \in [SlotIds -> SlotType],
           \A s \in SlotIds : \/ slots'[s] = slots[s]
                              \/ /\ slots'[s].state = "IDLE" /\ slots[s].state = "IDLE"
                                 /\ slots'[s].task = slots[s].task
    PROVE  IInv'
<1>1. /\ loop = "task" /\ loop' = "take" /\ hand' = NoTask /\ LoopFrame
      /\ send(<<Result(t, k)>>) /\ NoSlotFor(t)
      /\ UNCHANGED <<queue_tasks, queue_tasks_deferred, orphans>>
  BY DEF process_single_task, Answer
<1>2. TypeOK /\ CoreState
  BY DEF IInv
<1>3. /\ InHand = {t} /\ t \in Live /\ t \notin Queued \cup Deferred \cup InSlots
      /\ \A u \in Task : hand # Cancel(u)
  BY <1>1, HandFacts
<1>4. /\ Queued' = Queued /\ Deferred' = Deferred /\ InHand' = {}
      /\ \A u : TypeOf(u)' = TypeOf(u) /\ IdSlot(u)' = IdSlot(u)
  BY <1>1 DEF Queued, Deferred, InHand, LoopFrame, readerVars, TypeOf, IdSlot, IsChild
<1>5. SlotState' /\ Processing' = Processing /\ InSlots' = InSlots
  <2>1. \A s \in SlotIds : /\ slots'[s].task = slots[s].task
                           /\ slots'[s].state = "IDLE" <=> slots[s].state = "IDLE"
    OBVIOUS
  <2>2. SlotState' /\ Processing' = Processing
    BY <1>2, <2>1 DEF CoreState, SlotState, Processing, is_processing
  <2>3. \A s \in Processing : slots'[s].task = slots[s].task
    BY <2>1 DEF Processing
  <2> QED BY <2>2, <2>3 DEF InSlots
<1>6. Live' \subseteq Live /\ t \notin Live'
  BY <1>3, <1>4, <1>5 DEF Live
<1>7. ReaderState'
  BY <1>1, <1>2, <1>6, LoopReader DEF CoreState
<1>8. KindState'
  BY <1>2, <1>4, <1>5 DEF CoreState, KindState
<1>9. PlaceState'
  <2>1. \A s \in Processing : slots'[s].task = slots[s].task
    BY DEF Processing
  <2>2. /\ Once(queue_tasks', RunEntry) /\ Once(queue_tasks_deferred', Task)
        /\ \A s, u \in Processing' : slots'[s].task = slots'[u].task => s = u
    BY <1>1, <1>2, <1>5, <2>1 DEF CoreState, PlaceState
  <2> QED BY <1>2, <1>4, <1>5, <2>2 DEF CoreState, PlaceState
<1>10. /\ <<Result(t, k)>> \in Seq(ResultEntry)
       /\ LastIsLast(<<Result(t, k)>>)
       /\ Told(<<Result(t, k)>>) = {t} /\ Ends(<<Result(t, k)>>) = {t}
  BY OneResult
<1>11. ResultState'
  BY <1>1, <1>2, <1>3, <1>6, <1>10, LoopResults DEF CoreState
<1>12. queue_results' \in Seq(ResultEntry)
  <2>1. /\ LastIsLast(queue_results) /\ Ends(queue_results) \cap Live = {}
        /\ Told(queue_results) \subseteq waiting_task_ids
    BY <1>2 DEF CoreState, ResultState
  <2>2. Ends(queue_results) \cap Told(<<Result(t, k)>>) = {}
    BY <1>3, <1>10, <2>1
  <2> QED BY <1>1, <1>2, <1>10, <2>1, <2>2, SendProperties
<1>13. ServeState'
  <2>1. UNCHANGED <<waiting_task_ids, orphans, queue_tasks>>
    BY <1>1 DEF LoopFrame
  <2>3. ServeState /\ InSlots \subseteq Task
    BY <1>2, InSlotsFacts DEF CoreState
  <2>4. \A u \in InSlots : u \in waiting_task_ids \cup orphans \cup Cancels(queue_tasks)
    BY <1>3, <2>3 DEF ServeState
  <2>5. Queued \cup Deferred \subseteq waiting_task_ids \cup orphans
    BY <2>3 DEF ServeState
  <2> QED BY <1>1, <1>4, <1>5, <2>1, <2>4, <2>5 DEF ServeState
<1>14. woken' = woken \ {t} /\ lost' = (lost \/ t \in woken)
  BY <1>1 DEF NoSlotFor
<1>15. DeferredHasWaker'
  BY <1>1, <1>2, <1>4, <1>5, <1>14 DEF CoreState, DeferredHasWaker
<1>16. TypeOK' /\ WakeState' /\ BatchState'
  <2>1. /\ queue_tasks' \in Seq(Entry) /\ queue_tasks_deferred' \in Seq(Task)
        /\ woken' \subseteq Task /\ lost' \in BOOLEAN /\ orphans' \subseteq Task
    BY <1>1, <1>2, <1>14 DEF TypeOK
  <2> QED BY <1>12, <2>1, TaskFrame
<1> QED BY <1>5, <1>7, <1>8, <1>9, <1>11, <1>13, <1>15, <1>16 DEF IInv, CoreState

LEMMA DeferStep ==
    ASSUME IInv, process_single_task, NEW t \in Task, hand = Run(t), Defer(t),
           IdSlot(t) < NSlots => Processing # {}
    PROVE  IInv'
<1>1. /\ loop = "task" /\ loop' = "take" /\ hand' = NoTask /\ LoopFrame
      /\ queue_tasks_deferred' = Append(queue_tasks_deferred, t)
      /\ NoSlotFor(t)
      /\ UNCHANGED <<queue_tasks, slots, queue_results>>
      /\ orphans' = IF Cancelled(t) THEN orphans \cup {t} ELSE orphans
  BY DEF process_single_task, Defer, defer
<1>2. TypeOK /\ CoreState /\ slots \in [SlotIds -> SlotType]
  BY DEF IInv, TypeOK, SlotType
<1>3. /\ InHand = {t} /\ t \in Live /\ t \notin Queued \cup Deferred \cup InSlots
      /\ t \in waiting_task_ids \cup orphans \cup Cancels(queue_tasks)
      /\ \A u \in Task : hand # Cancel(u)
  BY <1>1, HandFacts
<1>4. /\ queue_tasks_deferred' \in Seq(Task)
      /\ Deferred' = Deferred \cup {t}
      /\ Once(queue_tasks_deferred', Task)
  <2>1. queue_tasks_deferred \in Seq(Task) /\ Once(queue_tasks_deferred, Task)
    BY <1>2 DEF TypeOK, CoreState, PlaceState
  <2>2. /\ <<t>> \in Seq(Task) /\ Elements(<<t>>) = {t} /\ Once(<<t>>, Task)
    BY ElementsOne
  <2>3. queue_tasks_deferred' = queue_tasks_deferred \o <<t>>
    BY <1>1, <2>1, AppendIsConcat
  <2>4. /\ queue_tasks_deferred \o <<t>> \in Seq(Task)
        /\ Elements(queue_tasks_deferred \o <<t>>) = Elements(queue_tasks_deferred) \cup Elements(<<t>>)
        /\ Once(queue_tasks_deferred \o <<t>>, Task) <=>
              Once(queue_tasks_deferred, Task) /\ Once(<<t>>, Task)
              /\ Elements(queue_tasks_deferred) \cap Elements(<<t>>) \cap Task = {}
    BY <2>1, <2>2, ElementsConcat
  <2> QED BY <1>3, <2>1, <2>2, <2>3, <2>4 DEF Deferred
<1>5. /\ Queued' = Queued /\ InHand' = {} /\ Processing' = Processing /\ InSlots' = InSlots
      /\ \A u : TypeOf(u)' = TypeOf(u) /\ IdSlot(u)' = IdSlot(u)
  BY <1>1 DEF Queued, InHand, Processing, is_processing, InSlots, LoopFrame, readerVars, TypeOf,
     IdSlot, IsChild
<1>6. Live' \subseteq Live
  BY <1>3, <1>4, <1>5 DEF Live
<1>7. ReaderState' /\ ResultState'
  BY <1>1, <1>2, <1>6, LoopReader, LoopQuiet DEF CoreState
<1>8. SlotState' /\ KindState'
  BY <1>1, <1>2, <1>5 DEF CoreState, SlotState, KindState
<1>9. PlaceState'
  <2>1. /\ Once(queue_tasks', RunEntry)
        /\ \A s, u \in Processing' : slots'[s].task = slots'[u].task => s = u
    BY <1>1, <1>2, <1>5 DEF CoreState, PlaceState
  <2> QED BY <1>2, <1>3, <1>4, <1>5, <2>1 DEF CoreState, PlaceState
<1>10. ServeState'
  <2>1. UNCHANGED <<waiting_task_ids, queue_tasks>> /\ orphans \subseteq orphans'
    BY <1>1 DEF LoopFrame
  <2>2. t \in waiting_task_ids \cup orphans'
    <3>1. t \in Cancels(queue_tasks) => Cancelled(t)
      <4>1. DOMAIN queue_tasks = 1 .. Len(queue_tasks)
        BY <1>2 DEF TypeOK
      <4> QED BY <4>1 DEF Cancels, Elements, Cancelled
    <3> QED BY <1>1, <1>3, <3>1
  <2>3. ServeState /\ InSlots \subseteq Task
    BY <1>2, InSlotsFacts DEF CoreState
  <2>4. \A u \in InSlots : u \in waiting_task_ids \cup orphans \cup Cancels(queue_tasks)
    BY <1>3, <2>3 DEF ServeState
  <2>5. Queued \cup Deferred \subseteq waiting_task_ids \cup orphans
    BY <2>3 DEF ServeState
  <2> QED BY <1>1, <1>4, <1>5, <2>1, <2>2, <2>4, <2>5 DEF ServeState
<1>11. woken' = woken \ {t} /\ lost' = (lost \/ t \in woken)
  BY <1>1 DEF NoSlotFor
<1>12. DeferredHasWaker'
  <2> SUFFICES ASSUME NEW u \in Range(queue_tasks_deferred'), IdSlot(u)' < NSlots,
                      Processing' = {}, woken' = {}
               PROVE  lost'
    BY DEF DeferredHasWaker
  <2>1. \A d \in Seq(Task) : Range(d) = Elements(d)
    BY DEF Range, Elements
  <2>2. u \in Deferred \cup {t} /\ IdSlot(u) < NSlots
    BY <1>4, <1>5, <2>1 DEF Deferred
  <2>3. u \in Range(queue_tasks_deferred)
    BY <1>2, <1>5, <2>1, <2>2 DEF TypeOK, Deferred
  <2> QED BY <1>2, <1>5, <1>11, <2>2, <2>3 DEF CoreState, DeferredHasWaker
<1>13. TypeOK' /\ WakeState' /\ BatchState'
  <2>1. /\ queue_tasks' \in Seq(Entry) /\ queue_results' \in Seq(ResultEntry)
        /\ woken' \subseteq Task /\ lost' \in BOOLEAN /\ orphans' \subseteq Task
        /\ slots' \in [SlotIds -> SlotType]
    BY <1>1, <1>2, <1>11 DEF TypeOK, ResultEntry
  <2> QED BY <1>1, <1>4, <2>1, TaskFrame
<1> QED BY <1>7, <1>8, <1>9, <1>10, <1>12, <1>13 DEF IInv, CoreState

LEMMA LaunchStep ==
    ASSUME IInv, process_single_task, NEW t \in Task, hand = Run(t),
           NEW s \in SlotIds \ Processing, launch_slot_with_task(s, t),
           TypeOf(t) \in {"completion", "embedding"}
    PROVE  IInv'
<1>1. /\ loop = "task" /\ loop' = "take" /\ hand' = NoTask /\ LoopFrame
      /\ slots' = [slots EXCEPT ![s].task = t, ![s].state = "STARTED"]
      /\ woken' = woken \ {t}
      /\ UNCHANGED <<queue_tasks, queue_tasks_deferred, queue_results, lost, orphans>>
  <2>1. ~is_child(s)
    BY DEF is_child, Processing
  <2> QED BY <2>1 DEF process_single_task, launch_slot_with_task
<1>2. TypeOK /\ CoreState /\ slots \in [SlotIds -> SlotType]
  BY DEF IInv, TypeOK, SlotType
<1>3. /\ InHand = {t} /\ t \in Live /\ t \notin Queued \cup Deferred \cup InSlots
      /\ t \in waiting_task_ids \cup orphans \cup Cancels(queue_tasks)
      /\ \A u \in Task : hand # Cancel(u)
  BY <1>1, HandFacts
<1>4. /\ slots' \in [SlotIds -> SlotType]
      /\ slots'[s].task = t /\ slots'[s].state = "STARTED"
      /\ \A o \in SlotIds \ {s} : slots'[o] = slots[o]
  BY <1>1, <1>2 DEF SlotType
<1>5. t # NoTask
  BY QueueAssumption DEF QueueAssumption
<1>6. /\ Queued' = Queued /\ Deferred' = Deferred /\ InHand' = {}
      /\ \A u : TypeOf(u)' = TypeOf(u) /\ IdSlot(u)' = IdSlot(u)
  BY <1>1 DEF Queued, Deferred, InHand, LoopFrame, readerVars, TypeOf, IdSlot, IsChild
<1>7. Processing' = Processing \cup {s} /\ InSlots' = InSlots \cup {t}
  <2>1. Processing' = Processing \cup {s}
    BY <1>4 DEF Processing, is_processing
  <2>2. \A o \in Processing : slots'[o].task = slots[o].task
    BY <1>4 DEF Processing
  <2> QED BY <1>4, <2>1, <2>2 DEF InSlots
<1>8. Live' \subseteq Live
  BY <1>3, <1>6, <1>7 DEF Live
<1>9. ReaderState' /\ ResultState'
  BY <1>1, <1>2, <1>8, LoopReader, LoopQuiet DEF CoreState
<1>10. SlotState' /\ KindState'
  BY <1>2, <1>4, <1>5, <1>6, <1>7 DEF CoreState, SlotState, KindState
<1>11. PlaceState'
  <2>1. ASSUME NEW o \in Processing', NEW u \in Processing', slots'[o].task = slots'[u].task
        PROVE  o = u
    <3>1. \A v \in Processing : slots'[v].task = slots[v].task /\ slots[v].task \in InSlots
      BY <1>4 DEF Processing, InSlots
    <3>2. \A v \in Processing : slots'[v].task # t
      BY <1>3, <3>1
    <3> QED BY <1>2, <1>4, <1>7, <2>1, <3>1, <3>2 DEF CoreState, PlaceState
  <2>2. Once(queue_tasks', RunEntry) /\ Once(queue_tasks_deferred', Task)
    BY <1>1, <1>2 DEF CoreState, PlaceState
  <2> QED BY <1>2, <1>3, <1>6, <1>7, <2>1, <2>2 DEF CoreState, PlaceState
<1>12. ServeState'
  <2>1. UNCHANGED <<waiting_task_ids, queue_tasks, orphans>>
    BY <1>1 DEF LoopFrame
  <2>3. ServeState /\ InSlots \subseteq Task
    BY <1>2, InSlotsFacts DEF CoreState
  <2>4. \A u \in InSlots : u \in waiting_task_ids \cup orphans \cup Cancels(queue_tasks)
    BY <1>3, <2>3 DEF ServeState
  <2>5. Queued \cup Deferred \subseteq waiting_task_ids \cup orphans
    BY <2>3 DEF ServeState
  <2> QED BY <1>1, <1>3, <1>6, <1>7, <2>1, <2>4, <2>5 DEF ServeState
<1>13. DeferredHasWaker'
  BY <1>7 DEF DeferredHasWaker
<1>14. TypeOK' /\ WakeState' /\ BatchState'
  <2>1. /\ queue_tasks' \in Seq(Entry) /\ queue_results' \in Seq(ResultEntry)
        /\ queue_tasks_deferred' \in Seq(Task)
        /\ woken' \subseteq Task /\ lost' \in BOOLEAN /\ orphans' \subseteq Task
    BY <1>1, <1>2 DEF TypeOK, ResultEntry
  <2>2. \A o \in SlotIds : slots'[o].state \in {"IDLE", "STARTED"} \/ slots'[o] = slots[o]
    BY <1>4
  <2> QED BY <1>4, <2>1, <2>2, TaskFrame
<1> QED BY <1>9, <1>10, <1>11, <1>12, <1>13, <1>14 DEF IInv, CoreState

LEMMA TaskStep == IInv /\ process_single_task => IInv'
<1> SUFFICES ASSUME IInv, process_single_task PROVE IInv'
  OBVIOUS
<1>1. loop = "task" /\ hand \in Entry /\ slots \in [SlotIds -> SlotType]
  BY DEF IInv, TypeOK, process_single_task, SlotType
<1>2. CASE hand.op = "cancel"
  BY <1>2, CancelStep
<1>3. CASE hand.op = "next"
  BY <1>3, NextResponseStep
<1>4. CASE hand.op = "run"
  <2>1. PICK t \in Task : hand = Run(t) /\ hand.task = t
    BY <1>1, <1>4, Entries
  <2>2. /\ TypeOf(t) \in {"completion", "embedding", "control", "action"}
        /\ IdSlot(t) \in -1 .. NSlots
    BY <1>1, <2>1, HandFacts
  <2>3. CASE TypeOf(t) = "control"
    <3>1. Answer(t, "final") /\ UNCHANGED slots
      BY <1>4, <2>1, <2>3 DEF process_single_task
    <3> QED BY <1>1, <2>1, <3>1, AnswerStep
  <2>4. CASE TypeOf(t) = "action"
    <3>1. ActOnSlot(t)
      BY <1>4, <2>1, <2>4 DEF process_single_task
    <3>2. CASE Answer(t, "error") /\ UNCHANGED slots
      BY <1>1, <2>1, <3>2, AnswerStep
    <3>3. CASE IdSlot(t) \in Processing /\ Defer(t)
      BY <2>1, <3>3, DeferStep
    <3>4. ASSUME IdSlot(t) \in SlotIds \ Processing,
                 NEW p \in {0, slots[IdSlot(t)].prompt},
                 slots' = [slots EXCEPT ![IdSlot(t)].prompt = p],
                 Answer(t, "final") \/ Answer(t, "error")
          PROVE  IInv'
      <4>1. PICK s \in SlotIds \ Processing : s = IdSlot(t)
        BY <3>4
      <4>2. slots' = [slots EXCEPT ![s].prompt = p] /\ p \in Nat /\ slots[s].state = "IDLE"
        BY <1>1, <3>4, <4>1 DEF SlotType, Processing, is_processing
      <4>3. /\ slots' \in [SlotIds -> SlotType]
            /\ slots'[s].state = "IDLE" /\ slots'[s].task = slots[s].task
            /\ \A o \in SlotIds \ {s} : slots'[o] = slots[o]
        BY <1>1, <4>2 DEF SlotType
      <4> QED BY <2>1, <3>4, <4>2, <4>3, AnswerStep
    <3> QED BY <3>1, <3>2, <3>3, <3>4 DEF ActOnSlot
  <2>5. CASE TypeOf(t) \in {"completion", "embedding"}
    <3>1. RunTask(t)
      BY <1>4, <2>1, <2>5 DEF process_single_task
    <3>2. CASE Candidates(t) = {} /\ Defer(t)
      <4>1. 0 \in SlotIds /\ NSlots \in Nat
        BY SlotIdsFacts, QueueAssumption DEF QueueAssumption
      <4>2. IdSlot(t) < NSlots => Processing # {}
        BY <2>2, <3>2, <4>1 DEF Candidates, SlotIds
      <4> QED BY <2>1, <3>2, <4>2, DeferStep
    <3>3. ASSUME NEW s \in Candidates(t), launch_slot_with_task(s, t)
          PROVE  IInv'
      <4>1. s \in SlotIds \ Processing
        BY DEF Candidates
      <4> QED BY <2>1, <2>5, <3>3, <4>1, LaunchStep
    <3>4. CASE Answer(t, "error") /\ UNCHANGED slots
      BY <1>1, <2>1, <3>4, AnswerStep
    <3> QED BY <3>1, <3>2, <3>3, <3>4 DEF RunTask
  <2> QED BY <2>2, <2>3, <2>4, <2>5
<1> QED BY <1>1, <1>2, <1>3, <1>4, Entries

-----------------------------------------------------------------------------
(* Steps of the threads of the requests; the main loop and the slots do    *)
(* not change.                                                             *)
ThreadFrame == UNCHANGED <<loop, hand, slots, batchVars, orphans>>

LEMMA ThreadFacts ==
    ASSUME IInv, ThreadFrame, \A t \in InSlots : shape'[t[1]] = shape[t[1]]
    PROVE  /\ SlotState' /\ KindState' /\ BatchState'
           /\ Processing' = Processing /\ InSlots' = InSlots /\ InHand' = InHand
<1>1. UNCHANGED <<loop, hand, slots, cursor, batch, kind, view, orphans>>
  BY DEF ThreadFrame, batchVars
<1>2. Processing' = Processing /\ InSlots' = InSlots /\ InHand' = InHand
  BY <1>1 DEF Processing, is_processing, InSlots, InHand
<1>3. SlotState'
  BY <1>1 DEF IInv, CoreState, SlotState
<1>4. KindState'
  BY <1>2 DEF IInv, CoreState, KindState, TypeOf
<1>5. BatchState'
  <2>1. \A s \in SlotIds : slots[s].state # "IDLE" => n_tokens(s)' = n_tokens(s)
    BY <1>1 DEF n_tokens, InSlots, Processing, is_processing
  <2>2. \A s \in SlotIds : Awaits(s)' <=> Awaits(s)
    BY <1>1 DEF Awaits, ViewEnd
  <2>3. (cursor \in ToSample(cursor))' <=> cursor \in ToSample(cursor)
    BY <1>1 DEF ToSample, ViewEnd
  <2> QED BY <1>1, <2>1, <2>2, <2>3 DEF IInv, BatchState
<1> QED BY <1>2, <1>3, <1>4, <1>5

(* A request is on its way to its post: it has no tasks yet.               *)
LEMMA ReaderStep ==
    ASSUME IInv, ThreadFrame, UNCHANGED <<taskVars, resultVars, received>>,
           NEW r \in Requests, reader[r] \in {"idle", "sleeps", "ready"},
           NEW p \in {"sleeps", "ready", "gone"}, reader' = [reader EXCEPT ![r] = p],
           shape'[r] # NoTask, \A q \in Requests \ {r} : shape'[q] = shape[q]
    PROVE  CoreState' /\ WakeState' /\ BatchState'
<1>1. TypeOK /\ CoreState /\ WakeState
  BY DEF IInv
<1>2. /\ UNCHANGED <<queue_tasks, queue_tasks_deferred, woken, lost, queue_results,
                     waiting_task_ids, loop, hand, slots, orphans>>
  BY DEF taskVars, resultVars, ThreadFrame
<1>3. \A t \in Live : t \in Task /\ t[1] \in Requests /\ t[1] # r
  <2>1. Live \subseteq Task
    BY <1>1, InSlotsFacts, ElementsType DEF CoreState, Live, Queued, Runs, Deferred, InHand, TypeOK
  <2>2. \A t \in Live : reader[t[1]] \in {"wait", "gone"}
    BY <1>1 DEF CoreState, ReaderState
  <2> QED BY <2>1, <2>2 DEF Task
<1>4. \A t \in InSlots \cup Deferred : shape'[t[1]] = shape[t[1]]
  BY <1>3 DEF Live
<1>5. /\ SlotState' /\ KindState' /\ BatchState'
      /\ Processing' = Processing /\ InSlots' = InSlots /\ InHand' = InHand
  BY <1>4, ThreadFacts
<1>6. Queued' = Queued /\ Deferred' = Deferred /\ Live' = Live
  BY <1>2, <1>5 DEF Queued, Deferred, Live
<1>7. PlaceState'
  BY <1>1, <1>2, <1>5, <1>6 DEF CoreState, PlaceState
<1>8. ResultState'
  BY <1>1, <1>2, <1>6 DEF CoreState, ResultState, Counted
<1>9. ServeState'
  BY <1>1, <1>2, <1>5, <1>6 DEF CoreState, ServeState
<1>10. DeferredHasWaker'
  <2>1. \A d \in Seq(Task) : Range(d) = Elements(d)
    BY DEF Range, Elements
  <2>2. Range(queue_tasks_deferred) = Deferred
    BY <1>1, <2>1 DEF TypeOK, Deferred
  <2>3. \A t \in Deferred : IdSlot(t)' = IdSlot(t)
    BY <1>4 DEF IdSlot, IsChild, TypeOf
  <2> QED BY <1>1, <1>2, <1>5, <2>2, <2>3 DEF CoreState, DeferredHasWaker
<1>11. ReaderState'
  <2>1. /\ reader'[r] = p /\ p # "idle" /\ p # "wait"
        /\ \A q \in Requests \ {r} : reader'[q] = reader[q] /\ TasksOf(q)' = TasksOf(q)
    BY <1>1 DEF TypeOK, TasksOf
  <2>2. \A q \in Requests : (shape[q] = NoTask <=> reader[q] = "idle")'
    BY <1>1, <2>1 DEF CoreState, ReaderState
  <2>3. Waiting' = Waiting
    <3>1. ASSUME NEW t \in Task
          PROVE  t \in Waiting' <=> t \in Waiting
      <4>1. t[1] \in Requests
        BY DEF Task
      <4> QED BY <2>1, <4>1 DEF Waiting
    <3> QED BY <3>1 DEF Waiting
  <2>4. \A q \in Requests : received'[q] # {} => reader'[q] = "wait"
    BY <1>1, <2>1 DEF CoreState, ReaderState
  <2>5. \A t \in Live : reader'[t[1]] \in {"wait", "gone"} /\ t \in TasksOf(t[1])'
    BY <1>1, <1>3, <2>1 DEF CoreState, ReaderState
  <2> QED BY <1>1, <1>2, <1>6, <2>2, <2>3, <2>4, <2>5 DEF CoreState, ReaderState
<1>12. WakeState'
  BY <1>1, <1>2, <1>5 DEF WakeState, HasNext
<1> QED BY <1>5, <1>7, <1>8, <1>9, <1>10, <1>11, <1>12 DEF CoreState

LEMMA ArriveStep == \A r \in Requests : IInv /\ Arrive(r) /\ ThreadFrame => IInv'
<1> SUFFICES ASSUME NEW r \in Requests, IInv, Arrive(r), ThreadFrame PROVE IInv'
  OBVIOUS
<1>1. PICK sh \in Shapes[r] : shape' = [shape EXCEPT ![r] = sh]
  BY DEF Arrive
<1>2. sh # NoTask /\ sh \in Shapes[r]
  <2>1. sh \in UNION {Shapes[q] : q \in Requests}
    OBVIOUS
  <2> QED BY <2>1, QueueAssumption DEF QueueAssumption
<1>3. PICK p \in {"sleeps", "ready", "gone"} : reader' = [reader EXCEPT ![r] = p]
  BY DEF Arrive, Goto
<1>4. TypeOK /\ reader \in [Requests -> {"idle", "sleeps", "ready", "wait", "gone"}]
  BY DEF IInv, TypeOK
<1>5. shape'[r] = sh /\ \A q \in Requests \ {r} : shape'[q] = shape[q]
  <2>1. r \in DOMAIN shape
    BY <1>4 DEF TypeOK
  <2> QED BY <1>1, <2>1
<1>6. TypeOK'
  BY <1>1, <1>2, <1>3, <1>4, <1>5 DEF TypeOK, Arrive, ThreadFrame, batchVars, taskVars, resultVars
<1>7. CoreState' /\ WakeState' /\ BatchState'
  BY <1>2, <1>3, <1>5, ReaderStep DEF Arrive
<1> QED BY <1>6, <1>7 DEF IInv

LEMMA NoSleepStep == \A r \in Requests : IInv /\ NoSleep(r) /\ ThreadFrame => IInv'
<1> SUFFICES ASSUME NEW r \in Requests, IInv, NoSleep(r), ThreadFrame PROVE IInv'
  OBVIOUS
<1>1. reader' = [reader EXCEPT ![r] = "ready"] /\ reader[r] = "sleeps"
  BY DEF NoSleep, Goto
<1>2. TypeOK'
  BY <1>1 DEF IInv, TypeOK, NoSleep, ThreadFrame, batchVars, taskVars, resultVars, sleepVars
<1>3. shape'[r] # NoTask /\ \A q \in Requests \ {r} : shape'[q] = shape[q]
  BY <1>1 DEF NoSleep, IInv, CoreState, ReaderState
<1>4. CoreState' /\ WakeState' /\ BatchState'
  BY <1>1, <1>3, ReaderStep DEF NoSleep
<1> QED BY <1>2, <1>4 DEF IInv

LEMMA RefuseStep == \A r \in Requests : IInv /\ Refuse(r) /\ ThreadFrame => IInv'
<1> SUFFICES ASSUME NEW r \in Requests, IInv, Refuse(r), ThreadFrame PROVE IInv'
  OBVIOUS
<1>1. reader' = [reader EXCEPT ![r] = "gone"] /\ reader[r] = "ready"
  BY DEF Refuse, Goto
<1>2. TypeOK'
  BY <1>1 DEF IInv, TypeOK, Refuse, ThreadFrame, batchVars, taskVars, resultVars, sleepVars
<1>3. shape'[r] # NoTask /\ \A q \in Requests \ {r} : shape'[q] = shape[q]
  BY <1>1 DEF Refuse, IInv, CoreState, ReaderState
<1>4. CoreState' /\ WakeState' /\ BatchState'
  BY <1>1, <1>3, ReaderStep DEF Refuse
<1> QED BY <1>2, <1>4 DEF IInv

LEMMA LiveTasks ==
    ASSUME IInv
    PROVE  /\ Live \subseteq Task
           /\ \A t \in Live : t[1] \in Requests /\ reader[t[1]] \in {"wait", "gone"}
                              /\ t \in TasksOf(t[1])
<1>1. Live \subseteq Task
  BY InSlotsFacts, ElementsType DEF IInv, CoreState, Live, Queued, Runs, Deferred, InHand, TypeOK
<1> QED BY <1>1 DEF IInv, CoreState, ReaderState, Task

(* All tasks of the request are posted: none of them existed before.       *)
LEMMA PostStep == \A r \in Requests : IInv /\ post_tasks(r) /\ ThreadFrame => IInv'
<1> SUFFICES ASSUME NEW r \in Requests, IInv, post_tasks(r), ThreadFrame PROVE IInv'
  OBVIOUS
<1>1. /\ reader[r] = "ready"
      /\ waiting_task_ids' = waiting_task_ids \cup TasksOf(r)
      /\ queue_tasks' = IF shape[r].type = "control"
                        THEN PostOrder(r) \o queue_tasks
                        ELSE queue_tasks \o PostOrder(r)
      /\ reader' = [reader EXCEPT ![r] = "wait"]
      /\ UNCHANGED <<running, sleepVars, queue_tasks_deferred, woken, lost, queue_results,
                     shape, received, alive>>
  BY DEF post_tasks, Goto
<1>2. TypeOK /\ CoreState /\ WakeState
  BY DEF IInv
<1>3. UNCHANGED <<loop, hand, slots, orphans>>
  BY DEF ThreadFrame
<1>4. shape[r] # NoTask
  BY <1>1, <1>2 DEF CoreState, ReaderState
<1>5. TasksOf(r) \subseteq Task /\ \A t \in TasksOf(r) : t[1] = r
  BY <1>2, TasksOfFacts
<1>6. TasksOf(r) \cap Live = {}
  BY <1>1, <1>5, LiveTasks
<1>7. /\ SlotState' /\ KindState' /\ BatchState'
      /\ Processing' = Processing /\ InSlots' = InSlots /\ InHand' = InHand
  BY <1>1, ThreadFacts
<1>8. PICK p \in Seq(Entry) : /\ p = PostOrder(r)
                              /\ Elements(p) = {Run(t) : t \in TasksOf(r)}
                              /\ Once(p, RunEntry)
  BY <1>2, <1>4, PostOrderProperties
<1>9. queue_tasks \in Seq(Entry) /\ Once(queue_tasks, RunEntry)
  BY <1>2 DEF TypeOK, CoreState, PlaceState
<1>10. Elements(p) \cap Elements(queue_tasks) \cap RunEntry = {}
  <2> SUFFICES ASSUME NEW t \in TasksOf(r), Run(t) \in Elements(queue_tasks) PROVE FALSE
    BY <1>8
  <2>1. t \in Queued
    BY <1>5 DEF Queued, Runs
  <2> QED BY <1>6, <2>1 DEF Live
<1>11. /\ queue_tasks' \in Seq(Entry)
       /\ Elements(queue_tasks') = Elements(queue_tasks) \cup Elements(p)
       /\ Once(queue_tasks', RunEntry)
  <2>1. CASE shape[r].type = "control"
    <3>1. queue_tasks' = p \o queue_tasks
      BY <1>1, <1>8, <2>1
    <3> QED BY <1>8, <1>9, <1>10, <3>1, ElementsConcat
  <2>2. CASE shape[r].type # "control"
    <3>1. queue_tasks' = queue_tasks \o p
      BY <1>1, <1>8, <2>2
    <3> QED BY <1>8, <1>9, <1>10, <3>1, ElementsConcat
  <2> QED BY <2>1, <2>2
<1>12. Queued' = Queued \cup TasksOf(r) /\ Deferred' = Deferred
  <2>1. \A t \in Task : Run(t) \in Elements(queue_tasks') <=>
                            Run(t) \in Elements(queue_tasks) \/ t \in TasksOf(r)
    BY <1>8, <1>11, Entries
  <2> QED BY <1>1, <1>5, <2>1 DEF Queued, Runs, Deferred
<1>13. Cancels(queue_tasks') = Cancels(queue_tasks) /\ (HasNext(queue_tasks') <=> HasNext(queue_tasks))
  <2>1. \A t \in Task : Cancel(t) \notin Elements(p)
    BY <1>8, Entries
  <2>2. NextResponse \notin Elements(p)
    BY <1>5, <1>8, Entries
  <2> QED BY <1>11, <2>1, <2>2 DEF Cancels, HasNext
<1>14. Live' = Live \cup TasksOf(r)
  BY <1>7, <1>12 DEF Live
<1>15. PlaceState'
  <2>1. /\ Once(queue_tasks_deferred', Task)
        /\ \A s, u \in Processing' : slots'[s].task = slots'[u].task => s = u
    BY <1>1, <1>2, <1>3, <1>7 DEF CoreState, PlaceState
  <2>2. TasksOf(r) \cap Deferred = {} /\ TasksOf(r) \cap InHand = {} /\ TasksOf(r) \cap InSlots = {}
    BY <1>6 DEF Live
  <2> QED BY <1>2, <1>7, <1>11, <1>12, <2>1, <2>2 DEF CoreState, PlaceState
<1>16. reader'[r] = "wait" /\ \A q \in Requests \ {r} : reader'[q] = reader[q]
  BY <1>1, <1>2 DEF TypeOK
<1>17. \A q : TasksOf(q)' = TasksOf(q)
  BY <1>1 DEF TasksOf
<1>18. TasksOf(r) \cap waiting_task_ids = {} /\ received[r] = {}
  BY <1>1, <1>2, <1>5 DEF CoreState, ReaderState, Waiting
<1>19. ReaderState'
  <2>1. \A q \in Requests : (shape[q] = NoTask <=> reader[q] = "idle")'
    BY <1>1, <1>2, <1>16 DEF CoreState, ReaderState
  <2>2. Waiting' = Waiting \cup TasksOf(r)
    <3>1. ASSUME NEW t \in Task
          PROVE  t \in Waiting' <=> t \in Waiting \/ t \in TasksOf(r)
      <4>1. t[1] \in Requests
        BY DEF Task
      <4> QED BY <1>1, <1>5, <1>16, <1>17, <4>1 DEF Waiting
    <3> QED BY <1>5, <3>1 DEF Waiting
  <2>3. \A q \in Requests : received'[q] # {} => reader'[q] = "wait"
    BY <1>1, <1>2, <1>16 DEF CoreState, ReaderState
  <2>4. \A t \in Live' : reader'[t[1]] \in {"wait", "gone"} /\ t \in TasksOf(t[1])'
    <3>1. ASSUME NEW t \in Live
          PROVE  reader'[t[1]] \in {"wait", "gone"} /\ t \in TasksOf(t[1])
      BY <1>16, LiveTasks
    <3>2. ASSUME NEW t \in TasksOf(r)
          PROVE  reader'[t[1]] \in {"wait", "gone"} /\ t \in TasksOf(t[1])
      BY <1>5, <1>16
    <3> QED BY <1>14, <1>17, <3>1, <3>2
  <2> QED BY <1>1, <1>2, <2>1, <2>2, <2>3, <2>4 DEF CoreState, ReaderState
<1>20. ResultState'
  <2>1. Counted' = Counted /\ TasksOf(r) \cap Counted = {}
    BY <1>1, <1>5, <1>18 DEF Counted
  <2>2. Ends(queue_results) \subseteq waiting_task_ids
    BY <1>2, ToldType DEF CoreState, ResultState, TypeOK, ResultEntry
  <2>3. TasksOf(r) \cap Ends(queue_results) = {}
    BY <1>18, <2>2
  <2> QED BY <1>1, <1>2, <1>14, <2>1, <2>3 DEF CoreState, ResultState
<1>21. ServeState'
  BY <1>1, <1>2, <1>3, <1>7, <1>12, <1>13 DEF CoreState, ServeState
<1>22. DeferredHasWaker'
  <2>1. \A t : IdSlot(t)' = IdSlot(t)
    BY <1>1 DEF IdSlot, IsChild, TypeOf
  <2> QED BY <1>1, <1>2, <1>7, <2>1 DEF CoreState, DeferredHasWaker
<1>23. WakeState'
  BY <1>2, <1>3, <1>7, <1>13 DEF WakeState
<1>24. TypeOK'
  BY <1>1, <1>2, <1>5, <1>11, <1>16 DEF TypeOK, ThreadFrame, batchVars, sleepVars
<1> QED BY <1>7, <1>15, <1>19, <1>20, <1>21, <1>22, <1>23, <1>24 DEF IInv, CoreState

(* The reader stops.  Its tasks are settled, or taken out of both queues   *)
(* and cancelled where they are.                                           *)
LEMMA StopStep ==
    ASSUME IInv, ThreadFrame, NEW r \in Requests, reader[r] = "wait",
           NEW got, NEW rest \in Seq(ResultEntry), stop(r, got, rest),
           LastIsLast(rest), Told(rest) \subseteq Told(queue_results),
           Ends(rest) \subseteq Ends(queue_results),
           got = TasksOf(r) => TasksOf(r) \cap Live = {} /\ TasksOf(r) \cap Told(rest) = {},
           UNCHANGED <<running, sleepVars, shape, alive>>
    PROVE  IInv'
<1>1. /\ reader' = [reader EXCEPT ![r] = "gone"]
      /\ received' = [received EXCEPT ![r] = {}]
      /\ waiting_task_ids' = waiting_task_ids \ TasksOf(r)
  BY DEF stop, Goto
<1>2. TypeOK /\ CoreState /\ WakeState
  BY DEF IInv
<1>3. UNCHANGED <<loop, hand, slots, orphans>>
  BY DEF ThreadFrame
<1>4. TasksOf(r) \subseteq Task /\ \A t \in TasksOf(r) : t[1] = r
  BY <1>2, TasksOfFacts
<1>5. /\ SlotState' /\ KindState' /\ BatchState'
      /\ Processing' = Processing /\ InSlots' = InSlots /\ InHand' = InHand
  BY ThreadFacts
<1>6. /\ queue_tasks \in Seq(Entry) /\ Once(queue_tasks, RunEntry)
      /\ queue_tasks_deferred \in Seq(Task) /\ Once(queue_tasks_deferred, Task)
      /\ woken \subseteq Task /\ lost \in BOOLEAN
  BY <1>2 DEF TypeOK, CoreState, PlaceState
<1>7. /\ queue_tasks' \in Seq(Entry) /\ queue_tasks_deferred' \in Seq(Task)
      /\ queue_results' \in Seq(ResultEntry)
      /\ woken' \subseteq woken /\ lost' \in BOOLEAN
      /\ Once(queue_tasks', RunEntry) /\ Once(queue_tasks_deferred', Task)
      /\ Queued' = Queued \ TasksOf(r) /\ Deferred' = Deferred \ TasksOf(r)
      /\ Cancels(queue_tasks) \subseteq Cancels(queue_tasks')
      /\ TasksOf(r) \cap Live \subseteq Cancels(queue_tasks')
      /\ HasNext(queue_tasks') <=> HasNext(queue_tasks)
      /\ Told(queue_results') \subseteq Told(rest) \ TasksOf(r)
      /\ Ends(queue_results') \subseteq Ends(rest)
      /\ LastIsLast(queue_results')
      /\ lost => lost'
      /\ woken' = woken \/ lost'
  <2>1. CASE got # TasksOf(r)
    BY <1>2, <1>6, <2>1, StopProperties
  <2>2. CASE got = TasksOf(r)
    <3>1. queue_results' = rest /\ UNCHANGED <<queue_tasks, queue_tasks_deferred, woken, lost>>
      BY <2>2 DEF stop, taskVars
    <3>2. TasksOf(r) \cap Live = {} /\ TasksOf(r) \cap Told(rest) = {}
      BY <2>2
    <3>3. Queued' = Queued \ TasksOf(r) /\ Deferred' = Deferred \ TasksOf(r)
      BY <3>1, <3>2 DEF Queued, Deferred, Live
    <3> QED BY <1>6, <3>1, <3>2, <3>3
  <2> QED BY <2>1, <2>2
<1>8. Live' \subseteq Live
  BY <1>5, <1>7 DEF Live
<1>9. PlaceState'
  <2>1. \A s, u \in Processing' : slots'[s].task = slots'[u].task => s = u
    BY <1>2, <1>3, <1>5 DEF CoreState, PlaceState
  <2> QED BY <1>2, <1>5, <1>7, <2>1 DEF CoreState, PlaceState
<1>10. /\ reader'[r] = "gone" /\ received'[r] = {}
       /\ \A q \in Requests \ {r} : reader'[q] = reader[q] /\ received'[q] = received[q]
  BY <1>1, <1>2 DEF TypeOK
<1>11. \A q : TasksOf(q)' = TasksOf(q)
  BY DEF TasksOf
<1>12. Counted' \subseteq Counted /\ Counted' \cap TasksOf(r) = {}
  <2>1. ASSUME NEW t \in Task, t \in received'[t[1]]
        PROVE  t \in received[t[1]] /\ t \notin TasksOf(r)
    <3>1. t[1] \in Requests
      BY DEF Task
    <3> QED BY <1>4, <1>10, <2>1, <3>1
  <2> QED BY <2>1 DEF Counted
<1>13. ReaderState'
  <2>1. \A q \in Requests : (shape[q] = NoTask <=> reader[q] = "idle")'
    BY <1>2, <1>10 DEF CoreState, ReaderState
  <2>2. Waiting' = Waiting \ TasksOf(r)
    <3>1. ASSUME NEW t \in Task
          PROVE  t \in Waiting' <=> t \in Waiting /\ t \notin TasksOf(r)
      <4>1. t[1] \in Requests
        BY DEF Task
      <4> QED BY <1>4, <1>10, <1>11, <4>1 DEF Waiting
    <3> QED BY <3>1 DEF Waiting
  <2>3. \A q \in Requests : received'[q] # {} => reader'[q] = "wait"
    BY <1>2, <1>10 DEF CoreState, ReaderState
  <2>4. \A t \in Live' : reader'[t[1]] \in {"wait", "gone"} /\ t \in TasksOf(t[1])'
    BY <1>8, <1>10, <1>11, LiveTasks
  <2> QED BY <1>1, <1>2, <2>1, <2>2, <2>3, <2>4 DEF CoreState, ReaderState
<1>14. ResultState'
  <2>1. /\ Told(queue_results) \subseteq waiting_task_ids \ Counted
        /\ (Ends(queue_results) \cup Counted) \cap Live = {}
    BY <1>2 DEF CoreState, ResultState
  <2> QED BY <1>1, <1>7, <1>8, <1>12, <2>1 DEF ResultState
<1>15. ServeState'
  <2>1. /\ Queued \cup Deferred \subseteq waiting_task_ids \cup orphans
        /\ InHand \subseteq waiting_task_ids \cup orphans \cup Cancels(queue_tasks)
        /\ \A t \in InSlots : \/ t \in waiting_task_ids \cup orphans \cup Cancels(queue_tasks)
                              \/ loop = "task" /\ hand = Cancel(t)
    BY <1>2 DEF CoreState, ServeState
  <2>2. (Queued \cup Deferred)' \subseteq (waiting_task_ids \cup orphans)'
    BY <1>1, <1>3, <1>7, <2>1
  <2>3. \A t \in InHand \cup InSlots : t \in waiting_task_ids => t \in waiting_task_ids' \cup Cancels(queue_tasks')
    BY <1>1, <1>7 DEF Live
  <2> QED BY <1>3, <1>5, <1>7, <2>1, <2>2, <2>3 DEF ServeState
<1>16. DeferredHasWaker'
  <2> SUFFICES ASSUME NEW t \in Range(queue_tasks_deferred'), IdSlot(t)' < NSlots,
                      Processing' = {}, woken' = {}
               PROVE  lost'
    BY DEF DeferredHasWaker
  <2>1. \A d \in Seq(Task) : Range(d) = Elements(d)
    BY DEF Range, Elements
  <2>2. IdSlot(t) < NSlots
    BY DEF IdSlot, IsChild, TypeOf
  <2>3. t \in Range(queue_tasks_deferred)
    BY <1>6, <1>7, <2>1 DEF Deferred
  <2> QED BY <1>2, <1>5, <1>7, <2>2, <2>3 DEF CoreState, DeferredHasWaker
<1>17. WakeState'
  BY <1>2, <1>3, <1>5, <1>7 DEF WakeState
<1>18. TypeOK'
  <2>1. received' \in [Requests -> SUBSET Task]
    BY <1>1, <1>2 DEF TypeOK
  <2>2. reader' \in [Requests -> {"idle", "sleeps", "ready", "wait", "gone"}]
    BY <1>1, <1>2 DEF TypeOK
  <2>3. waiting_task_ids' \subseteq Task /\ woken' \subseteq Task
    BY <1>1, <1>2, <1>7 DEF TypeOK
  <2> QED BY <1>2, <1>7, <2>1, <2>2, <2>3 DEF TypeOK, ThreadFrame, batchVars, sleepVars, ResultEntry
<1> QED BY <1>5, <1>9, <1>13, <1>14, <1>15, <1>16, <1>17, <1>18 DEF IInv, CoreState

(* The reader takes a result: a last one is counted, and its task is       *)
(* nowhere any more.                                                       *)
LEMMA NextStep == \A r \in Requests : IInv /\ next(r) /\ ThreadFrame => IInv'
<1> SUFFICES ASSUME NEW r \in Requests, IInv, next(r), ThreadFrame PROVE IInv'
  OBVIOUS
<1>1. TypeOK /\ CoreState /\ WakeState
  BY DEF IInv
<1>2. PICK i \in DOMAIN queue_results :
         LET res == queue_results[i]
             got == IF res.kind = "final" THEN received[r] \cup {res.task} ELSE received[r]
         IN  /\ res.task \in TasksOf(r)
             /\ \A j \in 1..i - 1 : queue_results[j].task \notin TasksOf(r)
             /\ IF res.kind = "error" \/ got = TasksOf(r)
                THEN stop(r, got, RemoveAt(queue_results, i))
                ELSE /\ queue_results' = RemoveAt(queue_results, i)
                     /\ received' = [received EXCEPT ![r] = got]
                     /\ UNCHANGED <<reader, waiting_task_ids, taskVars>>
  BY DEF next
<1>3. reader[r] = "wait" /\ UNCHANGED <<running, sleepVars, shape, alive>>
  BY DEF next
<1>4. queue_results \in Seq(ResultEntry) /\ i \in 1 .. Len(queue_results)
  BY <1>1 DEF TypeOK, ResultEntry
<1>5. PICK res \in ResultEntry : res = queue_results[i]
  BY <1>4
<1>6. PICK got : got = IF res.kind = "final" THEN received[r] \cup {res.task} ELSE received[r]
  OBVIOUS
<1>7. PICK rest \in Seq(ResultEntry) :
         /\ rest = RemoveAt(queue_results, i)
         /\ Told(rest) \subseteq Told(queue_results) /\ Ends(rest) \subseteq Ends(queue_results)
         /\ LastIsLast(rest)
         /\ res.kind # "partial" => res.task \notin Told(rest)
  <2>1. /\ queue_results[i].task \in TasksOf(r)
        /\ \A j \in 1..i - 1 : queue_results[j].task \notin TasksOf(r)
    BY <1>2
  <2>2. LastIsLast(queue_results)
    BY <1>1 DEF CoreState, ResultState
  <2> QED BY <1>4, <1>5, <2>1, <2>2, ResultsRemoveAt
<1>8. /\ res.task \in TasksOf(r)
      /\ IF res.kind = "error" \/ got = TasksOf(r)
         THEN stop(r, got, rest)
         ELSE /\ queue_results' = rest
              /\ received' = [received EXCEPT ![r] = got]
              /\ UNCHANGED <<reader, waiting_task_ids, taskVars>>
  BY <1>2, <1>5, <1>6, <1>7
<1>9. TasksOf(r) \subseteq Task /\ \A t \in TasksOf(r) : t[1] = r
  BY <1>1, TasksOfFacts
<1>10. /\ Told(queue_results) \subseteq waiting_task_ids \ Counted
       /\ (Ends(queue_results) \cup Counted) \cap Live = {}
  BY <1>1 DEF CoreState, ResultState
<1>11. /\ res.task \in Told(queue_results)
       /\ res.kind # "partial" => res.task \in Ends(queue_results)
  BY <1>4, <1>5 DEF Told, Ends, Elements
<1>12. /\ \A t \in TasksOf(r) \cap received[r] : t \in Counted
       /\ res.task \notin received[r]
  BY <1>8, <1>9, <1>10, <1>11 DEF Counted
<1>13. CASE res.kind = "error" \/ got = TasksOf(r)
  <2>1. stop(r, got, rest)
    BY <1>8, <1>13
  <2>2. ASSUME got = TasksOf(r)
        PROVE  TasksOf(r) \cap Live = {} /\ TasksOf(r) \cap Told(rest) = {}
    <3>1. res.kind = "final" /\ TasksOf(r) = received[r] \cup {res.task}
      BY <1>6, <1>8, <1>12, <2>2
    <3>2. res.task \notin Live /\ res.task \notin Told(rest)
      BY <1>7, <1>10, <1>11, <3>1
    <3>3. \A t \in TasksOf(r) : t = res.task \/ t \in Counted
      BY <1>12, <3>1
    <3> QED BY <1>7, <1>10, <3>2, <3>3
  <2> QED BY <1>3, <1>7, <2>1, <2>2, StopStep
<1>14. CASE ~(res.kind = "error" \/ got = TasksOf(r))
  <2>1. /\ queue_results' = rest
        /\ received' = [received EXCEPT ![r] = got]
        /\ UNCHANGED <<reader, waiting_task_ids, queue_tasks, queue_tasks_deferred, woken, lost>>
    BY <1>8, <1>14 DEF taskVars
  <2>2. /\ SlotState' /\ KindState' /\ BatchState'
        /\ Processing' = Processing /\ InSlots' = InSlots /\ InHand' = InHand
    BY <1>3, ThreadFacts
  <2>3. UNCHANGED <<loop, hand, slots, orphans>>
    BY DEF ThreadFrame
  <2>4. Queued' = Queued /\ Deferred' = Deferred /\ Live' = Live
    BY <2>1, <2>2 DEF Queued, Deferred, Live
  <2>5. PlaceState' /\ ServeState'
    BY <1>1, <2>1, <2>2, <2>3, <2>4 DEF CoreState, PlaceState, ServeState
  <2>6. /\ received'[r] = got /\ \A q \in Requests \ {r} : received'[q] = received[q]
        /\ received' \in [Requests -> SUBSET Task]
    <3>1. received \in [Requests -> SUBSET Task] /\ got \in SUBSET Task
      BY <1>1, <1>6, <1>8, <1>9 DEF TypeOK
    <3> QED BY <2>1, <3>1
  <2>7. ReaderState'
    <3>1. \A q : TasksOf(q)' = TasksOf(q)
      BY <1>3 DEF TasksOf
    <3>2. \A q \in Requests : received'[q] # {} => reader'[q] = "wait"
      BY <1>1, <1>3, <2>1, <2>6 DEF CoreState, ReaderState
    <3> QED BY <1>1, <1>3, <2>1, <2>4, <3>1, <3>2 DEF CoreState, ReaderState, Waiting
  <2>8. ResultState'
    <3>1. Counted' \subseteq Counted \cup (got \ received[r])
      <4>1. ASSUME NEW t \in Task, t \in received'[t[1]]
            PROVE  t \in Counted \/ t \in got \ received[r]
        <5>1. t[1] \in Requests
          BY DEF Task
        <5> QED BY <2>6, <4>1, <5>1 DEF Counted
      <4> QED BY <4>1 DEF Counted
    <3>2. \A t \in got \ received[r] : t = res.task /\ t \in Ends(queue_results) /\ t \notin Told(rest)
      BY <1>6, <1>7, <1>11
    <3> QED BY <1>7, <1>10, <2>1, <2>4, <3>1, <3>2 DEF ResultState
  <2>9. DeferredHasWaker'
    <3>1. \A t : IdSlot(t)' = IdSlot(t)
      BY <1>3 DEF IdSlot, IsChild, TypeOf
    <3> QED BY <1>1, <2>1, <2>2, <3>1 DEF CoreState, DeferredHasWaker
  <2>10. WakeState'
    BY <1>1, <2>1, <2>2, <2>3 DEF WakeState
  <2>11. TypeOK'
    BY <1>1, <1>3, <2>1, <2>6 DEF TypeOK, ThreadFrame, batchVars, sleepVars, ResultEntry
  <2> QED BY <2>2, <2>5, <2>7, <2>8, <2>9, <2>10, <2>11 DEF IInv, CoreState
<1> QED BY <1>13, <1>14

(* Nothing that the invariant speaks of changes.                           *)
LEMMA SameStep ==
    ASSUME IInv, ThreadFrame, running' \in BOOLEAN, alive' \in BOOLEAN,
           UNCHANGED <<sleepVars, taskVars, resultVars, readerVars>>
    PROVE  IInv'
<1>1. TypeOK /\ CoreState /\ WakeState
  BY DEF IInv
<1>2. UNCHANGED <<queue_tasks, queue_tasks_deferred, woken, lost, queue_results, waiting_task_ids,
                  reader, shape, received, loop, hand, slots, orphans>>
  BY DEF taskVars, resultVars, readerVars, ThreadFrame
<1>3. /\ SlotState' /\ KindState' /\ BatchState'
      /\ Processing' = Processing /\ InSlots' = InSlots /\ InHand' = InHand
  BY <1>2, ThreadFacts
<1>4. Queued' = Queued /\ Deferred' = Deferred /\ Live' = Live
  BY <1>2, <1>3 DEF Queued, Deferred, Live
<1>5. PlaceState' /\ ServeState' /\ WakeState'
  BY <1>1, <1>2, <1>3, <1>4 DEF CoreState, PlaceState, ServeState, WakeState
<1>6. ReaderState' /\ ResultState'
  BY <1>1, <1>2, <1>4 DEF CoreState, ReaderState, ResultState, Waiting, TasksOf, Counted
<1>7. DeferredHasWaker'
  BY <1>1, <1>2, <1>3 DEF CoreState, DeferredHasWaker, IdSlot, IsChild, TypeOf
<1>8. TypeOK'
  BY <1>1, <1>2 DEF TypeOK, ThreadFrame, batchVars, sleepVars
<1> QED BY <1>3, <1>5, <1>6, <1>7, <1>8 DEF IInv, CoreState

LEMMA ClientLeavesStep == \A r \in Requests : IInv /\ ClientLeaves(r) /\ ThreadFrame => IInv'
<1> SUFFICES ASSUME NEW r \in Requests, IInv, ClientLeaves(r), ThreadFrame PROVE IInv'
  OBVIOUS
<1>1. TypeOK /\ CoreState
  BY DEF IInv
<1>2. reader[r] = "wait" /\ UNCHANGED <<running, sleepVars, shape>>
  BY DEF ClientLeaves
<1>3. CASE shape[r].type \in {"control", "action"}
  BY <1>1, <1>2, <1>3, SameStep DEF ClientLeaves, TypeOK, readerVars
<1>4. CASE ~(shape[r].type \in {"control", "action"})
  <2>1. stop(r, received[r], queue_results) /\ UNCHANGED alive
    BY <1>4 DEF ClientLeaves
  <2>2. /\ Told(queue_results) \subseteq waiting_task_ids \ Counted
        /\ (Ends(queue_results) \cup Counted) \cap Live = {} /\ LastIsLast(queue_results)
    BY <1>1 DEF CoreState, ResultState
  <2>3. ASSUME received[r] = TasksOf(r)
        PROVE  TasksOf(r) \cap Live = {} /\ TasksOf(r) \cap Told(queue_results) = {}
    <3>1. TasksOf(r) \subseteq Counted
      BY <1>1, <2>3, TasksOfFacts DEF Counted
    <3> QED BY <2>2, <3>1
  <2>4. queue_results \in Seq(ResultEntry)
    BY <1>1 DEF TypeOK, ResultEntry
  <2> QED BY <1>2, <2>1, <2>2, <2>3, <2>4, StopStep
<1> QED BY <1>3, <1>4

-----------------------------------------------------------------------------
LEMMA InitIInv == Init => IInv
<1> SUFFICES ASSUME Init PROVE IInv
  OBVIOUS
<1> USE DEF Init, QueueInit
<1>1. NSlots \in Nat \ {0} /\ NBatch \in Nat \ {0}
  BY QueueAssumption, ContextAssumption DEF QueueAssumption, ContextAssumption
<1>2. Queued = {} /\ Deferred = {} /\ InHand = {} /\ Processing = {} /\ InSlots = {} /\ Live = {}
  <2>1. Processing = {}
    BY DEF Processing, is_processing, NewSlot
  <2> QED BY <2>1, ElementsNone DEF Queued, Runs, Deferred, InHand, InSlots, Live
<1>3. TypeOK
  <2>1. NewSlot \in SlotType
    BY DEF NewSlot, SlotType
  <2>2. slots \in [SlotIds -> SlotType]
    <3> HIDE DEF NewSlot, SlotType
    <3> QED BY <2>1
  <2>3. 0 \in SlotIds /\ view \in [i : Nat, n : Nat \ {0}]
    BY <1>1, SlotIdsFacts
  <2>4. <<>> \in Seq(Entry) /\ <<>> \in Seq(Task) /\ <<>> \in Seq(SlotIds)
        /\ <<>> \in Seq([task : Task, kind : {"partial", "final", "error"}])
    OBVIOUS
  <2> QED BY <2>2, <2>3, <2>4 DEF TypeOK, SlotType
<1>4. ReaderState
  <2>1. \A r \in Requests : shape[r] = NoTask /\ reader[r] = "idle" /\ received[r] = {}
    OBVIOUS
  <2>2. \A t \in Task : t[1] \in Requests
    BY DEF Task
  <2>3. Waiting = {}
    BY <2>1, <2>2 DEF Waiting
  <2> QED BY <1>2, <2>1, <2>3 DEF ReaderState
<1>5. SlotState /\ KindState
  BY <1>2 DEF SlotState, KindState, NewSlot
<1>6. PlaceState
  BY <1>2, ElementsNone DEF PlaceState
<1>7. ResultState
  <2>1. Told(<<>>) = {} /\ Ends(<<>>) = {} /\ LastIsLast(<<>>) /\ Counted = {}
    BY ElementsNone DEF Told, Ends, LastIsLast, Counted, Task
  <2> QED BY <1>2, <2>1 DEF ResultState
<1>8. ServeState /\ WakeState
  BY <1>2 DEF ServeState, WakeState
<1>9. DeferredHasWaker
  BY DEF DeferredHasWaker, Range
<1>10. BatchState
  <2>1. \A s \in SlotIds : slots[s].state = "IDLE"
    BY DEF NewSlot
  <2>2. view.i = 0 /\ Len(batch) = 0
    OBVIOUS
  <2> QED BY <2>1, <2>2 DEF BatchState
<1> QED BY <1>3, <1>4, <1>5, <1>6, <1>7, <1>8, <1>9, <1>10 DEF IInv, CoreState

LEMMA NextIInv == IInv /\ [Next]_vars => IInv'
<1> SUFFICES ASSUME IInv, [Next]_vars PROVE IInv'
  OBVIOUS
<1>1. ASSUME MainLoop PROVE IInv'
  BY <1>1, TakeStep, TaskStep, AllIdleStep, AddSampledStep, EndAtStartStep, WaitForBatchStep,
     AddPromptStep, DecodedStep, NoRoomStep, DecodeFailsStep, SampleStep, WaitEndsStep, SleepStep,
     WakeStep DEF MainLoop
<1>2. ASSUME NEW r \in Requests, Serve(r) PROVE IInv'
  <2>1. ThreadFrame /\ (NoSleep(r) \/ Refuse(r) \/ post_tasks(r) \/ next(r))
    BY <1>2 DEF Serve, ThreadFrame
  <2> QED BY <2>1, NoSleepStep, RefuseStep, PostStep, NextStep
<1>3. ASSUME NEW r \in Requests, Client(r) PROVE IInv'
  <2>1. ThreadFrame /\ (Arrive(r) \/ ClientLeaves(r))
    BY <1>3 DEF Client, ThreadFrame
  <2> QED BY <2>1, ArriveStep, ClientLeavesStep
<1>4. ASSUME Signal PROVE IInv'
  <2>1. ThreadFrame /\ Terminate
    BY <1>4 DEF Signal, ThreadFrame
  <2>2. running' \in BOOLEAN /\ alive' \in BOOLEAN
    BY <2>1 DEF Terminate, IInv, TypeOK
  <2> QED BY <2>1, <2>2, SameStep DEF Terminate
<1>5. ASSUME UNCHANGED vars PROVE IInv'
  <2>1. ThreadFrame /\ UNCHANGED <<sleepVars, taskVars, resultVars, readerVars, running, alive>>
    BY <1>5 DEF vars, ThreadFrame
  <2>2. running' \in BOOLEAN /\ alive' \in BOOLEAN
    BY <2>1 DEF IInv, TypeOK
  <2> QED BY <2>1, <2>2, SameStep
<1> QED BY <1>1, <1>2, <1>3, <1>4, <1>5 DEF Next

-----------------------------------------------------------------------------
(* Main loop and request threads never leave their inductive invariant.    *)
THEOREM Invariance == Spec => []IInv
BY InitIInv, NextIInv, PTL DEF Spec

(* Queues, readers, slots and batch keep their types.                      *)
THEOREM TypeCorrect == Spec => []TypeOK
BY Invariance, PTL DEF IInv

(* For any number of requests and slots: what server_response::send queues *)
(* last for a task is its only last result, and nothing of the task comes  *)
(* after it or after wait_for_all has counted it, whichever of a decode    *)
(* error, a full context, a cancel and a normal end releases its slot.     *)
THEOREM LastResultIsLast == Spec => []ResultsEndOnce
<1>1. IInv => ResultsEndOnce
  <2> SUFFICES ASSUME IInv, NEW i \in DOMAIN queue_results
      PROVE  LET x == queue_results[i]
             IN  /\ x.task \in waiting_task_ids \ received[x.task[1]]
                 /\ x.kind # "partial" => \A j \in DOMAIN queue_results :
                                             j > i => queue_results[j].task # x.task
    BY DEF ResultsEndOnce
  <2>1. TypeOK /\ ResultState
    BY DEF IInv, CoreState
  <2>2. queue_results \in Seq(ResultEntry)
    BY <2>1 DEF TypeOK, ResultEntry
  <2>3. DOMAIN queue_results = 1 .. Len(queue_results) /\ Len(queue_results) \in Nat
    BY <2>2
  <2>4. PICK x \in ResultEntry : x = queue_results[i]
    BY <2>2
  <2>5. x.task \in Task
    BY <2>4 DEF ResultEntry
  <2>6. x.task \in Told(queue_results)
    BY <2>3, <2>4 DEF Told, Elements
  <2>7. x.task \in waiting_task_ids \ received[x.task[1]]
    BY <2>1, <2>5, <2>6 DEF ResultState, Counted
  <2>8. x.kind # "partial" => \A j \in 1 .. Len(queue_results) :
                                 j > i => queue_results[j].task # x.task
    BY <2>1, <2>3, <2>4 DEF ResultState, LastIsLast
  <2> QED BY <2>3, <2>4, <2>7, <2>8
<1> QED BY <1>1, Invariance, PTL

(* For any number of requests and slots: a slot that works has a reader    *)
(* that waits, or a cancel on the way, or its task was deferred after      *)
(* cleanup_pending_task had looked for it in vain.                         *)
THEOREM SlotsWorkForReaders == Spec => []SlotsServeReaders
<1>1. IInv => SlotsServeReaders
  <2> SUFFICES ASSUME IInv, NEW s \in Processing
      PROVE  \/ slots[s].task \in waiting_task_ids \cup orphans
             \/ Cancelled(slots[s].task) \/ hand = Cancel(slots[s].task)
    BY DEF SlotsServeReaders
  <2>1. TypeOK /\ ServeState
    BY DEF IInv, CoreState
  <2>2. slots[s].task \in InSlots
    BY DEF InSlots
  <2>3. \A t \in Cancels(queue_tasks) : Cancelled(t)
    <3>1. DOMAIN queue_tasks = 1 .. Len(queue_tasks)
      BY <2>1 DEF TypeOK
    <3> QED BY <3>1 DEF Cancels, Elements, Cancelled
  <2> QED BY <2>1, <2>2, <2>3 DEF ServeState
<1> QED BY <1>1, Invariance, PTL

(* For any number of requests and slots: while a task is deferred a slot   *)
(* works whose release will fetch it (pop_deferred_task), or a fetched     *)
(* task is under way, or its wake-up is known to be spent.                 *)
THEOREM DeferredIsWoken == Spec => []DeferredHasWaker
BY Invariance, PTL DEF IInv, CoreState

(* For any batch size and any halving of the views: the logits a slot      *)
(* samples from (tok_idx = i_batch - view.i) are those of a token the slot *)
(* itself put into the batch, and none waits for logits when update_slots  *)
(* is done.                                                                *)
THEOREM SamplesAreOwn == Spec => []SampledFromOwnToken
<1>1. IInv => SampledFromOwnToken
  <2> SUFFICES ASSUME IInv PROVE SampledFromOwnToken
    OBVIOUS
  <2>1. TypeOK /\ BatchState
    BY DEF IInv
  <2>2. view.i \in Nat /\ Len(batch) \in Nat
    BY <2>1 DEF TypeOK
  <2>3. ASSUME NEW s \in ToSample(cursor)
        PROVE  batch[slots[s].i_batch + 1] = s
    <3>1. /\ s \in SlotIds /\ slots[s].state \in {"DONE_PROMPT", "GENERATING"}
          /\ view.i <= slots[s].i_batch
      BY DEF ToSample
    <3>2. slots[s].i_batch # -1
      BY <2>2, <3>1
    <3>3. Awaits(s)
      BY <2>1, <3>1, <3>2 DEF BatchState
    <3> QED BY <3>3 DEF Awaits
  <2>4. ASSUME loop \in {"take", "wait", "asleep"}, NEW s \in SlotIds,
               slots[s].state = "DONE_PROMPT"
        PROVE  FALSE
    <3>1. batch = <<>> /\ Awaits(s)
      BY <2>1, <2>4 DEF BatchState
    <3>2. Len(batch) = 0
      BY <3>1
    <3> QED BY <2>2, <3>1, <3>2 DEF Awaits
  <2> QED BY <2>3, <2>4 DEF SampledFromOwnToken
<1> QED BY <1>1, Invariance, PTL

(* For any number of requests and slots: launch_slot_with_task never       *)
(* leaves a slot in WAIT_OTHER, since is_child() is asked before the slot  *)
(* has its task.                                                           *)
THEOREM ChildrenStartAlone == Spec => []NobodyWaitsForParent
<1>1. TypeOK => NobodyWaitsForParent
  BY DEF TypeOK, NobodyWaitsForParent
<1> QED BY <1>1, TypeCorrect, PTL
=============================================================================
