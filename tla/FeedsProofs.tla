----------------------------- MODULE FeedsProofs -----------------------------
(***************************************************************************)
(* Theorems about the live views of a session, for any scripts, sizes of   *)
(* the buffers and the tail, and any number of polls in flight.            *)
(***************************************************************************)
EXTENDS Feeds, FiniteSetTheorems, SequenceTheorems, TLAPS

-----------------------------------------------------------------------------
(* filter(): each place that passes once, in order.  The place of i in the  *)
(* selection is one more than the number of places below it.                *)
LEMMA AscendingIs ==
  ASSUME NEW W \in SUBSET Int, IsFiniteSet(W)
  PROVE  /\ Cardinality(W) \in Nat
         /\ DOMAIN Ascending(W) = 1..Cardinality(W)
         /\ \A k \in 1..Cardinality(W) : Ascending(W)[k] \in W
         /\ \A k, l \in 1..Cardinality(W) : k < l => Ascending(W)[k] < Ascending(W)[l]
         /\ \A i \in W : \E k \in 1..Cardinality(W) : Ascending(W)[k] = i
<1> DEFINE n == Cardinality(W)
           Below(i) == {j \in W : j < i}
           Place == [i \in W |-> Cardinality(Below(i)) + 1]
<1>1. n \in Nat
  BY FS_CardinalityType
<1>2. \A i \in W : Cardinality(Below(i)) \in Nat /\ IsFiniteSet(Below(i))
  BY FS_Subset, FS_CardinalityType
<1>3. \A i, j \in W : i < j => Cardinality(Below(i)) < Cardinality(Below(j))
  <2> TAKE i, j \in W
  <2> HAVE i < j
  <2>1. Below(i) \subseteq Below(j) \ {i} /\ i \in Below(j)
    <3>1. i \in Int /\ j \in Int /\ \A x \in W : x \in Int
      OBVIOUS
    <3>2. \A x \in W : x < i => x < j /\ x # i
      BY <3>1
    <3> QED BY <3>1, <3>2
  <2>2. IsFiniteSet(Below(j) \ {i}) /\ Cardinality(Below(j) \ {i}) = Cardinality(Below(j)) - 1
    BY <1>2, <2>1, FS_RemoveElement
  <2>3. Cardinality(Below(i)) <= Cardinality(Below(j) \ {i})
    BY <2>1, <2>2, FS_Subset
  <2> QED BY <1>2, <2>2, <2>3
<1>4. \A i \in W : Cardinality(Below(i)) + 1 \in 1..n
  <2> TAKE i \in W
  <2>1. Below(i) \subseteq W \ {i}
    OBVIOUS
  <2>2. IsFiniteSet(W \ {i}) /\ Cardinality(W \ {i}) = n - 1
    BY FS_RemoveElement
  <2>3. Cardinality(Below(i)) <= n - 1
    BY <2>1, <2>2, FS_Subset
  <2> QED BY <1>1, <1>2, <2>3
<1> HIDE DEF Below, n
<1>5. Place \in [W -> 1..n] /\ \A i, j \in W : Place[i] = Place[j] => i = j
  BY <1>2, <1>3, <1>4
<1>6. Place \in Injection(W, 1..n)
  BY <1>5 DEF Injection, IsInjective
<1>7. IsFiniteSet(1..n) /\ Cardinality(1..n) = n
  BY <1>1, FS_Interval
<1>8. Place \in Surjection(W, 1..n)
  BY <1>6, <1>7, FS_Injection DEF n
<1>9. \A k \in 1..n : \E i \in W : Place[i] = k
  BY <1>8 DEF Surjection
<1>10. \A k \in 1..n : Ascending(W)[k] \in W /\ Cardinality(Below(Ascending(W)[k])) = k - 1
  <2> TAKE k \in 1..n
  <2>1. \E i \in W : Cardinality(Below(i)) = k - 1
    BY <1>1, <1>2, <1>9
  <2>2. Ascending(W)[k] = CHOOSE i \in W : Cardinality(Below(i)) = k - 1
    BY DEF Ascending, n, Below
  <2> QED BY <2>1, <2>2
<1>11. ASSUME NEW i \in W, NEW j \in W, Cardinality(Below(i)) <= Cardinality(Below(j))
       PROVE  i <= j
  <2>1. ~(j < i)
    BY <1>2, <1>3, <1>11
  <2> QED BY <2>1
<1>12. ASSUME NEW k \in 1..n, NEW l \in 1..n, k < l
       PROVE  Ascending(W)[k] < Ascending(W)[l]
  <2> DEFINE i == Ascending(W)[k]
             j == Ascending(W)[l]
  <2>1. /\ i \in W /\ Cardinality(Below(i)) = k - 1
        /\ j \in W /\ Cardinality(Below(j)) = l - 1
    BY <1>10
  <2> HIDE DEF i, j
  <2>2. i <= j /\ i # j
    BY <1>1, <1>11, <1>12, <2>1
  <2>3. i \in Int /\ j \in Int
    BY <2>1
  <2>4. i < j
    BY <2>2, <2>3
  <2> QED BY <2>4 DEF i, j
<1>13. ASSUME NEW i \in W
       PROVE  \E k \in 1..n : Ascending(W)[k] = i
  <2> DEFINE k == Cardinality(Below(i)) + 1
             j == Ascending(W)[k]
  <2>1. k \in 1..n
    BY <1>4
  <2>2. j \in W /\ Cardinality(Below(j)) = Cardinality(Below(i))
    BY <1>2, <1>10, <2>1
  <2> HIDE DEF k
  <2>3. i <= j /\ j <= i
    <3> HIDE DEF j
    <3>1. Cardinality(Below(i)) \in Nat
      BY <1>2
    <3> QED BY <1>11, <2>2, <3>1
  <2>4. i \in Int /\ j \in Int
    BY <2>2
  <2>5. j = i
    BY <2>3, <2>4
  <2> QED BY <2>1, <2>5
<1>14. DOMAIN Ascending(W) = 1..n
  BY DEF Ascending, n
<1> QED BY <1>1, <1>10, <1>12, <1>13, <1>14 DEF n

-----------------------------------------------------------------------------
(* What is in flight and what a viewer has read lies within the file.       *)
Polls == [from : Nat, upto : Int]
PollIn(p, n) == p.from <= n /\ (p.upto \in {-1, -2} \/ p.upto \in p.from..n)

Typed ==
  /\ script \in Scripts
  /\ size \in [Tasks -> Nat] /\ \A t \in Tasks : size[t] <= 2 * Len(script[t])
  /\ viewer \in Viewers \cup {"none"} /\ task \in Tasks
  /\ offset \in Nat /\ offset <= size[task]
  /\ polls \in Seq(Polls) /\ \A i \in DOMAIN polls : PollIn(polls[i], size[task])

LEMMA ScriptType ==
  ASSUME Typed, NEW t \in Tasks
  PROVE  /\ script[t] \in Seq(EventKinds)
         /\ Len(script[t]) \in Nat
         /\ \A i \in 1..Len(script[t]) : script[t][i] \in EventKinds
BY FeedsAssumption DEF Typed

LEMMA WithoutIs ==
  ASSUME polls \in Seq(Polls), NEW i \in 1..Len(polls)
  PROVE  /\ Without(i) \in Seq(Polls)
         /\ Len(Without(i)) = Len(polls) - 1
         /\ \A k \in DOMAIN Without(i) : \E l \in DOMAIN polls : Without(i)[k] = polls[l]
<1> DEFINE a == SubSeq(polls, 1, i - 1)
           b == SubSeq(polls, i + 1, Len(polls))
           n == Len(polls)
<1>1. n \in Nat /\ i \in 1..n /\ DOMAIN polls = 1..n /\ \A k \in 1..n : polls[k] \in Polls
  OBVIOUS
<1>2. /\ a \in Seq(Polls) /\ Len(a) = i - 1
      /\ \A k \in 1..(i - 1) : a[k] = polls[k]
  <2>1. \A k \in 1..(i - 1) : polls[k] \in Polls
    BY <1>1
  <2> QED BY <1>1, <2>1, SubSeqProperties
<1>3. /\ b \in Seq(Polls) /\ Len(b) = n - i
      /\ \A k \in 1..(n - i) : b[k] = polls[i + k]
  <2>1. \A k \in (i + 1)..n : polls[k] \in Polls
    BY <1>1
  <2>2. /\ b \in Seq(Polls) /\ Len(b) = IF i + 1 <= n THEN n - (i + 1) + 1 ELSE 0
        /\ \A k \in 1..(n - (i + 1) + 1) : b[k] = polls[(i + 1) + k - 1]
    BY <1>1, <2>1, SubSeqProperties
  <2>3. Len(b) = n - i
    <3> HIDE DEF n, b
    <3>1. (i + 1 <= n /\ n - (i + 1) + 1 = n - i) \/ (~(i + 1 <= n) /\ n - i = 0)
      BY <1>1
    <3> QED BY <2>2, <3>1
  <2>4. ASSUME NEW k \in 1..(n - i) PROVE b[k] = polls[i + k]
    <3>1. k \in 1..(n - (i + 1) + 1) /\ (i + 1) + k - 1 = i + k
      BY <1>1
    <3> QED BY <2>2, <3>1
  <2> QED BY <2>2, <2>3, <2>4
<1> HIDE DEF a, b, n
<1>4. /\ a \o b \in Seq(Polls) /\ Len(a \o b) = n - 1 /\ DOMAIN (a \o b) = 1..(n - 1)
      /\ \A k \in 1..(n - 1) : (a \o b)[k] = IF k <= i - 1 THEN a[k] ELSE b[k - (i - 1)]
  <2>1. a \o b \in Seq(Polls) /\ Len(a \o b) = Len(a) + Len(b)
        /\ \A k \in 1..(Len(a) + Len(b)) : (a \o b)[k] = IF k <= Len(a) THEN a[k] ELSE b[k - Len(a)]
    BY <1>2, <1>3, ConcatProperties
  <2>2. Len(a) + Len(b) = n - 1
    BY <1>1, <1>2, <1>3
  <2> QED BY <1>2, <2>1, <2>2
<1>5. \A k \in 1..(n - 1) : \E l \in 1..n : (a \o b)[k] = polls[l]
  <2> TAKE k \in 1..(n - 1)
  <2>1. CASE k <= i - 1
    BY <1>1, <1>2, <1>4, <2>1
  <2>2. CASE k > i - 1
    <3>1. k - (i - 1) \in 1..(n - i) /\ ~(k <= i - 1)
      BY <1>1, <2>2
    <3>2. (a \o b)[k] = polls[i + (k - (i - 1))]
      BY <1>3, <1>4, <3>1
    <3>3. i + (k - (i - 1)) \in 1..n
      BY <1>1, <3>1
    <3> QED BY <3>2, <3>3
  <2>3. k <= i - 1 \/ k > i - 1
    BY <1>1
  <2> QED BY <2>1, <2>2, <2>3
<1>6. Without(i) = a \o b
  BY DEF Without, RemoveAt, a, b
<1> QED BY <1>1, <1>4, <1>5, <1>6 DEF n

LEMMA TypedStep ==
  ASSUME Typed, [Next]_vars
  PROVE  Typed'
<1> USE DEF Typed
<1>a. \A t \in Tasks : size[t] \in Nat /\ Len(script[t]) \in Nat
  BY ScriptType
<1>1. ASSUME NEW t \in Tasks, Write(t) PROVE Typed'
  <2>1. PICK n \in {1, 2} : size' = [size EXCEPT ![t] = size[t] + n] /\ (n = 2 => size[t] % 2 = 0)
    BY <1>1 DEF Write
  <2>2. size[t] < 2 * Len(script[t])
    BY <1>1 DEF Write
  <2>3. size[t] + n <= 2 * Len(script[t])
    <3>1. size[t] \in Nat /\ Len(script[t]) \in Nat
      BY <1>a
    <3>2. CASE n = 1
      BY <2>2, <3>1, <3>2
    <3>3. CASE n = 2
      <4> DEFINE a == size[t]
                 b == Len(script[t])
      <4>1. a \in Nat /\ b \in Nat /\ a < 2 * b /\ a % 2 = 0
        BY <2>1, <2>2, <3>1, <3>3
      <4> HIDE DEF a, b
      <4>2. a + 2 <= 2 * b
        BY <4>1
      <4> QED BY <4>2, <3>3 DEF a, b
    <3> QED BY <3>2, <3>3
  <2>4. \A u \in Tasks : size'[u] \in Nat /\ size[u] <= size'[u] /\ size'[u] <= 2 * Len(script[u])
    BY <1>a, <2>1, <2>3
  <2>5. size' \in [Tasks -> Nat]
    BY <1>a, <2>1
  <2>6. UNCHANGED <<script, viewer, task, offset, polls>>
    BY <1>1 DEF Write, pollVars
  <2>7. \A i \in DOMAIN polls : PollIn(polls[i], size'[task])
    <3> TAKE i \in DOMAIN polls
    <3>1. polls[i].from \in Nat /\ polls[i].upto \in Int /\ PollIn(polls[i], size[task])
      <4>1. polls[i] \in Polls
        OBVIOUS
      <4> QED BY <4>1 DEF Polls
    <3>2. size[task] \in Nat /\ size'[task] \in Nat /\ size[task] <= size'[task]
      BY <1>a, <2>4
    <3> QED BY <3>1, <3>2 DEF PollIn
  <2>8. offset <= size'[task]
    BY <2>4
  <2> QED BY <2>4, <2>5, <2>6, <2>7, <2>8
<1>2. ASSUME NEW p, NEW from \in Nat, p = <<Asked(from)>>, from <= size[task]'
      PROVE  p \in Seq(Polls) /\ \A i \in DOMAIN p : PollIn(p[i], size[task]')
  <2>1. Asked(from) \in Polls /\ PollIn(Asked(from), size[task]')
    BY <1>2 DEF Asked, Polls, PollIn
  <2> QED BY <1>2, <2>1
<1>3. ASSUME NEW v \in Viewers, NEW t \in Tasks, Mount(v, t) PROVE Typed'
  BY <1>2, <1>3, <1>a DEF Mount, Reset
<1>4. ASSUME NEW t \in Tasks, ChangeTask(t) PROVE Typed'
  BY <1>2, <1>4, <1>a DEF ChangeTask, Reset
<1>5. ASSUME Unmount PROVE Typed'
  BY <1>5, <1>a DEF Unmount, Reset
<1>6. ASSUME Tick PROVE Typed'
  <2>1. Asked(offset) \in Polls /\ PollIn(Asked(offset), size[task])
    BY DEF Asked, Polls, PollIn
  <2>2. /\ polls' \in Seq(Polls)
        /\ \A i \in DOMAIN polls' : (i \in DOMAIN polls /\ polls'[i] = polls[i]) \/ polls'[i] = Asked(offset)
    <3>1. polls' = Append(polls, Asked(offset))
      BY <1>6 DEF Tick
    <3> HIDE DEF Asked
    <3> QED BY <2>1, <3>1, AppendProperties
  <2> QED BY <1>6, <2>1, <2>2 DEF Tick
<1>7. ASSUME NEW i \in Int, Serve(i) \/ NotFound(i) PROVE Typed'
  <2> DEFINE p == polls[i]
  <2>0. PICK n \in {-2, IF size[task] < p.from THEN p.from ELSE size[task]} : Replied(i, n)
    BY <1>7 DEF Serve, NotFound
  <2>1. i \in DOMAIN polls /\ p \in Polls /\ p.from <= size[task] /\ size[task] \in Nat
    <3>1. i \in 1..Len(polls) /\ DOMAIN polls = 1..Len(polls)
      BY <2>0 DEF Replied
    <3>2. p \in Polls /\ PollIn(p, size[task])
      BY <3>1
    <3> QED BY <3>1, <3>2 DEF PollIn
  <2>2. [p EXCEPT !.upto = n] \in Polls /\ PollIn([p EXCEPT !.upto = n], size[task])
    BY <2>1 DEF Polls, PollIn
  <2>3. polls' = [polls EXCEPT ![i] = [p EXCEPT !.upto = n]]
    BY <2>0, <2>1 DEF Replied
  <2>4. /\ polls' \in Seq(Polls) /\ DOMAIN polls' = DOMAIN polls
        /\ \A k \in DOMAIN polls : polls'[k] = polls[k] \/ polls'[k] = [p EXCEPT !.upto = n]
    BY <2>1, <2>2, <2>3
  <2> QED BY <2>0, <2>2, <2>4 DEF Replied
<1>8. ASSUME NEW i \in 1..Len(polls), polls' = Without(i),
             \/ offset' = offset
             \/ offset' = polls[i].upto /\ polls[i].upto >= 0,
             UNCHANGED <<script, size, viewer, task>>
      PROVE  Typed'
  <2>1. polls[i] \in Polls /\ PollIn(polls[i], size[task]) /\ i \in DOMAIN polls
    OBVIOUS
  <2>2. offset' \in Nat /\ offset' <= size[task]
    BY <1>8, <2>1 DEF Polls, PollIn
  <2> QED BY <1>8, <2>2, WithoutIs
<1>9. ASSUME NEW i \in Int, PollFails(i) \/ NotFoundAnswer(i) PROVE Typed'
  BY <1>8, <1>9 DEF PollFails, NotFoundAnswer
<1>10. ASSUME NEW i \in Int, StreamAnswer(i) PROVE Typed'
  BY <1>8, <1>10 DEF StreamAnswer
<1>11. ASSUME NEW i \in Int, LogAnswer(i) PROVE Typed'
  BY <1>8, <1>11 DEF LogAnswer
<1>12. ASSUME UNCHANGED <<script, size, viewer, task, polls, offset>> PROVE Typed'
  BY <1>12
<1>13. ASSUME (\E f \in Filters : ToggleFilter(f)) \/ ActivityAnswer \/ ActivityStops \/ UNCHANGED vars
       PROVE  Typed'
  BY <1>12, <1>13 DEF ToggleFilter, ActivityAnswer, ActivityStops, vars, pollVars
<1>14. \A i \in 1..(MaxOverlaps + 1) : i \in Int
  OBVIOUS
<1> QED
  BY <1>1, <1>3, <1>4, <1>5, <1>6, <1>7, <1>9, <1>10, <1>11, <1>13, <1>14
  DEF Next, Session, User, Answer

LEMMA TypeCorrect == Spec => []Typed
<1>1. Init => Typed
  BY FeedsAssumption DEF Init, Typed
<1> QED BY <1>1, TypedStep, PTL DEF Spec

-----------------------------------------------------------------------------
(* What the server returns: whole lines, in order, from the offset asked for *)
(* (or from the window of the first read) to the end of the file.            *)
Line(i) == [from |-> 2 * (i - 1), upto |-> 2 * i]
Lines == {Line(i) : i \in Nat \ {0}}
Ordered(s) == \A i, j \in DOMAIN s : i < j => s[i].upto <= s[j].from

LEMMA LineIs ==
  ASSUME NEW e \in Lines
  PROVE  e.from \in Nat /\ e.upto \in Nat /\ e.from < e.upto /\ e.upto = e.from + 2
BY DEF Lines, Line

LEMMA StartIs ==
  ASSUME NEW from \in Nat, NEW upto \in Nat
  PROVE  /\ Start(from, upto) \in Nat /\ from <= Start(from, upto)
         /\ Start(from, upto) # from => from = 0 /\ upto > TailUnits /\ Start(from, upto) % 2 = 0
<1>1. TailUnits \in Nat
  BY FeedsAssumption
<1>2. CASE from = 0 /\ upto > TailUnits
  <2>1. PICK k \in Nat : k = (upto - TailUnits) \div 2 + 1
    BY <1>1, <1>2
  <2>2. Start(from, upto) = 2 * k
    BY <1>2, <2>1 DEF Start
  <2> QED BY <1>2, <2>2
<1>3. CASE ~(from = 0 /\ upto > TailUnits)
  BY <1>3 DEF Start
<1> QED BY <1>2, <1>3

LEMMA WholeIs ==
  ASSUME NEW from \in Nat, NEW upto \in Nat, NEW t
  PROVE  /\ Whole(t, from, upto) \in SUBSET Int /\ IsFiniteSet(Whole(t, from, upto))
         /\ \A i \in Whole(t, from, upto) :
              i \in Nat \ {0} /\ Start(from, upto) <= 2 * (i - 1) /\ 2 * i <= upto
<1> DEFINE n == upto \div 2
<1>1. n \in Nat /\ 2 * n <= upto
  OBVIOUS
<1>2. IsFiniteSet(1..n)
  BY <1>1, FS_Interval
<1>3. Whole(t, from, upto) \in SUBSET (1..n)
  BY DEF Whole
<1>4. \A i \in Whole(t, from, upto) : Start(from, upto) <= 2 * (i - 1)
  BY StartIs DEF Whole
<1> HIDE DEF n
<1> QED BY <1>1, <1>2, <1>3, <1>4, FS_Subset

LEMMA EventsAre ==
  ASSUME NEW from \in Nat, NEW upto \in Nat, NEW t
  PROVE  /\ Events(t, from, upto) \in Seq(Lines)
         /\ \A n \in DOMAIN Events(t, from, upto) :
              \E i \in Whole(t, from, upto) : Events(t, from, upto)[n] = Line(i)
         /\ \A i \in Whole(t, from, upto) :
              \E n \in DOMAIN Events(t, from, upto) : Events(t, from, upto)[n] = Line(i)
         /\ Ordered(Events(t, from, upto))
<1> DEFINE W == Whole(t, from, upto)
           a == Ascending(W)
           new == Events(t, from, upto)
<1>1. /\ Cardinality(W) \in Nat /\ DOMAIN a = 1..Cardinality(W)
      /\ \A k \in DOMAIN a : a[k] \in W
      /\ \A k, l \in DOMAIN a : k < l => a[k] < a[l]
      /\ \A i \in W : \E k \in DOMAIN a : a[k] = i
  BY WholeIs, AscendingIs
<1>2. \A i \in W : i \in Nat \ {0}
  BY WholeIs
<1>3. new = [n \in DOMAIN a |-> Line(a[n])]
  BY DEF Events, Line
<1> HIDE DEF W, a, new
<1>4. \A n \in 1..Cardinality(W) : new[n] = Line(a[n]) /\ Line(a[n]) \in Lines
  BY <1>1, <1>2, <1>3 DEF Lines
<1>5. new \in [1..Cardinality(W) -> Lines]
  BY <1>1, <1>3, <1>4
<1>6. new \in Seq(Lines)
  BY <1>1, <1>5, SeqDef
<1>7. Ordered(new)
  <2> SUFFICES ASSUME NEW k \in DOMAIN a, NEW l \in DOMAIN a, k < l
               PROVE  new[k].upto <= new[l].from
    BY <1>1, <1>5 DEF Ordered
  <2>1. /\ a[k] < a[l] /\ a[k] \in Nat /\ a[l] \in Nat
        /\ new[k] = Line(a[k]) /\ new[l] = Line(a[l])
    BY <1>1, <1>2, <1>4
  <2>2. 2 * a[k] <= 2 * (a[l] - 1)
    BY <2>1
  <2> QED BY <2>1, <2>2 DEF Line
<1> QED BY <1>1, <1>3, <1>5, <1>6, <1>7 DEF new, W

LEMMA OrderedConcat ==
  ASSUME NEW s \in Seq(Lines), NEW t \in Seq(Lines), NEW n \in Nat, Ordered(s), Ordered(t),
         \A i \in DOMAIN s : s[i].upto <= n,
         \A i \in DOMAIN t : n <= t[i].from
  PROVE  Ordered(s \o t)
<1>1. /\ Len(s) \in Nat /\ Len(t) \in Nat /\ DOMAIN s = 1..Len(s) /\ DOMAIN t = 1..Len(t)
      /\ DOMAIN (s \o t) = 1..(Len(s) + Len(t))
      /\ \A i \in 1..(Len(s) + Len(t)) :
           (s \o t)[i] = IF i <= Len(s) THEN s[i] ELSE t[i - Len(s)]
  BY ConcatProperties, LenProperties
<1> SUFFICES ASSUME NEW i \in 1..(Len(s) + Len(t)), NEW j \in 1..(Len(s) + Len(t)), i < j
             PROVE  (s \o t)[i].upto <= (s \o t)[j].from
  BY <1>1 DEF Ordered
<1>2. CASE j <= Len(s)
  BY <1>1, <1>2 DEF Ordered
<1>3. CASE i <= Len(s) /\ ~(j <= Len(s))
  <2>1. i \in DOMAIN s /\ j - Len(s) \in DOMAIN t
    BY <1>1, <1>3
  <2>2. s[i] \in Lines /\ t[j - Len(s)] \in Lines
    BY <1>1, <2>1, ElementOfSeq
  <2>3. (s \o t)[i] = s[i] /\ (s \o t)[j] = t[j - Len(s)]
    BY <1>1, <1>3
  <2> QED BY <2>1, <2>2, <2>3, LineIs
<1>4. CASE ~(i <= Len(s))
  <2>1. /\ i - Len(s) \in DOMAIN t /\ j - Len(s) \in DOMAIN t /\ i - Len(s) < j - Len(s)
        /\ (s \o t)[i] = t[i - Len(s)] /\ (s \o t)[j] = t[j - Len(s)]
    BY <1>1, <1>4
  <2> QED BY <2>1 DEF Ordered
<1>5. i <= Len(s) \/ ~(i <= Len(s))
  OBVIOUS
<1> QED BY <1>1, <1>2, <1>3, <1>4

LEMMA OrderedTail ==
  ASSUME NEW s \in Seq(Lines), NEW m \in Nat, Len(s) > m, Ordered(s)
  PROVE  LET u == SubSeq(s, Len(s) - m + 1, Len(s))
         IN  /\ u \in Seq(Lines) /\ Ordered(u)
             /\ \A i \in DOMAIN u : \E j \in DOMAIN s : u[i] = s[j]
<1> DEFINE n == Len(s)
           u == SubSeq(s, n - m + 1, n)
<1>1. n \in Nat /\ DOMAIN s = 1..n /\ \A i \in 1..n : s[i] \in Lines
  BY LenProperties
<1>2. n > m
  OBVIOUS
<1> HIDE DEF n
<1>3. \A i \in (n - m + 1)..n : s[i] \in Lines
  BY <1>1, <1>2
<1>4. /\ u \in Seq(Lines) /\ Len(u) = IF n - m + 1 <= n THEN n - (n - m + 1) + 1 ELSE 0
      /\ \A i \in 1..(n - (n - m + 1) + 1) : u[i] = s[(n - m + 1) + i - 1]
  BY <1>1, <1>3, SubSeqProperties
<1>5. n - (n - m + 1) + 1 = m /\ (n - m + 1 <= n <=> m # 0)
  BY <1>1
<1>6. DOMAIN u = 1..m
  <2> HIDE DEF u
  <2> QED BY <1>4, <1>5, LenProperties
<1>7. \A i \in 1..m : u[i] = s[n - m + i] /\ n - m + i \in 1..n
  <2> TAKE i \in 1..m
  <2>1. (n - m + 1) + i - 1 = n - m + i /\ n - m + i \in 1..n
    BY <1>1, <1>2
  <2> QED BY <1>4, <1>5, <2>1
<1> HIDE DEF u
<1>8. Ordered(u)
  <2> SUFFICES ASSUME NEW i \in 1..m, NEW j \in 1..m, i < j
               PROVE  u[i].upto <= u[j].from
    BY <1>6 DEF Ordered
  <2>1. n - m + i < n - m + j
    BY <1>1
  <2> QED BY <1>1, <1>7, <2>1 DEF Ordered
<1> QED BY <1>1, <1>4, <1>6, <1>7, <1>8 DEF u, n

LEMMA EventUnits ==
  ASSUME NEW from \in Nat, NEW upto \in Nat, NEW t, NEW u
  PROVE  u \in Units(Events(t, from, upto)) <=>
           \E i \in Whole(t, from, upto) : u \in (2 * (i - 1) + 1)..(2 * i)
<1> DEFINE new == Events(t, from, upto)
<1>1. \A i : Line(i).from = 2 * (i - 1) /\ Line(i).upto = 2 * i
  BY DEF Line
<1>2. Range(new) = {Line(i) : i \in Whole(t, from, upto)}
  BY EventsAre DEF Range
<1> HIDE DEF new
<1>3. u \in Units(new) <=> \E e \in Range(new) : u \in (e.from + 1)..e.upto
  BY DEF Units
<1> QED BY <1>1, <1>2, <1>3 DEF new

-----------------------------------------------------------------------------
(* Why the stream's events come in order: at most one poll is in flight, it  *)
(* asks from the offset, and all that is shown lies below the offset.        *)
Streamed ==
  viewer = "stream" =>
    /\ Len(polls) <= 1 /\ \A i \in DOMAIN polls : polls[i].from = offset
    /\ shown \in Seq(Lines) /\ Ordered(shown)
    /\ \A i \in DOMAIN shown : shown[i].upto <= offset
    /\ seen \subseteq 1..offset

LEMMA AnswerIs ==
  ASSUME Typed, Streamed, NEW i \in Int, StreamAnswer(i)
  PROVE  /\ i \in DOMAIN polls /\ polls[i].from = offset /\ Len(polls) = 1
         /\ polls[i].upto \in offset..size[task] /\ size[task] \in Nat
<1>1. /\ i \in 1..Len(polls) /\ viewer = "stream" /\ polls[i].upto >= 0
      /\ Len(polls) \in Nat /\ DOMAIN polls = 1..Len(polls)
  BY LenProperties DEF StreamAnswer, Typed
<1>2. polls[i] \in Polls /\ PollIn(polls[i], size[task]) /\ polls[i].from = offset /\ Len(polls) <= 1
  BY <1>1 DEF Typed, Streamed
<1>3. size[task] \in Nat
  BY DEF Typed
<1> QED BY <1>1, <1>2, <1>3 DEF PollIn, Polls

LEMMA StreamedAnswer ==
  ASSUME Typed, Streamed, NEW i \in Int, StreamAnswer(i)
  PROVE  Streamed'
<1> DEFINE upto == polls[i].upto
           new == Events(task, offset, upto)
           all == shown \o new
<1>1. /\ i \in DOMAIN polls /\ polls[i].from = offset /\ Len(polls) = 1
      /\ offset \in Nat /\ upto \in Nat /\ offset <= upto
  BY AnswerIs DEF Typed
<1>2. /\ offset' = upto /\ seen' = seen \cup Units(new) /\ polls' = Without(i)
      /\ shown' = shown \/ shown' = all
         \/ (Len(all) > MaxEvents /\ shown' = SubSeq(all, Len(all) - MaxEvents + 1, Len(all)))
      /\ viewer = "stream"
  BY <1>1 DEF StreamAnswer
<1>3. /\ shown \in Seq(Lines) /\ Ordered(shown) /\ seen \subseteq 1..offset
      /\ \A k \in DOMAIN shown : shown[k].upto <= offset
  BY <1>2 DEF Streamed
<1>4. /\ new \in Seq(Lines) /\ Ordered(new)
      /\ \A n \in DOMAIN new : offset <= new[n].from /\ new[n].upto <= upto
  <2>1. new \in Seq(Lines) /\ Ordered(new)
    BY <1>1, EventsAre
  <2>2. ASSUME NEW n \in DOMAIN new PROVE offset <= new[n].from /\ new[n].upto <= upto
    <3>1. PICK k \in Whole(task, offset, upto) : new[n] = Line(k)
      BY <1>1, EventsAre
    <3>2. k \in Nat \ {0} /\ Start(offset, upto) <= 2 * (k - 1) /\ 2 * k <= upto
      BY <1>1, WholeIs
    <3>3. offset <= Start(offset, upto) /\ Start(offset, upto) \in Nat
      BY <1>1, StartIs
    <3> QED BY <1>1, <3>1, <3>2, <3>3 DEF Line
  <2> QED BY <2>1, <2>2
<1>5. Units(new) \subseteq 1..upto
  <2> SUFFICES ASSUME NEW u \in Units(new) PROVE u \in 1..upto
    OBVIOUS
  <2>1. PICK k \in Whole(task, offset, upto) : u \in (2 * (k - 1) + 1)..(2 * k)
    BY <1>1, EventUnits
  <2>2. k \in Nat \ {0} /\ 2 * k <= upto
    BY <1>1, WholeIs
  <2> QED BY <1>1, <2>1, <2>2
<1> HIDE DEF new, upto
<1>6. all \in Seq(Lines) /\ Ordered(all)
  BY <1>1, <1>3, <1>4, OrderedConcat, ConcatProperties
<1>7. \A k \in DOMAIN all : all[k].upto <= upto
  <2> TAKE k \in DOMAIN all
  <2>1. /\ k \in 1..(Len(shown) + Len(new)) /\ Len(shown) \in Nat /\ Len(new) \in Nat
        /\ DOMAIN shown = 1..Len(shown) /\ DOMAIN new = 1..Len(new)
        /\ all[k] = IF k <= Len(shown) THEN shown[k] ELSE new[k - Len(shown)]
    BY <1>3, <1>4, ConcatProperties, LenProperties
  <2>2. CASE k <= Len(shown)
    <3>1. shown[k] \in Lines /\ shown[k].upto <= offset
      BY <1>3, <2>1, <2>2, ElementOfSeq
    <3> QED BY <1>1, <2>1, <2>2, <3>1, LineIs
  <2>3. CASE ~(k <= Len(shown))
    <3>1. k - Len(shown) \in DOMAIN new
      BY <2>1, <2>3
    <3> QED BY <1>4, <2>1, <2>3, <3>1
  <2> QED BY <2>2, <2>3
<1>8. /\ shown' \in Seq(Lines) /\ Ordered(shown')
      /\ \A k \in DOMAIN shown' : shown'[k].upto <= upto
  <2>1. CASE shown' = shown
    <3>1. \A k \in DOMAIN shown : shown[k] \in Lines
      BY <1>3
    <3> QED BY <1>1, <1>3, <2>1, <3>1, LineIs
  <2>2. CASE shown' = all
    BY <1>6, <1>7, <2>2
  <2>3. CASE Len(all) > MaxEvents /\ shown' = SubSeq(all, Len(all) - MaxEvents + 1, Len(all))
    <3>1. MaxEvents \in Nat
      BY FeedsAssumption
    <3> HIDE DEF all
    <3>2. /\ shown' \in Seq(Lines) /\ Ordered(shown')
          /\ \A k \in DOMAIN shown' : \E j \in DOMAIN all : shown'[k] = all[j]
      BY <1>6, <2>3, <3>1, OrderedTail
    <3> QED BY <1>7, <3>2
  <2> QED BY <1>2, <2>1, <2>2, <2>3
<1>9. Len(polls') = 0 /\ DOMAIN polls' = {}
  <2>1. polls \in Seq(Polls) /\ i \in 1..Len(polls)
    BY <1>1, LenProperties DEF Typed
  <2>2. polls' \in Seq(Polls) /\ Len(polls') = 0
    BY <1>1, <1>2, <2>1, WithoutIs
  <2> QED BY <2>2, LenProperties
<1>10. seen' \subseteq 1..upto
  <2>1. 1..offset \subseteq 1..upto
    BY <1>1
  <2>2. seen' = seen \cup Units(new) /\ seen \subseteq 1..offset
    BY <1>2, <1>3
  <2> HIDE DEF upto, new
  <2> QED BY <1>5, <2>1, <2>2
<1> QED BY <1>2, <1>8, <1>9, <1>10 DEF Streamed

LEMMA StreamedStep ==
  ASSUME Typed, Streamed, [Next]_vars
  PROVE  Streamed'
<1>1. ASSUME viewer' = viewer, offset' = offset, shown' = shown, seen' = seen,
             \/ polls' = polls
             \/ polls = <<>> /\ polls' = Append(polls, Asked(offset))
             \/ \E i \in 1..Len(polls) : polls' = Without(i) \/ \E n \in Int : polls' = [polls EXCEPT ![i].upto = n]
      PROVE  Streamed'
  <2>1. polls \in Seq(Polls)
    BY DEF Typed
  <2>2. SUFFICES ASSUME viewer = "stream"
                 PROVE  Len(polls') <= 1 /\ \A k \in DOMAIN polls' : polls'[k].from = offset
    BY <1>1 DEF Streamed
  <2>3. /\ Len(polls) \in Nat /\ Len(polls) <= 1 /\ DOMAIN polls = 1..Len(polls)
        /\ \A k \in DOMAIN polls : polls[k].from = offset
    BY <2>1, <2>2, LenProperties DEF Streamed
  <2>4. CASE polls = <<>> /\ polls' = Append(polls, Asked(offset))
    <3>1. polls' = <<Asked(offset)>>
      BY <2>4
    <3> QED BY <3>1 DEF Asked
  <2>5. ASSUME NEW i \in 1..Len(polls), polls' = Without(i)
        PROVE  Len(polls') <= 1 /\ \A k \in DOMAIN polls' : polls'[k].from = offset
    <3>1. /\ Len(Without(i)) = Len(polls) - 1
          /\ \A k \in DOMAIN Without(i) : \E l \in DOMAIN polls : Without(i)[k] = polls[l]
      BY <2>1, <2>5, WithoutIs
    <3> QED BY <2>3, <2>5, <3>1
  <2>6. ASSUME NEW i \in 1..Len(polls), NEW n \in Int, polls' = [polls EXCEPT ![i].upto = n]
        PROVE  Len(polls') <= 1 /\ \A k \in DOMAIN polls' : polls'[k].from = offset
    <3>0. polls[i] \in Polls
      BY <2>1, <2>6, ElementOfSeq
    <3>1. [polls[i] EXCEPT !.upto = n] \in Polls
          /\ [polls[i] EXCEPT !.upto = n].from = polls[i].from
      BY <2>6, <3>0 DEF Polls
    <3>2. polls' = [polls EXCEPT ![i] = [polls[i] EXCEPT !.upto = n]]
      BY <2>6
    <3>3. /\ polls' \in Seq(Polls) /\ Len(polls') = Len(polls) /\ DOMAIN polls' = DOMAIN polls
          /\ \A k \in DOMAIN polls : polls'[k] = IF k = i THEN [polls[i] EXCEPT !.upto = n] ELSE polls[k]
      BY <2>1, <2>3, <3>1, <3>2
    <3> QED BY <2>3, <3>1, <3>3
  <2> QED BY <1>1, <2>3, <2>4, <2>5, <2>6
<1>2. ASSUME viewer' # "stream" PROVE Streamed'
  BY <1>2 DEF Streamed
<1>3. ASSUME offset' = 0, shown' = <<>>, seen' = {}, polls' = <<Asked(0)>> PROVE Streamed'
  BY <1>3 DEF Streamed, Ordered, Asked
<1>4. ASSUME NEW t \in Tasks, Write(t) PROVE Streamed'
  BY <1>1, <1>4 DEF Write, pollVars
<1>5. ASSUME NEW t \in Tasks, (\E v \in Viewers : Mount(v, t)) \/ ChangeTask(t) PROVE Streamed'
  BY <1>3, <1>5 DEF Mount, ChangeTask, Reset
<1>6. ASSUME Unmount PROVE Streamed'
  BY <1>2, <1>6 DEF Unmount
<1>7. ASSUME Tick PROVE Streamed'
  BY <1>1, <1>2, <1>7 DEF Tick
<1>8. ASSUME NEW i \in Int, Serve(i) \/ NotFound(i) PROVE Streamed'
  <2>0. PICK n \in {-2, IF size[task] < polls[i].from THEN polls[i].from ELSE size[task]} : Replied(i, n)
    BY <1>8 DEF Serve, NotFound
  <2>1. i \in 1..Len(polls) /\ polls' = [polls EXCEPT ![i].upto = n]
    BY <2>0 DEF Replied
  <2>2. n \in Int
    <3>1. polls[i] \in Polls /\ size[task] \in Nat
      BY <2>1 DEF Typed
    <3> QED BY <3>1 DEF Polls
  <2> QED BY <1>1, <2>0, <2>1, <2>2 DEF Replied
<1>9. ASSUME NEW i \in Int, PollFails(i) \/ NotFoundAnswer(i) PROVE Streamed'
  BY <1>1, <1>9 DEF PollFails, NotFoundAnswer
<1>10. ASSUME NEW i \in Int, StreamAnswer(i) PROVE Streamed'
  BY <1>10, StreamedAnswer
<1>11. ASSUME NEW i \in Int, LogAnswer(i) PROVE Streamed'
  BY <1>2, <1>11 DEF LogAnswer
<1>12. ASSUME (\E f \in Filters : ToggleFilter(f)) \/ ActivityAnswer \/ ActivityStops \/ UNCHANGED vars
       PROVE  Streamed'
  BY <1>1, <1>12 DEF ToggleFilter, ActivityAnswer, ActivityStops, vars, pollVars
<1>13. \A i \in 1..(MaxOverlaps + 1) : i \in Int
  OBVIOUS
<1> QED
  BY <1>4, <1>5, <1>6, <1>7, <1>8, <1>9, <1>10, <1>11, <1>12, <1>13
  DEF Next, Session, User, Answer

LEMMA AlwaysStreamed == Spec => []Streamed
<1>1. Init => Streamed
  BY DEF Init, Streamed
<1> QED BY <1>1, TypeCorrect, StreamedStep, PTL DEF Spec

(* Whatever the timing of the timer, the server and the session that writes, *)
(* and however often the task is changed, the stream viewer shows no event   *)
(* twice and none before one that comes earlier in the file: the inFlight    *)
(* guard keeps the reads one after the other.                                *)
THEOREM ShownInOrder == Spec => []InOrder
<1>1. Streamed => InOrder
  BY DEF Streamed, Ordered, InOrder
<1> QED BY <1>1, AlwaysStreamed, PTL

-----------------------------------------------------------------------------
(* The half line arithmetic of one read of the stream: a unit after the     *)
(* start of the read is the rest of the line the start cut in two, or the   *)
(* last one of the file, or belongs to a line read whole.                   *)
LEMMA HalfLine ==
  ASSUME NEW s \in Nat, NEW upto \in Nat, NEW u \in Nat, s < u, u <= upto
  PROVE  LET k == (u + 1) \div 2 IN
         /\ k \in Nat \ {0} /\ u \in (2 * (k - 1) + 1)..(2 * k)
         /\ \/ s % 2 = 1 /\ u = s + 1
            \/ upto % 2 = 1 /\ u = upto
            \/ s <= 2 * (k - 1) /\ 2 * k <= upto /\ k \in 1..(upto \div 2)
<1> DEFINE k == (u + 1) \div 2
<1>1. k \in Nat /\ (u = 2 * k \/ u = 2 * k - 1) /\ k # 0
  OBVIOUS
<1> HIDE DEF k
<1>2. CASE s > 2 * (k - 1)
  <2>1. s = 2 * k - 1 /\ u = 2 * k
    BY <1>1, <1>2
  <2>2. s % 2 = 1
    BY <1>1, <2>1
  <2> QED BY <1>1, <2>1, <2>2 DEF k
<1>3. CASE 2 * k > upto
  <2>1. upto = 2 * k - 1 /\ u = upto
    BY <1>1, <1>3
  <2>2. upto % 2 = 1
    BY <1>1, <2>1
  <2> QED BY <1>1, <2>1, <2>2 DEF k
<1>4. CASE s <= 2 * (k - 1) /\ 2 * k <= upto
  <2>1. k \in 1..(upto \div 2)
    BY <1>1, <1>4
  <2> QED BY <1>1, <1>4, <2>1 DEF k
<1>5. s > 2 * (k - 1) \/ 2 * k > upto \/ (s <= 2 * (k - 1) /\ 2 * k <= upto)
  BY <1>1
<1> QED BY <1>2, <1>3, <1>4, <1>5

(* A unit of the stream is accounted for.                                    *)
Told(u) ==
  LET i == (u + 1) \div 2 IN
  \/ u \in seen \cup lost
  \/ size[task] > TailUnits /\ \A v \in seen : v > u
  \/ i <= Len(script[task]) /\ script[task][i].type = "system"
AllTold == viewer = "stream" => \A u \in 1..offset : Told(u)

LEMMA ToldByAnswer ==
  ASSUME Typed, Streamed, AllTold, NEW i \in Int, StreamAnswer(i)
  PROVE  AllTold'
<1> DEFINE upto == polls[i].upto
           s == Start(offset, upto)
           new == Units(Events(task, offset, upto))
<1>1. /\ i \in DOMAIN polls /\ polls[i].from = offset
      /\ offset \in Nat /\ upto \in Nat /\ offset <= upto /\ upto <= size[task] /\ size[task] \in Nat
  BY AnswerIs DEF Typed
<1>2. /\ offset' = upto /\ seen' = seen \cup new
      /\ lost' = lost \cup (IF s % 2 = 1 THEN {offset, offset + 1} ELSE {})
                      \cup (IF upto % 2 = 1 THEN {upto, upto + 1} ELSE {})
      /\ viewer = "stream" /\ UNCHANGED <<script, size, viewer, task>>
  BY <1>1 DEF StreamAnswer
<1>3. /\ s \in Nat /\ offset <= s
      /\ s # offset => offset = 0 /\ upto > TailUnits /\ s % 2 = 0
  BY <1>1, StartIs
<1>4. \A v \in new : v > s
  <2> TAKE v \in new
  <2>1. PICK k \in Whole(task, offset, upto) : v \in (2 * (k - 1) + 1)..(2 * k)
    BY <1>1, EventUnits
  <2>2. k \in Nat \ {0} /\ s <= 2 * (k - 1)
    BY <1>1, WholeIs
  <2> HIDE DEF s
  <2> QED BY <1>3, <2>1, <2>2
<1>5. seen \subseteq 1..offset /\ TailUnits \in Nat /\ Len(script[task]) \in Nat
      /\ size[task] <= 2 * Len(script[task])
  BY <1>2, ScriptType, FeedsAssumption DEF Streamed, Typed
<1>6. SUFFICES ASSUME NEW u \in 1..upto PROVE Told(u)'
  BY <1>2 DEF AllTold
<1>7. u \in Nat /\ 0 < u
  BY <1>1
<1>8. CASE u <= offset
  <2>1. Told(u)
    BY <1>1, <1>2, <1>7, <1>8 DEF AllTold
  <2>2. \A v \in new : v > u
    <3> TAKE v \in new
    <3>1. v > s /\ v \in Int
      <4>1. PICK k \in Whole(task, offset, upto) : v \in (2 * (k - 1) + 1)..(2 * k)
        BY <1>1, EventUnits
      <4>2. k \in Nat
        BY <1>1, WholeIs
      <4> QED BY <1>4, <4>1, <4>2
    <3> HIDE DEF s
    <3> QED BY <1>1, <1>3, <1>7, <1>8, <3>1
  <2> HIDE DEF new, s, upto
  <2>3. (\A v \in seen : v > u) => \A v \in seen' : v > u
    BY <1>2, <2>2
  <2>4. u \in seen \cup lost => u \in (seen \cup lost)'
    BY <1>2
  <2> QED BY <1>2, <2>1, <2>3, <2>4 DEF Told
<1>9. CASE offset < u /\ u <= s
  <2>1. offset = 0 /\ upto > TailUnits
    BY <1>1, <1>3, <1>7, <1>9
  <2>2. seen = {}
    BY <1>5, <2>1
  <2>3. size[task] > TailUnits
    <3> HIDE DEF upto
    <3> QED BY <1>1, <1>5, <2>1
  <2>4. \A v \in seen' : v > u
    <3> TAKE v \in seen'
    <3>1. v \in new
      BY <1>2, <2>2
    <3>2. v > s /\ v \in Int
      <4>1. PICK k \in Whole(task, offset, upto) : v \in (2 * (k - 1) + 1)..(2 * k)
        BY <1>1, <3>1, EventUnits
      <4>2. k \in Nat
        BY <1>1, WholeIs
      <4> QED BY <1>4, <3>1, <4>1, <4>2
    <3> HIDE DEF s, new
    <3> QED BY <1>3, <1>7, <1>9, <3>2
  <2> QED BY <1>2, <2>3, <2>4 DEF Told
<1>10. CASE s < u
  <2> DEFINE k == (u + 1) \div 2
  <2>1. /\ k \in Nat \ {0} /\ u \in (2 * (k - 1) + 1)..(2 * k)
        /\ \/ s % 2 = 1 /\ u = s + 1
           \/ upto % 2 = 1 /\ u = upto
           \/ s <= 2 * (k - 1) /\ 2 * k <= upto /\ k \in 1..(upto \div 2)
    <3> HIDE DEF s, upto
    <3>1. u <= upto
      BY <1>1
    <3> QED BY <1>1, <1>3, <1>7, <1>10, <3>1, HalfLine
  <2>2. CASE s % 2 = 1 /\ u = s + 1
    <3>1. u = offset + 1
      BY <1>3, <2>2
    <3> HIDE DEF s, upto, new
    <3>2. u \in lost'
      BY <1>2, <2>2, <3>1
    <3> QED BY <3>2 DEF Told
  <2>3. CASE upto % 2 = 1 /\ u = upto
    <3> HIDE DEF s, upto, new
    <3>1. u \in lost'
      BY <1>2, <2>3
    <3> QED BY <3>1 DEF Told
  <2>4. CASE s <= 2 * (k - 1) /\ 2 * k <= upto /\ k \in 1..(upto \div 2)
    <3>1. CASE script[task][k].type = "system"
      <4>1. k <= Len(script[task])
        <5> HIDE DEF k, upto
        <5>1. 2 * k <= 2 * Len(script[task])
          BY <1>1, <1>5, <2>1, <2>4
        <5> QED BY <1>5, <2>1, <5>1
      <4> QED BY <1>2, <3>1, <4>1 DEF Told
    <3>2. CASE script[task][k].type # "system"
      <4>1. k \in Whole(task, offset, upto)
        BY <2>4, <3>2 DEF Whole
      <4>2. u \in new
        BY <1>1, <2>1, <4>1, EventUnits
      <4> HIDE DEF new
      <4> QED BY <1>2, <4>2 DEF Told
    <3> QED BY <3>1, <3>2
  <2> QED BY <2>1, <2>2, <2>3, <2>4
<1> HIDE DEF s, upto
<1>11. u <= offset \/ (offset < u /\ u <= s) \/ s < u
  BY <1>1, <1>3, <1>7
<1> QED BY <1>8, <1>9, <1>10, <1>11

LEMMA AllToldStep ==
  ASSUME Typed, Streamed, AllTold, [Next]_vars
  PROVE  AllTold'
<1>1. ASSUME UNCHANGED <<script, viewer, task, offset, seen, lost>>,
             \A t \in Tasks : size[t] \in Nat /\ size'[t] \in Nat /\ size[t] <= size'[t]
      PROVE  AllTold'
  <2> SUFFICES ASSUME viewer = "stream", NEW u \in 1..offset PROVE Told(u)'
    BY <1>1 DEF AllTold
  <2>1. Told(u)
    BY DEF AllTold
  <2>2. /\ task \in Tasks /\ size[task] \in Nat /\ size'[task] \in Nat /\ size[task] <= size'[task]
        /\ TailUnits \in Nat
    BY <1>1, FeedsAssumption DEF Typed
  <2>3. size[task] > TailUnits => size'[task] > TailUnits
    BY <2>2
  <2> QED BY <1>1, <2>1, <2>3 DEF Told
<1>2. ASSUME viewer' # "stream" \/ offset' = 0 PROVE AllTold'
  BY <1>2 DEF AllTold
<1>3. \A t \in Tasks : size[t] \in Nat /\ size[t] <= size[t]
  BY DEF Typed
<1>4. ASSUME NEW t \in Tasks, Write(t) PROVE AllTold'
  <2>1. PICK n \in {1, 2} : size' = [size EXCEPT ![t] = size[t] + n]
    BY <1>4 DEF Write
  <2>2. \A v \in Tasks : size[v] \in Nat /\ size'[v] \in Nat /\ size[v] <= size'[v]
    BY <2>1 DEF Typed
  <2> QED BY <1>1, <1>4, <2>2 DEF Write, pollVars
<1>5. ASSUME NEW t \in Tasks, (\E v \in Viewers : Mount(v, t)) \/ ChangeTask(t) \/ Unmount PROVE AllTold'
  BY <1>2, <1>5 DEF Mount, ChangeTask, Unmount, Reset
<1>6. ASSUME NEW i \in Int, StreamAnswer(i) PROVE AllTold'
  BY <1>6, ToldByAnswer
<1>7. ASSUME NEW i \in Int, LogAnswer(i) PROVE AllTold'
  BY <1>2, <1>7 DEF LogAnswer
<1>8. ASSUME NEW i \in Int, Serve(i) \/ NotFound(i) \/ PollFails(i) \/ NotFoundAnswer(i) PROVE AllTold'
  BY <1>1, <1>3, <1>8 DEF Serve, NotFound, Replied, PollFails, NotFoundAnswer
<1>9. ASSUME Tick \/ (\E f \in Filters : ToggleFilter(f)) \/ ActivityAnswer \/ ActivityStops \/ UNCHANGED vars
      PROVE  AllTold'
  BY <1>1, <1>3, <1>9 DEF Tick, ToggleFilter, ActivityAnswer, ActivityStops, vars, pollVars
<1>10. \A i \in 1..(MaxOverlaps + 1) : i \in Int
  OBVIOUS
<1>11. CASE Unmount
  BY <1>2, <1>11 DEF Unmount
<1> QED
  BY <1>4, <1>5, <1>6, <1>7, <1>8, <1>9, <1>10, <1>11 DEF Next, Session, User, Answer

-----------------------------------------------------------------------------
(* The log, as long as it fits the first read: what a poll asks from and    *)
(* what lies below the offset was shown, however the polls overlap.         *)
Covered ==
  viewer = "log" /\ size[task] <= TailUnits =>
    /\ 1..offset \subseteq seen
    /\ \A i \in DOMAIN polls : 1..polls[i].from \subseteq seen

LEMMA LogUnits ==
  ASSUME NEW from \in Nat, NEW upto \in Nat, upto <= TailUnits, from < upto
  PROVE  (from + 1)..upto \subseteq Units(LogLines(from, upto))
<1> DEFINE first == from \div 2
           last == (upto + 1) \div 2
           new == [n \in 1..(last - first) |->
                     [from |-> IF n = 1 THEN from ELSE 2 * (first + n - 1),
                      upto |-> IF n = last - first THEN upto ELSE 2 * (first + n)]]
<1>1. TailUnits \in Nat
  BY FeedsAssumption
<1>2. Start(from, upto) = from
  BY <1>1 DEF Start
<1>3. LogLines(from, upto) = new
  BY <1>2 DEF LogLines
<1> SUFFICES ASSUME NEW v \in (from + 1)..upto PROVE v \in Units(new)
  BY <1>3
<1> DEFINE n == (v + 1) \div 2 - first
<1>4. /\ first \in Nat /\ last \in Nat /\ n \in 1..(last - first)
      /\ v \in (2 * (first + n - 1) + 1)..(2 * (first + n))
  OBVIOUS
<1>5. n \in DOMAIN new /\ v \in (new[n].from + 1)..new[n].upto
  <2>1. new[n] = [from |-> IF n = 1 THEN from ELSE 2 * (first + n - 1),
                  upto |-> IF n = last - first THEN upto ELSE 2 * (first + n)]
    BY <1>4
  <2> HIDE DEF first, last, n
  <2> QED BY <1>4, <2>1
<1> HIDE DEF new, n
<1> QED BY <1>5 DEF Units, Range

LEMMA CoveredAnswer ==
  ASSUME Typed, Covered, NEW i \in Int, LogAnswer(i)
  PROVE  Covered'
<1> DEFINE p == polls[i]
           new == LogLines(p.from, p.upto)
<1>1. /\ i \in 1..Len(polls) /\ p.upto >= 0 /\ polls' = Without(i) /\ viewer = "log"
      /\ UNCHANGED <<size, task, viewer>>
      /\ \/ UNCHANGED <<offset, seen>>
         \/ new # <<>> /\ offset' = p.upto /\ seen' = seen \cup Units(new)
  BY DEF LogAnswer
<1>2. p \in Polls /\ PollIn(p, size[task]) /\ i \in DOMAIN polls /\ size[task] \in Nat /\ TailUnits \in Nat
  BY <1>1, FeedsAssumption DEF Typed
<1>3. p.from \in Nat /\ p.upto \in Nat /\ p.from <= p.upto /\ p.upto <= size[task]
  BY <1>1, <1>2 DEF Polls, PollIn
<1> SUFFICES ASSUME size[task] <= TailUnits
             PROVE  1..offset' \subseteq seen' /\ \A k \in DOMAIN polls' : 1..polls'[k].from \subseteq seen'
  BY <1>1 DEF Covered
<1>4. 1..offset \subseteq seen /\ \A k \in DOMAIN polls : 1..polls[k].from \subseteq seen
  BY <1>1 DEF Covered
<1>5. seen \subseteq seen'
  BY <1>1
<1>6. \A k \in DOMAIN polls' : 1..polls'[k].from \subseteq seen'
  <2>1. \A k \in DOMAIN Without(i) : \E l \in DOMAIN polls : Without(i)[k] = polls[l]
    BY <1>1, WithoutIs DEF Typed
  <2> QED BY <1>1, <1>4, <1>5, <2>1
<1>7. CASE UNCHANGED <<offset, seen>>
  BY <1>4, <1>6, <1>7
<1>8. CASE new # <<>> /\ offset' = p.upto /\ seen' = seen \cup Units(new)
  <2>1. p.from < p.upto
    <3>1. Start(p.from, p.upto) < p.upto
      <4>1. Start(p.from, p.upto) \in Nat
        BY <1>3, StartIs
      <4>2. ~(p.upto <= Start(p.from, p.upto))
        BY <1>8 DEF LogLines
      <4> QED BY <1>3, <4>1, <4>2
    <3>2. p.from <= Start(p.from, p.upto) /\ Start(p.from, p.upto) \in Nat
      BY <1>3, StartIs
    <3> QED BY <1>3, <3>1, <3>2
  <2>2. (p.from + 1)..p.upto \subseteq Units(new)
    <3>1. p.upto <= TailUnits
      BY <1>2, <1>3
    <3> QED BY <1>3, <2>1, <3>1, LogUnits
  <2>3. 1..p.from \subseteq seen
    BY <1>2, <1>4
  <2>4. 1..p.upto \subseteq 1..p.from \cup (p.from + 1)..p.upto
    BY <1>3
  <2> HIDE DEF p, new
  <2> QED BY <1>6, <1>8, <2>2, <2>3, <2>4
<1> QED BY <1>1, <1>7, <1>8

LEMMA CoveredStep ==
  ASSUME Typed, Covered, [Next]_vars
  PROVE  Covered'
<1>1. ASSUME UNCHANGED <<viewer, task, offset, seen>>,
             size[task] <= size'[task], size'[task] \in Nat,
             \A i \in DOMAIN polls' : polls'[i].from = offset
                                      \/ \E k \in DOMAIN polls : polls'[i].from = polls[k].from
      PROVE  Covered'
  <2> SUFFICES ASSUME viewer = "log", size'[task] <= TailUnits
               PROVE  1..offset \subseteq seen /\ \A k \in DOMAIN polls' : 1..polls'[k].from \subseteq seen
    BY <1>1 DEF Covered
  <2>1. size[task] <= TailUnits
    BY <1>1, FeedsAssumption DEF Typed
  <2>2. 1..offset \subseteq seen /\ \A k \in DOMAIN polls : 1..polls[k].from \subseteq seen
    BY <2>1 DEF Covered
  <2> QED BY <1>1, <2>2
<1>2. ASSUME viewer' # "log" PROVE Covered'
  BY <1>2 DEF Covered
<1>3. ASSUME offset' = 0, polls' = <<Asked(0)>> PROVE Covered'
  BY <1>3 DEF Covered, Asked
<1>4. size[task] \in Nat /\ size[task] <= size[task] /\ polls \in Seq(Polls) /\ DOMAIN polls = 1..Len(polls)
  BY LenProperties DEF Typed
<1>5. ASSUME NEW t \in Tasks, Write(t) PROVE Covered'
  <2>1. PICK n \in {1, 2} : size' = [size EXCEPT ![t] = size[t] + n]
    BY <1>5 DEF Write
  <2>2. size[task] <= size'[task] /\ size'[task] \in Nat
    BY <2>1 DEF Typed
  <2> QED BY <1>1, <1>5, <2>2 DEF Write, pollVars
<1>6. ASSUME NEW t \in Tasks, (\E v \in Viewers : Mount(v, t)) \/ ChangeTask(t) PROVE Covered'
  BY <1>3, <1>6 DEF Mount, ChangeTask, Reset
<1>7. ASSUME Unmount PROVE Covered'
  BY <1>2, <1>7 DEF Unmount
<1>8. ASSUME Tick PROVE Covered'
  <2>1. polls' = Append(polls, Asked(offset)) /\ UNCHANGED <<viewer, task, offset, seen, size>>
    BY <1>8 DEF Tick
  <2>2. \A i \in DOMAIN polls' : (i \in DOMAIN polls /\ polls'[i] = polls[i]) \/ polls'[i] = Asked(offset)
    BY <1>4, <2>1
  <2>3. \A i \in DOMAIN polls' : polls'[i].from = offset
                                 \/ \E k \in DOMAIN polls : polls'[i].from = polls[k].from
    BY <2>2 DEF Asked
  <2> QED BY <1>1, <1>4, <2>1, <2>3
<1>9. ASSUME NEW i \in Int, Serve(i) \/ NotFound(i) PROVE Covered'
  <2>0. PICK n \in {-2, IF size[task] < polls[i].from THEN polls[i].from ELSE size[task]} : Replied(i, n)
    BY <1>9 DEF Serve, NotFound
  <2>1. i \in DOMAIN polls /\ polls' = [polls EXCEPT ![i].upto = n] /\ UNCHANGED <<viewer, task, offset, seen, size>>
    BY <1>4, <2>0 DEF Replied
  <2>2. polls[i] \in Polls
    BY <1>4, <2>1
  <2>3. [polls[i] EXCEPT !.upto = n].from = polls[i].from
    BY <2>2 DEF Polls
  <2>4. \A k \in DOMAIN polls' : k \in DOMAIN polls /\ polls'[k].from = polls[k].from
    BY <2>1, <2>3
  <2> QED BY <1>1, <1>4, <2>1, <2>4
<1>10. ASSUME NEW i \in Int, PollFails(i) \/ NotFoundAnswer(i) PROVE Covered'
  <2>1. i \in 1..Len(polls) /\ polls' = Without(i) /\ UNCHANGED <<viewer, task, offset, seen, size>>
    BY <1>10 DEF PollFails, NotFoundAnswer
  <2>2. \A k \in DOMAIN Without(i) : \E l \in DOMAIN polls : Without(i)[k] = polls[l]
    BY <1>4, <2>1, WithoutIs
  <2> QED BY <1>1, <1>4, <2>1, <2>2
<1>11. ASSUME NEW i \in Int, StreamAnswer(i) PROVE Covered'
  BY <1>2, <1>11 DEF StreamAnswer
<1>12. ASSUME NEW i \in Int, LogAnswer(i) PROVE Covered'
  BY <1>12, CoveredAnswer
<1>13. ASSUME (\E f \in Filters : ToggleFilter(f)) \/ ActivityAnswer \/ ActivityStops \/ UNCHANGED vars
       PROVE  Covered'
  <2>1. UNCHANGED <<viewer, task, offset, seen, size, polls>>
    BY <1>13 DEF ToggleFilter, ActivityAnswer, ActivityStops, vars, pollVars
  <2> QED BY <1>1, <1>4, <2>1
<1>14. \A i \in 1..(MaxOverlaps + 1) : i \in Int
  OBVIOUS
<1> QED
  BY <1>5, <1>6, <1>7, <1>8, <1>9, <1>10, <1>11, <1>12, <1>13, <1>14 DEF Next, Session, User, Answer

(* Nothing is left out of a viewer: of the stream, whatever the timing, each *)
(* unit below the offset was shown, or belongs to a system event or to a     *)
(* line a read cut in two, or lies before the window of the first read; of a *)
(* log that fits the first read, each unit was shown, although its polls may *)
(* overlap and their answers come out of order.                              *)
THEOREM NoneSkipped == Spec => []NothingSkipped
<1>1. Init => AllTold /\ Covered
  BY DEF Init, AllTold, Covered
<1>2. AllTold /\ Covered => NothingSkipped
  <2> SUFFICES ASSUME AllTold, Covered, NEW u \in 1..offset,
                      viewer = "stream" \/ (viewer = "log" /\ size[task] <= TailUnits)
               PROVE  LET i == (u + 1) \div 2 IN
                      \/ u \in seen \cup lost
                      \/ size[task] > TailUnits /\ \A v \in seen : v > u
                      \/ viewer = "stream" /\ i <= Len(script[task]) /\ script[task][i].type = "system"
    BY DEF NothingSkipped
  <2>1. CASE viewer = "stream"
    BY <2>1 DEF AllTold, Told
  <2>2. CASE viewer = "log" /\ size[task] <= TailUnits
    BY <2>2 DEF Covered
  <2> QED BY <2>1, <2>2
<1> QED BY <1>1, <1>2, TypeCorrect, AlwaysStreamed, AllToldStep, CoveredStep, PTL DEF Spec

-----------------------------------------------------------------------------
(* A row is made of the event at some place, the places in order.            *)
Derived(n) ==
  LET e == Event(shown[n]) IN
  IF IsPhase(shown[n]) /\ e.status = "running" /\ \E k \in (n + 1)..Len(shown) : IsPhase(shown[k])
    THEN [e EXCEPT !.status = "completed"] ELSE e

LEMMA EventOf ==
  ASSUME Typed, Streamed, viewer = "stream", NEW n \in 1..Len(shown)
  PROVE  Event(shown[n]) \in EventKinds
<1>1. shown[n] \in Lines /\ shown[n].upto <= offset /\ offset \in Nat /\ offset <= size[task]
      /\ size[task] \in Nat /\ size[task] <= 2 * Len(script[task]) /\ task \in Tasks
  BY ElementOfSeq, LenProperties DEF Streamed, Typed
<1>2. PICK k \in Nat \ {0} : shown[n] = Line(k)
  BY <1>1 DEF Lines
<1>3. shown[n].upto = 2 * k
  BY <1>2 DEF Line
<1>4. Len(script[task]) \in Nat /\ \A i \in 1..Len(script[task]) : script[task][i] \in EventKinds
  BY <1>1, ScriptType
<1>5. k \in 1..Len(script[task]) /\ (2 * k) \div 2 = k
  <2>1. 2 * k <= 2 * Len(script[task])
    BY <1>1, <1>3, <1>4
  <2> QED BY <1>4, <2>1
<1> QED BY <1>3, <1>4, <1>5 DEF Event

LEMMA RowIs ==
  ASSUME shown \in Seq(Lines)
  PROVE  LET rows == Visible(shown, hidden) IN
         \E place :
           /\ \A n \in DOMAIN rows : place[n] \in Latest(shown) /\ rows[n] = Derived(place[n])
           /\ \A i, j \in DOMAIN rows : i < j => place[i] < place[j]
<1> DEFINE kept == Ascending(Latest(shown))
           derived == DerivePhaseEvents(shown)
           W == {j \in DOMAIN derived : EventFilter(derived[j]) \notin hidden}
           a == Ascending(W)
           rows == Visible(shown, hidden)
           c == Cardinality(Latest(shown))
<1>1. /\ Latest(shown) \in SUBSET Int /\ IsFiniteSet(Latest(shown))
      /\ \A n \in Latest(shown) : n \in 1..Len(shown)
  <2>1. Len(shown) \in Nat /\ Latest(shown) \in SUBSET (1..Len(shown))
    BY LenProperties DEF Latest
  <2>2. IsFiniteSet(1..Len(shown)) /\ \A n \in 1..Len(shown) : n \in Int
    BY <2>1, FS_Interval
  <2> HIDE DEF kept, derived, W, a, rows, c
  <2>3. IsFiniteSet(Latest(shown))
    BY <2>1, <2>2, FS_Subset
  <2> QED BY <2>1, <2>2, <2>3
<1>2. /\ c \in Nat /\ DOMAIN kept = 1..c
      /\ \A k \in 1..c : kept[k] \in Latest(shown)
      /\ \A k, l \in 1..c : k < l => kept[k] < kept[l]
  BY <1>1, AscendingIs
<1>3. DOMAIN derived = 1..c /\ \A j \in 1..c : derived[j] = Derived(kept[j])
  BY <1>2 DEF DerivePhaseEvents, Derived
<1> HIDE DEF derived, c
<1>4. W \in SUBSET Int /\ IsFiniteSet(W) /\ W \subseteq 1..c
  BY <1>2, <1>3, FS_Interval, FS_Subset
<1>5. /\ DOMAIN a = 1..Cardinality(W)
      /\ \A k \in DOMAIN a : a[k] \in W
      /\ \A k, l \in DOMAIN a : k < l => a[k] < a[l]
  <2> HIDE DEF W
  <2> QED BY <1>4, AscendingIs
<1>6. rows = [k \in DOMAIN a |-> derived[a[k]]]
  BY DEF Visible, Select, derived
<1> HIDE DEF W, a, rows, kept
<1> DEFINE place == [n \in DOMAIN rows |-> kept[a[n]]]
<1>7. \A n \in DOMAIN rows : place[n] \in Latest(shown) /\ rows[n] = Derived(place[n])
  BY <1>2, <1>3, <1>4, <1>5, <1>6
<1>8. \A i, j \in DOMAIN rows : i < j => place[i] < place[j]
  BY <1>2, <1>4, <1>5, <1>6
<1> QED BY <1>7, <1>8 DEF rows

(* At most one of the phase headers a stream viewer shows says "running",   *)
(* it is the last one, and no phase has two headers: derivePhaseEvents keeps *)
(* the last event of a phase and completes the phases that were passed,      *)
(* whichever filters are on and however the buffer was cut.                  *)
THEOREM OnePhaseRuns == Spec => []OneRunning
<1>1. ASSUME Typed, Streamed PROVE OneRunning
  <2> DEFINE rows == Visible(shown, hidden)
             Headers == {n \in DOMAIN rows : "PhaseMarker" \in Rendered(rows[n])}
  <2> SUFFICES ASSUME viewer = "stream"
               PROVE  \A i, j \in Headers : /\ i # j => rows[i].phase # rows[j].phase
                                            /\ i < j => PhaseMarker(rows[i]) # "running"
    BY DEF OneRunning
  <2>1. shown \in Seq(Lines)
    BY <1>1 DEF Streamed
  <2>2. PICK place :
          /\ \A n \in DOMAIN rows : place[n] \in Latest(shown) /\ rows[n] = Derived(place[n])
          /\ \A i, j \in DOMAIN rows : i < j => place[i] < place[j]
    BY <2>1, RowIs
  <2>3. DOMAIN rows \subseteq Int
    BY DEF Visible, Select, Ascending
  <2> HIDE DEF rows
  <2>4. ASSUME NEW n \in Headers
        PROVE  /\ place[n] \in 1..Len(shown) /\ ~Superseded(shown, place[n])
               /\ IsPhase(shown[place[n]])
               /\ rows[n].phase = Event(shown[place[n]]).phase
               /\ Event(shown[place[n]]).status \in {"running", "completed", "failed"}
               /\ rows[n].status = IF /\ Event(shown[place[n]]).status = "running"
                                      /\ \E k \in (place[n] + 1)..Len(shown) : IsPhase(shown[k])
                                     THEN "completed" ELSE Event(shown[place[n]]).status
    <3> DEFINE e == Event(shown[place[n]])
    <3>1. place[n] \in Latest(shown) /\ rows[n] = Derived(place[n])
      BY <2>2
    <3>2. place[n] \in 1..Len(shown) /\ (IsPhase(shown[place[n]]) => ~Superseded(shown, place[n]))
      BY <3>1 DEF Latest
    <3>3. e \in EventKinds
      BY <1>1, <3>2, EventOf
    <3>4. e.type = "phase" <=> IsPhase(shown[place[n]])
      BY DEF IsPhase
    <3>5. "PhaseMarker" \in Rendered(rows[n])
      OBVIOUS
    <3> HIDE DEF e
    <3>6. e.type = "phase"
      <4> SUFFICES ASSUME e.type # "phase" PROVE FALSE
        OBVIOUS
      <4>1. rows[n] = e
        BY <3>1, <3>4 DEF Derived, e
      <4> QED BY <3>5, <4>1 DEF Rendered
    <3>7. e \in [type : {"phase"}, phase : STRING, status : {"running", "completed", "failed"}]
      BY <3>3, <3>6 DEF EventKinds
    <3>8. rows[n] = IF /\ e.status = "running"
                       /\ \E k \in (place[n] + 1)..Len(shown) : IsPhase(shown[k])
                      THEN [e EXCEPT !.status = "completed"] ELSE e
      BY <3>1, <3>4, <3>6 DEF Derived, e
    <3> QED BY <3>2, <3>4, <3>6, <3>7, <3>8 DEF e
  <2>5. Len(shown) \in Nat
    BY <2>1, LenProperties
  <2>6. ASSUME NEW i \in Headers, NEW j \in Headers, i < j
        PROVE  rows[i].phase # rows[j].phase /\ PhaseMarker(rows[i]) # "running"
    <3>1. place[i] < place[j]
      BY <2>2, <2>6
    <3>2. place[j] \in (place[i] + 1)..Len(shown) /\ IsPhase(shown[place[j]])
      BY <2>4, <2>5, <3>1
    <3>3. Event(shown[place[j]]).phase # Event(shown[place[i]]).phase
      BY <2>4, <3>2 DEF Superseded
    <3>4. rows[i].status \in {"completed", "failed"}
      BY <2>4, <3>2
    <3> QED BY <2>4, <3>3, <3>4 DEF PhaseMarker
  <2>7. \A i, j \in Headers : i # j => i < j \/ j < i
    BY <2>3
  <2> HIDE DEF Headers
  <2> QED BY <2>6, <2>7
<1> QED BY <1>1, TypeCorrect, AlwaysStreamed, PTL
=============================================================================
