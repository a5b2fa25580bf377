-------------------------- MODULE ConnFaultsProofs --------------------------
(***************************************************************************)
(* Proofs about ConnFaults, for any number of connections, any chains and  *)
(* any parameters: types, what the throttle lets through, when bursty_loss *)
(* drops, and what becomes of the chunks and their order.                  *)
(***************************************************************************)
EXTENDS ConnFaults, FiniteSetTheorems, TLAPS

\* Items a wrapper can still pass on: they have a level below them.
Upper == {x \in Item : x.depth > 0}

Passable == {w \in Seq(Item) : w # <<>> /\ Head(w).depth > 0}

\* TypeOK alone is not inductive: buffered items are passed on later, the depth
\* of a new item is the length of a chain, and who sleeps has an item to pass on.
TypeInv ==
    /\ TypeOK
    /\ buf \in [Conn -> Seq(Upper)]
    /\ chain \in Seq(STRING) /\ wrapped \in [Conn -> Seq(STRING)]
    /\ read \in [Conn -> Nat]
    /\ \A c \in Conn : debt[c] > 0 => work[c] \in Passable

\* What left the bucket had flowed into it by the last refill; and a connection
\* has waited, up to the end of its current or last Sleep, for every byte it was
\* let through for.
BoundInv ==
    /\ tokens + spent <= Burst + lastRefill
    /\ \A c \in Conn : paid[c] + debt[c] <= until[c]
    /\ \A c \in Conn : until[c] <= now + debt[c]

-----------------------------------------------------------------------------

LEMMA UpperSeq ==
    ASSUME NEW s \in Seq(Upper) PROVE s \in Seq(Item)
<1>1. s \in [1..Len(s) -> Item] /\ Len(s) \in Nat
  BY DEF Upper
<1> QED
  BY <1>1

LEMMA LowerTyped ==
    ASSUME NEW x \in Upper PROVE Lower(x) \in Item
BY DEF Upper, Item, Lower

\* Handing items down leaves a stack of items.
LEMMA ForwardTyped ==
    ASSUME work \in [Conn -> Seq(Item)], NEW c \in Conn, work[c] # <<>>,
           NEW items \in Seq(Upper), Forward(c, items)
    PROVE  work' \in [Conn -> Seq(Item)]
<1> DEFINE low == [i \in DOMAIN items |-> Lower(items[i])]
<1>1. low \in Seq(Item)
  <2>1. DOMAIN items = 1..Len(items) /\ Len(items) \in Nat
    OBVIOUS
  <2>2. \A i \in 1..Len(items) : Lower(items[i]) \in Item
    BY LowerTyped
  <2>3. low \in [1..Len(items) -> Item]
    BY <2>1, <2>2, Zenon
  <2> QED
    BY <2>1, <2>3
<1>2. Tail(work[c]) \in Seq(Item)
  OBVIOUS
<1>3. low \o Tail(work[c]) \in Seq(Item)
  <2> HIDE DEF low
  <2> QED
    BY <1>1, <1>2
<1>4. work' = [work EXCEPT ![c] = low \o Tail(work[c])]
  BY Zenon DEF Forward
<1> QED
  <2> HIDE DEF low
  <2> QED
    BY <1>3, <1>4, Zenon

\* The item a wrapper sees can be passed on.
LEMMA AtTyped ==
    ASSUME work \in [Conn -> Seq(Item)], NEW c \in Conn, work[c] # <<>>,
           Head(work[c]).depth > 0
    PROVE  /\ Head(work[c]) \in Upper
           /\ Head(work[c]).size \in Size
<1>1. Head(work[c]) \in Item
  OBVIOUS
<1> QED
  BY <1>1, Zenon DEF Upper, Item

LEMMA PassTyped ==
    ASSUME work \in [Conn -> Seq(Item)], NEW c \in Conn, work[c] # <<>>,
           Head(work[c]).depth > 0, Pass(c)
    PROVE  work' \in [Conn -> Seq(Item)]
<1>1. <<Head(work[c])>> \in Seq(Upper)
  BY AtTyped
<1> QED
  BY <1>1, ForwardTyped, Zenon DEF Pass

LEMMA SwallowTyped ==
    ASSUME work \in [Conn -> Seq(Item)], NEW c \in Conn, work[c] # <<>>, Swallow(c)
    PROVE  work' \in [Conn -> Seq(Item)]
<1>1. <<>> \in Seq(Upper)
  OBVIOUS
<1> QED
  BY <1>1, ForwardTyped, Zenon DEF Swallow

LEMMA ShuffleTyped ==
    ASSUME NEW s \in Seq(Upper), NEW t \in Shuffles(s)
    PROVE  t \in Seq(Upper)
<1>1. DOMAIN s = 1..Len(s) /\ Len(s) \in Nat
  OBVIOUS
<1>2. PICK p \in [DOMAIN s -> DOMAIN s] : t = [i \in DOMAIN s |-> s[p[i]]]
  BY Zenon DEF Shuffles
<1>3. \A i \in DOMAIN s : s[p[i]] \in Upper
  BY <1>1, <1>2
<1>4. t \in [1..Len(s) -> Upper]
  BY <1>1, <1>2, <1>3, Zenon
<1> QED
  BY <1>1, <1>4

-----------------------------------------------------------------------------

\* A step of c's Write that leaves c awake.
LEMMA SleepersKept ==
    ASSUME TypeInv, NEW c \in Conn, debt'[c] = 0,
           \A d \in Conn \ {c} : work'[d] = work[d] /\ debt'[d] = debt[d]
    PROVE  \A d \in Conn : debt'[d] > 0 => work'[d] \in Passable
<1> SUFFICES ASSUME NEW d \in Conn, debt'[d] > 0 PROVE work'[d] \in Passable
  BY Zenon
<1>1. d # c
  OBVIOUS
<1>2. work'[d] = work[d] /\ debt'[d] = debt[d]
  BY <1>1, Zenon
<1>3. work[d] \in Passable
  BY <1>2, Zenon DEF TypeInv
<1> QED
  BY <1>2, <1>3, Zenon

\* A step of c's Write that neither sleeps nor touches the throttle.
LEMMA PlainStep ==
    ASSUME TypeInv, NEW c \in Conn, debt[c] = 0,
           work' \in [Conn -> Seq(Item)],
           \A d \in Conn \ {c} : work'[d] = work[d],
           buf' \in [Conn -> Seq(Upper)], \A d \in Conn : Len(buf'[d]) <= BufferSize,
           inBurst' \in BOOLEAN, burstEnds' \in Nat, lastCheck' \in Int,
           UNCHANGED <<now, chain, stale, wrapped, tokens, lastRefill, spent,
                       until, debt, paid, read>>
    PROVE  TypeInv'
<1>1. buf' \in [Conn -> Seq(Item)]
  BY UpperSeq, Zenon
<1>2. \A d \in Conn : debt'[d] > 0 => work'[d] \in Passable
  BY SleepersKept, Zenon
<1>3. TypeOK'
  BY <1>1, Zenon DEF TypeInv, TypeOK
<1> QED
  BY <1>2, <1>3, Zenon DEF TypeInv

LEMMA OthersKept ==
    ASSUME NEW c \in Conn, NEW items, work \in [Conn -> Seq(Item)], Forward(c, items)
    PROVE  \A d \in Conn \ {c} : work'[d] = work[d]
BY Zenon DEF Forward

\* Every step keeps the types.
LEMMA TypeStep == TypeInv /\ [Next]_vars => TypeInv'
<1> SUFFICES ASSUME TypeInv, [Next]_vars PROVE TypeInv'
  BY Zenon
<1> USE ParamAssumption
<1>t. work \in [Conn -> Seq(Item)] /\ buf \in [Conn -> Seq(Upper)]
  BY Zenon DEF TypeInv, TypeOK
<1>1. CASE Passing(1)
  BY <1>1 DEF Passing, TypeInv, TypeOK, bucket, sleep, burst, fates
<1>2. CASE ChangeRegistry
  <2>1. chain' \in Seq(STRING)
    <3>1. CASE UNCHANGED chain
      BY <3>1, Zenon DEF TypeInv
    <3>2. ASSUME NEW i \in DOMAIN chain, chain' = Without(chain, i)
          PROVE  chain' \in Seq(STRING)
      <4>1. chain \in Seq(STRING) /\ i \in 1..Len(chain) /\ Len(chain) \in Nat
        BY DEF TypeInv
      <4>2. SubSeq(chain, 1, i - 1) \in Seq(STRING)
        BY <4>1
      <4>3. SubSeq(chain, i + 1, Len(chain)) \in Seq(STRING)
        BY <4>1
      <4> QED
        BY <3>2, <4>2, <4>3 DEF Without
    <3> QED
      BY <1>2, <3>1, <3>2, Zenon DEF ChangeRegistry
  <2> QED
    BY <1>2, <2>1, Zenon DEF ChangeRegistry, TypeInv, TypeOK, bucket, sleep, burst, fates
<1>3. CASE \E c \in Conn, n \in Size : Write(c, n)
  <2> PICK c \in Conn, n \in Size : Write(c, n)
    BY <1>3, Zenon
  <2> DEFINE through == IF c \in stale THEN chain ELSE wrapped[c]
             item == [chunk |-> read[c] + 1, size |-> n, depth |-> Len(through),
                      held |-> FALSE]
  <2>1. through \in Seq(STRING)
    BY Zenon DEF TypeInv
  <2>2. item \in Item
    BY <2>1 DEF Item, TypeInv
  <2>3. work' = [work EXCEPT ![c] = <<item>>]
    BY Zenon DEF Write
  <2>4. work' \in [Conn -> Seq(Item)]
    <3> HIDE DEF item
    <3> QED
      BY <1>t, <2>2, <2>3
  <2>5. wrapped' \in [Conn -> Seq(STRING)]
    BY <2>1, Zenon DEF Write, TypeInv
  <2>6. buf' \in [Conn -> Seq(Upper)] /\ \A d \in Conn : Len(buf'[d]) <= BufferSize
    BY DEF Write, TypeInv, TypeOK
  <2>7. buf' \in [Conn -> Seq(Item)]
    BY <2>6, UpperSeq, Zenon
  <2>8. \A d \in Conn : debt'[d] > 0 => work'[d] \in Passable
    BY Zenon DEF Write, TypeInv, TypeOK, Passable, sleep
  <2>9. read' \in [Conn -> Nat] /\ chain' \in Seq(STRING) /\ stale' \subseteq Conn
    BY DEF Write, TypeInv, TypeOK
  <2> QED
    BY <2>4, <2>5, <2>6, <2>7, <2>8, <2>9, Zenon
    DEF Write, TypeInv, TypeOK, bucket, sleep, burst
<1>4. ASSUME NEW c \in Conn, TakeTokens(c) PROVE TypeInv'
  <2>1. work[c] # <<>> /\ Head(work[c]).depth > 0 /\ debt[c] = 0
    BY <1>4, Zenon DEF TakeTokens, At
  <2>2. Head(work[c]).size \in Nat
    BY <1>t, <2>1, AtTyped, Zenon
  <2>3. work' \in [Conn -> Seq(Item)] /\ \A d \in Conn \ {c} : work'[d] = work[d]
    BY <1>4, <1>t, <2>1, PassTyped, OthersKept, Zenon DEF TakeTokens, Pass
  <2>4. refill \in 0..Burst
    BY DEF refill, TypeInv, TypeOK
  <2> DEFINE n == Head(work[c]).size
  <2>a. /\ refill >= n /\ tokens' = refill - n /\ spent' = spent + n
        /\ lastRefill' = now /\ now' = now
    BY <1>4, Zenon DEF TakeTokens
  <2>b. now \in Nat /\ spent \in Nat
    BY Zenon DEF TypeInv, TypeOK
  <2>5. tokens' \in 0..Burst /\ lastRefill' \in 0..now' /\ spent' \in Nat
    <3>1. n \in Nat
      BY <2>2, Zenon
    <3> HIDE DEF n
    <3> QED
      BY <3>1, <2>4, <2>a, <2>b
  <2>6. \A d \in Conn : debt'[d] > 0 => work'[d] \in Passable
    BY <1>4, <2>1, <2>3, SleepersKept, Zenon DEF TakeTokens, sleep
  <2> QED
    BY <1>4, <2>1, <2>3, <2>5, <2>6, Zenon DEF TakeTokens, TypeInv, TypeOK, sleep, burst
<1>5. ASSUME NEW c \in Conn, TakeDeficit(c) PROVE TypeInv'
  <2>1. work[c] # <<>> /\ Head(work[c]).depth > 0 /\ debt[c] = 0
    BY <1>5, Zenon DEF TakeDeficit, At
  <2>2. Head(work[c]).size \in Nat
    BY <1>t, <2>1, AtTyped, Zenon
  <2>4. refill \in 0..Burst
    BY DEF refill, TypeInv, TypeOK
  <2>5. /\ tokens' \in 0..Burst /\ lastRefill' \in 0..now' /\ spent' \in Nat
        /\ debt' \in [Conn -> Nat] /\ until' \in [Conn -> Nat]
        /\ \A d \in Conn \ {c} : debt'[d] = debt[d]
    <3> DEFINE n == Head(work[c]).size
    <3>1. /\ refill < n /\ tokens' = 0 /\ spent' = spent + refill
          /\ lastRefill' = now /\ now' = now
          /\ debt' = [debt EXCEPT ![c] = n - refill]
          /\ until' = [until EXCEPT ![c] = now + (n - refill)]
      BY <1>5, Zenon DEF TakeDeficit
    <3>2. n \in Nat
      BY <2>2, Zenon
    <3>3. /\ now \in Nat /\ spent \in Nat
          /\ debt \in [Conn -> Nat] /\ until \in [Conn -> Nat]
      BY Zenon DEF TypeInv, TypeOK
    <3> HIDE DEF n
    <3>4. n - refill \in Nat /\ now + (n - refill) \in Nat
      BY <2>4, <3>1, <3>2, <3>3
    <3> QED
      BY <2>4, <3>1, <3>3, <3>4
  <2>6. \A d \in Conn : debt'[d] > 0 => work'[d] \in Passable
    BY <1>5, <2>1, <2>5, Zenon DEF TakeDeficit, TypeInv, TypeOK, Passable
  <2> QED
    BY <1>5, <2>1, <2>5, <2>6, Zenon DEF TakeDeficit, TypeInv, TypeOK, burst
<1>6. ASSUME NEW c \in Conn, Wake(c) PROVE TypeInv'
  <2>1. work[c] # <<>> /\ Head(work[c]).depth > 0
    BY <1>6, Zenon DEF Wake, TypeInv, Passable
  <2>2. work' \in [Conn -> Seq(Item)] /\ \A d \in Conn \ {c} : work'[d] = work[d]
    BY <1>6, <1>t, <2>1, PassTyped, OthersKept, Zenon DEF Wake, Pass
  <2>3. paid' \in [Conn -> Nat] /\ debt' \in [Conn -> Nat]
    BY <1>6 DEF Wake, TypeInv, TypeOK
  <2>4. \A d \in Conn : debt'[d] > 0 => work'[d] \in Passable
    BY <1>6, <2>2, SleepersKept, Zenon DEF Wake, TypeInv, TypeOK
  <2> QED
    BY <1>6, <2>2, <2>3, <2>4, Zenon DEF Wake, TypeInv, TypeOK, bucket, burst
<1>7. ASSUME NEW c \in Conn, Hold(c) PROVE TypeInv'
  <2> DEFINE top == [Head(work[c]) EXCEPT !.held = TRUE]
             held == Append(buf[c], top)
  <2>1. work[c] # <<>> /\ Head(work[c]).depth > 0 /\ debt[c] = 0
    BY <1>7, Zenon DEF Hold, At
  <2>2. top \in Upper
    BY <1>t, <2>1, AtTyped, Zenon DEF Upper, Item
  <2>3. held \in Seq(Upper) /\ Len(held) = Len(buf[c]) + 1
    <3> HIDE DEF top
    <3> QED
      BY <1>t, <2>2
  <2>4. /\ \A d \in Conn \ {c} : work'[d] = work[d]
        /\ work' \in [Conn -> Seq(Item)]
        /\ buf' \in [Conn -> Seq(Upper)] /\ \A d \in Conn : Len(buf'[d]) <= BufferSize
    <3> HIDE DEF held
    <3>1. CASE /\ Len(held) < BufferSize
               /\ buf' = [buf EXCEPT ![c] = held]
               /\ Swallow(c)
      <4>1. work' \in [Conn -> Seq(Item)] /\ \A d \in Conn \ {c} : work'[d] = work[d]
        BY <3>1, <1>t, <2>1, SwallowTyped, OthersKept, Zenon DEF Swallow
      <4> QED
        BY <3>1, <4>1, <2>3, <1>t DEF TypeInv, TypeOK
    <3>2. CASE /\ buf' = [buf EXCEPT ![c] = <<>>]
               /\ \E s \in Shuffles(held) : Forward(c, s)
      <4>1. PICK s \in Shuffles(held) : Forward(c, s)
        BY <3>2, Zenon
      <4>2. s \in Seq(Upper)
        BY <2>3, ShuffleTyped, Zenon
      <4>3. work' \in [Conn -> Seq(Item)] /\ \A d \in Conn \ {c} : work'[d] = work[d]
        BY <4>1, <4>2, <1>t, <2>1, ForwardTyped, OthersKept, Zenon
      <4> QED
        BY <3>2, <4>3, <1>t DEF TypeInv, TypeOK
    <3> QED
      BY <1>7, <3>1, <3>2, Zenon DEF Hold, held
  <2> QED
    BY <1>7, <2>1, <2>4, PlainStep, Zenon DEF Hold, TypeInv, TypeOK, bucket, sleep, burst
<1>8. ASSUME NEW c \in Conn, PassReorder(c) PROVE TypeInv'
  <2>1. work[c] # <<>> /\ Head(work[c]).depth > 0 /\ debt[c] = 0
    BY <1>8, Zenon DEF PassReorder, At
  <2>2. work' \in [Conn -> Seq(Item)] /\ \A d \in Conn \ {c} : work'[d] = work[d]
    BY <1>8, <1>t, <2>1, PassTyped, OthersKept, Zenon DEF PassReorder, Pass
  <2> QED
    BY <1>8, <2>1, <2>2, PlainStep, Zenon DEF PassReorder, TypeInv, TypeOK, bucket, sleep, burst
<1>9. ASSUME NEW c \in Conn, Duplicate(c) PROVE TypeInv'
  <2>1. work[c] # <<>> /\ Head(work[c]).depth > 0 /\ debt[c] = 0
    BY <1>9, Zenon DEF Duplicate, At
  <2>2. PICK k \in 0..MaxExtraCopies : Forward(c, [i \in 1..(k + 1) |-> Head(work[c])])
    BY <1>9, Zenon DEF Duplicate
  <2>3. [i \in 1..(k + 1) |-> Head(work[c])] \in Seq(Upper)
    BY <1>t, <2>1, AtTyped
  <2>4. work' \in [Conn -> Seq(Item)] /\ \A d \in Conn \ {c} : work'[d] = work[d]
    BY <1>t, <2>1, <2>2, <2>3, ForwardTyped, OthersKept, Zenon
  <2> QED
    BY <1>9, <2>1, <2>4, PlainStep, Zenon DEF Duplicate, TypeInv, TypeOK, bucket, sleep, burst
<1>10. ASSUME NEW c \in Conn, Blackhole(c) PROVE TypeInv'
  <2>1. work[c] # <<>> /\ Head(work[c]).depth > 0 /\ debt[c] = 0
    BY <1>10, Zenon DEF Blackhole, At
  <2>2. Pass(c) \/ Swallow(c)
    BY <1>10, Zenon DEF Blackhole, Drop
  <2>3. work' \in [Conn -> Seq(Item)] /\ \A d \in Conn \ {c} : work'[d] = work[d]
    BY <1>t, <2>1, <2>2, PassTyped, SwallowTyped, OthersKept, Zenon DEF Pass, Swallow
  <2> QED
    BY <1>10, <2>1, <2>3, PlainStep, Zenon DEF Blackhole, TypeInv, TypeOK, bucket, sleep, burst
<1>11. ASSUME NEW c \in Conn, BurstyLoss(c) PROVE TypeInv'
  <2>1. work[c] # <<>> /\ Head(work[c]).depth > 0 /\ debt[c] = 0
    BY <1>11, Zenon DEF BurstyLoss, At
  <2>2. Pass(c) \/ Swallow(c)
    BY <1>11, Zenon DEF BurstyLoss, Drop
  <2>3. work' \in [Conn -> Seq(Item)] /\ \A d \in Conn \ {c} : work'[d] = work[d]
    BY <1>t, <2>1, <2>2, PassTyped, SwallowTyped, OthersKept, Zenon DEF Pass, Swallow
  <2>4. PICK b \in BOOLEAN : currentLossRate(b)
    BY <1>11, Zenon DEF BurstyLoss
  <2>5. inBurst' \in BOOLEAN
    BY <2>4, Zenon DEF currentLossRate
  <2>6. burstEnds' \in Nat /\ lastCheck' \in Int
    BY <2>4 DEF currentLossRate, TypeInv, TypeOK
  <2> QED
    BY <1>11, <2>1, <2>3, <2>5, <2>6, PlainStep, Zenon
    DEF BurstyLoss, TypeInv, TypeOK, bucket, sleep
<1>12. ASSUME NEW c \in Conn, Deliver(c) PROVE TypeInv'
  <2>1. work[c] # <<>> /\ work' = [work EXCEPT ![c] = Tail(@)]
    BY <1>12, Zenon DEF Deliver
  <2>2. debt[c] = 0
    <3>1. ~(work[c] \in Passable)
      BY <1>12 DEF Deliver, Passable
    <3>2. debt[c] \in Nat
      BY Zenon DEF TypeInv, TypeOK
    <3> QED
      BY <3>1, <3>2 DEF TypeInv
  <2>3. work' \in [Conn -> Seq(Item)] /\ \A d \in Conn \ {c} : work'[d] = work[d]
    BY <1>t, <2>1
  <2> QED
    BY <1>12, <2>2, <2>3, PlainStep, Zenon DEF Deliver, TypeInv, TypeOK, bucket, sleep, burst
<1>13. CASE UNCHANGED vars
  BY <1>13, Zenon DEF vars, TypeInv, TypeOK
<1> QED
  BY <1>1, <1>2, <1>3, <1>4, <1>5, <1>6, <1>7, <1>8, <1>9, <1>10, <1>11, <1>12, <1>13, Zenon
  DEF Next, Wrapper

LEMMA TypeInit == Init => TypeInv
<1> SUFFICES ASSUME Init PROVE TypeInv
  BY Zenon
<1> USE ParamAssumption
<1>1. TypeOK
  <2>1. /\ work \in [Conn -> Seq(Item)]
        /\ buf \in [Conn -> Seq(Item)] /\ \A c \in Conn : Len(buf[c]) <= BufferSize
    BY DEF Init
  <2>2. /\ now \in Nat /\ lastRefill \in 0..now /\ tokens \in 0..Burst
        /\ spent \in Nat /\ burstEnds \in Nat /\ lastCheck \in Int
    BY DEF Init
  <2>3. /\ until \in [Conn -> Nat] /\ debt \in [Conn -> Nat] /\ paid \in [Conn -> Nat]
        /\ stale \subseteq Conn
    BY Zenon DEF Init
  <2>4. inBurst \in BOOLEAN
    BY Zenon DEF Init
  <2> QED
    BY <2>1, <2>2, <2>3, <2>4, Zenon DEF TypeOK
<1>2. buf \in [Conn -> Seq(Upper)] /\ wrapped \in [Conn -> Seq(STRING)]
  BY DEF Init
<1>3. chain \in Seq(STRING)
  BY Zenon DEF Init
<1> QED
  BY <1>1, <1>2, <1>3 DEF Init, TypeInv

LEMMA TypeInvariant == Spec => []TypeInv
BY TypeInit, TypeStep, PTL DEF Spec

\* The types of ConnFaults, the bound of the reorder buffer and the range of the
\* bucket hold for any chains and parameters.
THEOREM TypeCorrect == Spec => []TypeOK
<1>1. TypeInv => TypeOK
  BY Zenon DEF TypeInv
<1> QED
  BY <1>1, TypeInvariant, PTL

-----------------------------------------------------------------------------

LEMMA BoundStep == TypeInv /\ BoundInv /\ [Next]_vars => BoundInv'
<1> SUFFICES ASSUME TypeInv, BoundInv, [Next]_vars PROVE BoundInv'
  BY Zenon
<1> USE ParamAssumption
<1>t. /\ now \in Nat /\ lastRefill \in 0..now /\ tokens \in 0..Burst /\ spent \in Nat
      /\ until \in [Conn -> Nat] /\ debt \in [Conn -> Nat] /\ paid \in [Conn -> Nat]
  BY Zenon DEF TypeInv, TypeOK
<1>1. CASE /\ now' \in {now, now + 1}
           /\ UNCHANGED <<tokens, lastRefill, spent, until, debt, paid>>
  BY <1>1, <1>t DEF BoundInv
<1>2. ASSUME NEW c \in Conn, TakeTokens(c) PROVE BoundInv'
  <2> DEFINE n == Head(work[c]).size
  <2>1. /\ tokens' = refill - n /\ spent' = spent + n /\ lastRefill' = now
        /\ UNCHANGED <<now, until, debt, paid>>
    BY <1>2, Zenon DEF TakeTokens, sleep
  <2>2. n \in Nat
    BY <1>2, AtTyped, Zenon DEF TakeTokens, At, TypeInv, TypeOK
  <2>3. refill <= tokens + (now - lastRefill) /\ refill \in Nat
    BY <1>t DEF refill
  <2> HIDE DEF n
  <2> QED
    BY <1>t, <2>1, <2>2, <2>3 DEF BoundInv
<1>3. ASSUME NEW c \in Conn, TakeDeficit(c) PROVE BoundInv'
  <2> DEFINE m == Head(work[c]).size - refill
  <2>1. /\ tokens' = 0 /\ spent' = spent + refill /\ lastRefill' = now
        /\ debt' = [debt EXCEPT ![c] = m]
        /\ until' = [until EXCEPT ![c] = now + m]
        /\ UNCHANGED <<now, paid>>
    BY <1>3, Zenon DEF TakeDeficit
  <2>2. refill <= tokens + (now - lastRefill) /\ refill \in Nat
    BY <1>t DEF refill
  <2>3. m \in Nat \ {0}
    <3>1. Head(work[c]).size \in Size
      BY <1>3, AtTyped, Zenon DEF TakeDeficit, At, TypeInv, TypeOK
    <3>2. refill < Head(work[c]).size
      BY <1>3, Zenon DEF TakeDeficit
    <3>3. \A x, y \in Nat : y < x => x - y \in Nat \ {0}
      OBVIOUS
    <3> QED
      BY <2>2, <3>1, <3>2, <3>3, Zenon
  <2>4. debt[c] = 0
    BY <1>3, Zenon DEF TakeDeficit, At
  <2> HIDE DEF m
  <2>5. tokens' + spent' <= Burst + lastRefill'
    BY <1>t, <2>1, <2>2 DEF BoundInv
  <2>6. paid[c] <= now
    BY <1>t, <2>4 DEF BoundInv
  <2>7. \A d \in Conn : paid'[d] + debt'[d] <= until'[d]
    BY <1>t, <2>1, <2>3, <2>6 DEF BoundInv
  <2>8. \A d \in Conn : until'[d] <= now' + debt'[d]
    BY <1>t, <2>1, <2>3 DEF BoundInv
  <2> QED
    BY <2>5, <2>7, <2>8, Zenon DEF BoundInv
<1>4. ASSUME NEW c \in Conn, Wake(c) PROVE BoundInv'
  <2>1. /\ now >= until[c]
        /\ paid' = [paid EXCEPT ![c] = @ + debt[c]]
        /\ debt' = [debt EXCEPT ![c] = 0]
        /\ UNCHANGED <<now, tokens, lastRefill, spent, until>>
    BY <1>4, Zenon DEF Wake, bucket
  <2> QED
    BY <1>t, <2>1 DEF BoundInv
<1> QED
  BY <1>1, <1>2, <1>3, <1>4, Zenon
  DEF Next, Wrapper, Passing, ChangeRegistry, Write, Hold, PassReorder, Duplicate,
      Blackhole, BurstyLoss, Deliver, bucket, sleep, vars

\* Tokens are spent no faster than they flow in, and no connection is let
\* through for more waiting than there was time, however many connections share
\* the fault and however their writes interleave.
THEOREM ThrottleBounded == Spec => []ThrottleBound
<1>1. Init => BoundInv
  BY ParamAssumption DEF Init, BoundInv
<1>2. TypeInv /\ BoundInv => ThrottleBound
  <2> SUFFICES ASSUME TypeInv, BoundInv PROVE ThrottleBound
    BY Zenon
  <2>1. /\ now \in Nat /\ lastRefill \in 0..now /\ tokens \in 0..Burst
        /\ spent \in Nat /\ until \in [Conn -> Nat]
        /\ debt \in [Conn -> Nat] /\ paid \in [Conn -> Nat]
    BY Zenon DEF TypeInv, TypeOK
  <2>2. ASSUME NEW c \in Conn PROVE paid[c] <= now
    <3>1. paid[c] \in Nat /\ debt[c] \in Nat /\ until[c] \in Nat
      BY <2>1, Zenon
    <3>2. paid[c] + debt[c] <= until[c] /\ until[c] <= now + debt[c]
      BY Zenon DEF BoundInv
    <3> QED
      BY <2>1, <3>1, <3>2
  <2> QED
    BY <2>1, <2>2, ParamAssumption DEF BoundInv, ThrottleBound
<1> QED
  BY <1>1, <1>2, BoundStep, TypeInvariant, PTL DEF Spec

-----------------------------------------------------------------------------
(* Bursts                                                                  *)

\* The histories, by connection.
Histories ==
    /\ sent \in [Conn -> Seq(Item)]
    /\ copied \in [Conn -> SUBSET Nat]
    /\ dropped \in [Conn -> SUBSET Nat]
    /\ lost \in [Conn -> SUBSET Nat]

\* The schedule was last moved on when the last burst began, all bursts are
\* further apart than BurstEvery, and the one that is on ends BurstFor after it.
BurstInv ==
    /\ bursts \subseteq Nat
    /\ \A b \in bursts : b <= lastCheck /\ lastCheck <= now
    /\ \A s, t \in bursts : s < t => t - s > BurstEvery
    /\ inBurst => lastCheck \in bursts /\ burstEnds = lastCheck + BurstFor

LEMMA HistoriesStep == TypeInv /\ Histories /\ [Next]_vars => Histories'
<1> SUFFICES ASSUME TypeInv, Histories, [Next]_vars PROVE Histories'
  BY Zenon
<1>t. work \in [Conn -> Seq(Item)] /\ buf \in [Conn -> Seq(Item)]
  BY Zenon DEF TypeInv, TypeOK
<1>i. \A c \in Conn : work[c] # <<>> => Head(work[c]) \in Item /\ Head(work[c]).chunk \in Nat
  <2> SUFFICES ASSUME NEW c \in Conn, work[c] # <<>>
               PROVE  Head(work[c]) \in Item /\ Head(work[c]).chunk \in Nat
    BY Zenon
  <2>1. Head(work[c]) \in Item
    BY <1>t
  <2> QED
    BY <2>1, Zenon DEF Item
<1>1. CASE UNCHANGED <<sent, copied, dropped, lost>>
  BY <1>1, Zenon DEF Histories
<1>2. ASSUME NEW c \in Conn, NEW n \in Size, Write(c, n) PROVE Histories'
  <2>1. Chunks(buf[c]) \subseteq Nat
    <3>1. \A i \in DOMAIN buf[c] : buf[c][i] \in Item
      BY <1>t
    <3> QED
      BY <3>1, Zenon DEF Chunks, Item
  <2> QED
    BY <1>2, <2>1, Zenon DEF Write, Histories
<1>3. ASSUME NEW c \in Conn, Duplicate(c) PROVE Histories'
  BY <1>3, <1>i DEF Duplicate, At, Histories
<1>4. ASSUME NEW c \in Conn, Blackhole(c) \/ BurstyLoss(c) PROVE Histories'
  <2>1. work[c] # <<>> /\ (Drop(c) \/ UNCHANGED dropped) /\ UNCHANGED <<sent, copied, lost>>
    BY <1>4, Zenon DEF Blackhole, BurstyLoss, At
  <2>2. dropped' \in [Conn -> SUBSET Nat]
    <3>1. dropped[c] \cup {Head(work[c]).chunk} \in SUBSET Nat
      BY <1>i, <2>1, Zenon DEF Histories
    <3> QED
      BY <2>1, <3>1, Zenon DEF Drop, Histories
  <2> QED
    BY <2>1, <2>2, Zenon DEF Histories
<1>5. ASSUME NEW c \in Conn, Deliver(c) PROVE Histories'
  <2>1. Head(work[c]) \in Item /\ sent[c] \in Seq(Item)
    BY <1>5, <1>i, Zenon DEF Deliver, Histories
  <2>2. Append(sent[c], Head(work[c])) \in Seq(Item)
    BY <2>1
  <2> QED
    BY <1>5, <2>2, Zenon DEF Deliver, Histories, fates
<1> QED
  BY <1>1, <1>2, <1>3, <1>4, <1>5, Zenon
  DEF Next, Wrapper, Passing, ChangeRegistry, TakeTokens, TakeDeficit, Wake, Hold,
      PassReorder, fates, vars

LEMMA HistoriesInvariant == Spec => []Histories
<1>1. Init => Histories
  BY DEF Init, Histories
<1> QED
  BY <1>1, TypeInvariant, HistoriesStep, PTL DEF Spec

\* Looking at the schedule keeps it, and a burst that is on began not long ago.
LEMMA ScheduleKept ==
    ASSUME TypeInv, BurstInv, NEW on \in BOOLEAN, currentLossRate(on), UNCHANGED now
    PROVE  /\ BurstInv'
           /\ on => \E b \in bursts' : now \in b..(b + BurstFor)
<1>1. /\ now \in Nat /\ lastCheck \in Int /\ burstEnds \in Nat
      /\ BurstEvery \in Nat /\ BurstFor \in Nat
  BY ParamAssumption, Zenon DEF TypeInv, TypeOK
<1>2. CASE BurstDue
  <2>1. /\ burstEnds' = now + BurstFor /\ lastCheck' = now /\ bursts' = bursts \cup {now}
    BY <1>2, Zenon DEF currentLossRate
  <2>2. now - lastCheck > BurstEvery
    BY <1>2, Zenon DEF BurstDue
  <2>3. \A b \in bursts : b \in Nat /\ b < now /\ now - b > BurstEvery
    BY <1>1, <2>2 DEF BurstInv
  <2>4. BurstInv'
    BY <1>1, <2>1, <2>3 DEF BurstInv
  <2>5. now \in bursts' /\ now \in now..(now + BurstFor)
    BY <1>1, <2>1
  <2> QED
    BY <2>4, <2>5, Zenon
<1>3. CASE ~BurstDue
  <2>1. UNCHANGED <<burstEnds, lastCheck, bursts>>
    BY <1>3, Zenon DEF currentLossRate
  <2>2. inBurst' => inBurst /\ ~(now > burstEnds)
    BY <1>3, Zenon DEF currentLossRate, BurstOver
  <2>3. on => inBurst'
    BY Zenon DEF currentLossRate
  <2>4. inBurst' => lastCheck \in bursts /\ burstEnds = lastCheck + BurstFor
    BY <2>2, Zenon DEF BurstInv
  <2>5. BurstInv'
    BY <2>1, <2>4, Zenon DEF BurstInv
  <2>6. ASSUME on PROVE \E b \in bursts' : now \in b..(b + BurstFor)
    <3>1. lastCheck \in bursts /\ lastCheck \in Nat /\ lastCheck <= now
      BY <2>3, <2>4, <2>6, Zenon DEF BurstInv
    <3>2. now <= lastCheck + BurstFor
      BY <1>1, <2>2, <2>3, <2>4, <2>6
    <3> QED
      BY <1>1, <2>1, <3>1, <3>2
  <2> QED
    BY <2>5, <2>6, Zenon
<1> QED
  BY <1>2, <1>3, Zenon

LEMMA BurstStep == TypeInv /\ BurstInv /\ [Next]_vars => BurstInv'
<1> SUFFICES ASSUME TypeInv, BurstInv, [Next]_vars PROVE BurstInv'
  BY Zenon
<1>1. CASE UNCHANGED burst /\ now' \in {now, now + 1}
  BY <1>1 DEF BurstInv, burst, TypeInv, TypeOK
<1>2. ASSUME NEW c \in Conn, BurstyLoss(c) PROVE BurstInv'
  BY <1>2, ScheduleKept, Zenon DEF BurstyLoss
<1> QED
  BY <1>1, <1>2, Zenon
  DEF Next, Wrapper, Passing, ChangeRegistry, Write, TakeTokens, TakeDeficit, Wake, Hold,
      PassReorder, Duplicate, Blackhole, Deliver, burst, vars

\* Whatever the writes and however rarely they come: bursts begin more than
\* BurstEvery apart, and bursty_loss drops only within BurstFor of a beginning.
THEOREM LossOnlyInBursts == Spec => LossInBursts
<1> DEFINE A == /\ \A s, t \in bursts' : s < t => t - s > BurstEvery
                /\ \A c \in Conn : At(c, "bursty_loss") /\ dropped'[c] # dropped[c] =>
                      \E b \in bursts' : now \in b..(b + BurstFor)
<1>1. Init => BurstInv
  BY Zenon DEF Init, BurstInv
<1>2. TypeInv /\ Histories /\ BurstInv /\ [Next]_vars => [A]_vars
  <2> SUFFICES ASSUME TypeInv, Histories, BurstInv, [Next]_vars PROVE A
    BY Zenon
  <2>1. \A s, t \in bursts' : s < t => t - s > BurstEvery
    BY BurstStep, Zenon DEF BurstInv
  <2>2. ASSUME NEW c \in Conn, At(c, "bursty_loss"), dropped'[c] # dropped[c]
        PROVE  \E b \in bursts' : now \in b..(b + BurstFor)
    <3>1. PICK d \in Conn : Blackhole(d) \/ BurstyLoss(d)
      BY <2>2, Zenon
      DEF Next, Wrapper, Passing, ChangeRegistry, Write, TakeTokens, TakeDeficit, Wake,
          Hold, PassReorder, Duplicate, Deliver, fates, vars
    <3>2. Drop(d)
      BY <2>2, <3>1, Zenon DEF Blackhole, BurstyLoss
    <3>3. d = c
      BY <2>2, <3>2, Zenon DEF Drop, Histories
    <3>4. BurstyLoss(c)
      BY <2>2, <3>1, <3>3, Zenon DEF Blackhole, At
    <3>5. currentLossRate(TRUE) /\ UNCHANGED now
      BY <2>2, <3>4, Zenon DEF BurstyLoss
    <3> QED
      BY <3>5, ScheduleKept, Zenon
  <2> QED
    BY <2>1, <2>2, Zenon
<1> QED
  BY <1>1, <1>2, TypeInvariant, HistoriesInvariant, BurstStep, PTL DEF Spec, LossInBursts

-----------------------------------------------------------------------------
(* Where chunks come from, and their order                                 *)

\* What is on its way was read, and what reordering never held is part of the
\* Write in progress.
Origins ==
    \A c \in Conn :
        /\ \A i \in DOMAIN sent[c] : sent[c][i].chunk <= read[c]
        /\ \A i \in DOMAIN buf[c] : buf[c][i].chunk <= read[c] /\ buf[c][i].held
        /\ \A i \in DOMAIN work[c] :
             work[c][i].chunk <= read[c] /\ (work[c][i].held \/ work[c][i].chunk = read[c])

\* Handing an item down changes neither its chunk nor whether it was held.
LEMMA LowerKeeps ==
    ASSUME NEW x \in Item PROVE Lower(x).chunk = x.chunk /\ Lower(x).held = x.held
BY Zenon DEF Item, Lower

\* The stack after a wrapper: what it handed down, then the rest.
LEMMA ForwardStack ==
    ASSUME work \in [Conn -> Seq(Item)], NEW c \in Conn, work[c] # <<>>,
           NEW items \in Seq(Upper), Forward(c, items)
    PROVE  \E low \in Seq(Item) :
             /\ Len(low) = Len(items)
             /\ \A i \in 1..Len(items) : low[i] = Lower(items[i])
             /\ work'[c] = low \o Tail(work[c])
             /\ \A d \in Conn \ {c} : work'[d] = work[d]
<1> DEFINE l == [i \in DOMAIN items |-> Lower(items[i])]
<1>1. DOMAIN items = 1..Len(items) /\ Len(items) \in Nat
  OBVIOUS
<1>2. \A i \in 1..Len(items) : Lower(items[i]) \in Item
  BY LowerTyped
<1>3. l \in [1..Len(items) -> Item]
  BY <1>1, <1>2, Zenon
<1>4. \A i \in 1..Len(items) : l[i] = Lower(items[i])
  BY <1>1, Zenon
<1>5. work' = [work EXCEPT ![c] = l \o Tail(work[c])]
  BY Zenon DEF Forward
<1> HIDE DEF l
<1>6. l \in Seq(Item)
  BY <1>1, <1>3
<1>7. Len(l) = Len(items)
  BY <1>1, <1>3, <1>6
<1> QED
  BY <1>4, <1>5, <1>6, <1>7, Zenon

\* The elements of that stack.
LEMMA ForwardElements ==
    ASSUME work \in [Conn -> Seq(Item)], NEW c \in Conn, work[c] # <<>>,
           NEW items \in Seq(Upper), Forward(c, items),
           NEW i \in DOMAIN work'[c]
    PROVE  \/ \E j \in 1..Len(items) : work'[c][i] = Lower(items[j])
           \/ \E j \in DOMAIN work[c] : work'[c][i] = work[c][j]
<1>1. PICK low \in Seq(Item) :
             /\ Len(low) = Len(items)
             /\ \A j \in 1..Len(items) : low[j] = Lower(items[j])
             /\ work'[c] = low \o Tail(work[c])
  BY ForwardStack, Zenon
<1> DEFINE w == work[c]
           t == Tail(w)
<1>2. /\ w \in Seq(Item) /\ t \in Seq(Item) /\ Len(t) = Len(w) - 1
      /\ \A j \in 1..Len(t) : t[j] = w[j + 1]
  OBVIOUS
<1>3. i \in 1..(Len(low) + Len(t))
  BY <1>1, <1>2
<1>4. CASE i \in 1..Len(low)
  <2>1. work'[c][i] = low[i]
    BY <1>1, <1>2, <1>4
  <2> QED
    BY <1>1, <1>4, <2>1, Zenon
<1>5. CASE i \in (Len(low) + 1)..(Len(low) + Len(t))
  <2> DEFINE j == i - Len(low)
  <2>1. j \in 1..Len(t) /\ j + 1 \in 1..Len(w)
    BY <1>1, <1>2, <1>5
  <2>2. work'[c][i] = t[j]
    BY <1>1, <1>2, <1>5
  <2>3. work'[c][i] = w[j + 1] /\ j + 1 \in DOMAIN w
    BY <1>2, <2>1, <2>2
  <2> QED
    BY <2>3, Zenon
<1> QED
  BY <1>1, <1>3, <1>4, <1>5

\* A wrapper that hands down items of the Write in progress or of its buffer.
LEMMA OriginsForward ==
    ASSUME TypeInv, Origins, NEW c \in Conn, work[c] # <<>>,
           NEW items \in Seq(Upper), Forward(c, items),
           \A j \in 1..Len(items) :
              items[j].chunk <= read[c] /\ (items[j].held \/ items[j].chunk = read[c]),
           UNCHANGED read
    PROVE  \A d \in Conn : \A i \in DOMAIN work'[d] :
              /\ work'[d][i].chunk <= read'[d]
              /\ work'[d][i].held \/ work'[d][i].chunk = read'[d]
<1>1. work \in [Conn -> Seq(Item)]
  BY Zenon DEF TypeInv, TypeOK
<1> SUFFICES ASSUME NEW d \in Conn, NEW i \in DOMAIN work'[d]
             PROVE  /\ work'[d][i].chunk <= read[d]
                    /\ work'[d][i].held \/ work'[d][i].chunk = read[d]
  BY Zenon
<1>2. CASE d # c
  <2>1. work'[d] = work[d]
    BY <1>1, <1>2, OthersKept, Zenon
  <2> QED
    BY <2>1, Zenon DEF Origins
<1>3. CASE d = c
  <2>1. \/ \E j \in 1..Len(items) : work'[c][i] = Lower(items[j])
        \/ \E j \in DOMAIN work[c] : work'[c][i] = work[c][j]
    BY <1>1, <1>3, ForwardElements, Zenon
  <2>2. CASE \E j \in DOMAIN work[c] : work'[c][i] = work[c][j]
    BY <1>3, <2>2 DEF Origins
  <2>3. CASE \E j \in 1..Len(items) : work'[c][i] = Lower(items[j])
    <3>1. PICK j \in 1..Len(items) : work'[c][i] = Lower(items[j])
      BY <2>3, Zenon
    <3>2. items[j] \in Item
      BY DEF Upper
    <3> QED
      BY <1>3, <3>1, <3>2, LowerKeeps, Zenon
  <2> QED
    BY <2>1, <2>2, <2>3, Zenon
<1> QED
  BY <1>2, <1>3, Zenon

\* The item a wrapper sees is part of the stack.
LEMMA HeadOrigin ==
    ASSUME TypeInv, Origins, NEW c \in Conn, work[c] # <<>>
    PROVE  /\ Head(work[c]) \in Item
           /\ Head(work[c]).chunk <= read[c]
           /\ Head(work[c]).held \/ Head(work[c]).chunk = read[c]
<1>1. work[c] \in Seq(Item)
  BY Zenon DEF TypeInv, TypeOK
<1>2. Head(work[c]) = work[c][1] /\ 1 \in DOMAIN work[c] /\ Head(work[c]) \in Item
  BY <1>1
<1> QED
  BY <1>2 DEF Origins

LEMMA OriginsPass ==
    ASSUME TypeInv, Origins, NEW c \in Conn, work[c] # <<>>, Head(work[c]).depth > 0,
           NEW k \in Nat \ {0}, Forward(c, [i \in 1..k |-> Head(work[c])]),
           UNCHANGED <<read, sent, buf>>
    PROVE  Origins'
<1> DEFINE h == Head(work[c])
           items == [i \in 1..k |-> h]
<1>1. work \in [Conn -> Seq(Item)]
  BY Zenon DEF TypeInv, TypeOK
<1>2. h \in Upper
  BY <1>1, AtTyped, Zenon
<1>3. h.chunk <= read[c] /\ (h.held \/ h.chunk = read[c])
  BY HeadOrigin, Zenon
<1>4. Forward(c, items)
  BY Zenon
<1> HIDE DEF h
<1>5. items \in Seq(Upper) /\ Len(items) = k /\ \A j \in 1..k : items[j] = h
  BY <1>2
<1> HIDE DEF items
<1>6. \A d \in Conn : \A i \in DOMAIN work'[d] :
         /\ work'[d][i].chunk <= read'[d]
         /\ work'[d][i].held \/ work'[d][i].chunk = read'[d]
  BY <1>3, <1>4, <1>5, OriginsForward, Zenon
<1> QED
  BY <1>6, Zenon DEF Origins

LEMMA OriginsStep == TypeInv /\ Histories /\ Origins /\ [Next]_vars => Origins'
<1> SUFFICES ASSUME TypeInv, Histories, Origins, [Next]_vars PROVE Origins'
  BY Zenon
<1>t. /\ work \in [Conn -> Seq(Item)] /\ buf \in [Conn -> Seq(Upper)]
      /\ read \in [Conn -> Nat] /\ sent \in [Conn -> Seq(Item)]
  BY Zenon DEF TypeInv, TypeOK, Histories
<1>1. CASE UNCHANGED <<work, buf, sent, read>>
  BY <1>1, Zenon DEF Origins
<1>2. ASSUME NEW c \in Conn, NEW n \in Size, Write(c, n) PROVE Origins'
  <2> DEFINE item == [chunk |-> read[c] + 1, size |-> n,
                      depth |-> Len(IF c \in stale THEN chain ELSE wrapped[c]),
                      held |-> FALSE]
  <2>1. /\ read' = [read EXCEPT ![c] = @ + 1] /\ sent' = sent
        /\ buf' = [buf EXCEPT ![c] = IF c \in stale THEN <<>> ELSE @]
        /\ work' = [work EXCEPT ![c] = <<item>>]
    BY <1>2, Zenon DEF Write
  <2>2. item.chunk = read[c] + 1
    BY Zenon
  <2> HIDE DEF item
  <2>3. \A d \in Conn : read[d] \in Nat /\ read[d] <= read'[d] /\ read'[d] \in Nat
    BY <1>t, <2>1
  <2>4. \A d \in Conn : \A i \in DOMAIN sent'[d] : sent'[d][i].chunk <= read'[d]
    <3> SUFFICES ASSUME NEW d \in Conn, NEW i \in DOMAIN sent[d]
                 PROVE  sent[d][i].chunk <= read'[d]
      BY <2>1, Zenon
    <3>1. sent[d][i] \in Item
      BY <1>t
    <3>2. sent[d][i].chunk \in Nat /\ sent[d][i].chunk <= read[d]
      BY <3>1, Zenon DEF Item, Origins
    <3> QED
      BY <2>3, <3>2
  <2>5. \A d \in Conn : \A i \in DOMAIN buf'[d] : buf'[d][i].chunk <= read'[d] /\ buf'[d][i].held
    <3> SUFFICES ASSUME NEW d \in Conn, NEW i \in DOMAIN buf'[d]
                 PROVE  buf'[d][i].chunk <= read'[d] /\ buf'[d][i].held
      BY Zenon
    <3>1. i \in DOMAIN buf[d] /\ buf'[d][i] = buf[d][i]
      BY <1>t, <2>1
    <3>2. buf[d][i] \in Item
      <4>1. buf[d] \in Seq(Item)
        BY Zenon DEF TypeInv, TypeOK
      <4> QED
        BY <3>1, <4>1
    <3>3. buf[d][i].chunk \in Nat /\ buf[d][i].chunk <= read[d] /\ buf[d][i].held
      BY <3>1, <3>2, Zenon DEF Item, Origins
    <3> QED
      BY <2>3, <3>1, <3>3
  <2>6. \A d \in Conn : \A i \in DOMAIN work'[d] :
          work'[d][i].chunk <= read'[d] /\ (work'[d][i].held \/ work'[d][i].chunk = read'[d])
    <3> SUFFICES ASSUME NEW d \in Conn, NEW i \in DOMAIN work'[d]
                 PROVE  /\ work'[d][i].chunk <= read'[d]
                        /\ work'[d][i].held \/ work'[d][i].chunk = read'[d]
      BY Zenon
    <3>1. CASE d = c
      <4>1. work'[c] = <<item>> /\ read'[c] = read[c] + 1
        BY <1>t, <2>1, Zenon
      <4>2. work'[c][i] = item
        BY <3>1, <4>1
      <4> QED
        BY <1>t, <2>2, <3>1, <4>1, <4>2
    <3>2. CASE d # c
      <4>1. work'[d] = work[d] /\ read'[d] = read[d]
        BY <1>t, <2>1, <3>2, Zenon
      <4> QED
        BY <4>1, Zenon DEF Origins
    <3> QED
      BY <3>1, <3>2, Zenon
  <2> QED
    BY <2>4, <2>5, <2>6, Zenon DEF Origins
<1>3. ASSUME NEW c \in Conn, work[c] # <<>>, Head(work[c]).depth > 0, Pass(c),
             UNCHANGED <<read, sent, buf>>
      PROVE  Origins'
  <2>1. Forward(c, [i \in 1..1 |-> Head(work[c])])
    <3>1. <<Head(work[c])>> = [i \in 1..1 |-> Head(work[c])]
      OBVIOUS
    <3> QED
      BY <1>3, <3>1, Zenon DEF Pass
  <2>2. 1 \in Nat \ {0}
    OBVIOUS
  <2> HIDE DEF Origins
  <2> QED
    BY ONLY TypeInv, Origins, <1>3, <2>1, <2>2, OriginsPass, Zenon
<1>4. ASSUME NEW c \in Conn, Wake(c) PROVE Origins'
  <2>1. work[c] # <<>> /\ Head(work[c]).depth > 0
    BY <1>4, Zenon DEF Wake, TypeInv, Passable
  <2> QED
    BY <1>3, <1>4, <2>1, Zenon DEF Wake
<1>5. ASSUME NEW c \in Conn, TakeTokens(c) \/ PassReorder(c) PROVE Origins'
  BY <1>3, <1>5, Zenon DEF TakeTokens, PassReorder, At
<1>6. ASSUME NEW c \in Conn, Duplicate(c) PROVE Origins'
  <2>1. PICK k \in 0..MaxExtraCopies : Forward(c, [i \in 1..(k + 1) |-> Head(work[c])])
    BY <1>6, Zenon DEF Duplicate
  <2>2. k + 1 \in Nat \ {0}
    BY ParamAssumption
  <2> QED
    BY <1>6, <2>1, <2>2, OriginsPass, Zenon DEF Duplicate, At
<1>7. ASSUME NEW c \in Conn, work[c] # <<>>, Swallow(c), UNCHANGED read
      PROVE  \A d \in Conn : \A i \in DOMAIN work'[d] :
                /\ work'[d][i].chunk <= read'[d]
                /\ work'[d][i].held \/ work'[d][i].chunk = read'[d]
  <2>1. <<>> \in Seq(Upper) /\ \A j \in 1..Len(<<>>) : FALSE
    OBVIOUS
  <2> QED
    BY <1>7, <2>1, OriginsForward, Zenon DEF Swallow
<1>8. ASSUME NEW c \in Conn, Blackhole(c) \/ BurstyLoss(c) PROVE Origins'
  <2>1. /\ work[c] # <<>> /\ Head(work[c]).depth > 0 /\ (Pass(c) \/ Swallow(c))
        /\ UNCHANGED <<read, sent, buf>>
    BY <1>8, Zenon DEF Blackhole, BurstyLoss, At, Drop
  <2>2. CASE Swallow(c)
    BY <1>7, <2>1, <2>2, Zenon DEF Origins
  <2> QED
    BY <1>3, <2>1, <2>2, Zenon
<1>9. ASSUME NEW c \in Conn, Hold(c) PROVE Origins'
  <2> DEFINE top == [Head(work[c]) EXCEPT !.held = TRUE]
             held == Append(buf[c], top)
  <2>1. /\ work[c] # <<>> /\ Head(work[c]).depth > 0 /\ UNCHANGED <<read, sent>>
    BY <1>9, Zenon DEF Hold, At
  <2>2. top \in Upper /\ top.chunk <= read[c] /\ top.held
    BY <2>1, HeadOrigin, Zenon DEF Upper, Item
  <2>3. \/ buf' = [buf EXCEPT ![c] = held] /\ Swallow(c)
        \/ buf' = [buf EXCEPT ![c] = <<>>] /\ \E s \in Shuffles(held) : Forward(c, s)
    BY <1>9, Zenon DEF Hold
  <2> HIDE DEF top
  <2>4. /\ held \in Seq(Upper) /\ Len(held) = Len(buf[c]) + 1 /\ Len(buf[c]) \in Nat
        /\ \A i \in 1..Len(buf[c]) : held[i] = buf[c][i]
        /\ held[Len(buf[c]) + 1] = top
    BY <1>t, <2>2
  <2> HIDE DEF held
  <2>5. \A i \in 1..Len(held) : held[i].chunk <= read[c] /\ held[i].held
    <3> SUFFICES ASSUME NEW i \in 1..Len(held)
                 PROVE  held[i].chunk <= read[c] /\ held[i].held
      BY Zenon
    <3>1. CASE i \in 1..Len(buf[c])
      <4>1. i \in DOMAIN buf[c]
        BY <1>t, <3>1
      <4> QED
        BY <2>4, <3>1, <4>1, Zenon DEF Origins
    <3>2. CASE i = Len(buf[c]) + 1
      BY <2>2, <2>4, <3>2, Zenon
    <3> QED
      BY <2>4, <3>1, <3>2
  <2>6. CASE buf' = [buf EXCEPT ![c] = held] /\ Swallow(c)
    <3>1. \A d \in Conn : \A i \in DOMAIN work'[d] :
             /\ work'[d][i].chunk <= read'[d]
             /\ work'[d][i].held \/ work'[d][i].chunk = read'[d]
      BY <1>7, <2>1, <2>6, Zenon
    <3>2. DOMAIN held = 1..Len(held)
      BY <2>4
    <3>3. \A d \in Conn : \A i \in DOMAIN buf'[d] : buf'[d][i].chunk <= read'[d] /\ buf'[d][i].held
      BY <1>t, <2>1, <2>5, <2>6, <3>2 DEF Origins
    <3> QED
      BY <2>1, <3>1, <3>3, Zenon DEF Origins
  <2>7. ASSUME buf' = [buf EXCEPT ![c] = <<>>], NEW s \in Shuffles(held), Forward(c, s)
        PROVE  Origins'
    <3>1. s \in Seq(Upper) /\ \A j \in 1..Len(s) : s[j].chunk <= read[c] /\ s[j].held
      <4>1. DOMAIN held = 1..Len(held) /\ s \in Seq(Upper)
        BY <2>4, ShuffleTyped
      <4>2. PICK p \in [DOMAIN held -> DOMAIN held] : s = [i \in DOMAIN held |-> held[p[i]]]
        BY Zenon DEF Shuffles
      <4>3. DOMAIN s = 1..Len(s) /\ DOMAIN s = DOMAIN held
        BY <4>1, <4>2
      <4>4. \A j \in DOMAIN s : s[j] = held[p[j]] /\ p[j] \in 1..Len(held)
        BY <4>1, <4>2, <4>3, Zenon
      <4> QED
        BY <2>5, <4>1, <4>3, <4>4, Zenon
    <3>2. \A d \in Conn : \A i \in DOMAIN work'[d] :
             /\ work'[d][i].chunk <= read'[d]
             /\ work'[d][i].held \/ work'[d][i].chunk = read'[d]
      BY <2>1, <2>7, <3>1, OriginsForward, Zenon
    <3>3. \A d \in Conn : \A i \in DOMAIN buf'[d] : buf'[d][i].chunk <= read'[d] /\ buf'[d][i].held
      BY <1>t, <2>1, <2>7 DEF Origins
    <3> QED
      BY <2>1, <3>2, <3>3, Zenon DEF Origins
  <2> QED
    BY <2>3, <2>6, <2>7, Zenon
<1>10. ASSUME NEW c \in Conn, Deliver(c) PROVE Origins'
  <2>1. /\ work[c] # <<>> /\ sent' = [sent EXCEPT ![c] = Append(@, Head(work[c]))]
        /\ work' = [work EXCEPT ![c] = Tail(@)] /\ UNCHANGED <<read, buf>>
    BY <1>10, Zenon DEF Deliver
  <2>2. Head(work[c]).chunk <= read[c]
    BY <2>1, HeadOrigin, Zenon
  <2>3. \A d \in Conn : \A i \in DOMAIN sent'[d] : sent'[d][i].chunk <= read'[d]
    <3> SUFFICES ASSUME NEW d \in Conn, NEW i \in DOMAIN sent'[d]
                 PROVE  sent'[d][i].chunk <= read[d]
      BY <2>1, Zenon
    <3>1. CASE d # c
      BY <1>t, <2>1, <3>1, Zenon DEF Origins
    <3>2. CASE d = c
      <4>1. sent'[c] = Append(sent[c], Head(work[c])) /\ sent[c] \in Seq(Item)
        BY <1>t, <2>1, Zenon
      <4>2. \/ i \in DOMAIN sent[c] /\ sent'[c][i] = sent[c][i]
            \/ sent'[c][i] = Head(work[c])
        BY <3>2, <4>1
      <4> QED
        BY <2>2, <3>2, <4>2, Zenon DEF Origins
    <3> QED
      BY <3>1, <3>2, Zenon
  <2>4. \A d \in Conn : \A i \in DOMAIN work'[d] :
          \E j \in DOMAIN work[d] : work'[d][i] = work[d][j]
    <3> SUFFICES ASSUME NEW d \in Conn, NEW i \in DOMAIN work'[d]
                 PROVE  \E j \in DOMAIN work[d] : work'[d][i] = work[d][j]
      BY Zenon
    <3>1. CASE d # c
      BY <1>t, <2>1, <3>1, Zenon
    <3>2. CASE d = c
      <4>1. work'[c] = Tail(work[c]) /\ work[c] \in Seq(Item)
        BY <1>t, <2>1, Zenon
      <4>2. i + 1 \in DOMAIN work[c] /\ work'[c][i] = work[c][i + 1]
        <5> DEFINE w == work[c]
        <5>1. w \in Seq(Item) /\ w # <<>> /\ i \in DOMAIN Tail(w)
          BY <2>1, <3>2, <4>1, Zenon
        <5> HIDE DEF w
        <5>2. i + 1 \in DOMAIN w /\ Tail(w)[i] = w[i + 1]
          BY <5>1
        <5> QED
          BY <4>1, <5>2, Zenon DEF w
      <4> QED
        BY <3>2, <4>2, Zenon
    <3> QED
      BY <3>1, <3>2, Zenon
  <2> QED
    BY <2>1, <2>3, <2>4 DEF Origins
<1> QED
  BY <1>1, <1>2, <1>4, <1>5, <1>6, <1>8, <1>9, <1>10, Zenon
  DEF Next, Wrapper, Passing, ChangeRegistry, TakeDeficit, vars

LEMMA OriginsInvariant == Spec => []Origins
<1>1. Init => Origins
  <2> SUFFICES ASSUME Init, NEW c \in Conn
               PROVE  DOMAIN sent[c] = {} /\ DOMAIN buf[c] = {} /\ DOMAIN work[c] = {}
    BY Zenon DEF Origins
  <2>1. sent[c] = <<>> /\ buf[c] = <<>> /\ work[c] = <<>>
    BY Zenon DEF Init
  <2> QED
    BY <2>1
<1> QED
  BY <1>1, TypeInvariant, HistoriesInvariant, OriginsStep, PTL DEF Spec

\* Whatever is dropped, copied, delayed or faulted by chains changed under way:
\* an overtaken chunk was held by reordering.
THEOREM OnlyReorderingReorders == Spec => []OrderKept
<1>1. Init => OrderKept
  <2> SUFFICES ASSUME Init, NEW c \in Conn PROVE DOMAIN sent[c] = {}
    BY Zenon DEF OrderKept
  <2>1. sent[c] = <<>>
    BY Zenon DEF Init
  <2> QED
    BY <2>1
<1>2. TypeInv /\ Histories /\ Origins /\ OrderKept /\ [Next]_vars => OrderKept'
  <2> SUFFICES ASSUME TypeInv, Histories, Origins, OrderKept, [Next]_vars PROVE OrderKept'
    BY Zenon
  <2>1. CASE UNCHANGED sent
    BY <2>1, Zenon DEF OrderKept
  <2>2. ASSUME NEW c \in Conn, Deliver(c) PROVE OrderKept'
    <3> DEFINE h == Head(work[c])
               s == sent[c]
    <3>1. /\ work[c] # <<>> /\ sent' = [sent EXCEPT ![c] = Append(s, h)]
          /\ sent \in [Conn -> Seq(Item)]
      BY <2>2, Zenon DEF Deliver, Histories
    <3>2. h \in Item /\ h.chunk \in Nat /\ (h.held \/ h.chunk = read[c])
      BY <3>1, HeadOrigin, Zenon DEF Item
    <3>3. s \in Seq(Item) /\ \A i \in DOMAIN s : s[i].chunk \in Nat /\ s[i].chunk <= read[c]
      <4>1. s \in Seq(Item)
        BY <3>1, Zenon
      <4>2. \A i \in DOMAIN s : s[i] \in Item
        BY <4>1
      <4> QED
        BY <4>1, <4>2, Zenon DEF Origins, Item
    <3> HIDE DEF h
    <3> SUFFICES ASSUME NEW d \in Conn, NEW i \in DOMAIN sent'[d], NEW j \in DOMAIN sent'[d],
                        i < j, sent'[d][i].chunk > sent'[d][j].chunk
                 PROVE  sent'[d][j].held
      BY Zenon DEF OrderKept
    <3>4. CASE d # c
      BY <3>1, <3>4, Zenon DEF OrderKept
    <3>5. CASE d = c
      <4>1. sent'[c] = Append(s, h)
        BY <3>1, Zenon
      <4>2. i \in DOMAIN s /\ sent'[c][i] = s[i]
        BY <3>3, <3>5, <4>1
      <4>3. (j \in DOMAIN s /\ sent'[c][j] = s[j]) \/ sent'[c][j] = h
        BY <3>3, <3>5, <4>1
      <4>4. CASE j \in DOMAIN s /\ sent'[c][j] = s[j]
        BY <3>5, <4>2, <4>4, Zenon DEF OrderKept
      <4>5. CASE sent'[c][j] = h
        <5>1. h.chunk # read[c]
          <6>1. read[c] \in Nat
            BY Zenon DEF TypeInv
          <6> QED
            BY <3>2, <3>3, <3>5, <4>2, <4>5, <6>1
        <5> QED
          BY <3>2, <3>5, <4>5, <5>1, Zenon
      <4> QED
        BY <4>3, <4>4, <4>5, Zenon
    <3> QED
      BY <3>4, <3>5, Zenon
  <2> QED
    BY <2>1, <2>2, Zenon
    DEF Next, Wrapper, Passing, ChangeRegistry, Write, TakeTokens, TakeDeficit, Wake, Hold,
        PassReorder, Duplicate, Blackhole, BurstyLoss, vars
<1> QED
  BY <1>1, <1>2, TypeInvariant, HistoriesInvariant, OriginsInvariant, PTL DEF Spec

-----------------------------------------------------------------------------
(* What becomes of a chunk                                                 *)

Has(s, k) == Copies(s, k) # {}

Single(s, k) == \A i, j \in Copies(s, k) : i = j

\* Chunk k is at most once in the three sequences together.
Apart(a, b, d, k) ==
    /\ Single(a, k) /\ Single(b, k) /\ Single(d, k)
    /\ ~(Has(a, k) /\ Has(b, k))
    /\ ~(Has(a, k) /\ Has(d, k))
    /\ ~(Has(b, k) /\ Has(d, k))

\* ChunkFates in these words.
Fate(c, k) ==
    /\ k \notin dropped[c] \cup lost[c] =>
          Has(sent[c], k) \/ Has(work[c], k) \/ Has(buf[c], k)
    /\ k \notin copied[c] => Apart(sent[c], work[c], buf[c], k)

FateInv == \A c \in Conn : \A k \in 1..read[c] : Fate(c, k)

LEMMA EmptyHas == \A k : ~Has(<<>>, k) /\ Single(<<>>, k)
BY DEF Has, Single, Copies

LEMMA OneHas ==
    ASSUME NEW x, NEW k
    PROVE  (Has(<<x>>, k) <=> x.chunk = k) /\ Single(<<x>>, k)
<1>1. DOMAIN <<x>> = {1} /\ <<x>>[1] = x
  OBVIOUS
<1> DEFINE s == <<x>>
<1> HIDE DEF s
<1>2. DOMAIN s = {1} /\ s[1] = x => (Has(s, k) <=> x.chunk = k) /\ Single(s, k)
  BY Zenon DEF Has, Single, Copies
<1> QED
  BY <1>1, <1>2, Zenon DEF s

LEMMA ConcatHas ==
    ASSUME NEW s \in Seq(Item), NEW t \in Seq(Item), NEW k
    PROVE  /\ Has(s \o t, k) <=> Has(s, k) \/ Has(t, k)
           /\ Single(s, k) /\ Single(t, k) /\ ~(Has(s, k) /\ Has(t, k)) => Single(s \o t, k)
<1> DEFINE u == s \o t
           m == Len(s)
           n == Len(t)
<1>1. /\ DOMAIN s = 1..m /\ DOMAIN t = 1..n /\ DOMAIN u = 1..(m + n)
      /\ m \in Nat /\ n \in Nat
      /\ \A i \in 1..m : u[i] = s[i]
      /\ \A i \in 1..n : u[i + m] = t[i]
  OBVIOUS
<1> HIDE DEF u, m, n
<1>2. \A i \in 1..(m + n) : i \in 1..m \/ (i - m \in 1..n /\ i = (i - m) + m)
  BY <1>1
<1>3. \A i \in 1..m : i \in 1..(m + n)
  BY <1>1
<1>4. \A i \in 1..n : i + m \in 1..(m + n)
  BY <1>1
<1>5. \A i \in Copies(u, k) : i \in Copies(s, k) \/ (i - m \in Copies(t, k) /\ i \in Int)
  BY <1>1, <1>2 DEF Copies
<1>6. \A i \in Copies(s, k) : i \in Copies(u, k)
  BY <1>1, <1>3, Zenon DEF Copies
<1>7. \A i \in Copies(t, k) : i + m \in Copies(u, k)
  BY <1>1, <1>4, Zenon DEF Copies
<1>8. Has(u, k) <=> Has(s, k) \/ Has(t, k)
  BY <1>5, <1>6, <1>7, Zenon DEF Has
<1>9. ASSUME Single(s, k), Single(t, k), ~(Has(s, k) /\ Has(t, k)) PROVE Single(u, k)
  <2> SUFFICES ASSUME NEW i \in Copies(u, k), NEW j \in Copies(u, k) PROVE i = j
    BY Zenon DEF Single
  <2>1. CASE Has(s, k)
    BY <1>5, <1>9, <2>1, Zenon DEF Has, Single
  <2>2. CASE ~Has(s, k)
    <3>1. i - m \in Copies(t, k) /\ j - m \in Copies(t, k) /\ i \in Int /\ j \in Int
      BY <1>5, <2>2, Zenon DEF Has
    <3>2. i - m = j - m
      BY <1>9, <3>1, Zenon DEF Single
    <3> QED
      BY <1>1, <3>1, <3>2
  <2> QED
    BY <2>1, <2>2, Zenon
<1> QED
  BY <1>8, <1>9, Zenon DEF u

LEMMA HeadTailHas ==
    ASSUME NEW w \in Seq(Item), w # <<>>, NEW k
    PROVE  /\ Tail(w) \in Seq(Item)
           /\ Has(w, k) <=> Head(w).chunk = k \/ Has(Tail(w), k)
           /\ Single(w, k) => Single(Tail(w), k)
           /\ Single(w, k) => ~(Head(w).chunk = k /\ Has(Tail(w), k))
<1> DEFINE t == Tail(w)
           n == Len(w)
<1>1. /\ DOMAIN w = 1..n /\ DOMAIN t = 1..(n - 1) /\ n \in Nat /\ n > 0
      /\ \A i \in 1..(n - 1) : t[i] = w[i + 1]
      /\ Head(w) = w[1] /\ t \in Seq(Item)
  OBVIOUS
<1> HIDE DEF t, n
<1>2. \A i \in 1..n : i = 1 \/ (i - 1 \in 1..(n - 1) /\ i = (i - 1) + 1)
  BY <1>1
<1>3. \A i \in 1..(n - 1) : i + 1 \in 1..n /\ i + 1 # 1
  BY <1>1
<1>4. \A i \in Copies(w, k) : (i = 1 /\ Head(w).chunk = k) \/ i - 1 \in Copies(t, k)
  BY <1>1, <1>2, Zenon DEF Copies
<1>5. \A i \in Copies(t, k) : i + 1 \in Copies(w, k) /\ i + 1 # 1 /\ i \in Int
  BY <1>1, <1>3 DEF Copies
<1>6. Head(w).chunk = k => 1 \in Copies(w, k)
  BY <1>1 DEF Copies
<1>7. Has(w, k) <=> Head(w).chunk = k \/ Has(t, k)
  BY <1>4, <1>5, <1>6, Zenon DEF Has
<1>8. ASSUME Single(w, k) PROVE Single(t, k)
  <2> SUFFICES ASSUME NEW i \in Copies(t, k), NEW j \in Copies(t, k) PROVE i = j
    BY Zenon DEF Single
  <2>1. i + 1 = j + 1 /\ i \in Int /\ j \in Int
    BY <1>5, <1>8, Zenon DEF Single
  <2> QED
    BY <2>1
<1>9. Single(w, k) => ~(Head(w).chunk = k /\ Has(t, k))
  BY <1>5, <1>6, Zenon DEF Single, Has
<1> QED
  BY <1>1, <1>7, <1>8, <1>9, Zenon DEF t

LEMMA AppendHas ==
    ASSUME NEW s \in Seq(Item), NEW x \in Item, NEW k
    PROVE  /\ Has(Append(s, x), k) <=> Has(s, k) \/ x.chunk = k
           /\ Single(s, k) /\ ~(Has(s, k) /\ x.chunk = k) => Single(Append(s, x), k)
<1>1. Append(s, x) = s \o <<x>> /\ <<x>> \in Seq(Item)
  OBVIOUS
<1> DEFINE t == <<x>>
<1>2. Has(t, k) <=> x.chunk = k
  BY OneHas, Zenon
<1>3. Single(t, k)
  BY OneHas, Zenon
<1> HIDE DEF t
<1>4. t \in Seq(Item) /\ Append(s, x) = s \o t
  BY <1>1, Zenon DEF t
<1> QED
  BY <1>2, <1>3, <1>4, ConcatHas

\* A shuffle is a permutation: it holds the same chunks as often.
LEMMA ShuffleHas ==
    ASSUME NEW s \in Seq(Upper), NEW t \in Shuffles(s), NEW k
    PROVE  /\ Has(t, k) <=> Has(s, k)
           /\ Single(s, k) => Single(t, k)
<1> DEFINE D == DOMAIN s
<1>1. D = 1..Len(s) /\ Len(s) \in Nat
  OBVIOUS
<1>2. PICK p \in [D -> D] :
        t = [i \in D |-> s[p[i]]] /\ \A i, j \in D : p[i] = p[j] => i = j
  BY Zenon DEF Shuffles
<1>3. IsFiniteSet(D)
  BY <1>1, FS_Interval
<1> HIDE DEF D
<1>4. p \in Injection(D, D)
  BY <1>2, Zenon DEF Injection, IsInjective
<1>5. p \in Surjection(D, D)
  BY <1>3, <1>4, FS_Injection, Zenon
<1>6. \A j \in D : \E i \in D : p[i] = j
  BY <1>5, Zenon DEF Surjection
<1>7. DOMAIN t = D /\ \A i \in D : t[i] = s[p[i]] /\ p[i] \in D
  BY <1>2, Zenon
<1>8. \A i \in Copies(t, k) : i \in D /\ p[i] \in Copies(s, k)
  BY <1>7, Zenon DEF Copies, D
<1>9. \A j \in Copies(s, k) : \E i \in D : i \in Copies(t, k)
  <2> SUFFICES ASSUME NEW j \in Copies(s, k) PROVE \E i \in D : i \in Copies(t, k)
    BY Zenon
  <2>1. j \in D /\ s[j].chunk = k
    BY Zenon DEF Copies, D
  <2>2. PICK i \in D : p[i] = j
    BY <1>6, <2>1, Zenon
  <2>3. t[i].chunk = k
    BY <1>7, <2>1, <2>2, Zenon
  <2> QED
    BY <1>7, <2>3, Zenon DEF Copies
<1>10. Has(t, k) <=> Has(s, k)
  BY <1>8, <1>9, Zenon DEF Has
<1>11. Single(s, k) => Single(t, k)
  BY <1>2, <1>8, Zenon DEF Single
<1> QED
  BY <1>10, <1>11, Zenon

\* The stack after a wrapper holds what it handed down and the rest.
LEMMA ForwardHas ==
    ASSUME work \in [Conn -> Seq(Item)], NEW c \in Conn, work[c] # <<>>,
           NEW items \in Seq(Upper), Forward(c, items), NEW k
    PROVE  /\ Has(work'[c], k) <=> Has(items, k) \/ Has(Tail(work[c]), k)
           /\ /\ Single(items, k) /\ Single(Tail(work[c]), k)
              /\ ~(Has(items, k) /\ Has(Tail(work[c]), k))
              => Single(work'[c], k)
<1>1. PICK low \in Seq(Item) :
             /\ Len(low) = Len(items)
             /\ \A i \in 1..Len(items) : low[i] = Lower(items[i])
             /\ work'[c] = low \o Tail(work[c])
  BY ForwardStack, Zenon
<1>2. Tail(work[c]) \in Seq(Item)
  OBVIOUS
<1>3. DOMAIN low = DOMAIN items /\ DOMAIN items = 1..Len(items)
  BY <1>1
<1>4. \A i \in 1..Len(items) : items[i] \in Item
  BY DEF Upper
<1>5. \A i \in 1..Len(items) : low[i].chunk = items[i].chunk
  BY <1>1, <1>4, LowerKeeps, Zenon
<1>6. Copies(low, k) = Copies(items, k)
  BY <1>3, <1>5, Zenon DEF Copies
<1>7. (Has(low, k) <=> Has(items, k)) /\ (Single(low, k) <=> Single(items, k))
  BY <1>6, Zenon DEF Has, Single
<1> DEFINE rest == Tail(work[c])
<1> HIDE DEF rest
<1>8. /\ Has(low \o rest, k) <=> Has(low, k) \/ Has(rest, k)
      /\ Single(low, k) /\ Single(rest, k) /\ ~(Has(low, k) /\ Has(rest, k))
         => Single(low \o rest, k)
  BY <1>2, ConcatHas, Zenon DEF rest
<1>9. work'[c] = low \o rest
  BY <1>1, Zenon DEF rest
<1>10. /\ Has(work'[c], k) <=> Has(items, k) \/ Has(rest, k)
       /\ Single(items, k) /\ Single(rest, k) /\ ~(Has(items, k) /\ Has(rest, k))
          => Single(work'[c], k)
  BY <1>7, <1>8, <1>9, Zenon
<1> QED
  BY <1>10, Zenon DEF rest

\* A step of c's Write leaves other connections' chunks alone.
LEMMA FateOthers ==
    ASSUME FateInv, NEW c \in Conn,
           \A d \in Conn \ {c} :
              /\ work'[d] = work[d] /\ sent'[d] = sent[d] /\ buf'[d] = buf[d]
              /\ read'[d] = read[d]
              /\ copied'[d] = copied[d] /\ dropped'[d] = dropped[d] /\ lost'[d] = lost[d],
           \A k \in 1..read'[c] : Fate(c, k)'
    PROVE  FateInv'
<1>1. ASSUME NEW d \in Conn, d # c PROVE \A k \in 1..read'[d] : Fate(d, k)'
  BY <1>1, Zenon DEF FateInv, Fate
<1> QED
  BY <1>1, Zenon DEF FateInv

\* A step that only rearranges the stack.
LEMMA FateStack ==
    ASSUME TypeInv, FateInv, NEW c \in Conn, UNCHANGED <<read, sent, buf, lost>>,
           \A d \in Conn \ {c} :
              work'[d] = work[d] /\ copied'[d] = copied[d] /\ dropped'[d] = dropped[d],
           copied[c] \subseteq copied'[c], dropped[c] \subseteq dropped'[c],
           \A k \in 1..read[c] :
              /\ k \notin dropped'[c] /\ Has(work[c], k) => Has(work'[c], k)
              /\ Has(work'[c], k) => Has(work[c], k)
              /\ k \notin copied'[c] /\ Single(work[c], k) => Single(work'[c], k)
    PROVE  FateInv'
<1>1. ASSUME NEW k \in 1..read[c] PROVE Fate(c, k)'
  <2>1. Fate(c, k)
    BY Zenon DEF FateInv
  <2> QED
    BY <2>1, Zenon DEF Fate, Apart
<1> QED
  BY <1>1, FateOthers, Zenon

\* A wrapper that passes its item on.
LEMMA FatePass ==
    ASSUME TypeInv, Histories, FateInv, NEW c \in Conn, work[c] # <<>>,
           Head(work[c]).depth > 0, Pass(c),
           UNCHANGED <<read, sent, buf, copied, dropped, lost>>
    PROVE  FateInv'
<1> DEFINE h == Head(work[c])
<1>1. work \in [Conn -> Seq(Item)]
  BY Zenon DEF TypeInv, TypeOK
<1>2. <<h>> \in Seq(Upper)
  BY <1>1, AtTyped
<1>3. Forward(c, <<h>>)
  BY Zenon DEF Pass
<1> DEFINE it == <<h>>
<1>4. \A k : (Has(it, k) <=> h.chunk = k) /\ Single(it, k)
  BY OneHas, Zenon
<1> HIDE DEF it, h
<1>5. \A k \in 1..read[c] :
         /\ Has(work'[c], k) <=> Has(work[c], k)
         /\ Single(work[c], k) => Single(work'[c], k)
  <2> SUFFICES ASSUME NEW k \in 1..read[c]
               PROVE  /\ Has(work'[c], k) <=> Has(work[c], k)
                      /\ Single(work[c], k) => Single(work'[c], k)
    BY Zenon
  <2>1. /\ Has(work'[c], k) <=> Has(it, k) \/ Has(Tail(work[c]), k)
        /\ /\ Single(it, k) /\ Single(Tail(work[c]), k)
           /\ ~(Has(it, k) /\ Has(Tail(work[c]), k))
           => Single(work'[c], k)
    BY <1>1, <1>2, <1>3, ForwardHas, Zenon DEF it
  <2>2. /\ Has(work[c], k) <=> h.chunk = k \/ Has(Tail(work[c]), k)
        /\ Single(work[c], k) => Single(Tail(work[c]), k)
        /\ Single(work[c], k) => ~(h.chunk = k /\ Has(Tail(work[c]), k))
    BY <1>1, HeadTailHas, Zenon DEF h
  <2> QED
    BY <1>4, <2>1, <2>2, Zenon
<1>6. \A d \in Conn \ {c} : work'[d] = work[d]
  BY <1>1, <1>3, OthersKept, Zenon
<1> QED
  BY <1>5, <1>6, FateStack, Zenon

LEMMA FateDuplicate ==
    ASSUME TypeInv, Histories, FateInv, NEW c \in Conn, Duplicate(c) PROVE FateInv'
<1>1. work \in [Conn -> Seq(Item)] /\ copied \in [Conn -> SUBSET Nat]
  BY Zenon DEF TypeInv, TypeOK, Histories
<1> DEFINE h == Head(work[c])
<1>2. work[c] # <<>> /\ h.depth > 0 /\ UNCHANGED <<read, sent, buf, dropped, lost>>
  BY Zenon DEF Duplicate, At
<1>3. PICK n \in 0..MaxExtraCopies :
        /\ Forward(c, [i \in 1..(n + 1) |-> h])
        /\ copied' = [copied EXCEPT ![c] = IF n = 0 THEN @ ELSE @ \cup {h.chunk}]
  BY Zenon DEF Duplicate
<1> DEFINE it == [i \in 1..(n + 1) |-> h]
<1>4. h \in Upper
  BY <1>1, <1>2, AtTyped, Zenon
<1>5. n \in Nat /\ it \in Seq(Upper) /\ Forward(c, it)
  BY <1>3, <1>4, ParamAssumption
<1>6. DOMAIN it = 1..(n + 1) /\ \A i \in 1..(n + 1) : it[i] = h
  BY Zenon
<1> HIDE DEF it, h
<1>7. ASSUME NEW k
      PROVE  (Has(it, k) <=> h.chunk = k) /\ (n = 0 \/ h.chunk # k => Single(it, k))
  <2>1. 1 \in 1..(n + 1) /\ (n = 0 => 1..(n + 1) = {1})
    BY <1>5
  <2>2. Copies(it, k) = {i \in 1..(n + 1) : h.chunk = k}
    BY <1>6, Zenon DEF Copies
  <2> QED
    BY <2>1, <2>2, Zenon DEF Has, Single
<1>8. ASSUME NEW k \in 1..read[c]
      PROVE  /\ Has(work'[c], k) <=> Has(work[c], k)
             /\ k \notin copied'[c] /\ Single(work[c], k) => Single(work'[c], k)
  <2>1. /\ Has(work'[c], k) <=> Has(it, k) \/ Has(Tail(work[c]), k)
        /\ /\ Single(it, k) /\ Single(Tail(work[c]), k)
           /\ ~(Has(it, k) /\ Has(Tail(work[c]), k))
           => Single(work'[c], k)
    BY <1>1, <1>2, <1>5, ForwardHas, Zenon
  <2>2. /\ Has(work[c], k) <=> h.chunk = k \/ Has(Tail(work[c]), k)
        /\ Single(work[c], k) => Single(Tail(work[c]), k)
        /\ Single(work[c], k) => ~(h.chunk = k /\ Has(Tail(work[c]), k))
    BY <1>1, <1>2, HeadTailHas, Zenon DEF h
  <2>3. k \notin copied'[c] => n = 0 \/ h.chunk # k
    BY <1>1, <1>3, Zenon
  <2> QED
    BY <1>7, <2>1, <2>2, <2>3, Zenon
<1>9. \A d \in Conn \ {c} : work'[d] = work[d] /\ copied'[d] = copied[d]
  BY <1>1, <1>3, <1>5, OthersKept, Zenon
<1>10. copied[c] \subseteq copied'[c]
  BY <1>1, <1>3, Zenon
<1> QED
  BY <1>2, <1>8, <1>9, <1>10, FateStack, Zenon

LEMMA FateDrop ==
    ASSUME TypeInv, Histories, FateInv, NEW c \in Conn, work[c] # <<>>, Drop(c),
           UNCHANGED <<read, sent, buf, copied, lost>>
    PROVE  FateInv'
<1>1. work \in [Conn -> Seq(Item)] /\ dropped \in [Conn -> SUBSET Nat]
  BY Zenon DEF TypeInv, TypeOK, Histories
<1> DEFINE h == Head(work[c])
<1>2. Forward(c, <<>>) /\ dropped' = [dropped EXCEPT ![c] = @ \cup {h.chunk}]
  BY Zenon DEF Drop, Swallow
<1>3. <<>> \in Seq(Upper)
  OBVIOUS
<1> HIDE DEF h
<1>4. ASSUME NEW k \in 1..read[c]
      PROVE  /\ k \notin dropped'[c] /\ Has(work[c], k) => Has(work'[c], k)
             /\ Has(work'[c], k) => Has(work[c], k)
             /\ Single(work[c], k) => Single(work'[c], k)
  <2>1. /\ Has(work'[c], k) <=> Has(<<>>, k) \/ Has(Tail(work[c]), k)
        /\ /\ Single(<<>>, k) /\ Single(Tail(work[c]), k)
           /\ ~(Has(<<>>, k) /\ Has(Tail(work[c]), k))
           => Single(work'[c], k)
    BY <1>1, <1>2, <1>3, ForwardHas, Zenon
  <2>2. /\ Has(work[c], k) <=> h.chunk = k \/ Has(Tail(work[c]), k)
        /\ Single(work[c], k) => Single(Tail(work[c]), k)
    BY <1>1, HeadTailHas, Zenon DEF h
  <2>3. k \notin dropped'[c] => h.chunk # k
    BY <1>1, <1>2, Zenon
  <2>4. ~Has(<<>>, k) /\ Single(<<>>, k)
    BY EmptyHas, Zenon
  <2> QED
    BY <2>1, <2>2, <2>3, <2>4, Zenon
<1>5. \A d \in Conn \ {c} : work'[d] = work[d] /\ dropped'[d] = dropped[d]
  BY <1>1, <1>2, OthersKept, Zenon
<1>6. dropped[c] \subseteq dropped'[c]
  BY <1>1, <1>2, Zenon
<1> QED
  BY <1>4, <1>5, <1>6, FateStack, Zenon

\* The socket takes the item.
LEMMA FateDeliver ==
    ASSUME TypeInv, Histories, FateInv, NEW c \in Conn, Deliver(c) PROVE FateInv'
<1>1. work \in [Conn -> Seq(Item)] /\ sent \in [Conn -> Seq(Item)]
  BY Zenon DEF TypeInv, TypeOK, Histories
<1> DEFINE h == Head(work[c])
<1>2. /\ work[c] # <<>>
      /\ sent' = [sent EXCEPT ![c] = Append(sent[c], h)]
      /\ work' = [work EXCEPT ![c] = Tail(work[c])]
      /\ UNCHANGED <<read, buf, copied, dropped, lost>>
  BY Zenon DEF Deliver, fates
<1>3. h \in Item
  BY <1>1, <1>2
<1> HIDE DEF h
<1>4. sent'[c] = Append(sent[c], h) /\ work'[c] = Tail(work[c])
  BY <1>1, <1>2, Zenon
<1>5. ASSUME NEW k \in 1..read[c] PROVE Fate(c, k)'
  <2>1. Fate(c, k)
    BY Zenon DEF FateInv
  <2>2. /\ Has(work[c], k) <=> h.chunk = k \/ Has(work'[c], k)
        /\ Single(work[c], k) => Single(work'[c], k)
        /\ Single(work[c], k) => ~(h.chunk = k /\ Has(work'[c], k))
    BY <1>1, <1>2, <1>4, HeadTailHas, Zenon DEF h
  <2>3. /\ Has(sent'[c], k) <=> Has(sent[c], k) \/ h.chunk = k
        /\ Single(sent[c], k) /\ ~(Has(sent[c], k) /\ h.chunk = k) => Single(sent'[c], k)
    BY <1>1, <1>3, <1>4, AppendHas
  <2>4. UNCHANGED <<buf[c], copied[c], dropped[c], lost[c]>>
    BY <1>2, Zenon
  <2> QED
    BY <2>1, <2>2, <2>3, <2>4, Zenon DEF Fate, Apart
<1>6. \A d \in Conn \ {c} : work'[d] = work[d] /\ sent'[d] = sent[d]
  BY <1>1, <1>2, Zenon
<1> QED
  BY <1>2, <1>5, <1>6, FateOthers, Zenon

\* The item is buffered, and a buffer it fills goes down shuffled.
LEMMA FateHold ==
    ASSUME TypeInv, Histories, FateInv, NEW c \in Conn, Hold(c) PROVE FateInv'
<1> DEFINE h == Head(work[c])
           top == [h EXCEPT !.held = TRUE]
           b == buf[c]
           held == Append(b, top)
<1>1. work \in [Conn -> Seq(Item)] /\ buf \in [Conn -> Seq(Upper)]
  BY Zenon DEF TypeInv, TypeOK
<1>2. /\ work[c] # <<>> /\ h.depth > 0
      /\ UNCHANGED <<read, sent, copied, dropped, lost>>
  BY Zenon DEF Hold, At, fates
<1>3. \/ buf' = [buf EXCEPT ![c] = held] /\ Forward(c, <<>>)
      \/ buf' = [buf EXCEPT ![c] = <<>>] /\ \E s \in Shuffles(held) : Forward(c, s)
  BY Zenon DEF Hold, Swallow
<1>4. h \in Upper
  BY <1>1, <1>2, AtTyped, Zenon
<1> HIDE DEF h
<1>5. top \in Upper /\ top \in Item /\ top.chunk = h.chunk
  BY <1>4, Zenon DEF Upper, Item
<1> HIDE DEF top
<1>6. b \in Seq(Upper) /\ b \in Seq(Item)
  BY <1>1, UpperSeq, Zenon
<1> HIDE DEF b
<1>7. held \in Seq(Upper)
  BY <1>5, <1>6
<1>8. ASSUME NEW k
      PROVE  /\ Has(held, k) <=> Has(b, k) \/ h.chunk = k
             /\ Single(b, k) /\ ~(Has(b, k) /\ h.chunk = k) => Single(held, k)
  BY <1>5, <1>6, AppendHas, Zenon
<1> HIDE DEF held
<1> DEFINE rest == Tail(work[c])
<1>9. ASSUME NEW k
      PROVE  /\ Has(work[c], k) <=> h.chunk = k \/ Has(rest, k)
             /\ Single(work[c], k) => Single(rest, k)
             /\ Single(work[c], k) => ~(h.chunk = k /\ Has(rest, k))
  BY <1>1, <1>2, HeadTailHas, Zenon DEF h
<1>10. <<>> \in Seq(Upper) /\ \A k : ~Has(<<>>, k) /\ Single(<<>>, k)
  BY EmptyHas
<1>11. CASE buf' = [buf EXCEPT ![c] = held] /\ Forward(c, <<>>)
  <2>1. buf'[c] = held /\ \A d \in Conn \ {c} : buf'[d] = buf[d] /\ work'[d] = work[d]
    BY <1>1, <1>11, OthersKept, Zenon
  <2>2. ASSUME NEW k
        PROVE  /\ Has(work'[c], k) <=> Has(rest, k)
               /\ Single(rest, k) => Single(work'[c], k)
    <3>1. /\ Has(work'[c], k) <=> Has(<<>>, k) \/ Has(rest, k)
          /\ Single(<<>>, k) /\ Single(rest, k) /\ ~(Has(<<>>, k) /\ Has(rest, k))
             => Single(work'[c], k)
      BY <1>1, <1>2, <1>10, <1>11, ForwardHas, Zenon
    <3> QED
      BY <1>10, <3>1, Zenon
  <2> HIDE DEF rest
  <2>3. ASSUME NEW k \in 1..read[c] PROVE Fate(c, k)'
    <3>1. Fate(c, k)
      BY Zenon DEF FateInv
    <3>2. UNCHANGED <<sent[c], copied[c], dropped[c], lost[c]>> /\ buf[c] = b
      BY <1>2, Zenon DEF b
    <3>3. /\ Has(held, k) <=> Has(b, k) \/ h.chunk = k
          /\ Single(b, k) /\ ~(Has(b, k) /\ h.chunk = k) => Single(held, k)
          /\ Has(work[c], k) <=> h.chunk = k \/ Has(rest, k)
          /\ Single(work[c], k) => Single(rest, k)
          /\ Single(work[c], k) => ~(h.chunk = k /\ Has(rest, k))
          /\ Has(work'[c], k) <=> Has(rest, k)
          /\ Single(rest, k) => Single(work'[c], k)
      BY <1>8, <1>9, <2>2, Zenon
    <3> QED
      BY <2>1, <3>1, <3>2, <3>3, Zenon DEF Fate, Apart
  <2> QED
    BY <1>2, <2>1, <2>3, FateOthers, Zenon
<1>12. ASSUME buf' = [buf EXCEPT ![c] = <<>>], NEW s \in Shuffles(held), Forward(c, s)
       PROVE  FateInv'
  <2>1. s \in Seq(Upper)
    BY <1>7, ShuffleTyped, Zenon
  <2>2. buf'[c] = <<>> /\ \A d \in Conn \ {c} : buf'[d] = buf[d] /\ work'[d] = work[d]
    BY <1>1, <1>12, OthersKept, Zenon
  <2>3. ASSUME NEW k
        PROVE  /\ Has(work'[c], k) <=> Has(held, k) \/ Has(rest, k)
               /\ Single(held, k) /\ Single(rest, k) /\ ~(Has(held, k) /\ Has(rest, k))
                  => Single(work'[c], k)
    <3>1. /\ Has(work'[c], k) <=> Has(s, k) \/ Has(rest, k)
          /\ Single(s, k) /\ Single(rest, k) /\ ~(Has(s, k) /\ Has(rest, k))
             => Single(work'[c], k)
      BY <1>1, <1>2, <1>12, <2>1, ForwardHas, Zenon
    <3>2. (Has(s, k) <=> Has(held, k)) /\ (Single(held, k) => Single(s, k))
      BY <1>7, ShuffleHas, Zenon
    <3> QED
      BY <3>1, <3>2, Zenon
  <2> HIDE DEF rest
  <2>4. ASSUME NEW k \in 1..read[c] PROVE Fate(c, k)'
    <3>1. Fate(c, k)
      BY Zenon DEF FateInv
    <3>2. UNCHANGED <<sent[c], copied[c], dropped[c], lost[c]>> /\ buf[c] = b
      BY <1>2, Zenon DEF b
    <3>3. /\ Has(held, k) <=> Has(b, k) \/ h.chunk = k
          /\ Single(b, k) /\ ~(Has(b, k) /\ h.chunk = k) => Single(held, k)
          /\ Has(work[c], k) <=> h.chunk = k \/ Has(rest, k)
          /\ Single(work[c], k) => Single(rest, k)
          /\ Single(work[c], k) => ~(h.chunk = k /\ Has(rest, k))
          /\ Has(work'[c], k) <=> Has(held, k) \/ Has(rest, k)
          /\ Single(held, k) /\ Single(rest, k) /\ ~(Has(held, k) /\ Has(rest, k))
             => Single(work'[c], k)
          /\ ~Has(<<>>, k) /\ Single(<<>>, k)
      BY <1>8, <1>9, <1>10, <2>3, Zenon
    <3> QED
      BY <2>2, <3>1, <3>2, <3>3, Zenon DEF Fate, Apart
  <2> QED
    BY <1>2, <2>2, <2>4, FateOthers, Zenon
<1> QED
  BY <1>3, <1>11, <1>12, Zenon

\* The pump's next chunk: a stale chain gives up its buffer.
LEMMA FateWrite ==
    ASSUME TypeInv, Histories, Origins, FateInv, NEW c \in Conn, NEW n \in Size, Write(c, n)
    PROVE  FateInv'
<1> DEFINE item == [chunk |-> read[c] + 1, size |-> n,
                    depth |-> Len(IF c \in stale THEN chain ELSE wrapped[c]),
                    held |-> FALSE]
<1>1. /\ read \in [Conn -> Nat] /\ lost \in [Conn -> SUBSET Nat]
      /\ buf \in [Conn -> Seq(Item)] /\ work \in [Conn -> Seq(Item)]
      /\ sent \in [Conn -> Seq(Item)]
  BY Zenon DEF TypeInv, TypeOK, Histories
<1>2. /\ work[c] = <<>> /\ read' = [read EXCEPT ![c] = @ + 1]
      /\ work' = [work EXCEPT ![c] = <<item>>]
      /\ buf' = [buf EXCEPT ![c] = IF c \in stale THEN <<>> ELSE @]
      /\ lost' = [lost EXCEPT ![c] = IF c \in stale THEN @ \cup Chunks(buf[c]) ELSE @]
      /\ UNCHANGED <<sent, copied, dropped>>
  BY Zenon DEF Write
<1>3. item.chunk = read[c] + 1
  BY Zenon
<1> HIDE DEF item
<1>4. \A d \in Conn \ {c} :
         work'[d] = work[d] /\ buf'[d] = buf[d] /\ read'[d] = read[d] /\ lost'[d] = lost[d]
  BY <1>1, <1>2, Zenon
<1> DEFINE r == read[c]
<1>5. r \in Nat /\ read'[c] = r + 1 /\ work'[c] = <<item>>
  BY <1>1, <1>2, Zenon
<1>6. ASSUME NEW k
      PROVE  /\ Has(work'[c], k) <=> k = r + 1
             /\ Single(work'[c], k)
             /\ ~Has(work[c], k)
  <2>1. (Has(<<item>>, k) <=> item.chunk = k) /\ Single(<<item>>, k)
    BY OneHas, Zenon
  <2>2. ~Has(<<>>, k)
    BY EmptyHas, Zenon
  <2> QED
    BY <1>2, <1>3, <1>5, <2>1, <2>2, Zenon
<1>7. ~Has(sent[c], r + 1) /\ ~Has(buf[c], r + 1)
  <2>1. \A i \in DOMAIN sent[c] : sent[c][i].chunk # r + 1
    BY <1>5 DEF Origins
  <2>2. \A i \in DOMAIN buf[c] : buf[c][i].chunk # r + 1
    BY <1>5 DEF Origins
  <2> QED
    BY <2>1, <2>2, Zenon DEF Has, Copies
<1>8. \A k : \/ /\ buf'[c] = buf[c] /\ lost'[c] = lost[c]
             \/ /\ ~Has(buf'[c], k) /\ Single(buf'[c], k)
                /\ Has(buf[c], k) => k \in lost'[c]
                /\ lost[c] \subseteq lost'[c]
  <2> SUFFICES ASSUME NEW k
               PROVE  \/ /\ buf'[c] = buf[c] /\ lost'[c] = lost[c]
                      \/ /\ ~Has(buf'[c], k) /\ Single(buf'[c], k)
                         /\ Has(buf[c], k) => k \in lost'[c]
                         /\ lost[c] \subseteq lost'[c]
    BY Zenon
  <2>1. CASE c \notin stale
    BY <1>1, <1>2, <2>1, Zenon
  <2>2. CASE c \in stale
    <3>1. buf'[c] = <<>> /\ lost'[c] = lost[c] \cup Chunks(buf[c])
      BY <1>1, <1>2, <2>2, Zenon
    <3>2. Has(buf[c], k) => k \in Chunks(buf[c])
      BY Zenon DEF Has, Copies, Chunks
    <3> QED
      BY <3>1, <3>2, EmptyHas, Zenon
  <2> QED
    BY <2>1, <2>2, Zenon
<1> HIDE DEF r
<1>9. ASSUME NEW k \in 1..(r + 1) PROVE Fate(c, k)'
  <2>1. UNCHANGED <<sent[c], copied[c], dropped[c]>>
    BY <1>2, Zenon
  <2>2. CASE k = r + 1
    <3>1. Single(sent[c], k) /\ Single(buf[c], k) /\ ~Has(buf'[c], k) /\ Single(buf'[c], k)
      BY <1>7, <1>8, <2>2, Zenon DEF Has, Single
    <3> QED
      BY <1>6, <1>7, <2>1, <2>2, <3>1, Zenon DEF Fate, Apart
  <2>3. CASE k # r + 1
    <3>1. k \in 1..read[c]
      BY <1>5, <2>3 DEF r
    <3>2. Fate(c, k)
      BY <3>1, Zenon DEF FateInv
    <3>3. ~Has(work'[c], k) /\ Single(work'[c], k) /\ ~Has(work[c], k)
      BY <1>6, <2>3, Zenon
    <3>4. CASE buf'[c] = buf[c] /\ lost'[c] = lost[c]
      BY <2>1, <3>2, <3>3, <3>4, Zenon DEF Fate, Apart
    <3>5. CASE /\ ~Has(buf'[c], k) /\ Single(buf'[c], k)
               /\ Has(buf[c], k) => k \in lost'[c]
               /\ lost[c] \subseteq lost'[c]
      BY <2>1, <3>2, <3>3, <3>5, Zenon DEF Fate, Apart
    <3> QED
      BY <1>8, <3>4, <3>5, Zenon
  <2> QED
    BY <2>2, <2>3, Zenon
<1> QED
  BY <1>2, <1>4, <1>5, <1>9, FateOthers, Zenon

LEMMA FateStep ==
    TypeInv /\ Histories /\ Origins /\ FateInv /\ [Next]_vars => FateInv'
<1> SUFFICES ASSUME TypeInv, Histories, Origins, FateInv, [Next]_vars PROVE FateInv'
  BY Zenon
<1>1. CASE UNCHANGED <<work, buf, sent, read, copied, dropped, lost>>
  BY <1>1, Zenon DEF FateInv, Fate
<1>2. ASSUME NEW c \in Conn, Wake(c) PROVE FateInv'
  <2>1. work[c] # <<>> /\ Head(work[c]).depth > 0
    BY <1>2, Zenon DEF Wake, TypeInv, Passable
  <2> QED
    BY <1>2, <2>1, FatePass, Zenon DEF Wake, fates
<1>3. ASSUME NEW c \in Conn, TakeTokens(c) \/ PassReorder(c) PROVE FateInv'
  BY <1>3, FatePass, Zenon DEF TakeTokens, PassReorder, At, fates
<1>4. ASSUME NEW c \in Conn, Blackhole(c) \/ BurstyLoss(c) PROVE FateInv'
  <2>1. /\ work[c] # <<>> /\ Head(work[c]).depth > 0
        /\ Drop(c) \/ (Pass(c) /\ UNCHANGED dropped)
        /\ UNCHANGED <<read, sent, buf, copied, lost>>
    BY <1>4, Zenon DEF Blackhole, BurstyLoss, At
  <2> QED
    BY <2>1, FateDrop, FatePass, Zenon
<1> QED
  BY <1>1, <1>2, <1>3, <1>4, FateWrite, FateHold, FateDuplicate, FateDeliver, Zenon
  DEF Next, Wrapper, Passing, ChangeRegistry, TakeDeficit, fates, vars

\* Fate says of a chunk what ChunkFates says.
LEMMA FateMeans ==
    ASSUME NEW a \in Seq(Item), NEW b \in Seq(Item), NEW d \in Seq(Item), NEW k,
           Apart(a, b, d, k)
    PROVE  /\ \A s \in {a, b, d} : \A i, j \in Copies(s, k) : i = j
           /\ Copies(a, k) = {} \/ Copies(b, k) = {}
           /\ Copies(a \o b, k) = {} \/ Copies(d, k) = {}
<1>1. Has(a \o b, k) <=> Has(a, k) \/ Has(b, k)
  BY ConcatHas, Zenon
<1> QED
  BY <1>1, Zenon DEF Apart, Has, Single

\* However wrappers are stacked, chains rebuilt and writes of several connections
\* interleaved: no chunk is lost or doubled but by the fault that says so.
THEOREM FatesAccounted == Spec => []ChunkFates
<1>1. Init => FateInv
  BY DEF Init, FateInv
<1>2. TypeInv /\ Histories /\ FateInv => ChunkFates
  <2> SUFFICES ASSUME TypeInv, Histories, FateInv, NEW c \in Conn, NEW k \in 1..read[c]
               PROVE  /\ k \notin dropped[c] \cup lost[c] => Present(c, k)
                      /\ k \notin copied[c] => Once(c, k)
    BY Zenon DEF ChunkFates
  <2>1. Fate(c, k)
    BY Zenon DEF FateInv
  <2>2. sent[c] \in Seq(Item) /\ work[c] \in Seq(Item) /\ buf[c] \in Seq(Item)
    BY Zenon DEF TypeInv, TypeOK, Histories
  <2>3. k \notin dropped[c] \cup lost[c] => Present(c, k)
    BY <2>1, Zenon DEF Fate, Present, Has
  <2>4. k \notin copied[c] => Once(c, k)
    BY <2>1, <2>2, FateMeans DEF Fate, Once
  <2> QED
    BY <2>3, <2>4, Zenon
<1> QED
  BY <1>1, <1>2, TypeInvariant, HistoriesInvariant, OriginsInvariant, FateStep, PTL DEF Spec
=============================================================================
