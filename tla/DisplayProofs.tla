---------------------------- MODULE DisplayProofs ----------------------------
(***************************************************************************)
(* Proofs about Display, for any number of events, processes and turns to  *)
(* replay: the display thread never touches a flush that has returned, a   *)
(* flush that has returned left nothing unshown, what was shown is in the  *)
(* log, and a replay shows exactly the last turns.                         *)
(***************************************************************************)
EXTENDS Display, FiniteSetTheorems, SequenceTheorems, WellFoundedInduction, TLAPS

FlushPlace == {"flushPush", "flushCheck", "waiting", "woken", "flushDestroy"}
Signalling == {"lock", "signal", "unlock"}

(* A torn line is there and does not parse; what is logged is a message; the *)
(* queue is open until the main thread leaves.                               *)
LogInv ==
    /\ torn => events # <<>> /\ ~events[Len(events)].ok
    /\ main \in {"log", "push"} => local \in Message
    /\ ~open => main \in {"off", "join", "done"}
    /\ display = "ended" => ~open /\ queue = <<>>
    /\ display = "none" => main = "off" /\ queue = <<>>

(* The handshake: who holds the mutex, and where the flush message is.  It   *)
(* is the last of the queue, since the main thread waits for it.             *)
HasFlush == \E i \in 1..Len(queue) : queue[i] = Flush
FlushLast == \A i \in 1..Len(queue) : queue[i] = Flush => i = Len(queue)
FlushInv ==
    /\ mutex = "main" <=> main \in {"flushPush", "flushCheck"}
    /\ mutex = "display" <=> display \in {"signal", "unlock"}
    /\ FlushLast
    /\ HasFlush => main \in {"flushCheck", "waiting", "woken"} /\ ~done /\ display \notin Signalling
    /\ display \in {"lock", "signal"} => main \in {"flushCheck", "waiting", "woken"} /\ ~done
    /\ display = "unlock" => main = "woken" /\ done
    /\ display \in Signalling => queue = <<>>
    /\ main = "flushPush" => ~done
    /\ main \in FlushPlace /\ done => queue = <<>> /\ display # "render"
    /\ main = "flushDestroy" => done
    /\ main \in {"flushCheck", "waiting", "woken"} /\ ~done => HasFlush \/ display \in {"lock", "signal"}

(* What is pushed is on the screen, in the hand of the display thread or in  *)
(* the queue, in that order.                                                 *)
InHand == IF display = "render" THEN 1 ELSE 0
Waiting == IF HasFlush THEN Len(queue) - 1 ELSE Len(queue)
InOrder(p, s, h, c, q, w) ==
    /\ Len(p) = Len(s) + h + w
    /\ \A i \in 1..Len(s) : p[i] = s[i]
    /\ h = 1 => p[Len(s) + 1] = c
    /\ \A i \in 1..w : p[Len(s) + h + i] = q[i]
ShowInv ==
    /\ main # "off" => InOrder(pushed, screen, InHand, current, queue, Waiting)
    /\ main = "ready" \/ (main = "idle" /\ mode = "interactive") \/ main = "done" =>
          queue = <<>> /\ display # "render"

(* What is to be shown has been logged. *)
Sound(x) ==
    x.kind \in Logged /\ x \notin merged =>
        \E j \in 1..Len(events) : events[j].ok /\ events[j].event = x
SoundInv ==
    /\ \A i \in 1..Len(screen) : Sound(screen[i])
    /\ \A i \in 1..Len(queue) : Sound(queue[i])
    /\ display = "render" => Sound(current)
    /\ main = "push" => Sound(local)
    /\ main = "replay" => \A i \in 1..Len(todo) : \E j \in 1..Len(events) : todo[i] = events[j]

(* The replay: what is left of the log, and what has been pushed of it. *)
Start1 == find_recent_turn_start_offset
Before(n) == {i \in Start1..Len(events) : i < n /\ Replayable(i)}
Replay(n) == [k \in 1..Cardinality(Before(n)) |-> events[Nth(Before(n), k)].event]
Position == Len(events) - Len(todo) + 1
ReplayInv ==
    /\ main = "replay" => /\ todo = SubSeq(events, Position, Len(events))
                          /\ Position >= Start1
                          /\ pushed = Replay(Position)
    /\ (main \in FlushPlace /\ ret = "ready") \/ main = "ready" =>
          LET all == Replay(Len(events) + 1)
          IN  pushed = IF all = <<>> THEN <<>> ELSE Append(all, Newline)

------------------------------------------------------------------------------
(* Counting: the k-th element of a finite set of numbers. *)

Upto(S, i) == {j \in S : j <= i}

LEMMA UptoFinite ==
    ASSUME NEW n \in Nat, NEW S, S \subseteq 1..n, NEW i
    PROVE  /\ IsFiniteSet(S) /\ Cardinality(S) \in Nat
           /\ IsFiniteSet(Upto(S, i)) /\ Cardinality(Upto(S, i)) \in Nat
           /\ Cardinality(Upto(S, i)) <= Cardinality(S)
<1>1. IsFiniteSet(1..n)
    BY FS_Interval
<1>2. IsFiniteSet(S)
    BY <1>1, FS_Subset
<1>3. Upto(S, i) \in SUBSET S
    BY DEF Upto
<1>4. IsFiniteSet(Upto(S, i)) /\ Cardinality(Upto(S, i)) <= Cardinality(S)
    BY <1>2, <1>3, FS_Subset
<1> QED
    BY <1>2, <1>4, FS_CardinalityType

(* Every set of numbers has a least element. *)
LEMMA Least == ASSUME NEW T, T \subseteq Nat, T # {} PROVE \E m \in T : \A j \in T : m <= j
<1>1. PICK m \in T : \A j \in T : ~(<<j, m>> \in OpToRel(<, Nat))
    BY NatLessThanWellFounded, WFMin
<1>2. ASSUME NEW j \in T PROVE m <= j
    <2>1. j \in Nat /\ m \in Nat /\ <<j, m>> \in Nat \X Nat
        OBVIOUS
    <2>2. ~(j < m)
        BY <1>1, <2>1, Zenon DEF OpToRel
    <2> QED
        BY <2>1, <2>2
<1> QED
    BY <1>2

LEMMA NthExists ==
    ASSUME NEW n \in Nat, NEW S, S \subseteq 1..n, NEW k \in 1..Cardinality(S)
    PROVE  Nth(S, k) \in S /\ Cardinality(Upto(S, Nth(S, k))) = k
<1> DEFINE R(i) == Cardinality(Upto(S, i))
           T == {i \in 0..n : R(i) >= k}
<1>a. \A e \in S : e \in Int /\ 1 <= e /\ e <= n
    OBVIOUS
<1>0. /\ Cardinality(S) \in Nat /\ k \in Nat /\ k >= 1 /\ k <= Cardinality(S)
      /\ \A i \in 0..n : R(i) \in Nat /\ IsFiniteSet(Upto(S, i))
    <2>1. \A i \in 0..n : R(i) \in Nat /\ IsFiniteSet(Upto(S, i))
        BY UptoFinite
    <2>2. Cardinality(S) \in Nat
        BY UptoFinite
    <2> QED
        BY <2>1, <2>2
<1>1. n \in T
    <2>1. Upto(S, n) = S
        BY <1>a DEF Upto
    <2> QED
        BY <1>0, <2>1
<1>2. PICK m \in T : \A j \in T : m <= j
    <2>1. T \subseteq Nat /\ T # {}
        BY <1>1
    <2> HIDE DEF T
    <2> QED
        BY <2>1, Least
<1>3. m # 0
    <2>1. Upto(S, 0) = {}
        <3>1. \A e \in S : ~(e <= 0)
            BY <1>a
        <3> QED
            BY <3>1 DEF Upto
    <2>2. R(0) = 0
        BY <2>1, FS_EmptySet
    <2> QED
        BY <1>0, <1>2, <2>2
<1>4. m - 1 \in 0..n /\ m \in 0..n /\ R(m) >= k /\ R(m - 1) < k
    <2>1. m \in 0..n /\ R(m) >= k /\ m - 1 \in 0..n
        BY <1>2, <1>3
    <2>2. m - 1 \notin T
        BY <1>2, <2>1
    <2> QED
        BY <1>0, <2>1, <2>2
<1>5. m \in S /\ R(m) = k
    <2>1. CASE m \notin S
        <3>1. Upto(S, m) = Upto(S, m - 1)
            <4>1. \A e \in S : e <= m <=> e <= m - 1
                BY <1>a, <1>4, <2>1
            <4> QED
                BY <4>1 DEF Upto
        <3> QED
            BY <1>0, <1>4, <3>1
    <2>2. CASE m \in S
        <3>1. Upto(S, m) = Upto(S, m - 1) \cup {m} /\ m \notin Upto(S, m - 1)
            <4>1. \A e \in S : e <= m <=> e <= m - 1 \/ e = m
                BY <1>a, <1>4, <2>2
            <4>2. ~(m <= m - 1)
                BY <1>4
            <4> QED
                BY <2>2, <4>1, <4>2 DEF Upto
        <3>2. R(m) = R(m - 1) + 1
            <4>1. IsFiniteSet(Upto(S, m - 1))
                BY <1>0, <1>4
            <4> QED
                BY <3>1, <4>1, FS_AddElement
        <3> QED
            BY <1>0, <1>4, <2>2, <3>2
    <2> QED
        BY <2>1, <2>2
<1>6. \E i \in S : Cardinality({j \in S : j <= i}) = k
    BY <1>5 DEF Upto
<1> QED
    BY <1>6 DEF Nth, Upto

(* The rank of an element determines it. *)
LEMMA RankGrows ==
    ASSUME NEW n \in Nat, NEW S, S \subseteq 1..n, NEW i \in 1..n, NEW j \in S, i < j
    PROVE  Cardinality(Upto(S, i)) < Cardinality(Upto(S, j))
<1>a. \A e \in S : e \in Int /\ 1 <= e /\ e <= n
    OBVIOUS
<1>1. Upto(S, i) \cup {j} \subseteq Upto(S, j) /\ j \notin Upto(S, i)
    <2>1. \A e \in S : e <= i => e <= j
        BY <1>a
    <2>2. j <= j /\ ~(j <= i)
        BY <1>a
    <2> QED
        BY <2>1, <2>2 DEF Upto
<1>2. IsFiniteSet(Upto(S, i)) /\ IsFiniteSet(Upto(S, j))
    BY UptoFinite
<1>3. Cardinality(Upto(S, i) \cup {j}) = Cardinality(Upto(S, i)) + 1
    BY <1>1, <1>2, FS_AddElement
<1>4. Cardinality(Upto(S, i) \cup {j}) <= Cardinality(Upto(S, j))
    BY <1>1, <1>2, FS_Subset
<1>5. Cardinality(Upto(S, i)) \in Nat /\ Cardinality(Upto(S, j)) \in Nat
    BY UptoFinite
<1> QED
    BY <1>3, <1>4, <1>5

LEMMA NthUnique ==
    ASSUME NEW n \in Nat, NEW S, S \subseteq 1..n, NEW i \in S
    PROVE  /\ Cardinality(Upto(S, i)) \in 1..Cardinality(S)
           /\ Nth(S, Cardinality(Upto(S, i))) = i
<1> DEFINE k == Cardinality(Upto(S, i))
           m == Nth(S, k)
<1>a. \A e \in S : e \in Int /\ 1 <= e /\ e <= n
    OBVIOUS
<1>1. k \in Nat /\ Cardinality(S) \in Nat /\ k <= Cardinality(S)
    BY UptoFinite
<1>2. k >= 1
    <2>1. i \in Upto(S, i)
        BY <1>a DEF Upto
    <2>3. IsFiniteSet(Upto(S, i))
        BY UptoFinite
    <2>2. k # 0
        BY <2>1, <2>3, FS_EmptySet
    <2> QED
        BY <1>1, <2>2
<1>3. k \in 1..Cardinality(S)
    BY <1>1, <1>2
<1>4. m \in S /\ Cardinality(Upto(S, m)) = k
    BY <1>3, NthExists
<1> HIDE DEF m
<1>5. ~(i < m) /\ ~(m < i)
    <2>1. i \in 1..n /\ m \in 1..n
        BY <1>4
    <2>2. i < m => Cardinality(Upto(S, i)) < Cardinality(Upto(S, m))
        BY <1>4, <2>1, RankGrows
    <2>3. m < i => Cardinality(Upto(S, m)) < Cardinality(Upto(S, i))
        BY <1>4, <2>1, RankGrows
    <2> QED
        BY <1>1, <1>4, <2>2, <2>3
<1>6. m = i
    BY <1>a, <1>4, <1>5
<1> QED
    BY <1>3, <1>6 DEF m

(* A new greatest element comes last. *)
LEMMA NthExtend ==
    ASSUME NEW n \in Nat, NEW S, S \subseteq 1..n, NEW m \in 1..n, \A j \in S : j < m
    PROVE  /\ Cardinality(S \cup {m}) = Cardinality(S) + 1
           /\ Nth(S \cup {m}, Cardinality(S) + 1) = m
<1> DEFINE U == S \cup {m}
<1>a. \A e \in S : e \in Int /\ 1 <= e /\ e <= n
    OBVIOUS
<1>b. m \notin S
    BY <1>a
<1>c. IsFiniteSet(S) /\ Cardinality(S) \in Nat
    BY UptoFinite
<1>0. IsFiniteSet(S) /\ Cardinality(S) \in Nat /\ m \notin S
    BY <1>b, <1>c
<1>1. Cardinality(U) = Cardinality(S) + 1 /\ U \subseteq 1..n
    BY <1>0, FS_AddElement
<1>2. Upto(U, m) = U
    <2>1. \A e \in U : e <= m
        BY <1>a
    <2> QED
        BY <2>1 DEF Upto
<1>3. Nth(U, Cardinality(U)) = m
    <2>1. m \in U
        OBVIOUS
    <2> HIDE DEF U
    <2> QED
        BY <1>1, <1>2, <2>1, NthUnique
<1> QED
    BY <1>1, <1>3

(* The others keep their places. *)
LEMMA NthKept ==
    ASSUME NEW n \in Nat, NEW S, S \subseteq 1..n, NEW m \in 1..n, \A j \in S : j < m,
           NEW k \in 1..Cardinality(S)
    PROVE  Nth(S \cup {m}, k) = Nth(S, k)
<1> DEFINE U == S \cup {m}
           i == Nth(S, k)
<1>a. \A e \in S : e \in Int /\ 1 <= e /\ e <= n
    OBVIOUS
<1>0. U \subseteq 1..n
    OBVIOUS
<1>1. i \in S /\ Cardinality(Upto(S, i)) = k
    BY NthExists
<1> HIDE DEF i
<1>2. Upto(U, i) = Upto(S, i) /\ i \in U
    BY <1>a, <1>1 DEF Upto
<1> HIDE DEF U
<1>3. Nth(U, Cardinality(Upto(U, i))) = i
    BY <1>0, <1>2, NthUnique
<1> QED
    BY <1>1, <1>2, <1>3 DEF i, U

------------------------------------------------------------------------------
(* The ring of offsets. *)

LEMMA SmallMultiple ==
    ASSUME NEW x \in Int, NEW m \in Nat \ {0}, m * x < m, m * x > -m PROVE x = 0
<1>1. CASE x >= 1
    <2>1. m * x >= m
        BY <1>1
    <2> QED
        BY <2>1
<1>2. CASE x <= -1
    <2>1. m * x <= -m
        BY <1>2
    <2> QED
        BY <2>1
<1> QED
    BY <1>1, <1>2

(* Numbers with the same remainder that are less than m apart are equal. *)
LEMMA SameSlot ==
    ASSUME NEW a \in Nat, NEW b \in Nat, NEW m \in Nat \ {0}, a % m = b % m, a - b < m, b - a < m
    PROVE  a = b
<1>1. /\ a = m * (a \div m) + (a % m) /\ a \div m \in Int /\ a % m \in Int
      /\ b = m * (b \div m) + (b % m) /\ b \div m \in Int /\ b % m \in Int
    OBVIOUS
<1> DEFINE q == a \div m
           s == b \div m
           r == a % m
           x == q - s
<1>2. q \in Int /\ s \in Int /\ r \in Int /\ a = m * q + r /\ b = m * s + r
    BY <1>1
<1> HIDE DEF q, s, r
<1>3. m * (q - s) = m * q - m * s /\ m * q \in Int /\ m * s \in Int
    BY <1>2
<1>4. m * x = a - b /\ x \in Int
    BY <1>2, <1>3
<1> HIDE DEF x
<1>5. x = 0
    BY <1>4, SmallMultiple
<1> QED
    BY <1>4, <1>5

LEMMA NextSlot == ASSUME NEW s \in Nat, NEW m \in Nat \ {0}, s >= m PROVE (s - m) % m = s % m
<1> DEFINE t == s - m
<1>0. t \in Nat
    OBVIOUS
<1> HIDE DEF t
<1>1. /\ s = m * (s \div m) + (s % m) /\ s \div m \in Int /\ s % m \in 0..(m - 1)
      /\ t = m * (t \div m) + (t % m) /\ t \div m \in Int /\ t % m \in 0..(m - 1)
    BY <1>0
<1> DEFINE q1 == s \div m
           q2 == t \div m
           r1 == s % m
           r2 == t % m
           x == q1 - 1 - q2
<1>2. /\ r1 \in 0..(m - 1) /\ r2 \in 0..(m - 1) /\ q1 \in Int /\ q2 \in Int
      /\ s = m * q1 + r1 /\ t = m * q2 + r2 /\ t = s - m
    BY <1>1 DEF t
<1> HIDE DEF r1, r2, q1, q2
<1>3. m * (q1 - 1 - q2) = m * q1 - m - m * q2 /\ m * q1 \in Int /\ m * q2 \in Int
    BY <1>2
<1>4. m * x = r2 - r1 /\ x \in Int
    BY <1>2, <1>3
<1> HIDE DEF x
<1>5. m * x < m /\ m * x > -m
    BY <1>2, <1>4
<1>6. x = 0
    BY <1>4, <1>5, SmallMultiple
<1>7. r1 = r2
    BY <1>2, <1>4, <1>6
<1> QED
    BY <1>7 DEF r1, r2, t

(* How many inputs come after line i. *)
LEMMA InputsAfter ==
    ASSUME NEW n \in Nat, NEW S, S \subseteq 1..n, NEW i \in 1..n
    PROVE  Cardinality({j \in S : j > i}) = Cardinality(S) - Cardinality(Upto(S, i))
<1>1. {j \in S : j > i} = S \ Upto(S, i)
    <2>1. \A e \in S : e > i <=> ~(e <= i)
        OBVIOUS
    <2> QED
        BY <2>1 DEF Upto
<1>2. IsFiniteSet(S) /\ IsFiniteSet(Upto(S, i))
    BY UptoFinite
<1>3. S \cap Upto(S, i) = Upto(S, i)
    BY DEF Upto
<1> QED
    BY <1>1, <1>2, <1>3, FS_Difference

(* The offset found is the one of the oldest of the last MaxTurns inputs: of *)
(* the first, if there are fewer.                                            *)
LEMMA OldestSlot ==
    ASSUME NEW seen \in Nat \ {0}
    PROVE  LET slot(i) == CHOOSE j \in 1..seen : (j - 1) % MaxTurns = i /\ j + MaxTurns > seen
           IN  /\ seen >= MaxTurns => slot(seen % MaxTurns) = seen - MaxTurns + 1
               /\ seen < MaxTurns => slot(0) = 1
<1> DEFINE slot(i) == CHOOSE j \in 1..seen : (j - 1) % MaxTurns = i /\ j + MaxTurns > seen
<1>0. MaxTurns \in Nat \ {0}
    BY ReplayAssumption
<1>1. ASSUME seen >= MaxTurns PROVE slot(seen % MaxTurns) = seen - MaxTurns + 1
    <2> DEFINE o == seen - MaxTurns + 1
    <2>1. o \in 1..seen /\ o - 1 = seen - MaxTurns /\ o + MaxTurns > seen
        BY <1>0, <1>1
    <2>2. (o - 1) % MaxTurns = seen % MaxTurns
        BY <1>0, <1>1, <2>1, NextSlot
    <2>3. ASSUME NEW j \in 1..seen, (j - 1) % MaxTurns = seen % MaxTurns, j + MaxTurns > seen
          PROVE  j = o
        <3>1. /\ j - 1 \in Nat /\ o - 1 \in Nat
              /\ (j - 1) - (o - 1) < MaxTurns /\ (o - 1) - (j - 1) < MaxTurns
            BY <1>0, <2>1, <2>3
        <3>2. (j - 1) % MaxTurns = (o - 1) % MaxTurns
            BY <2>2, <2>3
        <3> HIDE DEF o
        <3>3. j - 1 = o - 1
            BY <1>0, <3>1, <3>2, SameSlot
        <3> QED
            BY <2>1, <3>3
    <2> HIDE DEF o
    <2>4. slot(seen % MaxTurns) = o
        BY <2>1, <2>2, <2>3
    <2> QED
        BY <2>4 DEF o
<1>2. ASSUME seen < MaxTurns PROVE slot(0) = 1
    <2>1. 1 \in 1..seen /\ (1 - 1) % MaxTurns = 0 /\ 1 + MaxTurns > seen
        BY <1>0, <1>2
    <2>2. ASSUME NEW j \in 1..seen, (j - 1) % MaxTurns = 0 PROVE j = 1
        <3>1. /\ j - 1 \in Nat /\ 0 \in Nat /\ (j - 1) - 0 < MaxTurns /\ 0 - (j - 1) < MaxTurns
              /\ (j - 1) % MaxTurns = 0 % MaxTurns
            BY <1>0, <1>2, <2>2
        <3>2. j - 1 = 0
            BY <1>0, <3>1, SameSlot
        <3> QED
            BY <3>2
    <2> QED
        BY <2>1, <2>2
<1> QED
    BY <1>1, <1>2

LEMMA StartOffset ==
    ASSUME events \in Seq(Line)
    PROVE  Start1 \in 1..(Len(events) + 1) /\ Recent = Start1..Len(events)
<1> DEFINE n == Len(events)
           seen == Cardinality(Inputs)
           st == Start1
<1>0. n \in Nat /\ Inputs \subseteq 1..n /\ MaxTurns \in Nat \ {0}
    BY ReplayAssumption DEF Inputs
<1>1. IsFiniteSet(Inputs) /\ seen \in Nat
    BY <1>0, UptoFinite
<1>2. \A i \in 1..n : Cardinality({j \in Inputs : j > i}) = seen - Cardinality(Upto(Inputs, i))
    BY <1>0, InputsAfter
<1>3. \A i \in 1..n : Cardinality(Upto(Inputs, i)) \in Nat /\ IsFiniteSet(Upto(Inputs, i))
    BY <1>0, UptoFinite
<1>4. \A i \in 1..n : i \in Recent <=>
          /\ seen - Cardinality(Upto(Inputs, i)) < MaxTurns
          /\ Inputs = {} \/ Upto(Inputs, i) # {}
    BY <1>2 DEF Recent, Upto
<1>a. Recent \subseteq 1..n
    BY DEF Recent
<1>5. CASE seen = 0
    <2>1. Inputs = {}
        BY <1>1, <1>5, FS_EmptySet
    <2>2. st = 1
        BY <1>5 DEF Start1, find_recent_turn_start_offset
    <2>3. \A i \in 1..n : i \in Recent
        BY <1>0, <1>3, <1>4, <1>5, <2>1
    <2>4. Recent = 1..n
        BY <1>a, <2>3
    <2> QED
        BY <1>0, <2>2, <2>4
<1>6. CASE seen # 0
    <2> DEFINE k == IF seen >= MaxTurns THEN seen - MaxTurns + 1 ELSE 1
    <2>1. k \in 1..seen
        BY <1>0, <1>1, <1>6
    <2>2. st = Nth(Inputs, k)
        <3>1. seen \in Nat \ {0}
            BY <1>1, <1>6
        <3>2. CASE seen >= MaxTurns
            <4>1. st = Slot(seen % MaxTurns)
                BY <1>6, <3>2 DEF Start1, find_recent_turn_start_offset
            <4> QED
                BY <3>1, <3>2, <4>1, OldestSlot DEF Slot
        <3>3. CASE ~(seen >= MaxTurns)
            <4>1. st = Slot(0) /\ seen < MaxTurns
                BY <1>0, <1>1, <1>6, <3>3 DEF Start1, find_recent_turn_start_offset
            <4> QED
                BY <3>1, <3>3, <4>1, OldestSlot DEF Slot
        <3> QED
            BY <3>2, <3>3
    <2>3. st \in Inputs /\ Cardinality(Upto(Inputs, st)) = k
        BY <1>0, <2>1, <2>2, NthExists
    <2>4. st \in 1..n /\ st \in Upto(Inputs, st) /\ Inputs # {}
        BY <1>0, <2>3 DEF Upto
    <2> HIDE DEF st
    <2>5. ASSUME NEW i \in 1..n, i >= st PROVE i \in Recent
        <3>1. Upto(Inputs, st) \subseteq Upto(Inputs, i) /\ st \in Upto(Inputs, i)
            <4>1. \A e \in Inputs : e <= st => e <= i
                BY <1>0, <2>4, <2>5
            <4> QED
                BY <2>3, <2>4, <2>5, <4>1 DEF Upto
        <3>2. k <= Cardinality(Upto(Inputs, i))
            BY <1>3, <2>3, <3>1, FS_Subset
        <3>3. Cardinality(Upto(Inputs, i)) \in Nat
            BY <1>3
        <3>4. seen - Cardinality(Upto(Inputs, i)) < MaxTurns
            BY <1>0, <1>1, <3>2, <3>3
        <3> QED
            BY <1>4, <3>1, <3>4
    <2>6. ASSUME NEW i \in 1..n, i < st PROVE i \notin Recent
        <3>1. Cardinality(Upto(Inputs, i)) < k
            BY <1>0, <2>3, <2>6, RankGrows
        <3>2. Cardinality(Upto(Inputs, i)) \in Nat
            BY <1>3
        <3>3. CASE seen >= MaxTurns
            BY <1>0, <1>1, <1>4, <3>1, <3>2, <3>3
        <3>4. CASE ~(seen >= MaxTurns)
            <4>1. Cardinality(Upto(Inputs, i)) = 0
                BY <3>1, <3>2, <3>4
            <4>2. Upto(Inputs, i) = {}
                BY <1>3, <4>1, FS_EmptySet
            <4> QED
                BY <1>4, <2>4, <4>2
        <3> QED
            BY <3>3, <3>4
    <2>7. Recent = st..n
        <3>1. \A i \in 1..n : i \in Recent <=> i >= st
            BY <1>0, <2>4, <2>5, <2>6
        <3>2. \A i : i \in st..n <=> i \in 1..n /\ i >= st
            BY <1>0, <2>4
        <3> QED
            BY <1>a, <3>1, <3>2
    <2> QED
        BY <1>0, <2>4, <2>7 DEF st
<1> QED
    BY <1>5, <1>6

------------------------------------------------------------------------------
(* Types. *)

LEMMA Names ==
    /\ Newline \in Item /\ Flush \in Item /\ Newline # Flush
    /\ \A x \in Message : x # Flush /\ x # Newline /\ x \in Item
    /\ Newline.kind \notin Logged /\ Flush.kind \notin Logged
    /\ Newline \notin Message
<1>1. \A x \in Message : x.kind \in Kind
    BY DEF Message
<1>2. Newline.kind = "newline" /\ Flush.kind = "flush"
    BY DEF Newline, Flush
<1> QED
    BY <1>1, <1>2 DEF Item, Kind, Logged

LEMMA InitType == Init => TypeOK /\ LogInv
<1> SUFFICES ASSUME Init PROVE TypeOK /\ LogInv
    OBVIOUS
<1>1. 0 \in 0..MaxEvents /\ 0 \in 0..MaxStarts
    BY BoundAssumption
<1>2. <<>> \in Seq(Line) /\ <<>> \in Seq(Item)
    OBVIOUS
<1> QED
    BY <1>1, <1>2, Names DEF Init, TypeOK, LogInv, MainPlace, DisplayPlace

(* jsonl_append: the lines that parse stay, and the new one parses unless it *)
(* was appended to a torn line.                                              *)
LEMMA AppendLine ==
    ASSUME TypeOK, LogInv, NEW m \in Message, store_event_append(m)
    PROVE  /\ events' \in Seq(Line) /\ torn' = FALSE
           /\ merged' \subseteq Message /\ merged \subseteq merged'
           /\ \A j \in 1..Len(events) : events[j].ok => j \in 1..Len(events') /\ events'[j] = events[j]
           /\ m \notin merged' => \E j \in 1..Len(events') : events'[j].ok /\ events'[j].event = m
<1>0. events \in Seq(Line) /\ Len(events) \in Nat /\ torn \in BOOLEAN /\ merged \subseteq Message
    BY DEF TypeOK
<1>1. CASE torn
    <2> DEFINE n == Len(events)
               l == [event |-> m, ok |-> FALSE, input |-> events[n].input \/ m.kind = "input"]
    <2>1. n \in 1..n /\ ~events[n].ok
        BY <1>0, <1>1 DEF LogInv
    <2>2. l \in Line
        <3>1. (events[n].input \/ m.kind = "input") \in BOOLEAN
            OBVIOUS
        <3> QED
            BY <3>1 DEF Line
    <2>3. events' = [events EXCEPT ![n] = l]
        BY <1>1, <2>1 DEF store_event_append
    <2> HIDE DEF l
    <2>4. events' \in Seq(Line) /\ Len(events') = n
        BY <1>0, <2>1, <2>2, <2>3
    <2>5. \A j \in 1..n : events[j].ok => events'[j] = events[j]
        BY <1>0, <2>1, <2>3
    <2> QED
        BY <1>0, <1>1, <2>4, <2>5 DEF store_event_append
<1>2. CASE ~torn
    <2> DEFINE l == [event |-> m, ok |-> TRUE, input |-> m.kind = "input"]
    <2>1. l \in Line /\ l.ok /\ l.event = m
        <3>1. (m.kind = "input") \in BOOLEAN
            OBVIOUS
        <3> QED
            BY <3>1 DEF Line
    <2>2. events' = Append(events, l) /\ merged' = merged /\ torn' = FALSE
        BY <1>2 DEF store_event_append
    <2> HIDE DEF l
    <2>3. /\ events' \in Seq(Line) /\ Len(events') = Len(events) + 1
          /\ \A j \in 1..Len(events) : events'[j] = events[j]
          /\ events'[Len(events) + 1] = l
        BY <1>0, <2>1, <2>2
    <2>4. Len(events) + 1 \in 1..Len(events')
        BY <1>0, <2>3
    <2> QED
        BY <1>0, <2>1, <2>2, <2>3, <2>4
<1> QED
    BY <1>0, <1>1, <1>2

LEMMA PushType ==
    ASSUME TypeOK, NEW x \in Item, UNCHANGED <<queue, pushed>> \/ Push(x)
    PROVE  queue' \in Seq(Item) /\ pushed' \in Seq(Item)
<1>0. queue \in Seq(Item) /\ pushed \in Seq(Item)
    BY DEF TypeOK
<1>1. CASE UNCHANGED <<queue, pushed>>
    BY <1>0, <1>1
<1>2. CASE Push(x)
    BY <1>0, <1>2 DEF Push
<1> QED
    BY <1>1, <1>2

LEMMA MainType == TypeOK /\ LogInv /\ MainStep => TypeOK' /\ LogInv'
<1> SUFFICES ASSUME TypeOK, LogInv, MainStep PROVE TypeOK' /\ LogInv'
    OBVIOUS
<1> USE Names DEF TypeOK, LogInv, log, handshake, bounds, MainPlace
<1>1. CASE agent_replay_events
    <2>1. /\ main = "replay" /\ main' = main /\ todo # <<>> /\ todo' = Tail(todo)
          /\ UNCHANGED <<log, open, mode, local, ret, handshake, display, current, screen, bounds>>
        BY <1>1 DEF agent_replay_events
    <2>2. Head(todo) \in Line /\ todo' \in Seq(Line)
        BY <2>1
    <2>3. Head(todo).event \in Item
        BY <2>2 DEF Line
    <2>5. UNCHANGED <<queue, pushed>> \/ Push(Head(todo).event)
        BY <1>1 DEF agent_replay_events
    <2>4. queue' \in Seq(Item) /\ pushed' \in Seq(Item)
        BY <2>3, <2>5, PushType
    <2> QED
        BY <2>1, <2>2, <2>4
<1>2. CASE ReplayDone
    <2>2. UNCHANGED <<queue, pushed>> \/ Push(Newline)
        BY <1>2 DEF ReplayDone
    <2>1. queue' \in Seq(Item) /\ pushed' \in Seq(Item)
        BY <2>2, PushType
    <2> QED
        BY <1>2, <2>1 DEF ReplayDone
<1>3. CASE readline_thread_start
    BY <1>3 DEF readline_thread_start
<1>4. CASE LogEvent
    <2>1. local \in Message /\ store_event_append(local) /\ main = "log"
        BY <1>4 DEF LogEvent
    <2>2. events' \in Seq(Line) /\ torn' = FALSE /\ merged' \subseteq Message
        BY <2>1, AppendLine
    <2>3. /\ main' \in {"turn", "push"} /\ local' \in Message \cup {Newline}
          /\ main' = "push" => local' \in Message
          /\ UNCHANGED <<queue, open, mode, todo, ret, handshake, display, current, screen,
                         pushed, bounds>>
        BY <1>4, <2>1 DEF LogEvent
    <2> QED
        BY <2>1, <2>2, <2>3
<1>5. CASE push_display_event
    <2>1. local \in Item
        BY <1>5 DEF push_display_event
    <2> QED
        BY <1>5, <2>1 DEF push_display_event, Push
<1>6. CASE FlushPush
    BY <1>6 DEF FlushPush
<1>7. CASE FlushCheck
    BY <1>7 DEF FlushCheck
<1>8. CASE FlushReacquire
    BY <1>8 DEF FlushReacquire
<1>9. CASE FlushDestroy
    BY <1>9 DEF FlushDestroy
<1>10. CASE Join
    BY <1>10 DEF Join
<1> QED
    BY <1>1, <1>2, <1>3, <1>4, <1>5, <1>6, <1>7, <1>8, <1>9, <1>10 DEF MainStep, FlushStep

LEMMA UserType == TypeOK /\ LogInv /\ UserStep => TypeOK' /\ LogInv'
<1> SUFFICES ASSUME TypeOK, LogInv, UserStep PROVE TypeOK' /\ LogInv'
    OBVIOUS
<1> USE Names, BoundAssumption DEF TypeOK, LogInv, log, handshake, bounds, MainPlace, DisplayPlace
<1>1. ASSUME NEW m \in {"interactive", "print"}, Start(m) PROVE TypeOK' /\ LogInv'
    <2>1. starts' \in 0..MaxStarts
        BY <1>1 DEF Start
    <2>2. SubSeq(events, Start1, Len(events)) \in Seq(Line)
        <3>1. Start1 \in 1..(Len(events) + 1) /\ Len(events) \in Nat
            BY StartOffset
        <3> HIDE DEF Start1
        <3> QED
            BY <3>1
    <2>3. todo' \in Seq(Line) /\ main' \in {"replay", "idle"}
        <3>1. CASE m = "interactive"
            BY <1>1, <2>2, <3>1 DEF Start, Start1
        <3>2. CASE m # "interactive"
            <4>1. todo' = <<>> /\ main' = "idle"
                BY <1>1, <3>2 DEF Start
            <4> QED
                BY <4>1
        <3> QED
            BY <3>1, <3>2
    <2>4. /\ mode' = m /\ queue' = <<>> /\ open' = TRUE /\ display' = "idle" /\ current' = Newline
          /\ screen' = <<>> /\ pushed' = <<>> /\ local' = Newline /\ mutex' = "destroyed"
          /\ done' = FALSE /\ UNCHANGED <<events, torn, merged, ret, used>>
        BY <1>1 DEF Start
    <2>5. <<>> \in Seq(Item)
        OBVIOUS
    <2> QED
        BY <2>1, <2>3, <2>4, <2>5
<1>2. CASE TurnStarts
    <2>1. CASE main' = "log"
        <3>1. used + 1 \in 0..MaxEvents /\ used' = used + 1 /\ local' = [kind |-> "input", n |-> used + 1]
            BY <1>2, <2>1 DEF TurnStarts
        <3>2. local' \in Message
            BY <3>1 DEF Message, Kind
        <3> QED
            BY <1>2, <2>1, <3>1, <3>2 DEF TurnStarts
    <2>2. CASE main' # "log"
        BY <1>2, <2>2 DEF TurnStarts
    <2> QED
        BY <2>1, <2>2
<1>3. ASSUME NEW k \in Kind \ {"input"}, Emit(k) PROVE TypeOK' /\ LogInv'
    <2>1. used + 1 \in 0..MaxEvents /\ used' = used + 1 /\ local' = [kind |-> k, n |-> used + 1]
        BY <1>3 DEF Emit
    <2>2. local' \in Message
        BY <2>1 DEF Message
    <2> QED
        BY <1>3, <2>1, <2>2 DEF Emit
<1>4. CASE TurnEnds
    BY <1>4 DEF TurnEnds
<1>5. CASE display_thread_stop
    BY <1>5 DEF display_thread_stop
<1> QED
    BY <1>1, <1>2, <1>3, <1>4, <1>5 DEF UserStep

LEMMA DisplayType == TypeOK /\ LogInv /\ FlushInv /\ DisplayStep => TypeOK' /\ LogInv'
<1> SUFFICES ASSUME TypeOK, LogInv, FlushInv, DisplayStep PROVE TypeOK' /\ LogInv'
    OBVIOUS
<1> USE Names DEF TypeOK, LogInv, log, handshake, bounds, MainPlace, DisplayPlace
<1>1. CASE display_thread_fn
    <2>1. Head(queue) \in Item /\ Tail(queue) \in Seq(Item)
        BY <1>1 DEF display_thread_fn
    <2> QED
        BY <1>1, <2>1 DEF display_thread_fn
<1>2. CASE render_message
    BY <1>2 DEF render_message
<1>3. CASE FlushLock
    BY <1>3 DEF FlushLock
<1>4. CASE signal_flush
    BY <1>4 DEF signal_flush
<1>5. CASE FlushUnlock
    BY <1>5 DEF FlushUnlock, FlushInv
<1>6. CASE DisplayEnds
    BY <1>6 DEF DisplayEnds
<1> QED
    BY <1>1, <1>2, <1>3, <1>4, <1>5, <1>6 DEF DisplayStep

LEMMA CrashType == TypeOK /\ LogInv /\ Crash => TypeOK' /\ LogInv'
<1> SUFFICES ASSUME TypeOK, LogInv, Crash PROVE TypeOK' /\ LogInv'
    OBVIOUS
<1>1. /\ main' = "off" /\ display' = "none" /\ queue' = <<>> /\ open' = FALSE /\ pushed' = <<>>
      /\ current' = Newline /\ local' = Newline /\ todo' = <<>> /\ mutex' = "destroyed"
      /\ done' = FALSE /\ UNCHANGED <<mode, ret, screen, used, starts, merged>>
    BY DEF Crash, bounds
<1>2. /\ events' \in Seq(Line) /\ torn' \in BOOLEAN
      /\ torn' => events' # <<>> /\ ~events'[Len(events')].ok
    <2>1. CASE UNCHANGED <<events, torn>>
        BY <2>1 DEF TypeOK, LogInv
    <2>2. CASE ~UNCHANGED <<events, torn>>
        <3>1. PICK i \in {FALSE, local.kind = "input"} :
                 events' = Append(events, [event |-> local, ok |-> FALSE, input |-> i])
            BY <2>2 DEF Crash
        <3>2. main = "log" /\ torn' = TRUE
            BY <2>2 DEF Crash
        <3> DEFINE l == [event |-> local, ok |-> FALSE, input |-> i]
        <3>3. i \in BOOLEAN
            OBVIOUS
        <3>4. l \in Line /\ ~l.ok
            BY <3>2, <3>3 DEF Line, LogInv
        <3>5. events' = Append(events, l) /\ events \in Seq(Line)
            BY <3>1 DEF TypeOK
        <3> HIDE DEF l
        <3> QED
            BY <3>2, <3>4, <3>5
    <2> QED
        BY <2>1, <2>2
<1>3. <<>> \in Seq(Item) /\ <<>> \in Seq(Line)
    OBVIOUS
<1> QED
    BY <1>1, <1>2, <1>3, Names DEF TypeOK, LogInv, MainPlace, DisplayPlace

LEMMA NextType == TypeOK /\ LogInv /\ FlushInv /\ [Next]_vars => TypeOK' /\ LogInv'
<1>1. TypeOK /\ LogInv /\ UNCHANGED vars => TypeOK' /\ LogInv'
    BY DEF TypeOK, LogInv, vars
<1>2. TypeOK /\ LogInv /\ SpuriousWakeup => TypeOK' /\ LogInv'
    BY DEF TypeOK, LogInv, SpuriousWakeup, log, handshake, bounds, MainPlace
<1> QED
    BY <1>1, <1>2, MainType, UserType, DisplayType, CrashType DEF Next, Exited

------------------------------------------------------------------------------
(* The handshake. *)

(* mq_push behind everything, when no flush is queued. *)
LEMMA PushFacts ==
    ASSUME TypeOK, NEW x \in Item, queue' = Append(queue, x), ~HasFlush
    PROVE  /\ Len(queue') = Len(queue) + 1 /\ queue' # <<>>
           /\ \A i \in 1..Len(queue) : queue'[i] = queue[i]
           /\ queue'[Len(queue) + 1] = x
           /\ HasFlush' <=> x = Flush
           /\ FlushLast'
<1>0. queue \in Seq(Item) /\ Len(queue) \in Nat
    BY DEF TypeOK
<1>1. /\ Len(queue) \in Nat /\ Len(queue') = Len(queue) + 1 /\ queue' # <<>>
      /\ \A i \in 1..Len(queue) : queue'[i] = queue[i]
      /\ queue'[Len(queue) + 1] = x
    BY <1>0
<1>2. \A i \in 1..Len(queue') : queue'[i] = Flush <=> i = Len(queue') /\ x = Flush
    BY <1>1 DEF HasFlush
<1>3. Len(queue') \in 1..Len(queue')
    BY <1>1
<1> QED
    BY <1>1, <1>2, <1>3 DEF HasFlush, FlushLast

(* mq_pop of the first message. *)
LEMMA PopFacts ==
    ASSUME TypeOK, queue # <<>>, queue' = Tail(queue), FlushLast
    PROVE  /\ Len(queue) \in Nat /\ Len(queue') = Len(queue) - 1
           /\ \A i \in 1..Len(queue') : queue'[i] = queue[i + 1]
           /\ Head(queue) = queue[1]
           /\ Head(queue) = Flush => queue' = <<>> /\ HasFlush /\ ~HasFlush'
           /\ Head(queue) # Flush => (HasFlush' <=> HasFlush)
           /\ FlushLast'
<1>1. /\ queue \in Seq(Item) /\ Len(queue) \in Nat /\ Len(queue) >= 1 /\ Len(queue') = Len(queue) - 1
      /\ queue' \in Seq(Item) /\ Head(queue) = queue[1]
      /\ \A i \in 1..Len(queue') : queue'[i] = queue[i + 1]
    BY DEF TypeOK
<1>2. FlushLast'
    <2> SUFFICES ASSUME NEW i \in 1..Len(queue'), queue'[i] = Flush PROVE i = Len(queue')
        BY DEF FlushLast
    <2>1. queue[i + 1] = Flush /\ i + 1 \in 1..Len(queue)
        BY <1>1
    <2>2. i + 1 = Len(queue) /\ i \in Int
        BY <2>1 DEF FlushLast
    <2>3. Len(queue) - 1 = i
        BY <2>2
    <2>4. Len(queue') = Len(queue) - 1
        BY <1>1
    <2> QED
        BY <2>3, <2>4
<1>3. ASSUME Head(queue) = Flush PROVE queue' = <<>> /\ HasFlush /\ ~HasFlush'
    <2>0. 1 \in 1..Len(queue) /\ queue[1] = Flush
        BY <1>1, <1>3
    <2>1. 1 = Len(queue) /\ HasFlush
        BY <2>0 DEF FlushLast, HasFlush
    <2>2. queue' = <<>> /\ 1..Len(queue') = {}
        BY <1>1, <2>1
    <2> QED
        BY <2>1, <2>2 DEF HasFlush
<1>4. ASSUME Head(queue) # Flush PROVE HasFlush' <=> HasFlush
    <2>1. ASSUME NEW i \in 1..Len(queue), queue[i] = Flush PROVE \E j \in 1..Len(queue') : queue'[j] = Flush
        <3>1. i # 1
            BY <1>1, <1>4, <2>1
        <3>2. i - 1 \in 1..Len(queue') /\ (i - 1) + 1 = i
            BY <1>1, <3>1
        <3> QED
            BY <1>1, <2>1, <3>2
    <2>2. ASSUME NEW i \in 1..Len(queue'), queue'[i] = Flush PROVE \E j \in 1..Len(queue) : queue[j] = Flush
        <3>1. i + 1 \in 1..Len(queue)
            BY <1>1
        <3> QED
            BY <1>1, <2>2, <3>1
    <2> QED
        BY <2>1, <2>2 DEF HasFlush
<1> QED
    BY <1>1, <1>2, <1>3, <1>4

LEMMA EmptyFacts == queue = <<>> => ~HasFlush /\ FlushLast
    BY DEF HasFlush, FlushLast

LEMMA SameFacts == queue' = queue => HasFlush' = HasFlush /\ FlushLast' = FlushLast
    BY DEF HasFlush, FlushLast

LEMMA InitFlush == Init => FlushInv
    BY EmptyFacts DEF Init, FlushInv, FlushPlace, Signalling

LEMMA MainFlush == TypeOK /\ LogInv /\ FlushInv /\ MainStep => FlushInv'
<1> SUFFICES ASSUME TypeOK, LogInv, FlushInv, MainStep PROVE FlushInv'
    OBVIOUS
<1> USE DEF FlushInv, FlushPlace, Signalling, handshake
<1>1. CASE agent_replay_events
    <2>0. main = "replay" /\ ~HasFlush
        BY <1>1 DEF agent_replay_events
    <2>1. ~HasFlush' /\ FlushLast'
        <3>1. CASE UNCHANGED <<queue, pushed>>
            BY <2>0, <3>1, SameFacts
        <3>2. CASE Push(Head(todo).event)
            <4>1. Head(todo).event \in Message
                <5>1. Head(todo) \in Line
                    BY <1>1 DEF agent_replay_events, TypeOK
                <5> QED
                    BY <5>1 DEF Line
            <4>2. Head(todo).event \in Item /\ Head(todo).event # Flush
                BY <4>1, Names
            <4> QED
                BY <2>0, <3>2, <4>2, PushFacts DEF Push
        <3> QED
            BY <1>1, <3>1, <3>2 DEF agent_replay_events
    <2>2. mutex = "destroyed" /\ display \notin Signalling
        BY <2>0 DEF TypeOK
    <2> QED
        BY <1>1, <2>0, <2>1, <2>2 DEF agent_replay_events
<1>2. CASE ReplayDone
    <2>0. main = "replay" /\ ~HasFlush
        BY <1>2 DEF ReplayDone
    <2>1. ~HasFlush' /\ FlushLast'
        <3>1. CASE UNCHANGED <<queue, pushed>>
            BY <2>0, <3>1, SameFacts
        <3>2. CASE Push(Newline)
            BY <2>0, <3>2, PushFacts, Names DEF Push
        <3> QED
            BY <1>2, <3>1, <3>2 DEF ReplayDone
    <2>2. mutex = "destroyed" /\ display \notin Signalling
        BY <2>0 DEF TypeOK
    <2> QED
        BY <1>2, <2>0, <2>1, <2>2 DEF ReplayDone
<1>3. CASE readline_thread_start
    BY <1>3, SameFacts DEF readline_thread_start
<1>4. CASE LogEvent
    BY <1>4, SameFacts DEF LogEvent
<1>5. CASE push_display_event
    <2>0. main = "push" /\ ~HasFlush /\ local \in Message /\ display \notin Signalling
        BY <1>5 DEF push_display_event, LogInv
    <2>1. ~HasFlush' /\ FlushLast'
        <3>1. local \in Item /\ local # Flush
            BY <2>0, Names
        <3> QED
            BY <1>5, <2>0, <3>1, PushFacts DEF Push, push_display_event
    <2> QED
        BY <1>5, <2>0, <2>1 DEF push_display_event
<1>6. CASE FlushPush
    <2>0. main = "flushPush" /\ ~HasFlush /\ display \notin Signalling /\ ~done
        BY <1>6 DEF FlushPush
    <2>1. HasFlush' /\ FlushLast'
        BY <1>6, <2>0, PushFacts, Names DEF FlushPush
    <2> QED
        BY <1>6, <2>0, <2>1 DEF FlushPush
<1>7. CASE FlushCheck
    <2>1. HasFlush' = HasFlush /\ FlushLast' = FlushLast /\ main = "flushCheck" /\ mutex = "main"
        BY <1>7, SameFacts DEF FlushCheck
    <2>2. CASE done
        BY <1>7, <2>1, <2>2 DEF FlushCheck
    <2>3. CASE ~done
        BY <1>7, <2>1, <2>3 DEF FlushCheck
    <2> QED
        BY <2>2, <2>3
<1>8. CASE FlushReacquire
    <2>1. HasFlush' = HasFlush /\ FlushLast' = FlushLast
        BY <1>8, SameFacts DEF FlushReacquire
    <2> QED
        BY <1>8, <2>1 DEF FlushReacquire
<1>9. CASE FlushDestroy
    <2>1. HasFlush' = HasFlush /\ FlushLast' = FlushLast
        BY <1>9, SameFacts DEF FlushDestroy
    <2>2. main' \in {"ready", "idle"} /\ done /\ display \notin Signalling
        BY <1>9 DEF FlushDestroy, TypeOK
    <2> QED
        BY <1>9, <2>1, <2>2 DEF FlushDestroy
<1>10. CASE Join
    BY <1>10, SameFacts DEF Join
<1> QED
    BY <1>1, <1>2, <1>3, <1>4, <1>5, <1>6, <1>7, <1>8, <1>9, <1>10 DEF MainStep, FlushStep

LEMMA UserFlush == TypeOK /\ LogInv /\ FlushInv /\ UserStep => FlushInv'
<1> SUFFICES ASSUME TypeOK, LogInv, FlushInv, UserStep PROVE FlushInv'
    OBVIOUS
<1> USE DEF FlushInv, FlushPlace, Signalling, handshake
<1>1. ASSUME NEW m \in {"interactive", "print"}, Start(m) PROVE FlushInv'
    <2>1. /\ queue' = <<>> /\ display' = "idle" /\ mutex' = "destroyed" /\ done' = FALSE
          /\ main' \in {"replay", "idle"}
        BY <1>1 DEF Start
    <2>2. ~HasFlush' /\ FlushLast'
        BY <2>1 DEF HasFlush, FlushLast
    <2> QED
        BY <2>1, <2>2
<1>2. CASE TurnStarts
    BY <1>2, SameFacts DEF TurnStarts
<1>3. ASSUME NEW k \in Kind \ {"input"}, Emit(k) PROVE FlushInv'
    BY <1>3, SameFacts DEF Emit
<1>4. CASE TurnEnds
    BY <1>4, SameFacts DEF TurnEnds
<1>5. CASE display_thread_stop
    BY <1>5, SameFacts DEF display_thread_stop
<1> QED
    BY <1>1, <1>2, <1>3, <1>4, <1>5 DEF UserStep

LEMMA DisplayFlush == TypeOK /\ LogInv /\ FlushInv /\ DisplayStep => FlushInv'
<1> SUFFICES ASSUME TypeOK, LogInv, FlushInv, DisplayStep PROVE FlushInv'
    OBVIOUS
<1> USE DEF FlushInv, FlushPlace, Signalling, handshake
<1>1. CASE display_thread_fn
    <2>1. /\ Head(queue) = Flush => queue' = <<>> /\ HasFlush /\ ~HasFlush'
          /\ Head(queue) # Flush => (HasFlush' <=> HasFlush)
          /\ FlushLast'
        BY <1>1, PopFacts DEF display_thread_fn
    <2>2. CASE Head(queue) = Flush
        BY <1>1, <2>1, <2>2 DEF display_thread_fn
    <2>3. CASE Head(queue) # Flush
        BY <1>1, <2>1, <2>3 DEF display_thread_fn
    <2> QED
        BY <2>2, <2>3
<1>2. CASE render_message
    BY <1>2, SameFacts DEF render_message
<1>3. CASE FlushLock
    BY <1>3, SameFacts DEF FlushLock
<1>4. CASE signal_flush
    <2>1. mutex = "display" /\ main \notin {"flushPush", "flushCheck"} /\ main \in {"waiting", "woken"}
        BY <1>4 DEF signal_flush
    <2>2. HasFlush' = HasFlush /\ FlushLast' = FlushLast /\ ~HasFlush
        BY <1>4, SameFacts DEF signal_flush
    <2> QED
        BY <1>4, <2>1, <2>2 DEF signal_flush
<1>5. CASE FlushUnlock
    BY <1>5, SameFacts DEF FlushUnlock
<1>6. CASE DisplayEnds
    BY <1>6, SameFacts DEF DisplayEnds
<1> QED
    BY <1>1, <1>2, <1>3, <1>4, <1>5, <1>6 DEF DisplayStep

LEMMA NextFlush == TypeOK /\ LogInv /\ FlushInv /\ [Next]_vars => FlushInv'
<1>1. FlushInv /\ UNCHANGED vars => FlushInv'
    BY SameFacts DEF FlushInv, vars
<1>2. FlushInv /\ SpuriousWakeup => FlushInv'
    BY SameFacts DEF FlushInv, SpuriousWakeup, handshake, FlushPlace, Signalling
<1>3. ASSUME Crash PROVE FlushInv'
    <2>1. ~HasFlush' /\ FlushLast'
        BY <1>3 DEF HasFlush, FlushLast, Crash
    <2> QED
        BY <1>3, <2>1 DEF FlushInv, Crash, FlushPlace, Signalling
<1> QED
    BY <1>1, <1>2, <1>3, MainFlush, UserFlush, DisplayFlush DEF Next, Exited

(* Type correctness; the mutex exists exactly as long as a flush is under    *)
(* way.                                                                      *)
THEOREM DisplayTypeOK == Spec => []TypeOK
<1>1. Init => TypeOK /\ LogInv /\ FlushInv
    BY InitType, InitFlush
<1>2. TypeOK /\ LogInv /\ FlushInv /\ [Next]_vars => (TypeOK /\ LogInv /\ FlushInv)'
    BY NextType, NextFlush
<1> QED
    BY <1>1, <1>2, PTL DEF Spec

(* display_flush never returns, and so never takes its mutex and condition   *)
(* variable off the stack, while the display thread is in signal_flush: the  *)
(* flag is set only under the mutex, and the waiter leaves only with both.   *)
THEOREM FlushNeverDangles == Spec => []FlushSafe
<1>1. Init => TypeOK /\ LogInv /\ FlushInv
    BY InitType, InitFlush
<1>2. TypeOK /\ LogInv /\ FlushInv /\ [Next]_vars => (TypeOK /\ LogInv /\ FlushInv)'
    BY NextType, NextFlush
<1>3. TypeOK /\ FlushInv => FlushSafe
    BY DEF TypeOK, FlushInv, FlushSafe, FlushPlace, Signalling
<1> QED
    BY <1>1, <1>2, <1>3, PTL DEF Spec

------------------------------------------------------------------------------
(* What is pushed is shown, in order. *)

LEMMA PushOrder ==
    ASSUME NEW p \in Seq(Item), NEW s \in Seq(Item), NEW h \in {0, 1}, NEW c,
           NEW q \in Seq(Item), NEW x \in Item, InOrder(p, s, h, c, q, Len(q))
    PROVE  InOrder(Append(p, x), s, h, c, Append(q, x), Len(q) + 1)
<1> DEFINE P == Append(p, x)
           Q == Append(q, x)
<1>1. /\ Len(P) = Len(p) + 1 /\ P[Len(p) + 1] = x /\ \A i \in 1..Len(p) : P[i] = p[i]
      /\ Len(Q) = Len(q) + 1 /\ Q[Len(q) + 1] = x /\ \A i \in 1..Len(q) : Q[i] = q[i]
      /\ Len(p) \in Nat /\ Len(q) \in Nat /\ Len(s) \in Nat
    OBVIOUS
<1>2. /\ Len(p) = Len(s) + h + Len(q)
      /\ \A i \in 1..Len(s) : p[i] = s[i]
      /\ h = 1 => p[Len(s) + 1] = c
      /\ \A i \in 1..Len(q) : p[Len(s) + h + i] = q[i]
    BY DEF InOrder
<1> HIDE DEF P, Q
<1>3. Len(P) = Len(s) + h + (Len(q) + 1) /\ Len(p) + 1 = Len(s) + h + (Len(q) + 1)
    BY <1>1, <1>2
<1>4. \A i \in 1..Len(s) : P[i] = s[i]
    BY <1>1, <1>2
<1>5. h = 1 => P[Len(s) + 1] = c
    BY <1>1, <1>2
<1>6. ASSUME NEW i \in 1..(Len(q) + 1) PROVE P[Len(s) + h + i] = Q[i]
    <2>1. CASE i = Len(q) + 1
        BY <1>1, <1>3, <2>1
    <2>2. CASE i # Len(q) + 1
        <3>1. i \in 1..Len(q) /\ Len(s) + h + i \in 1..Len(p)
            BY <1>1, <1>2, <2>2
        <3> QED
            BY <1>1, <1>2, <3>1
    <2> QED
        BY <2>1, <2>2
<1> QED
    BY <1>3, <1>4, <1>5, <1>6 DEF InOrder, P, Q

LEMMA TakeOrder ==
    ASSUME NEW p \in Seq(Item), NEW s \in Seq(Item), NEW c, NEW q \in Seq(Item), q # <<>>,
           NEW w \in 1..Len(q), InOrder(p, s, 0, c, q, w)
    PROVE  InOrder(p, s, 1, Head(q), Tail(q), w - 1)
<1>1. /\ Len(s) \in Nat /\ w \in Nat /\ w >= 1 /\ Len(q) \in Nat /\ Head(q) = q[1]
      /\ \A i \in 1..(w - 1) : Tail(q)[i] = q[i + 1]
    OBVIOUS
<1>2. /\ Len(p) = Len(s) + 0 + w
      /\ \A i \in 1..Len(s) : p[i] = s[i]
      /\ \A i \in 1..w : p[Len(s) + 0 + i] = q[i]
    BY DEF InOrder
<1>3. Len(p) = Len(s) + 1 + (w - 1)
    BY <1>1, <1>2
<1>4. p[Len(s) + 1] = Head(q)
    <2>1. 1 \in 1..w /\ Len(s) + 0 + 1 = Len(s) + 1
        BY <1>1
    <2> QED
        BY <1>1, <1>2, <2>1
<1>5. ASSUME NEW i \in 1..(w - 1) PROVE p[Len(s) + 1 + i] = Tail(q)[i]
    <2>1. i + 1 \in 1..w /\ Len(s) + 0 + (i + 1) = Len(s) + 1 + i
        BY <1>1
    <2> QED
        BY <1>1, <1>2, <2>1
<1> QED
    BY <1>2, <1>3, <1>4, <1>5 DEF InOrder

LEMMA RenderOrder ==
    ASSUME NEW p \in Seq(Item), NEW s \in Seq(Item), NEW c \in Item, NEW q \in Seq(Item),
           NEW w \in Nat, InOrder(p, s, 1, c, q, w), NEW d
    PROVE  InOrder(p, Append(s, c), 0, d, q, w)
<1> DEFINE S == Append(s, c)
<1>1. Len(s) \in Nat /\ Len(S) = Len(s) + 1 /\ S[Len(s) + 1] = c /\ \A i \in 1..Len(s) : S[i] = s[i]
    OBVIOUS
<1>2. /\ Len(p) = Len(s) + 1 + w
      /\ \A i \in 1..Len(s) : p[i] = s[i]
      /\ p[Len(s) + 1] = c
      /\ \A i \in 1..w : p[Len(s) + 1 + i] = q[i]
    BY DEF InOrder
<1> HIDE DEF S
<1>3. Len(p) = Len(S) + 0 + w
    BY <1>1, <1>2
<1>4. \A i \in 1..Len(S) : p[i] = S[i]
    BY <1>1, <1>2
<1>5. \A i \in 1..w : p[Len(S) + 0 + i] = q[i]
    BY <1>1, <1>2
<1> QED
    BY <1>3, <1>4, <1>5 DEF InOrder, S

(* With no flush in the queue all of it is to be shown, else all but the     *)
(* last.                                                                     *)
LEMMA WaitingFacts ==
    ASSUME TypeOK, FlushInv
    PROVE  /\ ~HasFlush => Waiting = Len(queue)
           /\ HasFlush => Waiting = Len(queue) - 1 /\ queue # <<>>
           /\ Waiting \in Nat /\ Waiting <= Len(queue)
           /\ display = "render" => InHand = 1
           /\ display # "render" => InHand = 0
<1>1. queue \in Seq(Item) /\ Len(queue) \in Nat
    BY DEF TypeOK
<1>2. HasFlush => queue # <<>> /\ Len(queue) >= 1
    BY <1>1, EmptyFacts
<1> QED
    BY <1>1, <1>2 DEF Waiting, InHand

LEMMA InitShow == Init => ShowInv
    BY DEF Init, ShowInv

LEMMA SameShow ==
    ASSUME ShowInv, queue' = queue, pushed' = pushed, screen' = screen, current' = current,
           (display' = "render") = (display = "render"), main # "off",
           main' = "ready" \/ (main' = "idle" /\ mode' = "interactive") \/ main' = "done" =>
               queue = <<>> /\ display # "render"
    PROVE  ShowInv'
<1>1. InHand' = InHand /\ Waiting' = Waiting
    BY DEF InHand, Waiting, HasFlush
<1> QED
    BY <1>1 DEF ShowInv

LEMMA PushShow ==
    ASSUME TypeOK, FlushInv, FlushInv', TypeOK', ShowInv, NEW x \in Item, x # Flush, Push(x), ~HasFlush,
           main # "off", screen' = screen, current' = current, display' = display,
           main' \notin {"ready", "idle", "done"}
    PROVE  ShowInv'
<1>1. ~HasFlush' /\ Len(queue') = Len(queue) + 1
    BY PushFacts DEF Push
<1>2. Waiting = Len(queue) /\ Waiting' = Len(queue) + 1 /\ InHand' = InHand /\ InHand \in {0, 1}
    BY <1>1, WaitingFacts DEF Waiting, InHand
<1>3. InOrder(pushed, screen, InHand, current, queue, Len(queue))
    BY <1>2 DEF ShowInv
<1>4. InOrder(Append(pushed, x), screen, InHand, current, Append(queue, x), Len(queue) + 1)
    BY <1>2, <1>3, PushOrder DEF TypeOK
<1> QED
    BY <1>2, <1>4 DEF ShowInv, Push

LEMMA MainShow ==
    ASSUME TypeOK, LogInv, FlushInv, ShowInv, MainStep, TypeOK', FlushInv' PROVE ShowInv'
<1>1. CASE agent_replay_events
    <2>1. /\ main = "replay" /\ main' = main /\ screen' = screen /\ current' = current
          /\ display' = display
        BY <1>1 DEF agent_replay_events
    <2>2. CASE UNCHANGED <<queue, pushed>>
        BY <2>1, <2>2, SameShow
    <2>3. CASE Push(Head(todo).event)
        <3>1. Head(todo).event \in Message
            <4>1. Head(todo) \in Line
                BY <1>1 DEF agent_replay_events, TypeOK
            <4> QED
                BY <4>1 DEF Line
        <3>2. ~HasFlush
            BY <2>1 DEF FlushInv
        <3> QED
            BY <2>1, <2>3, <3>1, <3>2, PushShow, Names
    <2> QED
        BY <1>1, <2>2, <2>3 DEF agent_replay_events
<1>2. CASE ReplayDone
    <2>1. /\ main = "replay" /\ main' = "flushPush" /\ screen' = screen /\ current' = current
          /\ display' = display
        BY <1>2 DEF ReplayDone
    <2>2. CASE UNCHANGED <<queue, pushed>>
        BY <2>1, <2>2, SameShow
    <2>3. CASE Push(Newline)
        <3>1. ~HasFlush
            BY <2>1 DEF FlushInv
        <3> QED
            BY <2>1, <2>3, <3>1, PushShow, Names
    <2> QED
        BY <1>2, <2>2, <2>3 DEF ReplayDone
<1>3. CASE readline_thread_start
    <2>1. queue = <<>> /\ display # "render"
        BY <1>3 DEF readline_thread_start, ShowInv
    <2> QED
        BY <1>3, <2>1, SameShow DEF readline_thread_start
<1>4. CASE LogEvent
    BY <1>4, SameShow DEF LogEvent
<1>5. CASE push_display_event
    <2>1. /\ main = "push" /\ main' = "turn" /\ screen' = screen /\ current' = current
          /\ display' = display /\ Push(local)
        BY <1>5 DEF push_display_event
    <2>2. ~HasFlush /\ local \in Message
        BY <2>1 DEF FlushInv, LogInv
    <2> QED
        BY <2>1, <2>2, PushShow, Names
<1>6. CASE FlushPush
    <2>1. /\ main = "flushPush" /\ ~HasFlush /\ main' = "flushCheck" /\ screen' = screen
          /\ current' = current /\ display' = display /\ queue' = Append(queue, Flush)
          /\ pushed' = pushed
        BY <1>6 DEF FlushPush, FlushInv
    <2>2. HasFlush' /\ Len(queue') = Len(queue) + 1 /\ \A i \in 1..Len(queue) : queue'[i] = queue[i]
        BY <2>1, PushFacts, Names
    <2>a. Waiting = Len(queue) /\ Waiting \in Nat
        BY <2>1, WaitingFacts
    <2>b. Waiting' = Len(queue') - 1 /\ InHand' = InHand
        BY <2>1, <2>2 DEF Waiting, InHand
    <2>3. Waiting = Len(queue) /\ Waiting \in Nat /\ Waiting' = Waiting /\ InHand' = InHand
        BY <2>2, <2>a, <2>b
    <2>4. \A i \in 1..Waiting : queue'[i] = queue[i]
        BY <2>2, <2>3
    <2>5. InOrder(pushed, screen, InHand, current, queue, Waiting)
        BY <2>1 DEF ShowInv
    <2>6. InOrder(pushed, screen, InHand, current, queue', Waiting)
        BY <2>4, <2>5 DEF InOrder
    <2> QED
        BY <2>1, <2>3, <2>6 DEF ShowInv
<1>7. CASE FlushCheck
    BY <1>7, SameShow DEF FlushCheck
<1>8. CASE FlushReacquire
    BY <1>8, SameShow DEF FlushReacquire
<1>9. CASE FlushDestroy
    <2>1. queue = <<>> /\ display # "render"
        BY <1>9 DEF FlushDestroy, FlushInv, FlushPlace
    <2> QED
        BY <1>9, <2>1, SameShow DEF FlushDestroy
<1>10. CASE Join
    <2>1. queue = <<>> /\ display # "render"
        BY <1>10 DEF Join, LogInv
    <2> QED
        BY <1>10, <2>1, SameShow DEF Join
<1> QED
    BY <1>1, <1>2, <1>3, <1>4, <1>5, <1>6, <1>7, <1>8, <1>9, <1>10 DEF MainStep, FlushStep

LEMMA UserShow ==
    ASSUME TypeOK, LogInv, FlushInv, ShowInv, UserStep PROVE ShowInv'
<1>1. ASSUME NEW m \in {"interactive", "print"}, Start(m) PROVE ShowInv'
    <2>1. /\ queue' = <<>> /\ display' = "idle" /\ main' \in {"replay", "idle"}
          /\ screen' = <<>> /\ pushed' = <<>>
        BY <1>1 DEF Start
    <2>2. InHand' = 0 /\ Waiting' = 0
        BY <2>1 DEF InHand, Waiting, HasFlush
    <2>3. InOrder(<<>>, <<>>, 0, current', <<>>, 0)
        BY DEF InOrder
    <2> QED
        BY <2>1, <2>2, <2>3 DEF ShowInv
<1>2. CASE TurnStarts
    BY <1>2, SameShow DEF TurnStarts
<1>3. ASSUME NEW k \in Kind \ {"input"}, Emit(k) PROVE ShowInv'
    BY <1>3, SameShow DEF Emit
<1>4. CASE TurnEnds
    BY <1>4, SameShow DEF TurnEnds
<1>5. CASE display_thread_stop
    BY <1>5, SameShow DEF display_thread_stop
<1> QED
    BY <1>1, <1>2, <1>3, <1>4, <1>5 DEF UserStep

LEMMA DisplayShow ==
    ASSUME TypeOK, LogInv, FlushInv, ShowInv, DisplayStep, FlushInv', TypeOK' PROVE ShowInv'
<1>1. CASE main = "off"
    BY <1>1 DEF DisplayStep, display_thread_fn, render_message, FlushLock, signal_flush, FlushUnlock,
                DisplayEnds, ShowInv
<1>2. CASE main # "off"
    <2>0. InOrder(pushed, screen, InHand, current, queue, Waiting)
        BY <1>2 DEF ShowInv
    <2>1. CASE display_thread_fn
        <3>1. /\ display = "idle" /\ queue # <<>> /\ current' = Head(queue) /\ queue' = Tail(queue)
              /\ UNCHANGED <<main, mode, screen, pushed>>
              /\ display' = IF Head(queue) = Flush THEN "lock" ELSE "render"
            BY <2>1 DEF display_thread_fn
        <3>2. /\ Len(queue') = Len(queue) - 1 /\ Len(queue) \in Nat
              /\ Head(queue) = Flush => queue' = <<>> /\ HasFlush /\ ~HasFlush'
              /\ Head(queue) # Flush => (HasFlush' <=> HasFlush)
            BY <3>1, PopFacts DEF FlushInv
        <3>3. InHand = 0 /\ Waiting \in Nat
            BY <3>1, WaitingFacts
        <3>4. CASE Head(queue) = Flush
            <4>a. queue' = <<>> /\ HasFlush /\ ~HasFlush' /\ display' = "lock"
                BY <3>1, <3>2, <3>4
            <4>b. Len(queue') = 0 /\ Len(queue) = 1
                BY <3>2, <4>a
            <4>1. Len(queue') = 0 /\ Len(queue) = 1 /\ Waiting = 0 /\ Waiting' = 0 /\ InHand' = 0
                BY <4>a, <4>b DEF Waiting, InHand
            <4>2. InOrder(pushed, screen, 0, current, queue, 0)
                BY <2>0, <3>3, <4>1
            <4>3. InOrder(pushed, screen, 0, current', queue', 0)
                BY <4>2 DEF InOrder
            <4> QED
                BY <3>1, <3>2, <3>4, <4>1, <4>3 DEF ShowInv
        <3>5. CASE Head(queue) # Flush
            <4>1. Waiting \in 1..Len(queue) /\ Waiting' = Waiting - 1 /\ InHand' = 1
                <5>1. InHand' = 1
                    BY <3>1, <3>5 DEF InHand
                <5>2. Waiting' = Waiting - 1
                    BY <3>2, <3>5 DEF Waiting
                <5>3. queue \in Seq(Item) /\ Len(queue) >= 1
                    BY <3>1 DEF TypeOK
                <5>4. Waiting # 0
                    <6>1. CASE ~HasFlush
                        BY <3>2, <5>3, <6>1 DEF Waiting
                    <6>2. CASE HasFlush
                        <7>1. Len(queue) # 1
                            BY <3>1, <3>5, <5>3, <6>2 DEF HasFlush
                        <7> QED
                            BY <3>2, <6>2, <7>1 DEF Waiting
                    <6> QED
                        BY <6>1, <6>2
                <5>5. Waiting <= Len(queue)
                    BY WaitingFacts
                <5> QED
                    BY <3>2, <3>3, <5>1, <5>2, <5>4, <5>5
            <4>2. InOrder(pushed, screen, 1, Head(queue), Tail(queue), Waiting - 1)
                BY <2>0, <3>1, <3>3, <4>1, TakeOrder DEF TypeOK
            <4>3. InOrder(pushed', screen', InHand', current', queue', Waiting')
                BY <3>1, <4>1, <4>2
            <4>4. ~(main = "ready" \/ (main = "idle" /\ mode = "interactive") \/ main = "done")
                BY <3>1 DEF ShowInv
            <4> QED
                BY <3>1, <4>3, <4>4 DEF ShowInv
        <3> QED
            BY <3>4, <3>5
    <2>2. CASE render_message
        <3>1. /\ display = "render" /\ screen' = Append(screen, current) /\ display' = "idle"
              /\ UNCHANGED <<main, mode, queue, pushed>>
            BY <2>2 DEF render_message
        <3>2. InHand = 1 /\ InHand' = 0 /\ Waiting' = Waiting /\ Waiting \in Nat
            BY <3>1, WaitingFacts DEF InHand, Waiting, HasFlush
        <3>3. InOrder(pushed, Append(screen, current), 0, current', queue, Waiting)
            BY <2>0, <3>2, RenderOrder DEF TypeOK
        <3>4. ~(main = "ready" \/ (main = "idle" /\ mode = "interactive") \/ main = "done")
            BY <3>1 DEF ShowInv
        <3> QED
            BY <3>1, <3>2, <3>3, <3>4 DEF ShowInv
    <2>3. CASE FlushLock
        BY <1>2, <2>3, SameShow DEF FlushLock, ShowInv
    <2>4. CASE signal_flush
        BY <1>2, <2>4, SameShow DEF signal_flush, ShowInv
    <2>5. CASE FlushUnlock
        <3>1. InHand = 0 /\ InHand' = 0 /\ Waiting' = Waiting
            BY <2>5 DEF FlushUnlock, InHand, Waiting, HasFlush
        <3>2. InOrder(pushed, screen, 0, current', queue, Waiting)
            BY <2>0, <3>1 DEF InOrder
        <3> QED
            BY <2>5, <3>1, <3>2 DEF FlushUnlock, ShowInv
    <2>6. CASE DisplayEnds
        BY <1>2, <2>6, SameShow DEF DisplayEnds, ShowInv
    <2> QED
        BY <2>1, <2>2, <2>3, <2>4, <2>5, <2>6 DEF DisplayStep
<1> QED
    BY <1>1, <1>2

LEMMA NextShow ==
    ASSUME TypeOK, LogInv, FlushInv, ShowInv, [Next]_vars, TypeOK', FlushInv' PROVE ShowInv'
<1>1. CASE UNCHANGED vars
    BY <1>1 DEF ShowInv, InHand, Waiting, HasFlush, vars
<1>2. CASE SpuriousWakeup
    BY <1>2, SameShow DEF SpuriousWakeup
<1>3. CASE Crash
    BY <1>3 DEF Crash, ShowInv
<1> QED
    BY <1>1, <1>2, <1>3, MainShow, UserShow, DisplayShow DEF Next, Exited

(* When display_flush has returned, when readline takes the terminal over    *)
(* and when the display thread has been joined, the screen holds exactly     *)
(* what was pushed, in order.                                                *)
THEOREM EverythingShown == Spec => []NothingUnshown
<1> DEFINE I == TypeOK /\ LogInv /\ FlushInv /\ ShowInv
<1>1. Init => I
    BY InitType, InitFlush, InitShow
<1>2. I /\ [Next]_vars => I'
    BY NextType, NextFlush, NextShow
<1>3. I => NothingUnshown
    <2> SUFFICES ASSUME TypeOK, FlushInv, ShowInv,
                        main = "ready" \/ (main = "idle" /\ mode = "interactive") \/ main = "done"
                 PROVE  screen = pushed
        BY DEF NothingUnshown
    <2>1. queue = <<>> /\ display # "render" /\ main # "off"
        BY DEF ShowInv
    <2>2. Waiting = 0 /\ InHand = 0
        BY <2>1, WaitingFacts, EmptyFacts
    <2>3. InOrder(pushed, screen, 0, current, queue, 0)
        BY <2>1, <2>2 DEF ShowInv
    <2>4. pushed \in Seq(Item) /\ screen \in Seq(Item) /\ Len(screen) \in Nat
        BY DEF TypeOK
    <2>5. Len(pushed) = Len(screen) /\ \A i \in 1..Len(screen) : pushed[i] = screen[i]
        BY <2>3, <2>4 DEF InOrder
    <2> QED
        BY <2>4, <2>5, SeqEqual
<1> QED
    BY <1>1, <1>2, <1>3, PTL DEF Spec

------------------------------------------------------------------------------
(* What is shown is logged. *)

(* Events are only added and lines that parse stay. *)
Grows == /\ merged \subseteq merged'
         /\ \A j \in 1..Len(events) : events[j].ok => j \in 1..Len(events') /\ events'[j] = events[j]

LEMMA SoundStays ==
    ASSUME Grows, NEW x, Sound(x)
    PROVE  x.kind \in Logged /\ x \notin merged' =>
               \E j \in 1..Len(events') : events'[j].ok /\ events'[j].event = x
    BY DEF Grows, Sound

LEMMA NextGrows == TypeOK /\ LogInv /\ [Next]_vars => Grows
<1> SUFFICES ASSUME TypeOK, LogInv, [Next]_vars PROVE Grows
    OBVIOUS
<1>1. CASE UNCHANGED <<events, merged>>
    BY <1>1 DEF Grows
<1>2. CASE LogEvent
    <2>1. store_event_append(local) /\ local \in Message
        BY <1>2 DEF LogEvent, LogInv
    <2> QED
        BY <2>1, AppendLine DEF Grows
<1>3. CASE Crash
    <2>1. CASE UNCHANGED <<events, torn>>
        BY <2>1, <1>3 DEF Crash, Grows
    <2>2. CASE ~UNCHANGED <<events, torn>>
        <3>1. PICK i \in {FALSE, local.kind = "input"} :
                 events' = Append(events, [event |-> local, ok |-> FALSE, input |-> i])
            BY <1>3, <2>2 DEF Crash
        <3> DEFINE l == [event |-> local, ok |-> FALSE, input |-> i]
        <3>2. events \in Seq(Line) /\ Len(events) \in Nat /\ merged' = merged /\ events' = Append(events, l)
            BY <1>3, <3>1 DEF TypeOK, Crash
        <3> HIDE DEF l
        <3>3. Len(events') = Len(events) + 1 /\ \A j \in 1..Len(events) : events'[j] = events[j]
            BY <3>2
        <3> QED
            BY <3>2, <3>3 DEF Grows
    <2> QED
        BY <2>1, <2>2
<1>4. [Next]_vars => LogEvent \/ Crash \/ UNCHANGED <<events, merged>>
    BY DEF Next, MainStep, UserStep, DisplayStep, FlushStep, vars, log, Exited, SpuriousWakeup,
           agent_replay_events, ReplayDone, readline_thread_start, push_display_event, FlushPush,
           FlushCheck, FlushReacquire, FlushDestroy, Join, Start, TurnStarts, Emit, TurnEnds,
           display_thread_stop, display_thread_fn, render_message, FlushLock, signal_flush,
           FlushUnlock, DisplayEnds
<1> QED
    BY <1>1, <1>2, <1>3, <1>4

(* A step that takes over messages from where they were. *)
LEMMA SoundMoves ==
    ASSUME SoundInv, Grows,
           \A i \in 1..Len(screen') : Sound(screen'[i]),
           \A i \in 1..Len(queue') : Sound(queue'[i]),
           display' = "render" => Sound(current'),
           main' = "push" => Sound(local'),
           main' = "replay" => \A i \in 1..Len(todo') : \E j \in 1..Len(events') : todo'[i] = events'[j]
    PROVE  SoundInv'
<1>1. ASSUME NEW i \in 1..Len(screen') PROVE Sound(screen[i])'
    BY SoundStays DEF Sound
<1>2. ASSUME NEW i \in 1..Len(queue') PROVE Sound(queue[i])'
    BY SoundStays DEF Sound
<1>3. display' = "render" => Sound(current)'
    BY SoundStays DEF Sound
<1>4. main' = "push" => Sound(local)'
    BY SoundStays DEF Sound
<1> QED
    BY <1>1, <1>2, <1>3, <1>4 DEF SoundInv

LEMMA SoundFixed == Sound(Newline) /\ Sound(Flush)
    BY Names DEF Sound

LEMMA InitSound == Init => SoundInv
    BY DEF Init, SoundInv

LEMMA PushSound ==
    ASSUME TypeOK, NEW x \in Item, queue' = Append(queue, x), Sound(x), SoundInv
    PROVE  \A i \in 1..Len(queue') : Sound(queue'[i])
<1>1. queue \in Seq(Item) /\ Len(queue) \in Nat
    BY DEF TypeOK
<1>2. ASSUME NEW i \in 1..Len(queue') PROVE queue'[i] = x \/ (i \in 1..Len(queue) /\ queue'[i] = queue[i])
    BY <1>1
<1> QED
    BY <1>2 DEF SoundInv

LEMMA MainSound ==
    ASSUME TypeOK, LogInv, FlushInv, SoundInv, MainStep, Grows PROVE SoundInv'
<1>1. CASE agent_replay_events
    <2>1. /\ main = "replay" /\ main' = main /\ todo # <<>> /\ todo' = Tail(todo)
          /\ UNCHANGED <<events, display, current, screen>>
        BY <1>1 DEF agent_replay_events, log
    <2>2. todo \in Seq(Line) /\ Len(todo) \in Nat /\ Len(todo) >= 1
        BY <2>1 DEF TypeOK
    <2>3. /\ Head(todo) = todo[1] /\ 1 \in 1..Len(todo)
          /\ \A i \in 1..Len(todo') : i + 1 \in 1..Len(todo) /\ todo'[i] = todo[i + 1]
        BY <2>1, <2>2
    <2>4. \A i \in 1..Len(todo') : \E j \in 1..Len(events') : todo'[i] = events'[j]
        BY <2>1, <2>3 DEF SoundInv
    <2>5. \A i \in 1..Len(queue') : Sound(queue'[i])
        <3>1. CASE UNCHANGED <<queue, pushed>>
            BY <3>1 DEF SoundInv
        <3>2. CASE ~UNCHANGED <<queue, pushed>>
            <4>1. Head(todo).ok /\ queue' = Append(queue, Head(todo).event)
                BY <1>1, <3>2 DEF agent_replay_events, Push
            <4>2. \E j \in 1..Len(events) : Head(todo) = events[j]
                BY <2>1, <2>3 DEF SoundInv
            <4>3. Sound(Head(todo).event)
                BY <4>1, <4>2 DEF Sound
            <4>4. Head(todo).event \in Item
                <5>1. Head(todo) \in Line
                    BY <2>2, <2>3
                <5> QED
                    BY <5>1 DEF Line, Item
            <4> QED
                BY <4>1, <4>3, <4>4, PushSound
        <3> QED
            BY <3>1, <3>2
    <2> QED
        BY <2>1, <2>4, <2>5, SoundMoves DEF SoundInv
<1>2. CASE ReplayDone
    <2>1. main' = "flushPush" /\ UNCHANGED <<display, current, screen>>
        BY <1>2 DEF ReplayDone
    <2>2. \A i \in 1..Len(queue') : Sound(queue'[i])
        <3>1. CASE UNCHANGED <<queue, pushed>>
            BY <3>1 DEF SoundInv
        <3>2. CASE Push(Newline)
            BY <3>2, PushSound, SoundFixed, Names DEF Push
        <3> QED
            BY <1>2, <3>1, <3>2 DEF ReplayDone
    <2> QED
        BY <2>1, <2>2, SoundMoves DEF SoundInv
<1>3. CASE readline_thread_start
    BY <1>3, SoundMoves DEF readline_thread_start, SoundInv
<1>4. CASE LogEvent
    <2>1. store_event_append(local) /\ local \in Message /\ main' \in {"push", "turn"}
        BY <1>4 DEF LogEvent, LogInv
    <2>2. /\ UNCHANGED <<queue, display, current, screen>>
          /\ main' = "push" => local' = local
        BY <1>4 DEF LogEvent
    <2>3. local \notin merged' => \E j \in 1..Len(events') : events'[j].ok /\ events'[j].event = local
        BY <2>1, AppendLine
    <2>4. ASSUME NEW i \in 1..Len(screen') PROVE Sound(screen[i])'
        <3>1. Sound(screen[i])
            BY <2>2 DEF SoundInv
        <3> QED
            BY <2>2, <3>1, SoundStays DEF Sound
    <2>5. ASSUME NEW i \in 1..Len(queue') PROVE Sound(queue[i])'
        <3>1. Sound(queue[i])
            BY <2>2 DEF SoundInv
        <3> QED
            BY <2>2, <3>1, SoundStays DEF Sound
    <2>6. display' = "render" => Sound(current)'
        <3>1. display = "render" => Sound(current)
            BY DEF SoundInv
        <3> QED
            BY <2>2, <3>1, SoundStays DEF Sound
    <2>7. main' = "push" => Sound(local)'
        BY <2>2, <2>3 DEF Sound
    <2> QED
        BY <2>1, <2>4, <2>5, <2>6, <2>7 DEF SoundInv
<1>5. CASE push_display_event
    <2>1. /\ main = "push" /\ main' = "turn" /\ UNCHANGED <<display, current, screen>>
          /\ queue' = Append(queue, local)
        BY <1>5 DEF push_display_event, Push
    <2>2. local \in Item /\ Sound(local)
        BY <2>1, Names DEF LogInv, SoundInv
    <2>3. \A i \in 1..Len(queue') : Sound(queue'[i])
        BY <2>1, <2>2, PushSound
    <2> QED
        BY <2>1, <2>3, SoundMoves DEF SoundInv
<1>6. CASE FlushPush
    <2>1. \A i \in 1..Len(queue') : Sound(queue'[i])
        BY <1>6, PushSound, SoundFixed, Names DEF FlushPush
    <2> QED
        BY <1>6, <2>1, SoundMoves DEF SoundInv, FlushPush
<1>7. CASE FlushCheck
    BY <1>7, SoundMoves DEF FlushCheck, SoundInv
<1>8. CASE FlushReacquire
    BY <1>8, SoundMoves DEF FlushReacquire, SoundInv
<1>9. CASE FlushDestroy
    BY <1>9, SoundMoves DEF FlushDestroy, SoundInv, TypeOK
<1>10. CASE Join
    BY <1>10, SoundMoves DEF Join, SoundInv
<1> QED
    BY <1>1, <1>2, <1>3, <1>4, <1>5, <1>6, <1>7, <1>8, <1>9, <1>10 DEF MainStep, FlushStep

LEMMA UserSound ==
    ASSUME TypeOK, LogInv, SoundInv, UserStep, Grows PROVE SoundInv'
<1>1. ASSUME NEW m \in {"interactive", "print"}, Start(m) PROVE SoundInv'
    <2>1. /\ queue' = <<>> /\ display' = "idle" /\ main' \in {"replay", "idle"} /\ screen' = <<>>
          /\ main' = "replay" => todo' = SubSeq(events, Start1, Len(events))
          /\ events' = events
        BY <1>1 DEF Start, Start1, log
    <2>2. Start1 \in 1..(Len(events) + 1) /\ events \in Seq(Line) /\ Len(events) \in Nat
        BY StartOffset DEF TypeOK
    <2>3. ASSUME main' = "replay", NEW i \in 1..Len(todo')
          PROVE  \E j \in 1..Len(events') : todo'[i] = events'[j]
        <3>1. Start1 + i - 1 \in 1..Len(events) /\ todo'[i] = events[Start1 + i - 1]
            BY <2>1, <2>2, <2>3
        <3> QED
            BY <2>1, <3>1
    <2> QED
        BY <2>1, <2>3, SoundMoves
<1>2. CASE TurnStarts
    BY <1>2, SoundMoves DEF TurnStarts, SoundInv
<1>3. ASSUME NEW k \in Kind \ {"input"}, Emit(k) PROVE SoundInv'
    <2>1. main' = "push" => Sound(local')
        BY <1>3 DEF Emit, Sound
    <2> QED
        BY <1>3, <2>1, SoundMoves DEF Emit, SoundInv
<1>4. CASE TurnEnds
    BY <1>4, SoundMoves DEF TurnEnds, SoundInv
<1>5. CASE display_thread_stop
    BY <1>5, SoundMoves DEF display_thread_stop, SoundInv
<1> QED
    BY <1>1, <1>2, <1>3, <1>4, <1>5 DEF UserStep

LEMMA DisplaySound ==
    ASSUME TypeOK, LogInv, SoundInv, DisplayStep, Grows PROVE SoundInv'
<1>0. queue \in Seq(Item) /\ screen \in Seq(Item) /\ Len(queue) \in Nat /\ Len(screen) \in Nat
    BY DEF TypeOK
<1>1. CASE display_thread_fn
    <2>1. /\ queue # <<>> /\ current' = Head(queue) /\ queue' = Tail(queue)
          /\ UNCHANGED <<events, main, local, todo, screen>>
        BY <1>1 DEF display_thread_fn, log
    <2>2. /\ Head(queue) = queue[1] /\ 1 \in 1..Len(queue)
          /\ \A i \in 1..Len(queue') : i + 1 \in 1..Len(queue) /\ queue'[i] = queue[i + 1]
        BY <1>0, <2>1
    <2> QED
        BY <2>1, <2>2, SoundMoves DEF SoundInv
<1>2. CASE render_message
    <2>1. /\ display = "render" /\ screen' = Append(screen, current) /\ display' = "idle"
          /\ UNCHANGED <<events, main, local, todo, queue>>
        BY <1>2 DEF render_message, log
    <2>2. ASSUME NEW i \in 1..Len(screen')
          PROVE  screen'[i] = current \/ (i \in 1..Len(screen) /\ screen'[i] = screen[i])
        BY <1>0, <2>1
    <2> QED
        BY <2>1, <2>2, SoundMoves DEF SoundInv
<1>3. CASE FlushLock
    BY <1>3, SoundMoves DEF FlushLock, SoundInv, log
<1>4. CASE signal_flush
    BY <1>4, SoundMoves DEF signal_flush, SoundInv, log
<1>5. CASE FlushUnlock
    BY <1>5, SoundMoves DEF FlushUnlock, SoundInv, log
<1>6. CASE DisplayEnds
    BY <1>6, SoundMoves DEF DisplayEnds, SoundInv, log
<1> QED
    BY <1>1, <1>2, <1>3, <1>4, <1>5, <1>6 DEF DisplayStep

LEMMA NextSound ==
    ASSUME TypeOK, LogInv, FlushInv, SoundInv, [Next]_vars PROVE SoundInv'
<1>0. Grows
    BY NextGrows
<1>1. CASE UNCHANGED vars
    BY <1>1 DEF SoundInv, Sound, vars
<1>2. CASE SpuriousWakeup
    BY <1>0, <1>2, SoundMoves DEF SpuriousWakeup, SoundInv
<1>3. CASE Crash
    BY <1>0, <1>3, SoundMoves DEF Crash, SoundInv
<1> QED
    BY <1>0, <1>1, <1>2, <1>3, MainSound, UserSound, DisplaySound DEF Next, Exited

(* push_display_event logs before it pushes: whatever a process has shown of *)
(* what is logged at all can be read back from the log, except the event     *)
(* that was appended to a line a crash had cut off.                          *)
THEOREM ShownSurvives == Spec => []ShownIsLogged
<1> DEFINE I == TypeOK /\ LogInv /\ FlushInv /\ SoundInv
<1>1. Init => I
    BY InitType, InitFlush, InitSound
<1>2. I /\ [Next]_vars => I'
    BY NextType, NextFlush, NextSound
<1>3. I => ShownIsLogged
    BY DEF SoundInv, Sound, ShownIsLogged
<1> QED
    BY <1>1, <1>2, <1>3, PTL DEF Spec

------------------------------------------------------------------------------
(* The replay. *)

LEMMA SameReplay ==
    ASSUME events' = events
    PROVE  Start1' = Start1 /\ \A n : Replay(n)' = Replay(n)
    BY DEF Start1, find_recent_turn_start_offset, Slot, Inputs, Replay, Before, Replayable

LEMMA BeforeFinite ==
    ASSUME events \in Seq(Line), NEW n
    PROVE  /\ Before(n) \subseteq 1..Len(events)
           /\ IsFiniteSet(Before(n)) /\ Cardinality(Before(n)) \in Nat
<1>1. Len(events) \in Nat /\ Start1 \in 1..(Len(events) + 1)
    BY StartOffset
<1>2. Before(n) \subseteq 1..Len(events)
    BY <1>1 DEF Before
<1>3. IsFiniteSet(Before(n)) /\ Cardinality(Before(n)) \in Nat
    BY <1>1, <1>2, UptoFinite
<1> QED
    BY <1>2, <1>3

(* One line of the log: read, and shown if it is to be shown. *)
LEMMA ReplayStep ==
    ASSUME events \in Seq(Line), NEW p \in Start1..Len(events)
    PROVE  Replay(p + 1) = IF Replayable(p) THEN Append(Replay(p), events[p].event) ELSE Replay(p)
<1>0. Len(events) \in Nat /\ Start1 \in 1..(Len(events) + 1) /\ p \in 1..Len(events)
    <2>1. Len(events) \in Nat /\ Start1 \in 1..(Len(events) + 1)
        BY StartOffset
    <2> QED
        BY <2>1
<1>1. \A i \in Start1..Len(events) : i < p + 1 <=> i < p \/ i = p
    BY <1>0
<1>2. CASE ~Replayable(p)
    <2>1. Before(p + 1) = Before(p)
        BY <1>1, <1>2 DEF Before
    <2> QED
        BY <1>2, <2>1 DEF Replay
<1>3. CASE Replayable(p)
    <2>1. Before(p + 1) = Before(p) \cup {p}
        BY <1>1, <1>3 DEF Before
    <2> DEFINE B == Before(p)
               c == Cardinality(B)
    <2>2. B \subseteq 1..Len(events) /\ c \in Nat
        BY BeforeFinite
    <2>3. \A j \in B : j < p
        BY DEF Before
    <2>4. /\ Cardinality(B \cup {p}) = c + 1
          /\ Nth(B \cup {p}, c + 1) = p
          /\ \A k \in 1..c : Nth(B \cup {p}, k) = Nth(B, k)
        <3> HIDE DEF B
        <3>1. Cardinality(B \cup {p}) = Cardinality(B) + 1 /\ Nth(B \cup {p}, Cardinality(B) + 1) = p
            BY <1>0, <2>2, <2>3, NthExtend
        <3>2. ASSUME NEW k \in 1..Cardinality(B) PROVE Nth(B \cup {p}, k) = Nth(B, k)
            BY <1>0, <2>2, <2>3, NthKept
        <3> QED
            BY <3>1, <3>2
    <2>5. \A k \in 1..c : Nth(B, k) \in 1..Len(events)
        BY <1>0, <2>2, NthExists
    <2> DEFINE N == [k \in 1..(c + 1) |-> events[Nth(B \cup {p}, k)].event]
               O == [k \in 1..c |-> events[Nth(B, k)].event]
    <2>6. Replay(p + 1) = N /\ Replay(p) = O
        BY <2>1, <2>4 DEF Replay
    <2>7. \A i \in 1..Len(events) : events[i].event \in Message
        <3>1. \A i \in 1..Len(events) : events[i] \in Line
            OBVIOUS
        <3> QED
            BY <3>1 DEF Line
    <2>8. O \in Seq(Message) /\ Len(O) = c
        <3>1. \A k \in 1..c : O[k] \in Message
            BY <2>5, <2>7
        <3> QED
            BY <2>2, <3>1
    <2>9. N \in Seq(Message) /\ Len(N) = c + 1
        <3>1. \A k \in 1..(c + 1) : N[k] \in Message
            <4>1. \A k \in 1..(c + 1) : k \in 1..c \/ k = c + 1
                BY <2>2
            <4> QED
                BY <1>0, <2>4, <2>5, <2>7, <4>1
        <3>2. c + 1 \in Nat
            BY <2>2
        <3>3. N \in [1..(c + 1) -> Message]
            BY <3>1
        <3> HIDE DEF N, c
        <3> QED
            BY <3>2, <3>3
    <2>10. /\ \A k \in 1..c : N[k] = O[k]
           /\ N[c + 1] = events[p].event
        <3>1. c + 1 \in 1..(c + 1) /\ \A k \in 1..c : k \in 1..(c + 1)
            BY <2>2
        <3> HIDE DEF c, B
        <3>2. N[c + 1] = events[p].event
            BY <2>4, <3>1
        <3>3. ASSUME NEW k \in 1..c PROVE N[k] = O[k]
            BY <2>4, <3>1
        <3> QED
            BY <3>2, <3>3
    <2>11. events[p].event \in Message
        BY <1>0, <2>7
    <2> HIDE DEF N, O, c, B
    <2>12. N = Append(O, events[p].event)
        <3> DEFINE A == Append(O, events[p].event)
        <3>1. /\ A \in Seq(Message) /\ Len(A) = c + 1 /\ A[c + 1] = events[p].event
              /\ \A k \in 1..c : A[k] = O[k]
            BY <2>2, <2>8, <2>11
        <3>2. \A k \in 1..Len(N) : N[k] = A[k]
            BY <2>2, <2>9, <2>10, <3>1
        <3> HIDE DEF A
        <3>3. N = A
            BY <2>9, <3>1, <3>2, SeqEqual
        <3> QED
            BY <3>3 DEF A
    <2> QED
        BY <1>3, <2>6, <2>12
<1> QED
    BY <1>2, <1>3

LEMMA ReplayEmpty ==
    ASSUME events \in Seq(Line), NEW n
    PROVE  Replay(n) = <<>> <=> Before(n) = {}
<1>1. IsFiniteSet(Before(n)) /\ Cardinality(Before(n)) \in Nat
    BY BeforeFinite
<1>2. CASE Before(n) = {}
    <2>1. 1..Cardinality(Before(n)) = {}
        BY <1>2, FS_EmptySet
    <2> QED
        BY <1>2, <2>1 DEF Replay
<1>3. CASE Before(n) # {}
    <2>1. Cardinality(Before(n)) >= 1
        BY <1>1, <1>3, FS_EmptySet
    <2>2. 1 \in DOMAIN Replay(n)
        BY <1>1, <2>1 DEF Replay
    <2> QED
        BY <1>3, <2>2
<1> QED
    BY <1>2, <1>3

LEMMA InitReplay == Init => ReplayInv
    BY DEF Init, ReplayInv, FlushPlace

LEMMA ReplayElsewhere ==
    ASSUME main' \notin FlushPlace \cup {"ready", "replay"} PROVE ReplayInv'
    BY DEF ReplayInv, FlushPlace

LEMMA ReplayStays ==
    ASSUME TypeOK, ReplayInv, UNCHANGED <<events, pushed, ret, todo>>,
           \/ main' = main
           \/ main \in FlushPlace /\ main' \in FlushPlace
           \/ main = "flushDestroy" /\ main' = ret
    PROVE  ReplayInv'
<1>1. /\ Start1' = Start1 /\ \A n : Replay(n)' = Replay(n)
      /\ Position' = Position
    BY SameReplay DEF Position
<1>2. Replay(Len(events) + 1)' = Replay(Len(events) + 1)
    BY <1>1
<1>3. Replay(Position)' = Replay(Position)
    BY <1>1 DEF Replay, Before, Replayable
<1>4. /\ main' = "replay" => main = "replay"
      /\ (main' \in FlushPlace /\ ret' = "ready") \/ main' = "ready" =>
            (main \in FlushPlace /\ ret = "ready") \/ main = "ready"
    BY DEF FlushPlace, TypeOK
<1>5. main' = "replay" => /\ todo' = SubSeq(events', Position', Len(events'))
                          /\ Position' >= Start1'
                          /\ pushed' = Replay(Position)'
    BY <1>1, <1>3, <1>4 DEF ReplayInv
<1>6. (main' \in FlushPlace /\ ret' = "ready") \/ main' = "ready" =>
          pushed' = IF Replay(Len(events) + 1)' = <<>> THEN <<>>
                    ELSE Append(Replay(Len(events) + 1)', Newline)
    <2>1. (main \in FlushPlace /\ ret = "ready") \/ main = "ready" =>
             pushed = IF Replay(Len(events) + 1) = <<>> THEN <<>>
                      ELSE Append(Replay(Len(events) + 1), Newline)
        BY DEF ReplayInv
    <2> QED
        BY <1>2, <1>4, <2>1
<1> QED
    BY <1>5, <1>6 DEF ReplayInv

LEMMA MainReplay ==
    ASSUME TypeOK, FlushInv, ReplayInv, MainStep PROVE ReplayInv'
<1>1. CASE agent_replay_events
    <2>1. /\ main = "replay" /\ main' = main /\ todo # <<>> /\ todo' = Tail(todo) /\ events' = events
          /\ IF Head(todo).ok /\ Head(todo).event.kind \in Replayed
               THEN pushed' = Append(pushed, Head(todo).event) ELSE pushed' = pushed
        BY <1>1 DEF agent_replay_events, log, Push
    <2>2. /\ events \in Seq(Line) /\ Len(events) \in Nat /\ todo \in Seq(Line)
          /\ Len(todo) \in Nat /\ Len(todo) >= 1
        BY <2>1 DEF TypeOK
    <2>3. /\ todo = SubSeq(events, Position, Len(events)) /\ Position >= Start1
          /\ pushed = Replay(Position) /\ Start1 \in 1..(Len(events) + 1)
        BY <2>1, <2>2, StartOffset DEF ReplayInv
    <2>4. Position \in 1..Len(events) /\ Position \in Start1..Len(events)
        BY <2>2, <2>3 DEF Position
    <2>5. Position' = Position + 1
        BY <2>1, <2>2 DEF Position
    <2>6. PICK p \in Start1..Len(events) : p = Position
        BY <2>4
    <2>7. Head(todo) = events[p] /\ Tail(todo) = SubSeq(events, p + 1, Len(events))
        <3>1. p \in 1..Len(events) /\ todo = SubSeq(events, p, Len(events))
            BY <2>3, <2>4, <2>6
        <3> QED
            BY <2>2, <3>1
    <2>8. Replay(p + 1) = IF Replayable(p) THEN Append(Replay(p), events[p].event) ELSE Replay(p)
        BY <2>2, ReplayStep
    <2>9. pushed' = Replay(p + 1)
        <3>1. pushed = Replay(p)
            BY <2>3, <2>6
        <3>2. CASE Replayable(p)
            <4>1. pushed' = Append(pushed, events[p].event)
                BY <2>1, <2>7, <3>2 DEF Replayable
            <4> QED
                BY <2>8, <3>1, <3>2, <4>1
        <3>3. CASE ~Replayable(p)
            <4>1. pushed' = pushed
                BY <2>1, <2>7, <3>3 DEF Replayable
            <4> QED
                BY <2>8, <3>1, <3>3, <4>1
        <3> QED
            BY <3>2, <3>3
    <2>10. Replay(p + 1)' = Replay(p + 1) /\ Start1' = Start1
        BY <2>1, SameReplay
    <2>11. Position' = p + 1
        BY <2>5, <2>6
    <2>12. Replay(Position)' = Replay(p + 1)'
        BY <2>11 DEF Replay, Before
    <2>13. p + 1 >= Start1
        BY <2>3, <2>4, <2>6
    <2> QED
        BY <2>1, <2>7, <2>9, <2>10, <2>11, <2>12, <2>13 DEF ReplayInv, FlushPlace
<1>2. CASE ReplayDone
    <2>1. /\ main = "replay" /\ main' = "flushPush" /\ todo = <<>> /\ events' = events
          /\ IF pushed = <<>> THEN pushed' = pushed ELSE pushed' = Append(pushed, Newline)
        BY <1>2 DEF ReplayDone, Push, log
    <2>2. Len(events) \in Nat /\ Len(todo) = 0
        BY <2>1 DEF TypeOK
    <2>3. Position = Len(events) + 1
        BY <2>2 DEF Position
    <2>4. pushed = Replay(Len(events) + 1)
        BY <2>1, <2>3 DEF ReplayInv
    <2>5. Replay(Len(events) + 1)' = Replay(Len(events) + 1)
        BY <2>1, SameReplay
    <2>6. pushed' = IF Replay(Len(events) + 1)' = <<>> THEN <<>>
                    ELSE Append(Replay(Len(events) + 1)', Newline)
        BY <2>1, <2>4, <2>5
    <2> QED
        BY <2>1, <2>6 DEF ReplayInv, FlushPlace
<1>3. CASE FlushStep
    BY <1>3, ReplayStays DEF FlushStep, FlushPush, FlushCheck, FlushReacquire, FlushDestroy, log,
                             FlushPlace
<1>4. CASE readline_thread_start \/ LogEvent \/ push_display_event \/ Join
    BY <1>4, ReplayElsewhere DEF readline_thread_start, LogEvent, push_display_event, Join, FlushPlace
<1> QED
    BY <1>1, <1>2, <1>3, <1>4 DEF MainStep

LEMMA UserReplay ==
    ASSUME TypeOK, FlushInv, ReplayInv, UserStep PROVE ReplayInv'
<1>1. ASSUME Start("interactive") PROVE ReplayInv'
    <2>1. /\ main' = "replay" /\ todo' = SubSeq(events, Start1, Len(events)) /\ events' = events
          /\ pushed' = <<>>
        BY <1>1 DEF Start, Start1, log
    <2>2. events \in Seq(Line) /\ Len(events) \in Nat /\ Start1 \in 1..(Len(events) + 1)
        BY StartOffset DEF TypeOK
    <2>3. PICK p \in 1..(Len(events) + 1) : p = Start1
        BY <2>2
    <2>4. Len(SubSeq(events, p, Len(events))) = Len(events) - p + 1
        BY <2>2
    <2>5. Position' = p
        BY <2>1, <2>2, <2>3, <2>4 DEF Position
    <2>6. Start1' = p /\ Replay(p)' = Replay(p)
        BY <2>1, <2>3, SameReplay
    <2>7. Before(p) = {}
        BY <2>2, <2>3 DEF Before
    <2>8. Replay(p) = <<>>
        BY <2>2, <2>7, ReplayEmpty
    <2>9. Replay(Position)' = Replay(p)'
        BY <2>5 DEF Replay, Before
    <2> QED
        BY <2>1, <2>3, <2>5, <2>6, <2>8, <2>9 DEF ReplayInv, FlushPlace
<1>2. ASSUME Start("print") PROVE ReplayInv'
    BY <1>2, ReplayElsewhere DEF Start, FlushPlace
<1>3. CASE TurnEnds
    BY <1>3 DEF TurnEnds, ReplayInv, FlushPlace
<1>4. CASE TurnStarts \/ (\E k \in Kind \ {"input"} : Emit(k)) \/ display_thread_stop
    BY <1>4, ReplayElsewhere DEF TurnStarts, Emit, display_thread_stop, FlushPlace
<1> QED
    BY <1>1, <1>2, <1>3, <1>4 DEF UserStep

LEMMA NextReplay ==
    ASSUME TypeOK, FlushInv, ReplayInv, [Next]_vars PROVE ReplayInv'
<1>1. CASE UNCHANGED vars
    BY <1>1, ReplayStays DEF vars
<1>2. CASE SpuriousWakeup
    BY <1>2, ReplayStays DEF SpuriousWakeup, log, FlushPlace
<1>3. CASE Crash
    BY <1>3, ReplayElsewhere DEF Crash, FlushPlace
<1>4. CASE DisplayStep
    BY <1>4, ReplayStays DEF DisplayStep, display_thread_fn, render_message, FlushLock, signal_flush,
                             FlushUnlock, DisplayEnds, log, FlushPlace
<1> QED
    BY <1>1, <1>2, <1>3, <1>4, MainReplay, UserReplay DEF Next, Exited

(* When readline takes the terminal over, the screen holds the last MaxTurns *)
(* turns of the log and nothing else: the slot the ring of offsets is about  *)
(* to overwrite is the oldest, for every number of inputs seen.              *)
THEOREM ReplayShowsLastTurns == Spec => []ReplayIsRecent
<1> DEFINE I == TypeOK /\ LogInv /\ FlushInv /\ ReplayInv
<1>1. Init => I
    BY InitType, InitFlush, InitReplay
<1>2. I /\ [Next]_vars => I'
    BY NextType, NextFlush, NextReplay
<1>3. I /\ NothingUnshown => ReplayIsRecent
    <2> SUFFICES ASSUME TypeOK, ReplayInv, NothingUnshown, main = "ready" PROVE ReplayIsRecent
        BY DEF ReplayIsRecent
    <2> DEFINE n == Len(events) + 1
               shown == {i \in Recent : Replayable(i)}
    <2>1. events \in Seq(Line) /\ Len(events) \in Nat
        BY DEF TypeOK
    <2>2. Recent = Start1..Len(events) /\ Start1 \in 1..(Len(events) + 1)
        BY <2>1, StartOffset
    <2>3. shown = Before(n)
        <3>1. \A i \in Start1..Len(events) : i < n
            BY <2>1, <2>2
        <3> QED
            BY <2>2, <3>1 DEF Before
    <2>4. screen = IF Replay(n) = <<>> THEN <<>> ELSE Append(Replay(n), Newline)
        BY DEF ReplayInv, NothingUnshown
    <2>5. Replay(n) = <<>> <=> shown = {}
        BY <2>1, <2>3, ReplayEmpty
    <2>6. Replay(n) = [k \in 1..Cardinality(shown) |-> events[Nth(shown, k)].event]
        BY <2>3 DEF Replay
    <2> HIDE DEF shown
    <2>7. screen = IF shown = {} THEN <<>>
                   ELSE Append([k \in 1..Cardinality(shown) |-> events[Nth(shown, k)].event], Newline)
        BY <2>4, <2>5, <2>6
    <2> QED
        BY <2>7 DEF shown, ReplayIsRecent
<1> QED
    BY <1>1, <1>2, <1>3, EverythingShown, PTL DEF Spec
==============================================================================
