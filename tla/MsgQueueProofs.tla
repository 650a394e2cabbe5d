---------------------------- MODULE MsgQueueProofs ----------------------------
(***************************************************************************)
(* Proofs about MsgQueue, for any sets of nodes, messages and poppers.     *)
(***************************************************************************)
EXTENDS MsgQueue, FiniteSetTheorems, TLAPS

(* The threads inside mq_pop form a finite set. *)
LEMMA WokenFinite ==
    ASSUME NEW S \in SUBSET Popper
    PROVE  IsFiniteSet(S) /\ Cardinality(S) \in Nat
  BY PopperAssumption, FS_Subset, FS_CardinalityType

(* mq_init establishes the invariant. *)
LEMMA InitIInv == mq_init => IInv
  <1> SUFFICES ASSUME mq_init PROVE IInv
    OBVIOUS
  <1>1. TypeOK
    <2>1. linked \in Seq(Node)
      BY SMT DEF mq_init
    <2>2. closed \in BOOLEAN
      BY Zenon DEF mq_init
    <2> QED
      BY <2>1, <2>2 DEF mq_init, TypeOK, Place
  <1>2. ListOK
    BY DEF mq_init, ListOK
  <1>3. NodeOwnedOnce
    BY DEF mq_init, NodeOwnedOnce
  <1>4. NoLostWakeup
    BY DEF mq_init, NoLostWakeup, Waiting
  <1> QED
    BY <1>1, <1>2, <1>3, <1>4 DEF IInv

(* A push links a node that nobody owns behind the last one. *)
LEMMA PushKeepsList ==
    ASSUME IInv, NEW n \in Node, NEW d \in Data, mq_push(n, d)
    PROVE  TypeOK' /\ ListOK' /\ NodeOwnedOnce'
  <1> USE NodeAssumption
  <1>0. /\ linked \in Seq(Node) /\ linked' = Append(linked, n)
        /\ Len(linked') = Len(linked) + 1 /\ Len(linked) \in Nat
        /\ linked' \in Seq(Node)
        /\ linked'[Len(linked')] = n
        /\ \A i \in 1..Len(linked) : linked'[i] = linked[i] /\ linked[i] \in Node
    BY DEF mq_push, IInv, TypeOK
  <1>1. /\ pc' \in [Popper -> Place]
        /\ \A p \in Popper : (pc'[p] = "got") <=> (pc[p] = "got")
    BY DEF mq_push, Signal, IInv, TypeOK, Place, Waiting
  <1>2. TypeOK'
    BY <1>0, <1>1 DEF mq_push, IInv, TypeOK
  <1>3. n \notin LinkedNodes /\ \A i \in 1..Len(linked) : linked[i] # n
    BY <1>0 DEF mq_push, Free, LinkedNodes
  <1>4. ListOK'
    <2>1. /\ count' = Len(linked')
          /\ (head' = Null) <=> (linked' = <<>>)
          /\ (tail' = Null) <=> (linked' = <<>>)
          /\ linked' # <<>> => head' = linked'[1] /\ tail' = linked'[Len(linked')]
      BY <1>0 DEF mq_push, IInv, TypeOK, ListOK
    <2>2. \A i, j \in 1..Len(linked') : linked'[i] = linked'[j] => i = j
      BY <1>0, <1>3 DEF IInv, ListOK
    <2>3. \A i \in 1..Len(linked') :
             next'[linked'[i]] = IF i = Len(linked') THEN Null ELSE linked'[i + 1]
      <3> SUFFICES ASSUME NEW i \in 1..Len(linked')
                   PROVE next'[linked'[i]] = IF i = Len(linked') THEN Null ELSE linked'[i + 1]
        OBVIOUS
      <3>1. CASE i = Len(linked')
        BY <1>0, <1>3, <3>1 DEF mq_push, IInv, TypeOK, ListOK
      <3>2. CASE i = Len(linked)
        <4>1. tail = linked[i] /\ tail # Null /\ tail # n /\ tail \in Node
          BY <1>0, <1>3, <3>2 DEF IInv, ListOK
        <4>2. next'[tail] = n
          BY <4>1 DEF mq_push, IInv, TypeOK
        <4> QED
          BY <1>0, <3>2, <4>1, <4>2
      <3>3. CASE i < Len(linked)
        <4>1. /\ linked[i] # n /\ linked[i] # tail
              /\ next[linked[i]] = linked[i + 1]
          BY <1>0, <1>3, <3>3 DEF IInv, ListOK
        <4>2. next'[linked[i]] = next[linked[i]]
          BY <4>1, <1>0, <3>3 DEF mq_push, IInv, TypeOK
        <4> QED
          BY <1>0, <3>3, <4>1, <4>2
      <3> QED
        BY <1>0, <3>1, <3>2, <3>3
    <2> QED
      BY <2>1, <2>2, <2>3 DEF ListOK
  <1>5. NodeOwnedOnce'
    <2>1. LinkedNodes' = LinkedNodes \cup {n}
      BY <1>0 DEF LinkedNodes
    <2> QED
      BY <2>1, <1>1 DEF mq_push, Free, IInv, NodeOwnedOnce
  <1> QED
    BY <1>2, <1>4, <1>5

(* Taking the head off leaves a list, and the node to its popper alone. *)
LEMMA UnlinkKeepsList ==
    ASSUME IInv, NEW p \in Popper, pc[p] # "got", Unlink(p)
    PROVE  TypeOK' /\ ListOK' /\ NodeOwnedOnce'
  <1> USE NodeAssumption
  <1>0. /\ linked \in Seq(Node) /\ linked # <<>> /\ linked' = Tail(linked)
        /\ Len(linked) \in Nat \ {0}
        /\ Len(linked') = Len(linked) - 1
        /\ linked' \in Seq(Node)
        /\ \A i \in 1..Len(linked) : linked[i] \in Node
        /\ \A i \in 1..Len(linked') : linked'[i] = linked[i + 1]
        /\ head = linked[1]
        /\ next[head] = IF Len(linked) = 1 THEN Null ELSE linked[2]
    BY DEF Unlink, IInv, TypeOK, ListOK
  <1>1. head \in Node /\ next[head] \in Node \cup {Null} /\ count' \in Nat
    BY <1>0 DEF Unlink, IInv, TypeOK, ListOK
  <1>2. TypeOK'
    BY <1>0, <1>1 DEF Unlink, IInv, TypeOK, Place
  <1>3. ListOK'
    <2>1. CASE Len(linked) = 1
      BY <1>0, <2>1 DEF Unlink, IInv, TypeOK, ListOK
    <2>2. CASE Len(linked) > 1
      <3>0. 1 \in 1..Len(linked') /\ linked' # <<>>
        BY <1>0, <2>2
      <3>1. count' = Len(linked') /\ head' = linked'[1] /\ head' # Null
        BY <1>0, <2>2, <3>0 DEF Unlink, IInv, TypeOK, ListOK
      <3>4. tail' = linked'[Len(linked')] /\ tail' # Null
        BY <1>0, <2>2, <3>0 DEF Unlink, IInv, TypeOK, ListOK
      <3>2. \A i \in 1..Len(linked') :
               next'[linked'[i]] = IF i = Len(linked') THEN Null ELSE linked'[i + 1]
        BY <1>0, <2>2 DEF Unlink, IInv, ListOK
      <3>3. \A i, j \in 1..Len(linked') : linked'[i] = linked'[j] => i = j
        BY <1>0, <2>2 DEF IInv, ListOK
      <3> QED
        BY <3>0, <3>1, <3>2, <3>3, <3>4 DEF ListOK
    <2> QED
      BY <1>0, <2>1, <2>2
  <1>4. NodeOwnedOnce'
    <2>1. head \in LinkedNodes /\ head \notin LinkedNodes' /\ LinkedNodes' \subseteq LinkedNodes
      BY <1>0 DEF LinkedNodes, IInv, ListOK
    <2> QED
      BY <1>1, <2>1 DEF Unlink, IInv, TypeOK, NodeOwnedOnce, Place
  <1> QED
    BY <1>2, <1>3, <1>4

(* The wake-up accounting of a step that changes the place of one popper. *)
LEMMA WokenAfterStep ==
    ASSUME TypeOK, NEW p \in Popper, NEW v \in Place, pc' = [pc EXCEPT ![p] = v]
    PROVE  /\ Cardinality(Woken) \in Nat
           /\ v = "woken" /\ pc[p] # "woken"
                => Cardinality(Woken') = Cardinality(Woken) + 1
           /\ v # "woken" /\ pc[p] = "woken"
                => Cardinality(Woken') = Cardinality(Woken) - 1
           /\ v # "woken" /\ pc[p] # "woken" => Woken' = Woken
           /\ v # "waiting" => Waiting' = Waiting \ {p}
  <1>1. Woken \in SUBSET Popper /\ IsFiniteSet(Woken) /\ Cardinality(Woken) \in Nat
    BY WokenFinite DEF Woken
  <1>2. v = "woken" => Woken' = Woken \cup {p}
    BY DEF TypeOK, Woken
  <1>3. v # "woken" => Woken' = Woken \ {p}
    BY DEF TypeOK, Woken
  <1>4. (p \in Woken) <=> (pc[p] = "woken")
    BY DEF Woken
  <1>5. v # "waiting" => Waiting' = Waiting \ {p}
    BY DEF TypeOK, Waiting
  <1>6. Cardinality(Woken \cup {p}) = IF p \in Woken THEN Cardinality(Woken) ELSE Cardinality(Woken) + 1
    BY <1>1, FS_AddElement
  <1>7. Cardinality(Woken \ {p}) = IF p \in Woken THEN Cardinality(Woken) - 1 ELSE Cardinality(Woken)
    BY <1>1, FS_RemoveElement
  <1> QED
    BY <1>1, <1>2, <1>3, <1>4, <1>5, <1>6, <1>7

(* A step of the queue preserves the invariant. *)
LEMMA NextIInv == IInv /\ [Next]_vars => IInv'
  <1> SUFFICES ASSUME IInv, [Next]_vars PROVE IInv'
    OBVIOUS
  <1> USE NodeAssumption
  <1>1. ASSUME NEW n \in Node, NEW d \in Data, mq_push(n, d) PROVE IInv'
    <2>1. TypeOK' /\ ListOK' /\ NodeOwnedOnce'
      BY <1>1, PushKeepsList
    <2>2. NoLostWakeup'
      <3>0. Len(linked') = Len(linked) + 1 /\ Len(linked) \in Nat /\ closed' = closed
        BY <1>1 DEF mq_push, IInv, TypeOK
      <3>1. CASE Waiting = {}
        BY <1>1, <3>1 DEF mq_push, Signal, NoLostWakeup, Waiting
      <3>2. CASE Waiting # {}
        <4>1. PICK p \in Waiting : pc' = [pc EXCEPT ![p] = "woken"]
          BY <1>1, <3>2 DEF mq_push, Signal
        <4>2. p \in Popper /\ pc[p] = "waiting"
          BY DEF Waiting
        <4>3. Cardinality(Woken) \in Nat /\ Cardinality(Woken') = Cardinality(Woken) + 1
          BY <4>1, <4>2, WokenAfterStep DEF IInv, Place
        <4> QED
          BY <3>0, <3>2, <4>3 DEF IInv, NoLostWakeup
      <3> QED
        BY <3>1, <3>2
    <2> QED
      BY <2>1, <2>2 DEF IInv
  <1>2. ASSUME NEW n \in Node, NEW d \in Data, mq_push_refused(n, d) PROVE IInv'
    <2>1. TypeOK' /\ NodeOwnedOnce' /\ NoLostWakeup'
      BY <1>2 DEF mq_push_refused, IInv, TypeOK, NodeOwnedOnce, NoLostWakeup,
                  Waiting, Woken, LinkedNodes
    <2>2. \A i \in 1..Len(linked) : linked[i] # n /\ linked[i] \in Node
      BY <1>2 DEF mq_push_refused, Free, LinkedNodes, IInv, TypeOK
    <2>3. ListOK'
      BY <1>2, <2>2 DEF mq_push_refused, IInv, TypeOK, ListOK
    <2> QED
      BY <2>1, <2>3 DEF IInv
  <1>3. ASSUME NEW p \in Popper, pc[p] \in {"idle", "woken"}, Unlink(p) PROVE IInv'
    <2>1. TypeOK' /\ ListOK' /\ NodeOwnedOnce'
      BY <1>3, UnlinkKeepsList
    <2>2. Len(linked') = Len(linked) - 1 /\ Len(linked) \in Nat \ {0} /\ closed' = closed
      BY <1>3 DEF Unlink, IInv, TypeOK, ListOK
    <2>3. /\ Cardinality(Woken) \in Nat
          /\ pc[p] = "woken" => Cardinality(Woken') = Cardinality(Woken) - 1
          /\ pc[p] # "woken" => Woken' = Woken
          /\ Waiting' = Waiting \ {p}
      BY <1>3, WokenAfterStep DEF Unlink, IInv, Place
    <2>4. NoLostWakeup'
      BY <1>3, <2>2, <2>3 DEF IInv, NoLostWakeup
    <2> QED
      BY <2>1, <2>4 DEF IInv
  <1>4. ASSUME NEW p \in Popper, mq_pop(p), ~ Unlink(p) PROVE IInv'
    <2>0. /\ head = Null /\ pc[p] \in {"idle", "woken"}
          /\ pc' = [pc EXCEPT ![p] = IF closed THEN "done" ELSE "waiting"]
          /\ UNCHANGED <<head, tail, count, closed, next, data, held, linked>>
      BY <1>4 DEF mq_pop
    <2>1. TypeOK' /\ ListOK' /\ NodeOwnedOnce'
      BY <2>0 DEF IInv, TypeOK, ListOK, NodeOwnedOnce, LinkedNodes, Place
    <2>2. Len(linked') = 0
      BY <2>0 DEF IInv, ListOK
    <2>3. Cardinality(Woken') \in Nat
      BY WokenFinite DEF Woken
    <2>4. closed => Waiting' = Waiting \ {p}
      BY <2>0, WokenAfterStep DEF IInv, Place
    <2>5. NoLostWakeup'
      BY <2>0, <2>2, <2>3, <2>4 DEF IInv, NoLostWakeup
    <2> QED
      BY <2>1, <2>5 DEF IInv
  <1>5. ASSUME NEW p \in Popper, ReadAndFree(p) PROVE IInv'
    <2>1. TypeOK' /\ ListOK' /\ NodeOwnedOnce'
      BY <1>5 DEF ReadAndFree, IInv, TypeOK, ListOK, NodeOwnedOnce, LinkedNodes, Place
    <2>2. Waiting' = Waiting \ {p} /\ Woken' = Woken
      BY <1>5, WokenAfterStep DEF ReadAndFree, IInv, Place
    <2> QED
      BY <1>5, <2>1, <2>2 DEF ReadAndFree, IInv, NoLostWakeup
  <1>6. ASSUME NEW p \in Popper, SpuriousWakeup(p) PROVE IInv'
    <2>1. TypeOK' /\ ListOK' /\ NodeOwnedOnce'
      BY <1>6 DEF SpuriousWakeup, IInv, TypeOK, ListOK, NodeOwnedOnce, LinkedNodes, Place
    <2>2. /\ Waiting' = Waiting \ {p} /\ Waiting # {}
          /\ Cardinality(Woken') = Cardinality(Woken) + 1 /\ Cardinality(Woken) \in Nat
      BY <1>6, WokenAfterStep DEF SpuriousWakeup, IInv, Place, Waiting
    <2>3. Len(linked) \in Nat /\ linked' = linked /\ closed' = closed
      BY <1>6 DEF SpuriousWakeup, IInv, TypeOK
    <2> QED
      BY <2>1, <2>2, <2>3 DEF IInv, NoLostWakeup
  <1>7. CASE mq_close
    <2>1. TypeOK' /\ ListOK' /\ NodeOwnedOnce'
      BY <1>7 DEF mq_close, Broadcast, IInv, TypeOK, ListOK, NodeOwnedOnce, LinkedNodes, Place
    <2>2. Waiting' = {}
      BY <1>7 DEF mq_close, Broadcast, Waiting
    <2> QED
      BY <2>1, <2>2 DEF IInv, NoLostWakeup
  <1>8. CASE UNCHANGED vars
    BY <1>8 DEF vars, IInv, TypeOK, ListOK, NodeOwnedOnce, NoLostWakeup, Waiting, Woken, LinkedNodes
  <1> QED
    BY <1>1, <1>2, <1>3, <1>4, <1>5, <1>6, <1>7, <1>8
    DEF Next, PopperStep, mq_pop, mq_try_pop

(* The linked list, the ownership of nodes and the wake-up accounting of  *)
(* msgqueue.c hold in every reachable state.                              *)
THEOREM QueueSafety == Spec => [](TypeOK /\ ListOK /\ NodeOwnedOnce /\ NoLostWakeup)
  <1>1. IInv => TypeOK /\ ListOK /\ NodeOwnedOnce /\ NoLostWakeup
    BY DEF IInv
  <1> QED
    BY <1>1, InitIInv, NextIInv, PTL DEF Spec

(* Its part about the list: mq_push and the two pops keep head, tail and the *)
(* next pointers a chain of exactly the queued nodes.                        *)
THEOREM ListStaysChained == Spec => []ListOK
  BY QueueSafety, PTL

(* Its part about nodes: a node is in the list, in one popper's hand or free, *)
(* so no message is taken twice and no node freed while it is linked.         *)
THEOREM NoNodeShared == Spec => []NodeOwnedOnce
  BY QueueSafety, PTL

(* mq_init is an initial state of the abstract queue. *)
LEMMA InitRefines == mq_init => Abstract!AInit
  BY DEF mq_init, Abstract!AInit

(* A step of the linked list is a step of the abstract queue or a stutter. *)
LEMMA NextRefines == IInv /\ [Next]_vars => [Abstract!ANext]_(Abstract!avars)
  <1> SUFFICES ASSUME IInv, [Next]_vars PROVE [Abstract!ANext]_(Abstract!avars)
    OBVIOUS
  <1> DEFINE items == [i \in 1..Len(linked) |-> data[linked[i]]]
             hand == [p \in Popper |-> IF pc[p] = "got" THEN data[held[p]] ELSE NoData]
             finished == {p \in Popper : pc[p] = "done"}
  <1> USE NodeAssumption, DataAssumption
  <1>0. /\ linked \in Seq(Node) /\ Len(linked) \in Nat
        /\ \A i \in 1..Len(linked) : linked[i] \in Node /\ data[linked[i]] \in Data
        /\ items \in Seq(Data) /\ Len(items) = Len(linked)
        /\ (items = <<>>) <=> (linked = <<>>)
        /\ \A p \in Popper : pc[p] = "got" => held[p] \in Node /\ data[held[p]] \in Data
    <2>1. /\ linked \in Seq(Node) /\ Len(linked) \in Nat
          /\ \A i \in 1..Len(linked) : linked[i] \in Node /\ data[linked[i]] \in Data
      BY DEF IInv, TypeOK
    <2>2. \A p \in Popper : pc[p] = "got" => held[p] \in Node /\ data[held[p]] \in Data
      BY DEF IInv, TypeOK, NodeOwnedOnce
    <2>3. items \in Seq(Data) /\ Len(items) = Len(linked)
      BY <2>1
    <2> QED
      BY <2>1, <2>2, <2>3
  <1>1. ASSUME NEW n \in Node, NEW d \in Data, mq_push(n, d)
        PROVE  Abstract!APush(d)
    <2>1. \A i \in 1..Len(linked) : linked[i] # n
      BY <1>1, <1>0 DEF mq_push, Free, LinkedNodes
    <2>2. items' = Append(items, d)
      <3>1. /\ linked' = Append(linked, n) /\ Len(linked') = Len(linked) + 1
            /\ \A i \in 1..Len(linked) : linked'[i] = linked[i]
            /\ linked'[Len(linked) + 1] = n
        BY <1>0, <1>1 DEF mq_push
      <3>2. /\ \A i \in 1..Len(linked) : data'[linked[i]] = data[linked[i]]
            /\ data'[n] = d
        BY <1>0, <1>1, <2>1 DEF mq_push, IInv, TypeOK
      <3>3. Append(items, d) = [i \in 1..(Len(items) + 1) |->
                                  IF i = Len(items) + 1 THEN d ELSE items[i]]
        BY <1>0
      <3> QED
        BY <1>0, <3>1, <3>2, <3>3
    <2>3. \A p \in Popper : (pc'[p] = "got" <=> pc[p] = "got") /\ (pc'[p] = "done" <=> pc[p] = "done")
      BY <1>1 DEF mq_push, Signal, IInv, TypeOK, Waiting
    <2>4. hand' = hand /\ finished' = finished
      BY <1>0, <1>1, <2>3 DEF mq_push, Free, IInv, TypeOK
    <2> QED
      BY <1>1, <2>2, <2>4 DEF mq_push, Abstract!APush
  <1>2. ASSUME NEW n \in Node, NEW d \in Data, mq_push_refused(n, d)
        PROVE  UNCHANGED Abstract!avars
    <2>1. \A i \in 1..Len(linked) : linked[i] # n
      BY <1>2, <1>0 DEF mq_push_refused, Free, LinkedNodes
    <2>2. items' = items
      BY <1>0, <1>2, <2>1 DEF mq_push_refused, IInv, TypeOK
    <2>3. hand' = hand /\ finished' = finished
      BY <1>0, <1>2 DEF mq_push_refused, Free, IInv, TypeOK
    <2> QED
      BY <1>2, <2>2, <2>3 DEF mq_push_refused, Abstract!avars
  <1>3. ASSUME NEW p \in Popper, pc[p] \in {"idle", "woken"}, Unlink(p)
        PROVE  Abstract!ATake(p)
    <2>1. /\ linked # <<>> /\ linked' = Tail(linked) /\ head = linked[1]
          /\ Len(linked') = Len(linked) - 1
          /\ \A i \in 1..Len(linked') : linked'[i] = linked[i + 1]
      BY <1>0, <1>3 DEF Unlink, IInv, ListOK
    <2>2. items' = Tail(items)
      <3>1. Tail(items) = [i \in 1..(Len(items) - 1) |-> items[i + 1]]
        BY <1>0, <2>1
      <3>2. data' = data
        BY <1>3 DEF Unlink
      <3> QED
        BY <1>0, <2>1, <3>1, <3>2
    <2>3. Head(items) = data[head]
      BY <1>0, <2>1
    <2>4. hand' = [hand EXCEPT ![p] = Head(items)]
      BY <1>0, <1>3, <2>3 DEF Unlink, IInv, TypeOK
    <2>5. finished' = finished /\ p \notin finished /\ hand[p] = NoData /\ items # <<>>
      BY <1>0, <1>3, <2>1 DEF Unlink, IInv, TypeOK
    <2> QED
      BY <1>3, <2>2, <2>4, <2>5 DEF Unlink, Abstract!ATake
  <1>4. ASSUME NEW p \in Popper, mq_pop(p), ~ Unlink(p)
        PROVE  Abstract!AFinish(p) \/ UNCHANGED Abstract!avars
    <2>0. /\ head = Null /\ pc[p] \in {"idle", "woken"}
          /\ pc' = [pc EXCEPT ![p] = IF closed THEN "done" ELSE "waiting"]
          /\ UNCHANGED <<head, tail, count, closed, next, data, held, linked>>
      BY <1>4 DEF mq_pop
    <2>1. items = <<>> /\ items' = items /\ hand' = hand /\ hand[p] = NoData
      BY <1>0, <2>0 DEF IInv, TypeOK, ListOK
    <2>2. CASE closed
      <3>1. finished' = finished \cup {p}
        BY <2>0, <2>2 DEF IInv, TypeOK
      <3> QED
        BY <2>0, <2>1, <2>2, <3>1 DEF Abstract!AFinish
    <2>3. CASE ~closed
      <3>1. finished' = finished
        BY <2>0, <2>3 DEF IInv, TypeOK
      <3> QED
        BY <2>0, <2>1, <3>1 DEF Abstract!avars
    <2> QED
      BY <2>2, <2>3
  <1>5. ASSUME NEW p \in Popper, ReadAndFree(p) PROVE Abstract!ARelease(p)
    <2>1. items' = items /\ finished' = finished /\ hand[p] # NoData
      BY <1>0, <1>5 DEF ReadAndFree, IInv, TypeOK
    <2>2. hand' = [hand EXCEPT ![p] = NoData]
      BY <1>5 DEF ReadAndFree, IInv, TypeOK
    <2> QED
      BY <1>5, <2>1, <2>2 DEF ReadAndFree, Abstract!ARelease
  <1>6. ASSUME NEW p \in Popper, SpuriousWakeup(p) PROVE UNCHANGED Abstract!avars
    <2>1. items' = items /\ finished' = finished /\ hand' = hand
      BY <1>6 DEF SpuriousWakeup, IInv, TypeOK
    <2> QED
      BY <1>6, <2>1 DEF SpuriousWakeup, Abstract!avars
  <1>7. CASE mq_close
    <2>1. items' = items /\ finished' = finished /\ hand' = hand
      BY <1>7 DEF mq_close, Broadcast, IInv, TypeOK
    <2> QED
      BY <1>7, <2>1 DEF mq_close, Abstract!AClose, Abstract!ANext
  <1>8. CASE UNCHANGED vars
    <2>1. items' = items /\ finished' = finished /\ hand' = hand /\ closed' = closed
      BY <1>8 DEF vars
    <2> QED
      BY <2>1 DEF Abstract!avars
  <1> QED
    BY <1>1, <1>2, <1>3, <1>4, <1>5, <1>6, <1>7, <1>8
    DEF Next, PopperStep, mq_pop, mq_try_pop, Abstract!ANext

(* The linked list under its mutex and condition variable implements the *)
(* closable FIFO that main, the display thread and the workers rely on.  *)
THEOREM QueueRefines == Spec => ImplementsClosableQueue
  <1>1. Spec => []IInv
    BY InitIInv, NextIInv, PTL DEF Spec
  <1> QED
    BY <1>1, InitRefines, NextRefines, PTL DEF Spec, ImplementsClosableQueue, Abstract!ASpec
==============================================================================
