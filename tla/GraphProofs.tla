------------------------------ MODULE GraphProofs ------------------------------
(***************************************************************************)
(* Proofs about the graph and its traversals, for every state file: that   *)
(* the graph has the edges the file records, that a sort is an order of    *)
(* all nodes that no edge goes against, that it fails on a cycle and on    *)
(* nothing else, that the blast radius has the distances, that a query is  *)
(* faithful, and that the commands together are each what it is alone.     *)
(***************************************************************************)
EXTENDS Traversals, SequenceTheorems, Counting

-----------------------------------------------------------------------------
(* The blast radius, hop by hop: whatever the graph, a finished traversal has its *)
(* nodes in layers, which is what determines the distances.                       *)

\* The items the traversal has accounted for, the origin among them.
Reached == affected \cup {[node |-> origin, depth |-> 0]}

\* What makes the distances right, one hop at a time: no node is listed twice,
\* each is one hop from one that is one closer, and an edge out of a listed
\* node leads to one at most a hop further, up to the limit.
RadiusIsLayered ==
    radius = "done" =>
        /\ \A i, j \in Reached : i.node = j.node => i = j
        /\ \A i \in affected :
              /\ i.depth \in 1..Limit
              /\ \E j \in Reached : /\ j.depth + 1 = i.depth
                                    /\ <<j.node, i.node>> \in graph.edges
        /\ \A j \in Reached : j.depth < Limit =>
              \A t \in Dependents(j.node) :
                  \E i \in Reached : i.node = t /\ i.depth <= j.depth + 1

\* Items that are in the result or on the queue.
Waiting == {queue[p] : p \in 1..Len(queue)}

Known == Reached \cup Waiting

\* No node is known twice.
Once ==
    /\ \A i, j \in Reached : i.node = j.node => i = j
    /\ \A p, q \in 1..Len(queue) : queue[p].node = queue[q].node => p = q
    /\ \A i \in Reached : \A p \in 1..Len(queue) : i.node # queue[p].node
    /\ \A i \in Known : i.node \in visited

\* Each is one hop from something reached that is one closer.
HasParent(i) ==
    \E j \in Reached : /\ j.depth + 1 = i.depth
                       /\ <<j.node, i.node>> \in graph.edges

Grounded ==
    /\ \A i \in affected : i.depth \in 1..Limit /\ HasParent(i)
    /\ \A p \in 1..Len(queue) : HasParent(queue[p])

\* Nothing reached is deeper than the item in hand, and the queue holds its
\* depth and then the next one.
Ordered ==
    /\ \A j \in Reached : j.depth <= item.depth
    /\ \A p \in 1..Len(queue) : queue[p].depth \in item.depth..(item.depth + 1)
    /\ \A p, q \in 1..Len(queue) : p < q => queue[p].depth <= queue[q].depth

\* What a reached node leads to is known, at most one hop further, unless it is
\* among the edges still to be looked at.
Covered(j, t) == \E i \in Known : i.node = t /\ i.depth <= j.depth + 1

Closed ==
    \A j \in Reached : j.depth < Limit =>
        \A t \in Dependents(j.node) :
            Covered(j, t) \/ (j = item /\ t \in todo)

\* While the item in hand is within the limit nothing has been dropped.
Undropped ==
    item.depth <= Limit =>
        \A n \in visited : \E i \in Known : i.node = n

InHand ==
    /\ todo \subseteq Dependents(item.node)
    /\ todo # {} => item \in Reached /\ item.depth <= Limit

RadiusInv ==
    /\ RadiusTypeOK
    /\ radius = "idle" => queue = <<>> /\ affected = {} /\ todo = {}
    /\ radius = "done" => queue = <<>> /\ todo = {}
    /\ radius # "idle" =>
          Once /\ Grounded /\ Ordered /\ Closed /\ Undropped /\ InHand

-----------------------------------------------------------------------------

LEMMA LimitType ==
  ASSUME RadiusTypeOK
  PROVE  Limit \in Nat /\ Limit >= 1
  BY MaxDepthAssumption DEF RadiusTypeOK, Limit

LEMMA RadiusInvInit == RadiusInit => RadiusInv
  <1> SUFFICES ASSUME RadiusInit PROVE RadiusInv
    OBVIOUS
  <1>1. <<>> \in Seq(Item)
    BY EmptySeq
  <1>2. QED
    BY <1>1 DEF RadiusInit, RadiusInv, RadiusTypeOK, Load

LEMMA RadiusInvAsk ==
  ASSUME RadiusInv, NEW n \in graph.nodes, NEW d \in MaxDepths, AskRadius(n, d)
  PROVE  RadiusInv'
  <1>1. /\ radius = "idle" /\ queue = <<>> /\ affected = {}
        /\ queue' = <<>> /\ affected' = {} /\ graph' = graph /\ file' = file
        /\ origin' = n /\ maxDepth' = d /\ visited' = {n}
        /\ item' = [node |-> n, depth |-> 0] /\ todo' = Dependents(n)
        /\ radius' = "running"
    BY DEF RadiusInv, AskRadius, loaded
  <1>2. RadiusTypeOK'
    BY <1>1 DEF RadiusInv, RadiusTypeOK, Item, Dependents
  <1>3. /\ Reached' = {[node |-> n, depth |-> 0]}
        /\ Len(queue') = 0
        /\ Waiting' = {}
    BY <1>1 DEF Reached, Waiting
  <1>4. Once' /\ Grounded' /\ Ordered'
    BY <1>1, <1>3 DEF Once, Grounded, Ordered, Known
  <1>5. Closed'
    BY <1>1, <1>3 DEF Closed, Dependents
  <1>6. Undropped'
    BY <1>1, <1>3 DEF Undropped, Known
  <1>7. InHand'
    <2>1. Limit' \in Nat
      BY <1>2, MaxDepthAssumption DEF RadiusTypeOK, Limit
    <2>2. QED
      BY <1>1, <1>3, <2>1, <1>2 DEF InHand, Dependents, Limit
  <1>8. QED
    BY <1>1, <1>2, <1>4, <1>5, <1>6, <1>7 DEF RadiusInv

LEMMA RadiusInvLookAt ==
  ASSUME RadiusInv, NEW t \in todo, LookAt(t)
  PROVE  RadiusInv'
  <1> DEFINE new == [node |-> t, depth |-> item.depth + 1]
  <1>1. /\ radius = "running" /\ radius' = "running"
        /\ graph' = graph /\ file' = file /\ origin' = origin /\ maxDepth' = maxDepth
        /\ affected' = affected /\ item' = item /\ todo' = todo \ {t}
        /\ Limit' = Limit /\ Reached' = Reached
    BY DEF LookAt, loaded, Limit, Reached
  <1>2. /\ RadiusTypeOK /\ Once /\ Grounded /\ Ordered /\ Closed /\ Undropped /\ InHand
    BY <1>1 DEF RadiusInv
  <1>3. /\ item \in Item /\ item \in Reached /\ item.depth \in Nat
        /\ item.depth <= Limit /\ Limit \in Nat
        /\ t \in graph.nodes /\ <<item.node, t>> \in graph.edges
        /\ queue \in Seq(Item) /\ Len(queue) \in Nat
    BY <1>1, <1>2, LimitType, LenProperties DEF RadiusTypeOK, Item, InHand, Dependents
  <1>3a. \A i \in Known : i.depth \in Nat /\ i.depth <= item.depth + 1
    <2>1. \A i \in Reached : i.depth \in Nat
      BY <1>1, <1>2 DEF RadiusTypeOK, Reached, Item
    <2>2. QED
      BY <1>2, <1>3, <2>1 DEF Known, Waiting, Ordered
  <1>4. CASE t \in visited
    <2>1. queue' = queue /\ visited' = visited /\ Known' = Known
      BY <1>1, <1>4 DEF LookAt, Known, Waiting
    <2>2. RadiusTypeOK'
      BY <1>1, <1>2, <2>1 DEF RadiusTypeOK, Item
    <2>3. Once' /\ Grounded' /\ Ordered' /\ Undropped' /\ InHand'
      BY <1>1, <1>2, <2>1
      DEF Once, Grounded, HasParent, Ordered, Undropped, InHand, Dependents
    <2>4. Covered(item, t)
      BY <1>2, <1>3, <1>3a, <1>4 DEF Undropped, Covered
    <2>5. Closed'
      BY <1>1, <1>2, <2>1, <2>4 DEF Closed, Covered, Dependents
    <2>6. QED
      BY <1>1, <2>2, <2>3, <2>5 DEF RadiusInv
  <1>5. CASE t \notin visited
    <2>1. queue' = Append(queue, new) /\ visited' = visited \cup {t}
      BY <1>1, <1>5 DEF LookAt
    <2>2. /\ new \in Item /\ new.node = t /\ new.depth = item.depth + 1
      BY <1>3 DEF Item
    <2>3. /\ queue' \in Seq(Item)
          /\ Len(queue') = Len(queue) + 1
          /\ \A p \in 1..Len(queue) : queue'[p] = queue[p]
          /\ queue'[Len(queue) + 1] = new
      BY <1>3, <2>1, <2>2, AppendProperties
    <2> HIDE DEF new
    <2>3a. Len(queue) \in Nat /\ Len(queue') = Len(queue) + 1
      BY <1>3, <2>3
    <2>3b. \A p \in 1..Len(queue') : p \in 1..Len(queue) \/ p = Len(queue) + 1
      BY <2>3a
    <2>4. \A p \in 1..Len(queue') :
             p \in 1..Len(queue) \/ (p = Len(queue) + 1 /\ queue'[p] = new)
      BY <2>3, <2>3b
    <2>5. Waiting' = Waiting \cup {new}
      <3>1. \A p \in 1..Len(queue) : p \in 1..Len(queue')
        BY <2>3a
      <3>2. Len(queue) + 1 \in 1..Len(queue')
        BY <2>3a
      <3>3. Waiting' \subseteq Waiting \cup {new}
        BY <2>3, <2>4 DEF Waiting
      <3>4. Waiting \subseteq Waiting'
        BY <2>3, <3>1 DEF Waiting
      <3>5. new \in Waiting'
        BY <2>3, <3>2 DEF Waiting
      <3>6. QED
        BY <3>3, <3>4, <3>5
    <2>6. Known' = Known \cup {new}
      BY <1>1, <2>5 DEF Known
    <2>7. \A i \in Known : i.node # t
      BY <1>2, <1>5 DEF Once
    <2>8. RadiusTypeOK'
      BY <1>1, <1>2, <1>3, <2>1, <2>3 DEF RadiusTypeOK, Item
    <2>9. Once'
      <3>1. \A p \in 1..Len(queue) : queue[p].node # t
        BY <2>7 DEF Known, Waiting
      <3>2. \A i \in Reached : i.node # t
        BY <2>7 DEF Known
      <3>3. \A p, q \in 1..Len(queue') : queue'[p].node = queue'[q].node => p = q
        BY <1>2, <2>2, <2>3, <2>4, <3>1 DEF Once
      <3>4. \A i \in Reached : \A p \in 1..Len(queue') : i.node # queue'[p].node
        BY <1>2, <2>2, <2>3, <2>4, <3>2 DEF Once
      <3>5. \A i \in Known' : i.node \in visited'
        BY <1>2, <2>1, <2>2, <2>6 DEF Once
      <3>6. QED
        BY <1>1, <1>2, <3>3, <3>4, <3>5 DEF Once
    <2>10. Grounded'
      <3>1. \A i : HasParent(i)' <=> HasParent(i)
        BY <1>1 DEF HasParent
      <3>2. HasParent(new)
        BY <1>3, <2>2 DEF HasParent
      <3>3. \A p \in 1..Len(queue') : HasParent(queue'[p])
        BY <1>2, <2>3, <2>4, <3>2 DEF Grounded
      <3>4. QED
        BY <1>1, <1>2, <3>1, <3>3 DEF Grounded, HasParent
    <2>11. Ordered'
      <3>1. \A p \in 1..Len(queue) : queue[p].depth \in item.depth..(item.depth + 1)
        BY <1>2 DEF Ordered
      <3>2. \A p \in 1..Len(queue') : queue'[p].depth \in item.depth..(item.depth + 1)
        <4>1. new.depth \in item.depth..(item.depth + 1)
          BY <1>3, <2>2
        <4>2. QED
          BY <2>3, <2>4, <3>1, <4>1
      <3>3. \A p, q \in 1..Len(queue') : p < q => queue'[p].depth <= queue'[q].depth
        <4> SUFFICES ASSUME NEW p \in 1..Len(queue'), NEW q \in 1..Len(queue'), p < q
                     PROVE  queue'[p].depth <= queue'[q].depth
          OBVIOUS
        <4>1. p \in 1..Len(queue)
          BY <2>3a
        <4>2. CASE q \in 1..Len(queue)
          BY <1>2, <2>3, <4>1, <4>2 DEF Ordered
        <4>3. CASE queue'[q] = new
          BY <1>3, <2>2, <2>3, <3>1, <4>1, <4>3
        <4>4. QED
          BY <2>4, <4>2, <4>3
      <3>4. QED
        BY <1>1, <1>2, <3>2, <3>3 DEF Ordered
    <2>12. Covered(item, t)'
      BY <1>1, <1>3, <2>2, <2>6 DEF Covered
    <2>13. Closed'
      BY <1>1, <1>2, <2>6, <2>12 DEF Closed, Covered, Dependents
    <2>14. Undropped'
      BY <1>1, <1>2, <2>1, <2>2, <2>6 DEF Undropped
    <2>15. InHand'
      BY <1>1, <1>2 DEF InHand, Dependents
    <2>16. QED
      BY <1>1, <2>8, <2>9, <2>10, <2>11, <2>13, <2>14, <2>15 DEF RadiusInv
  <1>6. QED
    BY <1>4, <1>5

LEMMA RadiusInvTake ==
  ASSUME RadiusInv, Take
  PROVE  RadiusInv'
  <1> DEFINE head == Head(queue)
  <1>1. /\ radius = "running" /\ radius' = "running"
        /\ graph' = graph /\ file' = file /\ origin' = origin /\ maxDepth' = maxDepth
        /\ visited' = visited /\ item' = head /\ todo = {} /\ queue # <<>>
        /\ queue' = Tail(queue) /\ Limit' = Limit
    BY DEF Take, loaded, Limit
  <1>2. /\ RadiusTypeOK /\ Once /\ Grounded /\ Ordered /\ Closed /\ Undropped
    BY <1>1 DEF RadiusInv
  <1>3. /\ queue \in Seq(Item) /\ item \in Item /\ origin \in graph.nodes
        /\ affected \in SUBSET Item
    BY <1>1, <1>2 DEF RadiusTypeOK
  <1>4. /\ head \in Item /\ queue' \in Seq(Item)
        /\ Len(queue) \in Nat /\ Len(queue) >= 1 /\ Len(queue') = Len(queue) - 1
        /\ \A p \in 1..Len(queue') : queue'[p] = queue[p + 1]
        /\ head = queue[1]
    BY <1>1, <1>3, HeadTailProperties, EmptySeq, LenProperties
  <1>5. /\ head.depth \in Nat /\ head.node \in graph.nodes /\ item.depth \in Nat
        /\ Limit \in Nat /\ Limit >= 1
        /\ \A i \in Reached : i.depth \in Nat
    BY <1>2, <1>3, <1>4, LimitType DEF Item, Reached
  <1> HIDE DEF head
  <1>6. /\ \A p \in 1..Len(queue') : p + 1 \in 1..Len(queue) /\ p + 1 # 1
        /\ 1 \in 1..Len(queue)
    BY <1>4
  <1>7. /\ head \in Waiting
        /\ Waiting = Waiting' \cup {head}
    <2>1. \A p \in 1..Len(queue) : p # 1 => p - 1 \in 1..Len(queue') /\ (p - 1) + 1 = p
      BY <1>4
    <2>2. \A p \in 1..Len(queue) : p # 1 => queue[p] \in Waiting'
      <3> SUFFICES ASSUME NEW p \in 1..Len(queue), p # 1 PROVE queue[p] \in Waiting'
        OBVIOUS
      <3>1. p - 1 \in 1..Len(queue') /\ queue'[p - 1] = queue[p]
        BY <1>4, <2>1
      <3>2. QED
        BY <3>1 DEF Waiting
    <2>3. \A p \in 1..Len(queue') : queue'[p] \in Waiting
      <3> SUFFICES ASSUME NEW p \in 1..Len(queue') PROVE queue'[p] \in Waiting
        OBVIOUS
      <3>1. p + 1 \in 1..Len(queue) /\ queue'[p] = queue[p + 1]
        BY <1>4, <1>6
      <3>2. QED
        BY <3>1 DEF Waiting
    <2>4. head \in Waiting
      BY <1>4, <1>6 DEF Waiting
    <2>5. Waiting' \subseteq Waiting
      BY <2>3 DEF Waiting
    <2>6. Waiting \subseteq Waiting' \cup {head}
      BY <1>4, <2>2 DEF Waiting
    <2>7. QED
      BY <2>4, <2>5, <2>6
  <1>8. HasParent(head)
    BY <1>2, <1>4, <1>6 DEF Grounded
  <1>9. /\ head.depth \in item.depth..(item.depth + 1)
        /\ \A p \in 1..Len(queue') : queue'[p].depth \in head.depth..(head.depth + 1)
        /\ \A p, q \in 1..Len(queue') : p < q => queue'[p].depth <= queue'[q].depth
    <2>1. \A p \in 1..Len(queue) : queue[p].depth \in item.depth..(item.depth + 1)
      BY <1>2 DEF Ordered
    <2>2. \A p \in 1..Len(queue') : queue'[p].depth \in head.depth..(head.depth + 1)
      <3> SUFFICES ASSUME NEW p \in 1..Len(queue')
                   PROVE  queue'[p].depth \in head.depth..(head.depth + 1)
        OBVIOUS
      <3>1. /\ p + 1 \in 1..Len(queue) /\ 1 < p + 1
        BY <1>4
      <3>2. head.depth <= queue[p + 1].depth
        BY <1>2, <1>4, <1>6, <3>1 DEF Ordered
      <3>3. /\ queue[p + 1].depth \in item.depth..(item.depth + 1)
            /\ head.depth \in item.depth..(item.depth + 1)
            /\ queue'[p] = queue[p + 1]
        BY <1>4, <1>6, <2>1, <3>1
      <3>4. queue[p + 1].depth \in head.depth..(head.depth + 1)
        BY <1>5, <3>2, <3>3
      <3>5. QED
        BY <3>3, <3>4
    <2>3. \A p, q \in 1..Len(queue') : p < q => queue'[p].depth <= queue'[q].depth
      <3> SUFFICES ASSUME NEW p \in 1..Len(queue'), NEW q \in 1..Len(queue'), p < q
                   PROVE  queue'[p].depth <= queue'[q].depth
        OBVIOUS
      <3>1. p + 1 < q + 1
        BY <1>4
      <3>2. QED
        BY <1>2, <1>4, <1>6, <3>1 DEF Ordered
    <2>4. QED
      BY <1>4, <1>6, <2>1, <2>2, <2>3
  <1>10. \A j \in Reached : j.depth <= head.depth
    BY <1>2, <1>5, <1>9 DEF Ordered
  <1>11. CASE head.depth > Limit
    <2>1. affected' = affected /\ todo' = {} /\ Reached' = Reached
      BY <1>1, <1>11 DEF Take, Reached, head
    <2>2. RadiusTypeOK'
      BY <1>1, <1>2, <1>4, <2>1 DEF RadiusTypeOK, Item
    <2>3. Known' \subseteq Known /\ Known = Known' \cup {head}
      BY <1>7, <2>1 DEF Known
    <2>4. Once'
      BY <1>1, <1>2, <1>4, <1>6, <2>1, <2>3 DEF Once
    <2>5. Grounded'
      <3>1. \A i : HasParent(i)' <=> HasParent(i)
        BY <1>1, <2>1 DEF HasParent
      <3>2. \A p \in 1..Len(queue') : HasParent(queue'[p])
        BY <1>2, <1>4, <1>6 DEF Grounded
      <3>3. QED
        BY <1>1, <1>2, <2>1, <3>1, <3>2 DEF Grounded, HasParent
    <2>6. Ordered'
      BY <1>1, <1>9, <1>10, <2>1 DEF Ordered
    <2>7. Closed'
      <3> SUFFICES ASSUME NEW j \in Reached, j.depth < Limit, NEW t \in Dependents(j.node)
                   PROVE  \E i \in Known' : i.node = t /\ i.depth <= j.depth + 1
        BY <1>1, <2>1 DEF Closed, Covered, Dependents
      <3>1. PICK i \in Known : i.node = t /\ i.depth <= j.depth + 1
        BY <1>1, <1>2 DEF Closed, Covered
      <3>2. i # head
        BY <1>5, <1>11, <3>1
      <3>3. QED
        BY <2>3, <3>1, <3>2
    <2>8. Undropped'
      BY <1>1, <1>5, <1>11 DEF Undropped
    <2>9. InHand'
      BY <2>1 DEF InHand
    <2>10. QED
      BY <1>1, <2>2, <2>4, <2>5, <2>6, <2>7, <2>8, <2>9 DEF RadiusInv
  <1>12. CASE head.depth <= Limit
    <2>1. /\ affected' = affected \cup {head} /\ todo' = Dependents(head.node)
          /\ Reached' = Reached \cup {head}
      BY <1>1, <1>5, <1>12 DEF Take, Reached, head
    <2>2. RadiusTypeOK'
      BY <1>1, <1>2, <1>3, <1>4, <2>1 DEF RadiusTypeOK, Item, Dependents
    <2>3. Known' = Known
      BY <1>7, <2>1 DEF Known
    <2>4. Once'
      <3>1. \A i \in Reached : i.node # head.node
        BY <1>2, <1>4, <1>6 DEF Once
      <3>2. \A p \in 1..Len(queue') : queue'[p].node # head.node
        BY <1>2, <1>4, <1>6 DEF Once
      <3>3. \A p, q \in 1..Len(queue') : queue'[p].node = queue'[q].node => p = q
        <4> SUFFICES ASSUME NEW p \in 1..Len(queue'), NEW q \in 1..Len(queue'),
                            queue'[p].node = queue'[q].node
                     PROVE  p = q
          OBVIOUS
        <4>0. /\ queue[p + 1].node = queue[q + 1].node
              /\ p + 1 \in 1..Len(queue) /\ q + 1 \in 1..Len(queue)
          BY <1>4, <1>6
        <4>1. p + 1 = q + 1
          BY <1>2, <4>0 DEF Once
        <4>2. p \in Int /\ q \in Int
          BY <1>4
        <4>3. QED
          BY <4>1, <4>2
      <3>4. \A i \in Reached : \A p \in 1..Len(queue') : i.node # queue'[p].node
        BY <1>2, <1>4, <1>6 DEF Once
      <3>5. QED
        BY <1>1, <1>2, <2>1, <2>3, <3>1, <3>2, <3>3, <3>4 DEF Once
    <2>5. Grounded'
      <3>1. \A i : HasParent(i) => HasParent(i)'
        BY <1>1, <2>1 DEF HasParent
      <3>2. \A p \in 1..Len(queue') : HasParent(queue'[p])
        BY <1>2, <1>4, <1>6 DEF Grounded
      <3>3. head.depth \in 1..Limit
        <4>1. PICK j \in Reached : j.depth + 1 = head.depth
          BY <1>8 DEF HasParent
        <4>2. QED
          BY <1>5, <1>12, <4>1
      <3>4. QED
        BY <1>1, <1>2, <1>8, <2>1, <3>1, <3>2, <3>3 DEF Grounded, HasParent
    <2>6. Ordered'
      BY <1>1, <1>5, <1>9, <1>10, <2>1 DEF Ordered
    <2>7. Closed'
      <3> SUFFICES ASSUME NEW j \in Reached \cup {head}, j.depth < Limit,
                          NEW t \in Dependents(j.node)
                   PROVE  \/ \E i \in Known : i.node = t /\ i.depth <= j.depth + 1
                          \/ j = head /\ t \in Dependents(head.node)
        BY <1>1, <2>1, <2>3 DEF Closed, Covered, Dependents
      <3>1. QED
        BY <1>1, <1>2 DEF Closed, Covered
    <2>8. Undropped'
      <3>1. item.depth <= Limit
        BY <1>5, <1>9, <1>12
      <3>2. QED
        BY <1>1, <1>2, <2>3, <3>1 DEF Undropped
    <2>9. InHand'
      BY <1>1, <1>12, <2>1 DEF InHand, Dependents
    <2>10. QED
      BY <1>1, <2>2, <2>4, <2>5, <2>6, <2>7, <2>8, <2>9 DEF RadiusInv
  <1>13. QED
    BY <1>5, <1>11, <1>12

\* A step that leaves the search as it was. A call that is done has nothing
\* left to take or to look at.
LEMMA RadiusInvUndisturbed ==
  ASSUME RadiusInv, UNCHANGED <<loaded, origin, maxDepth, search>>,
         radius # "idle", radius' \in {"running", "done", "cancelled"},
         radius' = "done" => queue = <<>> /\ todo = {}
  PROVE  RadiusInv'
  <1>1. /\ file' = file /\ graph' = graph /\ origin' = origin /\ maxDepth' = maxDepth
        /\ queue' = queue /\ visited' = visited /\ affected' = affected
        /\ item' = item /\ todo' = todo
    BY DEF loaded, search
  <1>2. /\ Reached' = Reached /\ Known' = Known /\ Limit' = Limit
        /\ \A n : Dependents(n)' = Dependents(n)
        /\ \A i : HasParent(i)' <=> HasParent(i)
    BY <1>1 DEF Reached, Known, Waiting, Limit, Dependents, HasParent
  <1>3. RadiusTypeOK'
    BY <1>1 DEF RadiusInv, RadiusTypeOK, Item
  <1>4. Once' /\ Ordered' /\ Undropped'
    BY <1>1, <1>2 DEF RadiusInv, Once, Ordered, Undropped
  <1>5. Grounded'
    BY <1>1, <1>2 DEF RadiusInv, Grounded, HasParent
  <1>6. Closed' /\ InHand'
    BY <1>1, <1>2 DEF RadiusInv, Closed, Covered, InHand, Dependents
  <1>7. QED
    BY <1>1, <1>3, <1>4, <1>5, <1>6 DEF RadiusInv

LEMMA RadiusInvStutters ==
  ASSUME RadiusInv, UNCHANGED radiusVars
  PROVE  RadiusInv'
  <1>1. UNCHANGED <<loaded, origin, maxDepth, search>> /\ radius' = radius
    BY DEF radiusVars
  <1>2. CASE radius = "idle"
    BY <1>1, <1>2 DEF RadiusInv, RadiusTypeOK, Item, loaded, search
  <1>3. CASE radius # "idle"
    <2>1. /\ radius' \in {"running", "done", "cancelled"}
          /\ radius' = "done" => queue = <<>> /\ todo = {}
      BY <1>1, <1>3 DEF RadiusInv, RadiusTypeOK
    <2>2. QED
      BY <1>1, <1>3, <2>1, RadiusInvUndisturbed
  <1>4. QED
    BY <1>2, <1>3

\* The traversal keeps its invariant.
THEOREM RadiusInvariant == RadiusSpec => []RadiusInv
  <1>1. RadiusInit => RadiusInv
    BY RadiusInvInit
  <1>2. RadiusInv /\ [RadiusNext]_radiusVars => RadiusInv'
    <2> SUFFICES ASSUME RadiusInv, [RadiusNext]_radiusVars PROVE RadiusInv'
      OBVIOUS
    <2>1. ASSUME NEW n \in graph.nodes, NEW d \in MaxDepths, AskRadius(n, d)
          PROVE  RadiusInv'
      BY <2>1, RadiusInvAsk
    <2>2. ASSUME NEW t \in todo, LookAt(t) PROVE RadiusInv'
      BY <2>2, RadiusInvLookAt
    <2>3. CASE Take
      BY <2>3, RadiusInvTake
    <2>4. CASE FinishRadius
      BY <2>4, RadiusInvUndisturbed DEF FinishRadius
    <2>5. CASE Cancel
      BY <2>5, RadiusInvUndisturbed DEF Cancel
    <2>6. CASE UNCHANGED radiusVars
      BY <2>6, RadiusInvStutters
    <2>7. QED
      BY <2>1, <2>2, <2>3, <2>4, <2>5, <2>6 DEF RadiusNext, RadiusProceeds
  <1>3. QED
    BY <1>1, <1>2, PTL DEF RadiusSpec

\* The call's locals have their types whatever the state file and the flags.
THEOREM RadiusTypeCorrect == RadiusSpec => []RadiusTypeOK
  <1>1. RadiusInv => RadiusTypeOK
    BY DEF RadiusInv
  <1>2. QED
    BY <1>1, RadiusInvariant, PTL

\* The affected nodes are in layers: each listed once, one hop beyond the layer
\* before it, and none missing within the limit.
LEMMA RadiusLayered == RadiusSpec => []RadiusIsLayered
  <1>1. RadiusInv => RadiusIsLayered
    <2> SUFFICES ASSUME RadiusInv, radius = "done"
                 PROVE  /\ \A i, j \in Reached : i.node = j.node => i = j
                        /\ \A i \in affected : i.depth \in 1..Limit /\ HasParent(i)
                        /\ \A j \in Reached : j.depth < Limit =>
                              \A t \in Dependents(j.node) :
                                  \E i \in Reached : i.node = t /\ i.depth <= j.depth + 1
      BY DEF RadiusIsLayered, HasParent
    <2>1. queue = <<>> /\ todo = {} /\ Once /\ Grounded /\ Closed
      BY DEF RadiusInv
    <2>2. Known = Reached
      BY <2>1 DEF Known, Waiting
    <2>3. QED
      BY <2>1, <2>2 DEF Once, Grounded, Closed, Covered
  <1>2. QED
    BY <1>1, RadiusInvariant, PTL

-----------------------------------------------------------------------------
(* The graph *)

LEMMA GraphFacts ==
  ASSUME NEW f \in StateFiles
  PROVE  /\ IsFiniteSet(Nodes(f))
         /\ FromState(f).nodes = Nodes(f)
         /\ FromState(f).edges \subseteq Nodes(f) \X Nodes(f)
  <1>1. IsFiniteSet(Managed(f))
    BY BlockAssumption, FS_Subset DEF Managed
  <1>2. IsFiniteSet({Address(r) : r \in Managed(f)})
    <2> DEFINE h == [r \in Managed(f) |-> Address(r)]
    <2>1. IsFiniteSet({h[r] : r \in Managed(f)})
      <3>1. h = [r \in Managed(f) |-> h[r]]
        OBVIOUS
      <3> HIDE DEF h
      <3> QED BY <3>1, <1>1, FiniteImage
    <2>2. {h[r] : r \in Managed(f)} = {Address(r) : r \in Managed(f)}
      OBVIOUS
    <2> QED BY <2>1, <2>2
  <1>3. IsFiniteSet({ModuleNode(r.module) : r \in {s \in Managed(f) : s.module # Nil}})
    <2> DEFINE inside == {s \in Managed(f) : s.module # Nil}
               h == [r \in inside |-> ModuleNode(r.module)]
    <2>1. IsFiniteSet(inside)
      BY <1>1, FS_Subset
    <2>2. IsFiniteSet({h[r] : r \in inside})
      <3>1. h = [r \in inside |-> h[r]]
        OBVIOUS
      <3> HIDE DEF h, inside
      <3> QED BY <2>1, <3>1, FiniteImage
    <2>3. {h[r] : r \in inside} = {ModuleNode(r.module) : r \in inside}
      OBVIOUS
    <2> QED BY <2>2, <2>3
  <1>4. IsFiniteSet(Nodes(f))
    BY <1>2, <1>3, FS_Union DEF Nodes
  <1>5. Contains(f) \subseteq Nodes(f) \X Nodes(f)
    BY DEF Contains, Nodes
  <1>6. DependsOn(f) \subseteq Nodes(f) \X Nodes(f)
    BY DEF DependsOn, Nodes
  <1> QED BY <1>4, <1>5, <1>6 DEF FromState

\* An edge says what the file records, and all of it: between two nodes there is one
\* exactly when the second changes with the first.
LEMMA EdgesAreRecorded ==
  ASSUME NEW f \in StateFiles, NEW a \in Nodes(f), NEW b \in Nodes(f)
  PROVE  Affects(f, a, b) <=> <<a, b>> \in FromState(f).edges
  <1>1. /\ \A r \in Managed(f) : /\ r \in f /\ r.block # Nil
                                 /\ \A ref \in r.deps : ref = <<ref[1], ref[2]>>
        /\ \A r, q \in Managed(f) : Address(r) = Address(q) => r = q
    BY StateFileAssumption DEF Managed, Address
  <1>2. ASSUME NEW p \in Managed(f), NEW q \in Managed(f)
        PROVE  <<Address(p)[1], Address(p)[2]>> \in q.deps <=>
                  \E ref \in q.deps : p \in Resolve(ref, f)
    <2>1. <<Address(p)[1], Address(p)[2]>> = <<p.module, p.block>>
      BY DEF Address
    <2>2. ASSUME <<p.module, p.block>> \in q.deps
          PROVE  p \in Resolve(<<p.module, p.block>>, f)
      <3>1. CASE p.key = Nil
        BY <3>1 DEF Resolve, Address
      <3>2. CASE p.key # Nil
        <4>1. {r \in Managed(f) : Address(r) = <<p.module, p.block, Nil>>} = {}
          BY <3>2, BlockAssumption DEF Address
        <4> QED BY <3>2, <4>1 DEF Resolve
      <3> QED BY <3>1, <3>2
    <2>3. ASSUME NEW ref \in q.deps, p \in Resolve(ref, f)
          PROVE  ref = <<p.module, p.block>>
      <3>1. ref = <<ref[1], ref[2]>>
        BY <1>1
      <3>2. p.module = ref[1] /\ p.block = ref[2]
        BY <2>3 DEF Resolve, Address
      <3> QED BY <3>1, <3>2
    <2> QED BY <2>1, <2>2, <2>3
  <1>3. <<a, b>> \in Contains(f) <=>
           \E r \in Managed(f) : Address(r) = b /\ a = ModuleNode(r.module) /\ r.module # Nil
    BY DEF Contains
  <1>4. <<a, b>> \in DependsOn(f) <=>
           \E r \in Managed(f) :
              /\ Address(r) = b /\ a # b
              /\ \E s \in Managed(f) : Address(s) = a /\ <<a[1], a[2]>> \in r.deps
    <2> DEFINE pairs == {p \in Managed(f) \X Managed(f) :
                            p[1] # p[2] /\ \E ref \in p[2].deps : p[1] \in Resolve(ref, f)}
    <2>1. ASSUME NEW p \in pairs, a = Address(p[1]), b = Address(p[2])
          PROVE  /\ p[2] \in Managed(f) /\ Address(p[2]) = b /\ a # b
                 /\ p[1] \in Managed(f) /\ Address(p[1]) = a /\ <<a[1], a[2]>> \in p[2].deps
      BY <2>1, <1>1, <1>2
    <2>2. ASSUME NEW r \in Managed(f), NEW s \in Managed(f), Address(r) = b, Address(s) = a,
                 a # b, <<a[1], a[2]>> \in r.deps
          PROVE  <<s, r>> \in pairs
      BY <2>2, <1>2
    <2>3. DependsOn(f) = {<<Address(p[1]), Address(p[2])>> : p \in pairs}
      BY DEF DependsOn
    <2>4. <<a, b>> \in DependsOn(f) => \E p \in pairs : a = Address(p[1]) /\ b = Address(p[2])
      BY <2>3
    <2>5. ASSUME NEW r \in Managed(f), NEW s \in Managed(f), Address(r) = b, Address(s) = a,
                 <<s, r>> \in pairs
          PROVE  <<a, b>> \in DependsOn(f)
      BY <2>3, <2>5
    <2> HIDE DEF pairs
    <2> QED BY <2>1, <2>2, <2>4, <2>5
  <1> QED BY <1>3, <1>4 DEF Affects, FromState

-----------------------------------------------------------------------------
(* The sort *)

Placed == {sorted[i] : i \in DOMAIN sorted}

\* The dependencies of a node that have not been counted down yet: those that are not
\* placed, and the last that was while the node is among those it leads to.
Uncounted(n) ==
    {s \in Dependencies(n) : s \notin Placed \/ (n \in left /\ s = sorted[Len(sorted)])}

Counted ==
    /\ \A n \in graph.nodes : inDegree[n] = Cardinality(Uncounted(n))
    /\ \A n \in Placed \cup Queued : Uncounted(n) = {}
    /\ \A n \in left : sorted # <<>> /\ <<sorted[Len(sorted)], n>> \in graph.edges

NoneTwice ==
    /\ \A i, j \in DOMAIN ready : ready[i] = ready[j] => i = j
    /\ \A i, j \in DOMAIN sorted : sorted[i] = sorted[j] => i = j
    /\ Placed \cap Queued = {}

InOrder ==
    \A i \in DOMAIN sorted : \A s \in Dependencies(sorted[i]) :
        \E j \in DOMAIN sorted : j < i /\ sorted[j] = s

NoneForgotten == \A n \in graph.nodes : Uncounted(n) = {} => n \in Placed \cup Queued

SortInv ==
    /\ SortTypeOK
    /\ file \in StateFiles /\ graph = FromState(file)
    /\ sort \in {"idle", "seeding"} => sorted = <<>> /\ left = {}
    /\ sort = "idle" => ready = <<>>
    /\ sort # "idle" => Counted /\ NoneTwice /\ InOrder
    /\ sort \notin {"idle", "seeding"} => NoneForgotten
    /\ sort \in {"done", "failed"} =>
          /\ ready = <<>> /\ left = {}
          /\ sort = "done" <=> Len(sorted) = Cardinality(graph.nodes)

LEMMA GraphIsFinite ==
  ASSUME SortInv
  PROVE  /\ IsFiniteSet(graph.nodes) /\ graph.edges \subseteq graph.nodes \X graph.nodes
         /\ \A n \in graph.nodes : Dependencies(n) \subseteq graph.nodes /\ IsFiniteSet(Uncounted(n))
         /\ \A n \in graph.nodes : Cardinality(Uncounted(n)) \in Nat
         /\ \A n \in graph.nodes : Cardinality(Uncounted(n)) = 0 <=> Uncounted(n) = {}
  <1>1. IsFiniteSet(graph.nodes) /\ graph.edges \subseteq graph.nodes \X graph.nodes
    BY GraphFacts DEF SortInv
  <1>2. ASSUME NEW n \in graph.nodes
        PROVE  /\ Dependencies(n) \subseteq graph.nodes /\ IsFiniteSet(Uncounted(n))
               /\ Cardinality(Uncounted(n)) \in Nat
               /\ Cardinality(Uncounted(n)) = 0 <=> Uncounted(n) = {}
    <2>1. Dependencies(n) \subseteq graph.nodes /\ Uncounted(n) \subseteq graph.nodes
      BY DEF Dependencies, Uncounted
    <2>2. IsFiniteSet(Uncounted(n))
      BY <1>1, <2>1, FS_Subset
    <2> QED BY <2>1, <2>2, FS_CardinalityType, FS_EmptySet
  <1> QED BY <1>1, <1>2

\* What a step sees of the two sequences.
LEMMA SequencesOfNodes ==
  ASSUME SortTypeOK
  PROVE  /\ Len(ready) \in Nat /\ DOMAIN ready = 1..Len(ready)
         /\ Len(sorted) \in Nat /\ DOMAIN sorted = 1..Len(sorted)
         /\ Queued \subseteq graph.nodes /\ Placed \subseteq graph.nodes
  BY DEF SortTypeOK, Queued, Placed

\* A node that waits for nothing is queued once.
LEMMA QueueingKeeps ==
  ASSUME SortTypeOK, NoneTwice, NEW n \in graph.nodes, n \notin Placed \cup Queued,
         ready' = Append(ready, n), sorted' = sorted, graph' = graph
  PROVE  /\ NoneTwice' /\ Queued' = Queued \cup {n} /\ ready' \in Seq(graph.nodes)
         /\ Placed' = Placed
  <1>1. /\ Len(ready) \in Nat /\ DOMAIN ready = 1..Len(ready) /\ Placed' = Placed
        /\ Queued = {ready[i] : i \in 1..Len(ready)}
    BY SequencesOfNodes DEF Placed, Queued
  <1>2. /\ ready' \in Seq(graph.nodes) /\ DOMAIN ready' = 1..(Len(ready) + 1)
        /\ \A i \in 1..Len(ready) : ready'[i] = ready[i]
        /\ ready'[Len(ready) + 1] = n
    BY DEF SortTypeOK
  <1>3. Queued' = Queued \cup {n}
    BY <1>1, <1>2 DEF Queued
  <1>4. \A i, j \in DOMAIN ready' : ready'[i] = ready'[j] => i = j
    BY <1>1, <1>2 DEF NoneTwice, Queued
  <1> QED BY <1>1, <1>2, <1>3, <1>4 DEF NoneTwice

\* Nothing but the queue and the phase of the call moves.
LEMMA UncountedStays ==
  ASSUME graph' = graph, sorted' = sorted, left' = left
  PROVE  /\ Placed' = Placed /\ \A n : Dependencies(n)' = Dependencies(n) /\ Uncounted(n)' = Uncounted(n)
         /\ InOrder => InOrder'
  BY DEF Placed, Uncounted, Dependencies, InOrder

LEMMA AskKeepsSort ==
  ASSUME SortInv, AskSort
  PROVE  SortInv'
  <1>1. /\ sort' = "seeding" /\ file' = file /\ graph' = graph /\ ready' = <<>> /\ sorted' = <<>>
        /\ left' = {} /\ ready = <<>> /\ sorted = <<>> /\ left = {}
        /\ inDegree' = [n \in graph.nodes |-> Cardinality(Dependencies(n))]
    BY DEF AskSort, SortInv, loaded
  <1>2. \A n \in graph.nodes : Uncounted(n) = Dependencies(n)
    BY <1>1 DEF Uncounted, Placed
  <1>3. \A n \in graph.nodes : inDegree'[n] \in Nat /\ inDegree'[n] = Cardinality(Uncounted(n)')
    BY <1>1, <1>2, GraphIsFinite, UncountedStays
  <1>4. SortTypeOK'
    BY <1>1, <1>3 DEF SortInv, SortTypeOK
  <1>5. Counted' /\ NoneTwice' /\ InOrder'
    BY <1>1, <1>3 DEF Counted, NoneTwice, InOrder, Placed, Queued
  <1> QED BY <1>1, <1>4, <1>5 DEF SortInv

LEMMA SeedKeepsSort ==
  ASSUME SortInv, NEW n \in graph.nodes, Seed(n)
  PROVE  SortInv'
  <1>1. /\ sort' = sort /\ sort = "seeding" /\ file' = file /\ graph' = graph
        /\ ready' = Append(ready, n) /\ sorted' = sorted /\ left' = left /\ inDegree' = inDegree
        /\ sorted = <<>> /\ left = {} /\ n \notin Queued /\ inDegree[n] = 0
        /\ SortTypeOK /\ Counted /\ NoneTwice /\ InOrder
    BY DEF Seed, SortInv, loaded, Unseeded
  <1>2. Uncounted(n) = {}
    BY <1>1, GraphIsFinite DEF Counted
  <1>3. /\ NoneTwice' /\ Queued' = Queued \cup {n} /\ ready' \in Seq(graph.nodes) /\ Placed' = Placed
    <2>1. n \notin Placed
      BY <1>1 DEF Placed
    <2> QED BY <1>1, <2>1, QueueingKeeps
  <1>4. SortTypeOK'
    BY <1>1, <1>3 DEF SortTypeOK
  <1>5. Counted' /\ InOrder'
    BY <1>1, <1>2, <1>3, UncountedStays DEF Counted
  <1> QED BY <1>1, <1>3, <1>4, <1>5 DEF SortInv

LEMMA SeededKeepsSort ==
  ASSUME SortInv, Seeded
  PROVE  SortInv'
  <1>1. /\ sort' = "running" /\ sort = "seeding" /\ file' = file /\ graph' = graph
        /\ ready' = ready /\ sorted' = sorted /\ left' = left /\ inDegree' = inDegree
        /\ Unseeded = {} /\ SortTypeOK /\ Counted /\ NoneTwice /\ InOrder
    BY DEF Seeded, SortInv, loaded, sortLocals
  <1>2. NoneForgotten
    BY <1>1, GraphIsFinite DEF NoneForgotten, Counted, Unseeded
  <1>3. SortTypeOK' /\ NoneTwice' /\ Counted' /\ NoneForgotten' /\ InOrder'
    <2>1. Queued' = Queued /\ (NoneTwice => NoneTwice') /\ SortTypeOK'
      BY <1>1 DEF Queued, NoneTwice, Placed, SortTypeOK
    <2>2. Counted' /\ NoneForgotten' /\ InOrder'
      BY <1>1, <1>2, <2>1, UncountedStays DEF Counted, NoneForgotten
    <2> QED BY <1>1, <2>1, <2>2
  <1> QED BY <1>1, <1>3 DEF SortInv

LEMMA TakeKeepsSort ==
  ASSUME SortInv, TakeReady
  PROVE  SortInv'
  <1> DEFINE h == Head(ready)
  <1>1. /\ sort' = sort /\ sort = "running" /\ file' = file /\ graph' = graph /\ inDegree' = inDegree
        /\ ready' = Tail(ready) /\ sorted' = Append(sorted, h) /\ left' = Dependents(h)
        /\ left = {} /\ ready # <<>>
        /\ SortTypeOK /\ Counted /\ NoneTwice /\ InOrder /\ NoneForgotten
    BY DEF TakeReady, SortInv, loaded
  <1>2. /\ Len(ready) \in Nat /\ Len(ready) >= 1 /\ DOMAIN ready = 1..Len(ready)
        /\ Len(sorted) \in Nat /\ DOMAIN sorted = 1..Len(sorted)
        /\ h = ready[1] /\ h \in graph.nodes /\ h \in Queued
    <2>1. ready \in Seq(graph.nodes) /\ sorted \in Seq(graph.nodes)
      BY <1>1 DEF SortTypeOK
    <2>2. Len(ready) \in Nat /\ Len(ready) >= 1 /\ DOMAIN ready = 1..Len(ready) /\ h = ready[1]
      BY <1>1, <2>1
    <2> QED BY <2>1, <2>2 DEF Queued
  <1>3. /\ ready' \in Seq(graph.nodes) /\ DOMAIN ready' = 1..(Len(ready) - 1)
        /\ \A i \in 1..(Len(ready) - 1) : ready'[i] = ready[i + 1]
    BY <1>1 DEF SortTypeOK
  <1>4. /\ sorted' \in Seq(graph.nodes) /\ DOMAIN sorted' = 1..(Len(sorted) + 1)
        /\ Len(sorted') = Len(sorted) + 1
        /\ \A i \in 1..Len(sorted) : sorted'[i] = sorted[i]
        /\ sorted'[Len(sorted) + 1] = h
    BY <1>1, <1>2 DEF SortTypeOK
  <1> HIDE DEF h
  <1>5. Placed' = Placed \cup {h}
    BY <1>2, <1>4 DEF Placed
  <1>6. Queued' = Queued \ {h}
    <2>1. \A n \in Queued \ {h} : n \in Queued'
      <3> SUFFICES ASSUME NEW i \in 1..Len(ready), ready[i] # h
                   PROVE  \E j \in DOMAIN ready' : ready'[j] = ready[i]
        BY <1>2 DEF Queued
      <3>1. i - 1 \in 1..(Len(ready) - 1) /\ (i - 1) + 1 = i
        BY <1>2
      <3> QED BY <1>3, <3>1
    <2>2. \A n \in Queued' : n \in Queued /\ n # h
      <3> SUFFICES ASSUME NEW i \in 1..(Len(ready) - 1)
                   PROVE  ready[i + 1] \in Queued /\ ready[i + 1] # h
        BY <1>3 DEF Queued
      <3>1. i + 1 \in DOMAIN ready /\ 1 \in DOMAIN ready /\ i + 1 # 1
        BY <1>2
      <3> QED BY <3>1, <1>1, <1>2 DEF NoneTwice, Queued
    <2> QED BY <2>1, <2>2
  <1>7. h \notin Placed /\ Placed' \cup Queued' = Placed \cup Queued
    BY <1>1, <1>2, <1>5, <1>6 DEF NoneTwice
  <1>8. \A n : Dependencies(n)' = Dependencies(n)
    BY <1>1 DEF Dependencies
  <1>9. \A n \in graph.nodes : Uncounted(n)' = Uncounted(n)
    <2> SUFFICES ASSUME NEW n \in graph.nodes, NEW s \in Dependencies(n)
                 PROVE  (s \notin Placed' \/ (n \in left' /\ s = h)) <=> s \notin Placed
      BY <1>1, <1>4, <1>8 DEF Uncounted
    <2>1. s = h => n \in left'
      BY <1>1 DEF Dependencies, Dependents
    <2> QED BY <2>1, <1>5, <1>7
  <1>10. Counted'
    <2>1. Placed \cup Queued \subseteq graph.nodes
      BY <1>1, SequencesOfNodes
    <2>2. \A n \in left' : sorted' # <<>> /\ <<sorted'[Len(sorted')], n>> \in graph'.edges
      <3>1. sorted' # <<>> /\ sorted'[Len(sorted')] = h
        BY <1>2, <1>4
      <3> QED BY <3>1, <1>1 DEF Dependents
    <2> QED BY <1>1, <1>7, <1>9, <2>1, <2>2 DEF Counted
  <1>11. NoneTwice'
    <2>1. ASSUME NEW i \in DOMAIN ready', NEW j \in DOMAIN ready', ready'[i] = ready'[j]
          PROVE  i = j
      <3>1. /\ i + 1 \in DOMAIN ready /\ j + 1 \in DOMAIN ready /\ ready[i + 1] = ready[j + 1]
            /\ i \in Nat /\ j \in Nat
        BY <1>2, <1>3, <2>1
      <3>2. i + 1 = j + 1
        BY <3>1, <1>1 DEF NoneTwice
      <3> QED BY <3>1, <3>2
    <2>2. ASSUME NEW i \in DOMAIN sorted', NEW j \in DOMAIN sorted', sorted'[i] = sorted'[j]
          PROVE  i = j
      <3>1. \A k \in 1..Len(sorted) : sorted'[k] = sorted[k] /\ sorted[k] # h
        BY <1>2, <1>4, <1>7 DEF Placed
      <3> QED BY <2>2, <3>1, <1>1, <1>2, <1>4 DEF NoneTwice
    <2>3. Placed' \cap Queued' = {}
      BY <1>1, <1>5, <1>6 DEF NoneTwice
    <2> QED BY <2>1, <2>2, <2>3 DEF NoneTwice
  <1>12. InOrder'
    <2> SUFFICES ASSUME NEW i \in 1..(Len(sorted) + 1), NEW s \in Dependencies(sorted'[i])
                 PROVE  \E j \in 1..(Len(sorted) + 1) : j < i /\ sorted'[j] = s
      BY <1>4, <1>8 DEF InOrder
    <2>1. CASE i \in 1..Len(sorted)
      <3>1. PICK j \in 1..Len(sorted) : j < i /\ sorted[j] = s
        BY <2>1, <1>1, <1>2, <1>4 DEF InOrder
      <3> QED BY <3>1, <1>2, <1>4
    <2>2. CASE i = Len(sorted) + 1
      <3>1. s \in Placed
        BY <2>2, <1>1, <1>2, <1>4 DEF Counted, Uncounted
      <3>2. PICK j \in 1..Len(sorted) : sorted[j] = s
        BY <3>1, <1>2 DEF Placed
      <3> QED BY <3>2, <2>2, <1>2, <1>4
    <2> QED BY <2>1, <2>2, <1>2
  <1>13. NoneForgotten'
    BY <1>1, <1>7, <1>9 DEF NoneForgotten
  <1>14. SortTypeOK'
    BY <1>1, <1>3, <1>4 DEF SortTypeOK, Dependents
  <1> QED BY <1>1, <1>10, <1>11, <1>12, <1>13, <1>14 DEF SortInv

LEMMA CountKeepsSort ==
  ASSUME SortInv, NEW t \in left, CountDown(t)
  PROVE  SortInv'
  <1> DEFINE last == sorted[Len(sorted)]
  <1>1. /\ sort' = sort /\ sort = "running" /\ file' = file /\ graph' = graph
        /\ sorted' = sorted /\ left' = left \ {t}
        /\ inDegree' = [inDegree EXCEPT ![t] = @ - 1]
        /\ ready' = IF inDegree[t] = 1 THEN Append(ready, t) ELSE ready
        /\ SortTypeOK /\ Counted /\ NoneTwice /\ InOrder /\ NoneForgotten
    BY DEF CountDown, SortInv, loaded
  <1>2. t \in graph.nodes /\ last \in Dependencies(t) /\ last \in Uncounted(t)
    <2>1. <<last, t>> \in graph.edges /\ sorted # <<>>
      BY <1>1 DEF Counted
    <2>2. last \in graph.nodes /\ t \in graph.nodes
      BY <1>1, <2>1 DEF SortTypeOK
    <2> QED BY <2>1, <2>2 DEF Dependencies, Uncounted
  <1>3. Placed' = Placed /\ (\A n : Dependencies(n)' = Dependencies(n))
    BY <1>1 DEF Placed, Dependencies
  <1>4. Uncounted(t)' = Uncounted(t) \ {last} /\ \A n \in graph.nodes \ {t} : Uncounted(n)' = Uncounted(n)
    <2>1. last \in Placed
      <3>1. sorted # <<>>
        BY <1>1 DEF Counted
      <3> QED BY <1>1, <3>1 DEF SortTypeOK, Placed
    <2> QED BY <2>1, <1>1, <1>3 DEF Uncounted
  <1> HIDE DEF last
  <1>5. /\ inDegree[t] \in Nat /\ inDegree[t] >= 1 /\ Cardinality(Uncounted(t)') = inDegree[t] - 1
        /\ Uncounted(t)' = {} <=> inDegree[t] = 1
    <2>1. /\ IsFiniteSet(Uncounted(t)) /\ inDegree[t] = Cardinality(Uncounted(t))
          /\ Cardinality(Uncounted(t)) \in Nat
      BY <1>1, <1>2, GraphIsFinite DEF Counted
    <2>2. /\ IsFiniteSet(Uncounted(t)') /\ Cardinality(Uncounted(t)') = Cardinality(Uncounted(t)) - 1
      BY <2>1, <1>2, <1>4, FS_RemoveElement
    <2>3. Cardinality(Uncounted(t)') \in Nat /\ (Cardinality(Uncounted(t)') = 0 <=> Uncounted(t)' = {})
      BY <2>2, FS_CardinalityType, FS_EmptySet
    <2> QED BY <2>1, <2>2, <2>3
  <1>6. t \notin Placed \cup Queued
    BY <1>1, <1>2 DEF Counted
  <1>7. /\ NoneTwice' /\ ready' \in Seq(graph.nodes)
        /\ Queued' = IF inDegree[t] = 1 THEN Queued \cup {t} ELSE Queued
    <2>1. CASE inDegree[t] = 1
      BY <2>1, <1>1, <1>2, <1>6, QueueingKeeps
    <2>2. CASE inDegree[t] # 1
      BY <2>2, <1>1, <1>3 DEF NoneTwice, Queued, SortTypeOK
    <2> QED BY <2>1, <2>2
  <1>8. /\ inDegree' \in [graph.nodes -> Nat] /\ inDegree'[t] = inDegree[t] - 1
        /\ \A n \in graph.nodes \ {t} : inDegree'[n] = inDegree[n]
    BY <1>1, <1>2, <1>5 DEF SortTypeOK
  <1>9. SortTypeOK'
    BY <1>1, <1>7, <1>8 DEF SortTypeOK
  <1>10. Counted'
    <2>1. \A n \in graph.nodes : inDegree'[n] = Cardinality(Uncounted(n)')
      BY <1>1, <1>4, <1>5, <1>8 DEF Counted
    <2>2. Placed' \cup Queued' \subseteq graph.nodes
      BY <1>1, <1>2, <1>3, <1>7, SequencesOfNodes
    <2>3. \A n \in Placed' \cup Queued' : Uncounted(n)' = {}
      BY <1>1, <1>3, <1>4, <1>5, <1>7, <2>2 DEF Counted
    <2>4. \A n \in left' : sorted' # <<>> /\ <<sorted'[Len(sorted')], n>> \in graph'.edges
      BY <1>1 DEF Counted
    <2> QED BY <1>1, <2>1, <2>3, <2>4 DEF Counted
  <1>11. NoneForgotten'
    BY <1>1, <1>3, <1>4, <1>5, <1>7 DEF NoneForgotten
  <1>12. InOrder'
    BY <1>1, <1>3 DEF InOrder
  <1> QED BY <1>1, <1>7, <1>9, <1>10, <1>11, <1>12 DEF SortInv

THEOREM SortInvariant == SortSpec => []SortInv
  <1>1. SortInit => SortInv
    BY EmptySeq DEF SortInit, SortInv, SortTypeOK, Load
  <1>2. ASSUME SortInv, [SortNext]_sortVars PROVE SortInv'
    <2>1. CASE FinishSort \/ UNCHANGED sortVars
      <3>1. /\ file' = file /\ graph' = graph /\ inDegree' = inDegree /\ ready' = ready
            /\ sorted' = sorted /\ left' = left
        BY <2>1 DEF FinishSort, sortVars, loaded, sortLocals
      <3>2. Queued' = Queued /\ (NoneTwice => NoneTwice')
        BY <3>1 DEF Queued, NoneTwice, Placed
      <3>3. (Counted => Counted') /\ (NoneForgotten => NoneForgotten') /\ (InOrder => InOrder')
        BY <3>1, <3>2, UncountedStays DEF Counted, NoneForgotten
      <3>4. CASE UNCHANGED sort
        BY <3>1, <3>2, <3>3, <3>4, <1>2 DEF SortInv, SortTypeOK
      <3>5. CASE FinishSort
        <4>1. /\ sort = "running" /\ left = {} /\ ready = <<>> /\ sort' \in {"done", "failed"}
              /\ sort' = "done" <=> Len(sorted) = Cardinality(graph.nodes)
          BY <3>5 DEF FinishSort
        <4> QED BY <3>1, <3>2, <3>3, <4>1, <1>2 DEF SortInv, SortTypeOK
      <3> QED BY <2>1, <3>4, <3>5 DEF sortVars
    <2> QED BY <1>2, <2>1, AskKeepsSort, SeedKeepsSort, SeededKeepsSort, TakeKeepsSort, CountKeepsSort
            DEF SortNext, SortProceeds
  <1> QED BY <1>1, <1>2, PTL DEF SortSpec

LEMMA SortInvImplies ==
  ASSUME SortInv
  PROVE  SortIsSafe
  <1> SUFFICES ASSUME sort = "done"
               PROVE  /\ Placed = graph.nodes
                      /\ \A i, j \in DOMAIN sorted :
                            /\ sorted[i] = sorted[j] => i = j
                            /\ Affects(file, sorted[i], sorted[j]) => i < j
    BY DEF SortIsSafe, Placed
  <1>1. /\ NoneTwice /\ InOrder /\ SortTypeOK /\ Len(sorted) = Cardinality(graph.nodes)
        /\ file \in StateFiles /\ graph = FromState(file)
    BY DEF SortInv
  <1>2. Placed = graph.nodes
    <2>1. Placed \subseteq graph.nodes /\ IsFiniteSet(graph.nodes) /\ sorted \in Seq(graph.nodes)
      BY <1>1, SequencesOfNodes, GraphIsFinite DEF SortTypeOK
    <2>2. Cardinality(Placed) = Len(sorted)
      BY <1>1, <2>1, DistinctCount DEF Placed, NoneTwice
    <2> QED BY <1>1, <2>1, <2>2, FS_Subset
  <1>3. ASSUME NEW i \in DOMAIN sorted, NEW j \in DOMAIN sorted, Affects(file, sorted[i], sorted[j])
        PROVE  i < j
    <2>1. sorted[i] \in graph.nodes /\ sorted[j] \in graph.nodes
      BY <1>2 DEF Placed
    <2>2. <<sorted[i], sorted[j]>> \in graph.edges
      BY <2>1, <1>1, <1>3, GraphFacts, EdgesAreRecorded
    <2>3. PICK k \in DOMAIN sorted : k < j /\ sorted[k] = sorted[i]
      BY <2>1, <2>2, <1>1 DEF InOrder, Dependencies
    <2> QED BY <2>3, <1>1 DEF NoneTwice
  <1> QED BY <1>1, <1>2, <1>3 DEF NoneTwice

\* Whatever the file and the order its nodes come in: a sort that succeeds has every
\* node once, each after everything it depends on (graph/graph.go:252).
THEOREM SortAlwaysSafe == SortSpec => []SortIsSafe
  BY SortInvariant, SortInvImplies, PTL

-----------------------------------------------------------------------------
(* Hops *)

\* The nodes within a hop of a set, it included.
Wider(next, S) == S \cup UNION {next[l] : l \in S}

IsHops(g, next, n, k) == g = [i \in 0..k |-> IF i = 0 THEN {n} ELSE Wider(next, g[i - 1])]

LEMMA HopsExist ==
  ASSUME NEW next, NEW n
  PROVE  \A k \in Nat : \E g : IsHops(g, next, n, k)
  <1> DEFINE S == {k \in Nat : \E g : IsHops(g, next, n, k)}
  <1>1. 0 \in S
    <2> DEFINE g == [i \in 0..0 |-> {n}]
    <2>1. IsHops(g, next, n, 0)
      BY DEF IsHops
    <2> QED BY <2>1
  <1>2. ASSUME NEW k \in Nat, k \in S PROVE k + 1 \in S
    <2>1. PICK g : IsHops(g, next, n, k)
      BY <1>2
    <2> DEFINE h == [i \in 0..(k + 1) |-> IF i = k + 1 THEN Wider(next, g[k]) ELSE g[i]]
    <2>2. /\ h[k + 1] = Wider(next, g[k])
          /\ \A i \in 0..k : h[i] = g[i]
      OBVIOUS
    <2>3. \A i \in 0..(k + 1) : h[i] = IF i = 0 THEN {n} ELSE Wider(next, h[i - 1])
      <3> SUFFICES ASSUME NEW i \in 0..(k + 1)
                   PROVE  h[i] = IF i = 0 THEN {n} ELSE Wider(next, h[i - 1])
        OBVIOUS
      <3>1. CASE i = k + 1
        <4>1. i - 1 = k /\ k \in 0..k /\ i # 0
          BY <3>1
        <4> HIDE DEF h
        <4> QED BY <4>1, <3>1, <2>2
      <3>2. CASE i # k + 1
        <4>1. i \in 0..k /\ (i # 0 => i - 1 \in 0..k)
          BY <3>2
        <4>2. g[i] = IF i = 0 THEN {n} ELSE Wider(next, g[i - 1])
          BY <4>1, <2>1 DEF IsHops
        <4> HIDE DEF h
        <4> QED BY <4>1, <4>2, <2>2
      <3> QED BY <3>1, <3>2
    <2>4. IsHops(h, next, n, k + 1)
      BY <2>3 DEF IsHops
    <2> HIDE DEF h
    <2> QED BY <2>4
  <1> HIDE DEF S
  <1>3. \A k \in Nat : k \in S
    BY <1>1, <1>2, NaturalInduction
  <1> QED BY <1>3 DEF S

LEMMA HopsUnique ==
  ASSUME NEW next, NEW n, NEW k \in Nat, NEW g, NEW h, NEW m \in Nat, k <= m,
         IsHops(g, next, n, k), IsHops(h, next, n, m)
  PROVE  \A i \in 0..k : g[i] = h[i]
  <1> DEFINE S == {i \in Nat : i <= k => g[i] = h[i]}
  <1>1. 0 \in S
    BY DEF IsHops
  <1>2. ASSUME NEW i \in Nat, i \in S PROVE i + 1 \in S
    <2> SUFFICES ASSUME i + 1 <= k PROVE g[i + 1] = h[i + 1]
      OBVIOUS
    <2>1. g[i] = h[i] /\ i + 1 \in 0..k /\ i + 1 \in 0..m /\ (i + 1) - 1 = i /\ i + 1 # 0
      BY <1>2
    <2>2. g[i + 1] = Wider(next, g[i]) /\ h[i + 1] = Wider(next, h[i])
      BY <2>1 DEF IsHops
    <2> QED BY <2>1, <2>2
  <1> HIDE DEF S
  <1>3. \A i \in Nat : i \in S
    BY <1>1, <1>2, NaturalInduction
  <1> QED BY <1>3 DEF S

\* What WithinHops is, hop by hop.
LEMMA HopsStep ==
  ASSUME NEW next, NEW n
  PROVE  /\ WithinHops(next, n, 0) = {n}
         /\ \A k \in Nat : WithinHops(next, n, k + 1) = Wider(next, WithinHops(next, n, k))
  <1> DEFINE H(k) == CHOOSE g : IsHops(g, next, n, k)
  <1>1. \A k \in Nat : WithinHops(next, n, k) = H(k)[k]
    BY DEF WithinHops, IsHops, Wider
  <1>2. \A k \in Nat : IsHops(H(k), next, n, k)
    BY HopsExist
  <1> HIDE DEF H
  <1>3. WithinHops(next, n, 0) = {n}
    <2>1. IsHops(H(0), next, n, 0)
      BY <1>2
    <2> QED BY <2>1, <1>1 DEF IsHops
  <1>4. ASSUME NEW k \in Nat
        PROVE  WithinHops(next, n, k + 1) = Wider(next, WithinHops(next, n, k))
    <2>1. IsHops(H(k), next, n, k) /\ IsHops(H(k + 1), next, n, k + 1) /\ k + 1 \in Nat /\ k <= k + 1
      BY <1>2
    <2>2. H(k)[k] = H(k + 1)[k]
      <3>1. \A i \in 0..k : H(k)[i] = H(k + 1)[i]
        BY <2>1, HopsUnique
      <3> QED BY <3>1
    <2>3. H(k + 1)[k + 1] = Wider(next, H(k + 1)[k])
      <3>1. k + 1 \in 0..(k + 1) /\ k + 1 # 0 /\ (k + 1) - 1 = k
        OBVIOUS
      <3> QED BY <3>1, <2>1 DEF IsHops
    <2> QED BY <2>1, <2>2, <2>3, <1>1
  <1> QED BY <1>3, <1>4

LEMMA HopsGrow ==
  ASSUME NEW next, NEW n, NEW k \in Nat, NEW m \in Nat, k <= m
  PROVE  WithinHops(next, n, k) \subseteq WithinHops(next, n, m)
  <1> DEFINE S == {i \in Nat : WithinHops(next, n, k) \subseteq WithinHops(next, n, k + i)}
  <1>1. 0 \in S
    OBVIOUS
  <1>2. ASSUME NEW i \in Nat, i \in S PROVE i + 1 \in S
    <2>1. k + i \in Nat /\ (k + i) + 1 = k + (i + 1)
      OBVIOUS
    <2>2. WithinHops(next, n, (k + i) + 1) = Wider(next, WithinHops(next, n, k + i))
      <3>1. \A j \in Nat : WithinHops(next, n, j + 1) = Wider(next, WithinHops(next, n, j))
        BY HopsStep
      <3> QED BY <2>1, <3>1
    <2>3. WithinHops(next, n, k + i) \subseteq WithinHops(next, n, k + (i + 1))
      BY <2>1, <2>2 DEF Wider
    <2> QED BY <1>2, <2>3
  <1> HIDE DEF S
  <1>3. \A i \in Nat : i \in S
    BY <1>1, <1>2, NaturalInduction
  <1>4. m - k \in Nat /\ k + (m - k) = m
    OBVIOUS
  <1> QED BY <1>3, <1>4 DEF S

\* No hop leads out of a set that the relation does not leave.
LEMMA HopsStay ==
  ASSUME NEW next, NEW n, NEW T, n \in T, \A l \in T : next[l] \subseteq T
  PROVE  \A k \in Nat : WithinHops(next, n, k) \subseteq T
  <1> DEFINE S == {k \in Nat : WithinHops(next, n, k) \subseteq T}
  <1>1. 0 \in S
    BY HopsStep
  <1>2. ASSUME NEW k \in Nat, k \in S PROVE k + 1 \in S
    <2>1. \A j \in Nat : WithinHops(next, n, j + 1) = Wider(next, WithinHops(next, n, j))
      BY HopsStep
    <2>2. WithinHops(next, n, k + 1) = Wider(next, WithinHops(next, n, k))
      BY <2>1
    <2> QED BY <1>2, <2>2 DEF Wider
  <1> HIDE DEF S
  <1>3. \A k \in Nat : k \in S
    BY <1>1, <1>2, NaturalInduction
  <1> QED BY <1>3 DEF S

\* What is reached at all is reached within as many hops as there are nodes.
LEMMA HopsSaturate ==
  ASSUME NEW N, IsFiniteSet(N), NEW next \in [N -> SUBSET N], NEW n \in N
  PROVE  \A k \in Nat : WithinHops(next, n, k) \subseteq WithinHops(next, n, Cardinality(N))
  <1> DEFINE W(k) == WithinHops(next, n, k)
             c == Cardinality(N)
  <1>1. c \in Nat
    BY FS_CardinalityType
  <1>2. \A k \in Nat : /\ W(k) \subseteq N /\ IsFiniteSet(W(k)) /\ Cardinality(W(k)) \in Nat
                       /\ Cardinality(W(k)) <= c
    <2>1. \A k \in Nat : W(k) \subseteq N
      BY HopsStay
    <2> HIDE DEF W
    <2> QED BY <2>1, FS_Subset, FS_CardinalityType
  <1>3. W(0) = {n} /\ \A k \in Nat : W(k + 1) = Wider(next, W(k)) /\ W(k) \subseteq W(k + 1)
    BY HopsStep DEF Wider
  <1>4. \A k, m \in Nat : k <= m => W(k) \subseteq W(m)
    BY HopsGrow
  <1> HIDE DEF W, c
  <1>5. PICK j \in 0..c : W(j + 1) = W(j)
    <2> SUFFICES ASSUME \A j \in 0..c : W(j + 1) # W(j) PROVE FALSE
      OBVIOUS
    <2> DEFINE S == {k \in Nat : k <= c + 1 => Cardinality(W(k)) >= k + 1}
    <2>1. 0 \in S
      <3>1. Cardinality({n}) = 1
        BY FS_Singleton
      <3> QED BY <3>1, <1>3
    <2>2. ASSUME NEW k \in Nat, k \in S PROVE k + 1 \in S
      <3> SUFFICES ASSUME k + 1 <= c + 1 PROVE Cardinality(W(k + 1)) >= (k + 1) + 1
        OBVIOUS
      <3>1. k \in 0..c /\ k + 1 \in Nat
        BY <1>1
      <3>2. Cardinality(W(k)) >= k + 1
        BY <2>2, <3>1, <1>1
      <3>3. Cardinality(W(k)) <= Cardinality(W(k + 1)) /\ Cardinality(W(k)) # Cardinality(W(k + 1))
        <4>1. W(k) \in SUBSET W(k + 1) /\ IsFiniteSet(W(k + 1)) /\ W(k + 1) # W(k)
          BY <3>1, <1>2, <1>3
        <4> QED BY <4>1, FS_Subset
      <3>4. Cardinality(W(k)) \in Nat /\ Cardinality(W(k + 1)) \in Nat
        BY <3>1, <1>2
      <3> QED BY <3>2, <3>3, <3>4
    <2> HIDE DEF S
    <2>3. \A k \in Nat : k \in S
      BY <2>1, <2>2, NaturalInduction
    <2>4. c + 1 \in Nat /\ c + 1 \in S
      BY <2>3, <1>1
    <2>5. Cardinality(W(c + 1)) >= (c + 1) + 1
      BY <2>4, <1>1 DEF S
    <2>6. Cardinality(W(c + 1)) <= c /\ Cardinality(W(c + 1)) \in Nat
      BY <2>4, <1>2
    <2> QED BY <2>5, <2>6, <1>1
  <1>6. \A k \in Nat : W(k) \subseteq W(j)
    <2> DEFINE S == {k \in Nat : W(k) \subseteq W(j)}
    <2>1. 0 \in S
      BY <1>4, <1>5, <1>1
    <2>2. ASSUME NEW k \in Nat, k \in S PROVE k + 1 \in S
      <3>1. Wider(next, W(k)) \subseteq Wider(next, W(j))
        BY <2>2 DEF Wider
      <3> QED BY <3>1, <1>3, <1>5, <1>1
    <2> HIDE DEF S
    <2>3. \A k \in Nat : k \in S
      BY <2>1, <2>2, NaturalInduction
    <2> QED BY <2>3 DEF S
  <1>7. W(j) \subseteq W(c)
    BY <1>1, <1>4, <1>5
  <1>8. \A k \in Nat : W(k) \subseteq W(c)
    BY <1>6, <1>7
  <1> QED BY <1>8 DEF W, c

LEMMA HopsOfTheFile ==
  ASSUME file \in StateFiles, graph = FromState(file)
  PROVE  /\ AffectedBy(file) \in [graph.nodes -> SUBSET graph.nodes]
         /\ \A a \in graph.nodes : AffectedBy(file)[a] = Dependents(a)
         /\ IsFiniteSet(graph.nodes)
  <1>1. graph.nodes = Nodes(file) /\ IsFiniteSet(graph.nodes)
    BY GraphFacts
  <1>2. \A a \in graph.nodes : AffectedBy(file)[a] = {b \in graph.nodes : Affects(file, a, b)}
    BY <1>1 DEF AffectedBy
  <1>3. \A a, b \in graph.nodes : Affects(file, a, b) <=> <<a, b>> \in graph.edges
    BY <1>1, EdgesAreRecorded
  <1>4. AffectedBy(file) \in [graph.nodes -> SUBSET graph.nodes]
    BY <1>1 DEF AffectedBy
  <1> QED BY <1>1, <1>2, <1>3, <1>4 DEF Dependents

-----------------------------------------------------------------------------
(* A sort that fails *)

\* Nodes that each have one before them among them are not finitely many, unless
\* there is a cycle.
LEMMA EndlessIsCyclic ==
  ASSUME NEW N, IsFiniteSet(N), NEW next \in [N -> SUBSET N], NEW R, R \subseteq N, R # {},
         \A n \in R : \E s \in R : n \in next[s]
  PROVE  \E n \in N : \E l \in next[n] : n \in WithinHops(next, l, Cardinality(N))
  <1> SUFFICES ASSUME \A n \in N : \A l \in next[n] : n \notin WithinHops(next, l, Cardinality(N))
               PROVE  FALSE
    OBVIOUS
  <1> DEFINE c == Cardinality(N)
             Reach(n) == WithinHops(next, n, c)
  <1>1. c \in Nat
    BY FS_CardinalityType
  <1>2. \A n \in N : Reach(n) \subseteq N
    BY <1>1, HopsStay
  <1>3. \A n \in N : n \in Reach(n) /\ \A l \in Reach(n) : next[l] \subseteq Reach(n)
    <2> SUFFICES ASSUME NEW n \in N
                 PROVE  n \in Reach(n) /\ \A l \in Reach(n) : next[l] \subseteq Reach(n)
      OBVIOUS
    <2>1. WithinHops(next, n, 0) = {n}
      BY HopsStep
    <2>2. WithinHops(next, n, c + 1) = Wider(next, Reach(n))
      BY <1>1, HopsStep
    <2>3. WithinHops(next, n, 0) \subseteq Reach(n) /\ WithinHops(next, n, c + 1) \subseteq Reach(n)
      <3>1. c + 1 \in Nat
        BY <1>1
      <3> QED BY <3>1, HopsSaturate
    <2> QED BY <2>1, <2>2, <2>3 DEF Wider
  <1>4. \A n \in N : IsFiniteSet(Reach(n)) /\ Cardinality(Reach(n)) \in Nat /\ Cardinality(Reach(n)) <= c
    <2> HIDE DEF Reach
    <2> QED BY <1>2, FS_Subset, FS_CardinalityType
  <1>5. PICK n \in R : \A m \in R : Cardinality(Reach(m)) <= Cardinality(Reach(n))
    <2> DEFINE Rest == {c - Cardinality(Reach(n)) : n \in R}
    <2> HIDE DEF Reach, c
    <2>1. Rest \subseteq Nat /\ Rest # {}
      BY <1>1, <1>4 DEF c
    <2>2. PICK x \in Rest : \A y \in Rest : x <= y
      <3> HIDE DEF Rest
      <3> QED BY <2>1, LeastNatural
    <2>3. PICK n \in R : x = c - Cardinality(Reach(n))
      BY <2>2
    <2>4. \A m \in R : c - Cardinality(Reach(n)) <= c - Cardinality(Reach(m))
      BY <2>2, <2>3
    <2> QED BY <2>3, <2>4, <1>1, <1>4
  <1>6. PICK s \in R : n \in next[s]
    BY <1>5
  <1>7. Reach(n) \subseteq Reach(s)
    <2>1. n \in Reach(s) /\ \A l \in Reach(s) : next[l] \subseteq Reach(s)
      BY <1>3, <1>6
    <2> HIDE DEF Reach
    <2>2. \A k \in Nat : WithinHops(next, n, k) \subseteq Reach(s)
      BY <2>1, HopsStay
    <2> QED BY <2>2, <1>1 DEF Reach
  <1>8. s \in Reach(s) /\ s \notin Reach(n)
    BY <1>3, <1>6
  <1> HIDE DEF Reach
  <1>9. Cardinality(Reach(n)) <= Cardinality(Reach(s)) /\ Cardinality(Reach(n)) # Cardinality(Reach(s))
    BY <1>4, <1>7, <1>8, FS_Subset
  <1> QED BY <1>4, <1>5, <1>9

LEMMA SortInvTellsCycles ==
  ASSUME SortInv
  PROVE  FailsOnlyOnACycle
  <1> DEFINE next == AffectedBy(file)
             c == Cardinality(graph.nodes)
  <1>1. /\ next \in [graph.nodes -> SUBSET graph.nodes] /\ IsFiniteSet(graph.nodes)
        /\ \A a \in graph.nodes : next[a] = Dependents(a)
    BY HopsOfTheFile DEF SortInv
  <1>2. HasCycle <=> \E n \in graph.nodes : \E l \in next[n] : n \in WithinHops(next, l, c)
    BY DEF HasCycle
  <1>3. /\ SortTypeOK /\ sorted \in Seq(graph.nodes) /\ Placed \subseteq graph.nodes
        /\ Len(sorted) \in Nat /\ DOMAIN sorted = 1..Len(sorted)
    BY SequencesOfNodes DEF SortInv, SortTypeOK
  <1>4. c \in Nat
    BY <1>1, FS_CardinalityType
  <1> HIDE DEF next, c
  <1>5. ASSUME sort = "done", HasCycle PROVE FALSE
    <2>1. NoneTwice /\ InOrder /\ Placed = graph.nodes
      BY <1>5, SortInvImplies DEF SortInv, SortIsSafe, Placed
    <2>2. PICK n \in graph.nodes : \E l \in next[n] : n \in WithinHops(next, l, c)
      BY <1>2, <1>5
    <2>3. PICK l \in next[n] : n \in WithinHops(next, l, c)
      BY <2>2
    <2>4. l \in graph.nodes
      BY <1>1
    <2>5. PICK j \in DOMAIN sorted : sorted[j] = l
      BY <2>1, <2>4 DEF Placed
    <2>6. ASSUME NEW a \in graph.nodes, NEW b \in next[a], NEW m \in DOMAIN sorted, sorted[m] = b
          PROVE  \E i \in DOMAIN sorted : i < m /\ sorted[i] = a
      <3>1. a \in Dependencies(b)
        BY <2>6, <1>1 DEF Dependents, Dependencies
      <3> QED BY <3>1, <2>1, <2>6 DEF InOrder
    <2> DEFINE T == {sorted[m] : m \in {k \in DOMAIN sorted : j <= k}}
    <2>7. \A a \in T : next[a] \subseteq T
      <3> SUFFICES ASSUME NEW k \in DOMAIN sorted, j <= k, NEW b \in next[sorted[k]]
                   PROVE  b \in T
        OBVIOUS
      <3>1. sorted[k] \in graph.nodes /\ b \in graph.nodes
        BY <1>1, <1>3
      <3>2. PICK m \in DOMAIN sorted : sorted[m] = b
        BY <3>1, <2>1 DEF Placed
      <3>3. PICK i \in DOMAIN sorted : i < m /\ sorted[i] = sorted[k]
        BY <3>1, <3>2, <2>6
      <3>4. i = k
        BY <3>3, <2>1 DEF NoneTwice
      <3>5. j <= m
        BY <3>3, <3>4, <1>3
      <3> QED BY <3>2, <3>5
    <2>8. l \in T
      BY <2>5, <1>3
    <2>9. n \in T
      <3> HIDE DEF T
      <3>1. \A k \in Nat : WithinHops(next, l, k) \subseteq T
        BY <2>7, <2>8, HopsStay
      <3> QED BY <3>1, <2>3, <1>4
    <2>10. PICK m \in DOMAIN sorted : j <= m /\ sorted[m] = n
      BY <2>9
    <2>11. PICK i \in DOMAIN sorted : i < j /\ sorted[i] = n
      BY <2>3, <2>5, <2>6
    <2>12. i = m
      BY <2>10, <2>11, <2>1 DEF NoneTwice
    <2> QED BY <2>10, <2>11, <2>12, <1>3
  <1>6. ASSUME sort = "failed" PROVE HasCycle
    <2> DEFINE R == graph.nodes \ Placed
    <2>1. /\ NoneTwice /\ NoneForgotten /\ ready = <<>> /\ left = {} /\ Len(sorted) # c
      BY <1>6 DEF SortInv, c
    <2>2. R # {}
      <3> SUFFICES ASSUME Placed = graph.nodes PROVE FALSE
        BY <1>3
      <3>1. Cardinality(Placed) = Len(sorted)
        BY <2>1, <1>3, DistinctCount DEF Placed, NoneTwice
      <3> QED BY <3>1, <2>1 DEF c
    <2>3. \A n \in R : \E s \in R : n \in next[s]
      <3> SUFFICES ASSUME NEW n \in R PROVE \E s \in R : n \in next[s]
        OBVIOUS
      <3>1. Queued = {}
        BY <2>1 DEF Queued
      <3>2. Uncounted(n) # {}
        BY <2>1, <3>1 DEF NoneForgotten
      <3>3. PICK s \in Dependencies(n) : s \notin Placed
        BY <3>2, <2>1 DEF Uncounted
      <3> QED BY <3>3, <1>1 DEF Dependencies, Dependents
    <2> HIDE DEF R
    <2>4. R \subseteq graph.nodes
      BY DEF R
    <2> QED BY <1>1, <1>2, <2>2, <2>3, <2>4, EndlessIsCyclic DEF c
  <1> QED BY <1>5, <1>6 DEF FailsOnlyOnACycle

\* The call reports a cycle when the file records one, and only then, however many
\* nodes are on it or beyond it (graph/graph.go:290).
THEOREM SortTellsCycles == SortSpec => []FailsOnlyOnACycle
  BY SortInvariant, SortInvTellsCycles, PTL

-----------------------------------------------------------------------------
(* The blast radius *)

LEMMA LayersAreDistances ==
  ASSUME RadiusInv, RadiusIsLayered, file \in StateFiles, graph = FromState(file)
  PROVE  RadiusIsExact
  <1> DEFINE next == AffectedBy(file)
             W(k) == WithinHops(next, origin, k)
             c == Cardinality(graph.nodes)
  <1> SUFFICES ASSUME radius = "done"
               PROVE  affected = UNION {[node : W(k) \ W(k - 1), depth : {k}] :
                                          k \in (1..Limit) \cap (1..c)}
    BY DEF RadiusIsExact
  <1>1. /\ next \in [graph.nodes -> SUBSET graph.nodes] /\ IsFiniteSet(graph.nodes)
        /\ \A a \in graph.nodes : next[a] = Dependents(a)
    BY HopsOfTheFile
  <1>2. /\ Limit \in Nat /\ Limit >= 1 /\ origin \in graph.nodes /\ affected \subseteq Item
        /\ \A i \in Reached : i \in Item
    BY LimitType DEF RadiusInv, RadiusTypeOK, Reached, Item
  <1>3. /\ \A i, j \in Reached : i.node = j.node => i = j
        /\ \A i \in affected : /\ i.depth \in 1..Limit
                               /\ \E j \in Reached : /\ j.depth + 1 = i.depth
                                                     /\ <<j.node, i.node>> \in graph.edges
        /\ \A j \in Reached : j.depth < Limit =>
              \A t \in Dependents(j.node) :
                  \E i \in Reached : i.node = t /\ i.depth <= j.depth + 1
    BY DEF RadiusIsLayered
  <1>4. c \in Nat
    BY <1>1, FS_CardinalityType
  <1>5. /\ W(0) = {origin} /\ \A k \in Nat : W(k) \subseteq graph.nodes
        /\ \A k, m \in Nat : k <= m => W(k) \subseteq W(m)
        /\ \A k \in Nat : W(k) \subseteq W(c)
    BY <1>1, <1>2, <1>4, HopsStep, HopsStay, HopsGrow, HopsSaturate
  <1>6. \A k \in Nat : W(k + 1) = Wider(next, W(k))
    BY HopsStep
  <1> HIDE DEF next, W, c
  <1>7. \A k \in Nat : k <= Limit => \A t \in W(k) : \E i \in Reached : i.node = t /\ i.depth <= k
    <2> DEFINE S == {k \in Nat : k <= Limit =>
                        \A t \in W(k) : \E i \in Reached : i.node = t /\ i.depth <= k}
    <2>1. 0 \in S
      <3> SUFFICES ASSUME NEW t \in W(0)
                   PROVE  \E i \in Reached : i.node = t /\ i.depth <= 0
        OBVIOUS
      <3> DEFINE start == [node |-> origin, depth |-> 0]
      <3>1. start.node = t /\ start.depth <= 0
        BY <1>5
      <3>2. start \in Reached
        BY DEF Reached
      <3> QED BY <3>1, <3>2
    <2>2. ASSUME NEW k \in Nat, k \in S PROVE k + 1 \in S
      <3> SUFFICES ASSUME k + 1 <= Limit, NEW t \in W(k + 1)
                   PROVE  \E i \in Reached : i.node = t /\ i.depth <= k + 1
        OBVIOUS
      <3>1. \A l \in W(k) : \E i \in Reached : i.node = l /\ i.depth <= k
        BY <2>2, <1>2
      <3>2. CASE t \in W(k)
        <4>1. PICK i \in Reached : i.node = t /\ i.depth <= k
          BY <3>1, <3>2
        <4>2. i.depth \in Nat
          BY <1>2 DEF Item
        <4> QED BY <4>1, <4>2
      <3>3. CASE t \notin W(k)
        <4>1. PICK l \in W(k) : t \in next[l]
          BY <3>3, <1>6 DEF Wider
        <4>2. PICK j \in Reached : j.node = l /\ j.depth <= k
          BY <3>1, <4>1
        <4>3. j.depth \in Nat /\ j.depth < Limit /\ t \in Dependents(j.node)
          BY <4>1, <4>2, <1>1, <1>2 DEF Item
        <4>4. PICK i \in Reached : i.node = t /\ i.depth <= j.depth + 1
          BY <4>3, <1>3
        <4>5. i.depth \in Nat
          BY <1>2 DEF Item
        <4> QED BY <4>2, <4>3, <4>4, <4>5
      <3> QED BY <3>2, <3>3
    <2> HIDE DEF S
    <2>3. \A k \in Nat : k \in S
      BY <2>1, <2>2, NaturalInduction
    <2> QED BY <2>3 DEF S
  <1>8. \A i \in Reached : i.node \in W(i.depth)
    <2> DEFINE S == {k \in Nat : \A i \in Reached : i.depth = k => i.node \in W(k)}
    <2>1. 0 \in S
      <3> SUFFICES ASSUME NEW i \in Reached, i.depth = 0 PROVE i.node \in W(0)
        OBVIOUS
      <3>1. i \notin affected
        BY <1>3
      <3> QED BY <3>1, <1>5 DEF Reached
    <2>2. ASSUME NEW k \in Nat, k \in S PROVE k + 1 \in S
      <3> SUFFICES ASSUME NEW i \in Reached, i.depth = k + 1 PROVE i.node \in W(k + 1)
        OBVIOUS
      <3>1. i \in affected
        BY DEF Reached
      <3>2. PICK j \in Reached : j.depth + 1 = i.depth /\ <<j.node, i.node>> \in graph.edges
        BY <3>1, <1>3
      <3>3. j.depth = k /\ j.node \in graph.nodes /\ i.node \in graph.nodes
        BY <3>2, <1>2 DEF Item
      <3>4. j.node \in W(k) /\ i.node \in next[j.node]
        BY <2>2, <3>2, <3>3, <1>1 DEF Dependents
      <3> QED BY <3>4, <1>6 DEF Wider
    <2> HIDE DEF S
    <2>3. \A k \in Nat : k \in S
      BY <2>1, <2>2, NaturalInduction
    <2> QED BY <2>3, <1>2 DEF S, Item
  <1> DEFINE depths == (1..Limit) \cap (1..c)
  <1>9. ASSUME NEW i \in affected
        PROVE  i.depth \in depths /\ i.node \in W(i.depth) \ W(i.depth - 1)
    <2>1. i \in Reached /\ i.depth \in 1..Limit /\ i.node \in W(i.depth) /\ i.depth - 1 \in Nat
      BY <1>2, <1>3, <1>8 DEF Reached
    <2>2. i.node \notin W(i.depth - 1)
      <3> SUFFICES ASSUME i.node \in W(i.depth - 1) PROVE FALSE
        OBVIOUS
      <3>1. PICK j \in Reached : j.node = i.node /\ j.depth <= i.depth - 1
        BY <2>1, <1>2, <1>7
      <3>2. j = i
        BY <2>1, <3>1, <1>3
      <3> QED BY <2>1, <3>1, <3>2
    <2>3. i.depth <= c
      <3> SUFFICES ASSUME c <= i.depth - 1 PROVE FALSE
        BY <2>1, <1>4
      <3>1. W(i.depth) \subseteq W(c) /\ W(c) \subseteq W(i.depth - 1)
        BY <2>1, <1>4, <1>5
      <3> QED BY <3>1, <2>1, <2>2
    <2> QED BY <2>1, <2>2, <2>3, <1>2, <1>4
  <1>10. ASSUME NEW k \in depths, NEW t \in W(k) \ W(k - 1)
         PROVE  [node |-> t, depth |-> k] \in affected
    <2>1. k \in Nat /\ k - 1 \in Nat /\ k <= Limit /\ k # 0
      BY <1>2, <1>4
    <2>2. PICK i \in Reached : i.node = t /\ i.depth <= k
      BY <2>1, <1>7
    <2>3. i.depth \in Nat /\ i.node \in W(i.depth) /\ i = [node |-> i.node, depth |-> i.depth]
      BY <1>2, <1>8 DEF Item
    <2>4. i.depth = k
      <3> SUFFICES ASSUME i.depth <= k - 1 PROVE FALSE
        BY <2>1, <2>2, <2>3
      <3>1. W(i.depth) \subseteq W(k - 1)
        BY <2>1, <2>3, <1>5
      <3> QED BY <3>1, <2>2, <2>3
    <2> QED BY <2>1, <2>2, <2>3, <2>4 DEF Reached
  <1>11. \A i \in affected : i = [node |-> i.node, depth |-> i.depth]
    BY <1>2 DEF Item
  <1> HIDE DEF depths
  <1>12. affected \subseteq UNION {[node : W(k) \ W(k - 1), depth : {k}] : k \in depths}
    <2> SUFFICES ASSUME NEW i \in affected
                 PROVE  \E k \in depths : i \in [node : W(k) \ W(k - 1), depth : {k}]
      OBVIOUS
    <2>1. i \in [node : W(i.depth) \ W(i.depth - 1), depth : {i.depth}]
      BY <1>9, <1>11
    <2> QED BY <2>1, <1>9
  <1>13. ASSUME NEW k \in depths, NEW i \in [node : W(k) \ W(k - 1), depth : {k}]
         PROVE  i \in affected
    BY <1>10
  <1> QED BY <1>12, <1>13 DEF depths

\* Of any file, from any node and with any limit: what the command lists is every node
\* that the file says is affected within the limit, at its distance, and nothing else.
THEOREM RadiusAlwaysExact == RadiusSpec => []RadiusIsExact
  <1> DEFINE Built == file \in StateFiles /\ graph = FromState(file)
  <1>1. RadiusInit => Built
    BY DEF RadiusInit, Load
  <1>2. Built /\ [RadiusNext]_radiusVars => Built'
    BY DEF RadiusNext, RadiusProceeds, AskRadius, LookAt, Take, FinishRadius, Cancel, radiusVars, loaded
  <1>3. RadiusInv /\ RadiusIsLayered /\ Built => RadiusIsExact
    BY LayersAreDistances
  <1> QED BY <1>1, <1>2, <1>3, RadiusInvariant, RadiusLayered, PTL DEF RadiusSpec

-----------------------------------------------------------------------------
(* The query *)

Near(k) == WithinHops(Hops(query), query.start, k)

Open(frame) == frame.down \cup frame.up

AlongEdges(frame) ==
    /\ \A t \in frame.down : <<frame.node, t>> \in graph.edges
    /\ \A t \in frame.up : <<t, frame.node>> \in graph.edges

\* The frames on the stack are a chain of hops from the start, and have hops left only
\* above the bound.
StackIsAChain ==
    \A i \in DOMAIN stack :
        /\ stack[i].depth = i - 1
        /\ stack[i].node \in seen /\ stack[i].node \in Near(i - 1)
        /\ Open(stack[i]) \subseteq Hops(query)[stack[i].node]
        /\ Open(stack[i]) # {} => i - 1 < query.maxDepth
        /\ AlongEdges(stack[i])

NoneIsOpenTwice == \A i, j \in DOMAIN stack : stack[i].node = stack[j].node => i = j

\* They are a way from the start.
StackIsAWay ==
    \A i \in DOMAIN stack :
        IF i = 1 THEN stack[i].node = query.start
        ELSE stack[i].node \in Hops(query)[stack[i - 1].node]

\* A way that is as long as the bound leads to n.
Detoured(n) == Ways(Hops(query), query.start, n, query.maxDepth) # {}

\* Where a hop from a visited node leads has been visited, or a frame still has it, or
\* the node was met at the bound.
NoHopIsLost ==
    \A n \in seen : \A l \in Hops(query)[n] :
        \/ l \in seen
        \/ \E i \in DOMAIN stack : stack[i].node = n /\ l \in Open(stack[i])
        \/ Detoured(n)

QueryInv ==
    /\ file \in StateFiles /\ graph = FromState(file)
    /\ QueryTypeOK
    /\ asked = "idle" => stack = <<>> /\ seen = {} /\ answer = {}
    /\ asked = "done" => stack = <<>>
    /\ asked # "idle" =>
          /\ query.start \in seen
          /\ StackIsAChain /\ StackIsAWay /\ NoneIsOpenTwice
          /\ seen \ {query.start} \subseteq Near(query.maxDepth)
          /\ answer = {n \in seen \ {query.start} : Matches(NodeType(n), query.nodes)}
          /\ NoHopIsLost

LEMMA HopsType ==
  ASSUME file \in StateFiles, graph = FromState(file), NEW q \in Queries
  PROVE  /\ Hops(q) \in [graph.nodes -> SUBSET graph.nodes] /\ IsFiniteSet(graph.nodes)
         /\ q.maxDepth \in Nat
         /\ \A n \in graph.nodes, d \in Nat : Open(Enter(q, n, d)) =
                IF d < q.maxDepth THEN Hops(q)[n] ELSE {}
         /\ \A n \in graph.nodes, d \in Nat : Enter(q, n, d) \in Frames /\ AlongEdges(Enter(q, n, d))
  <1> DEFINE next == AffectedBy(file)
  <1>1. /\ next \in [graph.nodes -> SUBSET graph.nodes] /\ IsFiniteSet(graph.nodes)
        /\ \A a \in graph.nodes : next[a] = Dependents(a)
    BY HopsOfTheFile
  <1>2. /\ q.direction \in {"upstream", "downstream", "both"} /\ q.maxDepth \in Nat
    BY QueryAssumption
  <1>3. \A n \in graph.nodes :
           Hops(q)[n] = {l \in graph.nodes :
                        \/ /\ q.direction # "upstream"
                           /\ l \in next[n] /\ Matches(EdgeType(<<n, l>>), q.edges)
                        \/ /\ q.direction # "downstream"
                           /\ n \in next[l] /\ Matches(EdgeType(<<l, n>>), q.edges)}
    BY DEF Hops
  <1>4. Hops(q) \in [graph.nodes -> SUBSET graph.nodes]
    BY DEF Hops
  <1> HIDE DEF next
  <1>5. ASSUME NEW n \in graph.nodes, NEW d \in Nat
        PROVE  Open(Enter(q, n, d)) = IF d < q.maxDepth THEN Hops(q)[n] ELSE {}
    <2>1. \A l \in graph.nodes : /\ l \in next[n] <=> l \in Dependents(n)
                                 /\ n \in next[l] <=> l \in Dependencies(n)
      BY <1>1, <1>5 DEF Dependents, Dependencies
    <2>2. Dependents(n) \subseteq graph.nodes /\ Dependencies(n) \subseteq graph.nodes
      BY DEF Dependents, Dependencies
    <2>3. q.direction \in {"downstream", "both"} <=> q.direction # "upstream"
      BY <1>2
    <2>4. q.direction \in {"upstream", "both"} <=> q.direction # "downstream"
      BY <1>2
    <2>5. CASE d < q.maxDepth
      BY <2>1, <2>2, <2>3, <2>4, <2>5, <1>3, <1>5 DEF Open, Enter
    <2>6. CASE ~ (d < q.maxDepth)
      BY <2>6 DEF Open, Enter
    <2> QED BY <2>5, <2>6
  <1>6. \A n \in graph.nodes, d \in Nat : Enter(q, n, d) \in Frames /\ AlongEdges(Enter(q, n, d))
    BY DEF Enter, Frames, Dependents, Dependencies, AlongEdges
  <1> QED BY <1>1, <1>2, <1>4, <1>5, <1>6

LEMMA AskKeepsQuery ==
  ASSUME QueryInv, NEW q \in Queries, AskQuery(q)
  PROVE  QueryInv'
  <1> DEFINE first == Enter(q, q.start, 0)
             near(k) == WithinHops(Hops(q), q.start, k)
  <1>1. file' \in StateFiles /\ graph' = FromState(file')
    BY DEF QueryInv, AskQuery, loaded
  <1>2. /\ query' = q /\ asked' = "running" /\ seen' = {q.start} /\ q.start \in graph.nodes
        /\ graph' = graph /\ file' = file /\ answer' = {} /\ followed' = followed
        /\ stack' = <<first>>
    BY DEF QueryInv, AskQuery, loaded
  <1>3. /\ Hops(q) \in [graph.nodes -> SUBSET graph.nodes] /\ q.maxDepth \in Nat
        /\ Open(first) = IF 0 < q.maxDepth THEN Hops(q)[q.start] ELSE {}
        /\ first \in Frames /\ AlongEdges(first)
    BY <1>2, HopsType DEF QueryInv
  <1>4. first.node = q.start /\ first.depth = 0
    BY DEF Enter
  <1>5. Hops(query)' = Hops(q)
    BY <1>2 DEF Hops
  <1>6. \A k : Near(k)' = near(k)
    BY <1>2, <1>5 DEF Near
  <1>7. near(0) = {q.start}
    BY HopsStep
  <1>8. QueryTypeOK'
    <2>1. stack' \in Seq(Frames)' /\ seen' \subseteq graph.nodes' /\ graph.edges' = graph.edges
      BY <1>2, <1>3 DEF Frames
    <2> QED BY <2>1, <1>2 DEF QueryInv, QueryTypeOK
  <1> HIDE DEF first, near
  <1>9. StackIsAChain'
    <2> SUFFICES ASSUME NEW i \in DOMAIN stack'
                 PROVE  /\ stack'[i].depth = i - 1
                        /\ stack'[i].node \in seen' /\ stack'[i].node \in Near(i - 1)'
                        /\ Open(stack'[i]) \subseteq Hops(query)'[stack'[i].node]
                        /\ Open(stack'[i]) # {} => i - 1 < query'.maxDepth
                        /\ AlongEdges(stack'[i])
      BY <1>2 DEF StackIsAChain, Open, AlongEdges
    <2>1. i = 1 /\ stack'[i] = first
      BY <1>2
    <2>2. 1 - 1 = 0
      OBVIOUS
    <2> QED BY <2>1, <2>2, <1>2, <1>3, <1>4, <1>5, <1>6, <1>7
  <1>10. NoneIsOpenTwice'
    BY <1>2 DEF NoneIsOpenTwice
  <1>11. NoHopIsLost'
    <2> SUFFICES ASSUME NEW l \in Hops(query)'[q.start]
                 PROVE  \/ \E i \in DOMAIN stack' : stack'[i].node = q.start /\ l \in Open(stack'[i])
                        \/ Detoured(q.start)'
      BY <1>2 DEF NoHopIsLost, Open
    <2>1. CASE 0 < q.maxDepth
      <3>1. Open(first) = Hops(q)[q.start]
        BY <2>1, <1>3
      <3>2. stack'[1] = first /\ 1 \in DOMAIN stack'
        BY <1>2
      <3> QED BY <3>1, <3>2, <1>4, <1>5
    <2>2. CASE ~ (0 < q.maxDepth)
      <3> DEFINE way == [i \in 0..0 |-> q.start]
      <3>1. q.maxDepth = 0
        BY <2>2, <1>3
      <3>2. /\ way \in [0..0 -> graph.nodes] /\ way[0] = q.start
            /\ \A i \in 1..0 : way[i] \in Hops(q)[way[i - 1]]
            /\ \A i, j \in 0..0 : way[i] = way[j] => i = j
        BY <1>2
      <3> HIDE DEF way
      <3>3. way \in Ways(Hops(q), q.start, q.start, 0)
        BY <3>2 DEF Ways
      <3>4. way \in Ways(Hops(query), query.start, q.start, query.maxDepth)'
        BY <3>1, <3>3, <1>2, <1>5 DEF Ways
      <3> QED BY <3>4 DEF Detoured
    <2> QED BY <2>1, <2>2
  <1>13. StackIsAWay'
    BY <1>2, <1>4 DEF StackIsAWay
  <1>12. /\ query'.start \in seen' /\ seen' \ {query'.start} = {}
         /\ answer' = {n \in seen' \ {query'.start} : Matches(NodeType(n), query'.nodes)}
    BY <1>2
  <1> QED BY <1>1, <1>2, <1>8, <1>9, <1>10, <1>11, <1>12, <1>13 DEF QueryInv

LEMMA TopIsAFrame ==
  ASSUME QueryInv, asked = "running", stack # <<>>
  PROVE  Top \in Frames /\ AlongEdges(Top)
  <1>1. stack \in Seq(Frames) /\ StackIsAChain
    BY DEF QueryInv, QueryTypeOK
  <1>2. Len(stack) \in DOMAIN stack /\ Top = stack[Len(stack)]
    BY <1>1 DEF Top
  <1> QED BY <1>1, <1>2 DEF StackIsAChain

LEMMA ReturnKeepsQuery ==
  ASSUME QueryInv, Return
  PROVE  QueryInv'
  <1>1. /\ UNCHANGED <<file, graph, query, seen, answer, followed>>
        /\ asked = "running" /\ stack # <<>> /\ Open(Top) = {}
        /\ stack' = SubSeq(stack, 1, Len(stack) - 1)
        /\ asked' = IF Len(stack) = 1 THEN "done" ELSE "running"
    BY DEF Return, loaded, Open
  <1>2. stack \in Seq(Frames) /\ Len(stack) \in Nat /\ DOMAIN stack = 1..Len(stack) /\ Len(stack) # 0
    BY <1>1 DEF QueryInv, QueryTypeOK
  <1>3. /\ stack' \in Seq(Frames) /\ DOMAIN stack' = 1..(Len(stack) - 1)
        /\ \A i \in DOMAIN stack' : i \in DOMAIN stack /\ stack'[i] = stack[i]
        /\ Len(stack) = 1 => stack' = <<>>
    BY <1>1, <1>2
  <1>4. Hops(query)' = Hops(query)
    BY <1>1 DEF Hops
  <1>5. \A k : Near(k)' = Near(k)
    BY <1>1, <1>4 DEF Near
  <1>6. QueryTypeOK'
    BY <1>1, <1>3 DEF QueryInv, QueryTypeOK, Frames
  <1>7. /\ StackIsAChain /\ StackIsAWay /\ NoneIsOpenTwice /\ query.start \in seen
        /\ seen \ {query.start} \subseteq Near(query.maxDepth)
        /\ answer = {n \in seen \ {query.start} : Matches(NodeType(n), query.nodes)}
        /\ NoHopIsLost
    BY <1>1 DEF QueryInv
  <1>8. StackIsAChain'
    <2> SUFFICES ASSUME NEW i \in DOMAIN stack'
                 PROVE  /\ stack'[i].depth = i - 1
                        /\ stack'[i].node \in seen' /\ stack'[i].node \in Near(i - 1)'
                        /\ Open(stack'[i]) \subseteq Hops(query)'[stack'[i].node]
                        /\ Open(stack'[i]) # {} => i - 1 < query'.maxDepth
                        /\ AlongEdges(stack'[i])
      BY <1>1 DEF StackIsAChain, Open, AlongEdges
    <2> QED BY <1>1, <1>3, <1>4, <1>5, <1>7 DEF StackIsAChain
  <1>9. NoneIsOpenTwice'
    BY <1>3, <1>7 DEF NoneIsOpenTwice
  <1>10. NoHopIsLost'
    <2>1. \A n : Detoured(n) => Detoured(n)'
      BY <1>1, <1>4 DEF Detoured, Ways
    <2> SUFFICES ASSUME NEW n \in seen, NEW l \in Hops(query)[n], l \notin seen, ~Detoured(n)
                 PROVE  \E i \in DOMAIN stack' : stack'[i].node = n /\ l \in Open(stack'[i])
      BY <2>1, <1>1, <1>4 DEF NoHopIsLost, Open
    <2>2. PICK i \in DOMAIN stack : stack[i].node = n /\ l \in Open(stack[i])
      BY <1>7 DEF NoHopIsLost
    <2>3. i # Len(stack)
      BY <2>2, <1>1 DEF Top
    <2>4. i \in DOMAIN stack'
      BY <2>3, <1>2, <1>3
    <2> QED BY <2>2, <2>4, <1>3
  <1>12. StackIsAWay'
    <2> SUFFICES ASSUME NEW i \in DOMAIN stack'
                 PROVE  IF i = 1 THEN stack'[i].node = query.start
                        ELSE stack'[i].node \in Hops(query)[stack'[i - 1].node]
      BY <1>1, <1>4 DEF StackIsAWay
    <2>1. stack'[i] = stack[i] /\ i \in DOMAIN stack
      BY <1>3
    <2>2. i # 1 => stack'[i - 1] = stack[i - 1]
      BY <1>2, <1>3
    <2> QED BY <2>1, <2>2, <1>7 DEF StackIsAWay
  <1>11. Near(query.maxDepth)' = Near(query.maxDepth)
    BY <1>1, <1>4 DEF Near
  <1> QED BY <1>1, <1>3, <1>6, <1>7, <1>8, <1>9, <1>10, <1>11, <1>12 DEF QueryInv

\* A node that is met first with the stack as long as the bound is at the end of a way
\* as long as the bound.
LEMMA StackDetours ==
  ASSUME QueryInv, asked = "running", stack # <<>>, NEW t \in Open(Top), t \notin seen,
         Len(stack) = query.maxDepth
  PROVE  Detoured(t)
  <1> DEFINE m == Len(stack)
             way == [i \in 0..m |-> IF i = m THEN t ELSE stack[i + 1].node]
  <1>1. /\ stack \in Seq(Frames) /\ m \in Nat \ {0} /\ DOMAIN stack = 1..m
        /\ Top = stack[m] /\ seen \subseteq graph.nodes
        /\ StackIsAChain /\ StackIsAWay /\ NoneIsOpenTwice
    BY DEF QueryInv, QueryTypeOK, Top
  <1>2. t \in graph.nodes
    <2>1. Top \in Frames
      BY <1>1
    <2>2. t \in Open(Top)
      OBVIOUS
    <2> QED BY <2>1, <2>2 DEF Frames, Open
  <1>3. \A i \in 1..m : stack[i].node \in seen /\ stack[i].node \in graph.nodes
    BY <1>1 DEF StackIsAChain
  <1>4. t \in Hops(query)[stack[m].node]
    BY <1>1 DEF StackIsAChain
  <1>5. \A i \in 0..m : i # m => i + 1 \in 1..m
    BY <1>1
  <1>6. way \in [0..m -> graph.nodes]
    BY <1>2, <1>3, <1>5
  <1>7. \A i \in 0..m : way[i] = IF i = m THEN t ELSE stack[i + 1].node
    OBVIOUS
  <1>8. 0 \in 0..m /\ m \in 0..m /\ 0 # m
    BY <1>1
  <1> HIDE DEF way, m
  <1>9. way[0] = query.start /\ way[m] = t
    <2>1. stack[1].node = query.start
      BY <1>1 DEF StackIsAWay
    <2> QED BY <2>1, <1>7, <1>8
  <1>10. ASSUME NEW i \in 1..m PROVE way[i] \in Hops(query)[way[i - 1]]
    <2>1. i - 1 \in 0..m /\ i - 1 # m /\ (i - 1) + 1 = i /\ i \in 0..m
      BY <1>1
    <2>2. way[i - 1] = stack[i].node
      BY <2>1, <1>7
    <2>3. CASE i = m
      BY <2>2, <2>3, <1>4, <1>9
    <2>4. CASE i # m
      <3>1. i + 1 \in 1..m /\ i + 1 # 1 /\ (i + 1) - 1 = i
        BY <2>4, <1>1
      <3>2. stack[i + 1].node \in Hops(query)[stack[i].node]
        BY <3>1, <1>1 DEF StackIsAWay
      <3> QED BY <3>2, <2>1, <2>2, <2>4, <1>7
    <2> QED BY <2>3, <2>4
  <1>11. ASSUME NEW i \in 0..m, NEW j \in 0..m, way[i] = way[j] PROVE i = j
    <2>1. CASE i = m /\ j # m
      BY <2>1, <1>3, <1>5, <1>7, <1>11
    <2>2. CASE i # m /\ j = m
      BY <2>2, <1>3, <1>5, <1>7, <1>11
    <2>3. CASE i # m /\ j # m
      <3>1. i + 1 \in DOMAIN stack /\ j + 1 \in DOMAIN stack
        BY <2>3, <1>1, <1>5
      <3>2. stack[i + 1].node = stack[j + 1].node
        BY <2>3, <1>7, <1>11
      <3>3. i + 1 = j + 1
        BY <3>1, <3>2, <1>1 DEF NoneIsOpenTwice
      <3> QED BY <3>3, <1>1
    <2> QED BY <2>1, <2>2, <2>3
  <1>12. way \in Ways(Hops(query), query.start, t, m)
    BY <1>6, <1>9, <1>10, <1>11 DEF Ways
  <1> QED BY <1>12 DEF Detoured, m

\* What a frame loses when a hop of it is followed is that hop.
LEMMA VisitKeepsQuery ==
  ASSUME QueryInv, asked = "running", stack # <<>>, NEW t \in Open(Top), NEW rest \in Frames,
         rest.node = Top.node, rest.depth = Top.depth,
         rest.down \subseteq Top.down, rest.up \subseteq Top.up,
         \A l \in Open(Top) : l = t \/ l \in Open(rest),
         Visit(t, rest), followed' \subseteq graph.edges, UNCHANGED <<loaded, asked, query>>
  PROVE  QueryInv'
  <1> DEFINE m == Len(stack)
             kept == [stack EXCEPT ![m] = rest]
             entered == Enter(query, t, Top.depth + 1)
             N == graph.nodes
  <1>1. UNCHANGED <<file, graph, asked, query>>
    BY DEF loaded
  <1>2. /\ QueryTypeOK /\ file \in StateFiles /\ graph = FromState(file)
        /\ StackIsAChain /\ StackIsAWay /\ NoneIsOpenTwice /\ query.start \in seen
        /\ seen \ {query.start} \subseteq Near(query.maxDepth)
        /\ answer = {n \in seen \ {query.start} : Matches(NodeType(n), query.nodes)}
        /\ NoHopIsLost
    BY DEF QueryInv
  <1>3. /\ stack \in Seq(Frames) /\ m \in Nat \ {0} /\ DOMAIN stack = 1..m
        /\ Top = stack[m] /\ Top \in Frames /\ query \in Queries /\ seen \subseteq N
    BY <1>2 DEF QueryTypeOK, Top
  <1>4. /\ Top.depth = m - 1 /\ Top.node \in seen /\ Top.node \in Near(m - 1)
        /\ Open(Top) \subseteq Hops(query)[Top.node] /\ m - 1 < query.maxDepth /\ AlongEdges(Top)
    BY <1>2, <1>3 DEF StackIsAChain
  <1>5. /\ kept \in Seq(Frames) /\ Len(kept) = m /\ DOMAIN kept = 1..m
        /\ kept[m] = rest /\ \A i \in 1..m : i # m => kept[i] = stack[i]
    BY <1>3
  <1>6. /\ Hops(query) \in [N -> SUBSET N] /\ IsFiniteSet(N) /\ query.maxDepth \in Nat
        /\ Open(entered) = IF m < query.maxDepth THEN Hops(query)[t] ELSE {}
        /\ entered \in Frames /\ AlongEdges(entered) /\ t \in N
        /\ entered.node = t /\ entered.depth = m
    <2>1. t \in N
      BY <1>3 DEF Frames, Open
    <2>2. Top.depth + 1 = m /\ m \in Nat
      BY <1>3, <1>4
    <2> QED BY <1>2, <1>3, <2>1, <2>2, HopsType DEF Enter
  <1>7. Hops(query)' = Hops(query)
    BY <1>1 DEF Hops
  <1>8. \A k : Near(k)' = Near(k)
    BY <1>1, <1>7 DEF Near
  <1>9. t \in Near(m)
    <2>1. \A k \in Nat : Near(k + 1) = Wider(Hops(query), Near(k))
      BY HopsStep DEF Near
    <2>2. m - 1 \in Nat /\ (m - 1) + 1 = m
      BY <1>3
    <2>3. Near((m - 1) + 1) = Wider(Hops(query), Near(m - 1))
      BY <2>1, <2>2
    <2> QED BY <2>2, <2>3, <1>4 DEF Wider
  <1> HIDE DEF m, kept, entered, N
  <1>10. /\ Open(rest) \subseteq Open(Top) /\ AlongEdges(rest)
    BY <1>4 DEF Open, AlongEdges
  <1>11. ASSUME NEW i \in 1..m
         PROVE  /\ kept[i].depth = i - 1 /\ kept[i].node = stack[i].node
                /\ kept[i].node \in seen /\ kept[i].node \in Near(i - 1)
                /\ Open(kept[i]) \subseteq Hops(query)[kept[i].node]
                /\ Open(kept[i]) # {} => i - 1 < query.maxDepth
                /\ AlongEdges(kept[i])
    <2>1. CASE i = m
      BY <2>1, <1>3, <1>4, <1>5, <1>10
    <2>2. CASE i # m
      BY <2>2, <1>2, <1>3, <1>5, <1>11 DEF StackIsAChain
    <2> QED BY <2>1, <2>2
  <1>12. ASSUME NEW n \in seen, NEW l \in Hops(query)[n], l \notin seen, l # t, ~Detoured(n)
         PROVE  \E i \in 1..m : kept[i].node = n /\ l \in Open(kept[i])
    <2>1. PICK i \in 1..m : stack[i].node = n /\ l \in Open(stack[i])
      BY <1>2, <1>12, <1>3 DEF NoHopIsLost
    <2>2. l \in Open(kept[i])
      <3>1. CASE i = m
        BY <3>1, <2>1, <1>3, <1>5, <1>12
      <3>2. CASE i # m
        BY <3>2, <2>1, <1>5
      <3> QED BY <3>1, <3>2
    <2> QED BY <2>1, <2>2, <1>11
  <1>15. \A n : Detoured(n) => Detoured(n)'
    BY <1>1, <1>7 DEF Detoured, Ways
  <1>16. ASSUME NEW i \in 1..m
         PROVE  IF i = 1 THEN kept[i].node = query.start
                ELSE kept[i].node \in Hops(query)[kept[i - 1].node]
    <2>1. i # 1 => i - 1 \in 1..m
      BY <1>3
    <2> QED BY <2>1, <1>2, <1>3, <1>11 DEF StackIsAWay
  <1>13. CASE t \in seen
    <2>1. stack' = kept /\ seen' = seen /\ answer' = answer
      BY <1>13 DEF Visit, m, kept
    <2>2. QueryTypeOK'
      BY <1>1, <1>2, <1>5, <2>1 DEF QueryTypeOK, Frames, N
    <2>3. StackIsAChain'
      BY <1>1, <1>5, <1>7, <1>8, <1>11, <2>1 DEF StackIsAChain, AlongEdges, Open
    <2>4. NoneIsOpenTwice'
      BY <1>2, <1>3, <1>5, <1>11, <2>1 DEF NoneIsOpenTwice
    <2>5. NoHopIsLost'
      <3> SUFFICES ASSUME NEW n \in seen, NEW l \in Hops(query)[n], l \notin seen, ~Detoured(n)
                   PROVE  \E i \in DOMAIN stack' : stack'[i].node = n /\ l \in Open(stack'[i])
        BY <1>7, <1>15, <2>1 DEF NoHopIsLost, Open
      <3>1. l # t
        BY <1>13
      <3> QED BY <3>1, <1>12, <1>5, <2>1
    <2>7. StackIsAWay'
      BY <1>1, <1>5, <1>7, <1>16, <2>1 DEF StackIsAWay
    <2>6. Near(query.maxDepth)' = Near(query.maxDepth)
      BY <1>1, <1>7 DEF Near
    <2> QED BY <1>1, <1>2, <2>1, <2>2, <2>3, <2>4, <2>5, <2>6, <2>7 DEF QueryInv, N
  <1>14. CASE t \notin seen
    <2>1. /\ stack' = Append(kept, entered) /\ seen' = seen \cup {t}
          /\ answer' = IF Matches(NodeType(t), query.nodes) THEN answer \cup {t} ELSE answer
      BY <1>14 DEF Visit, m, kept, entered
    <2>2. /\ stack' \in Seq(Frames) /\ DOMAIN stack' = 1..(m + 1) /\ stack'[m + 1] = entered
          /\ \A i \in 1..m : stack'[i] = kept[i]
      BY <1>3, <1>5, <1>6, <2>1
    <2>3. QueryTypeOK'
      BY <1>1, <1>2, <1>6, <2>1, <2>2 DEF QueryTypeOK, Frames, N
    <2>4. StackIsAChain'
      <3> SUFFICES ASSUME NEW i \in 1..(m + 1)
                   PROVE  /\ stack'[i].depth = i - 1
                          /\ stack'[i].node \in seen' /\ stack'[i].node \in Near(i - 1)
                          /\ Open(stack'[i]) \subseteq Hops(query)[stack'[i].node]
                          /\ Open(stack'[i]) # {} => i - 1 < query.maxDepth
                          /\ AlongEdges(stack'[i])
        BY <1>1, <1>7, <1>8, <2>2 DEF StackIsAChain, AlongEdges, Open
      <3>1. CASE i \in 1..m
        BY <3>1, <1>11, <2>1, <2>2
      <3>2. CASE i = m + 1
        <4>1. (m + 1) - 1 = m
          BY <1>3
        <4> QED BY <3>2, <4>1, <1>6, <1>9, <2>1, <2>2
      <3> QED BY <3>1, <3>2, <1>3
    <2>5. NoneIsOpenTwice'
      <3>1. \A i \in 1..m : stack'[i].node = stack[i].node /\ stack[i].node # t
        BY <1>11, <1>14, <2>2
      <3>2. stack'[m + 1].node = t
        BY <1>6, <2>2
      <3>3. \A i, j \in 1..m : stack[i].node = stack[j].node => i = j
        BY <1>2, <1>3 DEF NoneIsOpenTwice
      <3>4. \A i \in 1..(m + 1) : i \in 1..m \/ i = m + 1
        BY <1>3
      <3> QED BY <2>2, <3>1, <3>2, <3>3, <3>4 DEF NoneIsOpenTwice
    <2>6. NoHopIsLost'
      <3>1. m < query.maxDepth \/ Detoured(t)
        <4>1. m < query.maxDepth \/ m = query.maxDepth
          BY <1>3, <1>4, <1>6
        <4>2. asked = "running" /\ stack # <<>> /\ t \in Open(Top) /\ t \notin seen
          BY <1>14
        <4> QED BY <4>1, <4>2, StackDetours DEF m
      <3> SUFFICES ASSUME NEW n \in seen', NEW l \in Hops(query)[n], l \notin seen', ~Detoured(n)
                   PROVE  \E i \in 1..(m + 1) : stack'[i].node = n /\ l \in Open(stack'[i])
        BY <1>7, <1>15, <2>2 DEF NoHopIsLost, Open
      <3>3. CASE n = t
        <4>1. stack'[m + 1].node = t /\ l \in Open(stack'[m + 1]) /\ m + 1 \in 1..(m + 1)
          BY <3>1, <3>3, <1>3, <1>6, <2>2
        <4> QED BY <4>1, <3>3
      <3>4. CASE n # t
        <4>1. n \in seen /\ l \notin seen /\ l # t
          BY <3>4, <2>1
        <4>2. PICK i \in 1..m : kept[i].node = n /\ l \in Open(kept[i])
          BY <4>1, <1>12
        <4>3. i \in 1..(m + 1)
          BY <1>3
        <4> QED BY <4>2, <4>3, <2>2
      <3> QED BY <3>3, <3>4
    <2>10. StackIsAWay'
      <3> SUFFICES ASSUME NEW i \in 1..(m + 1)
                   PROVE  IF i = 1 THEN stack'[i].node = query.start
                          ELSE stack'[i].node \in Hops(query)[stack'[i - 1].node]
        BY <1>1, <1>7, <2>2 DEF StackIsAWay
      <3>1. CASE i \in 1..m
        <4>1. i # 1 => i - 1 \in 1..m
          BY <3>1, <1>3
        <4> QED BY <3>1, <4>1, <1>16, <2>2
      <3>2. CASE i = m + 1
        <4>1. (m + 1) - 1 = m /\ m \in 1..m /\ m + 1 # 1
          BY <1>3
        <4>2. stack'[m].node = Top.node /\ stack'[m + 1].node = t
          BY <4>1, <1>3, <1>6, <1>11, <2>2
        <4> QED BY <3>2, <4>1, <4>2, <1>4
      <3> QED BY <3>1, <3>2, <1>3
    <2>7. seen' \ {query.start} \subseteq Near(query.maxDepth)
      <3>1. Near(m) \subseteq Near(query.maxDepth)
        BY <1>3, <1>4, <1>6, HopsGrow DEF Near
      <3> QED BY <3>1, <1>2, <1>9, <2>1
    <2>8. answer' = {n \in seen' \ {query.start} : Matches(NodeType(n), query.nodes)}
      BY <1>2, <1>14, <2>1
    <2>9. Near(query.maxDepth)' = Near(query.maxDepth)
      BY <1>1, <1>7 DEF Near
    <2> QED BY <1>1, <1>2, <2>1, <2>3, <2>4, <2>5, <2>6, <2>7, <2>8, <2>9, <2>10 DEF QueryInv, N
  <1> QED BY <1>13, <1>14

THEOREM QueryInvariant == QuerySpec => []QueryInv
  <1>1. QueryInit => QueryInv
    <2> SUFFICES ASSUME QueryInit PROVE QueryInv
      OBVIOUS
    <2> QED BY DEF QueryInit, Load, QueryInv, QueryTypeOK
  <1>2. QueryInv /\ [QueryNext]_queryVars => QueryInv'
    <2> SUFFICES ASSUME QueryInv, [QueryNext]_queryVars PROVE QueryInv'
      OBVIOUS
    <2>1. CASE \E q \in Queries : AskQuery(q)
      BY <2>1, AskKeepsQuery
    <2>2. CASE FollowDown
      <3>1. PICK t \in Top.down : /\ followed' = followed \cup {<<Top.node, t>>}
                                  /\ Visit(t, [Top EXCEPT !.down = @ \ {t}])
        BY <2>2 DEF FollowDown
      <3>2. stack # <<>> /\ asked = "running" /\ UNCHANGED <<loaded, asked, query>>
        BY <2>2 DEF FollowDown
      <3>3. Top \in Frames /\ AlongEdges(Top) /\ followed \subseteq graph.edges
        BY <3>2, TopIsAFrame DEF QueryInv, QueryTypeOK
      <3> DEFINE rest == [Top EXCEPT !.down = @ \ {t}]
      <3>4. /\ rest \in Frames /\ rest.node = Top.node /\ rest.depth = Top.depth
            /\ rest.down = Top.down \ {t} /\ rest.up = Top.up
        BY <3>3 DEF Frames
      <3>5. t \in Open(Top) /\ \A l \in Open(Top) : l = t \/ l \in Open(rest)
        BY <3>4 DEF Open
      <3>6. followed' \subseteq graph.edges
        BY <3>1, <3>3 DEF AlongEdges
      <3>7. Visit(t, rest)
        BY <3>1
      <3> HIDE DEF rest
      <3> QED BY <3>2, <3>4, <3>5, <3>6, <3>7, VisitKeepsQuery
    <2>3. CASE FollowUp
      <3>1. PICK t \in Top.up : /\ followed' = followed \cup {<<t, Top.node>>}
                                /\ Visit(t, [Top EXCEPT !.up = @ \ {t}])
        BY <2>3 DEF FollowUp
      <3>2. stack # <<>> /\ asked = "running" /\ UNCHANGED <<loaded, asked, query>>
        BY <2>3 DEF FollowUp
      <3>3. Top \in Frames /\ AlongEdges(Top) /\ followed \subseteq graph.edges
        BY <3>2, TopIsAFrame DEF QueryInv, QueryTypeOK
      <3> DEFINE rest == [Top EXCEPT !.up = @ \ {t}]
      <3>4. /\ rest \in Frames /\ rest.node = Top.node /\ rest.depth = Top.depth
            /\ rest.down = Top.down /\ rest.up = Top.up \ {t}
        BY <3>3 DEF Frames
      <3>5. t \in Open(Top) /\ \A l \in Open(Top) : l = t \/ l \in Open(rest)
        BY <3>4 DEF Open
      <3>6. followed' \subseteq graph.edges
        BY <3>1, <3>3 DEF AlongEdges
      <3>7. Visit(t, rest)
        BY <3>1
      <3> HIDE DEF rest
      <3> QED BY <3>2, <3>4, <3>5, <3>6, <3>7, VisitKeepsQuery
    <2>4. CASE Return
      BY <2>4, ReturnKeepsQuery
    <2>5. CASE UNCHANGED queryVars
      <3>1. UNCHANGED <<file, graph, asked, query, stack, seen, answer, followed>>
        BY <2>5 DEF queryVars, queryLocals, loaded
      <3>2. Hops(query)' = Hops(query)
        BY <3>1 DEF Hops
      <3>3. (\A k : Near(k)' = Near(k)) /\ Near(query.maxDepth)' = Near(query.maxDepth)
        BY <3>1, <3>2 DEF Near
      <3>4. StackIsAChain => StackIsAChain'
        BY <3>1, <3>2, <3>3 DEF StackIsAChain, Open, AlongEdges
      <3>5. NoneIsOpenTwice => NoneIsOpenTwice'
        BY <3>1 DEF NoneIsOpenTwice
      <3>8. \A n : Detoured(n)' <=> Detoured(n)
        BY <3>1, <3>2 DEF Detoured, Ways
      <3>9. StackIsAWay => StackIsAWay'
        BY <3>1, <3>2 DEF StackIsAWay
      <3>6. NoHopIsLost => NoHopIsLost'
        BY <3>1, <3>2, <3>8 DEF NoHopIsLost, Open
      <3>7. QueryTypeOK => QueryTypeOK'
        BY <3>1 DEF QueryTypeOK, Frames
      <3> QED BY <3>1, <3>3, <3>4, <3>5, <3>6, <3>7, <3>9 DEF QueryInv
    <2> QED BY <2>1, <2>2, <2>3, <2>4, <2>5 DEF QueryNext, QueryProceeds
  <1> QED BY <1>1, <1>2, PTL DEF QuerySpec

\* Whatever the call met first, and however the cycles of the file lead it: a query
\* answers with nodes within its depth only, and with all of them unless a node that is
\* nearer is also at the end of a way that is as long as its depth (graph/graph.go:318-358).
THEOREM QueryAlwaysFaithful == QuerySpec => []QueryIsFaithful
  <1>1. QueryInv => QueryIsFaithful
    <2> SUFFICES ASSUME QueryInv, asked = "done" PROVE QueryIsFaithful
      BY DEF QueryIsFaithful
    <2> DEFINE N == graph.nodes
               d == query.maxDepth
               wanted == {n \in Near(d) \ {query.start} : Matches(NodeType(n), query.nodes)}
    <2>1. /\ file \in StateFiles /\ graph = FromState(file) /\ query \in Queries
          /\ stack = <<>> /\ query.start \in seen /\ seen \subseteq N
          /\ seen \ {query.start} \subseteq Near(query.maxDepth)
          /\ answer = {n \in seen \ {query.start} : Matches(NodeType(n), query.nodes)}
          /\ NoHopIsLost
      BY DEF QueryInv, QueryTypeOK
    <2>2. d \in Nat
      BY <2>1, HopsType
    <2>3. answer \subseteq wanted
      BY <2>1
    <2>4. Near(0) = {query.start} /\ \A k \in Nat : Near(k + 1) = Wider(Hops(query), Near(k))
      BY HopsStep DEF Near
    <2>5. ASSUME \A n \in Near(d - 1) : ~Detoured(n), d # 0 PROVE Near(d) \subseteq seen
      <3> DEFINE S == {k \in Nat : k <= d => Near(k) \subseteq seen}
      <3>1. 0 \in S
        BY <2>1, <2>4
      <3>2. ASSUME NEW k \in Nat, k \in S PROVE k + 1 \in S
        <4> SUFFICES ASSUME k + 1 <= d PROVE Near(k + 1) \subseteq seen
          OBVIOUS
        <4>1. d - 1 \in Nat /\ k <= d - 1 /\ k <= d
          BY <2>2, <2>5
        <4>2. Near(k) \subseteq Near(d - 1)
          BY <4>1, HopsGrow DEF Near
        <4>3. Near(k) \subseteq seen
          BY <3>2, <4>1
        <4>4. \A n \in Near(k) : Hops(query)[n] \subseteq seen
          BY <4>2, <4>3, <2>1, <2>5 DEF NoHopIsLost
        <4>5. Near(k + 1) = Wider(Hops(query), Near(k))
          BY <2>4
        <4> QED BY <4>3, <4>4, <4>5 DEF Wider
      <3> HIDE DEF S
      <3>3. \A k \in Nat : k \in S
        BY <3>1, <3>2, NaturalInduction
      <3> QED BY <3>3, <2>2 DEF S
    <2>6. wanted \subseteq answer \/ \E n \in Near(d - 1) : Detoured(n)
      <3>1. CASE d = 0
        BY <3>1, <2>4
      <3>2. CASE d # 0
        BY <3>2, <2>1, <2>5
      <3> QED BY <3>1, <3>2
    <2> QED BY <2>3, <2>6 DEF QueryIsFaithful, Near, Detoured
  <1> QED BY <1>1, QueryInvariant, PTL

-----------------------------------------------------------------------------
(* The commands together *)

\* A behaviour of the commands is one of each traversal: what is proved of one
\* alone holds of it next to the others.
THEOREM EachIsItself == Spec => RadiusSpec /\ SortSpec /\ QuerySpec
  <1>1. Init => RadiusInit /\ SortInit /\ QueryInit
    BY DEF Init
  <1>2. [Next]_vars => [RadiusNext]_radiusVars /\ [SortNext]_sortVars /\ [QueryNext]_queryVars
    <2> SUFFICES ASSUME [Next]_vars
                 PROVE  [RadiusNext]_radiusVars /\ [SortNext]_sortVars /\ [QueryNext]_queryVars
      OBVIOUS
    <2>1. CASE Asks
      BY <2>1 DEF Asks, RadiusNext, SortNext, QueryNext
    <2>2. CASE Proceeds
      BY <2>2 DEF Proceeds, RadiusNext, SortNext, QueryNext
    <2>3. CASE Cancelled
      BY <2>3 DEF Cancelled, RadiusNext
    <2>4. CASE UNCHANGED vars
      BY <2>4 DEF vars
    <2> QED BY <2>1, <2>2, <2>3, <2>4 DEF Next
  <1> QED BY <1>1, <1>2, PTL DEF Spec, RadiusSpec, SortSpec, QuerySpec

\* The state of every traversal has its type, in whatever order the map of nodes and
\* the lists of edges are ranged over.
THEOREM TraversalsTypeCorrect == Spec => []TypeOK
  <1>1. SortInv => SortTypeOK
    BY DEF SortInv
  <1>2. QueryInv => QueryTypeOK
    BY DEF QueryInv
  <1> QED BY <1>1, <1>2, EachIsItself, RadiusTypeCorrect, SortInvariant, QueryInvariant, PTL DEF TypeOK

\* What every command on the graph answers is right: the four properties together, of
\* the commands next to each other.
THEOREM AnswersAreRight ==
  Spec => [](RadiusIsExact /\ SortIsSafe /\ FailsOnlyOnACycle /\ QueryIsFaithful)
  BY EachIsItself, RadiusAlwaysExact, SortAlwaysSafe, SortTellsCycles, QueryAlwaysFaithful, PTL
=============================================================================
