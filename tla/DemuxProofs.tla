---------------------------- MODULE DemuxProofs ----------------------------
(***************************************************************************)
(* FeatureDemux implements Fanout, for all subscriptions, capacities and   *)
(* numbers of features.                                                    *)
(***************************************************************************)
EXTENDS Demux, TLAPS

\* A subscriber has one place, in the array of one name.
LEMMA OnePlace ==
    ASSUME NEW o \in Outputs
    PROVE  /\ Subscribed[o] \in Names
           /\ \A n \in Names : o \in Range(Queues[n]) <=> n = Subscribed[o]
           /\ \A n \in Names : \A i, j \in DOMAIN Queues[n] :
                  Queues[n][i] = o /\ Queues[n][j] = o => i = j
<1>1. PICK n \in Names : \E i \in DOMAIN Queues[n] :
          /\ Queues[n][i] = o
          /\ \A m \in Names : \A j \in DOMAIN Queues[m] :
                 Queues[m][j] = o => m = n /\ j = i
  BY OutputsAssumption
<1>2. \A m \in Names : o \in Range(Queues[m]) <=> m = n
  BY <1>1 DEF Range
<1>3. Subscribed[o] \in Names /\ o \in Range(Queues[Subscribed[o]])
  BY <1>2 DEF Subscribed
<1> QED
  BY <1>1, <1>2, <1>3

\* What is to be forwarded has been received.
TypeInv == TypeOK /\ (pending # <<>> => input # <<>>)

\* The demux forwards only what it has received, and every variable keeps its
\* type, for all names, outputs and buffers.
THEOREM TypeInvHolds == Spec => []TypeInv
<1> USE CapacityAssumption, InputAssumption
<1>1. Init => TypeInv
  <2> SUFFICES ASSUME Init PROVE TypeOK
    BY DEF Init, TypeInv
  <2>1. <<>> \in Seq(Names) /\ <<>> \in Seq(Outputs)
        /\ <<>> \in Seq(DOMAIN input) /\ Len(<<>>) = 0
    OBVIOUS
  <2>2. /\ queue \in [Outputs -> Seq(DOMAIN input)]
        /\ received \in [Outputs -> Seq(DOMAIN input)]
        /\ \A o \in Outputs : Len(queue[o]) <= Capacity
    BY <2>1 DEF Init
  <2>3. Len(input) <= MaxInput /\ input \in Seq(Names) /\ pending \in Seq(Outputs)
    BY <2>1 DEF Init
  <2> QED
    BY <2>2, <2>3 DEF Init, TypeOK
<1>2. TypeInv /\ [Next]_vars => TypeInv'
  <2> SUFFICES ASSUME TypeInv, [Next]_vars PROVE TypeInv'
    OBVIOUS
  <2>1. ASSUME NEW name \in Names, Offer(name) PROVE TypeInv'
    <3>1. /\ input' \in Seq(Names) /\ Len(input') <= MaxInput /\ input' # <<>>
          /\ DOMAIN input \subseteq DOMAIN input'
      BY <2>1 DEF Offer, TypeInv, TypeOK
    <3>2. pending' \in Seq(Outputs)
      BY <2>1, QueuesAssumption DEF Offer
    <3>3. \A o \in Outputs : queue[o] \in Seq(DOMAIN input')
                             /\ received[o] \in Seq(DOMAIN input')
      BY <3>1 DEF TypeInv, TypeOK
    <3> QED
      BY <2>1, <3>1, <3>2, <3>3 DEF Offer, TypeInv, TypeOK
  <2>2. CASE Close
    BY <2>2 DEF Close, TypeInv, TypeOK
  <2>3. CASE Send
    <3>1. Head(pending) \in Outputs /\ Tail(pending) \in Seq(Outputs)
      BY <2>3 DEF Send, TypeInv, TypeOK
    <3>2. Len(input) \in DOMAIN input
      BY <2>3 DEF Send, TypeInv, TypeOK
    <3>3. queue' \in [Outputs -> Seq(DOMAIN input)]
      BY <2>3, <3>1, <3>2 DEF Send, TypeInv, TypeOK
    <3>4. \A o \in Outputs \ Buffered : Len(queue'[o]) <= Capacity
      BY <2>3, <3>1, <3>2 DEF Send, CanSend, TypeInv, TypeOK
    <3> QED
      BY <2>3, <3>1, <3>2, <3>3, <3>4 DEF Send, TypeInv, TypeOK
  <2>4. ASSUME NEW o \in Outputs, Shut(o) PROVE TypeInv'
    BY <2>4 DEF Shut, TypeInv, TypeOK
  <2>5. ASSUME NEW o \in Outputs, Receive(o) PROVE TypeInv'
    <3>1. /\ queue' \in [Outputs -> Seq(DOMAIN input)]
          /\ received' \in [Outputs -> Seq(DOMAIN input)]
          /\ \A p \in Outputs : Len(queue'[p]) <= Len(queue[p])
      BY <2>5 DEF Receive, TypeInv, TypeOK
    <3> QED
      BY <2>5, <3>1 DEF Receive, TypeInv, TypeOK
  <2>6. ASSUME NEW o \in Outputs, End(o) PROVE TypeInv'
    BY <2>6 DEF End, TypeInv, TypeOK
  <2>7. CASE UNCHANGED vars
    BY <2>7 DEF vars, TypeInv, TypeOK
  <2> QED
    BY <2>1, <2>2, <2>3, <2>4, <2>5, <2>6, <2>7 DEF Next
<1> QED
  BY <1>1, <1>2, PTL DEF Spec

\* TypeOK: no channel ever holds more than it has room for.
THEOREM TypeCorrect == Spec => []TypeOK
BY TypeInvHolds, PTL DEF TypeInv

\* The feature at hand, if it is yet to be sent to the output.
AtHand(o) == IF o \in Range(pending) THEN {Len(input)} ELSE {}

\* What is due to an output is in its queue, in order, or at hand; an output
\* is sent the feature at hand once, and closed when there is none.
Kept ==
    /\ \A o \in Outputs :
           /\ F!Due(o) = Range(queue[o]) \cup AtHand(o)
           /\ Range(queue[o]) \cap AtHand(o) = {}
           /\ \A i, j \in DOMAIN queue[o] : i < j => queue[o][i] < queue[o][j]
    /\ \A i, j \in DOMAIN pending : pending[i] = pending[j] => i = j
    /\ shut # {} => closed /\ pending = <<>>

\* A feature that is taken from the input is due to the outputs of its name.
LEMMA OfferKeeps ==
    ASSUME TypeInv, Kept, NEW name \in Names, Offer(name)
    PROVE  Kept'
<1>1. /\ input' = Append(input, name) /\ pending = <<>>
      /\ pending' = Queues[name] /\ ~closed
      /\ UNCHANGED <<closed, queue, shut, received, ended>>
  BY DEF Offer
<1>2. /\ Len(input') = Len(input) + 1 /\ Len(input) \in Nat
      /\ DOMAIN input = 1..Len(input) /\ DOMAIN input' = 1..Len(input')
      /\ input'[Len(input')] = name
      /\ \A i \in DOMAIN input : input'[i] = input[i]
  BY <1>1 DEF TypeInv, TypeOK
<1>3. ASSUME NEW o \in Outputs
      PROVE  /\ F!Due(o)' = Range(queue[o]) \cup AtHand(o)'
             /\ Range(queue[o]) \cap AtHand(o)' = {}
  <2>1. /\ Range(queue[o]) \subseteq DOMAIN input
        /\ Range(received[o]) \subseteq DOMAIN input
    BY DEF TypeInv, TypeOK, Range
  <2>2. AtHand(o)' = IF name = Subscribed[o] THEN {Len(input')} ELSE {}
    BY <1>1, OnePlace DEF AtHand
  <2>3. AtHand(o) = {}
    BY <1>1 DEF AtHand, Range
  <2>4. F!Due(o) = Range(queue[o])
    BY <2>3 DEF Kept
  <2>5. F!Due(o)' = F!Due(o) \cup AtHand(o)'
    <3>1. /\ F!Due(o) = {i \in DOMAIN input : input[i] = Subscribed[o]}
                         \ Range(received[o])
          /\ F!Due(o)' = {i \in DOMAIN input' : input'[i] = Subscribed[o]}
                         \ Range(received[o])
      BY <1>1 DEF F!Due, F!Range, Range
    <3>2. /\ DOMAIN input' = DOMAIN input \cup {Len(input')}
          /\ Len(input') \notin DOMAIN input
      BY <1>2
    <3> QED
      BY <1>2, <2>1, <2>2, <3>1, <3>2
  <2>6. Len(input') \notin DOMAIN input
    BY <1>2
  <2> QED
    BY <2>1, <2>2, <2>4, <2>5, <2>6
<1>4. \A i, j \in DOMAIN pending' : pending'[i] = pending'[j] => i = j
  <2> SUFFICES ASSUME NEW i \in DOMAIN Queues[name], NEW j \in DOMAIN Queues[name],
                      Queues[name][i] = Queues[name][j]
               PROVE  i = j
    BY <1>1
  <2>1. Queues[name][i] \in Outputs
    BY QueuesAssumption
  <2> QED
    BY <2>1, OnePlace
<1>5. shut = {}
  BY <1>1 DEF Kept
<1> QED
  BY <1>1, <1>3, <1>4, <1>5 DEF Kept

\* The feature at hand is sent to the next output, behind all older ones.
LEMMA SendKeeps ==
    ASSUME TypeInv, Kept, Send
    PROVE  Kept'
<1> DEFINE n == Len(input)
<1>0. PICK h \in Outputs : h = Head(pending)
  <2>1. Head(pending) \in Outputs
    BY DEF Send, TypeInv, TypeOK
  <2> QED
    BY <2>1
<1>1. /\ pending # <<>> /\ pending \in Seq(Outputs)
      /\ queue' = [queue EXCEPT ![h] = Append(@, n)]
      /\ pending' = Tail(pending)
      /\ UNCHANGED <<input, closed, shut, received, ended>>
  BY <1>0 DEF Send, TypeInv, TypeOK
<1>2. /\ h \in Outputs /\ h = pending[1]
      /\ DOMAIN pending = 1..Len(pending) /\ Len(pending) \in Nat \ {0}
      /\ DOMAIN pending' = 1..(Len(pending) - 1)
      /\ \A i \in DOMAIN pending' : pending'[i] = pending[i + 1]
  BY <1>0, <1>1
<1>3. \A o \in Outputs : o \in Range(pending') <=> o \in Range(pending) /\ o # h
  <2>1. \A i \in DOMAIN pending' : i + 1 \in DOMAIN pending /\ i + 1 # 1
    BY <1>2
  <2>2. \A i \in DOMAIN pending : i # 1 => i - 1 \in DOMAIN pending' /\ pending'[i - 1] = pending[i]
    BY <1>2
  <2>3. \A i \in DOMAIN pending : pending[i] = h => i = 1
    BY <1>2 DEF Kept
  <2>4. ASSUME NEW o \in Outputs, o \in Range(pending') PROVE o \in Range(pending) /\ o # h
    BY <1>2, <2>1, <2>3, <2>4 DEF Range
  <2>5. ASSUME NEW o \in Outputs, o \in Range(pending), o # h PROVE o \in Range(pending')
    BY <1>2, <2>2, <2>5 DEF Range
  <2>6. h \notin Range(pending')
    BY <1>2, <2>4
  <2> QED
    BY <2>4, <2>5, <2>6
<1>4. AtHand(h) = {n} /\ AtHand(h)' = {}
  <2>1. h \in Range(pending)
    BY <1>2 DEF Range
  <2> QED
    <3>1. h \notin Range(pending')
      BY <1>2, <1>3
    <3> QED
      BY <1>1, <2>1, <3>1 DEF AtHand
<1>5. \A o \in Outputs \ {h} : queue'[o] = queue[o] /\ AtHand(o)' = AtHand(o)
  BY <1>1, <1>3 DEF AtHand, TypeInv, TypeOK
<1>6. \A o \in Outputs : F!Due(o)' = F!Due(o)
  BY <1>1 DEF F!Due
<1>7. /\ Range(queue'[h]) = Range(queue[h]) \cup {n}
      /\ \A i, j \in DOMAIN queue'[h] : i < j => queue'[h][i] < queue'[h][j]
  <2>1. /\ queue[h] \in Seq(DOMAIN input) /\ queue'[h] = Append(queue[h], n)
        /\ input # <<>> /\ input \in Seq(Names)
    BY <1>1, <1>2 DEF TypeInv, TypeOK
  <2>2. /\ DOMAIN queue[h] = 1..Len(queue[h]) /\ Len(queue[h]) \in Nat
        /\ DOMAIN queue'[h] = 1..(Len(queue[h]) + 1)
        /\ queue'[h][Len(queue[h]) + 1] = n
        /\ \A i \in DOMAIN queue[h] : queue'[h][i] = queue[h][i]
    BY <2>1
  <2>3. Range(queue'[h]) = Range(queue[h]) \cup {n}
    <3>1. DOMAIN queue'[h] = DOMAIN queue[h] \cup {Len(queue[h]) + 1}
      BY <2>2
    <3> HIDE DEF n
    <3> QED
      BY <2>2, <3>1 DEF Range
  <2>4. n \notin Range(queue[h])
    BY <1>2, <1>4 DEF Kept
  <2>5. \A i \in DOMAIN queue[h] : queue[h][i] \in 1..n /\ queue[h][i] # n
    BY <2>1, <2>2, <2>4 DEF Range
  <2>6. n \in Nat
    BY <2>1
  <2>7. \A i \in DOMAIN queue[h] : queue[h][i] < n
    BY <2>5, <2>6
  <2> HIDE DEF n
  <2>8. ASSUME NEW i \in DOMAIN queue'[h], NEW j \in DOMAIN queue'[h], i < j
        PROVE  queue'[h][i] < queue'[h][j]
    <3>1. i \in DOMAIN queue[h]
      BY <2>2, <2>8
    <3>2. CASE j \in DOMAIN queue[h]
      BY <1>2, <2>2, <2>8, <3>1, <3>2 DEF Kept
    <3>3. CASE j = Len(queue[h]) + 1
      BY <2>2, <2>7, <3>1, <3>3
    <3> QED
      BY <2>2, <3>2, <3>3
  <2> QED
    BY <2>3, <2>8
<1>8. \A i, j \in DOMAIN pending' : pending'[i] = pending'[j] => i = j
  <2> SUFFICES ASSUME NEW i \in DOMAIN pending', NEW j \in DOMAIN pending',
                      pending'[i] = pending'[j]
               PROVE  i = j
    OBVIOUS
  <2>1. i + 1 \in DOMAIN pending /\ j + 1 \in DOMAIN pending
        /\ pending[i + 1] = pending[j + 1] /\ i \in Int /\ j \in Int
    BY <1>2
  <2>2. i + 1 = j + 1
    BY <2>1 DEF Kept
  <2> QED
    BY <2>1, <2>2
<1>9. shut' = {}
  BY <1>1 DEF Kept
<1>10. ASSUME NEW o \in Outputs
       PROVE  /\ F!Due(o)' = Range(queue'[o]) \cup AtHand(o)'
              /\ Range(queue'[o]) \cap AtHand(o)' = {}
              /\ \A i, j \in DOMAIN queue'[o] : i < j => queue'[o][i] < queue'[o][j]
  <2>1. CASE o = h
    <3>1. F!Due(h) = Range(queue[h]) \cup {n}
      BY <1>2, <1>4 DEF Kept
    <3>2. F!Due(h)' = F!Due(h)
      BY <1>2, <1>6
    <3> QED
      BY <1>4, <1>7, <2>1, <3>1, <3>2
  <2>2. CASE o # h
    BY <1>5, <1>6, <2>2 DEF Kept
  <2> QED
    BY <2>1, <2>2
<1> QED
  BY <1>8, <1>9, <1>10 DEF Kept

\* What is received is the first of what is due.
LEMMA ReceiveFirst ==
    ASSUME TypeInv, Kept, NEW o \in Outputs, Receive(o)
    PROVE  /\ Kept'
           /\ F!Deliver(o)
<1> DEFINE q == queue[o]
<1>1. /\ q # <<>> /\ q \in Seq(DOMAIN input) /\ input \in Seq(Names)
      /\ received' = [received EXCEPT ![o] = Append(@, Head(q))]
      /\ queue' = [queue EXCEPT ![o] = Tail(@)]
      /\ UNCHANGED <<input, closed, pending, shut, ended>>
  BY DEF Receive, TypeInv, TypeOK
<1>2. /\ DOMAIN q = 1..Len(q) /\ Len(q) \in Nat \ {0} /\ Head(q) = q[1]
      /\ queue'[o] = Tail(q)
      /\ DOMAIN queue'[o] = 1..(Len(q) - 1)
      /\ \A i \in DOMAIN queue'[o] : queue'[o][i] = q[i + 1]
  BY <1>1 DEF TypeInv, TypeOK
<1>3. \A i, j \in DOMAIN q : i < j => q[i] < q[j]
  BY DEF Kept
<1>4. \A i \in DOMAIN q : q[i] \in Nat /\ q[i] <= Len(input)
  BY <1>1
<1>5. \A i \in DOMAIN q : i # 1 => q[1] < q[i]
  <2>1. 1 \in DOMAIN q /\ \A i \in DOMAIN q : i # 1 => 1 < i
    BY <1>2
  <2> HIDE DEF q
  <2> QED
    BY <1>3, <2>1
<1>6. Range(queue'[o]) = Range(q) \ {Head(q)}
  <2>1. ASSUME NEW x \in Range(queue'[o]) PROVE x \in Range(q) \ {Head(q)}
    <3>1. PICK i \in DOMAIN queue'[o] : x = q[i + 1]
      BY <1>2 DEF Range
    <3>2. i + 1 \in DOMAIN q /\ i + 1 # 1
      BY <1>2
    <3> QED
      BY <1>2, <1>4, <1>5, <3>1, <3>2 DEF Range
  <2>2. ASSUME NEW x \in Range(q) \ {Head(q)} PROVE x \in Range(queue'[o])
    <3>1. PICK i \in DOMAIN q : x = q[i]
      BY DEF Range
    <3>2. i # 1
      BY <1>2, <3>1
    <3>3. i - 1 \in DOMAIN queue'[o] /\ queue'[o][i - 1] = q[i]
      BY <1>2, <3>2
    <3> QED
      BY <3>1, <3>3 DEF Range
  <2> QED
    BY <2>1, <2>2
<1>7. \A p \in Outputs : AtHand(p)' = AtHand(p)
  BY <1>1 DEF AtHand
<1>8. \A p \in Outputs \ {o} : queue'[p] = queue[p] /\ received'[p] = received[p]
  BY <1>1 DEF TypeInv, TypeOK
<1>9. F!Due(o)' = F!Due(o) \ {Head(q)}
  <2>1. received[o] \in Seq(DOMAIN input) /\ received'[o] = Append(received[o], Head(q))
        /\ Head(q) \in DOMAIN input
    BY <1>1 DEF TypeInv, TypeOK
  <2>2. Range(received'[o]) = Range(received[o]) \cup {Head(q)}
    <3>1. /\ DOMAIN received'[o] = DOMAIN received[o] \cup {Len(received[o]) + 1}
          /\ received'[o][Len(received[o]) + 1] = Head(q)
          /\ \A i \in DOMAIN received[o] : received'[o][i] = received[o][i]
      BY <2>1
    <3> QED
      BY <3>1 DEF Range
  <2>3. F!Due(o)' = {i \in DOMAIN input : input[i] = Subscribed[o]}
                    \ Range(received'[o])
    BY <1>1 DEF F!Due, F!Range, Range
  <2>4. F!Due(o) = {i \in DOMAIN input : input[i] = Subscribed[o]}
                   \ Range(received[o])
    BY DEF F!Due, F!Range, Range
  <2> QED
    BY <2>2, <2>3, <2>4
<1>10. Head(q) \in Range(q) /\ Head(q) \in F!Due(o)
  BY <1>2 DEF Kept, Range
<1>11. Head(q) \notin AtHand(o)
  BY <1>10 DEF Kept
<1>12. \A j \in F!Due(o) : Head(q) <= j
  <2> SUFFICES ASSUME NEW j \in F!Due(o) PROVE Head(q) <= j
    OBVIOUS
  <2>1. CASE j \in Range(q)
    <3>1. PICK i \in DOMAIN q : j = q[i]
      BY <2>1 DEF Range
    <3>2. q[1] \in Nat /\ q[i] \in Nat
      BY <1>2, <1>4
    <3> QED
      BY <1>2, <1>5, <3>1, <3>2
  <2>2. CASE j \in AtHand(o)
    BY <1>2, <1>4, <2>2 DEF AtHand
  <2> QED
    BY <2>1, <2>2 DEF Kept
<1>13. F!Deliver(o)
  BY <1>1, <1>10, <1>12 DEF F!Deliver
<1>14. \A i, j \in DOMAIN queue'[o] : i < j => queue'[o][i] < queue'[o][j]
  <2> SUFFICES ASSUME NEW i \in DOMAIN queue'[o], NEW j \in DOMAIN queue'[o], i < j
               PROVE  queue'[o][i] < queue'[o][j]
    OBVIOUS
  <2>1. i + 1 \in DOMAIN q /\ j + 1 \in DOMAIN q /\ i + 1 < j + 1
    BY <1>2
  <2> QED
    BY <1>2, <1>3, <2>1
<1>15. /\ F!Due(o)' = Range(queue'[o]) \cup AtHand(o)'
       /\ Range(queue'[o]) \cap AtHand(o)' = {}
  BY <1>6, <1>7, <1>9, <1>11 DEF Kept
<1>16. \A p \in Outputs \ {o} : F!Due(p)' = F!Due(p)
  BY <1>1, <1>8 DEF F!Due
<1>17. Kept'
  <2>1. ASSUME NEW p \in Outputs
        PROVE  /\ F!Due(p)' = Range(queue'[p]) \cup AtHand(p)'
               /\ Range(queue'[p]) \cap AtHand(p)' = {}
               /\ \A i, j \in DOMAIN queue'[p] : i < j => queue'[p][i] < queue'[p][j]
    <3>1. CASE p = o
      BY <1>14, <1>15, <3>1
    <3>2. CASE p # o
      BY <1>7, <1>8, <1>16, <3>2 DEF Kept
    <3> QED
      BY <3>1, <3>2
  <2> QED
    BY <1>1, <2>1 DEF Kept
<1> QED
  BY <1>13, <1>17

\* Nothing due is lost, doubled or overtaken between the input and the outputs.
THEOREM KeptHolds == Spec => []Kept
<1>1. Init => Kept
  BY DEF Init, Kept, F!Due, AtHand, Range
<1>2. TypeInv /\ Kept /\ [Next]_vars => Kept'
  <2> SUFFICES ASSUME TypeInv, Kept, [Next]_vars PROVE Kept'
    OBVIOUS
  <2>1. ASSUME NEW name \in Names, Offer(name) PROVE Kept'
    BY <2>1, OfferKeeps
  <2>2. CASE Close
    BY <2>2 DEF Close, Kept, F!Due, AtHand
  <2>3. CASE Send
    BY <2>3, SendKeeps
  <2>4. ASSUME NEW o \in Outputs, Shut(o) PROVE Kept'
    BY <2>4 DEF Shut, Kept, F!Due, AtHand
  <2>5. ASSUME NEW o \in Outputs, Receive(o) PROVE Kept'
    BY <2>5, ReceiveFirst
  <2>6. ASSUME NEW o \in Outputs, End(o) PROVE Kept'
    BY <2>6 DEF End, Kept, F!Due, AtHand
  <2>7. CASE UNCHANGED vars
    BY <2>7 DEF vars, Kept, F!Due, AtHand
  <2> QED
    BY <2>1, <2>2, <2>3, <2>4, <2>5, <2>6, <2>7 DEF Next
<1> QED
  BY <1>1, <1>2, TypeInvHolds, PTL DEF Spec

\* Each subscriber receives the features of its name, all, once, in order, and
\* then the end: the demux with its queues implements Fanout.
THEOREM ImplementsHolds == Spec => Implements
<1>1. Init => F!Init
  BY DEF Init, F!Init
<1>2. TypeInv /\ Kept /\ [Next]_vars => [F!Next]_(F!vars)
  <2> SUFFICES ASSUME TypeInv, Kept, [Next]_vars PROVE [F!Next]_(F!vars)
    OBVIOUS
  <2>1. ASSUME NEW name \in Names, Offer(name) PROVE F!Next
    BY <2>1 DEF Offer, F!Offer, F!Next
  <2>2. CASE Close
    BY <2>2 DEF Close, F!Close, F!Next
  <2>3. CASE Send
    BY <2>3 DEF Send, F!vars
  <2>4. ASSUME NEW o \in Outputs, Shut(o) PROVE UNCHANGED F!vars
    BY <2>4 DEF Shut, F!vars
  <2>5. ASSUME NEW o \in Outputs, Receive(o) PROVE F!Next
    BY <2>5, ReceiveFirst DEF F!Next
  <2>6. ASSUME NEW o \in Outputs, End(o) PROVE F!Next
    <3>1. o \in shut /\ queue[o] = <<>>
      BY <2>6 DEF End
    <3>2. closed /\ F!Due(o) = {}
      BY <3>1 DEF Kept, AtHand, Range
    <3> QED
      BY <2>6, <3>2 DEF End, F!End, F!Next
  <2>7. CASE UNCHANGED vars
    BY <2>7 DEF vars, F!vars
  <2> QED
    BY <2>1, <2>2, <2>3, <2>4, <2>5, <2>6, <2>7 DEF Next
<1> QED
  BY <1>1, <1>2, TypeInvHolds, KeptHolds, PTL DEF Spec, Implements, F!Spec

\* What is in a sequence when an element was appended.
LEMMA AppendRange ==
    ASSUME NEW S, NEW s \in Seq(S), NEW e \in S
    PROVE  Range(Append(s, e)) = Range(s) \cup {e}
<1> DEFINE r == Append(s, e)
<1>1. /\ DOMAIN r = DOMAIN s \cup {Len(s) + 1}
      /\ r[Len(s) + 1] = e /\ \A i \in DOMAIN s : r[i] = s[i]
  OBVIOUS
<1> HIDE DEF r
<1>2. Range(r) = Range(s) \cup {e}
  BY <1>1 DEF Range
<1> QED
  BY <1>2 DEF r

\* What is due, and InOrder, with Range the one of this module.
LEMMA DueIs ==
    ASSUME NEW o \in Outputs
    PROVE  F!Due(o) = {i \in DOMAIN input : input[i] = Subscribed[o]}
                      \ Range(received[o])
  BY DEF F!Due, F!Range, Range

\* InOrder in the terms of this module.
Ordered ==
    \A o \in Outputs :
        /\ \A i, j \in DOMAIN received[o] :
               i < j => received[o][i] < received[o][j]
        /\ \A last \in Range(received[o]) : \A i \in 1..last :
               input[i] = Subscribed[o] <=> i \in Range(received[o])
        /\ o \in ended => closed /\ F!Due(o) = {}

\* InOrder follows from the abstract specification: the next feature that an
\* output is due is later than all those received from it.
THEOREM InOrderHolds == Spec => []InOrder
<1>1. F!Init => Ordered
  BY DEF F!Init, Ordered, Range
<1>2. TypeInv /\ TypeInv' /\ Ordered /\ [F!Next]_(F!vars) => Ordered'
  <2> SUFFICES ASSUME TypeInv, TypeInv', Ordered, [F!Next]_(F!vars)
               PROVE  Ordered'
    OBVIOUS
  <2>0. /\ input \in Seq(Names) /\ Len(input) \in Nat
        /\ DOMAIN input = 1..Len(input)
        /\ \A o \in Outputs : /\ received[o] \in Seq(1..Len(input))
                              /\ \A k \in Range(received[o]) :
                                    k \in Nat /\ 1 <= k /\ k <= Len(input)
    <3>1. input \in Seq(Names) /\ received \in [Outputs -> Seq(DOMAIN input)]
      BY DEF TypeInv, TypeOK
    <3>2. Len(input) \in Nat /\ DOMAIN input = 1..Len(input)
      BY <3>1
    <3>3. \A o \in Outputs : received[o] \in Seq(1..Len(input))
      BY <3>1, <3>2
    <3>4. ASSUME NEW o \in Outputs, NEW k \in Range(received[o])
          PROVE  k \in 1..Len(input)
      BY <3>3 DEF Range
    <3> QED
      BY <3>1, <3>2, <3>3, <3>4
  <2>1. ASSUME NEW name \in Names, F!Offer(name) PROVE Ordered'
    <3>1. \A o \in Outputs : o \notin ended'
      BY <2>1 DEF F!Offer, Ordered
    <3>2. \A i \in DOMAIN input : input'[i] = input[i]
      BY <2>0, <2>1 DEF F!Offer
    <3>3. ASSUME NEW o \in Outputs, NEW last \in Range(received[o]),
                 NEW i \in 1..last
          PROVE  i \in DOMAIN input
      <4>1. last \in Nat /\ last <= Len(input)
        BY <2>0
      <4> QED
        BY <2>0, <4>1
    <3> QED
      BY <2>1, <3>1, <3>2, <3>3 DEF F!Offer, Ordered
  <2>2. CASE F!Close
    BY <2>2 DEF F!Close, Ordered, F!Due
  <2>3. ASSUME NEW o \in Outputs, F!Deliver(o) PROVE Ordered'
    <3>1. PICK e \in F!Due(o) :
             /\ \A j \in F!Due(o) : e <= j
             /\ received' = [received EXCEPT ![o] = Append(@, e)]
      BY <2>3 DEF F!Deliver
    <3>2. UNCHANGED <<input, closed, ended>>
      BY <2>3 DEF F!Deliver
    <3>3. /\ e \in DOMAIN input /\ input[e] = Subscribed[o]
          /\ e \notin Range(received[o])
      BY <3>1, DueIs
    <3>4. /\ received'[o] = Append(received[o], e)
          /\ \A p \in Outputs \ {o} : received'[p] = received[p]
      BY <3>1 DEF TypeInv, TypeOK
    <3>5. Range(received'[o]) = Range(received[o]) \cup {e}
      BY <2>0, <3>3, <3>4, AppendRange
    <3>6. \A k \in Range(received[o]) : k < e
      <4> TAKE k \in Range(received[o])
      <4>1. k \in Nat /\ e \in Nat /\ 1 <= e
        BY <2>0, <3>3
      <4>2. e \notin 1..k
        BY <3>3 DEF Ordered
      <4> QED
        BY <4>1, <4>2
    <3>7. \A i, j \in DOMAIN received'[o] :
              i < j => received'[o][i] < received'[o][j]
      <4>1. \A i \in DOMAIN received[o] : received[o][i] \in Range(received[o])
        BY DEF Range
      <4> QED
        BY <2>0, <3>4, <3>6, <4>1 DEF Ordered
    <3>8. ASSUME NEW last \in Range(received'[o]), NEW i \in 1..last
          PROVE  input[i] = Subscribed[o] <=> i \in Range(received'[o])
      <4>1. CASE last \in Range(received[o])
        <5>1. last \in Nat /\ last < e
          BY <2>0, <3>6, <4>1
        <5>2. i # e
          BY <5>1
        <5> QED
          BY <3>5, <4>1, <5>2 DEF Ordered
      <4>2. CASE last = e
        <5>1. i \in DOMAIN input /\ i <= e
          BY <2>0, <3>3, <4>2
        <5>2. ASSUME input[i] = Subscribed[o], i \notin Range(received[o])
              PROVE  i = e
          <6>1. i \in F!Due(o)
            BY <5>1, <5>2, DueIs
          <6> QED
            BY <2>0, <3>1, <3>3, <5>1, <6>1
        <5>3. ASSUME i \in Range(received[o]) PROVE input[i] = Subscribed[o]
          <6>1. i \in 1..i
            BY <2>0, <5>3
          <6> QED
            BY <5>3, <6>1 DEF Ordered
        <5> QED
          BY <3>3, <3>5, <5>2, <5>3
      <4> QED
        BY <3>5, <4>1, <4>2
    <3>9. o \notin ended /\ \A p \in Outputs \ {o} : F!Due(p)' = F!Due(p)
      BY <3>1, <3>2, <3>4 DEF Ordered, F!Due
    <3> QED
      BY <3>2, <3>4, <3>7, <3>8, <3>9 DEF Ordered
  <2>4. ASSUME NEW o \in Outputs, F!End(o) PROVE Ordered'
    BY <2>4 DEF F!End, Ordered, F!Due
  <2>5. CASE UNCHANGED F!vars
    BY <2>5 DEF F!vars, Ordered, F!Due
  <2> QED
    BY <2>1, <2>2, <2>3, <2>4, <2>5 DEF F!Next
<1>3. Ordered => InOrder
  BY DEF Ordered, InOrder, F!InOrder, F!Range, Range
<1> QED
  BY <1>1, <1>2, <1>3, TypeInvHolds, ImplementsHolds, PTL DEF Implements, F!Spec
=============================================================================
