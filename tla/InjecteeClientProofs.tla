------------------------ MODULE InjecteeClientProofs ------------------------
(***************************************************************************)
(* The report queue, for every capacity, token bound, set of poppers and   *)
(* number of pushes, and then the control client, for every number of      *)
(* writers, losses and versions and every backoff and budget: it uses the  *)
(* queue as the queue allows, somebody always drives it, one at a time,    *)
(* and its route is pinned.                                                *)
(***************************************************************************)
EXTENDS InjecteeClient, FiniteSetTheorems, SequenceTheorems, TLAPS

-----------------------------------------------------------------------------
(* The report queue (queue.hpp).                                            *)

(* Tail, the pop() of a std::queue, moves every element up by one.          *)
LEMMA TailFacts ==
  ASSUME NEW s \in Seq(Nat), s # <<>>
  PROVE  /\ Len(s) \in Nat \ {0}
         /\ Tail(s) \in Seq(Nat)
         /\ Len(Tail(s)) = Len(s) - 1
         /\ \A i \in 1..Len(Tail(s)) : Tail(s)[i] = s[i+1]
  OBVIOUS

(* No token count is negative, so an empty queue is owed none.              *)
LEMMA NatSum ==
  ASSUME NEW a \in Nat, NEW b \in Nat, NEW c \in Nat, NEW d \in Nat
  PROVE  0 <= a + b + c + d
  OBVIOUS

(* Append, the push() of a std::queue, leaves the rest in place.            *)
LEMMA AppendFacts ==
  ASSUME NEW s \in Seq(Nat), NEW n \in Nat
  PROVE  /\ Append(s, n) \in Seq(Nat)
         /\ Len(Append(s, n)) = Len(s) + 1
         /\ \A i \in 1..Len(s) : Append(s, n)[i] = s[i]
         /\ Append(s, n)[Len(s) + 1] = n
  OBVIOUS

(* What push() does to the queue: at capacity the length is unchanged and   *)
(* everything moves up by one, below it the item is appended.               *)
LEMMA PushFacts ==
  ASSUME QueueTypeOK, Push
  PROVE  /\ qu' \in Seq(Nat)
         /\ Overflow => /\ Len(qu') = Len(qu) /\ Len(qu) \in Nat \ {0}
                        /\ \A i \in 1..Len(qu) - 1 : qu'[i] = qu[i+1]
         /\ ~Overflow => /\ Len(qu') = Len(qu) + 1
                         /\ \A i \in 1..Len(qu) : qu'[i] = qu[i]
         /\ qu'[Len(qu')] = pushed + 1
<1>1. qu \in Seq(Nat) /\ Len(qu) \in Nat /\ pushed + 1 \in Nat
  BY DEF QueueTypeOK
<1>2. CASE Overflow
  <2> DEFINE t == Tail(qu)
  <2>1. qu # <<>>
    BY <1>1, <1>2, QueueAssumption DEF Overflow
  <2>2. /\ t \in Seq(Nat) /\ Len(t) = Len(qu) - 1 /\ Len(qu) \in Nat \ {0}
        /\ \A i \in 1..Len(t) : t[i] = qu[i+1]
    BY <1>1, <2>1, TailFacts
  <2>3. qu' = Append(t, pushed + 1)
    BY <1>2 DEF Push
  <2> HIDE DEF t
  <2>4. /\ qu' \in Seq(Nat) /\ Len(qu') = Len(t) + 1
        /\ \A i \in 1..Len(t) : qu'[i] = t[i]
        /\ qu'[Len(t) + 1] = pushed + 1
    BY <1>1, <2>2, <2>3, AppendFacts
  <2>5. Len(qu') = Len(qu)
    BY <2>2, <2>4
  <2> QED
    BY <1>2, <2>2, <2>4, <2>5
<1>3. CASE ~Overflow
  <2>1. qu' = Append(qu, pushed + 1)
    BY <1>3 DEF Push
  <2>2. /\ qu' \in Seq(Nat) /\ Len(qu') = Len(qu) + 1
        /\ \A i \in 1..Len(qu) : qu'[i] = qu[i]
        /\ qu'[Len(qu) + 1] = pushed + 1
    BY <1>1, <2>1, AppendFacts
  <2> QED
    BY <1>3, <2>2
<1> QED
  BY <1>2, <1>3

-----------------------------------------------------------------------------
(* Every reachable state is well typed, and a bounded queue never exceeds   *)
(* its capacity, whatever pushes meet pops and cancels (queue.hpp push()).  *)
THEOREM TypeCorrect == QueueSpec => []QueueTypeOK
<1>1. QueueInit => QueueTypeOK
  BY QueueAssumption DEF QueueInit, QueueTypeOK
<1>2. ASSUME QueueTypeOK, [QueueNext]_queueVars
      PROVE  QueueTypeOK'
  <2> USE QueueAssumption DEF QueueTypeOK
  <2>1. CASE Push
    <3>1. /\ qu' \in Seq(Nat)
          /\ Overflow => Len(qu') = Len(qu)
          /\ ~Overflow => Len(qu') = Len(qu) + 1
      BY <1>2, <2>1, PushFacts
    <3>2. Capacity # 0 => Len(qu') <= Capacity
      BY <1>2, <3>1 DEF Overflow
    <3> QED
      BY <1>2, <2>1, <3>1, <3>2, SMTT(30) DEF Push
  <2>2. CASE SendToken
    BY <1>2, <2>2 DEF SendToken, Parked
  <2>3. ASSUME NEW p \in Poppers, Pop(p)
        PROVE  QueueTypeOK'
    BY <1>2, <2>3 DEF Pop, Receive
  <2>4. ASSUME NEW p \in Poppers, TakeItem(p)
        PROVE  QueueTypeOK'
    <3>1. /\ Len(qu) \in Nat \ {0} /\ Tail(qu) \in Seq(Nat)
          /\ Len(Tail(qu)) = Len(qu) - 1
      BY <1>2, <2>4, TailFacts DEF TakeItem
    <3> QED
      BY <1>2, <2>4, <3>1 DEF TakeItem
  <2>5. ASSUME NEW p \in Poppers, SkipToken(p)
        PROVE  QueueTypeOK'
    BY <1>2, <2>5 DEF SkipToken, Receive
  <2>6. ASSUME NEW p \in Poppers, Rethrow(p)
        PROVE  QueueTypeOK'
    BY <1>2, <2>6 DEF Rethrow
  <2>7. CASE CancelChannel
    BY <1>2, <2>7 DEF CancelChannel, ChannelCancel
  <2>8. CASE CancelDrain
    BY <1>2, <2>8 DEF CancelDrain
  <2>9. CASE CancelCount
    BY <1>2, <2>9 DEF CancelCount
  <2>10. CASE UNCHANGED queueVars
    BY <1>2, <2>10 DEF queueVars
  <2> QED
    BY <1>2, <2>1, <2>2, <2>3, <2>4, <2>5, <2>6, <2>7, <2>8, <2>9, <2>10
    DEF QueueNext
<1> QED
  BY <1>1, <1>2, PTL DEF QueueSpec

(* cancel()'s local count is zero except between its drain and its count.   *)
CancelPcInv == cancelPc # "count" => stranded = 0

(* It holds throughout, since cancel() is not re-entered by the io thread.  *)
LEMMA CancelPcStable == QueueSpec => []CancelPcInv
<1>1. QueueInit => CancelPcInv
  BY DEF QueueInit, CancelPcInv
<1>2. ASSUME CancelPcInv, [QueueNext]_queueVars
      PROVE  CancelPcInv'
  <2>1. CASE UNCHANGED <<cancelPc, stranded>>
    BY <1>2, <2>1 DEF CancelPcInv
  <2>2. CASE CancelChannel \/ CancelDrain \/ CancelCount
    BY <1>2, <2>2 DEF CancelPcInv, CancelChannel, CancelDrain, CancelCount, IoFree
  <2> QED
    BY <1>2, <2>1, <2>2 DEF QueueNext, queueVars, Push, SendToken, Pop,
       TakeItem, SkipToken, Rethrow
<1> QED
  BY <1>1, <1>2, PTL DEF QueueSpec

-----------------------------------------------------------------------------
(* The identity the concurrency test of the queue samples holds in every    *)
(* interleaving: no report is lost without being counted, and none is       *)
(* counted twice (queue.hpp push(), pop(), cancel()).                       *)
THEOREM ReportsConserved == QueueSpec => []Conservation
<1> USE DEF Conservation
<1>1. QueueInit => Conservation
  BY DEF QueueInit
<1>2. ASSUME QueueTypeOK, Conservation, CancelPcInv, [QueueNext]_queueVars
      PROVE  Conservation'
  <2> USE QueueAssumption DEF QueueTypeOK
  <2>1. CASE Push
    <3>1. /\ Overflow => Len(qu') = Len(qu)
          /\ ~Overflow => Len(qu') = Len(qu) + 1
      BY <1>2, <2>1, PushFacts
    <3> QED
      BY <1>2, <2>1, <3>1 DEF Push
  <2>2. CASE SendToken
    BY <1>2, <2>2 DEF SendToken
  <2>3. ASSUME NEW p \in Poppers, TakeItem(p)
        PROVE  Conservation'
    <3>1. Len(qu) \in Nat \ {0} /\ Len(Tail(qu)) = Len(qu) - 1
      BY <1>2, <2>3, TailFacts DEF TakeItem
    <3>2. Len(qu') = Len(qu) - 1 /\ popped' = popped + 1
      BY <2>3, <3>1 DEF TakeItem
    <3> QED
      BY <1>2, <2>3, <3>1, <3>2 DEF TakeItem
  <2>4. ASSUME NEW p \in Poppers, Pop(p) \/ SkipToken(p) \/ Rethrow(p)
        PROVE  Conservation'
    BY <1>2, <2>4 DEF Pop, SkipToken, Rethrow
  <2>5. CASE CancelChannel
    BY <1>2, <2>5 DEF CancelChannel
  <2>6. CASE CancelDrain
    BY <1>2, <2>6 DEF CancelDrain, CancelPcInv
  <2>7. CASE CancelCount
    BY <1>2, <2>7 DEF CancelCount
  <2>8. CASE UNCHANGED queueVars
    BY <1>2, <2>8 DEF queueVars
  <2> QED
    BY <1>2, <2>1, <2>2, <2>3, <2>4, <2>5, <2>6, <2>7, <2>8 DEF QueueNext
<1> QED
  BY <1>1, <1>2, TypeCorrect, CancelPcStable, PTL DEF QueueSpec

-----------------------------------------------------------------------------
(* What is queued is always the newest run of pushes in push order: no      *)
(* eviction, pop or drain leaves a gap or reorders reports.                 *)
THEOREM QueueKeepsNewest == QueueSpec => []NewestKept
<1> USE DEF NewestKept
<1>1. QueueInit => NewestKept
  BY DEF QueueInit
<1>2. ASSUME QueueTypeOK, NewestKept, [QueueNext]_queueVars
      PROVE  NewestKept'
  <2> USE QueueAssumption DEF QueueTypeOK
  <2>1. CASE Push
    <3>1. /\ qu' \in Seq(Nat)
          /\ Overflow => /\ Len(qu') = Len(qu) /\ Len(qu) \in Nat \ {0}
                         /\ \A i \in 1..Len(qu) - 1 : qu'[i] = qu[i+1]
          /\ ~Overflow => /\ Len(qu') = Len(qu) + 1
                          /\ \A i \in 1..Len(qu) : qu'[i] = qu[i]
          /\ qu'[Len(qu')] = pushed + 1
      BY <1>2, <2>1, PushFacts
    <3>2. pushed' = pushed + 1 /\ pushed \in Nat /\ Len(qu) \in Nat
      BY <1>2, <2>1 DEF Push
    <3>3. SUFFICES ASSUME NEW i \in 1..Len(qu')
                   PROVE  qu'[i] + Len(qu') = pushed' + i
      OBVIOUS
    <3>4. CASE i = Len(qu')
      BY <3>1, <3>2, <3>4
    <3>5. CASE i # Len(qu') /\ Overflow
      <4>1. i \in 1..Len(qu) - 1 /\ i + 1 \in 1..Len(qu)
        BY <3>1, <3>2, <3>5
      <4>2. qu'[i] = qu[i+1]
        BY <3>1, <3>5, <4>1
      <4>3. qu[i+1] \in Nat
        BY <1>2, <4>1
      <4>4. qu[i+1] + Len(qu) = pushed + (i + 1)
        BY <1>2, <4>1
      <4>5. Len(qu') = Len(qu)
        BY <3>1, <3>5
      <4> QED
        BY ONLY <3>2, <4>1, <4>2, <4>3, <4>4, <4>5
    <3>6. CASE i # Len(qu') /\ ~Overflow
      <4>1. i \in 1..Len(qu)
        BY <3>1, <3>2, <3>6
      <4>2. qu'[i] = qu[i]
        BY <3>1, <3>6, <4>1
      <4>3. qu[i] \in Nat
        BY <1>2, <4>1
      <4>4. qu[i] + Len(qu) = pushed + i
        BY <1>2, <4>1
      <4>5. Len(qu') = Len(qu) + 1
        BY <3>1, <3>6
      <4> QED
        BY ONLY <3>2, <4>1, <4>2, <4>3, <4>4, <4>5
    <3> QED
      BY <3>4, <3>5, <3>6
  <2>2. ASSUME NEW p \in Poppers, TakeItem(p)
        PROVE  NewestKept'
    <3>1. /\ Len(qu) \in Nat \ {0} /\ Len(Tail(qu)) = Len(qu) - 1
          /\ \A i \in 1..Len(Tail(qu)) : Tail(qu)[i] = qu[i+1]
      BY <1>2, <2>2, TailFacts DEF TakeItem
    <3>2. qu' = Tail(qu) /\ pushed' = pushed
      BY <2>2 DEF TakeItem
    <3>3. /\ Len(qu') = Len(qu) - 1
          /\ \A i \in 1..Len(qu) - 1 : qu'[i] = qu[i+1]
      BY <3>1, <3>2
    <3>4. SUFFICES ASSUME NEW i \in 1..Len(qu) - 1
                   PROVE  qu'[i] + Len(qu') = pushed' + i
      BY <3>3
    <3>5. i + 1 \in 1..Len(qu)
      BY <3>1
    <3>6. qu[i+1] + Len(qu) = pushed + (i + 1) /\ qu[i+1] \in Nat
      BY <1>2, <3>5
    <3> QED
      BY <1>2, <3>1, <3>2, <3>3, <3>6
  <2>3. ASSUME NEW p \in Poppers, Pop(p) \/ SkipToken(p) \/ Rethrow(p)
        PROVE  NewestKept'
    BY <1>2, <2>3 DEF Pop, SkipToken, Rethrow
  <2>4. CASE SendToken \/ CancelChannel \/ CancelCount \/ UNCHANGED queueVars
    BY <1>2, <2>4 DEF SendToken, CancelChannel, CancelCount, queueVars
  <2>5. CASE CancelDrain
    BY <1>2, <2>5 DEF CancelDrain
  <2> QED
    BY <1>2, <2>1, <2>2, <2>3, <2>4, <2>5 DEF QueueNext
<1> QED
  BY <1>1, <1>2, TypeCorrect, PTL DEF QueueSpec

-----------------------------------------------------------------------------
(* The poppers about to take an item are finitely many.                     *)
LEMMA GrantedCount ==
  ASSUME QueueTypeOK
  PROVE  IsFiniteSet(Granted) /\ Cardinality(Granted) \in Nat
<1>1. Granted \subseteq Poppers
  BY DEF Granted
<1> QED
  BY <1>1, QueueAssumption, FS_Subset, FS_CardinalityType

(* A popper that is handed a token joins them.                              *)
LEMMA GrantJoins ==
  ASSUME QueueTypeOK, NEW p \in Poppers, popper[p] # "granted",
         popper' = [popper EXCEPT ![p] = "granted"]
  PROVE  Cardinality(Granted)' = Cardinality(Granted) + 1
<1>1. Granted' = Granted \cup {p} /\ p \notin Granted
  BY DEF Granted, QueueTypeOK
<1> QED
  BY <1>1, GrantedCount, FS_AddElement

(* A popper that takes an item leaves them.                                 *)
LEMMA GrantLeaves ==
  ASSUME QueueTypeOK, NEW p \in Poppers, popper[p] = "granted",
         NEW s \in {"idle", "parked", "cancelled"},
         popper' = [popper EXCEPT ![p] = s]
  PROVE  Cardinality(Granted)' = Cardinality(Granted) - 1
<1>1. Granted' = Granted \ {p} /\ p \in Granted
  BY DEF Granted, QueueTypeOK
<1> QED
  BY <1>1, GrantedCount, FS_RemoveElement

(* Parking, cancelling and unwinding leave them as they are.                *)
LEMMA GrantStays ==
  ASSUME QueueTypeOK, QueueTypeOK',
         \A p \in Poppers : (popper'[p] = "granted") <=> (popper[p] = "granted")
  PROVE  Cardinality(Granted)' = Cardinality(Granted)
<1>1. Granted' = Granted
  BY DEF Granted
<1> QED
  BY <1>1

(* No wakeup is ever lost: for every capacity, token bound and number of    *)
(* poppers, a queued report has a token or a popper on its way to it, so a  *)
(* push that races an eviction, a pop or a cancel() never strands an item   *)
(* behind a consumer that sleeps.                                           *)
THEOREM WakeupsKept == QueueSpec => []NoLostWakeup
<1>1. QueueInit => NoLostWakeup
  <2> SUFFICES ASSUME QueueInit PROVE NoLostWakeup
    OBVIOUS
  <2>1. QueueTypeOK
    BY QueueAssumption DEF QueueInit, QueueTypeOK
  <2>2. Cardinality(Granted) \in Nat
    BY <2>1, GrantedCount
  <2> QED
    BY <2>2 DEF QueueInit, NoLostWakeup
<1>2. ASSUME QueueTypeOK, QueueTypeOK', NoLostWakeup, [QueueNext]_queueVars
      PROVE  NoLostWakeup'
  <2> DEFINE g == Cardinality(Granted)
  <2>0. /\ g \in Nat /\ g' \in Nat /\ Len(qu) \in Nat
        /\ unsent \in Nat /\ sends \in Nat /\ buffered \in Nat
    <3>1. Granted' \subseteq Poppers
      BY DEF Granted
    <3>2. g' \in Nat
      BY <3>1, QueueAssumption, FS_Subset, FS_CardinalityType
    <3>3. g \in Nat
      BY <1>2, GrantedCount
    <3> QED
      BY <1>2, <3>2, <3>3, QueueAssumption DEF QueueTypeOK
  <2>1. ASSUME NEW p \in Poppers, Receive(p), qu' = qu, unsent' = unsent,
               cancelPc' = cancelPc, popper[p] # "granted" \/ qu = <<>>
        PROVE  NoLostWakeup'
    <3>1. CASE qu = <<>>
      <4>1. Len(qu') = 0
        BY <2>1, <3>1
      <4>2. sends' \in Nat /\ buffered' \in Nat /\ unsent' \in Nat
        BY <1>2, QueueAssumption DEF QueueTypeOK
      <4> HIDE DEF g
      <4>3. Len(qu') <= unsent' + sends' + buffered' + g'
        BY ONLY <2>0, <4>1, <4>2, NatSum
      <4> QED
        BY <4>3 DEF NoLostWakeup, g
    <3>2. CASE popper[p] # "granted"
      <4>1. CASE popper' = [popper EXCEPT ![p] = "granted"]
        <5>1. g' = g + 1
          BY <1>2, <3>2, <4>1, GrantJoins
        <5>0. popper'[p] # "parked"
          BY <1>2, <4>1 DEF QueueTypeOK
        <5>2. \/ sends' = sends - 1 /\ buffered' = buffered
              \/ sends' = sends /\ buffered' = buffered - 1
          BY <1>2, <2>1, <5>0 DEF Receive, QueueTypeOK
        <5>3. sends' \in Nat /\ buffered' \in Nat
          BY <1>2, QueueAssumption DEF QueueTypeOK
        <5> HIDE DEF g
        <5>4. (cancelPc # "drain" => Len(qu) <= unsent + sends + buffered + g)
              => (cancelPc' # "drain" =>
                    Len(qu') <= unsent' + sends' + buffered' + g')
          BY <2>0, <2>1, <5>1, <5>2, <5>3
        <5> QED
          BY <1>2, <5>4 DEF NoLostWakeup, g
      <4>2. CASE popper' = [popper EXCEPT ![p] = "parked"]
        <5>1. g' = g
          BY <1>2, <3>2, <4>2, GrantStays DEF QueueTypeOK
        <5>2. sends' = sends /\ buffered' = buffered
          BY <1>2, <2>1, <4>2 DEF Receive, QueueTypeOK
        <5> QED
          BY <1>2, <2>1, <5>1, <5>2 DEF NoLostWakeup
      <4> QED
        BY <2>1, <4>1, <4>2 DEF Receive
    <3> QED
      BY <2>1, <3>1, <3>2
  <2>2. CASE Push
    <3>1. /\ Overflow => Len(qu') = Len(qu)
          /\ ~Overflow => Len(qu') = Len(qu) + 1
      BY <1>2, <2>2, PushFacts
    <3>2. g' = g
      BY <2>2 DEF Push, Granted
    <3>3. /\ sends' = sends /\ buffered' = buffered /\ cancelPc' = cancelPc
          /\ Overflow => unsent' = unsent
          /\ ~Overflow => unsent' = unsent + 1
      BY <2>2 DEF Push
    <3> HIDE DEF g
    <3>4. (cancelPc # "drain" => Len(qu) <= unsent + sends + buffered + g)
          => (cancelPc' # "drain" =>
                Len(qu') <= unsent' + sends' + buffered' + g')
      BY <2>0, <3>1, <3>2, <3>3
    <3> QED
      BY <1>2, <3>4 DEF NoLostWakeup, g
  <2>3. CASE SendToken
    <3>0. unsent' = unsent - 1 /\ qu' = qu /\ cancelPc' = cancelPc
      BY <2>3 DEF SendToken
    <3>1. CASE \E p \in Parked : popper' = [popper EXCEPT ![p] = "granted"]
                                 /\ sends' = sends /\ buffered' = buffered
      <4>1. PICK p \in Parked : popper' = [popper EXCEPT ![p] = "granted"]
                                /\ sends' = sends /\ buffered' = buffered
        BY <3>1
      <4>2. p \in Poppers /\ popper[p] # "granted"
        BY <4>1 DEF Parked
      <4>3. g' = g + 1
        BY <1>2, <4>1, <4>2, GrantJoins
      <4> HIDE DEF g
      <4>4. (cancelPc # "drain" => Len(qu) <= unsent + sends + buffered + g)
            => (cancelPc' # "drain" =>
                  Len(qu') <= unsent' + sends' + buffered' + g')
        BY <2>0, <3>0, <4>1, <4>3
      <4> QED
        BY <1>2, <4>4 DEF NoLostWakeup, g
    <3>2. CASE /\ popper' = popper
               /\ \/ sends' = sends + 1 /\ buffered' = buffered
                  \/ sends' = sends /\ buffered' = buffered + 1
      <4>1. g' = g
        BY <3>2 DEF Granted
      <4>2. sends' \in Nat /\ buffered' \in Nat
        BY <1>2, QueueAssumption DEF QueueTypeOK
      <4> HIDE DEF g
      <4>4. (cancelPc # "drain" => Len(qu) <= unsent + sends + buffered + g)
            => (cancelPc' # "drain" =>
                  Len(qu') <= unsent' + sends' + buffered' + g')
        BY <2>0, <3>0, <3>2, <4>1, <4>2
      <4> QED
        BY <1>2, <4>4 DEF NoLostWakeup, g
    <3> QED
      BY <2>0, <2>3, <3>1, <3>2 DEF SendToken
  <2>4. ASSUME NEW p \in Poppers, Pop(p)
        PROVE  NoLostWakeup'
    BY <2>1, <2>4 DEF Pop
  <2>5. ASSUME NEW p \in Poppers, SkipToken(p)
        PROVE  NoLostWakeup'
    BY <2>1, <2>5 DEF SkipToken
  <2>6. ASSUME NEW p \in Poppers, TakeItem(p)
        PROVE  NoLostWakeup'
    <3>1. Len(Tail(qu)) = Len(qu) - 1
      BY <1>2, <2>6, TailFacts DEF TakeItem, QueueTypeOK
    <3>2. g' = g - 1
      BY <1>2, <2>6, GrantLeaves DEF TakeItem
    <3>3. /\ Len(qu') = Len(qu) - 1 /\ cancelPc' = cancelPc
          /\ unsent' = unsent /\ sends' = sends /\ buffered' = buffered
      BY <2>6, <3>1 DEF TakeItem
    <3> HIDE DEF g
    <3>4. (cancelPc # "drain" => Len(qu) <= unsent + sends + buffered + g)
          => (cancelPc' # "drain" =>
                Len(qu') <= unsent' + sends' + buffered' + g')
      BY <2>0, <3>2, <3>3
    <3> QED
      BY <1>2, <3>4 DEF NoLostWakeup, g
  <2>7. ASSUME NEW p \in Poppers, Rethrow(p)
        PROVE  NoLostWakeup'
    <3>1. g' = g
      BY <1>2, <2>7, GrantStays DEF Rethrow, QueueTypeOK
    <3> QED
      BY <1>2, <2>7, <3>1 DEF NoLostWakeup, Rethrow
  <2>8. CASE CancelChannel
    BY <2>8 DEF CancelChannel, NoLostWakeup
  <2>9. CASE CancelDrain
    <3>1. Len(qu') = 0
      BY <2>9 DEF CancelDrain
    <3>2. sends' \in Nat /\ buffered' \in Nat /\ unsent' \in Nat
      BY <1>2, QueueAssumption DEF QueueTypeOK
    <3> HIDE DEF g
    <3>3. Len(qu') <= unsent' + sends' + buffered' + g'
      BY ONLY <2>0, <3>1, <3>2, NatSum
    <3> QED
      BY <3>3 DEF NoLostWakeup, g
  <2>10. CASE CancelCount \/ UNCHANGED queueVars
    <3>1. g' = g
      BY <2>10 DEF CancelCount, queueVars, Granted
    <3> QED
      BY <1>2, <2>10, <3>1 DEF NoLostWakeup, CancelCount, queueVars
  <2> QED
    BY <1>2, <2>2, <2>3, <2>4, <2>5, <2>6, <2>7, <2>8, <2>9, <2>10
    DEF QueueNext
<1> QED
  BY <1>1, <1>2, TypeCorrect, PTL DEF QueueSpec

-----------------------------------------------------------------------------
(* The control client (client.hpp).                                         *)

(* The variables of the client that are not the queue's.                    *)
SessionType ==
  /\ sock \in {"closed", "connecting", "open", "dead"}
  /\ opening \in {"no", "connect", "hello"}
  /\ reader \in BOOLEAN
  /\ task \in [Poppers -> {"none", "pop", "write"}]
  /\ stopper \in Poppers \cup {NoStop, "reader", "start"}
  /\ reconnecting \in BOOLEAN /\ timer \in BOOLEAN /\ gaveUp \in BOOLEAN
  /\ greeted \in BOOLEAN /\ injectorUp \in BOOLEAN
  /\ losses \in 0..MaxLosses

RetryType == backoff \in BackoffStart..BackoffCap /\ elapsed \in Nat

(* Only what the injector has sent is on its way or arrived, and that is    *)
(* never the "none" of a process that has heard of nothing; while a session *)
(* is live its configuration is the pinned one.                             *)
RouteInv ==
  /\ latest \in 1..MaxConfig /\ live \in BOOLEAN
  /\ cfg \in 0..latest /\ pinned \in 0..latest
  /\ arrived \in Seq(1..latest) /\ inbound \in Seq(1..latest)
  /\ live => cfg = pinned

(* Who drives the client in reconnect mode and outside it.  start()'s own   *)
(* session has no reader(), writer() or stop() beside it while it opens.    *)
DriverInv ==
  /\ reconnecting => gaveUp \/ timer \/ opening # "no"
  /\ ~reconnecting => opening # "no" \/ reader \/ stopper # NoStop
  /\ gaveUp => opening = "no" /\ ~timer /\ reconnecting
  /\ opening # "no" /\ ~reconnecting =>
       Running = {} /\ ~reader /\ stopper = NoStop
  /\ OneDriver

-----------------------------------------------------------------------------
(* Every step of the client is one of the queue or leaves it alone: a       *)
(* writer() pops, skips, takes and rethrows, stop() cancels and never pops  *)
(* in the middle, so what is proved of the queue holds of the client's.     *)
THEOREM ClientUsesQueue == ClientSpec => QueueSpec
<1>1. ClientInit => QueueInit
  BY DEF ClientInit
<1>2. [ClientNext]_vars => [QueueNext]_queueVars
  <2> SUFFICES ASSUME [ClientNext]_vars PROVE QueueNext \/ UNCHANGED queueVars
    OBVIOUS
  <2>1. CASE Open
    BY <2>1 DEF Open, Connected, SessionUp, StartFails, AttemptFails, QueueNext, Running
  <2>2. CASE ReadMessage \/ ReadFails \/ Process \/ Attempt
    BY <2>2 DEF ReadMessage, ReadFails, Process, Attempt
  <2>3. CASE Stop
    BY <2>3 DEF Stop, StopCancels, StopDrains, StopEnds, QueueNext
  <2>4. CASE RunSends \/ Report
    BY <2>4 DEF RunSends, Report, QueueNext
  <2>5. ASSUME NEW w \in Poppers, Writer(w) PROVE QueueNext \/ UNCHANGED queueVars
    BY <2>5 DEF Writer, WriterSkips, WriterTakes, WriteDone, WriteFails,
       WriterCancelled, QueueNext
  <2>6. CASE InjectorGreets \/ InjectorChanges \/ InjectorLost \/ InjectorReturns
    BY <2>6 DEF InjectorGreets, InjectorChanges, InjectorLost, InjectorReturns
  <2>7. CASE UNCHANGED vars
    BY <2>7 DEF vars
  <2> QED
    BY <2>1, <2>2, <2>3, <2>4, <2>5, <2>6, <2>7 DEF ClientNext
<1> QED
  BY <1>1, <1>2, PTL DEF ClientSpec, QueueSpec

-----------------------------------------------------------------------------
(* Every step keeps the types of the session.                               *)
LEMMA SessionTypeStep ==
  ASSUME SessionType, [ClientNext]_vars
  PROVE  SessionType'
<1> USE DEF SessionType
<1>1. CASE Open
  BY <1>1 DEF Open, Connected, SessionUp, StartFails, AttemptFails, Running,
     retryVars, injectorVars
<1>2. CASE ReadMessage \/ ReadFails \/ Process \/ Attempt
  BY <1>2, ZenonT(60) DEF ReadMessage, ReadFails, Process, Attempt, retryVars, injectorVars,
     sessionVars
<1>3. CASE Stop
  BY <1>3, ZenonT(60) DEF Stop, StopCancels, StopDrains, StopEnds, BeginReconnect, clientVars,
     retryVars, injectorVars, sessionVars
<1>4. CASE RunSends \/ Report
  BY <1>4 DEF RunSends, Report, clientVars, retryVars, injectorVars, sessionVars
<1>5. ASSUME NEW w \in Poppers, Writer(w) PROVE SessionType'
  BY <1>5 DEF Writer, WriterSkips, WriterTakes, WriteDone, WriteFails,
     WriterCancelled, clientVars, retryVars, injectorVars, sessionVars
<1>6. CASE InjectorGreets \/ InjectorChanges \/ InjectorLost \/ InjectorReturns
  <2>1. UNCHANGED <<opening, reader, task, stopper, retryVars>>
    BY <1>6 DEF InjectorGreets, InjectorChanges, InjectorLost, InjectorReturns,
       sessionVars
  <2>2. sock' \in {sock, "dead"} /\ greeted' \in BOOLEAN
    BY <1>6 DEF InjectorGreets, InjectorChanges, InjectorLost, InjectorReturns,
       sessionVars
  <2>3. injectorUp' \in BOOLEAN
    BY <1>6 DEF InjectorGreets, InjectorChanges, InjectorLost, InjectorReturns
  <2>4. losses' \in 0..MaxLosses
    <3>1. losses' = losses \/ (losses < MaxLosses /\ losses' = losses + 1)
      BY <1>6 DEF InjectorGreets, InjectorChanges, InjectorLost, InjectorReturns
    <3> QED
      BY <3>1, ClientAssumption DEF ClientAssumption
  <2> QED
    BY <2>1, <2>2, <2>3, <2>4 DEF retryVars
<1>7. CASE UNCHANGED vars
  BY <1>7 DEF vars, clientVars, retryVars, injectorVars, sessionVars
<1> QED
  BY <1>1, <1>2, <1>3, <1>4, <1>5, <1>6, <1>7 DEF ClientNext

(* The delay starts over or doubles up to its cap (client.hpp, attempt()    *)
(* and begin_reconnect()).                                                  *)
LEMMA RetryTypeStep ==
  ASSUME RetryType, [ClientNext]_vars
  PROVE  RetryType'
<1>1. /\ BackoffStart \in Nat \ {0} /\ BackoffCap \in Nat /\ BackoffStart <= BackoffCap
      /\ ConnectTime \in Nat /\ backoff \in BackoffStart..BackoffCap /\ elapsed \in Nat
  BY ClientAssumption DEF ClientAssumption, RetryType
<1>2. NextBackoff \in BackoffStart..BackoffCap /\ BackoffStart \in BackoffStart..BackoffCap
  BY <1>1 DEF NextBackoff
<1>3. CASE SessionUp
  BY <1>1, <1>2, <1>3 DEF SessionUp, RetryType
<1>4. CASE AttemptFails
  BY <1>1, <1>2, <1>4 DEF AttemptFails, RetryType
<1>5. CASE StopEnds
  BY <1>1, <1>2, <1>5 DEF StopEnds, BeginReconnect, retryVars, RetryType
<1>6. CASE Attempt
  BY <1>1, <1>6 DEF Attempt, RetryType
<1>7. CASE UNCHANGED <<backoff, elapsed>>
  BY <1>7 DEF RetryType
<1>8. \/ SessionUp \/ AttemptFails \/ StopEnds \/ Attempt \/ UNCHANGED <<backoff, elapsed>>
  BY DEF ClientNext, Open, Connected, StartFails, ReadMessage, ReadFails, Process,
     Stop, StopCancels, StopDrains, RunSends, Writer, WriterSkips, WriterTakes,
     WriteDone, WriteFails, WriterCancelled, Report, InjectorGreets,
     InjectorChanges, InjectorLost, InjectorReturns, clientVars, retryVars, vars
<1> QED
  BY <1>3, <1>4, <1>5, <1>6, <1>7, <1>8

(* What is left of a message queue, and what a longer range allows.         *)
LEMMA SeqFacts ==
  ASSUME NEW m \in Nat \ {0}, NEW n \in Nat \ {0}, m <= n, NEW s \in Seq(1..m)
  PROVE  /\ s \in Seq(1..n)
         /\ s # <<>> => Head(s) \in 1..m /\ Tail(s) \in Seq(1..m)
         /\ \A x \in 1..n : Append(s, x) \in Seq(1..n)
<1>1. 1..m \subseteq 1..n
  OBVIOUS
<1>2. s \in Seq(1..n)
  BY <1>1
<1> QED
  BY <1>2

(* Every step keeps the route to what the injector sent.                    *)
LEMMA RouteStep ==
  ASSUME RouteInv, [ClientNext]_vars
  PROVE  RouteInv'
<1>1. /\ latest \in Nat \ {0} /\ latest <= MaxConfig /\ MaxConfig \in Nat
      /\ arrived \in Seq(1..latest) /\ inbound \in Seq(1..latest) /\ live \in BOOLEAN
      /\ cfg \in 0..latest /\ pinned \in 0..latest /\ (live => cfg = pinned)
  BY ClientAssumption DEF RouteInv, ClientAssumption
<1>2. CASE ReadMessage
  <2>1. /\ Head(inbound) \in 1..latest /\ Tail(inbound) \in Seq(1..latest)
        /\ \A x \in 1..latest : Append(arrived, x) \in Seq(1..latest)
    BY <1>1, <1>2, SeqFacts DEF ReadMessage
  <2> QED
    BY <1>1, <1>2, <2>1 DEF ReadMessage, RouteInv
<1>3. CASE Process
  <2>1. Head(arrived) \in 1..latest /\ Tail(arrived) \in Seq(1..latest)
    BY <1>1, <1>3, SeqFacts DEF Process
  <2> QED
    BY <1>1, <1>3, <2>1 DEF Process, RouteInv, injectorVars
<1>4. CASE StopEnds
  BY <1>1, <1>4 DEF StopEnds, Drop, RouteInv, injectorVars
<1>5. CASE Connected
  <2>1. <<>> \in Seq(1..latest)
    OBVIOUS
  <2> QED
    BY <1>1, <1>5, <2>1 DEF Connected, RouteInv, configVars
<1>6. CASE InjectorGreets
  <2>1. inbound' \in Seq(1..latest)
    <3>1. CASE inbound' = Append(inbound, latest)
      BY <1>1, <3>1
    <3>2. CASE latest > 1 /\ inbound' = inbound \o <<latest, latest - 1, latest>>
      <4>1. latest - 1 \in 1..latest /\ latest \in 1..latest
        BY <1>1, <3>2
      <4>2. <<latest, latest - 1, latest>> \in Seq(1..latest)
        BY <4>1
      <4> QED
        BY <1>1, <3>2, <4>2
    <3> QED
      BY <1>6, <3>1, <3>2 DEF InjectorGreets
  <2> QED
    BY <1>1, <1>6, <2>1 DEF InjectorGreets, RouteInv, configVars
<1>7. CASE InjectorChanges
  <2>1. /\ latest' = latest + 1 /\ latest' \in Nat \ {0} /\ latest' <= MaxConfig
        /\ latest <= latest' /\ UNCHANGED configVars
    BY <1>1, <1>7 DEF InjectorChanges
  <2>2. arrived \in Seq(1..latest') /\ inbound \in Seq(1..latest') /\ latest' \in 1..latest'
    BY <1>1, <2>1, SeqFacts
  <2>3. inbound' \in Seq(1..latest')
    <3>1. inbound' \in {inbound, Append(inbound, latest')}
      BY <1>7, <2>1 DEF InjectorChanges
    <3> QED
      BY <2>2, <3>1
  <2> QED
    BY <1>1, <2>1, <2>2, <2>3 DEF RouteInv, configVars
<1>8. CASE UNCHANGED <<cfg, pinned, live, arrived, inbound, latest>>
  BY <1>8 DEF RouteInv
<1>9. \/ ReadMessage \/ Process \/ StopEnds \/ Connected \/ InjectorGreets
      \/ InjectorChanges \/ UNCHANGED <<cfg, pinned, live, arrived, inbound, latest>>
  BY DEF ClientNext, Open, SessionUp, StartFails, AttemptFails, ReadFails, Stop,
     StopCancels, StopDrains, RunSends, Attempt, Writer, WriterSkips, WriterTakes,
     WriteDone, WriteFails, WriterCancelled, Report, InjectorLost,
     InjectorReturns, clientVars, configVars, injectorVars, vars
<1> QED
  BY <1>2, <1>3, <1>4, <1>5, <1>6, <1>7, <1>8, <1>9

-----------------------------------------------------------------------------
(* Every step leaves one driver.                                            *)
LEMMA DriverStep ==
  ASSUME SessionType, DriverInv, [ClientNext]_vars
  PROVE  DriverInv'
<1> USE DEF DriverInv, OneDriver
<1>0. NoStop \notin Poppers /\ NoStop # "reader" /\ NoStop # "start"
  BY ClientAssumption DEF ClientAssumption, NoStop
<1>1. CASE Connected
  BY <1>1 DEF Connected, Free, retryVars, Running
<1>2. CASE SessionUp
  BY <1>2 DEF SessionUp, Free, Running, injectorVars
<1>3. CASE StartFails
  BY <1>0, <1>3 DEF StartFails, OpenThrows, Free, retryVars, Running
<1>4. CASE AttemptFails
  BY <1>4 DEF AttemptFails, OpenThrows, Free, Running, SessionType
<1>5. CASE ReadFails
  BY <1>0, <1>5 DEF ReadFails, Free, retryVars, Running
<1>6. CASE StopEnds
  BY <1>6 DEF StopEnds, BeginReconnect, retryVars, Running
<1>7. CASE Attempt
  BY <1>7 DEF Attempt, Quiet, Free, Running, SessionType
<1>8. ASSUME NEW w \in Poppers, Writer(w)
      PROVE  DriverInv'
  <2>1. CASE WriterSkips(w)
    BY <2>1 DEF WriterSkips, clientVars, sessionVars, retryVars, Running
  <2>2. CASE WriterTakes(w) \/ WriteDone(w) \/ WriteFails(w) \/ WriterCancelled(w)
    <3>1. task[w] # "none"
      BY <2>2 DEF WriterTakes, WriteDone, WriteFails, WriterCancelled
    <3>2. /\ UNCHANGED <<sock, opening, reader, retryVars>>
          /\ stopper' \in {stopper, w}
      BY <2>2 DEF WriterTakes, WriteDone, WriteFails, WriterCancelled
    <3>3. Running # {}
      BY <3>1 DEF Running
    <3> QED
      BY <1>0, <3>2, <3>3 DEF retryVars
  <2> QED
    BY <1>8, <2>1, <2>2 DEF Writer
<1>9. CASE InjectorLost
  BY <1>9 DEF InjectorLost, retryVars, Running
<1>10. CASE UNCHANGED <<sessionVars, retryVars>>
  BY <1>10 DEF sessionVars, retryVars, Running
<1>11. \/ Open \/ ReadFails \/ StopEnds \/ Attempt \/ InjectorLost
       \/ \E w \in Poppers : Writer(w)
       \/ UNCHANGED <<sessionVars, retryVars>>
  BY DEF ClientNext, ReadMessage, Process, Stop, StopCancels, StopDrains, RunSends,
     Report, InjectorGreets, InjectorChanges, InjectorReturns, clientVars, vars
<1> QED
  BY <1>1, <1>2, <1>3, <1>4, <1>5, <1>6, <1>7, <1>8, <1>9, <1>10, <1>11 DEF Open

-----------------------------------------------------------------------------
ClientInv == SessionType /\ RetryType /\ RouteInv /\ DriverInv

(* The four parts of the invariant hold throughout.                         *)
LEMMA ClientInductive == ClientSpec => []ClientInv
<1>1. ClientInit => ClientInv
  <2> SUFFICES ASSUME ClientInit PROVE ClientInv
    OBVIOUS
  <2>0. 0 \in 0..MaxLosses /\ 1 \in 1..MaxConfig
    BY ClientAssumption DEF ClientAssumption
  <2>1. SessionType
    <3>1. task \in [Poppers -> {"none", "pop", "write"}] /\ losses \in 0..MaxLosses
      BY <2>0 DEF ClientInit
    <3> QED
      BY <3>1 DEF ClientInit, SessionType
  <2>2. RetryType
    BY ClientAssumption DEF ClientInit, RetryType, ClientAssumption
  <2>3. RouteInv
    <3>1. /\ latest = 1 /\ cfg = 0 /\ pinned = 0 /\ live = FALSE
          /\ arrived = <<>> /\ inbound = <<>>
      BY DEF ClientInit
    <3>2. arrived \in Seq(1..latest) /\ inbound \in Seq(1..latest)
      BY <3>1
    <3>3. cfg \in 0..latest /\ pinned \in 0..latest /\ latest \in 1..MaxConfig
      BY <2>0, <3>1
    <3> QED
      BY <3>1, <3>2, <3>3 DEF RouteInv
  <2>4. DriverInv
    BY DEF ClientInit, DriverInv, OneDriver, Running, NoStop
  <2> QED
    BY <2>1, <2>2, <2>3, <2>4 DEF ClientInv
<1>2. ClientInv /\ [ClientNext]_vars => ClientInv'
  BY SessionTypeStep, RetryTypeStep, RouteStep, DriverStep DEF ClientInv
<1> QED
  BY <1>1, <1>2, PTL DEF ClientSpec

(* Every variable of the client and of its queue keeps its type; the delay  *)
(* between attempts stays between backoff_start and backoff_cap             *)
(* (client.hpp, attempt() and begin_reconnect()).                           *)
THEOREM ClientTypeCorrect == ClientSpec => []ClientTypeOK
<1>1. ClientInv /\ QueueTypeOK => ClientTypeOK
  <2> SUFFICES ASSUME ClientInv, QueueTypeOK PROVE ClientTypeOK
    OBVIOUS
  <2>1. latest \in Nat \ {0} /\ latest \in 0..MaxConfig /\ 1..latest \subseteq 0..latest
    BY ClientAssumption DEF ClientInv, RouteInv, ClientAssumption
  <2>2. arrived \in Seq(0..latest) /\ inbound \in Seq(0..latest)
    BY <2>1 DEF ClientInv, RouteInv
  <2> QED
    BY <2>1, <2>2 DEF ClientInv, ClientTypeOK, SessionType, RetryType, RouteInv
<1> QED
  BY <1>1, ClientInductive, ClientUsesQueue, TypeCorrect, PTL

(* The client is never left with nobody to bring its session back, however  *)
(* the reader's and the writers' stop() and begin_reconnect() interleave    *)
(* with an attempt() (client.hpp, stop(), begin_reconnect(), attempt()).    *)
THEOREM NeverUndriven == ClientSpec => []SomebodyDrives
<1>1. ClientInv => SomebodyDrives
  BY DEF ClientInv, DriverInv, SomebodyDrives, SessionType
<1> QED
  BY <1>1, ClientInductive, PTL

(* No timer runs against an attempt or a session that is up, and an attempt *)
(* never meets the reader() of an older session (client.hpp, reconnecting_). *)
THEOREM NeverTwoDrivers == ClientSpec => []OneDriver
<1>1. ClientInv => OneDriver
  BY DEF ClientInv, DriverInv
<1> QED
  BY <1>1, ClientInductive, PTL

(* Routing is pinned: losing the injector, reconnecting and giving up leave *)
(* it alone, and it only ever moves to a configuration that was sent        *)
(* (client.hpp, injectee_config::set() and drop()).                         *)
THEOREM RouteStaysPinned == ClientSpec => RoutePinned
<1> DEFINE Moves == Route' # Route =>
                      arrived # <<>> /\ Route' = Head(arrived) /\ Route' # 0
<1>1. ASSUME ClientInv, [ClientNext]_vars PROVE Moves
  <2>1. CASE Process
    <3>1. Route' = Head(arrived) /\ arrived # <<>>
      BY <2>1 DEF Process, Route
    <3>2. Head(arrived) \in 1..latest /\ latest \in Nat
      BY <1>1, <3>1, ClientAssumption DEF ClientInv, RouteInv, ClientAssumption
    <3> QED
      BY <3>1, <3>2
  <2>2. CASE StopEnds
    BY <1>1, <2>2 DEF StopEnds, Drop, Route, ClientInv, RouteInv
  <2>3. CASE UNCHANGED <<cfg, pinned, live>>
    BY <2>3 DEF Route
  <2>4. Process \/ StopEnds \/ UNCHANGED <<cfg, pinned, live>>
    BY <1>1 DEF ClientNext, Open, Connected, SessionUp, StartFails, AttemptFails,
       ReadMessage, ReadFails, Stop, StopCancels, StopDrains, RunSends, Attempt,
       Writer, WriterSkips, WriterTakes, WriteDone, WriteFails, WriterCancelled,
       Report, InjectorGreets, InjectorChanges, InjectorLost, InjectorReturns,
       clientVars, configVars, vars
  <2> QED
    BY <2>1, <2>2, <2>3, <2>4
<1>2. ClientInv /\ [ClientNext]_vars => [Moves]_vars
  BY <1>1
<1> QED
  BY <1>2, ClientInductive, PTL DEF ClientSpec, RoutePinned

(* Through every session the client loses, what the host reported is        *)
(* written, dropped or still queued, the newest reports are the ones that   *)
(* are kept, and each of them has its wakeup (queue.hpp 143-146;            *)
(* client.hpp, writer() and stop()).                                        *)
THEOREM ReportsSurviveLosses ==
  ClientSpec => [](Conservation /\ NewestKept /\ NoLostWakeup)
  BY ClientUsesQueue, ReportsConserved, QueueKeepsNewest, WakeupsKept, PTL
=============================================================================
