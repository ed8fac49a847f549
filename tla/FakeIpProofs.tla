---------------------------- MODULE FakeIpProofs -----------------------------
(***************************************************************************)
(* The fake-IP table for every capacity, ring length, set of names and set *)
(* of threads: it is well typed, it is the map it promises to be, a name   *)
(* has one address, pins are counted, a stale answer leads nowhere for a   *)
(* whole ring, and a full table drains.                                    *)
(***************************************************************************)
EXTENDS FakeIp, WellFoundedInduction, FiniteSetTheorems, TLAPS

(* A scan for the first row that fits stops at one if there is any.         *)
LEMMA FirstExists ==
  ASSUME NEW S \in SUBSET Nat, S # {}
  PROVE  First(S) # {}
<1> DEFINE R == OpToRel(<, Nat)
<1>1. IsWellFoundedOn(R, Nat)
  BY NatLessThanWellFounded
<1> HIDE DEF R
<1>2. PICK x \in S : \A y \in S : ~ (<<y, x>> \in R)
  BY <1>1, WFMin
<1>3. ASSUME NEW y \in S
      PROVE  x <= y
  <2>1. <<y, x>> \in R <=> y < x
    BY DEF R, OpToRel
  <2>2. ~(y < x)
    BY <1>2, <2>1
  <2> QED
    BY <2>2
<1> QED
  BY <1>3 DEF First

(* A scan returns rows it was to look at.                                   *)
LEMMA FirstIn == \A S : First(S) \subseteq S
  BY DEF First

(* A name that find_name() does not find is in no row.                      *)
LEMMA NameAbsent ==
  ASSUME NEW n, find_name(n) = {}
  PROVE  \A s \in Slots : row[s].name # n
<1> DEFINE S == {s \in Slots : row[s].name = n}
<1>1. S \in SUBSET Nat
  BY FakeIpAssumption DEF Slots
<1>2. S = {}
  BY <1>1, FirstExists DEF find_name
<1> QED
  BY <1>2

(* A row that find_free() returns holds no name and may be given out, and   *)
(* when it returns none there is none.                                      *)
LEMMA FreeFacts ==
  ASSUME NEW r, NEW clock
  PROVE  /\ \A s \in find_free(r, clock) :
              /\ s \in Slots /\ s \notin excluded
              /\ r[s].name = NoName /\ claimable(r, clock, s)
         /\ find_free(r, clock) = {} =>
              \A s \in Slots : r[s].name = NoName => ~claimable(r, clock, s)
<1> DEFINE S == {s \in Slots : r[s].name = NoName /\ claimable(r, clock, s)}
<1>1. find_free(r, clock) \subseteq S
  BY FirstIn DEF find_free
<1>2. ASSUME find_free(r, clock) = {}
      PROVE  S = {}
  <2>1. S \in SUBSET Nat
    BY FakeIpAssumption DEF Slots
  <2> QED
    BY <1>2, <2>1, FirstExists DEF find_free
<1>3. \A s \in S : s \in Slots /\ s \notin excluded
  BY DEF claimable
<1> QED
  BY <1>1, <1>2, <1>3

(* The row that find_lru names is named and has no connect in flight.       *)
LEMMA VictimFacts ==
  \A v \in find_lru : v \in Slots /\ row[v].name # NoName /\ row[v].inflight = 0
BY FirstIn DEF find_lru

-----------------------------------------------------------------------------
(* What claim() and retire() make of well-typed rows.                       *)
LEMMA ClaimType ==
  ASSUME NEW r \in [Slots -> Row], NEW s \in Slots, NEW n \in Names, NEW now \in Nat
  PROVE  claim(r, s, n, now) \in [Slots -> Row]
  BY DEF claim, Row

(* retire() returns a table.                                                *)
LEMMA RetireType ==
  ASSUME NEW r \in [Slots -> Row], NEW s \in Slots, NEW clock \in Nat,
         quarantine \in Nat
  PROVE  retire(r, s, clock) \in [Slots -> Row]
<1> DEFINE x == [r[s] EXCEPT !.name = NoName, !.inflight = 0,
                             !.used_once = TRUE,
                             !.reusable_at = clock + quarantine]
<1>1. r[s] \in Row /\ clock + quarantine \in Nat
  OBVIOUS
<1>2. x \in Row
  BY <1>1 DEF Row
<1>3. retire(r, s, clock) = [r EXCEPT ![s] = x]
  BY DEF retire
<1> HIDE DEF x
<1> QED
  BY <1>2, <1>3

(* The rows and the address of a new name.                                  *)
LEMMA NewNameFacts ==
  ASSUME FakeTypeOK, NEW t \in Threads, NEW n \in Names, NewName(t, n)
  PROVE  /\ touch' \in Nat /\ allocations' \in Nat /\ quarantine \in Nat
         /\ quarantine' = quarantine /\ excluded' = excluded
         /\ exclusions' = exclusions
         /\ \A s \in Slots : row[s].name # n
  BY NameAbsent, FakeIpAssumption DEF FakeTypeOK, NewName, MayAsk

(* Answering a thread, and losing an answer, keep the threads well typed.   *)
LEMMA AnswerType ==
  ASSUME FakeTypeOK, NEW t \in Threads, NEW n \in Names, NEW s \in Slots,
         Answer(t, n, s)
  PROVE  thread' \in [Threads -> Thread]
  BY DEF FakeTypeOK, Answer, Thread, IdleThread

(* Noting a loss keeps the times of loss typed.                             *)
LEMMA LostType ==
  ASSUME FakeTypeOK, NEW s, NEW clock \in Nat
  PROVE  Lost(s, clock) \in [Threads -> Nat \cup {-1}]
  BY DEF FakeTypeOK, Lost

(* Every reachable state of the table is well typed: the counts of pins and *)
(* the clocks never go negative (fakeip.hpp, fake_map.hpp).                 *)
THEOREM FakeTypeCorrect == FakeSpec => []FakeTypeOK
<1>1. FakeInit => FakeTypeOK
  BY FakeIpAssumption DEF FakeInit, FakeTypeOK, Row, Thread, IdleThread
<1>2. ASSUME FakeTypeOK, [FakeNext]_fakeVars
      PROVE  FakeTypeOK'
  <2> USE FakeIpAssumption
  <2>0. /\ quarantine \in Nat /\ row \in [Slots -> Row]
        /\ touch \in Nat /\ allocations \in Nat
    BY <1>2 DEF FakeTypeOK
  <2>1. ASSUME NEW t \in Threads, NEW n \in Names, AllocSeen(t, n)
        PROVE  FakeTypeOK'
    <3>1. PICK s \in find_name(n) : /\ row' = [row EXCEPT ![s].last_use = touch']
                                    /\ Answer(t, n, s)
      BY <2>1 DEF AllocSeen
    <3>2. s \in Slots
      BY FirstIn DEF find_name
    <3>3. touch' \in Nat
      BY <2>0, <2>1 DEF AllocSeen, MayAsk
    <3>4. row' \in [Slots -> Row]
      BY <2>0, <3>1, <3>2, <3>3 DEF Row
    <3>5. thread' \in [Threads -> Thread]
      BY <1>2, <3>1, <3>2, AnswerType
    <3> QED
      BY <1>2, <2>1, <3>3, <3>4, <3>5 DEF FakeTypeOK, AllocSeen, MayAsk
  <2>2. ASSUME NEW t \in Threads, NEW n \in Names, AllocFree(t, n)
        PROVE  FakeTypeOK'
    <3>1. PICK s \in find_free(row, allocations') :
            row' = claim(row, s, n, touch') /\ Answer(t, n, s)
      BY <2>2 DEF AllocFree
    <3>2. s \in Slots
      BY FreeFacts
    <3>3. touch' \in Nat /\ allocations' \in Nat
      BY <1>2, <2>2, NewNameFacts DEF AllocFree
    <3>4. row' \in [Slots -> Row]
      BY <2>0, <3>1, <3>2, <3>3, ClaimType
    <3>5. thread' \in [Threads -> Thread]
      BY <1>2, <3>1, <3>2, AnswerType
    <3> QED
      BY <1>2, <2>2, <3>3, <3>4, <3>5 DEF FakeTypeOK, AllocFree, NewName, MayAsk
  <2>3. ASSUME NEW t \in Threads, NEW n \in Names, AllocFull(t, n)
        PROVE  FakeTypeOK'
    <3>1. PICK v \in find_lru :
            LET left == retire(row, v, allocations') IN
            \/ /\ \E s \in find_free(left, allocations') :
                     row' = claim(left, s, n, touch') /\ Answer(t, n, s)
               /\ lostAt' = [Lost(v, allocations') EXCEPT ![t] = -1]
               /\ streak' = 0
            \/ /\ row' = left
               /\ lostAt' = Lost(v, allocations')
               /\ streak' = streak + 1
               /\ UNCHANGED thread
      BY <2>3 DEF AllocFull
    <3> DEFINE left == retire(row, v, allocations')
    <3>2. v \in Slots
      BY VictimFacts
    <3>3. touch' \in Nat /\ allocations' \in Nat
      BY <1>2, <2>3, NewNameFacts DEF AllocFull
    <3>4. left \in [Slots -> Row]
      BY <2>0, <3>2, <3>3, RetireType
    <3>5. Lost(v, allocations') \in [Threads -> Nat \cup {-1}]
      BY <1>2, <3>3, LostType
    <3> HIDE DEF left
    <3>6. row' \in [Slots -> Row] /\ thread' \in [Threads -> Thread]
      <4>1. CASE row' = left /\ UNCHANGED thread
        BY <1>2, <3>4, <4>1 DEF FakeTypeOK
      <4>2. ASSUME NEW s \in find_free(left, allocations'),
                   row' = claim(left, s, n, touch'), Answer(t, n, s)
            PROVE  row' \in [Slots -> Row] /\ thread' \in [Threads -> Thread]
        <5>1. s \in Slots
          BY FreeFacts
        <5> QED
          BY <1>2, <3>3, <3>4, <4>2, <5>1, ClaimType, AnswerType
      <4> QED
        BY <3>1, <4>1, <4>2 DEF left
    <3>7. lostAt' \in [Threads -> Nat \cup {-1}] /\ streak' \in Nat
      BY <1>2, <3>1, <3>5 DEF FakeTypeOK
    <3> QED
      BY <1>2, <2>3, <3>3, <3>6, <3>7 DEF FakeTypeOK, AllocFull, NewName, MayAsk
  <2>4. ASSUME NEW t \in Threads, NEW n \in Names, AllocNone(t, n)
        PROVE  FakeTypeOK'
    BY <1>2, <2>4 DEF FakeTypeOK, AllocNone, NewName, MayAsk
  <2>5. ASSUME NEW t \in Threads, NEW family \in Families, NEW len \in Lengths,
               Connect(t, family, len)
        PROVE  FakeTypeOK'
    <3> DEFINE buf == [family |-> family, len |-> len,
                       v4 |-> fake_ip_at(thread[t].fake)]
    <3>1. PICK n \in decide(buf, TRUE).names :
            thread' = [thread EXCEPT ![t] = [@ EXCEPT !.pc = "decided",
                                                      !.routed = n]]
      BY <2>5 DEF Connect
    <3>2. \A v4 : lookup(v4) \subseteq Names \cup {NoName}
      BY <2>0 DEF lookup, owned_slot, fake_ip_slot_of, Row
    <3>3. n \in Names \cup {NoName}
      BY <3>2 DEF decide
    <3>4. thread' \in [Threads -> Thread]
      <4>1. thread[t] \in Thread /\ thread \in [Threads -> Thread]
        BY <1>2 DEF FakeTypeOK
      <4>2. [thread[t] EXCEPT !.pc = "decided", !.routed = n] \in Thread
        BY <3>3, <4>1 DEF Thread
      <4> QED
        BY <3>1, <4>1, <4>2
    <3> QED
      BY <1>2, <2>5, <3>4 DEF FakeTypeOK, Connect, tableVars
  <2>6. ASSUME NEW t \in Threads, Pin(t)
        PROVE  FakeTypeOK'
    <3>1. row' \in [Slots -> Row]
      BY <2>0, <2>6 DEF Pin, Row
    <3>2. thread' \in [Threads -> Thread]
      <4> DEFINE x(b) == [thread[t] EXCEPT !.pc = "connected", !.pinned = b]
      <4>1. thread[t] \in Thread /\ thread \in [Threads -> Thread]
        BY <1>2 DEF FakeTypeOK
      <4>2. x(TRUE) \in Thread /\ x(FALSE) \in Thread
        BY <4>1 DEF Thread
      <4>3. \/ thread' = [thread EXCEPT ![t] = x(TRUE)]
            \/ thread' = [thread EXCEPT ![t] = x(FALSE)]
        <5>1. CASE owned_slot(fake_ip_at(thread[t].fake)) = {}
          BY <2>6, <5>1 DEF Pin
        <5>2. CASE owned_slot(fake_ip_at(thread[t].fake)) # {}
          BY <2>6, <5>2 DEF Pin
        <5> QED
          BY <5>1, <5>2
      <4> HIDE DEF x
      <4> QED
        BY <4>1, <4>2, <4>3
    <3> QED
      BY <1>2, <2>6, <3>1, <3>2 DEF FakeTypeOK, Pin
  <2>7. ASSUME NEW t \in Threads, NoteTouched(t)
        PROVE  FakeTypeOK'
    <3>1. PICK s \in owned_slot(fake_ip_at(thread[t].fake)) :
            row' = [row EXCEPT ![s].last_use = touch + 1]
      BY <2>7 DEF NoteTouched
    <3>2. s \in Slots
      BY DEF owned_slot, fake_ip_slot_of
    <3>3. row' \in [Slots -> Row]
      BY <2>0, <3>1, <3>2 DEF Row
    <3> QED
      BY <1>2, <2>7, <3>3 DEF FakeTypeOK, NoteTouched
  <2>8. ASSUME NEW t \in Threads, Unpin(t)
        PROVE  FakeTypeOK'
    <3>1. row' \in [Slots -> Row]
      <4>1. ASSUME NEW s \in Slots, row[s].inflight # 0
            PROVE  [row[s] EXCEPT !.inflight = @ - 1] \in Row
        <5>1. row[s] \in Row /\ row[s].inflight \in Nat
          BY <2>0 DEF Row
        <5>2. row[s].inflight - 1 \in Nat
          BY <4>1, <5>1
        <5> QED
          BY <5>1, <5>2 DEF Row
      <4> QED
        BY <2>0, <2>8, <4>1 DEF Unpin
    <3>2. thread' \in [Threads -> Thread]
      BY <1>2, <2>8, ZenonT(60) DEF FakeTypeOK, Unpin, Thread
    <3> QED
      BY <1>2, <2>8, <3>1, <3>2 DEF FakeTypeOK, Unpin
  <2>9. ASSUME NEW t \in Threads, Forget(t)
        PROVE  FakeTypeOK'
    BY <1>2, <2>9 DEF FakeTypeOK, Forget, Thread, IdleThread, tableVars
  <2>10. ASSUME NEW v4 \in Octets, exclude(v4)
         PROVE  FakeTypeOK'
    <3>1. PICK s \in fake_ip_slot_of(v4) \ excluded :
            /\ excluded' = excluded \cup {s}
            /\ IF row[s].name # NoName
                 THEN /\ row' = retire(row, s, allocations)
                      /\ lostAt' = Lost(s, allocations)
                 ELSE UNCHANGED <<row, lostAt>>
      BY <2>10 DEF exclude
    <3>2. s \in Slots
      BY DEF fake_ip_slot_of
    <3>3. row' \in [Slots -> Row] /\ lostAt' \in [Threads -> Nat \cup {-1}]
      BY <1>2, <2>0, <3>1, <3>2, RetireType, LostType DEF FakeTypeOK
    <3> QED
      BY <1>2, <2>10, <3>1, <3>2, <3>3 DEF FakeTypeOK, exclude
  <2>11. ASSUME NEW ticks \in 1..2, forward_progress(ticks)
         PROVE  FakeTypeOK'
    BY <1>2, <2>11 DEF FakeTypeOK, forward_progress
  <2>12. CASE UNCHANGED fakeVars
    BY <1>2, <2>12 DEF FakeTypeOK, fakeVars
  <2> QED
    BY <1>2, <2>1, <2>2, <2>3, <2>4, <2>5, <2>6, <2>7, <2>8, <2>9, <2>10,
       <2>11, <2>12 DEF FakeNext
<1> QED
  BY <1>1, <1>2, PTL DEF FakeSpec

-----------------------------------------------------------------------------
(* The name in every row, which is what the promise is about.               *)
holds == [s \in Slots |-> row[s].name]

(* What the map holds after a step that renames one row.                    *)
LEMMA HoldsExcept ==
  ASSUME NEW s \in Slots, NEW n, row'[s].name = n,
         \A o \in Slots \ {s} : row'[o].name = row[o].name
  PROVE  holds' = [holds EXCEPT ![s] = n]
  BY DEF holds

(* A step that renames no row leaves the map alone.                         *)
LEMMA HoldsSame ==
  ASSUME \A o \in Slots : row'[o].name = row[o].name
  PROVE  holds' = holds
  BY DEF holds

(* A new name that is served when the table is full gets the very row that  *)
(* was retired for it: any other row would have been free before.           *)
LEMMA VictimServes ==
  ASSUME row \in [Slots -> Row], NEW v \in Slots, NEW clock,
         find_free(row, clock) = {},
         NEW s \in find_free(retire(row, v, clock), clock)
  PROVE  s = v
<1> SUFFICES ASSUME s # v PROVE FALSE
  OBVIOUS
<1>1. /\ s \in Slots /\ retire(row, v, clock)[s].name = NoName
      /\ claimable(retire(row, v, clock), clock, s)
  BY FreeFacts
<1>2. retire(row, v, clock)[s] = row[s]
  BY <1>1 DEF retire
<1>3. row[s].name = NoName /\ claimable(row, clock, s)
  BY <1>1, <1>2 DEF claimable
<1> QED
  BY <1>1, <1>3, FreeFacts

(* What each step of the table is to the promise.                           *)
LEMMA StepRefines ==
  ASSUME FakeTypeOK, [FakeNext]_fakeVars
  PROVE  \/ holds' = holds /\ UNCHANGED <<excluded, exclusions>>
         \/ \E s \in Slots, n \in Names :
              /\ s \notin excluded /\ \A o \in Slots : row[o].name # n
              /\ holds' = [holds EXCEPT ![s] = n]
              /\ UNCHANGED <<excluded, exclusions>>
         \/ \E s \in Slots :
              /\ row[s].name # NoName
              /\ holds' = [holds EXCEPT ![s] = NoName]
              /\ UNCHANGED <<excluded, exclusions>>
         \/ \E s \in Slots :
              /\ s \notin excluded /\ excluded' = excluded \cup {s}
              /\ holds' = [holds EXCEPT ![s] = NoName]
              /\ exclusions' = exclusions + 1
<1> DEFINE Goal ==
         \/ holds' = holds /\ UNCHANGED <<excluded, exclusions>>
         \/ \E s \in Slots, n \in Names :
              /\ s \notin excluded /\ \A o \in Slots : row[o].name # n
              /\ holds' = [holds EXCEPT ![s] = n]
              /\ UNCHANGED <<excluded, exclusions>>
         \/ \E s \in Slots :
              /\ row[s].name # NoName
              /\ holds' = [holds EXCEPT ![s] = NoName]
              /\ UNCHANGED <<excluded, exclusions>>
         \/ \E s \in Slots :
              /\ s \notin excluded /\ excluded' = excluded \cup {s}
              /\ holds' = [holds EXCEPT ![s] = NoName]
              /\ exclusions' = exclusions + 1
<1>0. row \in [Slots -> Row]
  BY DEF FakeTypeOK
<1>1. ASSUME NEW t \in Threads, NEW n \in Names, AllocSeen(t, n)
      PROVE  Goal
  <2>1. \A o \in Slots : row'[o].name = row[o].name
    BY <1>0, <1>1, FirstIn DEF AllocSeen, find_name, Row
  <2> QED
    BY <1>1, <2>1, HoldsSame DEF AllocSeen, MayAsk
<1>2. ASSUME NEW t \in Threads, NEW n \in Names, AllocFree(t, n)
      PROVE  Goal
  <2>1. PICK s \in find_free(row, allocations') : row' = claim(row, s, n, touch')
    BY <1>2 DEF AllocFree
  <2>2. s \in Slots /\ s \notin excluded
    BY FreeFacts
  <2>3. holds' = [holds EXCEPT ![s] = n]
    BY <1>0, <2>1, <2>2, HoldsExcept DEF claim
  <2>4. UNCHANGED <<excluded, exclusions>> /\ \A o \in Slots : row[o].name # n
    BY <1>2, NewNameFacts DEF AllocFree
  <2> QED
    BY <2>2, <2>3, <2>4
<1>3. ASSUME NEW t \in Threads, NEW n \in Names, AllocFull(t, n)
      PROVE  Goal
  <2>1. PICK v \in find_lru :
          \/ \E s \in find_free(retire(row, v, allocations'), allocations') :
               row' = claim(retire(row, v, allocations'), s, n, touch')
          \/ row' = retire(row, v, allocations')
    BY <1>3 DEF AllocFull
  <2>2. v \in Slots /\ row[v].name # NoName
    BY VictimFacts
  <2>3. UNCHANGED <<excluded, exclusions>> /\ \A o \in Slots : row[o].name # n
    BY <1>3, NewNameFacts DEF AllocFull
  <2>4. ASSUME NEW s \in find_free(retire(row, v, allocations'), allocations'),
               row' = claim(retire(row, v, allocations'), s, n, touch')
        PROVE  Goal
    <3>1. s = v /\ s \notin excluded
      BY <1>0, <1>3, <2>2, VictimServes, FreeFacts DEF AllocFull
    <3>2. row'[v].name = n /\ \A o \in Slots \ {v} : row'[o].name = row[o].name
      BY <1>0, <2>2, <2>4, <3>1 DEF claim, retire
    <3>3. holds' = [holds EXCEPT ![v] = n]
      BY <2>2, <3>2, HoldsExcept
    <3> QED
      BY <2>2, <2>3, <3>1, <3>3
  <2>5. CASE row' = retire(row, v, allocations')
    <3>1. row'[v].name = NoName /\ \A o \in Slots \ {v} : row'[o].name = row[o].name
      BY <1>0, <2>2, <2>5 DEF retire, Row
    <3>2. holds' = [holds EXCEPT ![v] = NoName]
      BY <2>2, <3>1, HoldsExcept
    <3> QED
      BY <2>2, <2>3, <3>2
  <2> QED
    BY <2>1, <2>4, <2>5
<1>4. ASSUME NEW t \in Threads, NEW n \in Names, AllocNone(t, n)
      PROVE  Goal
  BY <1>4, HoldsSame DEF AllocNone, NewName, MayAsk
<1>5. ASSUME NEW t \in Threads, NEW family, NEW len, Connect(t, family, len)
      PROVE  Goal
  BY <1>5, HoldsSame DEF Connect, tableVars
<1>6. ASSUME NEW t \in Threads, Pin(t)
      PROVE  Goal
  <2>1. \A o \in Slots : row'[o].name = row[o].name
    BY <1>0, <1>6 DEF Pin, Row
  <2> QED
    BY <1>6, <2>1, HoldsSame DEF Pin
<1>7. ASSUME NEW t \in Threads, NoteTouched(t)
      PROVE  Goal
  <2>1. \A o \in Slots : row'[o].name = row[o].name
    BY <1>0, <1>7 DEF NoteTouched, owned_slot, fake_ip_slot_of, Row
  <2> QED
    BY <1>7, <2>1, HoldsSame DEF NoteTouched
<1>8. ASSUME NEW t \in Threads, Unpin(t)
      PROVE  Goal
  <2>1. \A o \in Slots : row'[o].name = row[o].name
    BY <1>0, <1>8 DEF Unpin, Row
  <2> QED
    BY <1>8, <2>1, HoldsSame DEF Unpin
<1>9. ASSUME NEW t \in Threads, Forget(t)
      PROVE  Goal
  BY <1>9, HoldsSame DEF Forget, tableVars
<1>10. ASSUME NEW v4 \in Octets, exclude(v4)
       PROVE  Goal
  <2>1. PICK s \in fake_ip_slot_of(v4) \ excluded :
          /\ excluded' = excluded \cup {s}
          /\ row' = IF row[s].name # NoName THEN retire(row, s, allocations)
                    ELSE row
    BY <1>10 DEF exclude
  <2>2. s \in Slots /\ s \notin excluded
    BY DEF fake_ip_slot_of
  <2>3. row'[s].name = NoName /\ \A o \in Slots \ {s} : row'[o].name = row[o].name
    BY <1>0, <2>1, <2>2 DEF retire, Row
  <2>4. holds' = [holds EXCEPT ![s] = NoName]
    BY <2>2, <2>3, HoldsExcept
  <2> QED
    BY <1>10, <2>1, <2>2, <2>4 DEF exclude
<1>11. ASSUME NEW ticks \in 1..2, forward_progress(ticks)
       PROVE  Goal
  BY <1>11, HoldsSame DEF forward_progress
<1>12. CASE UNCHANGED fakeVars
  BY <1>12, HoldsSame DEF fakeVars
<1> QED
  BY <1>1, <1>2, <1>3, <1>4, <1>5, <1>6, <1>7, <1>8, <1>9, <1>10, <1>11, <1>12
  DEF FakeNext

(* fake_ip_table implements the one-to-one map of NameMap: an address is    *)
(* given to a name that has none and only while in circulation, a full      *)
(* table gives up one name for another in one call, and an excluded address *)
(* never stands for a name again (fakeip.hpp alloc(), exclude()).           *)
THEOREM MapImplemented == FakeSpec => ImplementsNameMap
<1>1. FakeInit => Promise!MapInit
  BY DEF FakeInit, Promise!MapInit
<1>2. FakeTypeOK /\ [FakeNext]_fakeVars => [Promise!MapNext]_(Promise!mapVars)
  <2> SUFFICES ASSUME FakeTypeOK, [FakeNext]_fakeVars
               PROVE  [Promise!MapNext]_(Promise!mapVars)
    OBVIOUS
  <2>1. CASE holds' = holds /\ excluded' = excluded
    BY <2>1 DEF holds, Promise!mapVars
  <2>2. ASSUME NEW s \in Slots, NEW n \in Names, s \notin excluded,
               \A o \in Slots : row[o].name # n,
               holds' = [holds EXCEPT ![s] = n], excluded' = excluded
        PROVE  Promise!MapNext
    <3>1. Promise!Issue(s, n)
      BY <2>2 DEF Promise!Issue, holds
    <3> QED
      BY <3>1 DEF Promise!MapNext
  <2>3. ASSUME NEW s \in Slots, row[s].name # NoName,
               holds' = [holds EXCEPT ![s] = NoName], excluded' = excluded
        PROVE  Promise!MapNext
    <3>1. Promise!GiveUp(s)
      BY <2>3 DEF Promise!GiveUp, holds
    <3> QED
      BY <3>1 DEF Promise!MapNext
  <2>4. ASSUME NEW s \in Slots, s \notin excluded,
               excluded' = excluded \cup {s},
               holds' = [holds EXCEPT ![s] = NoName]
        PROVE  Promise!MapNext
    <3>1. Promise!Withdraw(s)
      BY <2>4 DEF Promise!Withdraw, holds
    <3> QED
      BY <3>1 DEF Promise!MapNext
  <2> QED
    BY <2>1, <2>2, <2>3, <2>4, StepRefines
<1> QED
  BY <1>1, <1>2, FakeTypeCorrect, PTL DEF FakeSpec, ImplementsNameMap, Promise!MapSpec

-----------------------------------------------------------------------------
(* "An application that resolves a host twice must not find it in two       *)
(* places": a name is in one row, an excluded row stands for none, and      *)
(* exclusions_ counts the excluded rows (fakeip.hpp 322-325, 357-360).      *)
THEOREM OneAddress == FakeSpec => []OneAddressPerName
<1>1. FakeInit => OneAddressPerName
  BY FS_EmptySet DEF FakeInit, OneAddressPerName
<1>2. ASSUME FakeTypeOK, OneAddressPerName, [FakeNext]_fakeVars
      PROVE  OneAddressPerName'
  <2>0. \A s \in Slots : holds[s] = row[s].name /\ holds'[s] = row'[s].name
    BY DEF holds
  <2>1. CASE holds' = holds /\ UNCHANGED <<excluded, exclusions>>
    BY <1>2, <2>0, <2>1 DEF OneAddressPerName, FakeTypeOK
  <2>2. ASSUME NEW s \in Slots, NEW n \in Names, s \notin excluded,
               \A o \in Slots : row[o].name # n,
               holds' = [holds EXCEPT ![s] = n],
               UNCHANGED <<excluded, exclusions>>
        PROVE  OneAddressPerName'
    <3>1. row'[s].name = n /\ \A o \in Slots \ {s} : row'[o].name = row[o].name
      BY <2>0, <2>2 DEF holds
    <3> QED
      BY <1>2, <2>2, <3>1 DEF OneAddressPerName, FakeTypeOK
  <2>3. ASSUME NEW s \in Slots, holds' = [holds EXCEPT ![s] = NoName],
               UNCHANGED <<excluded, exclusions>>
        PROVE  OneAddressPerName'
    <3>1. row'[s].name = NoName /\ \A o \in Slots \ {s} : row'[o].name = row[o].name
      BY <2>0, <2>3 DEF holds
    <3> QED
      BY <1>2, <2>3, <3>1 DEF OneAddressPerName, FakeTypeOK
  <2>4. ASSUME NEW s \in Slots, s \notin excluded,
               excluded' = excluded \cup {s},
               holds' = [holds EXCEPT ![s] = NoName],
               exclusions' = exclusions + 1
        PROVE  OneAddressPerName'
    <3>1. row'[s].name = NoName /\ \A o \in Slots \ {s} : row'[o].name = row[o].name
      BY <2>0, <2>4 DEF holds
    <3>2. IsFiniteSet(excluded)
      <4>1. IsFiniteSet(Slots)
        BY FS_Interval, FakeIpAssumption DEF Slots
      <4> QED
        BY <1>2, <4>1, FS_Subset DEF FakeTypeOK
    <3>3. exclusions' = Cardinality(excluded')
      BY <1>2, <2>4, <3>2, FS_AddElement DEF OneAddressPerName
    <3> QED
      BY <1>2, <2>4, <3>1, <3>3 DEF OneAddressPerName, FakeTypeOK
  <2> QED
    BY <1>2, <2>1, <2>2, <2>3, <2>4, StepRefines
<1> QED
  BY <1>1, <1>2, FakeTypeCorrect, PTL DEF FakeSpec

-----------------------------------------------------------------------------
(* The threads whose pin a row counts.                                      *)
Holders(th, s) == {t \in Threads : th[t].pinned /\ th[t].fake = s}

(* PinsBalanced is not inductive by itself: that a row is free says nothing *)
(* of its count, and that a thread is about to pin() or to ask says nothing *)
(* of a pin it might still have.                                            *)
PinInv ==
  /\ PinsBalanced
  /\ \A s \in Slots : row[s].name = NoName => row[s].inflight = 0
  /\ \A t \in Threads : thread[t].pinned => thread[t].pc = "connected"
  /\ \A t \in Threads : thread[t].pc # "idle" => thread[t].fake \in Slots

(* The row of an address in service is the one it was made from.            *)
LEMMA OwnedFacts ==
  ASSUME NEW f \in Slots
  PROVE  owned_slot(fake_ip_at(f)) = IF row[f].name # NoName THEN {f} ELSE {}
<1>1. fake_ip_slot_of(fake_ip_at(f)) = {f}
  BY FakeIpAssumption DEF fake_ip_slot_of, fake_ip_at, in_fake_range, Slots
<1> QED
  BY <1>1 DEF owned_slot

(* The balance in terms of the set of holders of a row.                     *)
LEMMA BalanceMeans ==
  /\ PinsBalanced <=>
       \A s \in Slots \ excluded : row[s].inflight = Cardinality(Holders(thread, s))
  /\ PinsBalanced' <=>
       \A s \in Slots \ excluded' : row'[s].inflight = Cardinality(Holders(thread', s))
  BY DEF PinsBalanced, Holders

(* A step that changes no count and no pin keeps the balance.               *)
LEMMA BalanceKept ==
  ASSUME PinsBalanced, excluded \subseteq excluded',
         \A s \in Slots \ excluded' : row'[s].inflight = row[s].inflight,
         \A s \in Slots : Holders(thread', s) = Holders(thread, s)
  PROVE  PinsBalanced'
  BY BalanceMeans

(* ... and a thread that had no pin and gets none changes no pin.           *)
LEMMA HoldersKept ==
  ASSUME NEW t \in Threads, \A u \in Threads \ {t} : thread'[u] = thread[u],
         ~thread[t].pinned, ~thread'[t].pinned
  PROVE  \A s \in Slots : Holders(thread', s) = Holders(thread, s)
  BY DEF Holders

(* Only threads hold a row, and there are finitely many.                    *)
LEMMA HoldersFinite == \A th, s : IsFiniteSet(Holders(th, s))
  BY FS_Subset, FakeIpAssumption DEF Holders

(* A row counts exactly the connections that hold it, for every number of   *)
(* threads and rows: pin() and unpin() come after decide() has let the lock *)
(* go, and meet rows that were retired, reissued or excluded meanwhile      *)
(* (fakeip.hpp 419-439, fake_map.hpp 518-531).                              *)
THEOREM PinsStayBalanced == FakeSpec => []PinsBalanced
<1>1. FakeInit => PinInv
  <2> SUFFICES ASSUME FakeInit PROVE PinInv
    OBVIOUS
  <2>1. \A s \in Slots : Holders(thread, s) = {}
    BY DEF FakeInit, Holders, IdleThread
  <2>2. PinsBalanced
    BY <2>1, FS_EmptySet DEF FakeInit, PinsBalanced, Holders
  <2> QED
    BY <2>2 DEF FakeInit, PinInv, IdleThread
<1>2. ASSUME FakeTypeOK, PinInv, [FakeNext]_fakeVars
      PROVE  PinInv'
  <2>0. row \in [Slots -> Row] /\ thread \in [Threads -> Thread]
    BY <1>2 DEF FakeTypeOK
  <2>a. ASSUME NEW t \in Threads, NEW n, NEW s \in Slots, Answer(t, n, s),
               thread[t].pc \in {"idle", "resolved"}
        PROVE  /\ \A o \in Slots : Holders(thread', o) = Holders(thread, o)
               /\ \A u \in Threads : thread'[u].pinned => thread'[u].pc = "connected"
               /\ \A u \in Threads : thread'[u].pc # "idle" => thread'[u].fake \in Slots
    <3>1. /\ ~thread[t].pinned /\ ~thread'[t].pinned
          /\ thread'[t].fake \in Slots
          /\ \A u \in Threads \ {t} : thread'[u] = thread[u]
      BY <1>2, <2>0, <2>a DEF Answer, IdleThread, PinInv
    <3>2. \A o \in Slots : Holders(thread', o) = Holders(thread, o)
      BY <3>1, HoldersKept
    <3> QED
      BY <1>2, <3>1, <3>2 DEF PinInv
  <2>1. ASSUME NEW t \in Threads, NEW n \in Names, AllocSeen(t, n)
        PROVE  PinInv'
    <3>1. PICK s \in Slots : /\ row' = [row EXCEPT ![s].last_use = touch']
                              /\ Answer(t, n, s)
      BY <2>1, FirstIn DEF AllocSeen, find_name
    <3>2. \A o \in Slots : /\ row'[o].name = row[o].name
                           /\ row'[o].inflight = row[o].inflight
      BY <2>0, <3>1 DEF Row
    <3>3. thread[t].pc \in {"idle", "resolved"} /\ excluded' = excluded
      BY <2>1 DEF AllocSeen, MayAsk
    <3>4. PinsBalanced'
      BY <1>2, <2>a, <3>1, <3>2, <3>3, BalanceKept DEF PinInv
    <3> QED
      BY <1>2, <2>a, <3>1, <3>2, <3>3, <3>4 DEF PinInv
  <2>2. ASSUME NEW t \in Threads, NEW n \in Names, AllocFree(t, n)
        PROVE  PinInv'
    <3>1. PICK s \in find_free(row, allocations') :
            row' = claim(row, s, n, touch') /\ Answer(t, n, s)
      BY <2>2 DEF AllocFree
    <3>2. s \in Slots /\ row[s].inflight = 0
      BY <1>2, FreeFacts DEF PinInv
    <3>3. \A o \in Slots : /\ row'[o].name = NoName => row[o].name = NoName
                           /\ row'[o].inflight = row[o].inflight
      BY <2>0, <3>1, <3>2, FakeIpAssumption DEF claim
    <3>4. thread[t].pc \in {"idle", "resolved"} /\ excluded' = excluded
      BY <2>2 DEF AllocFree, NewName, MayAsk
    <3>5. \A o \in Slots : Holders(thread', o) = Holders(thread, o)
      BY <2>a, <3>1, <3>2, <3>4
    <3>6. PinsBalanced
      BY <1>2 DEF PinInv
    <3>7. PinsBalanced'
      BY <3>3, <3>4, <3>5, <3>6, BalanceKept
    <3> QED
      BY <1>2, <2>a, <3>1, <3>2, <3>3, <3>4, <3>7 DEF PinInv
  <2>3. ASSUME NEW t \in Threads, NEW n \in Names, AllocFull(t, n)
        PROVE  PinInv'
    <3>1. PICK v \in find_lru :
            \/ \E s \in find_free(retire(row, v, allocations'), allocations') :
                 /\ row' = claim(retire(row, v, allocations'), s, n, touch')
                 /\ Answer(t, n, s)
            \/ row' = retire(row, v, allocations') /\ UNCHANGED thread
      BY <2>3 DEF AllocFull
    <3>2. v \in Slots /\ row[v].inflight = 0
      BY VictimFacts
    <3>3. thread[t].pc \in {"idle", "resolved"} /\ excluded' = excluded
      BY <2>3 DEF AllocFull, NewName, MayAsk
    <3>4. ASSUME NEW s \in find_free(retire(row, v, allocations'), allocations'),
                 row' = claim(retire(row, v, allocations'), s, n, touch'),
                 Answer(t, n, s)
          PROVE  PinInv'
      <4>1. s = v
        BY <2>0, <2>3, <3>2, <3>4, VictimServes DEF AllocFull
      <4>2. \A o \in Slots : /\ row'[o].name = NoName => row[o].name = NoName
                             /\ row'[o].inflight = row[o].inflight
        BY <2>0, <3>2, <3>4, <4>1, FakeIpAssumption DEF claim, retire
      <4>3. \A o \in Slots : Holders(thread', o) = Holders(thread, o)
        BY <2>a, <3>2, <3>3, <3>4, <4>1
      <4>4. PinsBalanced
        BY <1>2 DEF PinInv
      <4>5. PinsBalanced'
        BY <3>3, <4>2, <4>3, <4>4, BalanceKept
      <4> QED
        BY <1>2, <2>a, <3>2, <3>3, <3>4, <4>1, <4>2, <4>5 DEF PinInv
    <3>5. CASE row' = retire(row, v, allocations') /\ UNCHANGED thread
      <4>1. \A o \in Slots : /\ o # v => row'[o] = row[o]
                             /\ row'[o].inflight = row[o].inflight
        BY <2>0, <3>2, <3>5 DEF retire, Row
      <4>2. \A o \in Slots : Holders(thread', o) = Holders(thread, o)
        BY <3>5
      <4>3. PinsBalanced
        BY <1>2 DEF PinInv
      <4>4. PinsBalanced'
        BY <3>3, <4>1, <4>2, <4>3, BalanceKept
      <4>5. \A o \in Slots : row'[o].name = NoName => row'[o].inflight = 0
        BY <1>2, <3>2, <4>1 DEF PinInv
      <4> QED
        BY <1>2, <3>5, <4>4, <4>5 DEF PinInv
    <3> QED
      BY <3>1, <3>4, <3>5
  <2>4. ASSUME NEW t \in Threads, NEW n \in Names, AllocNone(t, n)
        PROVE  PinInv'
    BY <1>2, <2>4 DEF AllocNone, NewName, MayAsk, PinInv, PinsBalanced
  <2>5. ASSUME NEW t \in Threads, NEW family, NEW len, Connect(t, family, len)
        PROVE  PinInv'
    <3>1. PICK n : thread' = [thread EXCEPT ![t] = [@ EXCEPT !.pc = "decided",
                                                             !.routed = n]]
      BY <2>5 DEF Connect
    <3>2. /\ thread[t].pc = "resolved"
          /\ UNCHANGED <<row, excluded>>
      BY <2>5 DEF Connect, tableVars
    <3>3. /\ ~thread[t].pinned /\ ~thread'[t].pinned
          /\ thread'[t].fake = thread[t].fake
          /\ \A u \in Threads \ {t} : thread'[u] = thread[u]
      BY <1>2, <2>0, <3>1, <3>2 DEF PinInv, Thread
    <3>4. \A o \in Slots : Holders(thread', o) = Holders(thread, o)
      BY <3>3, HoldersKept
    <3>5. PinsBalanced'
      BY <1>2, <3>2, <3>4, BalanceKept DEF PinInv
    <3> QED
      BY <1>2, <3>2, <3>3, <3>5 DEF PinInv
  <2>6. ASSUME NEW t \in Threads, Pin(t)
        PROVE  PinInv'
    <3> DEFINE f == thread[t].fake
    <3>1. f \in Slots /\ ~thread[t].pinned /\ excluded' = excluded
      BY <1>2, <2>6 DEF Pin, PinInv
    <3>2. /\ thread'[t].pc = "connected" /\ thread'[t].fake = f
          /\ \A u \in Threads \ {t} : thread'[u] = thread[u]
      BY <2>0, <2>6 DEF Pin, Thread
    <3>3. CASE row[f].name = NoName
      <4>1. owned_slot(fake_ip_at(f)) = {}
        BY <3>1, <3>3, OwnedFacts
      <4>2. ~thread'[t].pinned
        BY <2>0, <2>6, <4>1 DEF Pin, Thread
      <4>3. \A o \in Slots : row'[o] = row[o]
        BY <2>6, <4>1 DEF Pin
      <4>4. \A o \in Slots : Holders(thread', o) = Holders(thread, o)
        BY <3>1, <3>2, <4>2, HoldersKept
      <4>5. PinsBalanced'
        BY <1>2, <3>1, <4>3, <4>4, BalanceKept DEF PinInv
      <4> QED
        BY <1>2, <3>1, <3>2, <4>2, <4>3, <4>5 DEF PinInv
    <3>4. CASE row[f].name # NoName
      <4>1. owned_slot(fake_ip_at(f)) = {f}
        BY <3>1, <3>4, OwnedFacts
      <4>2. thread'[t].pinned
        BY <2>0, <2>6, <4>1 DEF Pin, Thread
      <4>3. /\ row'[f].inflight = row[f].inflight + 1 /\ row'[f].name = row[f].name
            /\ \A o \in Slots \ {f} : row'[o] = row[o]
        BY <2>0, <2>6, <3>1, <4>1 DEF Pin, Row
      <4>4. /\ Holders(thread', f) = Holders(thread, f) \cup {t} /\ t \notin Holders(thread, f)
            /\ \A o \in Slots \ {f} : Holders(thread', o) = Holders(thread, o)
        BY <3>1, <3>2, <4>2 DEF Holders
      <4>5. Cardinality(Holders(thread', f)) = Cardinality(Holders(thread, f)) + 1
        BY <4>4, HoldersFinite, FS_AddElement
      <4>6. PinsBalanced'
        BY <1>2, <3>1, <4>3, <4>4, <4>5, BalanceMeans DEF PinInv
      <4> QED
        BY <1>2, <3>1, <3>2, <3>4, <4>3, <4>6 DEF PinInv
    <3> QED
      BY <3>3, <3>4
  <2>7. ASSUME NEW t \in Threads, NoteTouched(t)
        PROVE  PinInv'
    <3>1. PICK s \in Slots : row' = [row EXCEPT ![s].last_use = touch + 1]
      BY <2>7 DEF NoteTouched, owned_slot, fake_ip_slot_of
    <3>2. \A o \in Slots : /\ row'[o].name = row[o].name
                           /\ row'[o].inflight = row[o].inflight
      BY <2>0, <3>1 DEF Row
    <3>3. UNCHANGED <<thread, excluded>>
      BY <2>7 DEF NoteTouched
    <3> QED
      BY <1>2, <3>2, <3>3, ZenonT(60) DEF PinInv, PinsBalanced
  <2>8. ASSUME NEW t \in Threads, Unpin(t)
        PROVE  PinInv'
    <3> DEFINE f == thread[t].fake
    <3>1. f \in Slots /\ excluded' = excluded
      BY <1>2, <2>8 DEF Unpin, PinInv
    <3>2. /\ ~thread'[t].pinned /\ thread'[t].fake = f
          /\ \A u \in Threads \ {t} : thread'[u] = thread[u]
      BY <2>0, <2>8 DEF Unpin, Thread
    <3>3. \A o \in Slots : row'[o].name = row[o].name
      BY <2>0, <2>8 DEF Unpin, Row
    <3>4. \A o \in Slots \ {f} : row'[o] = row[o]
      <4>1. \A o \in Slots \ {f} : o \notin owned_slot(fake_ip_at(f))
        BY <3>1, OwnedFacts
      <4> QED
        BY <2>8, <4>1 DEF Unpin
    <3>5. CASE ~thread[t].pinned
      <4>1. \A o \in Slots : row'[o] = row[o]
        BY <2>8, <3>5 DEF Unpin
      <4>2. \A o \in Slots : Holders(thread', o) = Holders(thread, o)
        BY <3>2, <3>5, HoldersKept
      <4>3. PinsBalanced'
        BY <1>2, <3>1, <4>1, <4>2, BalanceKept DEF PinInv
      <4> QED
        BY <1>2, <3>1, <3>2, <4>1, <4>3 DEF PinInv
    <3>6. CASE thread[t].pinned
      <4>1. /\ Holders(thread', f) = Holders(thread, f) \ {t} /\ t \in Holders(thread, f)
            /\ \A o \in Slots \ {f} : Holders(thread', o) = Holders(thread, o)
        BY <3>2, <3>6 DEF Holders
      <4>2. /\ Cardinality(Holders(thread', f)) = Cardinality(Holders(thread, f)) - 1
            /\ Cardinality(Holders(thread, f)) # 0
        <5>1. IsFiniteSet(Holders(thread, f)) /\ Holders(thread, f) # {}
          BY <4>1, HoldersFinite
        <5>2. Cardinality(Holders(thread, f)) # 0
          BY <5>1, FS_EmptySet
        <5>3. Cardinality(Holders(thread, f) \ {t}) = Cardinality(Holders(thread, f)) - 1
          BY <4>1, <5>1, FS_RemoveElement
        <5> QED
          BY <4>1, <5>2, <5>3
      <4>3. row[f].name = NoName => row'[f].inflight = 0
        <5>1. ASSUME row[f].name = NoName
              PROVE  row'[f] = row[f]
          BY <2>8, <3>1, <5>1, OwnedFacts DEF Unpin
        <5> QED
          BY <1>2, <3>1, <5>1 DEF PinInv
      <4>4. ASSUME f \notin excluded
            PROVE  row'[f].inflight = row[f].inflight - 1
        <5>1. row[f].inflight # 0
          BY <1>2, <3>1, <4>2, <4>4, BalanceMeans DEF PinInv
        <5>2. owned_slot(fake_ip_at(f)) = {f}
          BY <1>2, <3>1, <5>1, OwnedFacts DEF PinInv
        <5> QED
          BY <2>0, <2>8, <3>1, <3>6, <5>1, <5>2 DEF Unpin, Row
      <4>5. PinsBalanced'
        BY <1>2, <3>1, <3>4, <4>1, <4>2, <4>4, BalanceMeans DEF PinInv
      <4> QED
        BY <1>2, <3>1, <3>2, <3>3, <3>4, <4>3, <4>5 DEF PinInv
    <3> QED
      BY <3>5, <3>6
  <2>9. ASSUME NEW t \in Threads, Forget(t)
        PROVE  PinInv'
    <3>1. /\ ~thread[t].pinned /\ ~thread'[t].pinned /\ thread'[t].pc = "idle"
          /\ \A u \in Threads \ {t} : thread'[u] = thread[u]
      BY <1>2, <2>0, <2>9 DEF Forget, IdleThread, PinInv
    <3>2. UNCHANGED <<row, excluded>>
      BY <2>9 DEF Forget, tableVars
    <3>3. \A o \in Slots : Holders(thread', o) = Holders(thread, o)
      BY <3>1, HoldersKept
    <3>4. PinsBalanced'
      BY <1>2, <3>2, <3>3, BalanceKept DEF PinInv
    <3> QED
      BY <1>2, <3>1, <3>2, <3>4 DEF PinInv
  <2>10. ASSUME NEW v4 \in Octets, exclude(v4)
         PROVE  PinInv'
    <3>1. PICK s \in Slots :
            /\ excluded' = excluded \cup {s}
            /\ row' = IF row[s].name # NoName THEN retire(row, s, allocations)
                      ELSE row
      BY <2>10 DEF exclude, fake_ip_slot_of
    <3>2. UNCHANGED thread
      BY <2>10 DEF exclude
    <3>3. /\ row'[s].inflight = 0
          /\ \A o \in Slots \ {s} : row'[o] = row[o]
      BY <1>2, <2>0, <3>1 DEF retire, Row, PinInv
    <3>4. \A o \in Slots : Holders(thread', o) = Holders(thread, o)
      BY <3>2
    <3>5. PinsBalanced'
      BY <1>2, <3>1, <3>3, <3>4, BalanceKept DEF PinInv
    <3> QED
      BY <1>2, <3>2, <3>3, <3>5 DEF PinInv
  <2>11. ASSUME NEW ticks \in 1..2, forward_progress(ticks)
         PROVE  PinInv'
    BY <1>2, <2>11 DEF forward_progress, PinInv, PinsBalanced
  <2>12. CASE UNCHANGED fakeVars
    BY <1>2, <2>12 DEF fakeVars, PinInv, PinsBalanced
  <2> QED
    BY <1>2, <2>1, <2>2, <2>3, <2>4, <2>5, <2>6, <2>7, <2>8, <2>9, <2>10,
       <2>11, <2>12 DEF FakeNext
<1>3. PinInv => PinsBalanced
  BY DEF PinInv
<1> QED
  BY <1>1, <1>2, <1>3, FakeTypeCorrect, PTL DEF FakeSpec

-----------------------------------------------------------------------------
(* What NoEarlyMisroute needs to know between the loss of an answer and the *)
(* next claim of its row: the row still holds the name, or waits out the    *)
(* ring that began when it was lost, or that ring is over.                  *)
KeptAt(r, th, la, c, q, t) ==
  th[t].name # NoName =>
    /\ th[t].fake \in Slots
    /\ \/ r[th[t].fake].name = th[t].name
       \/ /\ la[t] # -1 /\ r[th[t].fake].used_once
          /\ \/ c >= la[t] + q
             \/ /\ r[th[t].fake].name = NoName
                /\ r[th[t].fake].reusable_at >= la[t] + q

KeptInv(r, th, la, c, q) == \A t \in Threads : KeptAt(r, th, la, c, q, t)

(* And RingDrains: no row waits longer than a ring, and a streak of refused *)
(* names has a row that was waiting when it began.                          *)
RingInv(r, ex, c, k, q) ==
  /\ k <= q
  /\ \A s \in Slots : r[s].reusable_at <= c + q
  /\ k > 0 => \E s \in Slots \ ex : /\ r[s].name = NoName
                                    /\ r[s].reusable_at + k <= c + q + 1

LossTimes == [Threads -> Nat \cup {-1}]

(* Time alone does not break what was kept: deadlines only pass.            *)
LEMMA KeptLater ==
  ASSUME NEW r, NEW th, NEW la \in LossTimes, NEW c \in Nat, NEW d \in Nat,
         NEW q \in Nat, c <= d, KeptInv(r, th, la, c, q)
  PROVE  KeptInv(r, th, la, d, q)
<1> SUFFICES ASSUME NEW t \in Threads PROVE KeptAt(r, th, la, d, q, t)
  BY DEF KeptInv
<1>1. la[t] \in Int /\ KeptAt(r, th, la, c, q, t)
  BY DEF KeptInv, LossTimes
<1> QED
  BY <1>1 DEF KeptAt

(* Claiming a row whose quarantine is over keeps it.                        *)
LEMMA KeptClaim ==
  ASSUME NEW r \in [Slots -> Row], NEW th, NEW la \in LossTimes, NEW c \in Nat,
         NEW q \in Nat, KeptInv(r, th, la, c, q), NEW s \in Slots,
         r[s].name = NoName, claimable(r, c, s), NEW n, NEW now
  PROVE  KeptInv(claim(r, s, n, now), th, la, c, q)
<1> SUFFICES ASSUME NEW t \in Threads, th[t].name # NoName
             PROVE  KeptAt(claim(r, s, n, now), th, la, c, q, t)
  BY DEF KeptInv, KeptAt
<1>1. KeptAt(r, th, la, c, q, t) /\ la[t] \in Int
  BY DEF KeptInv, LossTimes
<1>2. CASE th[t].fake # s
  <2>1. th[t].fake \in Slots => claim(r, s, n, now)[th[t].fake] = r[th[t].fake]
    BY <1>2 DEF claim
  <2> QED
    BY <1>1, <2>1 DEF KeptAt
<1>3. CASE th[t].fake = s
  <2>1. la[t] # -1 /\ r[s].used_once
        /\ (c >= la[t] + q \/ r[s].reusable_at >= la[t] + q)
    BY <1>1, <1>3 DEF KeptAt
  <2>2. r[s].reusable_at \in Nat
    BY DEF Row
  <2>3. c >= r[s].reusable_at
    BY <2>1 DEF claimable
  <2>4. c >= la[t] + q
    BY <1>1, <2>1, <2>2, <2>3
  <2>5. claim(r, s, n, now)[s].used_once
    BY DEF claim
  <2> QED
    BY <1>3, <2>1, <2>4, <2>5 DEF KeptAt
<1> QED
  BY <1>2, <1>3

(* retire() takes the name, sets the deadline and touches no other row.     *)
LEMMA RetireFacts ==
  ASSUME NEW r \in [Slots -> Row], NEW s \in Slots, NEW c
  PROVE  /\ retire(r, s, c)[s].name = NoName /\ retire(r, s, c)[s].used_once
         /\ retire(r, s, c)[s].reusable_at = c + quarantine
         /\ \A o \in Slots \ {s} : retire(r, s, c)[o] = r[o]
<1>1. PICK e : e = c + quarantine
  OBVIOUS
<1>2. PICK x : x = [r[s] EXCEPT !.name = NoName, !.inflight = 0,
                                !.used_once = TRUE, !.reusable_at = e]
  OBVIOUS
<1>3. x.name = NoName /\ x.used_once /\ x.reusable_at = e
  <2>1. r[s] \in Row
    OBVIOUS
  <2> QED
    BY <1>2, <2>1 DEF Row
<1>4. retire(r, s, c) = [r EXCEPT ![s] = x]
  BY <1>1, <1>2 DEF retire
<1> QED
  BY <1>1, <1>3, <1>4

(* Retiring a row notes the loss for every thread that kept an answer of    *)
(* it.                                                                      *)
LEMMA KeptRetire ==
  ASSUME FakeTypeOK, NEW c \in Nat, quarantine \in Nat, NEW s \in Slots,
         row[s].name # NoName, KeptInv(row, thread, lostAt, c, quarantine)
  PROVE  KeptInv(retire(row, s, c), thread, Lost(s, c), c, quarantine)
<1> DEFINE left == retire(row, s, c)
<1> SUFFICES ASSUME NEW t \in Threads, thread[t].name # NoName
             PROVE  KeptAt(left, thread, Lost(s, c), c, quarantine, t)
  BY DEF KeptInv, KeptAt
<1>0. row \in [Slots -> Row] /\ lostAt[t] \in Int
  BY DEF FakeTypeOK
<1>1. KeptAt(row, thread, lostAt, c, quarantine, t)
  BY DEF KeptInv
<1>2. /\ left[s].name = NoName /\ left[s].used_once
      /\ left[s].reusable_at = c + quarantine
      /\ \A o \in Slots \ {s} : left[o] = row[o]
  BY <1>0, RetireFacts
<1>3. Lost(s, c)[t] = IF thread[t].fake = s /\ thread[t].name = row[s].name
                        THEN c ELSE lostAt[t]
  BY DEF Lost
<1> HIDE DEF left
<1>4. CASE thread[t].fake # s
  BY <1>1, <1>2, <1>3, <1>4 DEF KeptAt
<1>5. CASE thread[t].fake = s /\ thread[t].name = row[s].name
  <2>1. Lost(s, c)[t] = c /\ c # -1
    BY <1>3, <1>5
  <2>2. left[s].reusable_at >= c + quarantine
    BY <1>2
  <2> QED
    BY <1>2, <1>5, <2>1, <2>2 DEF KeptAt
<1>6. CASE thread[t].fake = s /\ thread[t].name # row[s].name
  <2>1. Lost(s, c)[t] = lostAt[t] /\ lostAt[t] # -1 /\ c >= lostAt[t] + quarantine
    BY <1>1, <1>3, <1>6 DEF KeptAt
  <2> QED
    BY <1>2, <1>6, <2>1 DEF KeptAt
<1> QED
  BY <1>4, <1>5, <1>6

(* A fresh answer is one that its row carries.                              *)
LEMMA KeptAnswer ==
  ASSUME FakeTypeOK, NEW r, NEW la \in LossTimes, NEW c, NEW q, NEW t \in Threads,
         NEW n, NEW s \in Slots, r[s].name = n, Answer(t, n, s),
         lostAt' = [la EXCEPT ![t] = -1], KeptInv(r, thread, la, c, q)
  PROVE  KeptInv(r, thread', lostAt', c, q)
<1> SUFFICES ASSUME NEW u \in Threads PROVE KeptAt(r, thread', lostAt', c, q, u)
  BY DEF KeptInv
<1>1. /\ thread'[t].name = n /\ thread'[t].fake = s
      /\ u # t => thread'[u] = thread[u] /\ lostAt'[u] = la[u]
  BY DEF FakeTypeOK, Answer, IdleThread, LossTimes
<1>2. KeptAt(r, thread, la, c, q, u)
  BY DEF KeptInv
<1> QED
  BY <1>1, <1>2 DEF KeptAt

(* A step that only warms rows, counts pins, moves threads or lets time     *)
(* pass.                                                                    *)
SameStamp(o) == /\ row'[o].name = row[o].name
                /\ row'[o].used_once = row[o].used_once
                /\ row'[o].reusable_at = row[o].reusable_at

QuietStep ==
  /\ \A o \in Slots : SameStamp(o)
  /\ \A u \in Threads : \/ thread'[u].name = NoName
                        \/ /\ thread'[u].name = thread[u].name
                           /\ thread'[u].fake = thread[u].fake
                           /\ lostAt'[u] = lostAt[u]
                        \/ /\ thread'[u].fake \in Slots
                           /\ row[thread'[u].fake].name = thread'[u].name
  /\ streak' = streak /\ excluded' = excluded /\ allocations <= allocations'

(* A step that claims and retires nothing keeps both parts.                 *)
LEMMA QuietKeeps ==
  ASSUME FakeTypeOK, FakeTypeOK', QuietStep, quarantine \in Nat,
         KeptInv(row, thread, lostAt, allocations, quarantine),
         RingInv(row, excluded, allocations, streak, quarantine)
  PROVE  /\ KeptInv(row', thread', lostAt', allocations', quarantine)
         /\ RingInv(row', excluded', allocations', streak', quarantine)
<1>0. /\ allocations \in Nat /\ allocations' \in Nat /\ streak \in Nat
      /\ lostAt \in LossTimes /\ row \in [Slots -> Row]
      /\ \A s \in Slots : row[s].reusable_at \in Nat
  BY DEF FakeTypeOK, LossTimes, Row
<1>1. KeptInv(row, thread, lostAt, allocations', quarantine)
  BY <1>0, KeptLater DEF QuietStep
<1>2. ASSUME NEW u \in Threads
      PROVE  KeptAt(row', thread', lostAt', allocations', quarantine, u)
  BY <1>1 DEF KeptInv, KeptAt, QuietStep, SameStamp
<1>3. \A s \in Slots : row'[s].reusable_at <= allocations' + quarantine
  BY <1>0 DEF RingInv, QuietStep, SameStamp
<1>4. ASSUME streak > 0
      PROVE  \E s \in Slots \ excluded : /\ row'[s].name = NoName
               /\ row'[s].reusable_at + streak <= allocations' + quarantine + 1
  <2>1. PICK s \in Slots \ excluded :
          /\ row[s].name = NoName
          /\ row[s].reusable_at + streak <= allocations + quarantine + 1
    BY <1>4 DEF RingInv
  <2> QED
    BY <1>0, <2>1 DEF QuietStep, SameStamp
<1> QED
  BY <1>2, <1>3, <1>4 DEF KeptInv, RingInv, QuietStep

(* The steps that claim and retire nothing.                                 *)
LEMMA QuietSteps ==
  ASSUME FakeTypeOK,
         \/ \E t \in Threads : \/ \E n \in Names : AllocSeen(t, n)
                               \/ \E family \in Families, len \in Lengths :
                                    Connect(t, family, len)
                               \/ Pin(t) \/ NoteTouched(t) \/ Unpin(t) \/ Forget(t)
         \/ \E ticks \in 1..2 : forward_progress(ticks)
         \/ UNCHANGED fakeVars
  PROVE  QuietStep
<1>0. row \in [Slots -> Row] /\ thread \in [Threads -> Thread] /\ allocations \in Nat
  BY DEF FakeTypeOK
<1>1. ASSUME NEW t \in Threads, NEW n \in Names, AllocSeen(t, n) PROVE QuietStep
  <2>1. PICK s \in Slots : /\ row[s].name = n
                           /\ row' = [row EXCEPT ![s].last_use = touch']
                           /\ Answer(t, n, s)
    BY <1>1, FirstIn DEF AllocSeen, find_name
  <2>2. \A o \in Slots : SameStamp(o)
    BY <1>0, <2>1 DEF SameStamp, Row
  <2>3. /\ thread'[t].name = n /\ thread'[t].fake = s
        /\ \A u \in Threads \ {t} : thread'[u] = thread[u]
    BY <1>0, <2>1 DEF Answer, IdleThread
  <2>4. /\ \A u \in Threads \ {t} : lostAt'[u] = lostAt[u]
        /\ streak' = streak /\ excluded' = excluded /\ allocations' = allocations
    BY <1>1 DEF AllocSeen, MayAsk, FakeTypeOK
  <2> QED
    BY <1>0, <2>1, <2>2, <2>3, <2>4 DEF QuietStep
<1>2. ASSUME NEW t \in Threads, NEW family, NEW len, Connect(t, family, len)
      PROVE  QuietStep
  <2>1. PICK n : thread' = [thread EXCEPT ![t] = [@ EXCEPT !.pc = "decided",
                                                           !.routed = n]]
    BY <1>2 DEF Connect
  <2>2. \A u \in Threads : /\ thread'[u].name = thread[u].name
                           /\ thread'[u].fake = thread[u].fake
    BY <1>0, <2>1 DEF Thread
  <2>3. /\ row' = row /\ lostAt' = lostAt /\ streak' = streak
        /\ excluded' = excluded /\ allocations' = allocations
    BY <1>2 DEF Connect, tableVars
  <2>4. allocations <= allocations'
    BY <1>0, <2>3
  <2> QED
    BY <2>2, <2>3, <2>4 DEF QuietStep, SameStamp
<1>3. ASSUME NEW t \in Threads, Pin(t) PROVE QuietStep
  <2>1. \A o \in Slots : SameStamp(o)
    BY <1>0, <1>3 DEF Pin, SameStamp, Row
  <2>2. \A u \in Threads : /\ thread'[u].name = thread[u].name
                           /\ thread'[u].fake = thread[u].fake
    BY <1>0, <1>3 DEF Pin, Thread
  <2>3. /\ lostAt' = lostAt /\ streak' = streak
        /\ excluded' = excluded /\ allocations' = allocations
    BY <1>3 DEF Pin
  <2>4. allocations <= allocations'
    BY <1>0, <2>3
  <2> QED
    BY <2>1, <2>2, <2>3, <2>4 DEF QuietStep
<1>4. ASSUME NEW t \in Threads, NoteTouched(t) PROVE QuietStep
  <2>1. PICK s \in Slots : row' = [row EXCEPT ![s].last_use = touch + 1]
    BY <1>4 DEF NoteTouched, owned_slot, fake_ip_slot_of
  <2>2. \A o \in Slots : SameStamp(o)
    BY <1>0, <2>1 DEF SameStamp, Row
  <2> QED
    BY <1>0, <1>4, <2>2 DEF QuietStep, NoteTouched
<1>5. ASSUME NEW t \in Threads, Unpin(t) PROVE QuietStep
  <2>1. \A o \in Slots : SameStamp(o)
    BY <1>0, <1>5 DEF Unpin, SameStamp, Row
  <2>2. \A u \in Threads : /\ thread'[u].name = thread[u].name
                           /\ thread'[u].fake = thread[u].fake
    BY <1>0, <1>5 DEF Unpin, Thread
  <2>3. /\ lostAt' = lostAt /\ streak' = streak
        /\ excluded' = excluded /\ allocations' = allocations
    BY <1>5 DEF Unpin
  <2>4. allocations <= allocations'
    BY <1>0, <2>3
  <2> QED
    BY <2>1, <2>2, <2>3, <2>4 DEF QuietStep
<1>6. ASSUME NEW t \in Threads, Forget(t) PROVE QuietStep
  <2>1. /\ thread'[t].name = NoName
        /\ \A u \in Threads \ {t} : /\ thread'[u] = thread[u]
                                    /\ lostAt'[u] = lostAt[u]
    BY <1>0, <1>6 DEF Forget, IdleThread, FakeTypeOK
  <2> QED
    BY <1>0, <1>6, <2>1 DEF QuietStep, Forget, tableVars, SameStamp
<1>7. ASSUME NEW ticks \in 1..2, forward_progress(ticks) PROVE QuietStep
  BY <1>0, <1>7 DEF forward_progress, QuietStep, SameStamp
<1>8. CASE UNCHANGED fakeVars
  BY <1>0, <1>8 DEF fakeVars, QuietStep, SameStamp
<1> QED
  BY <1>1, <1>2, <1>3, <1>4, <1>5, <1>6, <1>7, <1>8

(* A refused name makes the streak one longer, and never longer than the    *)
(* ring: the row that was waiting when the streak began still waits.        *)
LEMMA StreakGrows ==
  ASSUME NEW r, NEW left \in [Slots -> Row], NEW ex, NEW a \in Nat, NEW k \in Nat,
         NEW q \in Nat, RingInv(r, ex, a, k, q),
         \A s \in Slots : left[s].reusable_at <= a + 1 + q,
         \A s \in Slots \ ex : r[s].name = NoName => left[s] = r[s],
         \A s \in Slots \ ex : left[s].name = NoName => a + 1 < left[s].reusable_at,
         \E s \in Slots \ ex : left[s].name = NoName
  PROVE  RingInv(left, ex, a + 1, k + 1, q)
<1>0. \A s \in Slots : left[s].reusable_at \in Nat
  BY DEF Row
<1>1. PICK s \in Slots \ ex : /\ left[s].name = NoName
                              /\ left[s].reusable_at + (k + 1) <= (a + 1) + q + 1
  <2>1. CASE k = 0
    <3>1. PICK s \in Slots \ ex : left[s].name = NoName
      OBVIOUS
    <3>2. left[s].reusable_at \in Nat /\ left[s].reusable_at <= a + 1 + q
      BY <1>0, <3>1
    <3>3. left[s].reusable_at + (k + 1) <= (a + 1) + q + 1
      BY <2>1, <3>2
    <3> QED
      BY <3>1, <3>3
  <2>2. CASE k > 0
    <3>1. PICK s \in Slots \ ex : r[s].name = NoName /\ r[s].reusable_at + k <= a + q + 1
      BY <2>2 DEF RingInv
    <3>2. left[s].name = NoName /\ left[s].reusable_at + k <= a + q + 1
          /\ left[s].reusable_at \in Nat
      BY <1>0, <3>1
    <3>3. left[s].reusable_at + (k + 1) <= (a + 1) + q + 1
      BY <3>2
    <3> QED
      BY <3>1, <3>2, <3>3
  <2> QED
    BY <2>1, <2>2
<1>2. left[s].reusable_at \in Nat /\ a + 1 < left[s].reusable_at
  BY <1>0, <1>1
<1>3. k + 1 <= q
  BY <1>1, <1>2
<1>4. \A o \in Slots : left[o].reusable_at <= (a + 1) + q
  OBVIOUS
<1> QED
  BY <1>1, <1>3, <1>4 DEF RingInv

(* Kept answers and the ring together, over every step.                     *)
LEMMA AnswersInductive ==
  FakeSpec => [](/\ KeptInv(row, thread, lostAt, allocations, quarantine)
                 /\ RingInv(row, excluded, allocations, streak, quarantine))
<1>1. FakeInit => /\ KeptInv(row, thread, lostAt, allocations, quarantine)
                  /\ RingInv(row, excluded, allocations, streak, quarantine)
  <2> SUFFICES ASSUME FakeInit
               PROVE  /\ KeptInv(row, thread, lostAt, allocations, quarantine)
                      /\ RingInv(row, excluded, allocations, streak, quarantine)
    OBVIOUS
  <2>1. quarantine \in Nat
    BY FakeIpAssumption DEF FakeInit
  <2> QED
    BY <2>1 DEF FakeInit, IdleThread, KeptInv, KeptAt, RingInv
<1>2. ASSUME FakeTypeOK, FakeTypeOK', OneAddressPerName, [FakeNext]_fakeVars,
             KeptInv(row, thread, lostAt, allocations, quarantine),
             RingInv(row, excluded, allocations, streak, quarantine)
      PROVE  /\ KeptInv(row', thread', lostAt', allocations', quarantine)
             /\ RingInv(row', excluded', allocations', streak', quarantine)
  <2>0. /\ quarantine \in Nat /\ allocations \in Nat /\ streak \in Nat
        /\ lostAt \in LossTimes /\ row \in [Slots -> Row]
        /\ \A s \in Slots : row[s].reusable_at \in Nat
    BY <1>2, FakeIpAssumption DEF FakeTypeOK, LossTimes, Row
  <2>a. ASSUME NEW t \in Threads, NEW n \in Names, NewName(t, n)
        PROVE  /\ allocations' = allocations + 1 /\ excluded' = excluded
               /\ KeptInv(row, thread, lostAt, allocations', quarantine)
    <3>1. allocations' = allocations + 1 /\ excluded' = excluded
      BY <2>a DEF NewName, MayAsk
    <3>2. allocations' \in Nat /\ allocations <= allocations'
      BY <2>0, <3>1
    <3> QED
      BY <1>2, <2>0, <3>1, <3>2, KeptLater
  <2>b. ASSUME NEW s \in Slots, s \notin excluded, row[s].name = NoName,
               NEW c \in Nat, ~claimable(row, c, s)
        PROVE  c < row[s].reusable_at
    BY <2>0, <2>b DEF claimable
  <2>1. ASSUME NEW t \in Threads, NEW n \in Names, AllocFree(t, n)
        PROVE  /\ KeptInv(row', thread', lostAt', allocations', quarantine)
               /\ RingInv(row', excluded', allocations', streak', quarantine)
    <3> DEFINE c == allocations'
    <3>1. /\ c = allocations + 1 /\ excluded' = excluded /\ c \in Nat
          /\ KeptInv(row, thread, lostAt, c, quarantine)
      BY <2>0, <2>1, <2>a DEF AllocFree
    <3>2. PICK s \in find_free(row, c) :
            row' = claim(row, s, n, touch') /\ Answer(t, n, s)
      BY <2>1 DEF AllocFree
    <3>3. s \in Slots /\ row[s].name = NoName /\ claimable(row, c, s)
      BY FreeFacts
    <3>4. KeptInv(row', thread, lostAt, c, quarantine)
      BY <2>0, <3>1, <3>2, <3>3, KeptClaim
    <3>5. /\ row'[s].name = n /\ row'[s].reusable_at = 0
          /\ \A o \in Slots \ {s} : row'[o] = row[o]
      BY <2>0, <3>2, <3>3 DEF claim
    <3>6. lostAt' = [lostAt EXCEPT ![t] = -1] /\ streak' = 0
      BY <2>1 DEF AllocFree
    <3>7. KeptInv(row', thread', lostAt', c, quarantine)
      BY <1>2, <2>0, <3>2, <3>3, <3>4, <3>5, <3>6, KeptAnswer
    <3>8. \A o \in Slots : row'[o].reusable_at <= c + quarantine
      BY <1>2, <2>0, <3>1, <3>5 DEF RingInv
    <3> QED
      BY <2>0, <3>6, <3>7, <3>8 DEF RingInv
  <2>2. ASSUME NEW t \in Threads, NEW n \in Names, AllocFull(t, n)
        PROVE  /\ KeptInv(row', thread', lostAt', allocations', quarantine)
               /\ RingInv(row', excluded', allocations', streak', quarantine)
    <3> DEFINE c == allocations'
    <3>1. /\ c = allocations + 1 /\ excluded' = excluded /\ c \in Nat
          /\ KeptInv(row, thread, lostAt, c, quarantine)
      BY <2>0, <2>2, <2>a DEF AllocFull
    <3>2. PICK v \in find_lru :
            \/ /\ \E s \in find_free(retire(row, v, c), c) :
                     /\ row' = claim(retire(row, v, c), s, n, touch')
                     /\ Answer(t, n, s)
               /\ lostAt' = [Lost(v, c) EXCEPT ![t] = -1]
               /\ streak' = 0
            \/ /\ find_free(retire(row, v, c), c) = {}
               /\ row' = retire(row, v, c)
               /\ lostAt' = Lost(v, c)
               /\ streak' = streak + 1
               /\ UNCHANGED thread
      BY <2>2 DEF AllocFull
    <3>3. v \in Slots /\ row[v].name # NoName
      BY VictimFacts
    <3> DEFINE left == retire(row, v, c)
    <3>4. /\ left[v].name = NoName /\ left[v].used_once
          /\ left[v].reusable_at = c + quarantine
          /\ \A o \in Slots \ {v} : left[o] = row[o]
      BY <2>0, <3>3, RetireFacts
    <3>t. left \in [Slots -> Row]
      BY <2>0, <3>1, <3>3, RetireType
    <3>5. KeptInv(left, thread, Lost(v, c), c, quarantine)
      BY <1>2, <2>0, <3>1, <3>3, KeptRetire
    <3>6. Lost(v, c) \in LossTimes
      BY <1>2, <3>1, LostType DEF LossTimes
    <3>7. \A o \in Slots : left[o].reusable_at <= c + quarantine
      BY <1>2, <2>0, <3>1, <3>4 DEF RingInv
    <3>8. v \notin excluded
      BY <1>2, <3>3 DEF OneAddressPerName
    <3> HIDE DEF left
    <3>9. ASSUME NEW s \in find_free(left, c), row' = claim(left, s, n, touch'),
                 Answer(t, n, s), lostAt' = [Lost(v, c) EXCEPT ![t] = -1],
                 streak' = 0
          PROVE  /\ KeptInv(row', thread', lostAt', c, quarantine)
                 /\ RingInv(row', excluded', c, streak', quarantine)
      <4>1. s \in Slots /\ left[s].name = NoName /\ claimable(left, c, s)
        BY FreeFacts
      <4>2. KeptInv(row', thread, Lost(v, c), c, quarantine)
        BY <2>0, <3>1, <3>t, <3>5, <3>6, <3>9, <4>1, KeptClaim
      <4>3. /\ row'[s].name = n /\ row'[s].reusable_at = 0
            /\ \A o \in Slots \ {s} : row'[o] = left[o]
        BY <3>t, <3>9, <4>1 DEF claim
      <4>4. KeptInv(row', thread', lostAt', c, quarantine)
        BY <1>2, <3>6, <3>9, <4>1, <4>2, <4>3, KeptAnswer
      <4>5. \A o \in Slots : row'[o].reusable_at <= c + quarantine
        BY <2>0, <3>1, <3>7, <4>3
      <4> QED
        BY <2>0, <3>9, <4>4, <4>5 DEF RingInv
    <3>10. ASSUME find_free(left, c) = {}, row' = left, lostAt' = Lost(v, c),
                  streak' = streak + 1, UNCHANGED thread
           PROVE  /\ KeptInv(row', thread', lostAt', c, quarantine)
                  /\ RingInv(row', excluded', c, streak', quarantine)
      <4>1. ASSUME NEW s \in Slots \ excluded, left[s].name = NoName
            PROVE  c < left[s].reusable_at
        <5>1. ~claimable(left, c, s)
          BY <3>10, <4>1, FreeFacts
        <5>2. left[s].reusable_at \in Nat
          BY <3>t DEF Row
        <5> QED
          BY <3>1, <4>1, <5>1, <5>2 DEF claimable
      <4>2. \A s \in Slots \ excluded : row[s].name = NoName => left[s] = row[s]
        BY <3>3, <3>4
      <4>3. \E s \in Slots \ excluded : left[s].name = NoName
        BY <3>3, <3>4, <3>8
      <4>4. RingInv(left, excluded, allocations + 1, streak + 1, quarantine)
        BY <1>2, <2>0, <3>1, <3>t, <3>7, <4>1, <4>2, <4>3, StreakGrows
      <4> QED
        BY <3>1, <3>5, <3>10, <4>4
    <3> QED
      BY <3>2, <3>9, <3>10 DEF left
  <2>3. ASSUME NEW t \in Threads, NEW n \in Names, AllocNone(t, n)
        PROVE  /\ KeptInv(row', thread', lostAt', allocations', quarantine)
               /\ RingInv(row', excluded', allocations', streak', quarantine)
    <3> DEFINE c == allocations'
               waits == \E s \in Slots \ excluded : row[s].name = NoName
    <3>1. /\ c = allocations + 1 /\ excluded' = excluded /\ c \in Nat
          /\ KeptInv(row, thread, lostAt, c, quarantine)
      BY <2>0, <2>3, <2>a DEF AllocNone
    <3>2. /\ row' = row /\ thread' = thread /\ lostAt' = lostAt
          /\ find_free(row, c) = {}
          /\ streak' = IF waits THEN streak + 1 ELSE 0
      BY <2>3 DEF AllocNone
    <3>3. \A o \in Slots : row[o].reusable_at <= c + quarantine
      BY <1>2, <2>0, <3>1 DEF RingInv
    <3>4. ASSUME NEW s \in Slots \ excluded, row[s].name = NoName
          PROVE  c < row[s].reusable_at
      <4>1. ~claimable(row, c, s)
        BY <3>2, <3>4, FreeFacts
      <4> QED
        BY <2>b, <3>1, <3>4, <4>1
    <3>5. CASE waits
      <4>1. RingInv(row, excluded, allocations + 1, streak + 1, quarantine)
        BY <1>2, <2>0, <3>1, <3>3, <3>4, <3>5, StreakGrows
      <4> QED
        BY <3>1, <3>2, <3>5, <4>1
    <3>6. CASE ~waits
      <4>1. RingInv(row, excluded, c, 0, quarantine)
        BY <2>0, <3>3 DEF RingInv
      <4> QED
        BY <3>1, <3>2, <3>6, <4>1
    <3> QED
      BY <3>5, <3>6
  <2>4. ASSUME NEW v4 \in Octets, exclude(v4)
        PROVE  /\ KeptInv(row', thread', lostAt', allocations', quarantine)
               /\ RingInv(row', excluded', allocations', streak', quarantine)
    <3>1. PICK s \in Slots :
            IF row[s].name # NoName
              THEN /\ row' = retire(row, s, allocations)
                   /\ lostAt' = Lost(s, allocations)
              ELSE UNCHANGED <<row, lostAt>>
      BY <2>4 DEF exclude, fake_ip_slot_of
    <3>2. streak' = 0 /\ allocations' = allocations /\ thread' = thread
      BY <2>4 DEF exclude
    <3>3. KeptInv(row', thread', lostAt', allocations', quarantine)
      <4>1. CASE row[s].name # NoName
        <5>1. KeptInv(retire(row, s, allocations), thread, Lost(s, allocations),
                      allocations, quarantine)
          BY <1>2, <2>0, <4>1, KeptRetire
        <5> QED
          BY <3>1, <3>2, <4>1, <5>1
      <4>2. CASE row[s].name = NoName
        BY <1>2, <3>1, <3>2, <4>2
      <4> QED
        BY <4>1, <4>2
    <3>4. \A o \in Slots : row'[o].reusable_at <= allocations + quarantine
      <4>1. CASE row[s].name # NoName
        <5>1. /\ retire(row, s, allocations)[s].reusable_at = allocations + quarantine
              /\ \A o \in Slots \ {s} : retire(row, s, allocations)[o] = row[o]
          BY <2>0, RetireFacts
        <5>2. row'[s].reusable_at = allocations + quarantine
              /\ \A o \in Slots \ {s} : row'[o] = row[o]
          BY <3>1, <4>1, <5>1
        <5> QED
          BY <1>2, <2>0, <5>2 DEF RingInv
      <4>2. CASE row[s].name = NoName
        BY <1>2, <3>1, <4>2 DEF RingInv
      <4> QED
        BY <4>1, <4>2
    <3>5. RingInv(row', excluded', allocations', streak', quarantine)
      BY <2>0, <3>2, <3>4 DEF RingInv
    <3> QED
      BY <3>3, <3>5
  <2>5. ASSUME QuietStep
        PROVE  /\ KeptInv(row', thread', lostAt', allocations', quarantine)
               /\ RingInv(row', excluded', allocations', streak', quarantine)
    BY <1>2, <2>0, <2>5, QuietKeeps
  <2> QED
    BY <1>2, <2>1, <2>2, <2>3, <2>4, <2>5, QuietSteps DEF FakeNext
<1>3. [FakeNext]_fakeVars => quarantine' = quarantine
  BY DEF FakeNext, fakeVars, tableVars, AllocSeen, AllocFree, AllocFull, AllocNone,
     NewName, MayAsk, Connect, Pin, NoteTouched, Unpin, Forget, exclude,
     forward_progress
<1>4. FakeTypeOK /\ FakeTypeOK' /\ OneAddressPerName /\ [FakeNext]_fakeVars
      /\ KeptInv(row, thread, lostAt, allocations, quarantine)
      /\ RingInv(row, excluded, allocations, streak, quarantine)
      => /\ KeptInv(row, thread, lostAt, allocations, quarantine)'
         /\ RingInv(row, excluded, allocations, streak, quarantine)'
  BY <1>2, <1>3 DEF KeptInv, KeptAt, RingInv
<1> QED
  BY <1>1, <1>4, FakeTypeCorrect, OneAddress, PTL DEF FakeSpec

(* For every ring length, and however often the row was retired, excluded   *)
(* or given out again meanwhile, a connect to an answer that an application *)
(* still keeps is routed to the name it was given for or refused, until a   *)
(* whole ring has passed since the answer was lost; it is never passed      *)
(* through to the network (fakeip.hpp 56-60, fake_map.hpp 329-336).         *)
THEOREM NoEarlyMisroutes == FakeSpec => []NoEarlyMisroute
<1>1. ASSUME FakeTypeOK, KeptInv(row, thread, lostAt, allocations, quarantine)
      PROVE  NoEarlyMisroute
  <2> SUFFICES ASSUME NEW t \in Threads, thread[t].name # NoName
      PROVE  LET d == decide([family |-> "inet", len |-> "exact",
                              v4 |-> fake_ip_at(thread[t].fake)], TRUE)
             IN  /\ d.verdict # "passthrough"
                 /\ \/ d.names \subseteq {thread[t].name}
                    \/ lostAt[t] # -1 /\ allocations >= lostAt[t] + quarantine
    BY DEF NoEarlyMisroute
  <2> DEFINE f == thread[t].fake
             d == decide([family |-> "inet", len |-> "exact",
                          v4 |-> fake_ip_at(f)], TRUE)
  <2>1. KeptAt(row, thread, lostAt, allocations, quarantine, t) /\ f \in Slots
    BY <1>1 DEF KeptInv, KeptAt
  <2>2. lookup(fake_ip_at(f)) = IF row[f].name # NoName THEN {row[f].name} ELSE {}
    BY <2>1, OwnedFacts DEF lookup
  <2>3. d.names = lookup(fake_ip_at(f)) /\ d.verdict # "passthrough"
    BY DEF decide, read_fake_addr, fake_connect_verdict, in_fake_range, fake_ip_at
  <2> HIDE DEF d
  <2>4. \/ d.names \subseteq {thread[t].name}
        \/ lostAt[t] # -1 /\ allocations >= lostAt[t] + quarantine
    BY <2>1, <2>2, <2>3 DEF KeptAt
  <2> QED
    BY <2>3, <2>4 DEF d
<1> QED
  BY <1>1, FakeTypeCorrect, AnswersInductive, PTL

(* For every table and ring, a full table refuses at most one ring-length   *)
(* of new names in a row before one of its rows is given out again          *)
(* (fakeip.hpp 364-370).                                                    *)
THEOREM RingAlwaysDrains == FakeSpec => []RingDrains
<1>1. RingInv(row, excluded, allocations, streak, quarantine) => RingDrains
  BY DEF RingInv, RingDrains
<1> QED
  BY <1>1, AnswersInductive, PTL
=============================================================================
