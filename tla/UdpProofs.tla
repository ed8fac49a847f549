------------------------------ MODULE UdpProofs ------------------------------
(***************************************************************************)
(* The two tables of udp_state.hpp.  A reference into the association      *)
(* table never reaches the next tenant of its row, an association has as   *)
(* many holders as it counts, and its sockets are handed back once, for    *)
(* every number of rows, users, sockets and reuses.  No datagram of the    *)
(* socket table is lost in silence, its budgets are exact, and a socket    *)
(* inherits nothing, for every size of the table and of its queues.        *)
(***************************************************************************)
EXTENDS UdpAssociations, UdpSockets, SequenceTheorems, FiniteSetTheorems,
        WellFoundedInduction, TLAPS

Row  == [used : BOOLEAN, generation : Nat, control : Controls \cup {0},
         relay : Nat, refcount : Int, last_use : Nat]
User == [ref : [slot : Slot \cup {0}, generation : Nat], relay : Nat,
         holds : BOOLEAN]

RowInv == /\ assoc \in [Slot -> Row]
          /\ user \in [Users -> User]
          /\ relays \in Nat /\ now \in Nat

(* StaleRefsDead is not inductive: what a new tenant does to an old         *)
(* reference depends on the generations.  A row's generation is never less  *)
(* than that of a reference to it, so the next tenant's is above them all.  *)
RefInv(a, usr) ==
  \A u \in Users : \A i \in Slot :
    usr[u].ref.slot = i =>
      /\ usr[u].ref.generation <= a[i].generation
      /\ a[i].used /\ usr[u].ref.generation = a[i].generation =>
           a[i].relay = usr[u].relay

(* What the lowest-index scan finds is in the set that it scans.            *)
LEMMA LowestIn == \A S : Lowest(S) \subseteq S
  BY DEF Lowest

(* The clock only ever shows naturals.                                      *)
LEMMA TicksNat == now \in Nat => Ticks \subseteq Nat
  BY DEF Ticks

(* A step that gives no row a new tenant and no user a new reference.       *)
LEMMA RefsKept ==
  ASSUME RefInv(assoc, user),
         \A i \in Slot : /\ assoc'[i].generation = assoc[i].generation
                         /\ assoc'[i].used => /\ assoc[i].used
                                              /\ assoc'[i].relay = assoc[i].relay,
         \A u \in Users : \/ user'[u].ref.slot = 0
                          \/ /\ user'[u].ref = user[u].ref
                             /\ user'[u].relay = user[u].relay
  PROVE  RefInv(assoc', user')
  BY DEF RefInv, Slot

(* Rows are typed and no reference is ahead of its row.                     *)
LEMMA RefInductive == AssocSpec => [](RowInv /\ RefInv(assoc, user))
<1>1. AssocInit => RowInv /\ RefInv(assoc, user)
  BY DEF AssocInit, RowInv, RefInv, Row, User, NoRef, Slot
<1>2. ASSUME RowInv, RefInv(assoc, user), [AssocNext]_assocVars
      PROVE  RowInv' /\ RefInv(assoc', user')
  <2>0. assoc \in [Slot -> Row] /\ user \in [Users -> User] /\ Ticks \subseteq Nat
    BY <1>2, TicksNat DEF RowInv
  <2>1. ASSUME NEW u \in Users, NEW tick \in Ticks, NEW c \in Controls,
               OpenAgain(u, c, tick)
        PROVE  RowInv' /\ RefInv(assoc', user')
    <3>1. PICK i \in ByControl(c) :
            /\ assoc' = [assoc EXCEPT ![i].last_use = tick]
            /\ user' = [user EXCEPT ![u] =
                 [ref |-> [slot |-> i, generation |-> assoc[i].generation],
                  relay |-> assoc[i].relay, holds |-> FALSE]]
      BY <2>1, LowestIn DEF OpenAgain, Keeps
    <3>2. i \in Slot
      BY DEF ByControl
    <3>3. RowInv'
      <4>1. assoc[i] \in Row /\ tick \in Nat
        BY <2>0, <3>2
      <4>2. assoc' \in [Slot -> Row]
        BY <2>0, <3>1, <3>2, <4>1 DEF Row
      <4>3. assoc[i].generation \in Nat /\ assoc[i].relay \in Nat
        BY <4>1 DEF Row
      <4>4. user' \in [Users -> User]
        BY <2>0, <3>1, <3>2, <4>3 DEF User
      <4> QED
        BY <1>2, <2>1, <4>2, <4>4 DEF OpenAgain, RowInv
    <3>4. RefInv(assoc', user')
      BY <1>2, <2>0, <3>1, <3>2, SMTT(30) DEF RefInv, Row, User
    <3> QED
      BY <3>3, <3>4
  <2>2. ASSUME NEW u \in Users, NEW tick \in Ticks, NEW c \in Controls,
               OpenNew(u, c, tick)
        PROVE  RowInv' /\ RefInv(assoc', user')
    <3>1. PICK i \in Unused :
            /\ assoc' = [assoc EXCEPT ![i] =
                 [used |-> TRUE, generation |-> assoc[i].generation + 1,
                  control |-> c, relay |-> relays + 1, refcount |-> 0,
                  last_use |-> tick]]
            /\ user' = [user EXCEPT ![u] =
                 [ref |-> [slot |-> i, generation |-> assoc[i].generation + 1],
                  relay |-> relays + 1, holds |-> FALSE]]
      BY <2>2, LowestIn DEF OpenNew, Keeps
    <3>2. i \in Slot /\ assoc[i].generation \in Nat
      BY <2>0 DEF Unused, Row
    <3>3. RowInv'
      BY <1>2, <2>0, <2>2, <3>1, <3>2 DEF OpenNew, RowInv, Row, User
    <3>4. RefInv(assoc', user')
      BY <1>2, <2>0, <3>1, <3>2 DEF RefInv, Row, User
    <3> QED
      BY <3>3, <3>4
  <2>3. ASSUME NEW u \in Users, NEW tick \in Ticks, Touch(u, tick)
        PROVE  RowInv' /\ RefInv(assoc', user')
    <3>1. PICK i \in Slot : assoc' = [assoc EXCEPT ![i].last_use = tick]
      BY <2>3 DEF Touch, row_of
    <3>2. RowInv'
      BY <1>2, <2>0, <2>3, <3>1, ZenonT(60) DEF Touch, RowInv, Row
    <3> QED
      BY <1>2, <2>0, <2>3, <3>1, <3>2, RefsKept DEF Touch, Row
  <2>4. ASSUME NEW u \in Users, Acquire(u)
        PROVE  RowInv' /\ RefInv(assoc', user')
    <3>1. CASE \E i \in row_of(user[u].ref) :
                 /\ assoc' = [assoc EXCEPT ![i].refcount = @ + 1]
                 /\ user' = [user EXCEPT ![u].holds = TRUE]
      <4>1. PICK i \in Slot : /\ assoc' = [assoc EXCEPT ![i].refcount = @ + 1]
                              /\ user' = [user EXCEPT ![u].holds = TRUE]
        BY <3>1 DEF row_of
      <4>2. assoc[i].refcount + 1 \in Int
        BY <2>0 DEF Row
      <4>3. PICK n \in Int : assoc' = [assoc EXCEPT ![i].refcount = n]
        BY <4>1, <4>2
      <4>4. assoc' \in [Slot -> Row]
        BY <2>0, <4>3 DEF Row
      <4>5. user' \in [Users -> User]
        BY <2>0, <4>1 DEF User
      <4>6. RowInv'
        BY <1>2, <2>4, <4>4, <4>5 DEF Acquire, RowInv
      <4>7. RefInv(assoc', user')
        BY <1>2, <2>0, <4>1, <4>3, RefsKept DEF Row, User
      <4> QED
        BY <4>6, <4>7
    <3>2. CASE UNCHANGED assoc /\ user' = [user EXCEPT ![u].ref = NoRef]
      BY <1>2, <2>0, <2>4, <3>2, RefsKept DEF Acquire, RowInv, Row, User, NoRef
    <3> QED
      BY <2>4, <3>1, <3>2 DEF Acquire
  <2>a. ASSUME NEW dead, assoc' = close_row(dead)
        PROVE  /\ assoc' \in [Slot -> Row]
               /\ \A i \in Slot :
                    /\ assoc'[i].generation = assoc[i].generation
                    /\ assoc'[i].used => /\ assoc[i].used
                                         /\ assoc'[i].relay = assoc[i].relay
    <3>1. ASSUME NEW i \in Slot
          PROVE  /\ assoc'[i] \in Row
                 /\ assoc'[i].generation = assoc[i].generation
                 /\ assoc'[i].used => /\ assoc[i].used
                                      /\ assoc'[i].relay = assoc[i].relay
      <4>1. CASE i \in dead
        <5>1. assoc'[i] = [assoc[i] EXCEPT !.used = FALSE, !.control = 0,
                             !.relay = 0, !.refcount = 0, !.last_use = 0]
          BY <2>a, <4>1 DEF close_row
        <5>2. assoc[i] \in Row /\ 0 \in Nat /\ 0 \in Int /\ 0 \in Controls \cup {0}
          BY <2>0
        <5> QED
          BY <5>1, <5>2 DEF Row
      <4>2. CASE i \notin dead
        BY <2>0, <2>a, <4>2 DEF close_row
      <4> QED
        BY <4>1, <4>2
    <3>2. assoc' = [i \in Slot |-> assoc'[i]]
      BY <2>a DEF close_row
    <3> QED
      BY <3>1, <3>2
  <2>5. ASSUME NEW u \in Users, NEW tick \in Ticks, Release(u, tick)
        PROVE  RowInv' /\ RefInv(assoc', user')
    <3>1. PICK i \in Slot :
            \/ assoc' = [assoc EXCEPT ![i].refcount = @ - 1, ![i].last_use = tick]
            \/ assoc' = close_row({i})
      BY <2>5 DEF Release, row_of
    <3>2. /\ assoc' \in [Slot -> Row]
          /\ \A k \in Slot :
               /\ assoc'[k].generation = assoc[k].generation
               /\ assoc'[k].used => /\ assoc[k].used
                                    /\ assoc'[k].relay = assoc[k].relay
      <4>1. CASE assoc' = close_row({i})
        BY <2>a, <4>1
      <4>2. CASE assoc' = [assoc EXCEPT ![i].refcount = @ - 1,
                                        ![i].last_use = tick]
        <5>1. assoc[i].refcount - 1 \in Int /\ tick \in Nat
          BY <2>0 DEF Row
        <5>2. PICK n \in Int : assoc' = [assoc EXCEPT ![i].refcount = n,
                                                      ![i].last_use = tick]
          BY <4>2, <5>1
        <5> QED
          BY <2>0, <5>1, <5>2 DEF Row
      <4> QED
        BY <3>1, <4>1, <4>2
    <3>3. user' = [user EXCEPT ![u].holds = FALSE] /\ UNCHANGED <<relays, now>>
      BY <2>5 DEF Release
    <3> QED
      BY <1>2, <2>0, <3>2, <3>3, RefsKept DEF RowInv, User
  <2>6. ASSUME NEW u \in Users, ReleaseLate(u)
        PROVE  RowInv' /\ RefInv(assoc', user')
    BY <1>2, <2>0, <2>6, RefsKept DEF ReleaseLate, RowInv, Row, User, NoRef
  <2>7. ASSUME NEW tick \in Ticks, ReapIdle(tick)
        PROVE  RowInv' /\ RefInv(assoc', user')
    <3>1. /\ assoc' = close_row({i \in Slot : Idle(i, tick)})
          /\ UNCHANGED <<relays, user, now>>
      BY <2>7 DEF ReapIdle
    <3> QED
      BY <1>2, <2>a, <3>1, RefsKept DEF RowInv
  <2>8. CASE Tick
    BY <1>2, <2>8, RefsKept DEF Tick, RowInv
  <2>9. CASE UNCHANGED assocVars
    BY <1>2, <2>9 DEF assocVars, RowInv
  <2> QED
    BY <1>2, <2>1, <2>2, <2>3, <2>4, <2>5, <2>6, <2>7, <2>8, <2>9 DEF AssocNext
<1>3. RefInv(assoc', user') => RefInv(assoc, user)'
  BY DEF RefInv
<1> QED
  BY <1>1, <1>2, <1>3, PTL DEF AssocSpec

(* A reference kept across calls names the association it was given for or  *)
(* nothing, however often its row was closed, reaped and opened again       *)
(* meanwhile (udp_state.hpp 156-159, 178-202, 281-301).                     *)
THEOREM StaleRefsStayDead == AssocSpec => []StaleRefsDead
<1>1. RowInv /\ RefInv(assoc, user) => StaleRefsDead
  BY DEF RowInv, RefInv, StaleRefsDead, row_of, Row, User
<1> QED
  BY <1>1, RefInductive, PTL

-----------------------------------------------------------------------------
(* User u holds what is in row i.                                           *)
Holds(a, usr, u, i) ==
  /\ usr[u].holds /\ usr[u].ref.slot = i
  /\ a[i].used /\ a[i].generation = usr[u].ref.generation

Holders(a, usr, i) == {u \in Users : Holds(a, usr, u, i)}

(* HoldersCounted, with the rows and the users it is about as parameters.   *)
HoldInv(a, usr) ==
  /\ \A u \in Users : usr[u].holds => \E i \in Slot : Holds(a, usr, u, i)
  /\ \A i \in Slot : a[i].refcount = Cardinality(Holders(a, usr, i))

InUse(a) == {i \in Slot : a[i].used}

(* Every relay made so far is in one row, or was handed back once.          *)
RelayInv(a, h, n) ==
  /\ n \in 0..MaxRelay /\ h \in [Relay -> Nat]
  /\ \A i \in InUse(a) : a[i].relay \in 1..n /\ h[a[i].relay] = 0
  /\ \A i, j \in InUse(a) : a[i].relay = a[j].relay => i = j
  /\ \A r \in 1..n : h[r] = 0 => \E i \in InUse(a) : a[i].relay = r
  /\ \A r \in 1..n : h[r] \in {0, 1}
  /\ \A r \in Relay : r > n => h[r] = 0

TableInv(a, usr, h, n, l) ==
  HoldInv(a, usr) /\ RelayInv(a, h, n) /\ l = Cardinality(InUse(a))

-----------------------------------------------------------------------------
(* A step is of one of five kinds, in what it does to holders and relays.   *)
SameRow(i) == /\ assoc'[i].used = assoc[i].used
              /\ assoc'[i].generation = assoc[i].generation
              /\ assoc'[i].relay = assoc[i].relay

SameHolder(u) == /\ user'[u].holds = user[u].holds
                 /\ user[u].holds => user'[u].ref = user[u].ref

Names(u, i) == /\ user[u].ref.slot = i /\ assoc[i].used
               /\ assoc[i].generation = user[u].ref.generation

QuietStep ==
  /\ \A i \in Slot : SameRow(i) /\ assoc'[i].refcount = assoc[i].refcount
  /\ \A u \in Users : SameHolder(u)
  /\ UNCHANGED <<live, relays, handed>>

NewStep(u, i) ==
  /\ ~assoc[i].used /\ assoc'[i].used /\ assoc'[i].refcount = 0
  /\ assoc'[i].generation = assoc[i].generation + 1
  /\ assoc'[i].relay = relays + 1
  /\ \A j \in Slot \ {i} : SameRow(j) /\ assoc'[j].refcount = assoc[j].refcount
  /\ ~user[u].holds /\ ~user'[u].holds
  /\ \A v \in Users \ {u} : user'[v] = user[v]
  /\ relays < MaxRelay /\ relays' = relays + 1 /\ live' = live + 1
  /\ UNCHANGED handed

HoldStep(u, i) ==
  /\ Names(u, i)
  /\ \/ /\ ~user[u].holds /\ user'[u].holds
        /\ assoc'[i].refcount = assoc[i].refcount + 1
     \/ /\ user[u].holds /\ ~user'[u].holds
        /\ assoc'[i].refcount = assoc[i].refcount - 1
  /\ user'[u].ref = user[u].ref
  /\ \A v \in Users \ {u} : user'[v] = user[v]
  /\ \A j \in Slot : SameRow(j)
  /\ \A j \in Slot \ {i} : assoc'[j].refcount = assoc[j].refcount
  /\ UNCHANGED <<live, relays, handed>>

(* What closes has no holder but the one that leaves with this very step.   *)
CloseStep(dead) ==
  /\ dead \subseteq InUse(assoc)
  /\ \A i \in dead : ~assoc'[i].used /\ assoc'[i].refcount = 0
  /\ \A i \in Slot \ dead : SameRow(i) /\ assoc'[i].refcount = assoc[i].refcount
  /\ \A u \in Users : user'[u].ref = user[u].ref
  /\ \A u \in Users, i \in dead : Holds(assoc, user, u, i) => ~user'[u].holds
  /\ \A u \in Users : (\A i \in dead : ~Holds(assoc, user, u, i)) =>
                        user'[u].holds = user[u].holds
  /\ HandOver(dead) /\ live' = live - Cardinality(dead) /\ UNCHANGED relays

(* Only users hold a row, and there are finitely many.                      *)
LEMMA HoldersFinite ==
  \A a, usr, i : IsFiniteSet(Holders(a, usr, i))
<1>1. IsFiniteSet(Users)
  BY AssocAssumption
<1>2. \A a, usr, i : Holders(a, usr, i) \in SUBSET Users
  BY DEF Holders
<1> QED
  BY <1>1, <1>2, FS_Subset

(* There are finitely many rows in use.                                     *)
LEMMA InUseFinite == \A a : IsFiniteSet(InUse(a))
<1>1. IsFiniteSet(Slot)
  <2>1. 1 \in Int /\ AssocRows \in Int
    BY AssocAssumption
  <2> QED
    BY <2>1, FS_Interval DEF Slot
<1>2. \A a : InUse(a) \in SUBSET Slot
  BY DEF InUse
<1> QED
  BY <1>1, <1>2, FS_Subset

(* A step that gives, takes and closes nothing keeps the table.             *)
LEMMA QuietKeeps ==
  ASSUME RowInv, TableInv(assoc, user, handed, relays, live), QuietStep
  PROVE  TableInv(assoc', user', handed', relays', live')
<1>1. InUse(assoc') = InUse(assoc)
  BY DEF QuietStep, InUse, SameRow
<1>2. \A u \in Users, i \in Slot :
        Holds(assoc', user', u, i) <=> Holds(assoc, user, u, i)
  BY DEF QuietStep, SameRow, SameHolder, Holds
<1>3. \A i \in Slot : Holders(assoc', user', i) = Holders(assoc, user, i)
  BY <1>2 DEF Holders
<1>4. HoldInv(assoc', user')
  BY <1>2, <1>3 DEF TableInv, HoldInv, QuietStep, SameHolder
<1>5. \A i \in InUse(assoc) : assoc'[i].relay = assoc[i].relay
  BY DEF QuietStep, InUse, SameRow
<1>6. RelayInv(assoc', handed', relays')
  BY <1>1, <1>5 DEF TableInv, RelayInv, QuietStep
<1> QED
  BY <1>1, <1>4, <1>6 DEF TableInv, QuietStep

(* A new tenant brings one holder and one relay socket.                     *)
LEMMA NewKeeps ==
  ASSUME RowInv, RefInv(assoc, user), TableInv(assoc, user, handed, relays, live),
         NEW u \in Users, NEW i \in Slot, NewStep(u, i)
  PROVE  TableInv(assoc', user', handed', relays', live')
<1>1. /\ InUse(assoc') = InUse(assoc) \cup {i} /\ i \notin InUse(assoc)
      /\ \A j \in InUse(assoc) : j \in Slot \ {i}
  BY DEF NewStep, InUse, SameRow
<1>2. live' = Cardinality(InUse(assoc'))
  <2>1. IsFiniteSet(InUse(assoc)) /\ live = Cardinality(InUse(assoc))
    BY InUseFinite DEF TableInv
  <2>2. Cardinality(InUse(assoc) \cup {i}) = Cardinality(InUse(assoc)) + 1
    BY <1>1, <2>1, FS_AddElement
  <2> QED
    BY <1>1, <2>1, <2>2 DEF NewStep
<1>3. ASSUME NEW v \in Users PROVE ~Holds(assoc', user', v, i)
  <2>1. assoc[i].generation \in Nat /\ user[v].ref.generation \in Nat
    BY DEF RowInv, Row, User
  <2>2. user[v].ref.slot = i => user[v].ref.generation <= assoc[i].generation
    BY DEF RefInv
  <2> QED
    BY <2>1, <2>2 DEF NewStep, Holds
<1>4. ASSUME NEW v \in Users PROVE ~Holds(assoc, user, v, i)
  BY DEF NewStep, Holds
<1>5. \A v \in Users, j \in Slot \ {i} :
        Holds(assoc', user', v, j) <=> Holds(assoc, user, v, j)
  BY DEF NewStep, Holds, SameRow
<1>6. Holders(assoc', user', i) = {}
  BY <1>3 DEF Holders
<1>7. \A j \in Slot \ {i} : Holders(assoc', user', j) = Holders(assoc, user, j)
  BY <1>5 DEF Holders
<1>8. HoldInv(assoc', user')
  <2>1. ASSUME NEW v \in Users, user'[v].holds
        PROVE  \E j \in Slot : Holds(assoc', user', v, j)
    <3>1. user[v].holds
      BY <2>1 DEF NewStep
    <3>2. PICK j \in Slot : Holds(assoc, user, v, j)
      BY <3>1 DEF TableInv, HoldInv
    <3> QED
      BY <1>4, <1>5, <3>2
  <2>2. ASSUME NEW j \in Slot
        PROVE  assoc'[j].refcount = Cardinality(Holders(assoc', user', j))
    <3>1. CASE j = i
      BY <1>6, <3>1, FS_EmptySet DEF NewStep
    <3>2. CASE j # i
      BY <1>7, <3>2 DEF NewStep, TableInv, HoldInv
    <3> QED
      BY <3>1, <3>2
  <2> QED
    BY <2>1, <2>2 DEF HoldInv
<1>9. RelayInv(assoc', handed', relays')
  <2> DEFINE n == relays + 1
  <2>1. /\ relays \in 0..MaxRelay /\ relays < MaxRelay /\ MaxRelay \in Nat
        /\ relays' = n /\ handed' = handed /\ handed \in [Relay -> Nat]
        /\ \A j \in InUse(assoc) : /\ assoc'[j].relay = assoc[j].relay
                                   /\ assoc[j].relay \in 1..relays
                                   /\ handed[assoc[j].relay] = 0
        /\ assoc'[i].relay = n
        /\ \A r \in 1..relays : handed[r] = 0 =>
             \E j \in InUse(assoc) : assoc[j].relay = r
        /\ \A r \in 1..relays : handed[r] \in {0, 1}
        /\ \A r \in Relay : r > relays => handed[r] = 0
        /\ \A j, k \in InUse(assoc) : assoc[j].relay = assoc[k].relay => j = k
    BY <1>1, AssocAssumption DEF NewStep, TableInv, RelayInv, SameRow
  <2>2. /\ n \in Relay /\ n \in 0..MaxRelay /\ n \in 1..n /\ n > relays
        /\ \A r \in 1..n : r = n \/ r \in 1..relays
        /\ \A r \in 1..relays : r \in 1..n /\ r # n
        /\ \A r \in Relay : r > n => r > relays
    BY <2>1 DEF Relay
  <2> HIDE DEF n
  <2>3. \A j \in InUse(assoc') : assoc'[j].relay \in 1..n /\ handed[assoc'[j].relay] = 0
    BY <1>1, <2>1, <2>2
  <2>4. \A j, k \in InUse(assoc') : assoc'[j].relay = assoc'[k].relay => j = k
    BY <1>1, <2>1, <2>2
  <2>5. \A r \in 1..n : handed[r] = 0 => \E j \in InUse(assoc') : assoc'[j].relay = r
    BY <1>1, <2>1, <2>2
  <2>6. \A r \in 1..n : handed[r] \in {0, 1}
    BY <2>1, <2>2
  <2>7. \A r \in Relay : r > n => handed[r] = 0
    BY <2>1, <2>2
  <2> QED
    BY <2>1, <2>2, <2>3, <2>4, <2>5, <2>6, <2>7 DEF RelayInv
<1> QED
  BY <1>2, <1>8, <1>9 DEF TableInv

(* One more holder is one more in the count.                                *)
LEMMA HoldKeeps ==
  ASSUME RowInv, TableInv(assoc, user, handed, relays, live),
         NEW u \in Users, NEW i \in Slot, HoldStep(u, i)
  PROVE  TableInv(assoc', user', handed', relays', live')
<1>1. InUse(assoc') = InUse(assoc)
      /\ \A j \in InUse(assoc) : assoc'[j].relay = assoc[j].relay
  BY DEF HoldStep, InUse, SameRow
<1>2. RelayInv(assoc', handed', relays')
  BY <1>1 DEF TableInv, RelayInv, HoldStep
<1>3. \A v \in Users \ {u}, j \in Slot :
        Holds(assoc', user', v, j) <=> Holds(assoc, user, v, j)
  BY DEF HoldStep, Holds, SameRow
<1>4. \A j \in Slot \ {i} : /\ ~Holds(assoc, user, u, j)
                            /\ ~Holds(assoc', user', u, j)
  BY DEF HoldStep, Names, Holds
<1>5. /\ Holds(assoc, user, u, i) <=> user[u].holds
      /\ Holds(assoc', user', u, i) <=> user'[u].holds
  BY DEF HoldStep, Names, Holds, SameRow
<1>6. \A j \in Slot \ {i} : Holders(assoc', user', j) = Holders(assoc, user, j)
  BY <1>3, <1>4 DEF Holders
<1>7. assoc'[i].refcount = Cardinality(Holders(assoc', user', i))
  <2> DEFINE A == Holders(assoc, user, i)
             B == Holders(assoc', user', i)
  <2>0. IsFiniteSet(A) /\ assoc[i].refcount = Cardinality(A)
    BY HoldersFinite DEF TableInv, HoldInv
  <2>1. CASE ~user[u].holds /\ user'[u].holds
    <3>1. B = A \cup {u} /\ u \notin A
      BY <1>3, <1>5, <2>1 DEF Holders
    <3>2. assoc'[i].refcount = assoc[i].refcount + 1
      BY <2>1 DEF HoldStep
    <3> HIDE DEF A, B
    <3> QED
      BY <2>0, <3>1, <3>2, FS_AddElement DEF B
  <2>2. CASE user[u].holds /\ ~user'[u].holds
    <3>1. B = A \ {u} /\ u \in A
      BY <1>3, <1>5, <2>2 DEF Holders
    <3>2. assoc'[i].refcount = assoc[i].refcount - 1
      BY <2>2 DEF HoldStep
    <3> HIDE DEF A, B
    <3> QED
      BY <2>0, <3>1, <3>2, FS_RemoveElement DEF B
  <2> QED
    BY <2>1, <2>2 DEF HoldStep
<1>8. ASSUME NEW v \in Users, user'[v].holds
      PROVE  \E j \in Slot : Holds(assoc', user', v, j)
  <2>1. CASE v = u
    BY <1>5, <1>8, <2>1
  <2>2. CASE v # u
    <3>1. user[v].holds
      BY <1>8, <2>2 DEF HoldStep
    <3> QED
      BY <1>3, <2>2, <3>1 DEF TableInv, HoldInv
  <2> QED
    BY <2>1, <2>2
<1>9. \A j \in Slot : assoc'[j].refcount = Cardinality(Holders(assoc', user', j))
  BY <1>6, <1>7 DEF HoldStep, TableInv, HoldInv
<1> QED
  BY <1>1, <1>2, <1>8, <1>9 DEF TableInv, HoldInv, HoldStep

(* Rows that die hand back their sockets, and have no holder.               *)
LEMMA CloseKeeps ==
  ASSUME RowInv, TableInv(assoc, user, handed, relays, live),
         NEW dead, CloseStep(dead)
  PROVE  TableInv(assoc', user', handed', relays', live')
<1>1. /\ InUse(assoc') = InUse(assoc) \ dead
      /\ \A j \in InUse(assoc') : assoc'[j].relay = assoc[j].relay
  BY DEF CloseStep, InUse, SameRow
<1>2. live' = Cardinality(InUse(assoc'))
  <2>1. IsFiniteSet(InUse(assoc)) /\ live = Cardinality(InUse(assoc))
    BY InUseFinite DEF TableInv
  <2>2. Cardinality(InUse(assoc) \ dead) =
          Cardinality(InUse(assoc)) - Cardinality(InUse(assoc) \cap dead)
    BY <2>1, FS_Difference
  <2>3. InUse(assoc) \cap dead = dead
    BY DEF CloseStep
  <2> QED
    BY <1>1, <2>1, <2>2, <2>3 DEF CloseStep
<1>3. \A v \in Users, j \in Slot \ dead :
        Holds(assoc', user', v, j) <=> Holds(assoc, user, v, j)
  <2> SUFFICES ASSUME NEW v \in Users, NEW j \in Slot \ dead
               PROVE  Holds(assoc', user', v, j) <=> Holds(assoc, user, v, j)
    OBVIOUS
  <2>1. SameRow(j) /\ user'[v].ref = user[v].ref
    BY DEF CloseStep
  <2>2. user[v].ref.slot = j => user'[v].holds = user[v].holds
    <3>1. user[v].ref.slot = j => \A i \in dead : ~Holds(assoc, user, v, i)
      BY DEF Holds
    <3> QED
      BY <3>1 DEF CloseStep
  <2> QED
    BY <2>1, <2>2 DEF Holds, SameRow
<1>4. \A v \in Users, j \in dead : ~Holds(assoc', user', v, j)
  BY DEF CloseStep, Holds
<1>5. \A j \in Slot : assoc'[j].refcount = Cardinality(Holders(assoc', user', j))
  <2>1. ASSUME NEW j \in dead
        PROVE  assoc'[j].refcount = Cardinality(Holders(assoc', user', j))
    <3>1. Holders(assoc', user', j) = {}
      BY <1>4 DEF Holders
    <3> QED
      BY <3>1, FS_EmptySet DEF CloseStep
  <2>2. ASSUME NEW j \in Slot \ dead
        PROVE  assoc'[j].refcount = Cardinality(Holders(assoc', user', j))
    <3>1. Holders(assoc', user', j) = Holders(assoc, user, j)
      BY <1>3 DEF Holders
    <3> QED
      BY <3>1 DEF CloseStep, TableInv, HoldInv
  <2> QED
    BY <2>1, <2>2
<1>6. ASSUME NEW v \in Users, user'[v].holds
      PROVE  \E j \in Slot : Holds(assoc', user', v, j)
  <2>1. \A i \in dead : ~Holds(assoc, user, v, i)
    BY <1>6 DEF CloseStep
  <2>2. user[v].holds
    BY <1>6, <2>1 DEF CloseStep
  <2>3. PICK j \in Slot : Holds(assoc, user, v, j)
    BY <2>2 DEF TableInv, HoldInv
  <2> QED
    BY <1>3, <2>1, <2>3
<1>7. RelayInv(assoc', handed', relays')
  <2> DEFINE gone(r) == \E i \in dead : assoc[i].relay = r
  <2>1. /\ relays \in 0..MaxRelay /\ handed \in [Relay -> Nat] /\ MaxRelay \in Nat
        /\ relays' = relays /\ dead \subseteq InUse(assoc)
        /\ handed' = [r \in Relay |-> IF gone(r) THEN handed[r] + 1 ELSE handed[r]]
        /\ 1..relays \subseteq Relay
    BY AssocAssumption DEF TableInv, RelayInv, CloseStep, HandOver, Relay
  <2>2. /\ \A j \in InUse(assoc) : /\ assoc[j].relay \in 1..relays
                                   /\ handed[assoc[j].relay] = 0
        /\ \A j, k \in InUse(assoc) : assoc[j].relay = assoc[k].relay => j = k
        /\ \A r \in 1..relays : handed[r] = 0 =>
             \E j \in InUse(assoc) : assoc[j].relay = r
        /\ \A r \in 1..relays : handed[r] \in {0, 1}
        /\ \A r \in Relay : r > relays => handed[r] = 0
    BY DEF TableInv, RelayInv
  <2>3. handed' \in [Relay -> Nat]
    BY <2>1
  <2>4. ASSUME NEW r \in 1..relays, gone(r)
        PROVE  handed'[r] = 1 /\ \A j \in InUse(assoc') : assoc[j].relay # r
    <3>1. handed[r] = 0
      BY <2>1, <2>2, <2>4
    <3>2. handed'[r] = 1
      BY <2>1, <2>4, <3>1
    <3> QED
      BY <1>1, <2>1, <2>2, <2>4, <3>2
  <2>5. ASSUME NEW r \in Relay, ~gone(r) PROVE handed'[r] = handed[r]
    BY <2>1, <2>5
  <2>6. ASSUME NEW r \in Relay, r > relays PROVE ~gone(r)
    <3>1. relays \in Nat
      BY <2>1
    <3>2. \A j \in InUse(assoc) : assoc[j].relay <= relays
      BY <2>2, <3>1
    <3> QED
      BY <2>1, <2>6, <3>1, <3>2 DEF Relay
  <2> HIDE DEF gone
  <2>7. \A j \in InUse(assoc') : assoc'[j].relay \in 1..relays /\ handed'[assoc'[j].relay] = 0
    BY <1>1, <2>1, <2>2, <2>4, <2>5
  <2>8. \A j, k \in InUse(assoc') : assoc'[j].relay = assoc'[k].relay => j = k
    BY <1>1, <2>2
  <2>9. ASSUME NEW r \in 1..relays, handed'[r] = 0
        PROVE  \E j \in InUse(assoc') : assoc'[j].relay = r
    <3>1. ~gone(r) /\ handed[r] = 0
      BY <2>1, <2>4, <2>5, <2>9
    <3>2. PICK j \in InUse(assoc) : assoc[j].relay = r
      BY <2>2, <3>1
    <3>3. j \notin dead
      BY <3>1, <3>2 DEF gone
    <3> QED
      BY <1>1, <3>2, <3>3
  <2>10. \A r \in 1..relays : handed'[r] \in {0, 1}
    BY <2>1, <2>2, <2>4, <2>5
  <2>11. \A r \in Relay : r > relays => handed'[r] = 0
    BY <2>2, <2>5, <2>6
  <2> QED
    BY <2>1, <2>3, <2>7, <2>8, <2>9, <2>10, <2>11 DEF RelayInv
<1> QED
  BY <1>2, <1>5, <1>6, <1>7 DEF TableInv, HoldInv

(* Every step is of one of the four kinds.                                  *)
LEMMA StepKinds ==
  ASSUME RowInv, TableInv(assoc, user, handed, relays, live), [AssocNext]_assocVars
  PROVE  \/ QuietStep
         \/ \E u \in Users, i \in Slot : NewStep(u, i) \/ HoldStep(u, i)
         \/ \E dead : CloseStep(dead)
<1>0. assoc \in [Slot -> Row] /\ user \in [Users -> User]
  BY DEF RowInv
<1>1. ASSUME NEW u \in Users, user[u].ref = NoRef PROVE ~user[u].holds
  <2>1. \A i \in Slot : ~Holds(assoc, user, u, i)
    BY <1>1 DEF Holds, NoRef, Slot
  <2> QED
    BY <2>1 DEF TableInv, HoldInv
<1>2. ASSUME NEW u \in Users, NEW tick \in Ticks, NEW c \in Controls,
             OpenAgain(u, c, tick)
      PROVE  QuietStep
  <2>1. PICK i \in ByControl(c) :
          /\ assoc' = [assoc EXCEPT ![i].last_use = tick]
          /\ user' = [user EXCEPT ![u] =
               [ref |-> [slot |-> i, generation |-> assoc[i].generation],
                relay |-> assoc[i].relay, holds |-> FALSE]]
    BY <1>2, LowestIn DEF OpenAgain, Keeps
  <2>2. i \in Slot /\ ~user[u].holds
    BY <1>1, <1>2 DEF ByControl, OpenAgain
  <2>3. \A j \in Slot : SameRow(j) /\ assoc'[j].refcount = assoc[j].refcount
    BY <1>0, <2>1, <2>2 DEF SameRow, Row
  <2>4. \A v \in Users : SameHolder(v)
    BY <1>0, <2>1, <2>2 DEF SameHolder, User
  <2> QED
    BY <1>2, <2>3, <2>4 DEF QuietStep, OpenAgain
<1>3. ASSUME NEW u \in Users, NEW tick \in Ticks, NEW c \in Controls,
             OpenNew(u, c, tick)
      PROVE  \E i \in Slot : NewStep(u, i)
  <2>1. PICK i \in Unused :
          /\ assoc' = [assoc EXCEPT ![i] =
               [used |-> TRUE, generation |-> assoc[i].generation + 1,
                control |-> c, relay |-> relays + 1, refcount |-> 0,
                last_use |-> tick]]
          /\ user' = [user EXCEPT ![u] =
               [ref |-> [slot |-> i, generation |-> assoc[i].generation + 1],
                relay |-> relays + 1, holds |-> FALSE]]
    BY <1>3, LowestIn DEF OpenNew, Keeps
  <2>2. i \in Slot /\ ~assoc[i].used /\ ~user[u].holds
    BY <1>1, <1>3 DEF Unused, OpenNew
  <2>3. /\ assoc'[i].used /\ assoc'[i].refcount = 0 /\ assoc'[i].relay = relays + 1
        /\ assoc'[i].generation = assoc[i].generation + 1
        /\ \A j \in Slot \ {i} : assoc'[j] = assoc[j]
    BY <1>0, <2>1, <2>2
  <2>4. ~user'[u].holds /\ \A v \in Users \ {u} : user'[v] = user[v]
    BY <1>0, <2>1
  <2>5. NewStep(u, i)
    BY <1>3, <2>2, <2>3, <2>4 DEF NewStep, OpenNew, SameRow
  <2> QED
    BY <2>2, <2>5
<1>4. ASSUME NEW u \in Users, NEW tick \in Ticks, Touch(u, tick)
      PROVE  QuietStep
  <2>1. PICK i \in Slot : assoc' = [assoc EXCEPT ![i].last_use = tick]
    BY <1>4 DEF Touch, row_of
  <2>2. \A j \in Slot : SameRow(j) /\ assoc'[j].refcount = assoc[j].refcount
    BY <1>0, <2>1 DEF SameRow, Row
  <2> QED
    BY <1>4, <2>2 DEF QuietStep, Touch, SameHolder
<1>5. ASSUME NEW u \in Users, Acquire(u)
      PROVE  QuietStep \/ \E i \in Slot : HoldStep(u, i)
  <2>1. CASE \E i \in row_of(user[u].ref) :
               /\ assoc' = [assoc EXCEPT ![i].refcount = @ + 1]
               /\ user' = [user EXCEPT ![u].holds = TRUE]
    <3>1. PICK i \in Slot : /\ assoc' = [assoc EXCEPT ![i].refcount = @ + 1]
                            /\ user' = [user EXCEPT ![u].holds = TRUE]
                            /\ Names(u, i)
      BY <2>1 DEF row_of, Names
    <3>2. PICK n : n = assoc[i].refcount + 1
      OBVIOUS
    <3>3. /\ assoc'[i].refcount = n
          /\ \A j \in Slot : SameRow(j)
          /\ \A j \in Slot \ {i} : assoc'[j].refcount = assoc[j].refcount
      BY <1>0, <3>1, <3>2 DEF SameRow, Row
    <3>4. /\ user'[u].holds /\ user'[u].ref = user[u].ref
          /\ \A v \in Users \ {u} : user'[v] = user[v]
      BY <1>0, <3>1 DEF User
    <3>5. HoldStep(u, i)
      BY <1>5, <3>1, <3>2, <3>3, <3>4 DEF HoldStep, Acquire
    <3> QED
      BY <3>5
  <2>2. CASE UNCHANGED assoc /\ user' = [user EXCEPT ![u].ref = NoRef]
    <3>1. ~user[u].holds
      BY <1>5 DEF Acquire
    <3>2. \A v \in Users : SameHolder(v)
      BY <1>0, <2>2, <3>1 DEF SameHolder, User
    <3> QED
      BY <1>5, <2>2, <3>2 DEF QuietStep, Acquire, SameRow
  <2> QED
    BY <1>5, <2>1, <2>2 DEF Acquire
<1>6. ASSUME NEW dead \in SUBSET InUse(assoc), assoc' = close_row(dead)
      PROVE  /\ \A i \in dead : ~assoc'[i].used /\ assoc'[i].refcount = 0
             /\ \A i \in Slot \ dead :
                  SameRow(i) /\ assoc'[i].refcount = assoc[i].refcount
  <2>1. ASSUME NEW i \in dead
        PROVE  ~assoc'[i].used /\ assoc'[i].refcount = 0
    <3>1. assoc'[i] = [assoc[i] EXCEPT !.used = FALSE, !.control = 0,
                         !.relay = 0, !.refcount = 0, !.last_use = 0]
          /\ assoc[i] \in Row
      BY <1>0, <1>6 DEF close_row, InUse
    <3> QED
      BY <3>1 DEF Row
  <2>2. \A i \in Slot \ dead : assoc'[i] = assoc[i]
    BY <1>6 DEF close_row
  <2> QED
    BY <2>1, <2>2 DEF SameRow
<1>7. ASSUME NEW u \in Users, NEW tick \in Ticks, Release(u, tick)
      PROVE  \/ \E i \in Slot : HoldStep(u, i)
             \/ \E dead : CloseStep(dead)
  <2>1. /\ user[u].holds /\ user' = [user EXCEPT ![u].holds = FALSE]
        /\ UNCHANGED relays
    BY <1>7 DEF Release
  <2>2. /\ ~user'[u].holds /\ \A v \in Users : user'[v].ref = user[v].ref
        /\ \A v \in Users \ {u} : user'[v] = user[v]
    BY <1>0, <2>1 DEF User
  <2>3. PICK i \in Slot :
          /\ Names(u, i)
          /\ \/ /\ assoc' = [assoc EXCEPT ![i].refcount = @ - 1,
                                          ![i].last_use = tick]
                /\ UNCHANGED <<handed, live>>
             \/ /\ assoc[i].refcount <= 1
                /\ assoc' = close_row({i})
                /\ HandOver({i}) /\ live' = live - 1
    BY <1>7 DEF Release, row_of, Names
  <2>4. CASE /\ assoc' = [assoc EXCEPT ![i].refcount = @ - 1,
                                       ![i].last_use = tick]
             /\ UNCHANGED <<handed, live>>
    <3>1. PICK n : n = assoc[i].refcount - 1
      OBVIOUS
    <3>2. assoc' = [assoc EXCEPT ![i].refcount = n, ![i].last_use = tick]
      BY <2>4, <3>1
    <3>3. /\ assoc'[i].refcount = n
          /\ \A j \in Slot : SameRow(j)
          /\ \A j \in Slot \ {i} : assoc'[j].refcount = assoc[j].refcount
      BY <1>0, <3>2 DEF SameRow, Row
    <3>4. HoldStep(u, i)
      BY <2>1, <2>2, <2>3, <2>4, <3>1, <3>3 DEF HoldStep
    <3> QED
      BY <3>4
  <2>5. CASE /\ assoc[i].refcount <= 1 /\ assoc' = close_row({i})
             /\ HandOver({i}) /\ live' = live - 1
    <3>1. {i} \in SUBSET InUse(assoc)
      BY <2>3 DEF Names, InUse
    <3>2. Holds(assoc, user, u, i)
      BY <2>1, <2>3 DEF Names, Holds
    <3>3. ASSUME NEW v \in Users, Holds(assoc, user, v, i) PROVE v = u
      <4> DEFINE H == Holders(assoc, user, i)
      <4>1. IsFiniteSet(H) /\ Cardinality(H) = assoc[i].refcount /\ u \in H /\ v \in H
        BY <3>2, <3>3, HoldersFinite DEF TableInv, HoldInv, Holders
      <4> HIDE DEF H
      <4>2. Cardinality(H) \in Nat /\ Cardinality(H) # 0 /\ Cardinality(H) <= 1
        BY <2>5, <4>1, FS_CardinalityType, FS_EmptySet
      <4>3. PICK x : H = {x}
        BY <4>1, <4>2, FS_Singleton
      <4> QED
        BY <4>1, <4>3
    <3>4. \A v \in Users \ {u} : user'[v].holds = user[v].holds
      BY <2>2
    <3>5. Cardinality({i}) = 1
      BY FS_Singleton
    <3>6. /\ \A k \in {i} : ~assoc'[k].used /\ assoc'[k].refcount = 0
          /\ \A k \in Slot \ {i} : SameRow(k) /\ assoc'[k].refcount = assoc[k].refcount
      BY <1>6, <2>5, <3>1
    <3>7. CloseStep({i})
      BY <2>1, <2>2, <2>5, <3>1, <3>2, <3>3, <3>4, <3>5, <3>6 DEF CloseStep
    <3> QED
      BY <3>7
  <2> QED
    BY <2>3, <2>4, <2>5
<1>8. ASSUME NEW u \in Users, ReleaseLate(u)
      PROVE  QuietStep
  <2>1. \A v \in Users : SameHolder(v)
    BY <1>0, <1>8 DEF SameHolder, ReleaseLate, User
  <2> QED
    BY <1>8, <2>1 DEF QuietStep, ReleaseLate, SameRow
<1>9. ASSUME NEW tick \in Ticks, ReapIdle(tick)
      PROVE  \E dead : CloseStep(dead)
  <2> DEFINE dead == {i \in Slot : Idle(i, tick)}
  <2>1. /\ assoc' = close_row(dead) /\ HandOver(dead)
        /\ live' = live - Cardinality(dead) /\ UNCHANGED <<relays, user>>
    BY <1>9 DEF ReapIdle
  <2>2. /\ dead \in SUBSET InUse(assoc)
        /\ \A i \in dead : i \in Slot /\ assoc[i].refcount = 0
    BY DEF Idle, InUse
  <2> HIDE DEF dead
  <2>3. ASSUME NEW i \in dead, NEW v \in Users PROVE ~Holds(assoc, user, v, i)
    <3>1. Cardinality(Holders(assoc, user, i)) = 0
      BY <2>2 DEF TableInv, HoldInv
    <3>2. Holders(assoc, user, i) = {}
      BY <3>1, HoldersFinite, FS_EmptySet
    <3> QED
      BY <3>2 DEF Holders
  <2>4. CloseStep(dead)
    BY <1>6, <2>1, <2>2, <2>3 DEF CloseStep
  <2> QED
    BY <2>4
<1>10. CASE Tick \/ UNCHANGED assocVars
  BY <1>10 DEF Tick, assocVars, QuietStep, SameRow, SameHolder
<1> QED
  BY <1>2, <1>3, <1>4, <1>5, <1>7, <1>8, <1>9, <1>10 DEF AssocNext

(* The counts of the table hold throughout.                                 *)
LEMMA TableInductive ==
  AssocSpec => [](RowInv /\ TableInv(assoc, user, handed, relays, live))
<1>1. AssocInit => TableInv(assoc, user, handed, relays, live)
  <2> SUFFICES ASSUME AssocInit
               PROVE  TableInv(assoc, user, handed, relays, live)
    OBVIOUS
  <2>1. InUse(assoc) = {} /\ \A u \in Users : ~user[u].holds
    BY DEF AssocInit, InUse
  <2>2. \A i \in Slot : Holders(assoc, user, i) = {}
    BY <2>1 DEF Holders, Holds
  <2>3. HoldInv(assoc, user)
    BY <2>1, <2>2, FS_EmptySet DEF HoldInv, AssocInit
  <2>4. RelayInv(assoc, handed, relays)
    <3>1. MaxRelay \in Nat
      BY AssocAssumption
    <3>2. relays = 0 /\ handed \in [Relay -> Nat] /\ \A r \in Relay : handed[r] = 0
      BY DEF AssocInit
    <3>3. relays \in 0..MaxRelay /\ \A r \in 1..relays : FALSE
      BY <3>1, <3>2
    <3> QED
      BY <2>1, <3>2, <3>3 DEF RelayInv
  <2> QED
    BY <2>1, <2>3, <2>4, FS_EmptySet DEF TableInv, AssocInit
<1>2. ASSUME RowInv, RefInv(assoc, user), [AssocNext]_assocVars,
             TableInv(assoc, user, handed, relays, live)
      PROVE  TableInv(assoc, user, handed, relays, live)'
  <2>1. TableInv(assoc', user', handed', relays', live')
    BY <1>2, StepKinds, QuietKeeps, NewKeeps, HoldKeeps, CloseKeeps
  <2> QED
    BY <2>1 DEF TableInv, HoldInv, Holders, Holds, RelayInv, InUse
<1> QED
  BY <1>1, <1>2, RefInductive, PTL DEF AssocSpec

(* An association is held by exactly the users that acquired it, and none   *)
(* of them finds it gone, whatever other users release and whatever is      *)
(* reaped (udp_state.hpp 215-234).                                          *)
THEOREM HoldersStayCounted == AssocSpec => []HoldersCounted
<1>1. ASSUME RowInv, TableInv(assoc, user, handed, relays, live)
      PROVE  HoldersCounted
  <2>1. \A u \in Users, i \in Slot :
          Holds(assoc, user, u, i) <=> user[u].holds /\ i \in row_of(user[u].ref)
    BY DEF Holds, row_of
  <2>2. \A u \in Users : user[u].holds => row_of(user[u].ref) # {}
    BY <1>1, <2>1 DEF TableInv, HoldInv
  <2>3. \A i \in Slot : Holders(assoc, user, i) =
          {u \in Users : user[u].holds /\ i \in row_of(user[u].ref)}
    BY <2>1 DEF Holders
  <2> QED
    BY <1>1, <2>2, <2>3 DEF TableInv, HoldInv, HoldersCounted
<1> QED
  BY <1>1, TableInductive, PTL

(* The sockets of every association that was ever opened are in its row or  *)
(* were handed back to be closed, exactly once (udp_state.hpp 226-246).     *)
THEOREM SocketsCloseOnce == AssocSpec => []ClosedOnce
<1>1. ASSUME RowInv, TableInv(assoc, user, handed, relays, live)
      PROVE  ClosedOnce
  <2>1. ASSUME NEW r \in 1..relays
        PROVE  handed[r] + Cardinality({i \in Slot : assoc[i].used
                                                     /\ assoc[i].relay = r}) = 1
    <3> DEFINE S == {i \in Slot : assoc[i].used /\ assoc[i].relay = r}
    <3>1. /\ handed[r] \in {0, 1}
          /\ handed[r] = 0 => \E i \in InUse(assoc) : assoc[i].relay = r
          /\ \A i \in InUse(assoc) : handed[assoc[i].relay] = 0
          /\ \A i, j \in InUse(assoc) : assoc[i].relay = assoc[j].relay => i = j
      BY <1>1 DEF TableInv, RelayInv
    <3>2. CASE handed[r] = 1
      <4>1. S = {}
        BY <3>1, <3>2 DEF InUse
      <4> HIDE DEF S
      <4>2. Cardinality(S) = 0
        BY <4>1, FS_EmptySet
      <4> QED
        BY <3>2, <4>2 DEF S
    <3>3. CASE handed[r] = 0
      <4>1. PICK i \in InUse(assoc) : assoc[i].relay = r
        BY <3>1, <3>3
      <4>2. S = {i}
        BY <3>1, <4>1 DEF InUse
      <4> HIDE DEF S
      <4>3. Cardinality(S) = 1
        BY <4>2, FS_Singleton
      <4> QED
        BY <3>3, <4>3 DEF S
    <3> QED
      BY <3>1, <3>2, <3>3
  <2> QED
    BY <1>1, <2>1 DEF TableInv, InUse, ClosedOnce
<1> QED
  BY <1>1, TableInductive, PTL

(* Only an association that nobody used for the idle limit is reaped, even  *)
(* by a tick older than its last use (udp_state.hpp 248-262).               *)
THEOREM UsedOnesStay == AssocSpec => InUseStays
<1>1. ASSUME RowInv, [AssocNext]_assocVars,
             TableInv(assoc, user, handed, relays, live)
      PROVE  [\A i \in Slot :
                assoc[i].used /\ ~assoc'[i].used /\ user' = user
                  => now - assoc[i].last_use >= IdleLimit]_assocVars
  <2> SUFFICES ASSUME NEW i \in Slot, assoc[i].used, ~assoc'[i].used, user' = user
               PROVE  now - assoc[i].last_use >= IdleLimit
    OBVIOUS
  <2>0. /\ assoc \in [Slot -> Row] /\ user \in [Users -> User] /\ now \in Nat
        /\ assoc[i].last_use \in Nat /\ IdleLimit \in Nat
    BY <1>1, AssocAssumption DEF RowInv, Row
  <2>1. ASSUME NEW u \in Users, NEW tick \in Ticks, NEW c \in Controls,
               OpenAgain(u, c, tick) \/ OpenNew(u, c, tick)
        PROVE  FALSE
    <3>1. CASE OpenAgain(u, c, tick)
      <4>1. PICK k \in Slot : assoc' = [assoc EXCEPT ![k].last_use = tick]
        BY <3>1, LowestIn DEF OpenAgain, ByControl
      <4> QED
        BY <2>0, <4>1 DEF Row
    <3>2. CASE OpenNew(u, c, tick)
      <4>1. PICK k \in Slot :
              assoc' = [assoc EXCEPT ![k] =
                 [used |-> TRUE, generation |-> @.generation + 1,
                  control |-> c, relay |-> relays + 1, refcount |-> 0,
                  last_use |-> tick]]
        BY <3>2, LowestIn DEF OpenNew, Unused
      <4> QED
        BY <2>0, <4>1
    <3> QED
      BY <2>1, <3>1, <3>2
  <2>2. ASSUME NEW u \in Users, NEW tick \in Ticks, Touch(u, tick)
        PROVE  FALSE
    <3>1. PICK k \in Slot : assoc' = [assoc EXCEPT ![k].last_use = tick]
      BY <2>2 DEF Touch, row_of
    <3> QED
      BY <2>0, <3>1 DEF Row
  <2>3. ASSUME NEW u \in Users, NEW tick \in Ticks, Release(u, tick)
        PROVE  FALSE
    <3>1. user[u].holds /\ user' = [user EXCEPT ![u].holds = FALSE]
      BY <2>3 DEF Release
    <3>2. ~user'[u].holds
      BY <2>0, <3>1 DEF User
    <3> QED
      BY <3>1, <3>2
  <2>4. ASSUME NEW u \in Users, Acquire(u) \/ ReleaseLate(u)
        PROVE  FALSE
    <3>1. CASE UNCHANGED assoc
      BY <3>1
    <3>2. CASE \E k \in row_of(user[u].ref) :
                 assoc' = [assoc EXCEPT ![k].refcount = @ + 1]
      <4>1. PICK k \in Slot : assoc' = [assoc EXCEPT ![k].refcount = @ + 1]
        BY <3>2 DEF row_of
      <4> QED
        BY <2>0, <4>1 DEF Row
    <3> QED
      BY <2>4, <3>1, <3>2 DEF Acquire, ReleaseLate
  <2>5. ASSUME NEW tick \in Ticks, ReapIdle(tick)
        PROVE  now - assoc[i].last_use >= IdleLimit
    <3>1. Idle(i, tick)
      BY <2>5 DEF ReapIdle, close_row
    <3>2. tick \in Nat /\ tick <= now
      BY <2>0 DEF Ticks
    <3> QED
      BY <2>0, <3>1, <3>2 DEF Idle
  <2>6. CASE Tick \/ UNCHANGED assocVars
    BY <2>6 DEF Tick, assocVars
  <2> QED
    BY <1>1, <2>1, <2>2, <2>3, <2>4, <2>5, <2>6 DEF AssocNext
<1> QED
  BY <1>1, TableInductive, PTL DEF AssocSpec, InUseStays

-----------------------------------------------------------------------------
(* Induction over the numbers, for the sets a proof can name.               *)
LEMMA Induct ==
  ASSUME NEW S \in SUBSET Nat, 0 \in S, \A n \in S : n + 1 \in S
  PROVE  S = Nat
<1> SUFFICES ASSUME S # Nat PROVE FALSE
  OBVIOUS
<1> DEFINE T == Nat \ S
           R == OpToRel(<, Nat)
<1>1. T \subseteq Nat /\ T # {}
  OBVIOUS
<1>2. IsWellFoundedOn(R, Nat)
  BY NatLessThanWellFounded
<1>3. \A x, y \in Nat : <<y, x>> \in R <=> y < x
  BY DEF OpToRel
<1> HIDE DEF R, T
<1>4. PICK x \in T : \A y \in T : ~ (<<y, x>> \in R)
  BY <1>1, <1>2, WFMin
<1>5. x \in Nat /\ x # 0
  BY <1>1, <1>4 DEF T
<1>6. x - 1 \in Nat /\ x - 1 < x
  BY <1>5
<1>7. x - 1 \notin T
  BY <1>3, <1>4, <1>5, <1>6
<1>8. (x - 1) + 1 \in S
  BY <1>6, <1>7 DEF T
<1> QED
  BY <1>4, <1>5, <1>8 DEF T

(* A running sum, as SumTo() makes it.                                      *)
IsSum(f, w, n) == f = [i \in 0..n |-> IF i = 0 THEN 0 ELSE f[i - 1] + w[i]]

(* There is a function of partial sums, of every length.                    *)
LEMMA SumExists ==
  ASSUME NEW w, NEW n \in Nat
  PROVE  \E f : IsSum(f, w, n)
<1> DEFINE S == {k \in Nat : \E f : IsSum(f, w, k)}
<1>1. 0 \in S
  <2>1. PICK f : f = [i \in 0..0 |-> 0]
    OBVIOUS
  <2>2. IsSum(f, w, 0)
    BY <2>1 DEF IsSum
  <2> QED
    BY <2>2
<1>2. ASSUME NEW k \in S PROVE k + 1 \in S
  <2>1. PICK f : IsSum(f, w, k)
    OBVIOUS
  <2>2. PICK e : e = f[k] + w[k + 1]
    OBVIOUS
  <2>3. PICK g : g = [i \in 0..(k + 1) |-> IF i = k + 1 THEN e ELSE f[i]]
    OBVIOUS
  <2>4. ASSUME NEW i \in 0..(k + 1)
        PROVE  g[i] = IF i = 0 THEN 0 ELSE g[i - 1] + w[i]
    <3>1. CASE i = k + 1
      <4>1. g[i] = e /\ g[i - 1] = f[k] /\ i # 0
        BY <2>3, <3>1
      <4> QED
        BY <2>2, <3>1, <4>1
    <3>2. CASE i # k + 1
      <4>1. i \in 0..k /\ g[i] = f[i]
        BY <2>3, <3>2
      <4>2. f[i] = IF i = 0 THEN 0 ELSE f[i - 1] + w[i]
        BY <2>1, <4>1 DEF IsSum
      <4>3. i # 0 => g[i - 1] = f[i - 1]
        BY <2>3, <4>1
      <4> QED
        BY <4>1, <4>2, <4>3
    <3> QED
      BY <3>1, <3>2
  <2>5. IsSum(g, w, k + 1)
    BY <2>3, <2>4 DEF IsSum
  <2> QED
    BY <2>5
<1>3. S \in SUBSET Nat
  OBVIOUS
<1> HIDE DEF S
<1>4. S = Nat
  BY <1>1, <1>2, <1>3, Induct
<1> QED
  BY <1>4 DEF S

(* ... and any two agree where both are defined.                            *)
LEMMA SumUnique ==
  ASSUME NEW w, NEW m \in Nat, NEW n \in Nat, NEW f, NEW g,
         IsSum(f, w, m), IsSum(g, w, n), m <= n
  PROVE  \A i \in 0..m : f[i] = g[i]
<1> DEFINE S == {k \in Nat : k <= m => f[k] = g[k]}
<1>0. /\ \A i \in 0..m : f[i] = IF i = 0 THEN 0 ELSE f[i - 1] + w[i]
      /\ \A i \in 0..n : g[i] = IF i = 0 THEN 0 ELSE g[i - 1] + w[i]
  BY DEF IsSum
<1>1. 0 \in S
  BY <1>0
<1>2. ASSUME NEW k \in S PROVE k + 1 \in S
  <2>1. CASE k + 1 <= m
    <3>1. k + 1 \in 0..m /\ k + 1 \in 0..n /\ (k + 1) - 1 = k /\ f[k] = g[k]
      BY <2>1
    <3>2. f[k + 1] = f[k] + w[k + 1] /\ g[k + 1] = g[k] + w[k + 1]
      BY <1>0, <3>1
    <3> QED
      BY <3>1, <3>2
  <2> QED
    BY <2>1
<1>3. S \in SUBSET Nat
  OBVIOUS
<1> HIDE DEF S
<1>4. S = Nat
  BY <1>1, <1>2, <1>3, Induct
<1> QED
  BY <1>4 DEF S

(* What SumTo() computes.                                                   *)
LEMMA SumFacts ==
  /\ \A w : SumTo(w, 0) = 0
  /\ \A w : \A n \in Nat : SumTo(w, n + 1) = SumTo(w, n) + w[n + 1]
<1>1. ASSUME NEW w, NEW n \in Nat
      PROVE  \E f : IsSum(f, w, n) /\ SumTo(w, n) = f[n]
  <2>1. PICK f : f = CHOOSE g : IsSum(g, w, n)
    OBVIOUS
  <2>2. IsSum(f, w, n)
    BY <2>1, SumExists
  <2>3. SumTo(w, n) = f[n]
    BY <2>1 DEF SumTo, IsSum
  <2> QED
    BY <2>2, <2>3
<1>2. ASSUME NEW w PROVE SumTo(w, 0) = 0
  BY <1>1 DEF IsSum
<1>3. ASSUME NEW w, NEW n \in Nat
      PROVE  SumTo(w, n + 1) = SumTo(w, n) + w[n + 1]
  <2>1. PICK f : IsSum(f, w, n) /\ SumTo(w, n) = f[n]
    BY <1>1
  <2>2. PICK g : IsSum(g, w, n + 1) /\ SumTo(w, n + 1) = g[n + 1]
    BY <1>1
  <2>3. f[n] = g[n]
    BY <2>1, <2>2, SumUnique
  <2>4. g[n + 1] = g[n] + w[n + 1]
    <3>1. n + 1 \in 0..(n + 1) /\ n + 1 # 0 /\ (n + 1) - 1 = n
      OBVIOUS
    <3> QED
      BY <2>2, <3>1 DEF IsSum
  <2> QED
    BY <2>1, <2>2, <2>3, <2>4
<1> QED
  BY <1>2, <1>3

(* Sums of naturals are naturals.                                           *)
LEMMA SumNat ==
  ASSUME NEW w, NEW n \in Nat, \A i \in 1..n : w[i] \in Nat
  PROVE  \A k \in 0..n : SumTo(w, k) \in Nat
<1> DEFINE S == {k \in Nat : k <= n => SumTo(w, k) \in Nat}
<1>1. 0 \in S
  BY SumFacts
<1>2. ASSUME NEW k \in S PROVE k + 1 \in S
  <2>1. SumTo(w, k + 1) = SumTo(w, k) + w[k + 1]
    BY SumFacts
  <2> QED
    BY <2>1
<1>3. S \in SUBSET Nat
  OBVIOUS
<1> HIDE DEF S
<1>4. S = Nat
  BY <1>1, <1>2, <1>3, Induct
<1> QED
  BY <1>4 DEF S

(* Without its first j terms, a sum is less by their sum.                   *)
LEMMA SumShift ==
  ASSUME NEW v, NEW w, NEW j \in Nat, NEW n \in Nat,
         \A i \in 1..(j + n) : w[i] \in Nat,
         \A i \in 1..n : v[i] = w[j + i]
  PROVE  SumTo(v, n) + SumTo(w, j) = SumTo(w, j + n)
<1> DEFINE S == {k \in Nat : k <= n => SumTo(v, k) + SumTo(w, j) = SumTo(w, j + k)}
<1>0. /\ \A k \in 0..(j + n) : SumTo(w, k) \in Nat
      /\ \A k \in 0..n : SumTo(v, k) \in Nat
  <2>1. j + n \in Nat /\ \A i \in 1..n : v[i] \in Nat
    OBVIOUS
  <2> QED
    BY <2>1, SumNat
<1>1. 0 \in S
  <2>1. SumTo(v, 0) = 0 /\ SumTo(w, j) \in Nat /\ j + 0 = j
    BY <1>0, SumFacts
  <2> QED
    BY <2>1
<1>2. ASSUME NEW k \in S, k + 1 <= n
      PROVE  SumTo(v, k + 1) + SumTo(w, j) = SumTo(w, j + (k + 1))
  <2>1. k \in Nat /\ SumTo(v, k) + SumTo(w, j) = SumTo(w, j + k)
    BY <1>2
  <2>2. SumTo(v, k + 1) = SumTo(v, k) + v[k + 1]
    BY <2>1, SumFacts
  <2>3. SumTo(w, (j + k) + 1) = SumTo(w, j + k) + w[(j + k) + 1]
    <3>1. j + k \in Nat
      BY <2>1
    <3> QED
      BY <3>1, SumFacts
  <2>4. (j + k) + 1 = j + (k + 1) /\ k + 1 \in 1..n
    BY <1>2, <2>1
  <2>5. v[k + 1] = w[j + (k + 1)] /\ v[k + 1] \in Nat
    <3>1. j + (k + 1) \in 1..(j + n)
      BY <2>1, <2>4
    <3> QED
      BY <2>4, <3>1
  <2>6. SumTo(v, k) \in Nat /\ SumTo(w, j) \in Nat
    BY <1>0, <1>2, <2>1
  <2> QED
    BY <2>1, <2>2, <2>3, <2>4, <2>5, <2>6
<1>3. \A k \in S : k + 1 \in S
  BY <1>2
<1>4. S \in SUBSET Nat
  OBVIOUS
<1> HIDE DEF S
<1>5. S = Nat
  BY <1>1, <1>3, <1>4, Induct
<1> QED
  BY <1>5 DEF S

(* A sum changes by as much as one of its terms.                            *)
LEMMA SumEdit ==
  ASSUME NEW v, NEW w, NEW n \in Nat, NEW j \in 1..n,
         \A i \in 1..n : v[i] \in Nat /\ w[i] \in Nat,
         \A i \in 1..n : i # j => v[i] = w[i]
  PROVE  SumTo(v, n) + w[j] = SumTo(w, n) + v[j]
<1> DEFINE S == {k \in Nat : k <= n =>
                   IF k < j THEN SumTo(v, k) = SumTo(w, k)
                            ELSE SumTo(v, k) + w[j] = SumTo(w, k) + v[j]}
<1>0. \A k \in 0..n : SumTo(v, k) \in Nat /\ SumTo(w, k) \in Nat
  BY SumNat
<1>1. 0 \in S
  BY SumFacts
<1>2. ASSUME NEW k \in S, k + 1 <= n
      PROVE  k + 1 \in S
  <2>1. k \in Nat /\ k + 1 \in 1..n /\ k \in 0..n
    BY <1>2
  <2>2. /\ SumTo(v, k + 1) = SumTo(v, k) + v[k + 1]
        /\ SumTo(w, k + 1) = SumTo(w, k) + w[k + 1]
    BY <2>1, SumFacts
  <2>3. /\ SumTo(v, k) \in Nat /\ SumTo(w, k) \in Nat
        /\ v[k + 1] \in Nat /\ w[k + 1] \in Nat /\ v[j] \in Nat /\ w[j] \in Nat
    BY <1>0, <2>1
  <2>4. CASE k + 1 < j
    BY <1>2, <2>1, <2>2, <2>4
  <2>5. CASE k + 1 = j
    BY <1>2, <2>1, <2>2, <2>3, <2>5
  <2>6. CASE k + 1 > j
    <3>1. v[k + 1] = w[k + 1] /\ SumTo(v, k) + w[j] = SumTo(w, k) + v[j]
      BY <1>2, <2>1, <2>6
    <3> QED
      BY <2>1, <2>2, <2>3, <2>6, <3>1
  <2> QED
    BY <2>1, <2>4, <2>5, <2>6
<1>3. \A k \in S : k + 1 \in S
  BY <1>2
<1>4. S \in SUBSET Nat
  OBVIOUS
<1> HIDE DEF S
<1>5. S = Nat
  BY <1>1, <1>3, <1>4, Induct
<1> QED
  BY <1>5 DEF S

(* The sums after a push and after a pop.                                   *)
LEMMA SumPush ==
  ASSUME NEW v, NEW w, NEW j \in Nat, NEW n \in Nat, NEW e \in Nat,
         \A i \in 1..(j + n) : w[i] \in Nat,
         \A i \in 1..n : v[i] = w[j + i], v[n + 1] = e
  PROVE  SumTo(v, n + 1) + SumTo(w, j) = SumTo(w, j + n) + e
<1>2. SumTo(v, n) + SumTo(w, j) = SumTo(w, j + n)
  BY SumShift
<1>3. SumTo(v, n + 1) = SumTo(v, n) + e
  BY SumFacts
<1>4. SumTo(v, n) \in Nat
  <2>1. \A i \in 1..n : v[i] \in Nat
    OBVIOUS
  <2>2. \A k \in 0..n : SumTo(v, k) \in Nat
    BY <2>1, SumNat
  <2> QED
    BY <2>2
<1>5. SumTo(w, j) \in Nat
  <2>1. \A i \in 1..j : w[i] \in Nat
    OBVIOUS
  <2>2. \A k \in 0..j : SumTo(w, k) \in Nat
    BY <2>1, SumNat
  <2> QED
    BY <2>2
<1> QED
  BY <1>2, <1>3, <1>4, <1>5

(* Leaving out the first takes it off the sum.                              *)
LEMMA SumPop ==
  ASSUME NEW v, NEW w, NEW n \in Nat, \A i \in 1..(1 + n) : w[i] \in Nat,
         \A i \in 1..n : v[i] = w[1 + i]
  PROVE  SumTo(v, n) + w[1] = SumTo(w, 1 + n)
<1>2. SumTo(v, n) + SumTo(w, 1) = SumTo(w, 1 + n)
  BY SumShift
<1>3. SumTo(w, 0) = 0 /\ SumTo(w, 0 + 1) = SumTo(w, 0) + w[0 + 1]
  BY SumFacts
<1> QED
  BY <1>2, <1>3

(* Nothing adds up to nothing.                                              *)
LEMMA SumZero ==
  ASSUME NEW w, NEW n \in Nat, \A i \in 1..n : w[i] = 0
  PROVE  SumTo(w, n) = 0
<1> DEFINE S == {k \in Nat : k <= n => SumTo(w, k) = 0}
<1>1. 0 \in S
  BY SumFacts
<1>2. ASSUME NEW k \in S PROVE k + 1 \in S
  <2>1. SumTo(w, k + 1) = SumTo(w, k) + w[k + 1]
    BY SumFacts
  <2> QED
    BY <2>1
<1>3. S \in SUBSET Nat
  OBVIOUS
<1> HIDE DEF S
<1>4. S = Nat
  BY <1>1, <1>2, <1>3, Induct
<1> QED
  BY <1>4 DEF S

-----------------------------------------------------------------------------
Datagram == [size : Nat, life : Nat]

(* The sizes in a queue are naturals.                                       *)
LEMMA SizeFacts ==
  ASSUME NEW q \in Seq(Datagram)
  PROVE  Len(q) \in Nat /\ \A i \in 1..Len(q) : q[i].size \in Nat
<1>1. \A i \in 1..Len(q) : q[i] \in Datagram
  BY ElementOfSeq
<1> QED
  BY <1>1 DEF Datagram

(* So are their sums.                                                       *)
LEMMA TotalFacts ==
  ASSUME NEW q \in Seq(Datagram)
  PROVE  /\ \A k \in 0..Len(q) : Total(q, k) \in Nat
         /\ Total(q, 0) = 0
<1> DEFINE w == [i \in 1..Len(q) |-> q[i].size]
<1>1. Len(q) \in Nat /\ \A i \in 1..Len(q) : w[i] \in Nat
  BY SizeFacts
<1> HIDE DEF w
<1>2. (\A k \in 0..Len(q) : SumTo(w, k) \in Nat) /\ SumTo(w, 0) = 0
  BY <1>1, SumNat, SumFacts
<1> QED
  BY <1>2 DEF Total, w

(* What push() leaves in a queue: the sum is exact whatever it threw away.  *)
LEMMA TotalPush ==
  ASSUME NEW q \in Seq(Datagram), NEW j \in 0..Len(q), NEW x \in Datagram,
         NEW r, r = Append(SubSeq(q, j + 1, Len(q)), x)
  PROVE  /\ r \in Seq(Datagram) /\ Len(r) = Len(q) - j + 1
         /\ Total(r, Len(r)) + Total(q, j) = Total(q, Len(q)) + x.size
<1> DEFINE p == SubSeq(q, j + 1, Len(q))
           n == Len(q) - j
           w == [i \in 1..Len(q) |-> q[i].size]
           v == [i \in 1..Len(r) |-> r[i].size]
<1>0. Len(q) \in Nat /\ j \in Nat /\ n \in Nat /\ j <= Len(q)
  OBVIOUS
<1>1. p \in Seq(Datagram) /\ Len(p) = n /\ \A i \in 1..n : p[i] = q[j + i]
  <2>1. j + 1 \in 1..(Len(q) + 1) /\ Len(q) \in j..Len(q)
    BY <1>0
  <2>2. /\ p \in Seq(Datagram)
        /\ Len(p) = IF j + 1 <= Len(q) THEN Len(q) - (j + 1) + 1 ELSE 0
        /\ \A i \in 1..(Len(q) - (j + 1) + 1) : p[i] = q[(j + 1) + i - 1]
    BY <1>0, <2>1, SubSeqProperties
  <2> QED
    BY <1>0, <2>2, SMTT(30)
<1> HIDE DEF p
<1>2. /\ r \in Seq(Datagram) /\ Len(r) = n + 1
      /\ \A i \in 1..n : r[i] = p[i]
      /\ r[n + 1] = x
  BY <1>0, <1>1 DEF p
<1>3. /\ \A i \in 1..(j + n) : w[i] \in Nat
      /\ \A i \in 1..n : v[i] = w[j + i]
      /\ v[n + 1] = x.size /\ x.size \in Nat /\ j + n = Len(q)
  <2>1. j + n = Len(q) /\ \A i \in 1..n : j + i \in 1..Len(q)
    BY <1>0
  <2>2. \A i \in 1..Len(q) : q[i].size \in Nat
    BY SizeFacts
  <2>3. x.size \in Nat
    BY DEF Datagram
  <2>4. \A i \in 1..n : i \in 1..Len(r) /\ v[i] = q[j + i].size
    BY <1>0, <1>1, <1>2, SMTT(30)
  <2>5. n + 1 \in 1..Len(r) /\ v[n + 1] = x.size
    BY <1>0, <1>2
  <2> QED
    BY <2>1, <2>2, <2>3, <2>4, <2>5
<1>t. Total(q, Len(q)) = SumTo(w, j + n) /\ Total(q, j) = SumTo(w, j)
      /\ Total(r, Len(r)) = SumTo(v, n + 1)
  BY <1>2, <1>3 DEF Total
<1>n. n \in 0..n /\ Len(q) - j = n
  BY <1>0
<1> HIDE DEF w, v, n
<1>4. SumTo(v, n + 1) + SumTo(w, j) = SumTo(w, j + n) + x.size
  BY ONLY <1>0, <1>3, SumPush
<1> QED
  BY <1>2, <1>4, <1>t, <1>n

(* ... and what pop() leaves.                                               *)
LEMMA TotalTail ==
  ASSUME NEW q \in Seq(Datagram), q # <<>>
  PROVE  /\ Tail(q) \in Seq(Datagram) /\ Len(Tail(q)) = Len(q) - 1
         /\ Len(q) \in Nat \ {0} /\ Head(q).size \in Nat
         /\ Total(Tail(q), Len(Tail(q))) + Head(q).size = Total(q, Len(q))
<1> DEFINE p == Tail(q)
           n == Len(p)
           w == [i \in 1..Len(q) |-> q[i].size]
           v == [i \in 1..n |-> p[i].size]
<1>1. /\ p \in Seq(Datagram) /\ Len(p) = Len(q) - 1 /\ Head(q) = q[1]
      /\ \A i \in 1..n : p[i] = q[i + 1]
  BY HeadTailProperties
<1>2. Len(q) \in Nat \ {0} /\ n \in Nat /\ 1 + n = Len(q)
  BY <1>1, EmptySeq
<1>3. /\ \A i \in 1..(1 + n) : w[i] \in Nat
      /\ \A i \in 1..n : v[i] = w[1 + i]
      /\ w[1] = Head(q).size /\ Head(q).size \in Nat
  <2>1. \A i \in 1..Len(q) : q[i].size \in Nat
    BY SizeFacts
  <2>2. 1 \in 1..Len(q) /\ \A i \in 1..n : 1 + i \in 1..Len(q) /\ 1 + i = i + 1
    BY <1>2
  <2> QED
    BY <1>1, <1>2, <2>1, <2>2
<1>t. Total(q, Len(q)) = SumTo(w, 1 + n) /\ Total(p, Len(p)) = SumTo(v, n)
  BY <1>2 DEF Total
<1>p. Tail(q) = p
  OBVIOUS
<1> HIDE DEF w, v, n, p
<1>4. SumTo(v, n) + w[1] = SumTo(w, 1 + n)
  BY <1>2, <1>3, SumPop
<1> QED
  BY <1>1, <1>2, <1>3, <1>4, <1>t, <1>p

(* The first of some rows is one of them, and there is no other first.      *)
LEMMA LeastFacts ==
  ASSUME NEW S \in SUBSET Nat
  PROVE  /\ Least(S) \subseteq S
         /\ \A i, j \in Least(S) : i = j
         /\ S # {} => Least(S) # {}
<1>1. Least(S) \subseteq S
  BY DEF Least
<1>2. ASSUME NEW i \in Least(S), NEW j \in Least(S) PROVE i = j
  <2>1. i \in Nat /\ j \in Nat /\ i <= j /\ j <= i
    BY <1>1 DEF Least
  <2> QED
    BY <2>1
<1>3. ASSUME S # {} PROVE Least(S) # {}
  <2> DEFINE R == OpToRel(<, Nat)
  <2>1. IsWellFoundedOn(R, Nat)
    BY NatLessThanWellFounded
  <2>2. \A x, y \in Nat : <<y, x>> \in R <=> y < x
    BY DEF OpToRel
  <2> HIDE DEF R
  <2>3. PICK x \in S : \A y \in S : ~ (<<y, x>> \in R)
    BY <1>3, <2>1, WFMin
  <2>4. \A y \in S : x <= y
    <3>1. \A y \in S : y \in Nat /\ x \in Nat /\ ~(y < x)
      BY <2>2, <2>3
    <3> QED
      BY <3>1
  <2> QED
    BY <2>3, <2>4 DEF Least
<1> QED
  BY <1>1, <1>2, <1>3

(* push() stops throwing away at the first datagram that may stay.          *)
LEMMA ThrownFacts ==
  ASSUME NEW r, NEW d, NEW size, r.queue[d] \in Seq(Datagram)
  PROVE  /\ Thrown(r, d, size) \in 0..Len(r.queue[d])
         /\ ~OverBudget(r, d, Thrown(r, d, size), size)
<1> DEFINE n == Len(r.queue[d])
           S == {k \in 0..n : ~OverBudget(r, d, k, size)}
<1>1. n \in Nat
  OBVIOUS
<1> HIDE DEF n
<1>2. n \in S
  BY <1>1 DEF OverBudget, n
<1>3. S \in SUBSET Nat /\ S # {}
  BY <1>1, <1>2
<1>4. \E k \in 0..n : /\ ~OverBudget(r, d, k, size)
                      /\ \A j \in 0..(k - 1) : OverBudget(r, d, j, size)
  <2>1. PICK k \in Least(S) : TRUE
    BY <1>3, LeastFacts
  <2>2. k \in S /\ \A j \in S : k <= j
    BY <2>1 DEF Least
  <2>3. ASSUME NEW j \in 0..(k - 1) PROVE OverBudget(r, d, j, size)
    BY <1>1, <2>2, <2>3
  <2> QED
    BY <2>2, <2>3
<1>5. Thrown(r, d, size) = CHOOSE k \in 0..n :
                             /\ ~OverBudget(r, d, k, size)
                             /\ \A j \in 0..(k - 1) : OverBudget(r, d, j, size)
  BY DEF Thrown, n
<1>6. Thrown(r, d, size) \in 0..n /\ ~OverBudget(r, d, Thrown(r, d, size), size)
  BY <1>4, <1>5
<1> QED
  BY <1>6 DEF n

-----------------------------------------------------------------------------
(* The rows of the table.                                                   *)
Queues  == [Directions -> Seq(Datagram)]
Bytes   == [Directions -> Nat]
SockRow == [used : BOOLEAN, app : Apps \cup {0}, queue : Queues, bytes : Bytes,
            pinned : Nat, last_use : Nat, marks : SUBSET Marks]

QueueOK(q, b) ==
  Len(q) <= MaxDatagrams /\ b <= MaxBytes /\ b = Total(q, Len(q))

RowOK(x) == /\ \A d \in Directions : QueueOK(x.queue[d], x.bytes[d])
            /\ ~x.used => x.queue["tx"] = <<>> /\ x.queue["rx"] = <<>>
            /\ x.used => x.app \in Apps

Held(x)    == Len(x.queue["tx"]) + Len(x.queue["rx"])
SumHeld(r) == SumTo([i \in Index |-> Held(r[i])], SockRows)
UsedIn(r)  == {i \in Index : r[i].used}

(* A socket has one row, and every row keeps to its budgets.                *)
RowsOK(r) ==
  /\ r \in [Index -> SockRow]
  /\ \A i \in Index : RowOK(r[i])
  /\ \A i, j \in Index : r[i].used /\ r[j].used /\ r[i].app = r[j].app => i = j

(* A value has waited out its quarantine, or never was in one.  One that    *)
(* has a row has, and one that has not is still on the list.                *)
Waited(n, ra, a) == ra[a] = -1 \/ n >= ra[a] + KeyQuarantine

KeysOK(r, n, rt, ra) ==
  /\ \A i \in Index : r[i].used => Waited(n, ra, r[i].app)
  /\ \A a \in Apps : ~Waited(n, ra, a) =>
       \E k \in rt : k.app = a /\ k.reusable_at = ra[a] + KeyQuarantine

(* What a row holds is the length of both its queues.                       *)
LEMMA HeldIs ==
  ASSUME NEW x, NEW m, NEW n, Len(x.queue["tx"]) = m, Len(x.queue["rx"]) = n
  PROVE  Held(x) = m + n
BY Zenon DEF Held

(* A row holds a natural number of datagrams, and none when empty.          *)
LEMMA HeldNat ==
  ASSUME NEW x \in SockRow
  PROVE  /\ Held(x) \in Nat
         /\ x.queue["tx"] = <<>> /\ x.queue["rx"] = <<>> => Held(x) = 0
<1>1. x.queue["tx"] \in Seq(Datagram) /\ x.queue["rx"] \in Seq(Datagram)
  BY DEF SockRow, Queues, Directions
<1>2. Len(x.queue["tx"]) \in Nat /\ Len(x.queue["rx"]) \in Nat /\ Len(<<>>) = 0
  BY <1>1, EmptySeq
<1>3. ASSUME x.queue["tx"] = <<>>, x.queue["rx"] = <<>>
      PROVE  Len(x.queue["tx"]) = 0 /\ Len(x.queue["rx"]) = 0
  BY ONLY <1>2, <1>3, Zenon
<1>4. Held(x) \in Nat
  <2>1. PICK m \in Nat : Len(x.queue["tx"]) = m
    BY <1>2
  <2>2. PICK n \in Nat : Len(x.queue["rx"]) = n
    BY <1>2
  <2>3. Held(x) = m + n
    BY <2>1, <2>2, HeldIs
  <2> QED
    BY <2>3
<1>5. ASSUME x.queue["tx"] = <<>>, x.queue["rx"] = <<>>
      PROVE  Held(x) = 0
  <2>1. Len(x.queue["tx"]) = 0 /\ Len(x.queue["rx"]) = 0
    BY <1>3, <1>5
  <2> QED
    BY ONLY <2>1 DEF Held
<1> QED
  BY <1>4, <1>5

(* A row that was just reset is in order and holds nothing.                 *)
LEMMA FreshOK ==
  ASSUME NEW app \in Apps \cup {0}, NEW used \in BOOLEAN, NEW tick \in Nat,
         used => app \in Apps
  PROVE  /\ Fresh(app, used, tick) \in SockRow /\ RowOK(Fresh(app, used, tick))
         /\ Held(Fresh(app, used, tick)) = 0
         /\ Fresh(app, used, tick).used = used /\ Fresh(app, used, tick).app = app
<1>1. <<>> \in Seq(Datagram) /\ Len(<<>>) = 0
  BY EmptySeq
<1>2. [d \in Directions |-> <<>>] \in Queues /\ [d \in Directions |-> 0] \in Bytes
  BY <1>1 DEF Queues, Bytes
<1>3. Fresh(app, used, tick) \in SockRow
  BY <1>2 DEF Fresh, SockRow
<1>4. Total(<<>>, Len(<<>>)) = 0
  BY <1>1, TotalFacts
<1>5. QueueOK(<<>>, 0)
  BY <1>1, <1>4, SocketsAssumption DEF QueueOK
<1>6. /\ \A d \in Directions : /\ Fresh(app, used, tick).queue[d] = <<>>
                               /\ Fresh(app, used, tick).bytes[d] = 0
      /\ Fresh(app, used, tick).used = used /\ Fresh(app, used, tick).app = app
      /\ "tx" \in Directions /\ "rx" \in Directions
  BY DEF Fresh, Directions
<1>7. RowOK(Fresh(app, used, tick))
  BY <1>5, <1>6 DEF RowOK
<1> QED
  BY <1>3, <1>6, <1>7, HeldNat

(* What replacing one row does.                                             *)
Edited(r, i, x, s) == /\ s \in [Index -> SockRow] /\ s[i] = x
                      /\ \A k \in Index \ {i} : s[k] = r[k]

(* Editing one row changes the sum by what the row gained or lost.          *)
LEMMA EditSum ==
  ASSUME NEW r \in [Index -> SockRow], NEW i \in Index, NEW x \in SockRow,
         NEW s, Edited(r, i, x, s)
  PROVE  /\ s \in [Index -> SockRow]
         /\ SumHeld(s) + Held(r[i]) = SumHeld(r) + Held(x)
         /\ SumHeld(r) \in Nat /\ SumHeld(s) \in Nat
<1> DEFINE w == [k \in Index |-> Held(r[k])]
           v == [k \in Index |-> Held(s[k])]
<1>1. s \in [Index -> SockRow] /\ s[i] = x /\ \A k \in Index : k # i => s[k] = r[k]
  BY DEF Edited
<1>2. /\ \A k \in 1..SockRows : v[k] \in Nat /\ w[k] \in Nat
      /\ \A k \in 1..SockRows : k # i => v[k] = w[k]
      /\ i \in 1..SockRows /\ SockRows \in Nat
      /\ w[i] = Held(r[i]) /\ v[i] = Held(x)
  BY <1>1, HeldNat, SocketsAssumption DEF Index
<1>3. SumHeld(r) = SumTo(w, SockRows) /\ SumHeld(s) = SumTo(v, SockRows)
  BY DEF SumHeld
<1> HIDE DEF v, w
<1>4. SumTo(v, SockRows) + w[i] = SumTo(w, SockRows) + v[i]
  BY <1>2, SumEdit
<1>5. SumTo(v, SockRows) \in Nat /\ SumTo(w, SockRows) \in Nat
  <2>1. SockRows \in 0..SockRows
    BY <1>2
  <2> QED
    BY <1>2, <2>1, SumNat
<1> QED
  BY <1>1, <1>2, <1>3, <1>4, <1>5

(* Editing one row keeps the table in order if the row is in order and its  *)
(* socket has no other.                                                     *)
LEMMA EditRows ==
  ASSUME NEW r, RowsOK(r), NEW i \in Index, NEW x \in SockRow, RowOK(x),
         \A j \in Index \ {i} : x.used /\ r[j].used => r[j].app # x.app,
         NEW s, Edited(r, i, x, s)
  PROVE  RowsOK(s)
<1>1. r \in [Index -> SockRow]
  BY DEF RowsOK
<1>2. /\ s \in [Index -> SockRow] /\ s[i] = x
      /\ \A k \in Index \ {i} : s[k] = r[k]
  BY DEF Edited
<1>3. \A k \in Index : RowOK(s[k])
  BY <1>2 DEF RowsOK
<1>4. \A k, j \in Index : s[k].used /\ s[j].used /\ s[k].app = s[j].app => k = j
  BY <1>2 DEF RowsOK
<1> QED
  BY <1>2, <1>3, <1>4 DEF RowsOK

(* The number of rows in use is a natural.                                  *)
LEMMA CountNat ==
  ASSUME NEW r
  PROVE  IsFiniteSet(UsedIn(r)) /\ Cardinality(UsedIn(r)) \in Nat
<1>1. IsFiniteSet(Index)
  BY FS_Interval, SocketsAssumption DEF Index
<1> QED
  BY <1>1, FS_Subset, FS_CardinalityType DEF UsedIn

(* Editing one row changes the number of rows in use by at most one.        *)
LEMMA EditCount ==
  ASSUME NEW r \in [Index -> SockRow], NEW i \in Index, NEW x \in SockRow,
         NEW s, Edited(r, i, x, s)
  PROVE  /\ (x.used <=> r[i].used) => UsedIn(s) = UsedIn(r)
         /\ x.used /\ ~r[i].used =>
              Cardinality(UsedIn(s)) = Cardinality(UsedIn(r)) + 1
         /\ ~x.used /\ r[i].used =>
              Cardinality(UsedIn(s)) = Cardinality(UsedIn(r)) - 1
<1>1. s[i] = x /\ \A k \in Index \ {i} : s[k] = r[k]
  BY DEF Edited
<1>2. IsFiniteSet(UsedIn(r)) /\ Cardinality(UsedIn(r)) \in Nat
  BY CountNat
<1>3. (x.used <=> r[i].used) => UsedIn(s) = UsedIn(r)
  BY <1>1 DEF UsedIn
<1>4. ASSUME x.used, ~r[i].used
      PROVE  Cardinality(UsedIn(s)) = Cardinality(UsedIn(r)) + 1
  <2>1. UsedIn(s) = UsedIn(r) \cup {i} /\ i \notin UsedIn(r)
    BY <1>1, <1>4 DEF UsedIn
  <2> QED
    BY <1>2, <2>1, FS_AddElement
<1>5. ASSUME ~x.used, r[i].used
      PROVE  Cardinality(UsedIn(s)) = Cardinality(UsedIn(r)) - 1
  <2>1. UsedIn(s) = UsedIn(r) \ {i} /\ i \in UsedIn(r)
    BY <1>1, <1>5 DEF UsedIn
  <2> QED
    BY <1>2, <2>1, FS_RemoveElement
<1> QED
  BY <1>2, <1>3, <1>4, <1>5

(* A row that is only touched, pinned or marked.                            *)
SameQueues(x, y) == /\ x.used = y.used /\ x.app = y.app
                 /\ x.queue = y.queue /\ x.bytes = y.bytes

(* Editing what is neither a queue nor a key changes no sum and no count.   *)
LEMMA QuietEdit ==
  ASSUME NEW r, RowsOK(r), NEW i \in Index, NEW x \in SockRow, SameQueues(x, r[i]),
         NEW s, Edited(r, i, x, s)
  PROVE  /\ RowsOK(s) /\ SumHeld(s) = SumHeld(r) /\ UsedIn(s) = UsedIn(r)
         /\ \A n, rt, ra : KeysOK(r, n, rt, ra) => KeysOK(s, n, rt, ra)
         /\ s[i] = x
<1>1. r \in [Index -> SockRow] /\ r[i] \in SockRow /\ RowOK(r[i])
  BY DEF RowsOK
<1>2. RowOK(x) /\ Held(x) = Held(r[i])
  BY <1>1 DEF SameQueues, RowOK, Held
<1>3. RowsOK(s)
  <2>1. \A j \in Index \ {i} : x.used /\ r[j].used => r[j].app # x.app
    BY <1>1 DEF RowsOK, SameQueues
  <2> QED
    BY <1>2, <2>1, EditRows
<1>4. SumHeld(s) = SumHeld(r)
  <2>1. /\ SumHeld(s) + Held(r[i]) = SumHeld(r) + Held(x)
        /\ SumHeld(r) \in Nat /\ SumHeld(s) \in Nat /\ Held(x) \in Nat
    BY <1>1, EditSum, HeldNat
  <2> QED
    BY <1>2, <2>1
<1>5. UsedIn(s) = UsedIn(r)
  <2>1. x.used <=> r[i].used
    BY DEF SameQueues
  <2> QED
    BY <1>1, <2>1, EditCount
<1>6. s[i] = x /\ \A k \in Index : s[k].used = r[k].used /\ s[k].app = r[k].app
  BY <1>1 DEF SameQueues, Edited
<1>7. ASSUME NEW n, NEW rt, NEW ra, KeysOK(r, n, rt, ra) PROVE KeysOK(s, n, rt, ra)
  BY <1>6, <1>7 DEF KeysOK
<1> QED
  BY <1>3, <1>4, <1>5, <1>6, <1>7

(* mutable_row finds the one row of a socket, or says there is none.        *)
LEMMA TrackedFacts ==
  ASSUME RowsOK(rows), NEW app
  PROVE  /\ mutable_row(app) = {} =>
              \A i \in Index : rows[i].used => rows[i].app # app
         /\ mutable_row(app) # {} =>
              \E i \in Index : /\ mutable_row(app) = {i} /\ rows[i].used
                               /\ rows[i].app = app
         /\ \A i \in mutable_row(app) : /\ i \in Index /\ rows[i].used
                                        /\ rows[i].app = app
                                        /\ mutable_row(app) = {i}
<1> DEFINE S == {i \in Used : rows[i].app = app}
<1>1. S \in SUBSET Nat
  BY SocketsAssumption DEF Used, Index
<1>2. /\ Least(S) \subseteq S /\ \A i, j \in Least(S) : i = j
      /\ S # {} => Least(S) # {}
  BY <1>1, LeastFacts
<1>3. mutable_row(app) = Least(S)
  BY DEF mutable_row
<1>4. \A i : i \in S <=> i \in Index /\ rows[i].used /\ rows[i].app = app
  BY DEF Used
<1> HIDE DEF S
<1> QED
  BY <1>2, <1>3, <1>4

(* find_slot_for names at most one row.                                     *)
LEMMA SlotFacts ==
  ASSUME NEW app
  PROVE  /\ \A i \in find_slot_for(app) : i \in Index
         /\ \A i, j \in find_slot_for(app) : i = j
<1> DEFINE free == Index \ Used
           idle == {i \in Index : rows[i].pinned = 0 /\ rows[i].app # app}
           cold == {i \in idle : \A j \in idle : rows[i].last_use <= rows[j].last_use}
<1>1. /\ free \in SUBSET Nat /\ free \subseteq Index
      /\ cold \in SUBSET Nat /\ cold \subseteq Index
  BY SocketsAssumption DEF Index
<1>2. find_slot_for(app) = Least(free) \/ find_slot_for(app) = Least(cold)
  BY DEF find_slot_for
<1> HIDE DEF free, cold
<1>3. /\ Least(free) \subseteq free /\ \A i, j \in Least(free) : i = j
      /\ Least(cold) \subseteq cold /\ \A i, j \in Least(cold) : i = j
  BY <1>1, LeastFacts
<1> QED
  BY <1>1, <1>2, <1>3

(* The parts of the table that open() may change, before and after it.      *)
TableOK(r, ru, n, rt, ra) ==
  /\ RowsOK(r) /\ ru = Cardinality(UsedIn(r))
  /\ n \in Nat /\ KeysOK(r, n, rt, ra)

(* open() returns a table in order, and what it evicts or closes over is in *)
(* the counter.                                                             *)
LEMMA OpenFacts ==
  ASSUME TableOK(rows, rows_used, insertions, retired, retiredAt), clock \in Nat,
         discarded \in Nat, retiredAt \in [Apps -> Nat \cup {-1}],
         NEW app \in Apps, NEW o, o = open(app)
  PROVE  /\ TableOK(o.rows, o.rows_used, o.insertions, o.retired, retiredAt)
         /\ o.discarded \in Nat
         /\ SumHeld(o.rows) + o.discarded = SumHeld(rows) + discarded
         /\ \A i \in o.row : i \in Index /\ o.rows[i].used /\ o.rows[i].app = app
<1>0. RowsOK(rows) /\ rows \in [Index -> SockRow] /\ insertions \in Nat
  BY DEF TableOK, RowsOK
<1>1. CASE mutable_row(app) # {}
  <2>1. PICK i \in Index : mutable_row(app) = {i} /\ rows[i].used /\ rows[i].app = app
    BY <1>0, <1>1, TrackedFacts
  <2>2. PICK x : x = [rows[i] EXCEPT !.last_use = clock]
    OBVIOUS
  <2>3. x \in SockRow /\ SameQueues(x, rows[i])
    <3>1. rows[i] \in SockRow
      BY <1>0
    <3> QED
      BY <2>2, <3>1 DEF SockRow, SameQueues
  <2>4. /\ o.row = {i} /\ o.insertions = insertions /\ o.retired = retired
        /\ o.rows = [k \in Index |-> IF k \in {i} THEN [rows[k] EXCEPT !.last_use = clock]
                                                 ELSE rows[k]]
        /\ o.rows_used = rows_used /\ o.discarded = discarded
    BY <1>1, <2>1 DEF open
  <2>5. Edited(rows, i, x, o.rows)
    BY <1>0, <2>2, <2>3, <2>4 DEF Edited
  <2>6. /\ RowsOK(o.rows) /\ SumHeld(o.rows) = SumHeld(rows)
        /\ UsedIn(o.rows) = UsedIn(rows) /\ o.rows[i] = x
        /\ KeysOK(o.rows, insertions, retired, retiredAt)
    BY <1>0, <2>3, <2>5, QuietEdit DEF TableOK
  <2>7. TableOK(o.rows, o.rows_used, o.insertions, o.retired, retiredAt)
    BY <2>4, <2>6 DEF TableOK
  <2> QED
    BY <2>1, <2>3, <2>4, <2>6, <2>7 DEF SameQueues
<1>2. CASE mutable_row(app) = {}
  <2> DEFINE n    == insertions + 1
             slot == IF is_quarantined(app, n) THEN {} ELSE find_slot_for(app)
             lost == IF \E i \in slot : rows[i].used
                       THEN Queued(CHOOSE i \in slot : TRUE) ELSE 0
  <2>1. /\ o.row = slot /\ o.insertions = n /\ o.retired = Pruned(n)
        /\ o.rows = [i \in Index |-> IF i \in slot THEN Fresh(app, TRUE, clock)
                                                   ELSE rows[i]]
        /\ o.rows_used = rows_used + Cardinality(slot \ Used)
        /\ o.discarded = discarded + lost
    BY <1>2 DEF open
  <2>2. n \in Nat /\ n = insertions + 1
    BY <1>0
  <2>3. ASSUME NEW a \in Apps
        PROVE  /\ retiredAt[a] \in Int /\ KeyQuarantine \in Nat
               /\ Waited(insertions, retiredAt, a) => Waited(n, retiredAt, a)
    BY <1>0, SocketsAssumption DEF Waited
  <2>4. ASSUME NEW a \in Apps, ~Waited(n, retiredAt, a)
        PROVE  \E k \in Pruned(n) : k.app = a /\ k.reusable_at = retiredAt[a] + KeyQuarantine
    <3>1. PICK k \in retired : k.app = a /\ k.reusable_at = retiredAt[a] + KeyQuarantine
      BY <2>3, <2>4 DEF TableOK, KeysOK
    <3>2. n < k.reusable_at
      BY <2>2, <2>3, <2>4, <3>1 DEF Waited
    <3> QED
      BY <3>1, <3>2 DEF Pruned
  <2>5. \A i \in slot : i \in Index /\ slot = {i} /\ ~is_quarantined(app, n)
    BY SlotFacts
  <2> HIDE DEF n
  <2>6. CASE slot = {}
    <3>1. lost = 0 /\ slot \ Used = {} /\ Cardinality({}) = 0
      BY <2>6, FS_EmptySet
    <3> HIDE DEF slot, lost
    <3>2. o.rows = rows
      BY <1>0, <2>1, <2>6
    <3>3. rows_used \in Nat
      BY CountNat DEF TableOK
    <3>4. o.rows_used = rows_used /\ o.discarded = discarded
      BY <2>1, <3>1, <3>3
    <3>5. KeysOK(rows, n, Pruned(n), retiredAt)
      BY <1>0, <2>3, <2>4 DEF TableOK, KeysOK, RowsOK, RowOK
    <3> QED
      BY <1>0, <2>1, <2>2, <2>6, <3>2, <3>4, <3>5 DEF TableOK
  <2>7. CASE slot # {}
    <3>1. PICK i \in slot : TRUE
      BY <2>7
    <3>2. i \in Index /\ slot = {i} /\ ~is_quarantined(app, n)
      BY <2>5, <3>1
    <3>3. lost = IF rows[i].used THEN Held(rows[i]) ELSE 0
      <4>1. (CHOOSE k \in {i} : TRUE) = i
        OBVIOUS
      <4>2. Queued(i) = Held(rows[i])
        BY DEF Queued, Held
      <4> HIDE DEF slot
      <4>3. Queued(CHOOSE k \in slot : TRUE) = Held(rows[i])
        BY <3>2, <4>1, <4>2
      <4> QED
        BY <3>2, <4>3
    <3> HIDE DEF slot, lost
    <3>4. PICK x : x = Fresh(app, TRUE, clock)
      OBVIOUS
    <3>5. x \in SockRow /\ RowOK(x) /\ Held(x) = 0 /\ x.used /\ x.app = app
      BY <3>4, FreshOK
    <3>6. Edited(rows, i, x, o.rows)
      <4>1. o.rows = [k \in Index |-> IF k \in {i} THEN x ELSE rows[k]]
        BY <2>1, <3>2, <3>4
      <4> QED
        BY <1>0, <3>2, <3>5, <4>1 DEF Edited
    <3>7. RowsOK(o.rows)
      <4>1. \A j \in Index : rows[j].used => rows[j].app # x.app
        BY <1>0, <1>2, <3>5, TrackedFacts
      <4> QED
        BY <1>0, <3>2, <3>5, <3>6, <4>1, EditRows
    <3>8. lost = Held(rows[i]) /\ lost \in Nat
      <4>1. rows[i] \in SockRow /\ RowOK(rows[i])
        BY <1>0, <3>2 DEF RowsOK
      <4> QED
        BY <3>3, <4>1, HeldNat DEF RowOK
    <3>9. /\ SumHeld(o.rows) + Held(rows[i]) = SumHeld(rows)
          /\ SumHeld(o.rows) \in Nat /\ SumHeld(rows) \in Nat
      BY <1>0, <3>2, <3>5, <3>6, EditSum
    <3>10. o.rows_used = Cardinality(UsedIn(o.rows))
      <4>1. CASE rows[i].used
        <5>1. slot \ Used = {} /\ Cardinality({}) = 0
          BY <3>2, <4>1, FS_EmptySet DEF Used
        <5>2. UsedIn(o.rows) = UsedIn(rows) /\ Cardinality(UsedIn(rows)) \in Nat
          BY <1>0, <3>2, <3>5, <3>6, <4>1, EditCount, CountNat
        <5> QED
          BY <2>1, <5>1, <5>2 DEF TableOK
      <4>2. CASE ~rows[i].used
        <5>1. slot \ Used = {i} /\ Cardinality({i}) = 1
          BY <3>2, <4>2, FS_Singleton DEF Used
        <5>2. Cardinality(UsedIn(o.rows)) = Cardinality(UsedIn(rows)) + 1
          BY <1>0, <3>2, <3>5, <3>6, <4>2, EditCount
        <5> QED
          BY <2>1, <5>1, <5>2 DEF TableOK
      <4> QED
        BY <4>1, <4>2
    <3>11. Waited(n, retiredAt, app)
      <4>1. \A k \in Pruned(n) : k.app # app
        BY <3>2 DEF is_quarantined
      <4> QED
        BY <2>4, <4>1
    <3>12. /\ o.rows[i] = x
           /\ \A k \in Index \ {i} : o.rows[k] = rows[k]
      BY <3>6 DEF Edited
    <3>13. KeysOK(o.rows, n, Pruned(n), retiredAt)
      <4>1. ASSUME NEW k \in Index, o.rows[k].used
            PROVE  Waited(n, retiredAt, o.rows[k].app)
        <5>1. CASE k = i
          BY <3>5, <3>11, <3>12, <5>1
        <5>2. CASE k # i
          <6>1. o.rows[k] = rows[k] /\ rows[k].used /\ rows[k].app \in Apps
            BY <1>0, <3>12, <4>1, <5>2 DEF RowsOK, RowOK
          <6> QED
            BY <2>3, <6>1 DEF TableOK, KeysOK
        <5> QED
          BY <5>1, <5>2
      <4> QED
        BY <2>4, <4>1 DEF KeysOK
    <3>14. TableOK(o.rows, o.rows_used, o.insertions, o.retired, retiredAt)
      BY <2>1, <2>2, <3>7, <3>10, <3>13 DEF TableOK
    <3>15. o.discarded \in Nat /\ SumHeld(o.rows) + o.discarded = SumHeld(rows) + discarded
      BY <2>1, <3>8, <3>9
    <3>16. \A k \in o.row : k \in Index /\ o.rows[k].used /\ o.rows[k].app = app
      <4>1. o.row = {i}
        BY <2>1, <3>2
      <4> QED
        BY <3>2, <3>5, <3>12, <4>1
    <3> QED
      BY <3>14, <3>15, <3>16
  <2> QED
    BY <2>6, <2>7
<1> QED
  BY <1>1, <1>2

-----------------------------------------------------------------------------
(* What push() and pop() make of one row.                                   *)
PushedRow(r, d, x, lost, y) ==
  y = [r EXCEPT !.queue[d] = Append(SubSeq(r.queue[d], lost + 1, Len(r.queue[d])), x),
                !.bytes[d] = @ - Total(r.queue[d], lost) + x.size]

PoppedRow(r, d, tick, y) ==
  y = [r EXCEPT !.last_use = tick, !.queue[d] = Tail(@),
                !.bytes[d] = @ - Head(r.queue[d]).size]

(* A push makes room first: the budgets hold, and what was thrown out is    *)
(* counted.                                                                 *)
LEMMA PushRow ==
  ASSUME NEW r \in SockRow, RowOK(r), r.used, NEW d \in Directions,
         NEW x \in Datagram, x.size <= MaxBytes, NEW lost,
         lost = Thrown(r, d, x.size), NEW y, PushedRow(r, d, x, lost, y)
  PROVE  /\ y \in SockRow /\ RowOK(y) /\ lost \in Nat
         /\ y.used = r.used /\ y.app = r.app
         /\ Held(y) + lost = Held(r) + 1
<1> DEFINE q == r.queue[d]
           b == r.bytes[d]
           p == Append(SubSeq(q, lost + 1, Len(q)), x)
           c == b - Total(q, lost) + x.size
<1>1. q \in Seq(Datagram) /\ b \in Nat /\ QueueOK(q, b)
  BY DEF SockRow, Queues, Bytes, RowOK
<1>2. lost \in 0..Len(q) /\ ~OverBudget(r, d, lost, x.size)
  BY <1>1, ThrownFacts
<1>3. Len(q) \in Nat /\ lost \in Nat /\ lost <= Len(q) /\ x.size \in Nat
  BY <1>1, <1>2 DEF Datagram
<1>4. /\ p \in Seq(Datagram) /\ Len(p) = Len(q) - lost + 1
      /\ Total(p, Len(p)) + Total(q, lost) = Total(q, Len(q)) + x.size
  BY <1>1, <1>2, TotalPush
<1>5. /\ Total(q, lost) \in Nat /\ Total(q, Len(q)) \in Nat
      /\ Total(p, Len(p)) \in Nat
  <2>1. Len(p) \in 0..Len(p) /\ Len(q) \in 0..Len(q)
    BY <1>3, <1>4
  <2> QED
    BY <1>1, <1>2, <1>4, <2>1, TotalFacts
<1>6. b = Total(q, Len(q))
  BY <1>1 DEF QueueOK
<1>7. c = Total(p, Len(p)) /\ c \in Nat
  <2>1. PICK u \in Nat : u = Total(q, lost)
    BY <1>5
  <2>2. PICK v \in Nat : v = Total(q, Len(q))
    BY <1>5
  <2>3. PICK w \in Nat : w = Total(p, Len(p))
    BY <1>5
  <2>z. PICK z \in Nat : z = x.size
    BY <1>3
  <2>4. w + u = v + z
    BY <1>4, <2>1, <2>2, <2>3, <2>z
  <2>5. c = v - u + z
    BY <1>6, <2>1, <2>2, <2>z
  <2>6. v - u + z = w
    BY ONLY <2>4, u \in Nat, v \in Nat, w \in Nat, z \in Nat
  <2> QED
    BY <2>3, <2>5, <2>6
<1>8. Len(p) <= MaxDatagrams /\ c <= MaxBytes
  <2>0. MaxDatagrams \in Nat \ {0} /\ MaxBytes \in Nat
    BY SocketsAssumption
  <2>1. CASE lost < Len(q)
    <3>1. ~(Len(q) - lost + 1 > MaxDatagrams) /\ ~(c > MaxBytes)
      BY <1>2, <2>1 DEF OverBudget
    <3>2. PICK n \in Nat : n = Len(q)
      BY <1>3
    <3>3. n - lost + 1 <= MaxDatagrams
      BY <1>3, <2>0, <3>1, <3>2
    <3>4. c <= MaxBytes
      BY ONLY <1>7, <2>0, <3>1
    <3> QED
      BY <1>4, <3>2, <3>3, <3>4
  <2>2. CASE lost = Len(q)
    <3>1. Len(p) = 1 /\ c = x.size
      BY <1>3, <1>4, <1>5, <1>6, <2>2
    <3>2. x.size <= MaxBytes /\ 1 <= MaxDatagrams
      BY <2>0
    <3> QED
      BY ONLY <3>1, <3>2
  <2> QED
    BY <1>3, <2>1, <2>2
<1>9. QueueOK(p, c)
  BY <1>7, <1>8 DEF QueueOK
<1>y. y = [r EXCEPT !.queue[d] = p, !.bytes[d] = c]
  BY DEF PushedRow
<1> HIDE DEF p, c
<1>10. PICK qs : qs = [r.queue EXCEPT ![d] = p]
  OBVIOUS
<1>11. PICK bs : bs = [r.bytes EXCEPT ![d] = c]
  OBVIOUS
<1>12. y = [r EXCEPT !.queue = qs, !.bytes = bs]
  BY <1>y, <1>10, <1>11 DEF SockRow
<1>13. /\ qs \in Queues /\ bs \in Bytes /\ qs[d] = p /\ bs[d] = c
       /\ \A e \in Directions \ {d} : qs[e] = r.queue[e] /\ bs[e] = r.bytes[e]
  BY <1>4, <1>7, <1>10, <1>11 DEF SockRow, Queues, Bytes
<1>14. /\ y \in SockRow /\ y.queue = qs /\ y.bytes = bs
       /\ y.used = r.used /\ y.app = r.app
  BY ONLY <1>12, <1>13, r \in SockRow DEF SockRow
<1>15. RowOK(y)
  <2>1. \A e \in Directions : QueueOK(y.queue[e], y.bytes[e])
    BY <1>9, <1>13, <1>14 DEF RowOK
  <2> QED
    BY <1>14, <2>1 DEF RowOK
<1>16. Held(y) + lost = Held(r) + 1
  <2>1. /\ Len(r.queue["tx"]) \in Nat /\ Len(r.queue["rx"]) \in Nat
        /\ Directions = {"tx", "rx"}
    BY DEF SockRow, Queues, Directions
  <2>m. PICK m \in Nat : Len(r.queue["tx"]) = m
    BY <2>1
  <2>n. PICK n \in Nat : Len(r.queue["rx"]) = n
    BY <2>1
  <2>h. Held(r) = m + n
    BY <2>m, <2>n, HeldIs
  <2>2. CASE d = "tx"
    <3>1. /\ Len(y.queue["tx"]) = Len(r.queue["tx"]) - lost + 1
          /\ y.queue["rx"] = r.queue["rx"]
      BY <1>4, <1>13, <1>14, <2>1, <2>2
    <3>2. Len(y.queue["tx"]) = m - lost + 1 /\ Len(y.queue["rx"]) = n
      BY <2>m, <2>n, <3>1
    <3>3. Held(y) = (m - lost + 1) + n
      BY ONLY <3>2, HeldIs
    <3> QED
      BY ONLY <1>3, <2>h, <3>3, m \in Nat, n \in Nat
  <2>3. CASE d = "rx"
    <3>1. /\ Len(y.queue["rx"]) = Len(r.queue["rx"]) - lost + 1
          /\ y.queue["tx"] = r.queue["tx"]
      BY <1>4, <1>13, <1>14, <2>1, <2>3
    <3>2. Len(y.queue["tx"]) = m /\ Len(y.queue["rx"]) = n - lost + 1
      BY <2>m, <2>n, <3>1
    <3>3. Held(y) = m + (n - lost + 1)
      BY ONLY <3>2, HeldIs
    <3> QED
      BY ONLY <1>3, <2>h, <3>3, m \in Nat, n \in Nat
  <2> QED
    BY <2>1, <2>2, <2>3
<1> QED
  BY <1>3, <1>14, <1>15, <1>16

(* A pop takes one datagram and its bytes.                                  *)
LEMMA PopRow ==
  ASSUME NEW r \in SockRow, RowOK(r), r.used, NEW d \in Directions,
         r.queue[d] # <<>>, NEW tick \in Nat, NEW y, PoppedRow(r, d, tick, y)
  PROVE  /\ y \in SockRow /\ RowOK(y)
         /\ y.used = r.used /\ y.app = r.app
         /\ Held(y) + 1 = Held(r)
<1> DEFINE q == r.queue[d]
           b == r.bytes[d]
           p == Tail(q)
           c == b - Head(q).size
<1>1. q \in Seq(Datagram) /\ b \in Nat /\ QueueOK(q, b)
  BY DEF SockRow, Queues, Bytes, RowOK
<1>2. /\ p \in Seq(Datagram) /\ Len(p) = Len(q) - 1
      /\ Len(q) \in Nat \ {0} /\ Head(q).size \in Nat
      /\ Total(p, Len(p)) + Head(q).size = Total(q, Len(q))
  BY <1>1, TotalTail
<1>3. Total(q, Len(q)) \in Nat /\ Total(p, Len(p)) \in Nat
  <2>1. Len(p) \in 0..Len(p) /\ Len(q) \in 0..Len(q)
    BY <1>2
  <2> QED
    BY <1>1, <1>2, <2>1, TotalFacts
<1>4. c = Total(p, Len(p)) /\ c \in Nat
  BY <1>1, <1>2, <1>3 DEF QueueOK
<1>5. QueueOK(p, c)
  <2>1. MaxDatagrams \in Nat /\ MaxBytes \in Nat
    BY SocketsAssumption
  <2>2. Len(q) <= MaxDatagrams /\ b <= MaxBytes
    BY <1>1 DEF QueueOK
  <2>3. Len(p) <= MaxDatagrams /\ c <= MaxBytes
    BY <1>1, <1>2, <2>1, <2>2, SMTT(30)
  <2> QED
    BY <1>4, <2>3 DEF QueueOK
<1>y. y = [r EXCEPT !.last_use = tick, !.queue[d] = p, !.bytes[d] = c]
  BY DEF PoppedRow
<1> HIDE DEF p, c
<1>10. PICK qs : qs = [r.queue EXCEPT ![d] = p]
  OBVIOUS
<1>11. PICK bs : bs = [r.bytes EXCEPT ![d] = c]
  OBVIOUS
<1>12. y = [r EXCEPT !.last_use = tick, !.queue = qs, !.bytes = bs]
  BY <1>y, <1>10, <1>11 DEF SockRow
<1>13. /\ qs \in Queues /\ bs \in Bytes /\ qs[d] = p /\ bs[d] = c
       /\ \A e \in Directions \ {d} : qs[e] = r.queue[e] /\ bs[e] = r.bytes[e]
  BY <1>2, <1>4, <1>10, <1>11 DEF SockRow, Queues, Bytes
<1>14. /\ y \in SockRow /\ y.queue = qs /\ y.bytes = bs
       /\ y.used = r.used /\ y.app = r.app
  BY ONLY <1>12, <1>13, r \in SockRow, tick \in Nat DEF SockRow
<1>15. RowOK(y)
  <2>1. \A e \in Directions : QueueOK(y.queue[e], y.bytes[e])
    BY <1>5, <1>13, <1>14 DEF RowOK
  <2> QED
    BY <1>14, <2>1 DEF RowOK
<1>16. Held(y) + 1 = Held(r)
  <2>1. /\ Len(r.queue["tx"]) \in Nat /\ Len(r.queue["rx"]) \in Nat
        /\ Directions = {"tx", "rx"}
    BY DEF SockRow, Queues, Directions
  <2>m. PICK m \in Nat : Len(r.queue["tx"]) = m
    BY <2>1
  <2>n. PICK n \in Nat : Len(r.queue["rx"]) = n
    BY <2>1
  <2>h. Held(r) = m + n
    BY <2>m, <2>n, HeldIs
  <2>2. CASE d = "tx"
    <3>1. /\ Len(y.queue["tx"]) = Len(r.queue["tx"]) - 1
          /\ y.queue["rx"] = r.queue["rx"]
      BY <1>2, <1>13, <1>14, <2>1, <2>2
    <3>2. Len(y.queue["tx"]) = m - 1 /\ Len(y.queue["rx"]) = n
      BY <2>m, <2>n, <3>1
    <3>3. Held(y) = (m - 1) + n
      BY ONLY <3>2, HeldIs
    <3> QED
      BY ONLY <2>h, <3>3, m \in Nat, n \in Nat
  <2>3. CASE d = "rx"
    <3>1. /\ Len(y.queue["rx"]) = Len(r.queue["rx"]) - 1
          /\ y.queue["tx"] = r.queue["tx"]
      BY <1>2, <1>13, <1>14, <2>1, <2>3
    <3>2. Len(y.queue["tx"]) = m /\ Len(y.queue["rx"]) = n - 1
      BY <2>m, <2>n, <3>1
    <3>3. Held(y) = m + (n - 1)
      BY ONLY <3>2, HeldIs
    <3> QED
      BY ONLY <2>h, <3>3, m \in Nat, n \in Nat
  <2> QED
    BY <2>1, <2>2, <2>3
<1> QED
  BY <1>14, <1>15, <1>16

(* The sum over the rows is a natural.                                      *)
LEMMA HeldSumNat ==
  ASSUME NEW r \in [Index -> SockRow]
  PROVE  SumHeld(r) \in Nat
<1> DEFINE w == [i \in Index |-> Held(r[i])]
<1>1. SockRows \in 0..SockRows /\ \A i \in 1..SockRows : w[i] \in Nat
  BY HeldNat, SocketsAssumption DEF Index
<1>2. SockRows \in Nat
  BY SocketsAssumption
<1> HIDE DEF w
<1>3. SumTo(w, SockRows) \in Nat
  BY <1>1, <1>2, SumNat
<1> QED
  BY <1>3 DEF SumHeld, w

(* Putting a row in order in the place of one for the same socket keeps the *)
(* table in order.                                                          *)
LEMMA SwapRow ==
  ASSUME NEW r, NEW ru, NEW n, NEW rt, NEW ra, TableOK(r, ru, n, rt, ra),
         NEW i \in Index, NEW y \in SockRow, RowOK(y),
         y.used = r[i].used, y.app = r[i].app, NEW s, Edited(r, i, y, s)
  PROVE  /\ TableOK(s, ru, n, rt, ra)
         /\ SumHeld(s) + Held(r[i]) = SumHeld(r) + Held(y)
         /\ SumHeld(s) \in Nat /\ SumHeld(r) \in Nat
         /\ Held(r[i]) \in Nat /\ Held(y) \in Nat
<1>1. r \in [Index -> SockRow] /\ RowsOK(r) /\ r[i] \in SockRow
  BY DEF TableOK, RowsOK
<1>2. RowsOK(s)
  <2>1. \A j \in Index \ {i} : y.used /\ r[j].used => r[j].app # y.app
    BY <1>1 DEF RowsOK
  <2> QED
    BY <1>1, <2>1, EditRows
<1>3. UsedIn(s) = UsedIn(r)
  <2>1. y.used <=> r[i].used
    OBVIOUS
  <2> QED
    BY <1>1, <2>1, EditCount
<1>4. \A k \in Index : s[k].used = r[k].used /\ s[k].app = r[k].app
  BY DEF Edited
<1>5. KeysOK(s, n, rt, ra)
  BY <1>4 DEF TableOK, KeysOK
<1>6. TableOK(s, ru, n, rt, ra)
  BY <1>2, <1>3, <1>5 DEF TableOK
<1>7. /\ SumHeld(s) + Held(r[i]) = SumHeld(r) + Held(y)
      /\ SumHeld(s) \in Nat /\ SumHeld(r) \in Nat
  BY <1>1, EditSum
<1> QED
  BY <1>1, <1>6, <1>7, HeldNat

LossTicks == [Apps -> Nat \cup {-1}]

(* The invariant: NoSilentLoss and BudgetsExact, and with them what keeps a *)
(* value that is in quarantine out of the table.                            *)
SocketsInv ==
  /\ TableOK(rows, rows_used, insertions, retired, retiredAt)
  /\ retiredAt \in LossTicks /\ life \in [Apps -> Nat] /\ clock \in Nat
  /\ pushed \in Nat /\ popped \in Nat /\ dropped \in Nat
  /\ discarded \in Nat /\ refused \in Nat
  /\ pushed = popped + dropped + discarded + refused + SumHeld(rows)

(* The empty table is in order.                                             *)
LEMMA SocketsStart == SocketsInit => SocketsInv
<1> SUFFICES ASSUME SocketsInit PROVE SocketsInv
  OBVIOUS
<1>1. PICK x : x = Fresh(0, FALSE, 0)
  OBVIOUS
<1>2. x \in SockRow /\ RowOK(x) /\ Held(x) = 0 /\ ~x.used
  BY <1>1, FreshOK, ZenonT(60)
<1>3. rows = [i \in Index |-> x]
  BY <1>1 DEF SocketsInit
<1>4. RowsOK(rows)
  BY <1>2, <1>3 DEF RowsOK
<1>5. UsedIn(rows) = {}
  BY <1>2, <1>3 DEF UsedIn
<1>6. SumHeld(rows) = 0
  <2> DEFINE w == [i \in Index |-> Held(rows[i])]
  <2>1. SockRows \in Nat /\ \A i \in 1..SockRows : w[i] = 0
    BY <1>2, <1>3, SocketsAssumption DEF Index
  <2> HIDE DEF w
  <2>2. SumTo(w, SockRows) = 0
    BY <2>1, SumZero
  <2> QED
    BY <2>2 DEF SumHeld, w
<1>7. retiredAt \in LossTicks /\ \A a \in Apps : retiredAt[a] = -1
  BY DEF SocketsInit, LossTicks
<1>8. KeysOK(rows, 0, retired, retiredAt)
  BY <1>2, <1>3, <1>7 DEF KeysOK, Waited
<1>9. TableOK(rows, rows_used, insertions, retired, retiredAt)
  BY <1>4, <1>5, <1>8, FS_EmptySet DEF TableOK, SocketsInit
<1> QED
  BY <1>6, <1>7, <1>9 DEF SocketsInv, SocketsInit

(* Push: refused, or into the row that open() returned.                     *)
LEMMA PushKeeps ==
  ASSUME SocketsInv, NEW app \in Apps, NEW d \in Directions, NEW x \in Datagram,
         Push(app, d, x)
  PROVE  SocketsInv'
<1> DEFINE o == open(app)
<1>0. /\ clock \in Nat /\ discarded \in Nat /\ popped \in Nat /\ dropped \in Nat
      /\ refused \in Nat /\ pushed \in Nat
      /\ retiredAt \in [Apps -> Nat \cup {-1}]
      /\ pushed = popped + dropped + discarded + refused + SumHeld(rows)
      /\ TableOK(rows, rows_used, insertions, retired, retiredAt)
  BY DEF SocketsInv, LossTicks
<1>1. /\ TableOK(o.rows, o.rows_used, o.insertions, o.retired, retiredAt)
      /\ o.discarded \in Nat
      /\ SumHeld(o.rows) + o.discarded = SumHeld(rows) + discarded
      /\ \A i \in o.row : i \in Index /\ o.rows[i].used /\ o.rows[i].app = app
  BY <1>0, OpenFacts
<1>2. /\ pushed' = pushed + 1 /\ popped' = popped /\ clock' = clock
      /\ life' = life /\ retiredAt' = retiredAt
      /\ insertions' = o.insertions /\ retired' = o.retired
      /\ rows_used' = o.rows_used /\ discarded' = o.discarded
  BY DEF Push, Apply, osVars
<1>3. \/ rows' = o.rows /\ refused' = refused + 1 /\ dropped' = dropped
      \/ /\ x.size <= MaxBytes /\ refused' = refused
         /\ \E i \in o.row :
              LET r    == o.rows[i]
                  lost == Thrown(r, d, x.size)
                  kept == SubSeq(r.queue[d], lost + 1, Len(r.queue[d]))
              IN  /\ rows' = [o.rows EXCEPT
                       ![i].queue[d] = Append(kept, x),
                       ![i].bytes[d] = @ - Total(r.queue[d], lost) + x.size]
                  /\ dropped' = dropped + lost
  BY DEF Push
<1> HIDE DEF o
<1>n. SumHeld(rows) \in Nat /\ SumHeld(o.rows) \in Nat
  BY <1>0, <1>1, HeldSumNat DEF TableOK, RowsOK
<1>4. CASE rows' = o.rows /\ refused' = refused + 1 /\ dropped' = dropped
  <2>1. pushed' = popped' + dropped' + discarded' + refused' + SumHeld(rows')
    BY <1>0, <1>1, <1>2, <1>4, <1>n
  <2>2. TableOK(rows', rows_used', insertions', retired', retiredAt')
    BY <1>1, <1>2, <1>4
  <2>3. refused' \in Nat /\ pushed' \in Nat
    BY <1>0, <1>2, <1>4
  <2> QED
    BY <1>0, <1>1, <1>2, <1>4, <2>1, <2>2, <2>3 DEF SocketsInv
<1>5. ASSUME NEW i \in o.row, NEW lost, lost = Thrown(o.rows[i], d, x.size),
             x.size <= MaxBytes, refused' = refused, dropped' = dropped + lost,
             rows' = [o.rows EXCEPT
               ![i].queue[d] = Append(SubSeq(o.rows[i].queue[d], lost + 1,
                                             Len(o.rows[i].queue[d])), x),
               ![i].bytes[d] = @ - Total(o.rows[i].queue[d], lost) + x.size]
      PROVE  SocketsInv'
  <2>1. i \in Index /\ o.rows[i].used
    BY <1>1
  <2>2. o.rows \in [Index -> SockRow] /\ o.rows[i] \in SockRow /\ RowOK(o.rows[i])
    BY <1>1, <2>1 DEF TableOK, RowsOK
  <2>3. PICK r : r = o.rows[i]
    OBVIOUS
  <2>4. PICK y : PushedRow(r, d, x, lost, y)
    BY DEF PushedRow
  <2>5. /\ y \in SockRow /\ RowOK(y) /\ lost \in Nat
        /\ y.used = r.used /\ y.app = r.app
        /\ Held(y) + lost = Held(r) + 1
    BY <1>5, <2>1, <2>2, <2>3, <2>4, PushRow
  <2>6. rows' = [o.rows EXCEPT ![i] = y]
    <3>1. PICK p : p = Append(SubSeq(r.queue[d], lost + 1, Len(r.queue[d])), x)
      OBVIOUS
    <3>2. PICK c : c = r.bytes[d] - Total(r.queue[d], lost) + x.size
      OBVIOUS
    <3>3. y = [r EXCEPT !.queue[d] = p, !.bytes[d] = c]
      BY <2>4, <3>1, <3>2 DEF PushedRow
    <3>4. rows' = [o.rows EXCEPT ![i].queue[d] = p, ![i].bytes[d] = c]
      BY <1>5, <2>3, <3>1, <3>2
    <3> QED
      BY ONLY <2>1, <2>2, <2>3, <3>3, <3>4 DEF SockRow
  <2>7. Edited(o.rows, i, y, rows')
    BY <2>1, <2>2, <2>5, <2>6 DEF Edited
  <2>8. /\ TableOK(rows', o.rows_used, o.insertions, o.retired, retiredAt)
        /\ SumHeld(rows') + Held(r) = SumHeld(o.rows) + Held(y)
        /\ SumHeld(rows') \in Nat /\ SumHeld(o.rows) \in Nat
        /\ Held(r) \in Nat /\ Held(y) \in Nat
    BY <1>1, <2>1, <2>3, <2>5, <2>7, SwapRow
  <2>c. dropped' = dropped + lost /\ refused' = refused
    BY <1>5
  <2>9. pushed' = popped' + dropped' + discarded' + refused' + SumHeld(rows')
    BY ONLY <1>0, <1>1, <1>2, <1>n, <2>5, <2>8, <2>c
  <2>10. TableOK(rows', rows_used', insertions', retired', retiredAt')
    BY <1>2, <2>8
  <2>11. dropped' \in Nat /\ pushed' \in Nat
    BY ONLY <1>0, <1>2, <2>5, <2>c
  <2> QED
    BY <1>0, <1>1, <1>2, <2>c, <2>9, <2>10, <2>11 DEF SocketsInv
<1> QED
  BY <1>3, <1>4, <1>5

(* Pop: from a row that is there, or nothing.                               *)
LEMMA PopKeeps ==
  ASSUME SocketsInv, NEW app \in Apps, NEW d \in Directions, Pop(app, d)
  PROVE  SocketsInv'
<1>0. /\ clock \in Nat /\ discarded \in Nat /\ popped \in Nat /\ dropped \in Nat
      /\ refused \in Nat /\ pushed \in Nat
      /\ pushed = popped + dropped + discarded + refused + SumHeld(rows)
      /\ TableOK(rows, rows_used, insertions, retired, retiredAt)
      /\ RowsOK(rows) /\ rows \in [Index -> SockRow]
  BY DEF SocketsInv, TableOK, RowsOK
<1>1. /\ pushed' = pushed /\ dropped' = dropped /\ discarded' = discarded
      /\ refused' = refused /\ clock' = clock /\ life' = life
      /\ retiredAt' = retiredAt /\ insertions' = insertions
      /\ retired' = retired /\ rows_used' = rows_used
  BY DEF Pop, osVars
<1>2. PICK i \in mutable_row(app) :
        \/ /\ rows[i].queue[d] # <<>>
           /\ rows' = [rows EXCEPT ![i].last_use = clock,
                                   ![i].queue[d] = Tail(@),
                                   ![i].bytes[d] = @ - Head(rows[i].queue[d]).size]
           /\ popped' = popped + 1
        \/ /\ rows' = [rows EXCEPT ![i].last_use = clock]
           /\ popped' = popped
  BY DEF Pop
<1>3. i \in Index /\ rows[i].used /\ rows[i] \in SockRow /\ RowOK(rows[i])
  BY <1>0, TrackedFacts DEF RowsOK
<1>4. ASSUME NEW y \in SockRow, RowOK(y), y.used = rows[i].used,
             y.app = rows[i].app, rows' = [rows EXCEPT ![i] = y], NEW k \in Nat,
             Held(y) + k = Held(rows[i]), popped' = popped + k
      PROVE  SocketsInv'
  <2>1. Edited(rows, i, y, rows')
    BY <1>0, <1>3, <1>4 DEF Edited
  <2>2. /\ TableOK(rows', rows_used, insertions, retired, retiredAt)
        /\ SumHeld(rows') + Held(rows[i]) = SumHeld(rows) + Held(y)
        /\ SumHeld(rows') \in Nat /\ SumHeld(rows) \in Nat
        /\ Held(rows[i]) \in Nat /\ Held(y) \in Nat
    <3>1. /\ y \in SockRow /\ RowOK(y) /\ y.used = rows[i].used
          /\ y.app = rows[i].app
      BY <1>4
    <3> QED
      BY ONLY <1>0, <1>3, <2>1, <3>1, SwapRow
  <2>3. pushed' = popped' + dropped' + discarded' + refused' + SumHeld(rows')
    BY <1>0, <1>1, <1>4, <2>2
  <2>4. popped' \in Nat
    BY <1>0, <1>4
  <2> QED
    BY <1>0, <1>1, <2>2, <2>3, <2>4 DEF SocketsInv
<1>5. CASE /\ rows[i].queue[d] # <<>>
           /\ rows' = [rows EXCEPT ![i].last_use = clock,
                                   ![i].queue[d] = Tail(@),
                                   ![i].bytes[d] = @ - Head(rows[i].queue[d]).size]
           /\ popped' = popped + 1
  <2>1. PICK r : r = rows[i]
    OBVIOUS
  <2>2. PICK y : PoppedRow(r, d, clock, y)
    BY DEF PoppedRow
  <2>3. /\ y \in SockRow /\ RowOK(y) /\ y.used = r.used /\ y.app = r.app
        /\ Held(y) + 1 = Held(r)
    BY <1>0, <1>3, <1>5, <2>1, <2>2, PopRow
  <2>4. rows' = [rows EXCEPT ![i] = y]
    <3>1. PICK p : p = Tail(r.queue[d])
      OBVIOUS
    <3>2. PICK c : c = r.bytes[d] - Head(r.queue[d]).size
      OBVIOUS
    <3>3. y = [r EXCEPT !.last_use = clock, !.queue[d] = p, !.bytes[d] = c]
      BY <2>2, <3>1, <3>2 DEF PoppedRow
    <3>4. rows' = [rows EXCEPT ![i].last_use = clock, ![i].queue[d] = p,
                               ![i].bytes[d] = c]
      <4>1. rows \in [Index -> SockRow] /\ i \in Index /\ r = rows[i]
        BY <1>0, <1>3, <2>1
      <4> QED
        BY <1>5, <3>1, <3>2, <4>1 DEF SockRow
    <3> QED
      BY ONLY <1>0, <1>3, <2>1, <3>3, <3>4 DEF SockRow
  <2> QED
    BY <1>4, <1>5, <2>1, <2>3, <2>4
<1>6. CASE rows' = [rows EXCEPT ![i].last_use = clock] /\ popped' = popped
  <2>1. PICK y : y = [rows[i] EXCEPT !.last_use = clock]
    OBVIOUS
  <2>2. y \in SockRow /\ SameQueues(y, rows[i])
    BY <1>0, <1>3, <2>1 DEF SockRow, SameQueues
  <2>3. RowOK(y) /\ Held(y) = Held(rows[i]) /\ y.used = rows[i].used /\ y.app = rows[i].app
    BY <1>3, <2>2 DEF SameQueues, RowOK, Held
  <2>4. rows' = [rows EXCEPT ![i] = y]
    BY <1>6, <2>1
  <2>5. Held(y) \in Nat
    BY <2>2, HeldNat
  <2>6. Held(y) + 0 = Held(rows[i]) /\ popped' = popped + 0
    BY <1>0, <1>6, <2>3, <2>5
  <2> QED
    BY <1>4, <2>2, <2>3, <2>4, <2>6
<1> QED
  BY <1>2, <1>5, <1>6

(* Rows that are only touched, pinned or marked, by a step that may open    *)
(* one.                                                                     *)
LEMMA MarkKeeps ==
  ASSUME SocketsInv, NEW app \in Apps, NEW m \in Marks, Mark(app, m)
  PROVE  SocketsInv'
<1> DEFINE o == open(app)
<1>0. /\ clock \in Nat /\ discarded \in Nat /\ popped \in Nat /\ dropped \in Nat
      /\ refused \in Nat /\ pushed \in Nat
      /\ retiredAt \in [Apps -> Nat \cup {-1}]
      /\ pushed = popped + dropped + discarded + refused + SumHeld(rows)
      /\ TableOK(rows, rows_used, insertions, retired, retiredAt)
  BY DEF SocketsInv, LossTicks
<1>1. /\ TableOK(o.rows, o.rows_used, o.insertions, o.retired, retiredAt)
      /\ o.discarded \in Nat
      /\ SumHeld(o.rows) + o.discarded = SumHeld(rows) + discarded
      /\ \A i \in o.row : i \in Index /\ o.rows[i].used /\ o.rows[i].app = app
  BY <1>0, OpenFacts
<1>2. /\ pushed' = pushed /\ popped' = popped /\ clock' = clock
      /\ refused' = refused /\ dropped' = dropped
      /\ life' = life /\ retiredAt' = retiredAt
      /\ insertions' = o.insertions /\ retired' = o.retired
      /\ rows_used' = o.rows_used /\ discarded' = o.discarded
      /\ rows' = [i \in Index |-> IF i \in o.row
                    THEN [o.rows[i] EXCEPT !.marks = @ \cup {m}] ELSE o.rows[i]]
  BY DEF Mark, Apply, osVars
<1> HIDE DEF o
<1>3. o.rows \in [Index -> SockRow] /\ RowsOK(o.rows)
  BY <1>1 DEF TableOK, RowsOK
<1>n. SumHeld(rows) \in Nat /\ SumHeld(o.rows) \in Nat
  BY <1>0, <1>3, HeldSumNat DEF TableOK, RowsOK
<1>4. TableOK(rows', o.rows_used, o.insertions, o.retired, retiredAt)
      /\ SumHeld(rows') = SumHeld(o.rows)
  <2>1. CASE o.row = {}
    <3>1. rows' = o.rows
      BY <1>2, <1>3, <2>1
    <3> QED
      BY <1>1, <3>1
  <2>2. CASE o.row # {}
    <3>1. PICK i \in o.row : TRUE
      BY <2>2
    <3>2. i \in Index /\ o.rows[i].used /\ o.row = {i}
      <4>1. \A k \in o.row : k = i
        BY <1>1, <1>3, <3>1 DEF RowsOK
      <4> QED
        BY <1>1, <3>1, <4>1
    <3>3. PICK y : y = [o.rows[i] EXCEPT !.marks = @ \cup {m}]
      OBVIOUS
    <3>4. y \in SockRow /\ SameQueues(y, o.rows[i])
      <4>1. o.rows[i] \in SockRow
        BY <1>3, <3>2
      <4> QED
        BY <3>3, <4>1 DEF SockRow, SameQueues
    <3>5. Edited(o.rows, i, y, rows')
      <4>1. rows' = [k \in Index |-> IF k \in {i} THEN [o.rows[k] EXCEPT !.marks = @ \cup {m}]
                                                  ELSE o.rows[k]]
        BY <1>2, <3>2
      <4>2. rows' = [k \in Index |-> IF k = i THEN y ELSE o.rows[k]]
        BY <3>3, <4>1
      <4> QED
        BY <1>3, <3>2, <3>4, <4>2 DEF Edited
    <3>6. /\ RowsOK(rows') /\ SumHeld(rows') = SumHeld(o.rows)
          /\ UsedIn(rows') = UsedIn(o.rows)
          /\ KeysOK(rows', o.insertions, o.retired, retiredAt)
      BY <1>1, <1>3, <3>2, <3>4, <3>5, QuietEdit DEF TableOK
    <3> QED
      BY <1>1, <3>6 DEF TableOK
  <2> QED
    BY <2>1, <2>2
<1>5. pushed' = popped' + dropped' + discarded' + refused' + SumHeld(rows')
  BY ONLY <1>0, <1>1, <1>2, <1>4, <1>n
<1>6. TableOK(rows', rows_used', insertions', retired', retiredAt')
  BY <1>2, <1>4
<1>7. retiredAt' \in LossTicks /\ life' \in [Apps -> Nat]
  BY <1>2 DEF SocketsInv
<1>8. /\ clock' \in Nat /\ pushed' \in Nat /\ popped' \in Nat /\ dropped' \in Nat
      /\ discarded' \in Nat /\ refused' \in Nat
  BY ONLY <1>0, <1>1, <1>2
<1> QED
  BY ONLY <1>5, <1>6, <1>7, <1>8 DEF SocketsInv

(* Pins move no datagram.                                                   *)
LEMMA PinKeeps ==
  ASSUME SocketsInv, NEW app \in Apps, PinRow(app) \/ UnpinRow(app)
  PROVE  SocketsInv'
<1>0. RowsOK(rows) /\ rows \in [Index -> SockRow]
  BY DEF SocketsInv, TableOK, RowsOK
<1>1. /\ pushed' = pushed /\ popped' = popped /\ dropped' = dropped
      /\ discarded' = discarded /\ refused' = refused /\ clock' = clock
      /\ life' = life /\ retiredAt' = retiredAt /\ insertions' = insertions
      /\ retired' = retired /\ rows_used' = rows_used
  BY DEF PinRow, UnpinRow, osVars
<1>2. PICK i \in mutable_row(app) :
        \/ rows' = [rows EXCEPT ![i].pinned = @ + 1]
        \/ rows[i].pinned # 0 /\ rows' = [rows EXCEPT ![i].pinned = @ - 1]
  BY DEF PinRow, UnpinRow
<1>3. i \in Index /\ rows[i] \in SockRow /\ rows[i].pinned \in Nat
  BY <1>0, TrackedFacts DEF RowsOK, SockRow
<1>4. PICK n \in Nat : rows' = [rows EXCEPT ![i].pinned = n]
  BY <1>2, <1>3
<1>5. PICK y : y = [rows[i] EXCEPT !.pinned = n]
  OBVIOUS
<1>6. y \in SockRow /\ SameQueues(y, rows[i])
  BY <1>3, <1>5 DEF SockRow, SameQueues
<1>7. rows' = [rows EXCEPT ![i] = y]
  BY <1>4, <1>5
<1>8. Edited(rows, i, y, rows')
  BY <1>0, <1>3, <1>6, <1>7 DEF Edited
<1>9. /\ RowsOK(rows') /\ SumHeld(rows') = SumHeld(rows)
      /\ UsedIn(rows') = UsedIn(rows)
      /\ \A k, rt, ra : KeysOK(rows, k, rt, ra) => KeysOK(rows', k, rt, ra)
  BY <1>0, <1>3, <1>6, <1>8, QuietEdit
<1>10. TableOK(rows', rows_used', insertions', retired', retiredAt')
  BY <1>1, <1>9 DEF SocketsInv, TableOK
<1> QED
  BY <1>1, <1>9, <1>10 DEF SocketsInv

(* Forgetting when a value was retired keeps the keys in order.             *)
LEMMA ResetKeys ==
  ASSUME NEW r, RowsOK(r), NEW n, NEW rt, NEW ra \in [Apps -> Nat \cup {-1}],
         KeysOK(r, n, rt, ra), NEW app \in Apps, NEW rb,
         rb = [ra EXCEPT ![app] = -1]
  PROVE  rb \in LossTicks /\ KeysOK(r, n, rt, rb)
<1>1. /\ rb \in LossTicks /\ rb[app] = -1 /\ \A a \in Apps \ {app} : rb[a] = ra[a]
  BY DEF LossTicks
<1>2. \A i \in Index : r[i].used => r[i].app \in Apps
  BY DEF RowsOK, RowOK
<1>3. \A a \in Apps : Waited(n, ra, a) => Waited(n, rb, a)
  BY <1>1 DEF Waited
<1>4. \A a \in Apps : ~Waited(n, rb, a) => rb[a] = ra[a]
  BY <1>1 DEF Waited
<1>5. \A i \in Index : r[i].used => Waited(n, rb, r[i].app)
  BY <1>2, <1>3 DEF KeysOK
<1>6. ASSUME NEW a \in Apps, ~Waited(n, rb, a)
      PROVE  \E k \in rt : k.app = a /\ k.reusable_at = rb[a] + KeyQuarantine
  <2>1. ~Waited(n, ra, a) /\ rb[a] = ra[a]
    BY <1>3, <1>4, <1>6
  <2>2. \E k \in rt : k.app = a /\ k.reusable_at = ra[a] + KeyQuarantine
    BY <2>1 DEF KeysOK
  <2> QED
    BY <2>1, <2>2
<1> QED
  BY <1>1, <1>5, <1>6 DEF KeysOK

(* Retire: the datagrams are counted and the value goes into quarantine.    *)
LEMMA RetireKeeps ==
  ASSUME SocketsInv, NEW app \in Apps, Retire(app)
  PROVE  SocketsInv'
<1>0. /\ clock \in Nat /\ discarded \in Nat /\ popped \in Nat /\ dropped \in Nat
      /\ refused \in Nat /\ pushed \in Nat /\ insertions \in Nat
      /\ retiredAt \in [Apps -> Nat \cup {-1}]
      /\ pushed = popped + dropped + discarded + refused + SumHeld(rows)
      /\ RowsOK(rows) /\ rows \in [Index -> SockRow]
      /\ rows_used = Cardinality(UsedIn(rows))
      /\ KeysOK(rows, insertions, retired, retiredAt)
  BY DEF SocketsInv, LossTicks, TableOK, RowsOK
<1>1. /\ pushed' = pushed /\ popped' = popped /\ dropped' = dropped
      /\ refused' = refused /\ clock' = clock /\ life' = life
      /\ insertions' = insertions
  BY DEF Retire
<1>2. CASE mutable_row(app) = {}
  <2>1. /\ rows' = [i \in Index |-> rows[i]]
        /\ rows_used' = rows_used - Cardinality({})
        /\ discarded' = discarded /\ retired' = retired
        /\ retiredAt' = [retiredAt EXCEPT ![app] = -1]
    BY <1>2 DEF Retire
  <2>2. rows' = rows
    BY <1>0, <2>1
  <2>3. rows_used' = rows_used
    <3>1. Cardinality({}) = 0 /\ rows_used \in Nat
      BY <1>0, FS_EmptySet, CountNat
    <3> QED
      BY <2>1, <3>1
  <2>4. retiredAt' \in LossTicks /\ KeysOK(rows, insertions, retired, retiredAt')
    BY <1>0, <2>1, ResetKeys
  <2>5. TableOK(rows', rows_used', insertions', retired', retiredAt')
    BY <1>0, <1>1, <2>1, <2>2, <2>3, <2>4 DEF TableOK
  <2> QED
    BY <1>0, <1>1, <2>1, <2>2, <2>4, <2>5 DEF SocketsInv
<1>3. CASE mutable_row(app) # {}
  <2>1. PICK i \in Index : mutable_row(app) = {i} /\ rows[i].used /\ rows[i].app = app
    BY <1>0, <1>3, TrackedFacts
  <2>2. PICK x : x = Fresh(0, FALSE, 0)
    OBVIOUS
  <2>3. x \in SockRow /\ RowOK(x) /\ Held(x) = 0 /\ ~x.used
    BY <2>2, FreshOK, ZenonT(60)
  <2>4. PICK k : k = [app |-> app, reusable_at |-> insertions + KeyQuarantine]
    OBVIOUS
  <2>5. /\ rows' = [j \in Index |-> IF j \in {i} THEN x ELSE rows[j]]
        /\ rows_used' = rows_used - Cardinality({i})
        /\ discarded' = discarded + Queued(CHOOSE j \in {i} : TRUE)
        /\ retired' = retired \cup {k}
        /\ retiredAt' = [retiredAt EXCEPT ![app] = insertions]
    BY <1>3, <2>1, <2>2, <2>4 DEF Retire
  <2>6. Edited(rows, i, x, rows')
    BY <1>0, <2>3, <2>5 DEF Edited
  <2>7. discarded' = discarded + Held(rows[i])
    <3>1. (CHOOSE j \in {i} : TRUE) = i
      OBVIOUS
    <3>2. Queued(i) = Held(rows[i])
      BY DEF Queued, Held
    <3> QED
      BY <2>5, <3>1, <3>2
  <2>8. /\ SumHeld(rows') + Held(rows[i]) = SumHeld(rows)
        /\ SumHeld(rows') \in Nat /\ SumHeld(rows) \in Nat
    BY <1>0, <2>3, <2>6, EditSum
  <2>9. Held(rows[i]) \in Nat
    BY <1>0, HeldNat
  <2>10. RowsOK(rows')
    BY <1>0, <2>3, <2>6, EditRows
  <2>11. rows_used' = Cardinality(UsedIn(rows'))
    <3>1. Cardinality(UsedIn(rows')) = Cardinality(UsedIn(rows)) - 1
      BY <1>0, <2>1, <2>3, <2>6, EditCount
    <3>2. Cardinality({i}) = 1
      BY FS_Singleton
    <3> QED
      BY <1>0, <2>5, <3>1, <3>2
  <2>12. /\ retiredAt' \in LossTicks /\ retiredAt'[app] = insertions
         /\ \A a \in Apps \ {app} : retiredAt'[a] = retiredAt[a]
    BY <1>0, <2>5 DEF LossTicks
  <2>13. \A j \in Index : rows'[j].used => /\ rows[j].used /\ rows'[j].app = rows[j].app
                                           /\ rows[j].app \in Apps \ {app}
    BY <1>0, <2>1, <2>3, <2>6 DEF Edited, RowsOK, RowOK
  <2>14. KeysOK(rows', insertions, retired', retiredAt')
    <3>1. \A j \in Index : rows'[j].used => Waited(insertions, retiredAt', rows'[j].app)
      BY <1>0, <2>12, <2>13 DEF KeysOK, Waited
    <3>2. ASSUME NEW a \in Apps, ~Waited(insertions, retiredAt', a)
          PROVE  \E e \in retired' : e.app = a /\ e.reusable_at = retiredAt'[a] + KeyQuarantine
      <4>1. CASE a = app
        <5>1. k \in retired' /\ k.app = a /\ k.reusable_at = retiredAt'[a] + KeyQuarantine
          BY <2>4, <2>5, <2>12, <4>1
        <5> QED
          BY <5>1
      <4>2. CASE a # app
        <5>1. ~Waited(insertions, retiredAt, a) /\ retiredAt'[a] = retiredAt[a]
          BY <2>12, <3>2, <4>2 DEF Waited
        <5>2. PICK e \in retired : e.app = a /\ e.reusable_at = retiredAt[a] + KeyQuarantine
          BY <1>0, <5>1 DEF KeysOK
        <5> QED
          BY <2>5, <5>1, <5>2
      <4> QED
        BY <4>1, <4>2
    <3> QED
      BY <3>1, <3>2 DEF KeysOK
  <2>15. TableOK(rows', rows_used', insertions', retired', retiredAt')
    BY <1>0, <1>1, <2>10, <2>11, <2>14 DEF TableOK
  <2>16. pushed' = popped' + dropped' + discarded' + refused' + SumHeld(rows')
    BY ONLY <1>0, <1>1, <2>7, <2>8, <2>9
  <2>17. discarded' \in Nat
    BY <1>0, <2>7, <2>9
  <2>18. /\ clock' \in Nat /\ pushed' \in Nat /\ popped' \in Nat /\ dropped' \in Nat
         /\ refused' \in Nat /\ life' \in [Apps -> Nat]
    BY <1>0, <1>1 DEF SocketsInv
  <2> QED
    BY ONLY <2>12, <2>15, <2>16, <2>17, <2>18 DEF SocketsInv
<1> QED
  BY <1>2, <1>3

(* Every step keeps the invariant of the sockets.                           *)
LEMMA SocketsInductive ==
  ASSUME SocketsInv, [SocketsNext]_sockVars
  PROVE  SocketsInv'
<1>1. ASSUME NEW app \in Apps, NEW size \in Sizes, PushTx(app, size) \/ PushRx(app, size)
      PROVE  SocketsInv'
  <2>1. size \in Nat /\ life[app] \in Nat
    BY SocketsAssumption DEF SocketsInv
  <2>2. PICK d \in Directions, l \in Nat : Push(app, d, [size |-> size, life |-> l])
    BY <1>1, <2>1 DEF PushTx, PushRx, Directions
  <2>3. [size |-> size, life |-> l] \in Datagram
    BY <2>1 DEF Datagram
  <2> QED
    BY <2>2, <2>3, PushKeeps
<1>2. ASSUME NEW app \in Apps, NEW byPump, OpenSocket(app, byPump) PROVE SocketsInv'
  <2>1. /\ life' \in [Apps -> Nat]
        /\ UNCHANGED <<rows, retired, insertions, rows_used, dropped, discarded,
                       refused, pushed, popped, clock, retiredAt>>
    BY <1>2 DEF OpenSocket, SocketsInv
  <2> QED
    BY <2>1 DEF SocketsInv
<1>3. ASSUME NEW app \in Apps, Unown(app) PROVE SocketsInv'
  <2>1. /\ retiredAt' = [retiredAt EXCEPT ![app] = -1]
        /\ UNCHANGED <<rows, retired, insertions, rows_used, dropped, discarded,
                       refused, pushed, popped, clock, life>>
    BY <1>3 DEF Unown
  <2>2. /\ retiredAt \in [Apps -> Nat \cup {-1}] /\ RowsOK(rows)
        /\ KeysOK(rows, insertions, retired, retiredAt)
    BY DEF SocketsInv, LossTicks, TableOK
  <2>3. retiredAt' \in LossTicks /\ KeysOK(rows, insertions, retired, retiredAt')
    BY <2>1, <2>2, ResetKeys
  <2>4. TableOK(rows', rows_used', insertions', retired', retiredAt')
    BY <2>1, <2>3 DEF SocketsInv, TableOK
  <2> QED
    BY <2>1, <2>3, <2>4 DEF SocketsInv
<1>4. CASE ClockTick
  <2>1. /\ clock' \in Nat
        /\ UNCHANGED <<rows, retired, insertions, rows_used, dropped, discarded,
                       refused, pushed, popped, life, retiredAt>>
    BY <1>4 DEF ClockTick, SocketsInv
  <2> QED
    BY <2>1 DEF SocketsInv
<1>5. CASE UNCHANGED sockVars
  BY <1>5 DEF SocketsInv, sockVars
<1> QED
  BY <1>1, <1>2, <1>3, <1>4, <1>5, PopKeeps, MarkKeeps, PinKeeps, RetireKeeps
     DEF SocketsNext

(* The invariant of the sockets holds throughout.                           *)
LEMMA SocketsInvariant == SocketsSpec => []SocketsInv
  BY SocketsStart, SocketsInductive, PTL DEF SocketsSpec

(* No datagram is lost in silence, for every size of the table and of its   *)
(* queues: whatever was evicted, closed over, thrown away or refused is in  *)
(* a counter (udp_state.hpp 340-343, 427-432).                              *)
THEOREM NoLossIsSilent == SocketsSpec => []NoSilentLoss
<1>1. SocketsInv => NoSilentLoss
  <2>1. SumQueued = SumHeld(rows)
    BY DEF SumQueued, SumHeld, Queued, Held
  <2> QED
    BY <2>1 DEF SocketsInv, NoSilentLoss
<1> QED
  BY <1>1, SocketsInvariant, PTL

(* Both budgets hold in every queue of every row, and the byte count that   *)
(* push() and pop() keep is the sum of what is queued (udp_state.hpp        *)
(* 427-429, 585-594).                                                       *)
THEOREM BudgetsStayExact == SocketsSpec => []BudgetsExact
<1>1. ASSUME SocketsInv PROVE BudgetsExact
  <2>1. Used = UsedIn(rows)
    BY DEF Used, UsedIn
  <2>2. rows_used = Cardinality(Used)
    BY <1>1, <2>1 DEF SocketsInv, TableOK
  <2>3. ASSUME NEW i \in Index, NEW d \in Directions
        PROVE  QueueOK(rows[i].queue[d], rows[i].bytes[d])
    BY <1>1 DEF SocketsInv, TableOK, RowsOK, RowOK
  <2> QED
    BY <2>2, <2>3 DEF BudgetsExact, QueueOK
<1> QED
  BY <1>1, SocketsInvariant, PTL

(* A socket inherits nothing from the one that had its value before, for    *)
(* every length of the quarantine and however late the pump delivers        *)
(* (udp_state.hpp 68-72, 408-410).                                          *)
THEOREM NothingIsInherited == SocketsSpec => []NothingInherited
<1>1. ASSUME SocketsInv PROVE NothingInherited
  <2>1. \A i \in Used : Waited(insertions, retiredAt, rows[i].app)
    BY <1>1 DEF SocketsInv, TableOK, KeysOK, Used
  <2> QED
    BY <2>1 DEF NothingInherited, Waited
<1> QED
  BY <1>1, SocketsInvariant, PTL
=============================================================================
