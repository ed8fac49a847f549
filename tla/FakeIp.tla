------------------------------- MODULE FakeIp --------------------------------
(***************************************************************************)
(* The fake-IP table of src/src/injectee/fakeip.hpp and its owner in       *)
(* fake_map.hpp: names in, addresses of a reserved range out, and the      *)
(* verdict on a connect to one of them.                                    *)
(*                                                                         *)
(* Every method of fake_ip_owner holds one mutex for its whole body, so    *)
(* each is one action; what interleaves is what the threads of the victim  *)
(* do between calls.  A thread resolves a name, keeps the answer as long   *)
(* as it likes, connects to it, and pins it while the connection lives.    *)
(* The threads are external: they call the owner as its comments say.      *)
(* std::optional is a set of at most one element.                          *)
(***************************************************************************)
EXTENDS Integers, FiniteSets, Sequences

CONSTANTS Capacity,    \* FAKEIP_CAPACITY, the hosts of the range in service
          Rings,       \* the ring lengths an owner may be built with
          Names,       \* the names that are asked for: [labels, root]
          NoName,      \* the empty string
          AdSuffix,    \* the labels of the machine's domain, or <<>>
          Threads,     \* the threads that resolve and connect
          MaxTouch,    \* bound: the LRU clock
          MaxTicks     \* bound: the ring clock

ASSUME FakeIpAssumption ==
  /\ Capacity \in Nat \ {0} /\ Rings \subseteq Nat
  /\ MaxTouch \in Nat /\ MaxTicks \in Nat
  /\ NoName \notin Names /\ IsFiniteSet(Threads)

VARIABLES quarantine,   \* quarantine_, counted in allocations
          row,          \* slots_
          excluded,     \* excluded_, as the set of marked rows
          exclusions,   \* exclusions_
          touch,        \* touch_
          allocations,  \* allocations_
          thread,       \* where each thread stands, and the answer it keeps
          lostAt,       \* history: the tick a kept answer ceased to hold, or -1
          streak        \* history: refused names in a row, see RingDrains

tableVars == <<quarantine, row, excluded, exclusions, touch, allocations>>
fakeVars  == <<quarantine, row, excluded, exclusions, touch, allocations,
               thread, lostAt, streak>>

Slots == 0..(Capacity - 1)
Row   == [name : Names \cup {NoName}, inflight : Nat, last_use : Nat,
          reusable_at : Nat, used_once : BOOLEAN]

Verdicts == {"route_by_name", "refuse", "passthrough"}

(* "idle" has no answer; "resolved" keeps one; "decided" has been told to   *)
(* route by name; "connected" has called pin(), which may have failed.      *)
Thread == [pc : {"idle", "resolved", "decided", "connected"},
           name : Names \cup {NoName},    \* what it asked for
           fake : Slots \cup {-1},        \* what it was answered
           routed : Names \cup {NoName},  \* the name decide() handed back
           pinned : BOOLEAN]

IdleThread == [pc |-> "idle", name |-> NoName, fake |-> -1, routed |-> NoName,
               pinned |-> FALSE]

(* Every row, clock and thread is of its kind.                              *)
FakeTypeOK ==
  /\ quarantine \in Rings
  /\ row \in [Slots -> Row]
  /\ excluded \in SUBSET Slots /\ exclusions \in Nat
  /\ touch \in Nat /\ allocations \in Nat
  /\ thread \in [Threads -> Thread]
  /\ lostAt \in [Threads -> Nat \cup {-1}]
  /\ streak \in Nat

FakeInit ==
  /\ quarantine \in Rings
  /\ row = [s \in Slots |-> [name |-> NoName, inflight |-> 0, last_use |-> 0,
                             reusable_at |-> 0, used_once |-> FALSE]]
  /\ excluded = {} /\ exclusions = 0
  /\ touch = 0 /\ allocations = 0
  /\ thread = [t \in Threads |-> IdleThread]
  /\ lostAt = [t \in Threads |-> -1]
  /\ streak = 0

-----------------------------------------------------------------------------
(* Addresses.  "fake" is the /24, whose hosts 0 and Capacity + 1 are not in *)
(* service; "real" is every other network.                                  *)
Octets == [net : {"fake", "real"}, host : 0..(Capacity + 1)]

in_fake_range(v4) == v4.net = "fake"

fake_ip_at(s) == [net |-> "fake", host |-> s + 1]

fake_ip_slot_of(v4) ==
  {s \in Slots : in_fake_range(v4) /\ s + 1 = v4.host}

(* read_fake_addr(): what a buffer says.  len is the family's own size, one *)
(* byte less, the whole storage, or more than any storage; AF_INET6 may     *)
(* carry the mapped spelling of a v4 address.                               *)
Lengths  == {"short", "exact", "storage", "beyond"}
Families == {"inet", "mapped6", "native6", "other"}

read_fake_addr(buf) ==
  LET readable == /\ buf.len \in {"exact", "storage"}
                  /\ buf.family \in {"inet", "mapped6"}
  IN  [readable |-> readable, v4 |-> buf.v4,
       in_range |-> readable /\ in_fake_range(buf.v4),
       slot |-> IF readable THEN fake_ip_slot_of(buf.v4) ELSE {}]

(* no_fake_name(): names that are resolved locally, judged on their labels  *)
(* (folded to lower case) once a root dot is dropped; the overload's suffix *)
(* rule sees the name as it was given, root dot and all.                    *)
LocalZones == {"local", "arpa", "msdcs"}

no_fake_name(n) ==
  LET l == n.labels IN
  \/ Len(l) <= 1
  \/ l[Len(l)] \in LocalZones
  \/ \E i \in 1..Len(l) : l[i] \in {"_msdcs", "dc="}
  \/ l[1] = "wpad"
  \/ /\ AdSuffix # <<>> /\ ~n.root
     /\ Len(l) >= Len(AdSuffix)
     /\ SubSeq(l, Len(l) - Len(AdSuffix) + 1, Len(l)) = AdSuffix

-----------------------------------------------------------------------------
(* The private helpers of the table, over the rows r and the ring clock.    *)
First(S) == {i \in S : \A j \in S : i <= j}   \* a scan that stops at a hit

owned_slot(v4) == {s \in fake_ip_slot_of(v4) : row[s].name # NoName}

find_name(n) == First({s \in Slots : row[s].name = n})

claimableEarly(r, clock, s) ==      \* mutant: off by one in the ring
  /\ s \notin excluded
  /\ ~r[s].used_once \/ clock + 1 >= r[s].reusable_at

claimableLate(r, clock, s) ==       \* mutant: off by one the other way
  /\ s \notin excluded
  /\ ~r[s].used_once \/ clock > r[s].reusable_at

claimable(r, clock, s) ==
  /\ s \notin excluded
  /\ ~r[s].used_once \/ clock >= r[s].reusable_at

find_free(r, clock) ==
  First({s \in Slots : r[s].name = NoName /\ claimable(r, clock, s)})

find_lru ==
  LET idle == {s \in Slots : row[s].name # NoName /\ row[s].inflight = 0}
  IN  First({s \in idle : \A o \in idle : row[s].last_use <= row[o].last_use})

claim(r, s, n, now) ==
  [r EXCEPT ![s] = [name |-> n, inflight |-> 0, last_use |-> now,
                    reusable_at |-> 0, used_once |-> TRUE]]

retire(r, s, clock) ==
  [r EXCEPT ![s] = [@ EXCEPT !.name = NoName, !.inflight = 0,
                             !.used_once = TRUE,
                             !.reusable_at = clock + quarantine]]

(* History: the kept answers that the retirement of row s makes untrue.     *)
Lost(s, clock) ==
  [t \in Threads |-> IF thread[t].fake = s /\ thread[t].name = row[s].name
                       THEN clock ELSE lostAt[t]]

-----------------------------------------------------------------------------
(* alloc_for(): the resolve side.  Only a name that may be faked gets here. *)
MayAsk(t, n) ==
  /\ thread[t].pc \in {"idle", "resolved"}
  /\ ~no_fake_name(n)
  /\ touch < MaxTouch
  /\ touch' = touch + 1
  /\ UNCHANGED <<quarantine, excluded, exclusions>>

Answer(t, n, s) ==
  thread' = [thread EXCEPT ![t] = [IdleThread EXCEPT !.pc = "resolved",
                                     !.name = n, !.fake = s]]

(* The name is held: same address, and it is warm again.                    *)
AllocSeen(t, n) ==
  /\ MayAsk(t, n)
  /\ \E s \in find_name(n) : /\ row' = [row EXCEPT ![s].last_use = touch']
                             /\ Answer(t, n, s)
  /\ lostAt' = [lostAt EXCEPT ![t] = -1]
  /\ UNCHANGED <<allocations, streak>>

(* The name is new: the attempt ticks the ring clock, served or not.        *)
NewName(t, n) ==
  /\ MayAsk(t, n)
  /\ find_name(n) = {}
  /\ allocations < MaxTicks
  /\ allocations' = allocations + 1

AllocFree(t, n) ==
  /\ NewName(t, n)
  /\ \E s \in find_free(row, allocations') : /\ row' = claim(row, s, n, touch')
                                             /\ Answer(t, n, s)
  /\ lostAt' = [lostAt EXCEPT ![t] = -1]
  /\ streak' = 0

(* Full: the coldest row with nothing in flight goes into quarantine, and   *)
(* only a ring of length 0 gives it to this very name.                      *)
AllocFull(t, n) ==
  /\ NewName(t, n)
  /\ find_free(row, allocations') = {}
  /\ \E v \in find_lru :
       LET left == retire(row, v, allocations') IN
       \/ /\ \E s \in find_free(left, allocations') :
                /\ row' = claim(left, s, n, touch')
                /\ Answer(t, n, s)
          /\ lostAt' = [Lost(v, allocations') EXCEPT ![t] = -1]
          /\ streak' = 0
       \/ /\ find_free(left, allocations') = {}
          /\ row' = left
          /\ lostAt' = Lost(v, allocations')
          /\ streak' = streak + 1
          /\ UNCHANGED thread

(* Every row is pinned, quarantined or excluded: the name is refused.       *)
AllocNone(t, n) ==
  /\ NewName(t, n)
  /\ find_free(row, allocations') = {}
  /\ find_lru = {}
  /\ streak' = IF \E s \in Slots \ excluded : row[s].name = NoName
                 THEN streak + 1 ELSE 0
  /\ UNCHANGED <<row, thread, lostAt>>

-----------------------------------------------------------------------------
(* lookup(), fake_connect_verdict() and decide(): what a connect to the     *)
(* address in buf is told, and the name, copied out under the lock.         *)
lookup(v4) == {row[s].name : s \in owned_slot(v4)}

fake_connect_verdict(addr, names, proxied) ==
  CASE ~addr.in_range               -> "passthrough"
    [] addr.in_range /\ names # {}  -> "route_by_name"
    [] addr.in_range /\ names = {}  -> IF proxied THEN "refuse"
                                                  ELSE "passthrough"

decide(buf, proxied) ==
  LET addr  == read_fake_addr(buf)
      names == IF addr.in_range THEN lookup(addr.v4) ELSE {}
  IN  [verdict |-> fake_connect_verdict(addr, names, proxied), names |-> names,
       addr |-> addr]

(* A thread connects to the answer it keeps, in any spelling and length.  A *)
(* refusal or a call that is passed through leaves nothing behind.          *)
Connect(t, family, len) ==
  /\ thread[t].pc = "resolved"
  /\ LET d == decide([family |-> family, len |-> len,
                      v4 |-> fake_ip_at(thread[t].fake)], TRUE)
     IN  /\ d.verdict = "route_by_name"
         /\ \E n \in d.names :
              thread' = [thread EXCEPT ![t] = [@ EXCEPT !.pc = "decided",
                                                        !.routed = n]]
  /\ UNCHANGED <<tableVars, lostAt, streak>>

PinUnowned(t) ==          \* mutant: pin() counts on a row that has no name
  /\ thread[t].pc = "decided"
  /\ row' = [row EXCEPT ![thread[t].fake].inflight = @ + 1]
  /\ thread' = [thread EXCEPT ![t] = [@ EXCEPT !.pc = "connected",
                                               !.pinned = TRUE]]
  /\ UNCHANGED <<quarantine, excluded, exclusions, touch, allocations, lostAt,
                 streak>>

(* pin(), a call of its own after decide() has let the lock go.             *)
Pin(t) ==
  /\ thread[t].pc = "decided"
  /\ LET owned == owned_slot(fake_ip_at(thread[t].fake)) IN
       /\ row' = [s \in Slots |-> IF s \in owned
                    THEN [row[s] EXCEPT !.inflight = @ + 1] ELSE row[s]]
       /\ thread' = [thread EXCEPT ![t] = [@ EXCEPT !.pc = "connected",
                                                    !.pinned = owned # {}]]
  /\ UNCHANGED <<quarantine, excluded, exclusions, touch, allocations, lostAt,
                 streak>>

(* note_touched() of a live connection.                                     *)
NoteTouched(t) ==
  /\ thread[t].pc = "connected"
  /\ touch < MaxTouch
  /\ \E s \in owned_slot(fake_ip_at(thread[t].fake)) :
       row' = [row EXCEPT ![s].last_use = touch + 1]
  /\ touch' = touch + 1
  /\ UNCHANGED <<quarantine, excluded, exclusions, allocations, thread, lostAt,
                 streak>>

UnpinBlind(t) ==          \* mutant: the guards against an underflow are gone
  /\ thread[t].pc = "connected"
  /\ row' = IF thread[t].pinned
              THEN [row EXCEPT ![thread[t].fake].inflight = @ - 1] ELSE row
  /\ thread' = [thread EXCEPT ![t] = [@ EXCEPT !.pc = "resolved",
                                               !.routed = NoName,
                                               !.pinned = FALSE]]
  /\ UNCHANGED <<quarantine, excluded, exclusions, touch, allocations, lostAt,
                 streak>>

(* The connection ends: unpin() what pin() counted.  The thread keeps the   *)
(* answer.                                                                  *)
Unpin(t) ==
  /\ thread[t].pc = "connected"
  /\ row' = [s \in Slots |->
               IF /\ thread[t].pinned
                  /\ s \in owned_slot(fake_ip_at(thread[t].fake))
                  /\ row[s].inflight # 0
                 THEN [row[s] EXCEPT !.inflight = @ - 1] ELSE row[s]]
  /\ thread' = [thread EXCEPT ![t] = [@ EXCEPT !.pc = "resolved",
                                               !.routed = NoName,
                                               !.pinned = FALSE]]
  /\ UNCHANGED <<quarantine, excluded, exclusions, touch, allocations, lostAt,
                 streak>>

(* The answer is dropped from the thread's own cache.                       *)
Forget(t) ==
  /\ thread[t].pc = "resolved"
  /\ thread' = [thread EXCEPT ![t] = IdleThread]
  /\ lostAt' = [lostAt EXCEPT ![t] = -1]
  /\ UNCHANGED <<tableVars, streak>>

excludeKeeps(v4) ==       \* mutant: a live row is left alone
  /\ \E s \in fake_ip_slot_of(v4) \ excluded : excluded' = excluded \cup {s}
  /\ exclusions' = exclusions + 1
  /\ streak' = 0
  /\ UNCHANGED <<quarantine, row, lostAt, touch, allocations, thread>>

(* exclude_proxy(): the proxy's address leaves circulation, and its name    *)
(* goes with it, pin or no pin.                                             *)
exclude(v4) ==
  /\ \E s \in fake_ip_slot_of(v4) \ excluded :
       /\ excluded' = excluded \cup {s}
       /\ IF row[s].name # NoName
            THEN /\ row' = retire(row, s, allocations)
                 /\ lostAt' = Lost(s, allocations)
            ELSE UNCHANGED <<row, lostAt>>
  /\ exclusions' = exclusions + 1
  /\ streak' = 0
  /\ UNCHANGED <<quarantine, touch, allocations, thread>>

(* forward_progress(): time passes for a process that resolves nothing.     *)
forward_progress(ticks) ==
  /\ allocations + ticks <= MaxTicks
  /\ allocations' = allocations + ticks
  /\ UNCHANGED <<quarantine, row, excluded, exclusions, touch, thread, lostAt,
                 streak>>

-----------------------------------------------------------------------------
FakeNext ==
  \/ \E t \in Threads :
       \/ \E n \in Names : \/ AllocSeen(t, n) \/ AllocFree(t, n)
                           \/ AllocFull(t, n) \/ AllocNone(t, n)
       \/ \E family \in Families, len \in Lengths : Connect(t, family, len)
       \/ Pin(t) \/ NoteTouched(t) \/ Unpin(t) \/ Forget(t)
  \/ \E v4 \in Octets : exclude(v4)
  \/ \E ticks \in 1..2 : forward_progress(ticks)

FakeSpec == FakeInit /\ [][FakeNext]_fakeVars

-----------------------------------------------------------------------------
(* A name is in one place, no excluded address stands for a name, and the   *)
(* count behind capacity() is the number of excluded rows (fakeip.hpp       *)
(* 357-360, 322-325): "an application that resolves a host twice must not   *)
(* find it in two places".                                                  *)
OneAddressPerName ==
  /\ \A s, o \in Slots : row[s].name = row[o].name /\ row[s].name # NoName
                           => s = o
  /\ \A s \in excluded : row[s].name = NoName
  /\ exclusions = Cardinality(excluded)

(* A row counts exactly the connections that hold it: pin() and unpin() are *)
(* calls of their own, made after decide() has let the lock go, yet a late  *)
(* pin() or unpin() never counts on a row that has changed hands, and an    *)
(* exclusion that drops a pin leaves no unpin() to hit another's            *)
(* (fakeip.hpp 419-439, 328-336).                                           *)
PinsBalanced ==
  \A s \in Slots \ excluded :
    row[s].inflight =
      Cardinality({t \in Threads : thread[t].pinned /\ thread[t].fake = s})

(* A kept answer is never a way round the proxy and never, for a whole ring *)
(* after it was lost, a way to another host: a connect to it is routed to   *)
(* the name it was given for, or refused (fakeip.hpp 56-60, fake_map.hpp    *)
(* 329-336).                                                                *)
NoEarlyMisroute ==
  \A t \in Threads :
    thread[t].name # NoName =>
      LET d == decide([family |-> "inet", len |-> "exact",
                       v4 |-> fake_ip_at(thread[t].fake)], TRUE)
      IN  /\ d.verdict # "passthrough"
          /\ \/ d.names \subseteq {thread[t].name}
             \/ lostAt[t] # -1 /\ allocations >= lostAt[t] + quarantine

(* A full table refuses at most one ring-length of new names in a row while *)
(* it drains, unless every row is pinned (fakeip.hpp 364-370).              *)
RingDrains == streak <= quarantine

(* The table is the map it promises to be.                                  *)
Promise == INSTANCE NameMap WITH Slots <- Slots, Names <- Names,
             NoName <- NoName, holds <- [s \in Slots |-> row[s].name],
             out <- excluded

ImplementsNameMap == Promise!MapSpec
=============================================================================
