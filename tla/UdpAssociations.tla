--------------------------- MODULE UdpAssociations ---------------------------
(***************************************************************************)
(* udp_association_table of src/src/injectee/udp_state.hpp: the socks5 UDP *)
(* associations a capsule holds, reached through references that outlive   *)
(* them.  The table has no lock of its own, so a method is one action;     *)
(* users keep references across calls, hold the association while they use *)
(* its relay, and the pump ticks the clock and reaps.  The users and the   *)
(* pump are external: they call the table as its comments say.             *)
(*                                                                         *)
(* A relay socket is made for every association, so its number tells one   *)
(* association from the next that fills its row.                           *)
(***************************************************************************)
EXTENDS Integers, FiniteSets

CONSTANTS AssocRows,  \* UDP_ASSOCIATION_MAX
          IdleLimit,  \* UDP_IDLE_LIMIT_TICKS
          Controls,   \* control socket values
          Users,      \* the callers that keep references
          MaxRelay,   \* bound: associations opened
          MaxTick     \* bound: the pump's clock

ASSUME AssocAssumption ==
  /\ AssocRows \in Nat \ {0} /\ IdleLimit \in Nat \ {0}
  /\ MaxRelay \in Nat /\ MaxTick \in Nat
  /\ IsFiniteSet(Users)

VARIABLES assoc,    \* rows_
          live,     \* live_
          relays,   \* how many relay sockets have been made
          handed,   \* how often each relay was handed back to be closed
          user,     \* the reference each user keeps and whether it holds it
          now       \* the pump's tick

assocVars == <<assoc, live, relays, handed, user, now>>

NoRef == [slot |-> 0, generation |-> 0]         \* UDP_NO_ROW
Slot  == 1..AssocRows
Relay == 1..MaxRelay

AssocInit ==
  /\ assoc = [i \in Slot |-> [used |-> FALSE, generation |-> 0, control |-> 0,
                              relay |-> 0, refcount |-> 0, last_use |-> 0]]
  /\ live = 0 /\ relays = 0 /\ now = 0
  /\ handed = [r \in Relay |-> 0]
  /\ user = [u \in Users |-> [ref |-> NoRef, relay |-> 0, holds |-> FALSE]]

-----------------------------------------------------------------------------
(* peek() and row_of(): the row a reference still names, if any.            *)
row_of(ref) ==
  {i \in Slot : /\ i = ref.slot
                /\ assoc[i].used
                /\ assoc[i].generation = ref.generation}

(* The ticks a caller may pass: it read the clock a moment ago.             *)
Ticks == {t \in {now, now - 1} : t >= 0}

ByControl(c) == {i \in Slot : assoc[i].used /\ assoc[i].control = c}
Unused       == {i \in Slot : ~assoc[i].used}
Lowest(S)    == {i \in S : \A j \in S : i <= j}

Keeps(u, i, generation, relay) ==
  user' = [user EXCEPT ![u] = [ref |-> [slot |-> i, generation |-> generation],
                               relay |-> relay, holds |-> FALSE]]

(* open(): the control socket has an association already.                   *)
OpenAgain(u, c, tick) ==
  /\ user[u].ref = NoRef
  /\ \E i \in Lowest(ByControl(c)) :
       /\ assoc' = [assoc EXCEPT ![i].last_use = tick]
       /\ Keeps(u, i, assoc[i].generation, assoc[i].relay)
  /\ UNCHANGED <<live, relays, handed, now>>

(* open(): the lowest unused row, with the next generation of that row.     *)
OpenNewRewound(u, c, tick) ==     \* mutant: the generation starts over
  /\ user[u].ref = NoRef
  /\ ByControl(c) = {} /\ relays < MaxRelay
  /\ \E i \in Lowest(Unused) :
       /\ assoc' = [assoc EXCEPT ![i] =
                      [used |-> TRUE, generation |-> 1, control |-> c,
                       relay |-> relays + 1, refcount |-> 0,
                       last_use |-> tick]]
       /\ Keeps(u, i, 1, relays + 1)
  /\ relays' = relays + 1 /\ live' = live + 1
  /\ UNCHANGED <<handed, now>>

OpenNew(u, c, tick) ==
  /\ user[u].ref = NoRef
  /\ ByControl(c) = {} /\ relays < MaxRelay
  /\ \E i \in Lowest(Unused) :
       /\ assoc' = [assoc EXCEPT ![i] =
                      [used |-> TRUE, generation |-> @.generation + 1,
                       control |-> c, relay |-> relays + 1, refcount |-> 0,
                       last_use |-> tick]]
       /\ Keeps(u, i, assoc[i].generation + 1, relays + 1)
  /\ relays' = relays + 1 /\ live' = live + 1
  /\ UNCHANGED <<handed, now>>

(* touch().                                                                 *)
Touch(u, tick) ==
  /\ \E i \in row_of(user[u].ref) :
       assoc' = [assoc EXCEPT ![i].last_use = tick]
  /\ UNCHANGED <<live, relays, handed, user, now>>

(* acquire(): true and one more reference, or false and nothing.            *)
Acquire(u) ==
  /\ user[u].ref # NoRef /\ ~user[u].holds
  /\ \/ \E i \in row_of(user[u].ref) :
          /\ assoc' = [assoc EXCEPT ![i].refcount = @ + 1]
          /\ user' = [user EXCEPT ![u].holds = TRUE]
     \/ /\ row_of(user[u].ref) = {}
        /\ user' = [user EXCEPT ![u].ref = NoRef]
        /\ UNCHANGED assoc
  /\ UNCHANGED <<live, relays, handed, now>>

(* close_row(): the record goes, the generation stays.  The record is       *)
(* handed to the caller, who closes its sockets.                            *)
close_row(dead) ==
  [i \in Slot |-> IF i \in dead
     THEN [assoc[i] EXCEPT !.used = FALSE, !.control = 0, !.relay = 0,
                           !.refcount = 0, !.last_use = 0]
     ELSE assoc[i]]

HandOverNone(dead) == handed' = handed   \* mutant: the sockets leak

HandOver(dead) ==
  handed' = [r \in Relay |-> IF \E i \in dead : assoc[i].relay = r
                               THEN handed[r] + 1 ELSE handed[r]]

(* release(): the last one out closes the association.                      *)
Release(u, tick) ==
  /\ user[u].holds
  /\ user' = [user EXCEPT ![u].holds = FALSE]
  /\ \/ \E i \in row_of(user[u].ref) :
          \/ /\ assoc[i].refcount > 1
             /\ assoc' = [assoc EXCEPT ![i].refcount = @ - 1,
                                       ![i].last_use = tick]
             /\ UNCHANGED <<handed, live>>
          \/ /\ assoc[i].refcount <= 1
             /\ assoc' = close_row({i})
             /\ HandOver({i})
             /\ live' = live - 1
  /\ UNCHANGED <<relays, now>>

(* A release() through a reference to something gone does nothing.          *)
ReleaseLate(u) ==
  /\ user[u].ref # NoRef /\ ~user[u].holds
  /\ row_of(user[u].ref) = {}
  /\ user' = [user EXCEPT ![u].ref = NoRef]
  /\ UNCHANGED <<assoc, live, relays, handed, now>>

(* reap_idle(): what nobody holds and nobody used for IdleLimit ticks; the  *)
(* difference is taken of unsigned numbers.                                 *)
IdleHeld(i, tick) ==      \* mutant: a held association may be reaped
  /\ assoc[i].used
  /\ tick >= assoc[i].last_use
  /\ tick - assoc[i].last_use >= IdleLimit

IdleWrapped(i, tick) ==   \* mutant: a clock that went backwards wraps around
  /\ assoc[i].used /\ assoc[i].refcount = 0
  /\ (tick - assoc[i].last_use) % 2^16 >= IdleLimit

Idle(i, tick) ==
  /\ assoc[i].used /\ assoc[i].refcount = 0
  /\ tick >= assoc[i].last_use
  /\ tick - assoc[i].last_use >= IdleLimit

ReapIdle(tick) ==
  LET dead == {i \in Slot : Idle(i, tick)} IN
  /\ dead # {}
  /\ assoc' = close_row(dead)
  /\ HandOver(dead)
  /\ live' = live - Cardinality(dead)
  /\ UNCHANGED <<relays, user, now>>

(* The pump's clock.                                                        *)
Tick == /\ now < MaxTick
        /\ now' = now + 1
        /\ UNCHANGED <<assoc, live, relays, handed, user>>

AssocNext ==
  \/ \E u \in Users :
       \/ \E tick \in Ticks :
            \/ \E c \in Controls : OpenAgain(u, c, tick) \/ OpenNew(u, c, tick)
            \/ Touch(u, tick) \/ Release(u, tick)
       \/ Acquire(u) \/ ReleaseLate(u)
  \/ \E tick \in Ticks : ReapIdle(tick)
  \/ Tick

AssocSpec == AssocInit /\ [][AssocNext]_assocVars

-----------------------------------------------------------------------------
(* A reference kept across calls names the association it was given for or  *)
(* nothing: the next association in the same row is out of its reach        *)
(* (udp_state.hpp 156-159, 196).                                            *)
StaleRefsDead ==
  \A u \in Users : \A i \in row_of(user[u].ref) :
    assoc[i].relay = user[u].relay

(* An association is held by exactly the users that acquired it and have    *)
(* not released it, and none of them finds it gone: nothing in flight is    *)
(* reaped, and nobody's release is somebody else's (udp_state.hpp 215-234). *)
HoldersCounted ==
  /\ \A u \in Users : user[u].holds => row_of(user[u].ref) # {}
  /\ \A i \in Slot : assoc[i].refcount =
       Cardinality({u \in Users : user[u].holds /\ i \in row_of(user[u].ref)})

(* The sockets of an association are handed back to be closed once, when it *)
(* dies, and never while it lives; live() counts the ones that do           *)
(* (udp_state.hpp 226-246, 275).                                            *)
ClosedOnce ==
  /\ \A r \in 1..relays :
       handed[r] + Cardinality({i \in Slot : assoc[i].used
                                             /\ assoc[i].relay = r}) = 1
  /\ live = Cardinality({i \in Slot : assoc[i].used})

(* An association that was used less than the idle limit ago, by the clock  *)
(* of whoever used it, is not reaped, even by a tick that is older than the *)
(* use (udp_state.hpp 248-262).                                             *)
InUseStays ==
  [][\A i \in Slot :
       assoc[i].used /\ ~assoc'[i].used /\ user' = user
         => now - assoc[i].last_use >= IdleLimit]_assocVars
=============================================================================
