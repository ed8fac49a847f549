----------------------------- MODULE UdpSockets ------------------------------
(***************************************************************************)
(* udp_state_table of src/src/injectee/udp_state.hpp: what a capsule keeps *)
(* of the application's datagram sockets, keyed by the socket's value.     *)
(* Each method is one action.  Around it, external, are the application    *)
(* and the operating system, which closes sockets and gives their values   *)
(* to new ones, and the pump, which carries datagrams to and from a relay  *)
(* and may be late: what arrives for a socket can arrive after it died.    *)
(*                                                                         *)
(* A datagram is its size and the incarnation of the socket it is for.     *)
(***************************************************************************)
EXTENDS Integers, Sequences, FiniteSets

CONSTANTS SockRows,       \* UDP_STATE_MAX_ROWS
          MaxDatagrams,   \* UDP_QUEUE_MAX_DATAGRAMS
          MaxBytes,       \* UDP_QUEUE_MAX_BYTES
          KeyQuarantine,  \* UDP_KEY_QUARANTINE_INSERTIONS
          Apps,           \* socket values
          Sizes,          \* payload sizes
          Marks,          \* what set_peer(), set_type() and the marks record
          PumpApps,       \* the values a socket of the pump's own may get
          MaxPush,        \* bound: datagrams pushed
          MaxInsertions,  \* bound: insertions_
          MaxLives,       \* bound: incarnations of one socket value
          MaxPins,        \* bound: pins on one row
          MaxClock        \* bound: the pump's clock

ASSUME SocketsAssumption ==
  /\ SockRows \in Nat \ {0} /\ MaxDatagrams \in Nat \ {0}
  /\ MaxBytes \in Nat /\ KeyQuarantine \in Nat
  /\ Apps \subseteq Nat \ {0} /\ Sizes \subseteq Nat

VARIABLES rows,        \* rows_
          retired,     \* retired_: the keys in quarantine
          insertions,  \* insertions_
          rows_used, dropped, discarded, refused,   \* the counters
          owned,       \* owned_: the pump's own sockets
          pushed, popped,   \* history: datagrams offered and delivered
          clock,       \* the tick callers pass
          life,        \* the incarnation each value is in
          isOpen,      \* the values the application has open
          retiredAt    \* history: insertions_ at the value's last retire(),
                       \* or -1 if its last close found no row

sockVars == <<rows, retired, insertions, rows_used, dropped, discarded,
              refused, owned, pushed, popped, clock, life, isOpen, retiredAt>>
osVars   == <<owned, clock, life, isOpen, retiredAt>>

Index      == 1..SockRows
Directions == {"tx", "rx"}

(* udp_state{}: what a row holds when it is new.                            *)
Fresh(app, used, tick) ==
  [used |-> used, app |-> app, queue |-> [d \in Directions |-> <<>>],
   bytes |-> [d \in Directions |-> 0], pinned |-> 0, last_use |-> tick,
   marks |-> {}]

(* The sum of the first n of the numbers w.                                 *)
SumTo(w, n) == LET sum[i \in 0..n] == IF i = 0 THEN 0 ELSE sum[i - 1] + w[i]
               IN  sum[n]

Used     == {i \in Index : rows[i].used}
Queued(i) == Len(rows[i].queue["tx"]) + Len(rows[i].queue["rx"])

SocketsInit ==
  /\ rows = [i \in Index |-> Fresh(0, FALSE, 0)]
  /\ retired = {} /\ insertions = 0
  /\ rows_used = 0 /\ dropped = 0 /\ discarded = 0 /\ refused = 0
  /\ owned = {} /\ pushed = 0 /\ popped = 0
  /\ clock = 0 /\ life = [a \in Apps |-> 0] /\ isOpen = {}
  /\ retiredAt = [a \in Apps |-> -1]

-----------------------------------------------------------------------------
Least(S) == {i \in S : \A j \in S : i <= j}

(* mutable_row() and find(): the row of a socket that is tracked.           *)
mutable_row(app) == Least({i \in Used : rows[i].app = app})

(* A free row, else the least recently used row nobody is pinning.          *)
find_slot_for(app) ==
  LET idle == {i \in Index : rows[i].pinned = 0 /\ rows[i].app # app} IN
  IF Used # Index THEN Least(Index \ Used)
  ELSE Least({i \in idle : \A j \in idle :
                             rows[i].last_use <= rows[j].last_use})

(* prune_quarantine() and is_quarantined(), at insertion n.                 *)
Pruned(n)              == {k \in retired : n < k.reusable_at}
is_quarantinedNot(app, n) == FALSE           \* mutant: no quarantine
is_quarantined(app, n) == \E k \in Pruned(n) : k.app = app

(* open(): the table after it and the row it found or made, if any.         *)
open(app) ==
  LET found == mutable_row(app)
      n     == insertions + 1
      slot  == IF is_quarantined(app, n) THEN {} ELSE find_slot_for(app)
      lost  == IF \E i \in slot : rows[i].used
                 THEN Queued(CHOOSE i \in slot : TRUE) ELSE 0
  IN  IF found # {}
      THEN [row |-> found, insertions |-> insertions, retired |-> retired,
            rows |-> [i \in Index |-> IF i \in found
                        THEN [rows[i] EXCEPT !.last_use = clock] ELSE rows[i]],
            rows_used |-> rows_used, discarded |-> discarded]
      ELSE [row |-> slot, insertions |-> n, retired |-> Pruned(n),
            rows |-> [i \in Index |-> IF i \in slot
                        THEN Fresh(app, TRUE, clock) ELSE rows[i]],
            rows_used |-> rows_used + Cardinality(slot \ Used),
            discarded |-> discarded + lost]

Apply(o) ==
  /\ o.insertions <= MaxInsertions
  /\ insertions' = o.insertions /\ retired' = o.retired
  /\ rows_used' = o.rows_used /\ discarded' = o.discarded

(* push(): refused when the socket has no row or the datagram could never   *)
(* fit; otherwise the oldest go until it fits.                              *)
Total(q, k) == SumTo([i \in 1..Len(q) |-> q[i].size], k)

OverBudgetLoose(r, d, k, size) ==   \* mutant: the count bound is off by one
  /\ k < Len(r.queue[d])
  /\ \/ Len(r.queue[d]) - k > MaxDatagrams
     \/ r.bytes[d] - Total(r.queue[d], k) + size > MaxBytes

(* With the k oldest gone, must another go?                                 *)
OverBudget(r, d, k, size) ==
  /\ k < Len(r.queue[d])
  /\ \/ Len(r.queue[d]) - k + 1 > MaxDatagrams
     \/ r.bytes[d] - Total(r.queue[d], k) + size > MaxBytes

Thrown(r, d, size) == CHOOSE k \in 0..Len(r.queue[d]) :
                        /\ ~OverBudget(r, d, k, size)
                        /\ \A j \in 0..(k - 1) : OverBudget(r, d, j, size)

Push(app, d, dgram) ==
  LET o == open(app) IN
  /\ pushed < MaxPush
  /\ pushed' = pushed + 1
  /\ Apply(o)
  /\ \/ /\ o.row = {} \/ dgram.size > MaxBytes
        /\ rows' = o.rows
        /\ refused' = refused + 1
        /\ UNCHANGED dropped
     \/ /\ dgram.size <= MaxBytes
        /\ \E i \in o.row :
             LET r    == o.rows[i]
                 lost == Thrown(r, d, dgram.size)
                 kept == SubSeq(r.queue[d], lost + 1, Len(r.queue[d]))
             IN  /\ rows' = [o.rows EXCEPT
                      ![i].queue[d] = Append(kept, dgram),
                      ![i].bytes[d] = @ - Total(r.queue[d], lost) + dgram.size]
                 /\ dropped' = dropped + lost
        /\ UNCHANGED refused
  /\ UNCHANGED <<popped, osVars>>

(* push_tx(): the detour of a send, which leaves the pump's own sockets     *)
(* alone (owns()).  push_rx(): the pump, for a socket that may be dead.     *)
PushTx(app, size) ==
  /\ app \in isOpen \ owned
  /\ Push(app, "tx", [size |-> size, life |-> life[app]])

PushRx(app, size) ==
  \E l \in 1..life[app] : Push(app, "rx", [size |-> size, life |-> l])

(* pop(): never makes a row; an empty queue is only touched.                *)
Pop(app, d) ==
  /\ \E i \in mutable_row(app) :
       \/ /\ rows[i].queue[d] # <<>>
          /\ rows' = [rows EXCEPT ![i].last_use = clock,
                                  ![i].queue[d] = Tail(@),
                                  ![i].bytes[d] =
                                     @ - Head(rows[i].queue[d]).size]
          /\ popped' = popped + 1
       \/ /\ rows[i].queue[d] = <<>>
          /\ rows' = [rows EXCEPT ![i].last_use = clock]
          /\ UNCHANGED popped
  /\ UNCHANGED <<retired, insertions, rows_used, dropped, discarded, refused,
                 pushed, osVars>>

(* set_peer(), set_type(), mark_takeover(), mark_permanently_unmanaged().   *)
Mark(app, m) ==
  LET o == open(app) IN
  /\ app \in isOpen \ owned
  /\ Apply(o)
  /\ rows' = [i \in Index |-> IF i \in o.row
                THEN [o.rows[i] EXCEPT !.marks = @ \cup {m}] ELSE o.rows[i]]
  /\ UNCHANGED <<dropped, refused, pushed, popped, osVars>>

(* pin() and unpin(), by the pump.                                          *)
PinRow(app) ==
  /\ \E i \in mutable_row(app) : /\ rows[i].pinned < MaxPins
                                 /\ rows' = [rows EXCEPT ![i].pinned = @ + 1]
  /\ UNCHANGED <<retired, insertions, rows_used, dropped, discarded, refused,
                 pushed, popped, osVars>>

UnpinRow(app) ==
  /\ \E i \in mutable_row(app) : /\ rows[i].pinned # 0
                                 /\ rows' = [rows EXCEPT ![i].pinned = @ - 1]
  /\ UNCHANGED <<retired, insertions, rows_used, dropped, discarded, refused,
                 pushed, popped, osVars>>

-----------------------------------------------------------------------------
(* The operating system gives out a value, to the application or, with      *)
(* own(), to the pump.                                                      *)
OpenSocket(app, byPump) ==
  /\ app \notin isOpen /\ life[app] < MaxLives
  /\ byPump => app \in PumpApps
  /\ isOpen' = isOpen \cup {app}
  /\ life' = [life EXCEPT ![app] = @ + 1]
  /\ owned' = IF byPump THEN owned \cup {app} ELSE owned
  /\ UNCHANGED <<rows, retired, insertions, rows_used, dropped, discarded,
                 refused, pushed, popped, clock, retiredAt>>

RetireUncounted(app) ==       \* mutant: what it held is not counted
  /\ app \in isOpen \ owned
  /\ isOpen' = isOpen \ {app}
  /\ LET gone == mutable_row(app) IN
       /\ rows' = [i \in Index |-> IF i \in gone THEN Fresh(0, FALSE, 0)
                                                 ELSE rows[i]]
       /\ rows_used' = rows_used - Cardinality(gone)
       /\ UNCHANGED <<discarded, retired>>
       /\ retiredAt' = [retiredAt EXCEPT ![app] = -1]
  /\ UNCHANGED <<insertions, dropped, refused, owned, pushed, popped, clock,
                 life>>

(* retire(): the application closes its socket.  A tracked one loses its    *)
(* row, and its value goes into quarantine.                                 *)
Retire(app) ==
  /\ app \in isOpen \ owned
  /\ isOpen' = isOpen \ {app}
  /\ LET gone == mutable_row(app) IN
       /\ rows' = [i \in Index |-> IF i \in gone THEN Fresh(0, FALSE, 0)
                                                 ELSE rows[i]]
       /\ rows_used' = rows_used - Cardinality(gone)
       /\ discarded' = IF gone = {} THEN discarded
                       ELSE discarded + Queued(CHOOSE i \in gone : TRUE)
       /\ retired' = IF gone = {} THEN retired
                     ELSE retired \cup {[app |-> app, reusable_at |->
                                           insertions + KeyQuarantine]}
       /\ retiredAt' = [retiredAt EXCEPT ![app] =
                          IF gone = {} THEN -1 ELSE insertions]
  /\ UNCHANGED <<insertions, dropped, refused, owned, pushed, popped, clock,
                 life>>

(* unown(): the pump closes a socket of its own.                            *)
Unown(app) ==
  /\ app \in owned
  /\ owned' = owned \ {app} /\ isOpen' = isOpen \ {app}
  /\ retiredAt' = [retiredAt EXCEPT ![app] = -1]
  /\ UNCHANGED <<rows, retired, insertions, rows_used, dropped, discarded,
                 refused, pushed, popped, clock, life>>

ClockTick ==
  /\ clock < MaxClock
  /\ clock' = clock + 1
  /\ UNCHANGED <<rows, retired, insertions, rows_used, dropped, discarded,
                 refused, owned, pushed, popped, life, isOpen, retiredAt>>

SocketsNext ==
  \/ \E app \in Apps :
       \/ \E size \in Sizes : PushTx(app, size) \/ PushRx(app, size)
       \/ \E d \in Directions : Pop(app, d)
       \/ \E m \in Marks : Mark(app, m)
       \/ PinRow(app) \/ UnpinRow(app)
       \/ \E byPump \in BOOLEAN : OpenSocket(app, byPump)
       \/ Retire(app) \/ Unown(app)
  \/ ClockTick

SocketsSpec == SocketsInit /\ [][SocketsNext]_sockVars

-----------------------------------------------------------------------------
SumQueued == SumTo([i \in Index |-> Queued(i)], SockRows)

(* No datagram is lost in silence: every one that was pushed is queued, was *)
(* popped, or is in exactly one of the three counters, through evictions,   *)
(* closes and both budgets (udp_state.hpp 340-343, 427-432).                *)
NoSilentLoss ==
  pushed = popped + dropped + discarded + refused + SumQueued

(* Both budgets of every queue hold, and the running byte count is the sum  *)
(* of what is queued, so that a queue is never throttled by bytes that are  *)
(* gone; live_rows() counts the rows in use (udp_state.hpp 427-429,         *)
(* 585-594).                                                                *)
BudgetsExact ==
  /\ rows_used = Cardinality(Used)
  /\ \A i \in Index, d \in Directions :
       LET q == rows[i].queue[d] IN
       /\ Len(q) <= MaxDatagrams /\ rows[i].bytes[d] <= MaxBytes
       /\ rows[i].bytes[d] = Total(q, Len(q))

(* A socket never inherits what was for the one that had its value before   *)
(* it, be it queued then or delivered late, until a whole quarantine of     *)
(* insertions has passed since that one was retired (udp_state.hpp 68-72,   *)
(* 408-410).  A close that finds no row, its row evicted before, starts no  *)
(* quarantine.                                                              *)
NothingInherited ==
  \A i \in Used : \A d \in Directions : \A k \in 1..Len(rows[i].queue[d]) :
    LET app == rows[i].app IN
    \/ rows[i].queue[d][k].life = life[app]
    \/ retiredAt[app] = -1
    \/ insertions >= retiredAt[app] + KeyQuarantine
=============================================================================
