----------------------------- MODULE ReportQueue -----------------------------
(***************************************************************************)
(* blocking_queue<T> of src/src/common/queue.hpp: a std::queue under a     *)
(* mutex, woken by the tokens of an asio channel.  Any thread pushes; the  *)
(* pops and cancel() run on the one io thread that owns the channel.       *)
(*                                                                         *)
(* An item is its push number, given out under the queue's lock.  The asio *)
(* channel is external: what is kept of it is how many tokens it holds     *)
(* (buffered), how many sends wait for room (sends) and who waits to       *)
(* receive (a popper in state "parked").                                   *)
(***************************************************************************)
EXTENDS Naturals, Sequences, FiniteSets

CONSTANTS Capacity,   \* items the queue may hold; 0 is "unbounded"
          MaxTokens,  \* tokens the channel buffers before a send has to wait
          Poppers,    \* the coroutines that call pop()
          MaxPush     \* bound: pushes in one behaviour

ASSUME QueueAssumption == /\ Capacity \in Nat
                          /\ MaxTokens \in Nat \ {0}
                          /\ MaxPush \in Nat
                          /\ IsFiniteSet(Poppers)

VARIABLES qu,        \* _qu, oldest first
          pushed,    \* how many pushes have been made
          popped,    \* how many items pop() has returned
          drops,     \* _drops
          unsent,    \* sends spawned by push() that the io thread has not run
          sends,     \* sends parked in the channel, its buffer being full
          buffered,  \* tokens in the channel's buffer
          popper,    \* where each popper stands in pop()
          cancelPc,  \* how far the io thread is inside cancel()
          stranded   \* cancel()'s local count of what it drained

queueVars == <<qu, pushed, popped, drops, unsent, sends, buffered, popper,
               cancelPc, stranded>>

Parked  == {p \in Poppers : popper[p] = "parked"}
Granted == {p \in Poppers : popper[p] = "granted"}

(* What every variable ranges over, and the item bound of push(): a bounded *)
(* queue never holds more than Capacity reports, whoever pushes and whether *)
(* or not anybody pops (queue.hpp, M5).                                     *)
QueueTypeOK ==
  /\ qu \in Seq(Nat)
  /\ Capacity # 0 => Len(qu) <= Capacity
  /\ pushed \in Nat /\ popped \in Nat /\ drops \in Nat /\ stranded \in Nat
  /\ unsent \in Nat /\ sends \in Nat /\ buffered \in 0..MaxTokens
  /\ popper \in [Poppers -> {"idle", "parked", "granted", "cancelled"}]
  /\ cancelPc \in {"no", "drain", "count"}

QueueInit ==
  /\ qu = <<>> /\ pushed = 0 /\ popped = 0 /\ drops = 0
  /\ unsent = 0 /\ sends = 0 /\ buffered = 0
  /\ popper = [p \in Poppers |-> "idle"]
  /\ cancelPc = "no" /\ stranded = 0

-----------------------------------------------------------------------------
(* push(): any thread.  At capacity the oldest item goes, with the token it *)
(* owned left for the newcomer; otherwise one send is spawned.  The spawn   *)
(* comes after the unlock, but it only queues a handler, so a token that is *)
(* about to be spawned and one that is spawned are the same "unsent" token. *)
OverflowLate == Capacity # 0 /\ Len(qu) > Capacity   \* mutant: off by one

Overflow == Capacity # 0 /\ Len(qu) >= Capacity

(* Mutant: the bounded queue refuses the newcomer's place at the tail.      *)
PushDropsNewest ==
  /\ pushed < MaxPush
  /\ pushed' = pushed + 1
  /\ IF Overflow
       THEN /\ qu' = [qu EXCEPT ![Len(qu)] = pushed + 1]
            /\ drops' = drops + 1
            /\ UNCHANGED unsent
       ELSE /\ qu' = Append(qu, pushed + 1)
            /\ unsent' = unsent + 1
            /\ UNCHANGED drops
  /\ UNCHANGED <<popped, sends, buffered, popper, cancelPc, stranded>>

(* Mutant: a token is sent only when the queue was empty.                   *)
PushWakesOnce ==
  /\ pushed < MaxPush
  /\ pushed' = pushed + 1
  /\ IF Overflow
       THEN /\ qu' = Append(Tail(qu), pushed + 1)
            /\ drops' = drops + 1
            /\ UNCHANGED unsent
       ELSE /\ qu' = Append(qu, pushed + 1)
            /\ unsent' = IF qu = <<>> THEN unsent + 1 ELSE unsent
            /\ UNCHANGED drops
  /\ UNCHANGED <<popped, sends, buffered, popper, cancelPc, stranded>>

Push ==
  /\ pushed < MaxPush
  /\ pushed' = pushed + 1
  /\ IF Overflow
       THEN /\ qu' = Append(Tail(qu), pushed + 1)
            /\ drops' = drops + 1
            /\ UNCHANGED unsent
       ELSE /\ qu' = Append(qu, pushed + 1)
            /\ unsent' = unsent + 1
            /\ UNCHANGED drops
  /\ UNCHANGED <<popped, sends, buffered, popper, cancelPc, stranded>>

-----------------------------------------------------------------------------
(* The io thread runs one handler at a time, and none while it is inside    *)
(* cancel().                                                                *)
IoFree == cancelPc = "no"

(* The channel runs a spawned async_send: hand the token to a parked        *)
(* receiver, or buffer it, or park the send.                                *)
SendToken ==
  /\ IoFree
  /\ unsent > 0
  /\ unsent' = unsent - 1
  /\ \/ /\ \E p \in Parked : popper' = [popper EXCEPT ![p] = "granted"]
        /\ UNCHANGED <<sends, buffered>>
     \/ /\ Parked = {}
        /\ buffered < MaxTokens
        /\ buffered' = buffered + 1
        /\ UNCHANGED <<sends, popper>>
     \/ /\ Parked = {}
        /\ buffered = MaxTokens
        /\ sends' = sends + 1
        /\ UNCHANGED <<buffered, popper>>
  /\ UNCHANGED <<qu, pushed, popped, drops, cancelPc, stranded>>

(* chan.async_receive: a buffered token is taken at once (and a parked send *)
(* refills the buffer), though the coroutine resumes only later; with none, *)
(* the coroutine parks.                                                     *)
Receive(p) ==
  \/ /\ buffered > 0
     /\ IF sends > 0 THEN sends' = sends - 1 /\ UNCHANGED buffered
                     ELSE buffered' = buffered - 1 /\ UNCHANGED sends
     /\ popper' = [popper EXCEPT ![p] = "granted"]
  \/ /\ buffered = 0
     /\ popper' = [popper EXCEPT ![p] = "parked"]
     /\ UNCHANGED <<sends, buffered>>

(* pop() is entered.                                                        *)
Pop(p) ==
  /\ IoFree
  /\ popper[p] = "idle"
  /\ Receive(p)
  /\ UNCHANGED <<qu, pushed, popped, drops, unsent, cancelPc, stranded>>

(* pop() resumes with a token and an item is there: it is returned.         *)
TakeItem(p) ==
  /\ IoFree
  /\ popper[p] = "granted"
  /\ qu # <<>>
  /\ qu' = Tail(qu)
  /\ popped' = popped + 1
  /\ popper' = [popper EXCEPT ![p] = "idle"]
  /\ UNCHANGED <<pushed, drops, unsent, sends, buffered, cancelPc, stranded>>

(* pop() resumes with a token and nothing is there: the token is skipped    *)
(* and the loop receives again, in the same handler.                        *)
SkipToken(p) ==
  /\ IoFree
  /\ popper[p] = "granted"
  /\ qu = <<>>
  /\ Receive(p)
  /\ UNCHANGED <<qu, pushed, popped, drops, unsent, cancelPc, stranded>>

(* pop() resumes with channel_cancelled, which it rethrows.                 *)
Rethrow(p) ==
  /\ IoFree
  /\ popper[p] = "cancelled"
  /\ popper' = [popper EXCEPT ![p] = "idle"]
  /\ UNCHANGED <<qu, pushed, popped, drops, unsent, sends, buffered, cancelPc,
                 stranded>>

-----------------------------------------------------------------------------
(* cancel(), three steps: chan.cancel(); drain under the lock; count.  The  *)
(* io thread does nothing else between them, but other threads push.        *)
ChannelCancel ==
  /\ sends' = 0
  /\ popper' = [p \in Poppers |->
                  IF popper[p] = "parked" THEN "cancelled" ELSE popper[p]]

CancelChannel ==
  /\ IoFree
  /\ ChannelCancel
  /\ cancelPc' = "drain"
  /\ UNCHANGED <<qu, pushed, popped, drops, unsent, buffered, stranded>>

(* Mutant: what is drained is not counted.                                  *)
CancelDrainSilently ==
  /\ cancelPc = "drain"
  /\ qu' = <<>>
  /\ cancelPc' = "count"
  /\ UNCHANGED <<pushed, popped, drops, unsent, sends, buffered, popper,
                 stranded>>

CancelDrain ==
  /\ cancelPc = "drain"
  /\ stranded' = Len(qu)
  /\ qu' = <<>>
  /\ cancelPc' = "count"
  /\ UNCHANGED <<pushed, popped, drops, unsent, sends, buffered, popper>>

CancelCount ==
  /\ cancelPc = "count"
  /\ drops' = drops + stranded
  /\ stranded' = 0
  /\ cancelPc' = "no"
  /\ UNCHANGED <<qu, pushed, popped, unsent, sends, buffered, popper>>

-----------------------------------------------------------------------------
QueueNext ==
  \/ Push
  \/ SendToken
  \/ \E p \in Poppers : Pop(p) \/ TakeItem(p) \/ SkipToken(p) \/ Rethrow(p)
  \/ CancelChannel \/ CancelDrain \/ CancelCount

QueueSpec == QueueInit /\ [][QueueNext]_queueVars

(* The io thread keeps running its handlers and finishes a cancel() it has  *)
(* begun, and a consumer that is out of pop() calls it again.  Neither a    *)
(* push nor a new cancel() is owed.                                         *)
QueueFairness ==
  /\ WF_queueVars(SendToken)
  /\ WF_queueVars(CancelDrain \/ CancelCount)
  /\ \A p \in Poppers :
       WF_queueVars(Pop(p) \/ TakeItem(p) \/ SkipToken(p) \/ Rethrow(p))

FairQueueSpec == QueueSpec /\ QueueFairness

-----------------------------------------------------------------------------
(* Every report pushed is popped, dropped (by an eviction or a cancel) or   *)
(* still queued, in every interleaving of pushing threads with a pop or a   *)
(* cancel: queue.hpp 143-146.  What cancel() has drained and not yet added  *)
(* to _drops is its local count.                                            *)
Conservation == pushed = popped + drops + Len(qu) + stranded

(* What is queued is the newest run of pushes, in push order, with no gap:  *)
(* an eviction takes the oldest, and a report that was popped, evicted or   *)
(* drained never comes back (queue.hpp 46-50, 74).                          *)
NewestKept == \A i \in 1..Len(qu) : qu[i] + Len(qu) = pushed + i

(* No lost wakeup: for every queued item a token is on its way, in the      *)
(* channel or in the hands of a popper that is about to take an item.  An   *)
(* eviction leaves the victim's token to the newcomer, and a cancel() that  *)
(* aborts sends also empties the queue; only between those two steps of     *)
(* cancel(), while the io thread is inside it, may tokens be short.         *)
NoLostWakeup ==
  cancelPc # "drain" =>
    Len(qu) <= unsent + sends + buffered + Cardinality(Granted)

(* A queued report does not wait for ever: it is popped, evicted or drained *)
(* as long as the io thread runs and its consumers keep popping.            *)
Drained ==
  \A n \in 1..MaxPush :
    (\E i \in 1..Len(qu) : qu[i] = n) ~> ~(\E i \in 1..Len(qu) : qu[i] = n)
=============================================================================
