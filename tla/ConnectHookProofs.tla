-------------------------- MODULE ConnectHookProofs --------------------------
(***************************************************************************)
(* The capsule's promise, for lists of every length: nothing that a proxy  *)
(* is configured for is connected to directly; and what a call leaves of   *)
(* the socket, its link, mode and timeouts.                                *)
(***************************************************************************)
EXTENDS ConnectHook, TLAPS

(* Before the decision a call that is not over a list is at its only        *)
(* address.                                                                 *)
Deciding == {"address", "classify", "report"}
Places == {"done", "scope", "proxy", "handshake", "send", "leave", "restore",
           "original"} \cup Deciding

Destinations == {<<>>} \cup UNION {Arguments(e) : e \in Entries}

CallInv ==
  /\ nbio \in Modes \cup {NoMode}
  /\ call \in [pc : Places,
               entry : Entries, dests : Destinations,
               i : Int, proxy : BOOLEAN, log : BOOLEAN,
               verdict : {"none", "stream", "not_stream", "unknown"},
               saved : Modes \cup {NoMode}, ret : Int, again : BOOLEAN,
               direct : BOOLEAN, disturbed : SUBSET {"mode", "close"}]

(* A call reaches the original entry point with a proxy in its route only   *)
(* on the provider's word that the socket is no stream, or when it names    *)
(* nothing to route; to show that, what is known of the loop is needed: who *)
(* is at which address, and that only the list goes on to another.          *)
DirectInv ==
  /\ call.pc # "done" => ~call.direct
  /\ (call.pc = "original" \/ call.direct) /\ ForProxy =>
       call.verdict = "not_stream"
  /\ call.pc \in Deciding /\ call.entry # "list" =>
       DOMAIN call.dests = {1} /\ call.i = 1
  /\ call.again => call.entry = "list"

(* The ways in which the steps of a detour change the call.                 *)
LEMMA CallSteps ==
  ASSUME CallInv, nbio' = nbio, NEW p \in Places, NEW r \in Int,
         NEW b \in BOOLEAN,
         \/ call' = [call EXCEPT !.pc = p]
         \/ call' = [call EXCEPT !.pc = p, !.ret = r]
         \/ call' = [call EXCEPT !.pc = p, !.i = @ + 1]
         \/ call' = [call EXCEPT !.i = @ + 1]
         \/ call' = [call EXCEPT !.pc = p, !.ret = r, !.again = b]
         \/ call' = [call EXCEPT !.pc = p, !.ret = r, !.direct = TRUE]
  PROVE  CallInv'
<1> USE DEF CallInv
<1>1. CASE call' = [call EXCEPT !.pc = p]
  BY <1>1
<1>2. CASE call' = [call EXCEPT !.pc = p, !.ret = r]
  BY <1>2
<1>3. CASE call' = [call EXCEPT !.pc = p, !.i = @ + 1]
  <2>1. PICK j \in Int : call' = [call EXCEPT !.pc = p, !.i = j]
    <3>1. call.i + 1 \in Int
      OBVIOUS
    <3> QED
      BY <1>3, <3>1
  <2> QED
    BY <2>1
<1>4. CASE call' = [call EXCEPT !.i = @ + 1]
  BY <1>4
<1>5. CASE call' = [call EXCEPT !.pc = p, !.ret = r, !.again = b]
  BY <1>5
<1>6. CASE call' = [call EXCEPT !.pc = p, !.ret = r, !.direct = TRUE]
  BY <1>6
<1> QED
  BY <1>1, <1>2, <1>3, <1>4, <1>5, <1>6

(* The record of the call keeps its type.                                   *)
LEMMA CallTyped == HookSpec => []CallInv
<1>1. HookInit => CallInv
  BY DEF HookInit, CallInv, NoCall, Entries, NoMode, Modes, Destinations, Places
<1>2. CallInv /\ [HookNext]_vars => CallInv'
  <2> SUFFICES ASSUME CallInv, [HookNext]_vars PROVE CallInv'
    OBVIOUS
  <2>0. /\ Failure \in Int /\ Success \in Int
        /\ Deciding \subseteq Places /\ "original" \in Places
        /\ "done" \in Places /\ "scope" \in Places /\ "proxy" \in Places
        /\ "handshake" \in Places /\ "send" \in Places /\ "leave" \in Places
    BY DEF Failure, Success, Places, Deciding
  <2>1. CASE Bind \/ (\E r \in Routes : SetRoute(r)) \/ UNCHANGED vars
    BY <2>1 DEF Bind, SetRoute, vars, CallInv
  <2>2. CASE OtherThread
    BY <2>2 DEF OtherThread, StoreMode, KernelMode, EraseMode, KernelClose,
                Reopen, Disturb, CallInv
  <2>3. ASSUME NEW e \in Entries, NEW ds \in Arguments(e), Begin(e, ds)
        PROVE  CallInv'
    <3> DEFINE gate == ConfigBound /\ (e \in {"connect", "ex"} => Gated(ds[1]))
               pc   == IF gate THEN "address" ELSE "original"
               pr   == gate /\ route.proxy
               lg   == gate /\ route.log /\ QueueBound
    <3>1. /\ pr \in BOOLEAN
          /\ lg \in BOOLEAN
      OBVIOUS
    <3>2. ds \in Destinations
      BY DEF Destinations
    <3>3. pc \in Places
      BY <2>0 DEF Deciding
    <3>4. call' = [NoCall EXCEPT !.pc = pc, !.entry = e, !.dests = ds,
                                 !.proxy = pr, !.log = lg]
      BY <2>3 DEF Begin
    <3>5. nbio' = nbio
      BY <2>3 DEF Begin
    <3> HIDE DEF pr, lg, pc
    <3>6. call' = [pc |-> pc, entry |-> e, dests |-> ds, i |-> 1, proxy |-> pr,
                   log |-> lg, verdict |-> "none", saved |-> NoMode, ret |-> -1,
                   again |-> FALSE, direct |-> FALSE, disturbed |-> {}]
      BY <3>4 DEF NoCall
    <3> QED
      BY <3>1, <3>2, <3>3, <3>5, <3>6 DEF CallInv
  <2>4. ASSUME NEW v \in Verdicts, Classify(v) PROVE CallInv'
    <3>1. v \in {"stream", "not_stream", "unknown"} /\ nbio' = nbio
      BY <2>4 DEF Classify, Verdicts
    <3>2. CASE \E q \in Places : call' = [call EXCEPT !.verdict = v, !.pc = q]
      BY <3>1, <3>2 DEF CallInv
    <3>3. CASE call' = [call EXCEPT !.verdict = v, !.pc = "done", !.ret = Failure]
      BY <2>0, <3>1, <3>3 DEF CallInv
    <3> QED
      BY <2>0, <2>4, <3>2, <3>3 DEF Classify, CallInv, Deciding
  <2>5. CASE NextAddress
    BY <2>0, <2>5, CallSteps DEF NextAddress, Go, Finish, Deciding
  <2>6. CASE DontClassify
    BY <2>0, <2>6, CallSteps DEF DontClassify, Go, Deciding
  <2>7. CASE Report
    BY <2>0, <2>7, CallSteps DEF Report, Go, Finish, Unproxied, Deciding
  <2>8. CASE EnterScope
    BY <2>0, <2>8, CallSteps DEF EnterScope, Go
  <2>9. CASE ProxyConnect
    <3>1. nbio' = nbio /\ -1 \in Int
      BY <2>9 DEF ProxyConnect
    <3>2. \/ call' = [call EXCEPT !.pc = "handshake"]
          \/ call' = [call EXCEPT !.pc = "leave", !.ret = -1]
      BY <2>9 DEF ProxyConnect, Go
    <3> QED
      BY <2>0, <3>1, <3>2, CallSteps
  <2>10. CASE Handshake
    <3>1. nbio' = nbio /\ (call.entry = "list") \in BOOLEAN
      BY <2>10 DEF Handshake
    <3>2. CASE Go("send")
      BY <2>0, <3>1, <3>2, CallSteps DEF Go
    <3>3. ASSUME NEW b \in BOOLEAN,
                 call' = [call EXCEPT !.pc = "leave", !.ret = Failure, !.again = b]
          PROVE  CallInv'
      BY <2>0, <3>1, <3>3 DEF CallInv
    <3> QED
      BY <2>10, <3>1, <3>2, <3>3 DEF Handshake
  <2>11. CASE Send
    BY <2>0, <2>11, CallSteps DEF Send
  <2>12. CASE LeaveScope
    BY <2>12 DEF LeaveScope, CallInv, Places
  <2>13. CASE Restore
    <3>1. nbio' = nbio /\ NoMode \in Modes \cup {NoMode}
      BY <2>13 DEF Restore
    <3>2. CASE call' = [call EXCEPT !.pc = "address", !.i = @ + 1,
                                    !.again = FALSE, !.saved = NoMode]
      <4>1. PICK j \in Int : call' = [call EXCEPT !.pc = "address", !.i = j,
                                           !.again = FALSE, !.saved = NoMode]
        <5>1. call.i + 1 \in Int
          BY DEF CallInv
        <5> QED
          BY <3>2, <5>1
      <4>2. "address" \in Places
        BY <2>0 DEF Deciding
      <4> QED
        BY <3>1, <4>1, <4>2 DEF CallInv
    <3>3. CASE call' = [call EXCEPT !.pc = "done", !.saved = NoMode]
      BY <3>1, <3>3, <2>0 DEF CallInv
    <3> QED
      BY <2>13, <3>2, <3>3 DEF Restore, LeftScope
  <2>14. CASE Original
    BY <2>0, <2>14, CallSteps DEF Original
  <2> QED
    BY <2>1, <2>2, <2>3, <2>4, <2>5, <2>6, <2>7, <2>8, <2>9, <2>10, <2>11,
       <2>12, <2>13, <2>14
    DEF HookNext, Detour
<1> QED
  BY <1>1, <1>2, PTL DEF HookSpec

-----------------------------------------------------------------------------
(* What of a call the properties look at.                                   *)
Outline(c) == <<c.pc, c.entry, c.dests, c.i, c.proxy, c.verdict, c.direct,
                c.again>>

(* A step that leaves the outline of the call alone keeps DirectInv.        *)
LEMMA OutlineKept ==
  ASSUME DirectInv, Outline(call') = Outline(call)
  PROVE  DirectInv'
  BY DEF DirectInv, Outline, ForProxy

(* An argument that is not a list is one address.                           *)
LEMMA SingleAddress ==
  ASSUME NEW e \in Entries, e # "list", NEW ds \in Arguments(e)
  PROVE  DOMAIN ds = {1}
  BY DEF Entries, Arguments, Singles

(* Whatever the detour does next, a proxied destination stays off the       *)
(* original entry point.                                                    *)
LEMMA DirectKept == HookSpec => []DirectInv
<1>1. HookInit => DirectInv
  BY DEF HookInit, DirectInv, NoCall, ForProxy, Deciding
<1>2. CallInv /\ DirectInv /\ [HookNext]_vars => DirectInv'
  <2> SUFFICES ASSUME CallInv, DirectInv, [HookNext]_vars PROVE DirectInv'
    OBVIOUS
  <2>1. CASE Bind \/ (\E r \in Routes : SetRoute(r)) \/ UNCHANGED vars
    BY <2>1, OutlineKept DEF Bind, SetRoute, vars, Outline
  <2>2. CASE OtherThread
    <3>1. call' = [call EXCEPT !.disturbed = call'.disturbed]
      BY <2>2 DEF OtherThread, StoreMode, KernelMode, EraseMode, KernelClose,
                  Reopen, Disturb, CallInv
    <3> QED
      BY <3>1, OutlineKept DEF Outline, CallInv
  <2>3. ASSUME NEW e \in Entries, NEW ds \in Arguments(e), Begin(e, ds)
        PROVE  DirectInv'
    BY <2>3, SingleAddress DEF Begin, NoCall, DirectInv, ForProxy, Deciding
  <2>4. ASSUME NEW v \in Verdicts, Classify(v) PROVE DirectInv'
    BY <2>4, ZenonT(60) DEF Classify, Verdicts, DirectInv, CallInv, ForProxy, Deciding
  <2>5. CASE NextAddress
    BY <2>5, ZenonT(60) DEF NextAddress, Go, Finish, DirectInv, CallInv, ForProxy, Deciding
  <2>6. CASE DontClassify
    BY <2>6 DEF DontClassify, Go, DirectInv, CallInv, ForProxy, Deciding
  <2>7. CASE Report
    <3> USE DEF DirectInv, CallInv, ForProxy, Deciding
    <3>1. call.pc = "report" /\ ~call.direct
      BY <2>7 DEF Report
    <3>2. CASE Finish(Failure) \/ call' = [call EXCEPT !.pc = "scope"]
      BY <3>1, <3>2 DEF Finish
    <3>3. CASE Go("original") /\ ~call.proxy
      BY <3>1, <3>3 DEF Go
    <3>4. CASE call' = Unproxied /\ ~(call.proxy /\ Dest # "proxy")
      <4>1. ForProxy => call.entry = "list"
        BY <3>1, <3>4 DEF Dest, Routable
      <4>2. /\ call'.pc = IF call.entry = "list" THEN "address" ELSE "original"
            /\ call'.entry = call.entry /\ call'.dests = call.dests
            /\ call'.proxy = call.proxy /\ call'.direct = call.direct
            /\ call'.again = call.again
        BY <3>4 DEF Unproxied
      <4> QED
        BY <3>1, <4>1, <4>2
    <3> QED
      BY <2>7, <3>2, <3>3, <3>4 DEF Report
  <2>8. CASE EnterScope
    BY <2>8 DEF EnterScope, Go, DirectInv, CallInv, ForProxy, Deciding
  <2>9. CASE ProxyConnect
    BY <2>9 DEF ProxyConnect, Go, DirectInv, CallInv, ForProxy, Deciding
  <2>10. CASE Handshake
    BY <2>10 DEF Handshake, Go, DirectInv, CallInv, ForProxy, Deciding
  <2>11. CASE Send
    BY <2>11, ZenonT(60) DEF Send, DirectInv, CallInv, ForProxy, Deciding
  <2>12. CASE LeaveScope
    BY <2>12 DEF LeaveScope, DirectInv, CallInv, ForProxy, Deciding
  <2>13. CASE Restore
    BY <2>13 DEF Restore, LeftScope, DirectInv, CallInv, ForProxy, Deciding
  <2>14. CASE Original
    BY <2>14, ZenonT(60) DEF Original, DirectInv, CallInv, ForProxy, Deciding
  <2> QED
    BY <2>1, <2>2, <2>3, <2>4, <2>5, <2>6, <2>7, <2>8, <2>9, <2>10, <2>11,
       <2>12, <2>13, <2>14
    DEF HookNext, Detour
<1> QED
  BY <1>1, <1>2, CallTyped, PTL DEF HookSpec

(* The capsule's promise (hook.hpp 166-211): a call whose route has a proxy *)
(* and that names a destination to route never reaches the original entry   *)
(* point unless the provider said that the socket is no stream, in every    *)
(* interleaving, for every list, whatever fails.                            *)
THEOREM NeverRoutedDirect == HookSpec => []NeverDirect
<1>1. DirectInv => NeverDirect
  BY DEF DirectInv, NeverDirect
<1> QED
  BY <1>1, DirectKept, PTL

-----------------------------------------------------------------------------
Links   == {"none", "direct", "raw", "pending", "tunnel", "shut"}
Owners  == {"own", "handshake"}
Sockets == [open : BOOLEAN, type : Types, mode : Modes, asked : Modes,
            crossed : BOOLEAN, link : Links, timeo : Owners]
Pending == [op : {"none", "mode", "close"}, mode : Modes \cup {NoMode}]

InScope == {"proxy", "handshake", "send", "leave", "restore"}

(* The record agrees with the socket when no change is half done.           *)
Settled == other = Nothing /\ nbio # NoMode

(* ModeRestored needs what the record and the remembered mode stand for     *)
(* while a scope is open: the record is the mode the host asked for, or is  *)
(* about to be, and what a scope remembers is the record unless the mode    *)
(* was set since.                                                           *)
ModeInv ==
  /\ sock \in Sockets /\ other \in Pending /\ bound \in Nat
  /\ other.op = "none" => other = Nothing
  /\ nbio # NoMode => MapBound /\ sock.open
  /\ other.op = "close" => nbio = NoMode
  /\ other.op = "mode" =>
       sock.open /\ other.mode \in Modes /\ (nbio # NoMode => nbio = other.mode)
  /\ Settled => nbio = sock.asked
  /\ call.pc = "restore" /\ Settled /\ ~sock.crossed => call.saved = nbio
  /\ call.pc \notin InScope =>
       /\ sock.open => sock.timeo = "own"
       /\ Settled /\ ~sock.crossed => sock.mode = sock.asked

(* A bare link to the proxy is one that the handshake is about to settle.   *)
LinkInv == sock.link = "raw" => call.pc = "handshake"

SameSocket ==
  /\ sock'.open = sock.open /\ sock'.mode = sock.mode /\ sock'.asked = sock.asked
  /\ sock'.crossed = sock.crossed /\ sock'.timeo = sock.timeo

(* Changing the link changes nothing else of the socket.                    *)
LEMMA LinkEdit ==
  ASSUME sock \in Sockets, NEW l \in Links, sock' = [sock EXCEPT !.link = l]
  PROVE  sock' \in Sockets /\ SameSocket /\ sock'.link = l
<1> HIDE DEF Links
<1> QED
  BY DEF Sockets, SameSocket

(* A step keeps ModeInv when it leaves the socket alone and does not leave  *)
(* a scope.                                                                 *)
LEMMA ModeKept ==
  ASSUME ModeInv, sock' \in Sockets, SameSocket, bound' \in Nat, bound' >= bound,
         UNCHANGED <<nbio, other>>,
         \/ call'.pc = call.pc /\ call'.saved = call.saved
         \/ call'.pc \in InScope \ {"restore"}
         \/ call'.pc \notin InScope /\ call.pc \notin InScope
  PROVE  ModeInv'
  BY DEF ModeInv, SameSocket, Settled, MapBound, InScope

(* The other thread's steps leave the place of the call and what it         *)
(* remembers alone.                                                         *)
LEMMA OtherSteps ==
  ASSUME CallInv, ModeInv, LinkInv, OtherThread
  PROVE  ModeInv' /\ LinkInv'
<1>1. call'.pc = call.pc /\ call'.saved = call.saved
  BY DEF OtherThread, StoreMode, KernelMode, EraseMode, KernelClose, Reopen,
         Disturb, CallInv
<1>2. ASSUME NEW m \in Modes, StoreMode(m) PROVE ModeInv' /\ LinkInv'
  <2>1. /\ other = Nothing /\ sock.open /\ UNCHANGED <<bound, sock>>
        /\ nbio' = IF MapBound THEN m ELSE nbio
        /\ other' = [op |-> "mode", mode |-> m]
    BY <1>2 DEF StoreMode
  <2>2. /\ other'.op = "mode" /\ other'.mode = m /\ other' # Nothing
        /\ other' \in Pending
    BY <2>1 DEF Pending, Nothing
  <2>3. MapBound' = MapBound /\ m # NoMode
    BY <2>1 DEF MapBound, Modes, NoMode
  <2> QED
    BY <1>1, <2>1, <2>2, <2>3 DEF ModeInv, LinkInv, Settled
<1>3. CASE KernelMode
  <2>1. other.op = "mode" /\ other.mode \in Modes /\ sock \in Sockets
    BY <1>3 DEF KernelMode, ModeInv
  <2>2. PICK m \in Modes, c \in BOOLEAN :
          /\ m = other.mode /\ c = (call.pc = "restore")
          /\ sock' = [sock EXCEPT !.mode = m, !.asked = m, !.crossed = c]
    BY <1>3, <2>1 DEF KernelMode
  <2>3. /\ sock' \in Sockets /\ sock'.mode = m /\ sock'.asked = m /\ sock'.crossed = c
        /\ sock'.open = sock.open /\ sock'.timeo = sock.timeo
        /\ sock'.link = sock.link
    BY <2>1, <2>2 DEF Sockets
  <2>4. /\ other' = Nothing /\ UNCHANGED <<bound, nbio>> /\ Nothing.op = "none"
        /\ Nothing \in Pending
    BY <1>3 DEF KernelMode, Nothing, Pending
  <2> QED
    BY <1>1, <2>1, <2>2, <2>3, <2>4 DEF ModeInv, LinkInv, Settled, MapBound
<1>4. CASE EraseMode
  <2>1. /\ other = Nothing /\ UNCHANGED <<bound, sock>> /\ nbio' = NoMode
        /\ other' = [op |-> "close", mode |-> NoMode]
    BY <1>4 DEF EraseMode
  <2>2. other'.op = "close" /\ other' \in Pending
    BY <2>1 DEF Pending
  <2> QED
    BY <1>1, <2>1, <2>2 DEF ModeInv, LinkInv, Settled
<1>5. CASE KernelClose
  <2>1. /\ other.op = "close" /\ nbio = NoMode /\ sock \in Sockets
        /\ sock' = [sock EXCEPT !.open = FALSE, !.link = "none"]
        /\ other' = Nothing /\ UNCHANGED <<bound, nbio>>
    BY <1>5 DEF KernelClose, ModeInv
  <2>2. "none" \in Links
    BY DEF Links
  <2>3. sock' \in Sockets /\ sock'.open = FALSE /\ sock'.link = "none"
    BY <2>1, <2>2 DEF Sockets
  <2>4. Nothing.op = "none" /\ Nothing \in Pending
    BY DEF Nothing, Pending
  <2> QED
    BY <1>1, <2>1, <2>3, <2>4 DEF ModeInv, LinkInv, Settled
<1>6. ASSUME NEW t \in Types, Reopen(t) PROVE ModeInv' /\ LinkInv'
  <2>1. /\ ~sock.open /\ UNCHANGED <<bound, nbio, other>>
        /\ sock' = [open |-> TRUE, type |-> t, mode |-> "blocking",
                    asked |-> "blocking", crossed |-> FALSE, link |-> "none",
                    timeo |-> "own"]
    BY <1>6 DEF Reopen
  <2>2. "none" \in Links /\ "own" \in Owners /\ "blocking" \in Modes
    BY DEF Links, Owners, Modes
  <2>3. /\ sock' \in Sockets /\ sock'.open /\ sock'.link = "none"
        /\ sock'.mode = sock'.asked /\ sock'.timeo = "own"
    BY <2>1, <2>2 DEF Sockets
  <2>4. nbio = NoMode
    BY <2>1 DEF ModeInv
  <2> QED
    BY <1>1, <2>1, <2>3, <2>4 DEF ModeInv, LinkInv, Settled
<1> QED
  BY <1>2, <1>3, <1>4, <1>5, <1>6 DEF OtherThread

(* Each of the detour's own steps keeps both parts.                         *)
LEMMA DetourSteps ==
  ASSUME CallInv, ModeInv, LinkInv, Detour
  PROVE  ModeInv' /\ LinkInv'
<1>0. sock \in Sockets /\ bound \in Nat /\ bound >= bound
  BY DEF ModeInv
<1>1. ASSUME sock' = sock \/ \E l \in Links : sock' = [sock EXCEPT !.link = l]
      PROVE  sock' \in Sockets /\ SameSocket
  <2>1. CASE sock' = sock
    BY <1>0, <2>1 DEF SameSocket
  <2> QED
    BY <1>0, <1>1, <2>1, LinkEdit
<1>2. ShutDown = sock \/ ShutDown = [sock EXCEPT !.link = "shut"]
  BY <1>0 DEF ShutDown, Sockets
<1>3. /\ "shut" \in Links /\ "direct" \in Links /\ "raw" \in Links
      /\ "pending" \in Links /\ "tunnel" \in Links
  BY DEF Links
<1>4. ASSUME sock' = sock \/ sock' = ShutDown
      PROVE  /\ sock' \in Sockets /\ SameSocket
             /\ sock'.link = "raw" => sock' = sock
  <2>1. CASE sock' = sock
    BY <1>0, <2>1 DEF SameSocket
  <2>2. CASE sock' = [sock EXCEPT !.link = "shut"]
    <3>1. sock' \in Sockets /\ SameSocket /\ sock'.link = "shut"
      BY <1>0, <1>3, <2>2, LinkEdit
    <3> QED
      BY <3>1
  <2> QED
    BY <1>2, <1>4, <2>1, <2>2
(* Before the scope and after it.                                           *)
<1>5. ASSUME call.pc \notin InScope, call'.pc \notin InScope,
             UNCHANGED <<bound, nbio, other>>, sock' = sock \/ sock' = ShutDown
      PROVE  ModeInv' /\ LinkInv'
  <2>1. ModeInv'
    BY <1>0, <1>4, <1>5, ModeKept
  <2>2. LinkInv'
    BY <1>4, <1>5 DEF LinkInv, InScope
  <2> QED
    BY <2>1, <2>2
<1>6. CASE NextAddress
  <2>1. call.pc = "address" /\ call'.pc \in {"done", "original", "address", "classify"}
    BY <1>6 DEF NextAddress, Finish, Go, CallInv
  <2> QED
    BY <1>5, <1>6, <2>1 DEF NextAddress, InScope
<1>7. ASSUME NEW v \in Verdicts, Classify(v) PROVE ModeInv' /\ LinkInv'
  <2>1. call.pc = "classify" /\ call'.pc \in {"report", "done", "original"}
    BY <1>7 DEF Classify, CallInv
  <2>2. sock' = sock \/ sock' = ShutDown
    BY <1>7 DEF Classify
  <2> QED
    BY <1>5, <1>7, <2>1, <2>2 DEF Classify, InScope
<1>8. CASE DontClassify
  <2>1. call.pc = "classify" /\ call'.pc = "report"
    BY <1>8 DEF DontClassify, Go, CallInv
  <2> QED
    BY <1>5, <1>8, <2>1 DEF DontClassify, InScope
<1>9. CASE Report
  <2>1. /\ call.pc = "report"
        /\ call'.pc \in {"done", "original", "scope", "address"}
    BY <1>9 DEF Report, Finish, Go, Unproxied, CallInv
  <2>2. sock' = sock \/ sock' = ShutDown
    BY <1>9 DEF Report
  <2> QED
    BY <1>5, <1>9, <2>1, <2>2 DEF Report, InScope
<1>10. CASE EnterScope
  <2>1. /\ call.pc = "scope" /\ call'.pc = "proxy" /\ UNCHANGED <<bound, nbio, other>>
        /\ \/ sock' = sock
           \/ sock' = [sock EXCEPT !.mode = "blocking", !.timeo = "handshake"]
    BY <1>10 DEF EnterScope, Go, CallInv
  <2>2. "handshake" \in Owners /\ "blocking" \in Modes
    BY DEF Owners, Modes
  <2>3. /\ sock' \in Sockets /\ sock'.open = sock.open /\ sock'.asked = sock.asked
        /\ sock'.crossed = sock.crossed /\ sock'.link = sock.link
    BY <1>0, <2>1, <2>2 DEF Sockets
  <2> QED
    BY <2>1, <2>3 DEF ModeInv, LinkInv, Settled, MapBound, InScope
<1>11. CASE ProxyConnect
  <2>1. call.pc = "proxy" /\ UNCHANGED <<bound, nbio, other>>
    BY <1>11 DEF ProxyConnect
  <2>2. CASE sock' = [sock EXCEPT !.link = "raw"] /\ Go("handshake")
    <3>1. call'.pc = "handshake"
      BY <2>2 DEF Go, CallInv
    <3> QED
      BY <1>0, <1>1, <1>3, <2>1, <2>2, <3>1, ModeKept DEF InScope, LinkInv
  <2>3. CASE /\ sock' = sock \/ sock' = [sock EXCEPT !.link = "pending"]
             /\ call' = [call EXCEPT !.pc = "leave", !.ret = -1]
    <3>1. call'.pc = "leave"
      BY <2>3 DEF CallInv
    <3>2. sock'.link # "raw"
      <4>1. CASE sock' = sock
        BY <2>1, <4>1 DEF LinkInv
      <4>2. CASE sock' = [sock EXCEPT !.link = "pending"]
        BY <1>0, <1>3, <4>2, LinkEdit
      <4> QED
        BY <2>3, <4>1, <4>2
    <3> QED
      BY <1>0, <1>1, <1>3, <2>1, <2>3, <3>1, <3>2, ModeKept DEF InScope, LinkInv
  <2> QED
    BY <1>11, <2>2, <2>3 DEF ProxyConnect
<1>12. CASE Handshake
  <2>1. call.pc = "handshake" /\ UNCHANGED <<bound, nbio, other>>
    BY <1>12 DEF Handshake
  <2>2. CASE sock' = [sock EXCEPT !.link = "tunnel"] /\ Go("send")
    <3>1. call'.pc = "send"
      BY <2>2 DEF Go, CallInv
    <3>2. sock' \in Sockets /\ SameSocket /\ sock'.link = "tunnel"
      BY <1>0, <1>3, <2>2, LinkEdit
    <3> QED
      BY <1>0, <2>1, <3>1, <3>2, ModeKept DEF InScope, LinkInv
  <2>3. CASE /\ sock' = ShutDown
             /\ call' = [call EXCEPT !.pc = "leave", !.ret = Failure,
                                     !.again = (call.entry = "list")]
    <3>1. call'.pc = "leave"
      BY <2>3 DEF CallInv
    <3>2. sock'.link # "raw"
      <4>1. sock.link # "none" => sock' = [sock EXCEPT !.link = "shut"]
        BY <2>3 DEF ShutDown
      <4>2. sock.link # "none" => sock'.link = "shut"
        BY <1>0, <1>3, <4>1, LinkEdit
      <4>3. sock.link = "none" => sock' = sock
        BY <1>0, <2>3 DEF ShutDown, Sockets
      <4> QED
        BY <4>2, <4>3
    <3> QED
      BY <1>0, <1>4, <2>1, <2>3, <3>1, <3>2, ModeKept DEF InScope, LinkInv
  <2> QED
    BY <1>12, <2>2, <2>3 DEF Handshake
<1>13. CASE Send
  <2>1. /\ call.pc = "send" /\ call'.pc = "leave" /\ UNCHANGED <<bound, nbio, other>>
        /\ sock' = sock \/ sock' = ShutDown
    BY <1>13 DEF Send, CallInv
  <2> QED
    BY <1>0, <1>4, <2>1, ModeKept DEF InScope, LinkInv
<1>14. CASE LeaveScope
  <2>1. /\ call.pc = "leave" /\ call'.pc = "restore" /\ call'.saved = nbio
        /\ UNCHANGED <<bound, sock, nbio, other>>
    BY <1>14 DEF LeaveScope, CallInv
  <2> QED
    BY <2>1 DEF ModeInv, LinkInv, Settled, MapBound, InScope
<1>15. CASE Restore
  <2>1. /\ call.pc = "restore" /\ call'.pc \in {"address", "done"}
        /\ UNCHANGED <<bound, nbio, other>> /\ call.saved \in Modes \cup {NoMode}
    BY <1>15 DEF Restore, LeftScope, CallInv
  <2>2. PICK m : m = IF call.saved = NoMode THEN "blocking" ELSE call.saved
    OBVIOUS
  <2>3. m \in Modes /\ "own" \in Owners
    BY <2>1, <2>2 DEF Modes, Owners, NoMode
  <2>4. sock' = IF sock.open THEN [sock EXCEPT !.mode = m, !.timeo = "own"] ELSE sock
    BY <1>15, <2>2 DEF Restore
  <2>5. /\ sock' \in Sockets /\ sock'.open = sock.open /\ sock'.asked = sock.asked
        /\ sock'.crossed = sock.crossed /\ sock'.link = sock.link
        /\ sock.open => sock'.mode = m /\ sock'.timeo = "own"
    BY <1>0, <2>3, <2>4 DEF Sockets
  <2>6. Settled /\ ~sock.crossed => m = sock.asked
    BY <2>1, <2>2 DEF ModeInv, Settled
  <2> QED
    BY <2>1, <2>5, <2>6 DEF ModeInv, LinkInv, Settled, MapBound, InScope
<1>16. CASE Original
  <2>1. /\ call.pc = "original" /\ call'.pc = "done" /\ UNCHANGED <<bound, nbio, other>>
        /\ sock' = sock \/ sock' = [sock EXCEPT !.link = "direct"]
    BY <1>16 DEF Original, CallInv
  <2>2. sock'.link # "raw"
    <3>1. CASE sock' = sock
      BY <2>1, <3>1 DEF LinkInv
    <3>2. CASE sock' = [sock EXCEPT !.link = "direct"]
      BY <1>0, <1>3, <3>2, LinkEdit
    <3> QED
      BY <2>1, <3>1, <3>2
  <2> QED
    BY <1>0, <1>1, <1>3, <2>1, <2>2, ModeKept DEF InScope, LinkInv
<1> QED
  BY <1>6, <1>7, <1>8, <1>9, <1>10, <1>11, <1>12, <1>13, <1>14, <1>15, <1>16
  DEF Detour

(* The detour's steps and the other thread's together.                      *)
LEMMA ModeInductive == HookSpec => [](ModeInv /\ LinkInv)
<1>1. HookInit => ModeInv /\ LinkInv
  <2> SUFFICES ASSUME HookInit PROVE ModeInv /\ LinkInv
    OBVIOUS
  <2>1. PICK t \in Types, m \in Modes :
          sock = [open |-> TRUE, type |-> t, mode |-> m, asked |-> m,
                  crossed |-> FALSE, link |-> "none", timeo |-> "own"]
    BY DEF HookInit
  <2>2. "none" \in Links /\ "own" \in Owners /\ Nothing.op = "none"
        /\ Nothing \in Pending
    BY DEF Links, Owners, Nothing, Pending
  <2>3. /\ sock \in Sockets /\ sock.open /\ sock.timeo = "own"
        /\ sock.mode = sock.asked /\ sock.link = "none"
    BY <2>1, <2>2 DEF Sockets
  <2>4. bound = 0 /\ nbio = NoMode /\ other = Nothing /\ call.pc = "done"
    BY DEF HookInit, NoCall
  <2> QED
    BY <2>2, <2>3, <2>4 DEF ModeInv, LinkInv, Settled
<1>2. ASSUME CallInv, ModeInv, LinkInv, [HookNext]_vars
      PROVE  ModeInv' /\ LinkInv'
  <2>0. sock \in Sockets /\ bound \in Nat
    BY <1>2 DEF ModeInv
  <2>1. CASE Bind \/ (\E r \in Routes : SetRoute(r)) \/ UNCHANGED vars
    <3>1. bound' \in Nat /\ bound' >= bound /\ UNCHANGED <<sock, nbio, call, other>>
      BY <2>0, <2>1 DEF Bind, SetRoute, vars
    <3>2. SameSocket /\ LinkInv'
      BY <1>2, <3>1 DEF SameSocket, LinkInv
    <3> QED
      BY <1>2, <2>0, <3>1, <3>2, ModeKept
  <2>2. ASSUME NEW e \in Entries, NEW ds \in Arguments(e), Begin(e, ds)
        PROVE  ModeInv' /\ LinkInv'
    <3>1. /\ call.pc = "done" /\ UNCHANGED <<bound, sock, nbio, other>>
          /\ call'.pc \in {"address", "original"}
      BY <2>2 DEF Begin, InFlight, NoCall
    <3>2. SameSocket /\ LinkInv'
      BY <1>2, <3>1 DEF SameSocket, LinkInv
    <3> QED
      BY <1>2, <2>0, <3>1, <3>2, ModeKept DEF InScope
  <2> QED
    BY <1>2, <2>1, <2>2, OtherSteps, DetourSteps DEF HookNext
<1> QED
  BY <1>1, <1>2, CallTyped, PTL DEF HookSpec

(* Every failure after the proxy accepted shuts its link down before the    *)
(* call returns, whatever the host does to the socket meanwhile             *)
(* (hook.hpp 594-604).                                                      *)
THEOREM NoLinkLeftBare == HookSpec => []NoBareLink
<1>1. LinkInv => NoBareLink
  BY DEF LinkInv, NoBareLink
<1> QED
  BY <1>1, ModeInductive, PTL

(* Between calls the socket has the mode the host last gave it and its own  *)
(* timeouts, unless the mode was set between the scope's last two steps     *)
(* (hook.hpp, blocking_scope).                                              *)
THEOREM ModeComesBack == HookSpec => []ModeRestored
<1>1. ModeInv => ModeRestored
  BY DEF ModeInv, ModeRestored, Settled, InScope
<1> QED
  BY <1>1, ModeInductive, PTL
=============================================================================
