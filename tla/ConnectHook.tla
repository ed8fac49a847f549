----------------------------- MODULE ConnectHook -----------------------------
(***************************************************************************)
(* The routing detours of src/src/injectee/hook.hpp on one socket handle:  *)
(* connect and WSAConnect ("connect"), WSAConnectByList ("list"),          *)
(* WSAConnectByName ("name") and ConnectEx ("ex"), with blocking_scope and *)
(* the socket-mode record nbio_map.                                        *)
(*                                                                         *)
(* One thread of the host calls a detour; another changes the socket's     *)
(* mode, closes the handle and opens a new one, which gets the same value; *)
(* the client thread binds the globals and changes the route.  A step is   *)
(* what is done under one lock or in one Winsock call.  Winsock, the proxy *)
(* and the destinations are the environment.                               *)
(*                                                                         *)
(* Addresses are told apart as the detours do: "outside" (loopback, or of  *)
(* another family than AF_INET and AF_INET6), "proxy" (the proxy's own),   *)
(* "dest"; and for a WSAConnectByName "named", or "unnamed" when the node  *)
(* or the service is missing or the service has no port.                   *)
(***************************************************************************)
EXTENDS Integers, Sequences, FiniteSets

CONSTANT MaxList   \* bound: addresses in a WSAConnectByList list

ASSUME HookAssumption == MaxList \in Nat \ {0}

VARIABLES bound,   \* globals bound so far: queue, config, nbio_map
          route,   \* what injectee_config::get() returns
          sock,    \* the socket behind the handle
          nbio,    \* nbio_map's entry for the handle
          call,    \* the detour in flight, or the last one
          other    \* what the other thread is inside of

vars == <<bound, route, sock, nbio, call, other>>

Addresses == {"outside", "proxy", "dest"}
Names     == {"named", "unnamed"}
Entries   == {"connect", "list", "name", "ex"}
Routes    == [proxy : BOOLEAN, log : BOOLEAN]

Lists == UNION {[1..n -> Addresses] : n \in 0..MaxList}
Singles(A) == [1..1 -> A]

Arguments(entry) == CASE entry = "list" -> Lists
                      [] entry = "name" -> Singles(Names)
                      [] OTHER          -> Singles(Addresses)

(* Socket types as the provider reports them; a fresh socket is blocking.   *)
Types == {"stream", "dgram"}
Modes == {"blocking", "nonblocking"}
NoMode == "unknown"

NoCall == [pc |-> "done", entry |-> "connect", dests |-> <<>>, i |-> 1,
           proxy |-> FALSE, log |-> FALSE, verdict |-> "none", saved |-> NoMode,
           ret |-> -1, again |-> FALSE, direct |-> FALSE, disturbed |-> {}]

(* Of a socket: `asked` is the mode the host last asked for, `link` what it *)
(* is connected to ("direct", or the proxy: "raw" before the handshake,     *)
(* "pending", "tunnel" after it, or "shut"), `timeo` whose timeouts it has. *)
Nothing == [op |-> "none", mode |-> NoMode]

(* The hooks are enabled before do_client() binds anything, in a process    *)
(* whose sockets may be of any type and mode already.                       *)
HookInit ==
  /\ bound = 0 /\ route = [proxy |-> FALSE, log |-> FALSE]
  /\ \E t \in Types, m \in Modes :
       sock = [open |-> TRUE, type |-> t, mode |-> m, asked |-> m, crossed |-> FALSE,
               link |-> "none", timeo |-> "own"]
  /\ nbio = NoMode
  /\ call = NoCall /\ other = Nothing

QueueBound == bound >= 1
ConfigBound == bound >= 2
MapBound == bound >= 3

-----------------------------------------------------------------------------
(* do_client() publishes the globals one by one and never retires them; a   *)
(* configuration arrives (injectee_config::set).                            *)
Bind == /\ bound < 3 /\ bound' = bound + 1
        /\ UNCHANGED <<route, sock, nbio, call, other>>

SetRoute(r) == /\ ConfigBound /\ route' = r
               /\ UNCHANGED <<bound, sock, nbio, call, other>>

-----------------------------------------------------------------------------
(* The host's other thread.  The ioctlsocket(FIONBIO), WSAAsyncSelect and   *)
(* WSAEventSelect detours store the mode, then call the original; the       *)
(* closesocket detour forgets it, then calls the original.                  *)
InFlight == call.pc # "done"

(* For the properties: what befell the socket since the call began, and in  *)
(* `crossed` whether its mode was last set between the scope's last steps.  *)
Disturb(what) == [call EXCEPT !.disturbed = @ \cup what]

StoreMode(m) ==
  /\ other = Nothing /\ sock.open
  /\ nbio' = IF MapBound THEN m ELSE nbio
  /\ other' = [op |-> "mode", mode |-> m]
  /\ call' = Disturb({"mode"})
  /\ UNCHANGED <<bound, route, sock>>

KernelMode ==
  /\ other.op = "mode"
  /\ sock' = [sock EXCEPT !.mode = other.mode, !.asked = other.mode,
                          !.crossed = call.pc = "restore"]
  /\ other' = Nothing
  /\ call' = Disturb({"mode"})
  /\ UNCHANGED <<bound, route, nbio>>

EraseMode ==
  /\ other = Nothing /\ sock.open
  /\ nbio' = NoMode
  /\ other' = [op |-> "close", mode |-> NoMode]
  /\ call' = Disturb({"close"})
  /\ UNCHANGED <<bound, route, sock>>

KernelClose ==
  /\ other.op = "close"
  /\ sock' = [sock EXCEPT !.open = FALSE, !.link = "none"]
  /\ other' = Nothing
  /\ call' = Disturb({"close"})
  /\ UNCHANGED <<bound, route, nbio>>

Reopen(t) ==
  /\ other = Nothing /\ ~sock.open
  /\ sock' = [open |-> TRUE, type |-> t, mode |-> "blocking",
              asked |-> "blocking", crossed |-> FALSE, link |-> "none",
              timeo |-> "own"]
  /\ call' = Disturb({"close"})
  /\ UNCHANGED <<bound, route, nbio, other>>

-----------------------------------------------------------------------------
(* A detour is called: it reads the globals and the route once.  A connect  *)
(* or ConnectEx that is not to be routed goes to the original at once.      *)
Gated(a) == a # "outside"   \* is_inet() && !is_localhost()

Begin(entry, dests) ==
  /\ ~InFlight
  /\ LET gate == ConfigBound /\ (entry \in {"connect", "ex"} => Gated(dests[1]))
     IN  call' = [NoCall EXCEPT !.pc = IF gate THEN "address" ELSE "original",
                                !.entry = entry, !.dests = dests,
                                !.proxy = gate /\ route.proxy,
                                !.log = gate /\ route.log /\ QueueBound]
  /\ UNCHANGED <<bound, route, sock, nbio, other>>

Go(pc) == call' = [call EXCEPT !.pc = pc]
Finish(ret) == call' = [call EXCEPT !.pc = "done", !.ret = ret]

Dest == call.dests[call.i]

(* The value a failed call returns: SOCKET_ERROR, or FALSE.                 *)
Failure == IF call.entry = "connect" THEN -1 ELSE 0
Success == IF call.entry = "connect" THEN 0 ELSE 1

(* The next address of the list, or the only one.  A list that is used up   *)
(* is refused when there is a proxy, and left to the original otherwise.    *)
NextAddress ==
  /\ call.pc = "address"
  /\ IF call.i > Len(call.dests)
       THEN IF call.proxy THEN Finish(Failure) ELSE Go("original")
       ELSE IF call.entry = "list" /\ ~Gated(Dest)
              THEN call' = [call EXCEPT !.i = @ + 1]
              ELSE Go("classify")
  /\ UNCHANGED <<bound, route, sock, nbio, other>>

(* socket_stream_type(): what the provider answers, if it answers.          *)
Verdicts ==
  {"unknown"} \cup
  (IF ~sock.open THEN {}
   ELSE IF sock.type = "stream" THEN {"stream"} ELSE {"not_stream"})

(* fail_proxied_connect(): the link is shut down and the call fails.        *)
ShutDown == [sock EXCEPT !.link = IF @ = "none" THEN @ ELSE "shut"]

(* The verdict, asked when it can change the call.  WSAConnectByList means  *)
(* to ask once (hook.hpp 358), but stores the answer through an empty       *)
(* optional, which does not engage it: it asks again at the next address.   *)
ClassifyTrusts(v) ==   \* mutant: a provider that does not answer is trusted
  /\ call.pc = "classify" /\ (call.proxy \/ call.log)
  /\ v \in Verdicts
  /\ call' = [call EXCEPT !.verdict = v,
                          !.pc = IF v = "stream" THEN "report" ELSE "original"]
  /\ UNCHANGED <<bound, route, sock, nbio, other>>

Classify(v) ==
  /\ call.pc = "classify" /\ (call.proxy \/ call.log)
  /\ v \in Verdicts
  /\ LET c == [call EXCEPT !.verdict = v]
     IN  \/ /\ v = "stream"
            /\ call' = [c EXCEPT !.pc = "report"]
            /\ UNCHANGED sock
         \/ /\ v = "unknown" /\ call.proxy
            /\ call' = [c EXCEPT !.pc = "done", !.ret = Failure]
            /\ sock' = ShutDown
         \/ /\ v = "not_stream" \/ (v = "unknown" /\ ~call.proxy)
            /\ call' = [c EXCEPT !.pc = "original"]
            /\ UNCHANGED sock
  /\ UNCHANGED <<bound, route, nbio, other>>

DontClassify ==
  /\ call.pc = "classify" /\ ~call.proxy /\ ~call.log
  /\ Go("report")
  /\ UNCHANGED <<bound, route, sock, nbio, other>>

(* With an endpoint to name, the connect is reported when there is logging, *)
(* and taken to the proxy when there is one and it is not the destination.  *)
(* Without one, which only a WSAConnectByName meets, a proxy refuses.       *)
Unproxied == [call EXCEPT !.pc = IF call.entry = "list" THEN "address"
                                 ELSE "original",
                          !.i = @ + 1]

Report ==
  /\ call.pc = "report"
  /\ IF Dest = "unnamed"
       THEN IF call.proxy THEN Finish(Failure) /\ sock' = ShutDown
                          ELSE Go("original") /\ UNCHANGED sock
       ELSE /\ call' = IF call.proxy /\ Dest # "proxy"
                         THEN [call EXCEPT !.pc = "scope"]
                         ELSE Unproxied
            /\ UNCHANGED sock
  /\ UNCHANGED <<bound, route, nbio, other>>

-----------------------------------------------------------------------------
(* blocking_scope: the timeouts are replaced and the socket is made         *)
(* blocking, without a word to nbio_map.                                    *)
EnterScope ==
  /\ call.pc = "scope"
  /\ sock' = IF sock.open
               THEN [sock EXCEPT !.mode = "blocking", !.timeo = "handshake"]
               ELSE sock
  /\ Go("proxy")
  /\ UNCHANGED <<bound, route, nbio, other>>

(* Winsock's connect: it needs an open socket that is not connected.  On a  *)
(* non-blocking one, and for an overlapped ConnectEx, the link may come up  *)
(* though the call says it has not.                                         *)
Linkable == sock.open /\ sock.link = "none"

(* The connect to the proxy; what it returned is what the detour returns    *)
(* when it failed, whatever the entry's own convention.                     *)
ProxyConnect ==
  /\ call.pc = "proxy"
  /\ \/ /\ Linkable /\ sock.mode = "blocking"
        /\ sock' = [sock EXCEPT !.link = "raw"]
        /\ Go("handshake")
     \/ /\ \/ UNCHANGED sock
           \/ /\ Linkable /\ sock.mode = "nonblocking"
              /\ sock' = [sock EXCEPT !.link = "pending"]
        /\ call' = [call EXCEPT !.pc = "leave", !.ret = -1]
  /\ UNCHANGED <<bound, route, nbio, other>>

(* socks5_handshake() and socks5_request(): the proxy opens a tunnel or any *)
(* step of it fails or times out, and the link is shut down.  The list goes *)
(* on to its next address, on the same socket.                              *)
HandshakeFailsOpen ==   \* mutant: the failed link is not shut down
  /\ call.pc = "handshake"
  /\ \/ /\ sock.link = "raw"
        /\ sock' = [sock EXCEPT !.link = "tunnel"]
        /\ Go("send")
     \/ /\ UNCHANGED sock
        /\ call' = [call EXCEPT !.pc = "leave", !.ret = Failure,
                                !.again = (call.entry = "list")]
  /\ UNCHANGED <<bound, route, nbio, other>>

Handshake ==
  /\ call.pc = "handshake"
  /\ \/ /\ sock.link = "raw"
        /\ sock' = [sock EXCEPT !.link = "tunnel"]
        /\ Go("send")
     \/ /\ sock' = ShutDown
        /\ call' = [call EXCEPT !.pc = "leave", !.ret = Failure,
                                !.again = (call.entry = "list")]
  /\ UNCHANGED <<bound, route, nbio, other>>

(* ConnectEx may have a buffer to send through the tunnel.                  *)
Send ==
  /\ call.pc = "send"
  /\ \/ /\ call' = [call EXCEPT !.pc = "leave", !.ret = Success]
        /\ UNCHANGED sock
     \/ /\ call.entry = "ex"
        /\ call' = [call EXCEPT !.pc = "leave", !.ret = Failure]
        /\ sock' = ShutDown
  /\ UNCHANGED <<bound, route, nbio, other>>

(* The end of the scope: the remembered mode is looked up, then set, then   *)
(* the timeouts; the loop goes on or the call returns.                      *)
LeaveScope ==
  /\ call.pc = "leave"
  /\ call' = [call EXCEPT !.pc = "restore", !.saved = nbio]
  /\ UNCHANGED <<bound, route, sock, nbio, other>>

LeftScope ==
  IF call.again THEN [call EXCEPT !.pc = "address", !.i = @ + 1, !.again = FALSE,
                             !.saved = NoMode]
                ELSE [call EXCEPT !.pc = "done", !.saved = NoMode]

RestoreBlocking ==   \* mutant: the socket is left blocking
  /\ call.pc = "restore"
  /\ sock' = IF sock.open THEN [sock EXCEPT !.timeo = "own"] ELSE sock
  /\ call' = LeftScope
  /\ UNCHANGED <<bound, route, nbio, other>>

Restore ==
  /\ call.pc = "restore"
  /\ sock' = IF sock.open
               THEN [sock EXCEPT !.mode = IF call.saved = NoMode THEN "blocking"
                                          ELSE call.saved,
                                 !.timeo = "own"]
               ELSE sock
  /\ call' = LeftScope
  /\ UNCHANGED <<bound, route, nbio, other>>

(* The original entry point, with the caller's own arguments.               *)
Original ==
  /\ call.pc = "original"
  /\ \/ /\ Linkable /\ sock.mode = "blocking"
        /\ sock' = [sock EXCEPT !.link = "direct"]
        /\ call' = [call EXCEPT !.pc = "done", !.ret = Success, !.direct = TRUE]
     \/ /\ \/ UNCHANGED sock
           \/ /\ Linkable /\ (sock.mode = "nonblocking" \/ call.entry = "ex")
              /\ sock' = [sock EXCEPT !.link = "direct"]
        /\ call' = [call EXCEPT !.pc = "done", !.ret = Failure, !.direct = TRUE]
  /\ UNCHANGED <<bound, route, nbio, other>>

-----------------------------------------------------------------------------
Detour == \/ NextAddress \/ (\E v \in Verdicts : Classify(v)) \/ DontClassify
          \/ Report \/ EnterScope \/ ProxyConnect \/ Handshake \/ Send
          \/ LeaveScope \/ Restore \/ Original

OtherThread == \/ \E m \in Modes : StoreMode(m)
               \/ KernelMode \/ EraseMode \/ KernelClose
               \/ \E t \in Types : Reopen(t)

HookNext ==
  \/ Bind
  \/ \E r \in Routes : SetRoute(r)
  \/ OtherThread
  \/ \E e \in Entries : \E ds \in Arguments(e) : Begin(e, ds)
  \/ Detour

HookSpec == HookInit /\ [][HookNext]_vars

-----------------------------------------------------------------------------
Routable(a) == a \in {"dest", "named", "unnamed"}

ForProxy == call.proxy /\ \E i \in DOMAIN call.dests : Routable(call.dests[i])

(* The capsule's promise: a call whose route has a proxy and that names a   *)
(* destination to route is never handed to the original, on any path        *)
(* through the detours, whatever fails, unless the provider has said that   *)
(* the socket is no stream (hook.hpp 166-211, 594-604).                     *)
NeverDirect == ForProxy /\ call.direct => call.verdict = "not_stream"

Undisturbed == call.pc = "done" /\ call.disturbed = {}

(* The host is never left on a bare link to the proxy, which it would take  *)
(* for its destination: every failure after the proxy accepted shuts it     *)
(* down.  (Making the socket non-blocking again while the detour is in it   *)
(* defeats this: the connect to the proxy is then left "pending".)          *)
NoBareLink == call.pc = "done" => sock.link # "raw"

(* Between calls the socket has the mode the host last gave it, recorded or *)
(* default, and its own timeouts, even when the host changed it during the  *)
(* call; only a change between the scope's last two steps is lost.          *)
ModeRestored ==
  call.pc = "done" /\ other = Nothing /\ sock.open /\ nbio # NoMode =>
    /\ sock.timeo = "own"
    /\ ~sock.crossed => sock.mode = sock.asked

(* hook.hpp 606-607, of the BOOL entry points: "If the function fails, the  *)
(* return value is FALSE".                                                  *)
FalseOnFailure ==
  Undisturbed /\ call.entry # "connect" /\ sock.link \in {"none", "shut"} =>
    call.ret = 0
=============================================================================
