------------------------------- MODULE Socks5 -------------------------------
(***************************************************************************)
(* The SOCKS5 client of src/src/injectee/socks5.hpp: the builders, and one *)
(* conversation on a connected socket, CONNECT (socks5_handshake() then    *)
(* socks5_request()) or UDP ASSOCIATE (socks5_associate()).                *)
(*                                                                         *)
(* The proxy is the environment.  It answers every message with a whole    *)
(* frame, legal or not, and after a grant the application's peer speaks.   *)
(* The octets arrive one by one; a read that waits for all of n octets     *)
(* ends short, at any point, when the proxy closes or the time is up.      *)
(***************************************************************************)
EXTENDS Integers, Sequences, FiniteSets

CONSTANTS NameLengths,   \* bound: lengths of the names and credentials tried
          Families       \* bound: families of the addresses tried

ASSUME Socks5Assumption == NameLengths \subseteq Nat

VARIABLES talk,      \* the call in progress
          sent,      \* the messages the proxy has received
          stream,    \* every octet the proxy has sent
          arrived,   \* how many of them have arrived
          taken,     \* how many of them the client has read
          proxy      \* what the proxy made of the conversation

socksVars == <<talk, sent, stream, arrived, taken, proxy>>

NoAuth == 0
UserPass == 2
Unacceptable == 255
CONNECT == 1
ASSOCIATE == 3
IPV4 == 1
DOMAINNAME == 3
IPV6 == 4
GeneralFailure == 4
App == -1           \* an octet of the application's own traffic

Nothing == <<>>     \* what a builder that returns 0 leaves
Octet(x) == x % 256

-----------------------------------------------------------------------------
(* The builders.  An octet string is a sequence of 0..255.                  *)
socks5_build_greeting(methods) ==
  IF Len(methods) \in 1..255 THEN <<5, Len(methods)>> \o methods ELSE Nothing

socks5_write_atyp_addr(atyp, addr) ==
  CASE atyp = IPV4 -> <<IPV4>> \o SubSeq(addr, 1, 4)
    [] atyp = IPV6 -> <<IPV6>> \o SubSeq(addr, 1, 16)
    [] atyp = DOMAINNAME /\ Len(addr) \in 1..255 ->
         <<DOMAINNAME, Len(addr)>> \o addr
    [] OTHER -> Nothing

socks5_write_portSwapped(port) ==   \* mutant: least significant octet first
  <<Octet(port), Octet(port \div 256)>>

socks5_write_port(port) == <<Octet(port \div 256), Octet(port)>>

Layout(head, atyp, addr, port) ==
  LET field == socks5_write_atyp_addr(atyp, addr) IN
  IF field = Nothing THEN Nothing ELSE head \o field \o socks5_write_port(port)

socks5_build_request_cmd(cmd, atyp, addr, port) ==
  Layout(<<5, cmd, 0>>, atyp, addr, port)

socks5_build_udp_header(atyp, addr, port, frag) ==
  Layout(<<0, 0, frag>>, atyp, addr, port)

(* A sockaddr holds its address and its port in network order.              *)
ntohs(wire) == wire[1] * 256 + wire[2]

socks5_build_request_from_sockaddr_cmd(cmd, sa) ==
  CASE sa.family = "inet"  ->
         socks5_build_request_cmd(cmd, IPV4, sa.addr, ntohs(sa.port))
    [] sa.family = "inet6" ->
         socks5_build_request_cmd(cmd, IPV6, sa.addr, ntohs(sa.port))
    [] OTHER -> Nothing

(* An IpAddr holds a host-order port and IPv4 address; absent fields are    *)
(* empty sets.  A name wider than its LEN octet is refused.                 *)
OctetsOf(v4) == <<Octet(v4 \div 16777216), Octet(v4 \div 65536),
                  Octet(v4 \div 256), Octet(v4)>>

The(opt) == CHOOSE x \in opt : TRUE

socks5_build_request_from_ip_addr(a) ==
  LET build(atyp, addr) ==
        socks5_build_request_cmd(CONNECT, atyp, addr, The(a.port) % 65536)
  IN  CASE a.port = {} -> Nothing
        [] a.port # {} /\ a.v4 # {} -> build(IPV4, OctetsOf(The(a.v4)))
        [] a.port # {} /\ a.v4 = {} /\ a.v6 # {} ->
             IF Len(The(a.v6)) = 16 THEN build(IPV6, The(a.v6)) ELSE Nothing
        [] a.port # {} /\ a.v4 = {} /\ a.v6 = {} /\ a.domain # {} ->
             build(DOMAINNAME, The(a.domain))
        [] OTHER -> Nothing

socks5_build_auth(c) ==
  IF Len(c.username) > 255 \/ Len(c.password) > 255 THEN Nothing
  ELSE <<1, Len(c.username)>> \o c.username
         \o <<Len(c.password)>> \o c.password

enabled(c) == c.username # <<>> \/ c.password # <<>>

(* socks5_parse_udp_header(): the datagram a header announces, if it is one.*)
(* A name wider than the struct's 16 octets is refused.                     *)
parsedLoose(data) ==   \* mutant: the port may lie past the end
  LET size == Len(data)
      atyp == data[4]
      at   == IF atyp = DOMAINNAME THEN 5 ELSE 4
      n    == CASE atyp = IPV4 -> 4 [] atyp = IPV6 -> 16 [] OTHER -> data[5]
  IN  IF \/ size < 4 \/ data[3] # 0 \/ atyp \notin {IPV4, IPV6, DOMAINNAME}
         \/ atyp = DOMAINNAME /\ (size < 5 \/ data[5] \notin 1..16)
         \/ size < at + n
        THEN {}
        ELSE {[atyp |-> atyp, addr |-> SubSeq(data, at + 1, at + n),
               port |-> IF size < at + n + 2 THEN 0
                        ELSE ntohs(SubSeq(data, at + n + 1, at + n + 2)),
               header_size |-> at + n + 2]}

socks5_parse_udp_header(data) ==
  LET size == Len(data)
      atyp == data[4]
      at   == IF atyp = DOMAINNAME THEN 5 ELSE 4
      n    == CASE atyp = IPV4 -> 4 [] atyp = IPV6 -> 16 [] OTHER -> data[5]
  IN  IF \/ size < 4 \/ data[3] # 0 \/ atyp \notin {IPV4, IPV6, DOMAINNAME}
         \/ atyp = DOMAINNAME /\ (size < 5 \/ data[5] \notin 1..16)
         \/ size < at + n + 2
        THEN {}
        ELSE {[atyp |-> atyp, addr |-> SubSeq(data, at + 1, at + n),
               port |-> ntohs(SubSeq(data, at + n + 1, at + n + 2)),
               header_size |-> at + n + 2]}

-----------------------------------------------------------------------------
(* What a caller may ask for: `req` is what the builder makes of it, and    *)
(* `asked` what it means.                                                   *)
Text(n) == [i \in 1..n |-> 97 + (i % 2)]
V6 == [i \in 1..16 |-> i]
V4 == <<10, 0, 2, 3>>
V4Host == 167772675   \* V4 as an IpAddr holds it
Port == 443

Asked(cmd, atyp, addr) == [cmd |-> cmd, atyp |-> atyp, addr |-> addr,
                           port |-> Port]
Unbound == [cmd |-> ASSOCIATE, atyp |-> IPV4, addr |-> <<0, 0, 0, 0>>, port |-> 0]

Sockaddr(f) == [family |-> f, addr |-> IF f = "inet6" THEN V6 ELSE V4,
                port |-> <<1, 187>>]
NoIpAddr == [port |-> {Port}, v4 |-> {}, v6 |-> {}, domain |-> {}]

Ask(req, asked) == [req |-> req, asked |-> asked]

AtypOf(f) == IF f = "inet6" THEN IPV6 ELSE IPV4

ConnectAsks ==
  {Ask(socks5_build_request_from_sockaddr_cmd(CONNECT, Sockaddr(f)),
       Asked(CONNECT, AtypOf(f), Sockaddr(f).addr)) : f \in Families}
  \cup {Ask(socks5_build_request_from_ip_addr(
              [NoIpAddr EXCEPT !.v4 = {V4Host}]), Asked(CONNECT, IPV4, V4)),
        Ask(socks5_build_request_from_ip_addr(
              [NoIpAddr EXCEPT !.v6 = {V6}]), Asked(CONNECT, IPV6, V6)),
        Ask(socks5_build_request_from_ip_addr(
              [NoIpAddr EXCEPT !.v4 = {V4Host}, !.port = {}]),
            Asked(CONNECT, IPV4, V4))}
  \cup {Ask(socks5_build_request_from_ip_addr(
              [NoIpAddr EXCEPT !.domain = {Text(n)}]),
            Asked(CONNECT, DOMAINNAME, Text(n))) : n \in NameLengths}

(* socks5_associate() asks for 0.0.0.0:0 when the hint cannot be encoded.   *)
Associate(f) ==
  LET hint == socks5_build_request_from_sockaddr_cmd(ASSOCIATE, Sockaddr(f))
  IN  IF hint # Nothing
        THEN Ask(hint, Asked(ASSOCIATE, AtypOf(f), Sockaddr(f).addr))
        ELSE Ask(socks5_build_request_cmd(ASSOCIATE, IPV4, <<0,0,0,0>>, 0), Unbound)

AssociateAsks == {Associate(f) : f \in Families}

Logins == {[username |-> Text(n), password |-> Text(m)] :
             n \in NameLengths, m \in {0, 1}}

NoTalk == [pc |-> "idle", req |-> <<>>, asked |-> Unbound, field |-> 0,
           login |-> [username |-> <<>>, password |-> <<>>], named |-> FALSE,
           verdict |-> "none", rep |-> GeneralFailure, bnd |-> {}]

(* The proxy: the method it picked, whether it took the login, the request  *)
(* as it understood it if it granted it, the address it bound, whether that *)
(* is a name, and where its reply ends in the stream.                       *)
NoProxy == [answered |-> 0, method |-> -1, login |-> FALSE, grant |-> {},
            bnd |-> {}, named |-> FALSE, end |-> 0]

SocksInit == /\ talk = NoTalk /\ proxy = NoProxy
             /\ sent = <<>> /\ stream = <<>> /\ arrived = 0 /\ taken = 0

-----------------------------------------------------------------------------
(* send() hands over the whole message, or fails.                           *)
SendOr(msg, next, failed) ==
  /\ taken' = taken
  /\ \/ /\ msg # Nothing
        /\ sent' = Append(sent, msg)
        /\ talk' = next
     \/ /\ sent' = sent
        /\ talk' = failed

Done(verdict) == [talk EXCEPT !.pc = "done", !.verdict = verdict]

(* A handshake that fails: no request is made.                              *)
NoRelay == Done("refused_rep")

(* socks5_handshake(): the greeting offers a login first, if there is one.  *)
Greet(ask, login) ==
  /\ talk.pc = "idle"
  /\ LET t == [NoTalk EXCEPT !.req = ask.req, !.asked = ask.asked,
                             !.login = login, !.pc = "method"]
         methods == IF enabled(login) THEN <<UserPass, NoAuth>> ELSE <<NoAuth>>
     IN  SendOr(socks5_build_greeting(methods), t,
                [t EXCEPT !.pc = "done", !.verdict = "refused_rep"])
  /\ UNCHANGED <<stream, arrived, proxy>>

(* recv(n, MSG_WAITALL): all of n octets, or fewer and no more of them.     *)
Take(n) == SubSeq(stream, taken + 1, taken + n)

Whole(pc, n) == /\ talk.pc = pc /\ arrived - taken >= n
                /\ taken' = taken + n
                /\ UNCHANGED <<stream, arrived, proxy>>

Short(pc, n, verdict) == /\ talk.pc = pc /\ arrived - taken < n
                         /\ taken' = arrived
                         /\ talk' = Done(verdict)
                         /\ UNCHANGED <<sent, stream, arrived, proxy>>

(* The method the proxy picked.  A login is sent only if it was offered.    *)
PickedLoose ==   \* mutant: a login is sent though it was refused a method
  /\ Whole("method", 2) /\ sent' = sent
  /\ LET res == Take(2) IN
       talk' = IF res[1] = 5 /\ res[2] # UserPass
                 THEN [talk EXCEPT !.pc = "request"]
                 ELSE IF res[1] = 5 /\ res[2] = UserPass /\ enabled(talk.login)
                        THEN [talk EXCEPT !.pc = "login"] ELSE NoRelay

Picked ==
  /\ Whole("method", 2) /\ sent' = sent
  /\ LET res == Take(2) IN
       talk' = IF res[1] = 5 /\ res[2] = NoAuth
                 THEN [talk EXCEPT !.pc = "request"]
                 ELSE IF res[1] = 5 /\ res[2] = UserPass /\ enabled(talk.login)
                        THEN [talk EXCEPT !.pc = "login"] ELSE NoRelay

NotPicked == Short("method", 2, "refused_rep")

Login ==
  /\ talk.pc = "login"
  /\ SendOr(socks5_build_auth(talk.login), [talk EXCEPT !.pc = "auth"], NoRelay)
  /\ UNCHANGED <<stream, arrived, proxy>>

LoggedIn ==
  /\ Whole("auth", 2) /\ sent' = sent
  /\ talk' = IF Take(2) = <<1, 0>> THEN [talk EXCEPT !.pc = "request"]
                                   ELSE NoRelay

NotLoggedIn == Short("auth", 2, "refused_rep")

(* The request.  One that cannot be built or sent is a general failure.     *)
Request ==
  /\ talk.pc = "request"
  /\ SendOr(talk.req, [talk EXCEPT !.pc = "head"], Done("protocol_error"))
  /\ UNCHANGED <<stream, arrived, proxy>>

-----------------------------------------------------------------------------
(* socks5_read_reply(): four octets, then what ATYP says there is.          *)
Sized(atyp) == CASE atyp = IPV4 -> [talk EXCEPT !.pc = "addr", !.field = 4]
                 [] atyp = IPV6 -> [talk EXCEPT !.pc = "addr", !.field = 16]
                 [] atyp = DOMAINNAME -> [talk EXCEPT !.pc = "len", !.named = TRUE]
                 [] OTHER -> Done("protocol_error")

Header ==
  /\ Whole("head", 4) /\ sent' = sent
  /\ LET head == Take(4) IN
       talk' = CASE head[1] # 5 -> Done("protocol_error")
                 [] head[1] = 5 /\ head[2] # 0 ->
                      [Done("refused_rep") EXCEPT !.rep = head[2]]
                 [] OTHER -> [Sized(head[4]) EXCEPT !.rep = head[2]]

NoHeader == Short("head", 4, "protocol_error")

NameLength ==
  /\ Whole("len", 1) /\ sent' = sent
  /\ LET n == Take(1)[1] IN
       talk' = IF n = 0 THEN Done("protocol_error")
                        ELSE [talk EXCEPT !.pc = "addr", !.field = n]

NoNameLength == Short("len", 1, "protocol_error")

(* The bound address and its port in one read.  A name is read to its end,  *)
(* kept, and is a failure all the same.                                     *)
Bnd(part, n) == {[addr |-> SubSeq(part, 1, n),
                  port |-> ntohs(SubSeq(part, n + 1, n + 2))]}

Verdict == IF talk.named THEN "bnd_is_a_name" ELSE "ok"

BoundUnread ==   \* mutant: the port is peeked at and left in the stream
  /\ Whole("addr", talk.field) /\ sent' = sent
  /\ talk' = [Done(Verdict) EXCEPT !.bnd = Bnd(Take(talk.field + 2), talk.field)]

Bound ==
  /\ Whole("addr", talk.field + 2) /\ sent' = sent
  /\ talk' = [Done(Verdict) EXCEPT !.bnd = Bnd(Take(talk.field + 2), talk.field)]

NotBound == Short("addr", talk.field + 2, "truncated")

(* socks5_request_ex(): the octet the CONNECT path is given for a verdict.  *)
Returned == CASE talk.verdict = "ok"          -> 0
              [] talk.verdict = "refused_rep" -> talk.rep
              [] OTHER                        -> GeneralFailure

-----------------------------------------------------------------------------
(* The proxy (external), which answers messages in turn.                    *)
Says(octets, p) ==
  /\ stream' = stream \o octets
  /\ proxy' = [p EXCEPT !.answered = @ + 1]
  /\ UNCHANGED <<talk, sent, arrived, taken>>

Heard(n) == proxy.answered = n - 1 /\ Len(sent) = n

PicksMethod(ver, m) ==
  /\ Heard(1)
  /\ Says(<<ver, m>>, [proxy EXCEPT !.method = m])

AnswersLogin(ver, status) ==
  /\ Heard(2) /\ proxy.method = UserPass
  /\ Says(<<ver, status>>, [proxy EXCEPT !.login = (ver = 1 /\ status = 0)])

(* A request as RFC 1928 reads it.                                          *)
Understood(r) ==
  LET n == Len(r) IN
  [cmd |-> r[2], atyp |-> r[4],
   addr |-> SubSeq(r, IF r[4] = DOMAINNAME THEN 6 ELSE 5, n - 2),
   port |-> r[n - 1] * 256 + r[n]]

Replies == [ver : {5}, rep : {0, 5}, atyp : {IPV4, IPV6, 9}, n : {0}]
             \cup [ver : {5}, rep : {0}, atyp : {DOMAINNAME}, n : {0, 2}]
             \cup [ver : {4}, rep : {0}, atyp : {IPV4}, n : {0}]

AnswersRequest(r) ==
  /\ \/ Heard(2) /\ proxy.method = NoAuth
     \/ Heard(3) /\ proxy.login
  /\ LET addr  == CASE r.atyp = IPV4 -> V4 [] r.atyp = IPV6 -> V6
                     [] OTHER -> Text(r.n)
         field == IF r.atyp = DOMAINNAME THEN <<r.n>> \o addr ELSE addr
         frame == <<r.ver, r.rep, 0, r.atyp>> \o field \o <<4, 56>>
         legal == /\ r.ver = 5 /\ r.rep = 0
                  /\ r.atyp \in {IPV4, IPV6} \/ r.n > 0
     IN  Says(IF legal THEN frame \o <<App, App>> ELSE frame,
              [proxy EXCEPT !.grant = IF legal THEN {Understood(sent[Len(sent)])}
                                               ELSE {},
                            !.bnd = {[addr |-> addr, port |-> 1080]},
                            !.named = (r.atyp = DOMAINNAME),
                            !.end = Len(stream) + Len(frame)])

Arrive ==
  /\ arrived < Len(stream) /\ talk.pc # "done"
  /\ arrived' = arrived + 1
  /\ UNCHANGED <<talk, sent, stream, taken, proxy>>

SocksNext ==
  \/ \E ask \in ConnectAsks \cup AssociateAsks, login \in Logins :
       Greet(ask, login)
  \/ Picked \/ NotPicked \/ Login \/ LoggedIn \/ NotLoggedIn \/ Request
  \/ Header \/ NoHeader \/ NameLength \/ NoNameLength \/ Bound \/ NotBound
  \/ \E ver \in {4, 5}, m \in {NoAuth, UserPass, Unacceptable} :
       PicksMethod(ver, m)
  \/ \E ver \in {1, 5}, status \in {0, 255} : AnswersLogin(ver, status)
  \/ \E r \in Replies : AnswersRequest(r)
  \/ Arrive

SocksSpec == SocksInit /\ [][SocksNext]_socksVars

-----------------------------------------------------------------------------
(* A tunnel or relay is reported if and only if the proxy, reading the      *)
(* octets as RFC 1928 does, granted the very command, address and port that *)
(* were asked for and its whole reply arrived, and then with the address it *)
(* bound; a reply that is cut or refused is never a grant, and a grant is   *)
(* never taken for a refusal (socks5.hpp 280-287, 617-640).                 *)
GrantIsReal ==
  talk.pc = "done" =>
    /\ talk.verdict = "ok" <=>
         proxy.grant # {} /\ ~proxy.named /\ arrived >= proxy.end
    /\ talk.verdict \in {"ok", "bnd_is_a_name"} =>
         proxy.grant = {talk.asked} /\ talk.bnd = proxy.bnd
    /\ Returned = 0 <=> talk.verdict = "ok"
    /\ talk.verdict = "truncated" => proxy.grant # {} /\ arrived < proxy.end
    /\ talk.verdict = "refused_rep" => proxy.grant = {}

(* The client stays in step with the stream however it trickles: it never   *)
(* reads an octet of the application's traffic, and a reply that it read to *)
(* its end leaves nothing of itself before that traffic (socks5.hpp         *)
(* 626-632: "a follow-on recv that eats the application's own data").       *)
StaysInStep ==
  /\ \A i \in 1..taken : stream[i] # App
  /\ talk.verdict \in {"ok", "bnd_is_a_name"} => taken = proxy.end

(* A login goes only to a proxy that picked it, as it was given, and a      *)
(* request only to one that wants no login or took it: "a proxy that        *)
(* refused the login is never silently downgraded" (socks5.hpp 549-551).    *)
NeverDowngraded ==
  /\ Len(sent) >= 2 =>
       \/ proxy.method = NoAuth /\ sent[2] = talk.req
       \/ /\ proxy.method = UserPass /\ enabled(talk.login)
          /\ LET u == sent[2][2] IN
               /\ SubSeq(sent[2], 3, 2 + u) = talk.login.username
               /\ SubSeq(sent[2], 4 + u, Len(sent[2])) = talk.login.password
  /\ Len(sent) = 3 => proxy.login /\ sent[3] = talk.req

(* A datagram header for the address that was asked for is read back as it  *)
(* was written, whatever follows it, and no part of one is ever read as a   *)
(* whole; a fragment, and a name too wide to keep, are refused (socks5.hpp  *)
(* 395-409).                                                                *)
HeadersRoundTrip ==
  \A frag \in {0, 1} :
    LET a     == talk.asked
        head  == socks5_build_udp_header(a.atyp, a.addr, a.port, frag)
        data  == head \o <<1, 2>>
        keeps == frag = 0 /\ Len(a.addr) \in 1..16
    IN  talk.pc # "idle" /\ head # Nothing =>
          \A size \in {0, 3, 4, 5, Len(head) - 1, Len(head), Len(data)} :
            socks5_parse_udp_header(SubSeq(data, 1, size)) =
              IF keeps /\ size >= Len(head)
                THEN {[atyp |-> a.atyp, addr |-> a.addr, port |-> a.port,
                       header_size |-> Len(head)]}
                ELSE {}
=============================================================================
