---------------------------- MODULE Socks5Proofs ----------------------------
(***************************************************************************)
(* Proofs about the SOCKS5 conversation (Socks5.tla, socks5.hpp), for names *)
(* and credentials of every length and sockaddrs of every family.          *)
(***************************************************************************)
EXTENDS Socks5, SequenceTheorems, TLAPS

(* The two records have their fields.                                       *)
IsTalk(t) ==
  t = [pc |-> t.pc, req |-> t.req, asked |-> t.asked, field |-> t.field,
       login |-> t.login, named |-> t.named, verdict |-> t.verdict,
       rep |-> t.rep, bnd |-> t.bnd]

IsProxy(p) ==
  p = [answered |-> p.answered, method |-> p.method, login |-> p.login,
       grant |-> p.grant, bnd |-> p.bnd, named |-> p.named, end |-> p.end]

(* A request is what was asked for, as the proxy will read it, and what is  *)
(* asked for is an address or a name.                                       *)
Faithful(req, asked) == req = Nothing \/ Understood(req) = asked

Word == 0..65535

Encodable(atyp, addr) ==
  /\ addr \in Seq(Int)
  /\ \/ atyp = IPV4 /\ Len(addr) = 4
     \/ atyp = IPV6 /\ Len(addr) = 16
     \/ atyp = DOMAINNAME /\ Len(addr) \in 1..255

Askable(atyp, addr) ==
  \/ Encodable(atyp, addr)
  \/ atyp = DOMAINNAME /\ addr \in Seq(Int) /\ Len(addr) \notin 1..255

IsAsk(ask) ==
  /\ ask.req \in Seq(Int) /\ Faithful(ask.req, ask.asked)
  /\ Askable(ask.asked.atyp, ask.asked.addr) /\ ask.asked.port \in Word

AskInv(t) == t.pc # "idle" => t.login \in Logins /\ IsAsk(t)

(* The messages: how many, who they are for and what they say.              *)
SentInv(t, m, p) ==
  /\ p.answered \in Nat /\ p.answered <= Len(m) /\ Len(m) <= p.answered + 1
  /\ Len(m) <= 3 /\ (t.pc = "idle" => Len(m) = 0)
  /\ Len(m) >= 2 =>
       \/ p.method = NoAuth /\ Len(m) = 2 /\ m[2] = t.req /\ t.req # Nothing
       \/ /\ p.method = UserPass /\ enabled(t.login)
          /\ m[2] # Nothing /\ m[2] = socks5_build_auth(t.login)
  /\ Len(m) = 3 => p.answered >= 2 /\ p.login /\ m[3] = t.req /\ t.req # Nothing

(* The answer to the request is in the stream.                              *)
Replied(p) == (p.answered = 2 /\ p.method = NoAuth) \/ p.answered = 3

(* A reply that RFC 1928 calls a grant.                                     *)
Legal(r) == r.ver = 5 /\ r.rep = 0 /\ (r.atyp \in {IPV4, IPV6} \/ r.n > 0)

AddrOf(r) == CASE r.atyp = IPV4 -> V4 [] r.atyp = IPV6 -> V6
               [] OTHER -> Text(r.n)

(* Where the address begins, after the base b of the reply.                 *)
At(r) == IF r.atyp = DOMAINNAME THEN 5 ELSE 4

Base(p) == IF p.answered = 2 THEN 2 ELSE 4

(* The reply r in the stream, and what the proxy made of it.                *)
ReplyIs(r, m, s, p) ==
  LET b == Base(p)
      w == Len(AddrOf(r))
  IN  /\ p.end = b + At(r) + w + 2
      /\ s[b + 1] = r.ver /\ s[b + 2] = r.rep /\ s[b + 4] = r.atyp
      /\ r.atyp = DOMAINNAME => s[b + 5] = r.n
      /\ \A i \in 1..w : s[b + At(r) + i] = AddrOf(r)[i]
      /\ s[b + At(r) + w + 1] = 4 /\ s[b + At(r) + w + 2] = 56
      /\ Len(s) >= p.end /\ \A i \in 1..p.end : s[i] \in Nat
      /\ p.bnd = {[addr |-> AddrOf(r), port |-> 1080]}
      /\ p.named = (r.atyp = DOMAINNAME)
      /\ p.grant = IF Legal(r) THEN {Understood(m[Len(m)])} ELSE {}

(* The stream is the proxy's answers, one after the other.                  *)
StreamInv(m, s, p) ==
  /\ p.answered = 0 => Len(s) = 0 /\ p.method = -1
  /\ p.answered = 1 => Len(s) = 2
  /\ p.answered >= 1 => Len(s) >= 2 /\ s[2] = p.method
  /\ p.answered = 2 /\ p.method = UserPass => Len(s) = 4
  /\ p.answered >= 2 /\ p.method = UserPass =>
       Len(s) >= 4 /\ (p.login <=> s[3] = 1 /\ s[4] = 0)
  /\ p.login => p.answered >= 2 /\ p.method = UserPass
  /\ ~Replied(p) => p.grant = {} /\ \A i \in 1..Len(s) : s[i] \in Nat

(* Where the client is in the conversation.                                 *)
PlaceInv(t, m, p, k) ==
  /\ t.pc \in {"idle", "method", "login", "auth", "request", "head", "len",
               "addr", "done"}
  /\ t.pc \in {"idle", "method"} => k = 0
  /\ t.pc = "method" => Len(m) = 1
  /\ t.pc = "login" =>
       Len(m) = 1 /\ p.answered = 1 /\ k = 2 /\ p.method = UserPass /\ enabled(t.login)
  /\ t.pc = "auth" => Len(m) = 2 /\ k = 2 /\ p.method = UserPass
  /\ t.pc = "request" =>
       \/ Len(m) = 1 /\ p.answered = 1 /\ k = 2 /\ p.method = NoAuth
       \/ Len(m) = 2 /\ p.answered = 2 /\ k = 4 /\ p.login
  /\ t.pc = "head" =>
       \/ Len(m) = 2 /\ k = 2 /\ p.method = NoAuth
       \/ Len(m) = 3 /\ k = 4
  /\ t.pc \notin {"len", "addr", "done"} => t.rep # 0 /\ t.named = FALSE
  /\ t.pc # "done" => t.verdict = "none"
  /\ t.pc \in {"len", "addr"} => Replied(p)

(* ... and inside the reply.                                                *)
ReplyPlace(r, t, p, k) ==
  /\ t.pc = "head" => k = Base(p)
  /\ t.pc = "len" => r.atyp = DOMAINNAME /\ k = Base(p) + 4
  /\ t.pc = "addr" =>
       /\ k = Base(p) + At(r) /\ t.field = Len(AddrOf(r)) /\ Legal(r)
  /\ t.pc \in {"len", "addr"} =>
       t.named = (r.atyp = DOMAINNAME) /\ r.ver = 5 /\ r.rep = 0

ReadInv(t, m, s, p, a, k) ==
  /\ a \in Nat /\ k \in Nat /\ k <= a /\ a <= Len(s)
  /\ Replied(p) => /\ k <= p.end
                   /\ \E r \in Replies : ReplyIs(r, m, s, p) /\ ReplyPlace(r, t, p, k)

(* How a call ends.                                                         *)
DoneInv(t, m, p, a, k) ==
  t.pc = "done" =>
    /\ t.verdict \in {"refused_rep", "protocol_error", "truncated", "ok",
                      "bnd_is_a_name"}
    /\ t.verdict = "refused_rep" =>
         /\ t.rep # 0 /\ p.grant = {}
         /\ ~Replied(p) => Len(m) <= 1 \/ (Len(m) = 2 /\ p.method = UserPass)
    /\ t.verdict = "protocol_error" /\ Replied(p) =>
         p.grant = {} \/ a < p.end
    /\ t.verdict = "truncated" => Replied(p) /\ p.grant # {} /\ a < p.end
    /\ t.verdict \in {"ok", "bnd_is_a_name"} =>
         /\ Replied(p) /\ p.grant # {} /\ k = p.end /\ t.bnd = p.bnd
         /\ t.verdict = "ok" <=> ~p.named

SocksInv ==
  /\ IsTalk(talk) /\ IsProxy(proxy) /\ sent \in Seq(Seq(Int)) /\ stream \in Seq(Int)
  /\ AskInv(talk) /\ SentInv(talk, sent, proxy) /\ StreamInv(sent, stream, proxy)
  /\ PlaceInv(talk, sent, proxy, taken)
  /\ ReadInv(talk, sent, stream, proxy, arrived, taken)
  /\ DoneInv(talk, sent, proxy, arrived, taken)

-----------------------------------------------------------------------------
(* What the edits of the two records leave.                                 *)
SameAsk(u, t) == u.req = t.req /\ u.asked = t.asked /\ u.login = t.login

(* Two octet strings, one after the other.                                  *)
LEMMA Cat ==
  ASSUME NEW s \in Seq(Int), NEW t \in Seq(Int), NEW m, m = Len(s), NEW n, n = Len(t),
         NEW x, x = s \o t
  PROVE  /\ x \in Seq(Int) /\ m \in Nat /\ n \in Nat /\ Len(x) = m + n
         /\ \A i \in 1..m : x[i] = s[i]
         /\ \A i \in 1..n : x[m + i] = t[i]
<1>1. m \in Nat /\ n \in Nat
  BY LenProperties
<1>2. /\ x \in Seq(Int) /\ Len(x) = m + n
      /\ \A i \in 1..(m + n) : x[i] = IF i <= m THEN s[i] ELSE t[i - m]
  BY ConcatProperties
<1>3. \A i \in 1..m : i \in 1..(m + n) /\ i <= m
  BY <1>1
<1>4. \A i \in 1..n : m + i \in 1..(m + n) /\ ~(m + i <= m) /\ (m + i) - m = i
  BY <1>1
<1> QED
  BY <1>1, <1>2, <1>3, <1>4

(* Part of an octet string.                                                 *)
LEMMA Part ==
  ASSUME NEW s \in Seq(Int), NEW m \in Nat, NEW n \in Nat, m + n <= Len(s)
  PROVE  /\ SubSeq(s, m + 1, m + n) \in Seq(Int)
         /\ Len(SubSeq(s, m + 1, m + n)) = n
         /\ \A i \in 1..n : SubSeq(s, m + 1, m + n)[i] = s[m + i]
<1>1. PICK a, b : a = m + 1 /\ b = m + n
  OBVIOUS
<1>2. a \in Int /\ b \in Int /\ b - a + 1 = n /\ \A i \in 1..n : a + i - 1 = m + i
  BY <1>1
<1>3. \A i \in a..b : s[i] \in Int
  <2>1. \A i \in a..b : i \in 1..Len(s)
    BY <1>1, LenProperties
  <2> QED
    BY <2>1, ElementOfSeq
<1>4. /\ SubSeq(s, a, b) \in Seq(Int)
      /\ Len(SubSeq(s, a, b)) = IF a <= b THEN b - a + 1 ELSE 0
      /\ \A i \in 1..(b - a + 1) : SubSeq(s, a, b)[i] = s[a + i - 1]
  <2> HIDE <1>1
  <2> QED
    BY <1>2, <1>3, SubSeqProperties
<1>5. (IF a <= b THEN b - a + 1 ELSE 0) = n
  BY <1>1
<1> QED
  BY <1>1, <1>2, <1>4, <1>5

(* Short octet strings.                                                     *)
LEMMA Octets1 ==
  ASSUME NEW a \in Int
  PROVE  <<a>> \in Seq(Int) /\ Len(<<a>>) = 1 /\ <<a>>[1] = a
  OBVIOUS

(* ... of two octets                                                        *)
LEMMA Octets2 ==
  ASSUME NEW a \in Int, NEW b \in Int
  PROVE  /\ <<a, b>> \in Seq(Int) /\ Len(<<a, b>>) = 2
         /\ <<a, b>>[1] = a /\ <<a, b>>[2] = b
  OBVIOUS

(* ... of four                                                              *)
LEMMA Octets4 ==
  ASSUME NEW a \in Int, NEW b \in Int, NEW c \in Int, NEW d \in Int
  PROVE  /\ <<a, b, c, d>> \in Seq(Int) /\ Len(<<a, b, c, d>>) = 4
         /\ <<a, b, c, d>>[1] = a /\ <<a, b, c, d>>[2] = b
         /\ <<a, b, c, d>>[3] = c /\ <<a, b, c, d>>[4] = d
  OBVIOUS

(* ... and of three.                                                        *)
LEMMA Octets3 ==
  ASSUME NEW a \in Int, NEW b \in Int, NEW c \in Int
  PROVE  /\ <<a, b, c>> \in Seq(Int) /\ Len(<<a, b, c>>) = 3
         /\ <<a, b, c>>[1] = a /\ <<a, b, c>>[2] = b /\ <<a, b, c>>[3] = c
  OBVIOUS

(* The texts and addresses that are tried.                                  *)
LEMMA TextFacts ==
  ASSUME NEW n \in Nat
  PROVE  /\ Text(n) \in Seq(Int) /\ Len(Text(n)) = n
         /\ \A i \in 1..n : Text(n)[i] \in Nat
<1>1. \A i \in 1..n : 97 + (i % 2) \in Nat
  OBVIOUS
<1>2. Text(n) \in [1..n -> Int]
  BY <1>1 DEF Text
<1> QED
  BY <1>1, <1>2 DEF Text

(* The IPv6 address that is tried has 16 octets.                            *)
LEMMA V6Facts ==
  V6 \in Seq(Int) /\ Len(V6) = 16 /\ \A i \in 1..16 : V6[i] = i /\ V6[i] \in Nat
<1>1. V6 \in [1..16 -> Int]
  BY DEF V6
<1> QED
  BY <1>1 DEF V6

(* The IPv4 address that is tried has four.                                 *)
LEMMA V4Facts ==
  /\ V4 \in Seq(Int) /\ Len(V4) = 4 /\ \A i \in 1..4 : V4[i] \in Nat
  /\ V4[1] = 10 /\ V4[2] = 0 /\ V4[3] = 2 /\ V4[4] = 3
<1>1. V4 \in Seq(Int) /\ Len(V4) = 4 /\ V4[1] = 10 /\ V4[2] = 0 /\ V4[3] = 2 /\ V4[4] = 3
  BY Octets4 DEF V4
<1>2. \A i \in 1..4 : i = 1 \/ i = 2 \/ i = 3 \/ i = 4
  BY SMTT(30)
<1> QED
  BY <1>1, <1>2

-----------------------------------------------------------------------------
(* The octets of a request and of a datagram's header.                      *)
Start(atyp) == IF atyp = DOMAINNAME THEN 5 ELSE 4

(* A port by its two octets.                                                *)
Joined(hi, lo) == hi * 256 + lo

(* A port is its upper octet times 256 and its lower one.                   *)
LEMMA Divided ==
  ASSUME NEW port \in Nat
  PROVE  \E q, b : /\ q = port \div 256 /\ b = port % 256 /\ port = 256 * q + b
                   /\ q \in Nat /\ b \in Nat /\ b <= 255
<1>1. PICK q, b : q = port \div 256 /\ b = port % 256
  OBVIOUS
<1>2. port = 256 * q + b /\ q \in Nat /\ b \in Nat /\ b <= 255
  BY ONLY <1>1, port \in Nat, SMTT(30)
<1> QED
  BY ONLY <1>1, <1>2

(* A square, kept folded so that the bound of a port stays a small term.    *)
Square(k) == k * k

(* The ports are the numbers below 256 times 256.                           *)
LEMMA WordBound == Word \subseteq {p \in Nat : p < Square(256)}
BY SMTT(30) DEF Word, Square

(* Two octets hold a port.                                                  *)
LEMMA PortFacts ==
  ASSUME NEW port \in Word, NEW w, w = socks5_write_port(port)
  PROVE  w \in Seq(Int) /\ Len(w) = 2 /\ Joined(w[1], w[2]) = port
<1>0. port \in Nat /\ port < Square(256)
  BY ONLY WordBound, port \in Word
<1>1. PICK q, b : /\ q = port \div 256 /\ b = port % 256 /\ port = 256 * q + b
                  /\ q \in Nat /\ b \in Nat /\ b <= 255
  BY ONLY <1>0, Divided
<1>2. q \in Nat /\ b \in Int /\ q * 256 + b = port /\ q % 256 = q
  <2>1. port = 256 * q + b /\ q \in Nat /\ b \in Nat
    BY ONLY <1>1
  <2>2. q <= 255
    BY ONLY <1>0, <2>1, SMTT(30) DEF Square
  <2>3. q % 256 = q
    BY ONLY <2>1, <2>2, SMTT(30)
  <2> QED
    BY ONLY <2>1, <2>3, SMTT(30)
<1>3. w = <<q, b>>
  BY <1>1, <1>2, Z3 DEF socks5_write_port, Octet
<1>4. q \in Int /\ b \in Int
  BY <1>2, Z3
<1>5. w \in Seq(Int) /\ Len(w) = 2 /\ w[1] = q /\ w[2] = b
  BY <1>3, <1>4, Octets2
<1> QED
  BY <1>2, <1>5, Z3 DEF Joined

(* The address field: its type, the length of a name, and the octets.       *)
LEMMA FieldOctets ==
  ASSUME NEW atyp, NEW addr, Encodable(atyp, addr), NEW f,
         f = socks5_write_atyp_addr(atyp, addr)
  PROVE  /\ f \in Seq(Int) /\ Len(f) = Start(atyp) - 3 + Len(addr) /\ Len(addr) \in Nat
         /\ f[1] = atyp /\ (atyp = DOMAINNAME => f[2] = Len(addr))
         /\ \A i \in 1..Len(addr) : f[Start(atyp) - 3 + i] = addr[i]
<1>1. PICK n : n = Len(addr) /\ n \in Nat
  BY LenProperties DEF Encodable
<1>a. addr \in Seq(Int)
  BY DEF Encodable
<1>b. \A i \in 1..n : addr[i] \in Int
  BY <1>1, <1>a, ElementOfSeq
<1>2. CASE atyp = DOMAINNAME
  <2>0. DOMAINNAME # IPV4 /\ DOMAINNAME # IPV6 /\ Len(addr) \in 1..255
    BY <1>2, SMTT(30) DEF Encodable, IPV4, IPV6, DOMAINNAME
  <2>1. f = <<DOMAINNAME, n>> \o addr
    BY <1>1, <1>2, <2>0, ZenonT(60) DEF socks5_write_atyp_addr
  <2>2. PICK h : h = <<DOMAINNAME, n>>
    OBVIOUS
  <2>3. h \in Seq(Int) /\ Len(h) = 2 /\ h[1] = DOMAINNAME /\ h[2] = n
    BY <1>1, <2>2, Octets2 DEF DOMAINNAME
  <2>4. /\ f \in Seq(Int) /\ Len(f) = 2 + n /\ f[1] = DOMAINNAME /\ f[2] = n
        /\ \A i \in 1..n : f[2 + i] = addr[i]
    BY <1>1, <1>a, <2>1, <2>2, <2>3, Cat
  <2> QED
    BY <1>1, <1>2, <2>4 DEF Start
<1>3. CASE atyp # DOMAINNAME
  <2>0. \/ atyp = IPV4 /\ n = 4 /\ IPV4 \in Int
        \/ atyp = IPV6 /\ n = 16 /\ IPV6 \in Int /\ IPV6 # IPV4
    <3>1. IPV4 \in Int /\ IPV6 \in Int /\ IPV6 # IPV4
      BY DEF IPV4, IPV6
    <3> QED
      BY <1>1, <1>3, <3>1, Zenon DEF Encodable
  <2>1. f = <<atyp>> \o SubSeq(addr, 1, n) /\ atyp \in Int
    <3>1. CASE atyp = IPV4 /\ IPV4 # IPV6 /\ IPV4 # DOMAINNAME /\ n = 4
      BY <3>1, <2>0, ZenonT(60) DEF socks5_write_atyp_addr
    <3>2. CASE atyp = IPV6 /\ IPV6 # IPV4 /\ n = 16
      BY <2>0, <3>2, <1>3, ZenonT(60) DEF socks5_write_atyp_addr
    <3>3. IPV6 # IPV4 /\ IPV4 # DOMAINNAME
      BY DEF IPV4, IPV6, DOMAINNAME
    <3> QED
      BY <2>0, <3>1, <3>2, <3>3, SMTT(30)
  <2>2. PICK a : a = SubSeq(addr, 1, n)
    OBVIOUS
  <2>3. a \in Seq(Int) /\ Len(a) = n /\ \A i \in 1..n : a[i] = addr[i]
    <3>1. /\ SubSeq(addr, 0 + 1, 0 + n) \in Seq(Int)
          /\ Len(SubSeq(addr, 0 + 1, 0 + n)) = n
          /\ \A i \in 1..n : SubSeq(addr, 0 + 1, 0 + n)[i] = addr[0 + i]
      BY <1>1, <1>a, Part
    <3>2. 0 + 1 = 1 /\ 0 + n = n /\ \A i \in 1..n : 0 + i = i
      BY <1>1
    <3> QED
      BY <2>2, <3>1, <3>2
  <2>4. PICK h : h = <<atyp>>
    OBVIOUS
  <2>5. h \in Seq(Int) /\ Len(h) = 1 /\ h[1] = atyp
    BY <2>1, <2>4, Octets1
  <2>6. /\ f \in Seq(Int) /\ Len(f) = 1 + n /\ f[1] = atyp
        /\ \A i \in 1..n : f[1 + i] = addr[i]
    BY <1>1, <2>1, <2>2, <2>3, <2>4, <2>5, Cat
  <2> QED
    BY <1>1, <1>3, <2>6, SMTT(30) DEF Start
<1> QED
  BY <1>2, <1>3

(* The whole: three octets, the field, the port.                            *)
LaidOut(x, head, atyp, addr, port, n, a) ==
  /\ x \in Seq(Int) /\ n \in Nat /\ a \in Nat /\ Len(x) = a + n + 2 /\ x # Nothing
  /\ x[1] = head[1] /\ x[2] = head[2] /\ x[3] = head[3] /\ x[4] = atyp
  /\ atyp = DOMAINNAME => x[5] = n
  /\ \A i \in 1..n : x[a + i] = addr[i]
  /\ Joined(x[a + n + 1], x[a + n + 2]) = port

(* A layout has its head, its type, its address and its port in place.      *)
LEMMA LayoutFacts ==
  ASSUME NEW head \in Seq(Int), Len(head) = 3, NEW atyp, NEW addr,
         Encodable(atyp, addr), NEW port \in Word, NEW x,
         x = Layout(head, atyp, addr, port), NEW n, n = Len(addr),
         NEW a, a = Start(atyp)
  PROVE  LaidOut(x, head, atyp, addr, port, n, a)
<1>1. PICK f : f = socks5_write_atyp_addr(atyp, addr)
  OBVIOUS
<1>2. PICK w : w = socks5_write_port(port)
  OBVIOUS
<1>3. a \in Nat /\ n \in Nat /\ a >= 4 /\ (atyp = DOMAINNAME => a = 5)
  <2>1. n \in Nat
    BY LenProperties DEF Encodable
  <2> QED
    BY ONLY <2>1, a = Start(atyp) DEF Start
<1>4. /\ f \in Seq(Int) /\ Len(f) = a - 3 + n
      /\ f[1] = atyp /\ (atyp = DOMAINNAME => f[2] = n)
      /\ \A i \in 1..n : f[a - 3 + i] = addr[i]
  BY <1>1, FieldOctets
<1>5. w \in Seq(Int) /\ Len(w) = 2 /\ Joined(w[1], w[2]) = port
  BY <1>2, PortFacts
<1>6. f # Nothing
  BY <1>3, <1>4, EmptySeq DEF Nothing
<1>7. x = (head \o f) \o w
  BY <1>1, <1>2, <1>6 DEF Layout
<1>8. PICK y : y = head \o f
  OBVIOUS
<1>9. PICK k : k = Len(f)
  OBVIOUS
<1>a. k \in Nat /\ k = a - 3 + n /\ k >= 1 /\ (atyp = DOMAINNAME => k >= 2)
  BY <1>3, <1>4, <1>9, SMTT(30)
<1>b. /\ y \in Seq(Int) /\ Len(y) = 3 + k
      /\ \A i \in 1..3 : y[i] = head[i]
      /\ \A i \in 1..k : y[3 + i] = f[i]
  <2>1. PICK m : m = Len(head)
    OBVIOUS
  <2>2. /\ y \in Seq(Int) /\ Len(y) = m + k
        /\ \A i \in 1..m : y[i] = head[i]
        /\ \A i \in 1..k : y[m + i] = f[i]
    <3>1. /\ head \in Seq(Int) /\ f \in Seq(Int) /\ m = Len(head) /\ k = Len(f)
          /\ y = head \o f
      BY <1>4, <1>8, <1>9, <2>1
    <3> QED
      BY ONLY <3>1, Cat
  <2> QED
    BY <2>1, <2>2
<1>c. /\ y \in Seq(Int) /\ Len(y) = a + n
      /\ y[1] = head[1] /\ y[2] = head[2] /\ y[3] = head[3]
  BY <1>3, <1>a, <1>b, SMTT(30)
<1>10. /\ y[4] = atyp /\ (atyp = DOMAINNAME => y[5] = n)
       /\ \A i \in 1..n : y[a + i] = addr[i]
  <2>1. y[3 + 1] = f[1] /\ (atyp = DOMAINNAME => y[3 + 2] = f[2])
    BY <1>a, <1>b
  <2>2. \A i \in 1..n : a - 3 + i \in 1..k /\ 3 + (a - 3 + i) = a + i
    BY <1>3, <1>a
  <2>3. \A i \in 1..n : y[a + i] = f[a - 3 + i]
    BY <1>b, <2>2
  <2>4. 3 + 1 = 4 /\ 3 + 2 = 5
    OBVIOUS
  <2> QED
    BY <1>4, <2>1, <2>3, <2>4
<1>11. /\ x \in Seq(Int) /\ Len(x) = (a + n) + 2
       /\ \A i \in 1..(a + n) : x[i] = y[i]
       /\ x[(a + n) + 1] = w[1] /\ x[(a + n) + 2] = w[2]
  <2>1. PICK l : l = Len(y)
    OBVIOUS
  <2>2. /\ x \in Seq(Int) /\ Len(x) = l + 2 /\ \A i \in 1..l : x[i] = y[i]
        /\ \A i \in 1..2 : x[l + i] = w[i]
    <3>1. PICK m : m = Len(w)
      OBVIOUS
    <3>2. /\ x \in Seq(Int) /\ Len(x) = l + m /\ \A i \in 1..l : x[i] = y[i]
          /\ \A i \in 1..m : x[l + i] = w[i]
      <4>1. /\ y \in Seq(Int) /\ w \in Seq(Int) /\ l = Len(y) /\ m = Len(w)
            /\ x = y \o w
        BY <1>5, <1>7, <1>8, <1>c, <2>1, <3>1
      <4> QED
        BY ONLY <4>1, Cat
    <3> QED
      BY <1>5, <3>1, <3>2
  <2> QED
    BY <1>c, <2>1, <2>2
<1>12. x # Nothing
  BY <1>3, <1>11, EmptySeq DEF Nothing
<1>13. /\ 1 \in 1..(a + n) /\ 2 \in 1..(a + n) /\ 3 \in 1..(a + n) /\ 4 \in 1..(a + n)
       /\ (atyp = DOMAINNAME => 5 \in 1..(a + n))
       /\ \A i \in 1..n : a + i \in 1..(a + n)
  BY <1>3
<1>14. /\ x[1] = head[1] /\ x[2] = head[2] /\ x[3] = head[3] /\ x[4] = atyp
       /\ (atyp = DOMAINNAME => x[5] = n)
       /\ \A i \in 1..n : x[a + i] = addr[i]
  BY <1>c, <1>10, <1>11, <1>13, ZenonT(60)
<1> QED
  BY <1>3, <1>5, <1>11, <1>12, <1>14 DEF LaidOut

(* A proxy reads back what was laid out.                                    *)
LEMMA ReadBack ==
  ASSUME NEW cmd \in Int, NEW atyp, NEW addr, Encodable(atyp, addr),
         NEW port \in Word, NEW x,
         x = socks5_build_request_cmd(cmd, atyp, addr, port)
  PROVE  /\ x \in Seq(Int) /\ x # Nothing
         /\ Understood(x) = [cmd |-> cmd, atyp |-> atyp, addr |-> addr, port |-> port]
<1>1. PICK n, a : n = Len(addr) /\ a = Start(atyp)
  OBVIOUS
<1>2. PICK h : h = <<5, cmd, 0>>
  OBVIOUS
<1>3. h \in Seq(Int) /\ Len(h) = 3 /\ h[2] = cmd
  BY <1>2, Octets3
<1>4. /\ x \in Seq(Int) /\ n \in Nat /\ a \in Nat /\ Len(x) = a + n + 2 /\ x # Nothing
      /\ x[2] = cmd /\ x[4] = atyp /\ \A i \in 1..n : x[a + i] = addr[i]
      /\ Joined(x[a + n + 1], x[a + n + 2]) = port
  <2>1. x = Layout(h, atyp, addr, port)
    BY <1>2 DEF socks5_build_request_cmd
  <2>2. h \in Seq(Int) /\ Len(h) = 3 /\ Encodable(atyp, addr) /\ port \in Word
    BY <1>3
  <2>3. LaidOut(x, h, atyp, addr, port, n, a)
    BY ONLY <1>1, <2>1, <2>2, LayoutFacts
  <2> QED
    BY <1>3, <2>3 DEF LaidOut
<1>5. /\ Len(x) - 1 = a + n + 1 /\ Len(x) = a + n + 2 /\ Len(x) - 2 = a + n
      /\ (IF x[4] = DOMAINNAME THEN 6 ELSE 5) = a + 1
  BY <1>1, <1>4 DEF Start
<1>6. SubSeq(x, a + 1, a + n) = addr
  <2>1. /\ SubSeq(x, a + 1, a + n) \in Seq(Int) /\ Len(SubSeq(x, a + 1, a + n)) = n
        /\ \A i \in 1..n : SubSeq(x, a + 1, a + n)[i] = x[a + i]
    BY <1>4, Part
  <2>2. addr \in Seq(Int)
    BY DEF Encodable
  <2>3. PICK z : z = SubSeq(x, a + 1, a + n)
    OBVIOUS
  <2>4. z \in Seq(Int) /\ Len(z) = Len(addr) /\ \A i \in 1..Len(z) : z[i] = addr[i]
    BY <1>1, <1>4, <2>1, <2>3, ZenonT(60)
  <2> QED
    BY <2>2, <2>3, <2>4, SeqEqual
<1> QED
  BY <1>4, <1>5, <1>6, ZenonT(60) DEF Understood, Joined

-----------------------------------------------------------------------------
(* What the callers ask for is what the builders say to the proxy.          *)
LEMMA PortIsWord == Port \in Word /\ 0 \in Word
BY Z3 DEF Port, Word

(* The addresses that are asked for are the ones that can be encoded.       *)
LEMMA Addresses ==
  /\ Askable(IPV4, V4) /\ Askable(IPV6, V6) /\ Encodable(IPV4, V4)
  /\ Encodable(IPV6, V6) /\ Encodable(IPV4, <<0, 0, 0, 0>>)
  /\ \A n \in NameLengths : Askable(DOMAINNAME, Text(n))
<1>1. Encodable(IPV4, V4) /\ Encodable(IPV6, V6)
  BY V4Facts, V6Facts DEF Encodable
<1>2. Encodable(IPV4, <<0, 0, 0, 0>>)
  BY Octets4 DEF Encodable
<1>3. \A n \in NameLengths : Askable(DOMAINNAME, Text(n))
  BY TextFacts, Socks5Assumption DEF Askable, Encodable, Socks5Assumption
<1> QED
  BY <1>1, <1>2, <1>3 DEF Askable

(* A request that the builders make is read as what was asked for.          *)
LEMMA Built ==
  ASSUME NEW cmd \in Int, NEW atyp, NEW addr, Askable(atyp, addr), NEW ask,
         ask = Ask(socks5_build_request_cmd(cmd, atyp, addr, Port),
                   Asked(cmd, atyp, addr))
  PROVE  IsAsk(ask)
<1>1. PICK x : x = socks5_build_request_cmd(cmd, atyp, addr, Port)
  OBVIOUS
<1>2. PICK y : y = Asked(cmd, atyp, addr)
  OBVIOUS
<1>3. ask.req = x /\ ask.asked = y
  BY <1>1, <1>2 DEF Ask
<1>4. y.atyp = atyp /\ y.addr = addr /\ y.port = Port
  BY <1>2 DEF Asked
<1>5. x \in Seq(Int) /\ Faithful(x, y)
  <2>1. CASE Encodable(atyp, addr)
    <3>1. /\ x \in Seq(Int)
          /\ Understood(x) = [cmd |-> cmd, atyp |-> atyp, addr |-> addr, port |-> Port]
      BY <1>1, <2>1, PortIsWord, ReadBack
    <3> QED
      BY <1>2, <3>1 DEF Faithful, Asked
  <2>2. CASE atyp = DOMAINNAME /\ Len(addr) \notin 1..255
    <3>1. socks5_write_atyp_addr(atyp, addr) = Nothing
      BY <2>2 DEF socks5_write_atyp_addr, IPV4, IPV6, DOMAINNAME
    <3>2. x = Nothing
      BY <1>1, <3>1 DEF socks5_build_request_cmd, Layout
    <3> QED
      BY <3>2, EmptySeq DEF Faithful, Nothing
  <2> QED
    BY <2>1, <2>2 DEF Askable
<1> QED
  BY <1>3, <1>4, <1>5, PortIsWord DEF IsAsk

(* One that cannot be built is not sent.                                    *)
LEMMA Unbuilt ==
  ASSUME NEW cmd \in Int, NEW atyp, NEW addr, Askable(atyp, addr), NEW ask,
         ask = Ask(Nothing, Asked(cmd, atyp, addr))
  PROVE  IsAsk(ask)
<1>1. /\ ask.req = Nothing /\ ask.asked.atyp = atyp /\ ask.asked.addr = addr
      /\ ask.asked.port = Port
  BY DEF Ask, Asked
<1>2. Nothing \in Seq(Int)
  BY EmptySeq DEF Nothing
<1> QED
  BY <1>1, <1>2, PortIsWord DEF IsAsk, Faithful

(* A sockaddr of a family that has a place on the wire.                     *)
LEMMA FromSockaddr ==
  ASSUME NEW cmd, NEW f, NEW x,
         x = socks5_build_request_from_sockaddr_cmd(cmd, Sockaddr(f))
  PROVE  IF f \in {"inet", "inet6"}
           THEN x = socks5_build_request_cmd(cmd, AtypOf(f), Sockaddr(f).addr, Port)
           ELSE x = Nothing
<1>1. ntohs(<<1, 187>>) = Port
  BY Z3 DEF ntohs, Port
<1>2. PICK sa : sa = Sockaddr(f)
  OBVIOUS
<1>3. sa.family = f /\ sa.port = <<1, 187>>
  BY <1>2 DEF Sockaddr
<1>4. CASE f = "inet"
  BY <1>1, <1>2, <1>3, <1>4 DEF socks5_build_request_from_sockaddr_cmd, AtypOf
<1>5. CASE f = "inet6"
  BY <1>1, <1>2, <1>3, <1>5 DEF socks5_build_request_from_sockaddr_cmd, AtypOf
<1>6. CASE f \notin {"inet", "inet6"}
  BY <1>2, <1>3, <1>6 DEF socks5_build_request_from_sockaddr_cmd
<1> QED
  BY <1>4, <1>5, <1>6

(* An IpAddr with a port and one of its addresses, or without a port.       *)
LEMMA FromIpAddr ==
  ASSUME NEW a, NEW x, x = socks5_build_request_from_ip_addr(a)
  PROVE  /\ a.port = {} => x = Nothing
         /\ a.port = {Port} /\ a.v4 # {} =>
              x = socks5_build_request_cmd(CONNECT, IPV4, OctetsOf(The(a.v4)), Port)
         /\ a.port = {Port} /\ a.v4 = {} /\ a.v6 = {V6} =>
              x = socks5_build_request_cmd(CONNECT, IPV6, V6, Port)
         /\ \A d : a.port = {Port} /\ a.v4 = {} /\ a.v6 = {} /\ a.domain = {d} =>
              x = socks5_build_request_cmd(CONNECT, DOMAINNAME, d, Port)
<1>1. \A d : The({d}) = d
  BY DEF The
<1>2. Port % 65536 = Port
  BY Z3 DEF Port
<1>3. Len(V6) = 16
  BY V6Facts
<1>4. CASE a.port = {}
  BY <1>4 DEF socks5_build_request_from_ip_addr
<1>5. CASE a.port = {Port} /\ a.v4 # {}
  <2>1. a.port # {} /\ The(a.port) = Port
    BY <1>1, <1>5
  <2> QED
    BY <1>2, <1>5, <2>1 DEF socks5_build_request_from_ip_addr
<1>6. CASE a.port = {Port} /\ a.v4 = {} /\ a.v6 = {V6}
  <2>1. a.port # {} /\ The(a.port) = Port /\ a.v6 # {} /\ The(a.v6) = V6
    BY <1>1, <1>6
  <2>2. a.v4 = {}
    BY <1>6
  <2> QED
    BY <1>2, <1>3, <2>1, <2>2 DEF socks5_build_request_from_ip_addr
<1>7. ASSUME NEW d, a.port = {Port}, a.v4 = {}, a.v6 = {}, a.domain = {d}
      PROVE  x = socks5_build_request_cmd(CONNECT, DOMAINNAME, d, Port)
  <2>1. a.port # {} /\ The(a.port) = Port /\ a.domain # {} /\ The(a.domain) = d
    BY <1>1, <1>7
  <2> QED
    BY <1>2, <1>7, <2>1 DEF socks5_build_request_from_ip_addr
<1> QED
  BY <1>4, <1>5, <1>6, <1>7

(* The octets of a host-order IPv4 address.                                 *)
LEMMA V4Octets == OctetsOf(V4Host) = V4
<1>1. /\ Octet(167772675 \div 16777216) = 10 /\ Octet(167772675 \div 65536) = 0
      /\ Octet(167772675 \div 256) = 2 /\ Octet(167772675) = 3
  BY Z3 DEF Octet
<1> QED
  BY <1>1 DEF OctetsOf, V4, V4Host

(* What CONNECT asks for, by sockaddr and by IpAddr, is what it means.      *)
LEMMA ConnectAsksMean == \A ask \in ConnectAsks : IsAsk(ask)
<1> CONNECT \in Int
  BY DEF CONNECT
<1>1. ASSUME NEW f \in Families, NEW ask,
             ask = Ask(socks5_build_request_from_sockaddr_cmd(CONNECT, Sockaddr(f)),
                       Asked(CONNECT, AtypOf(f), Sockaddr(f).addr))
      PROVE  IsAsk(ask)
  <2>1. Askable(AtypOf(f), Sockaddr(f).addr)
    BY Addresses DEF AtypOf, Sockaddr
  <2>2. CASE f \in {"inet", "inet6"}
    BY <1>1, <2>1, <2>2, FromSockaddr, Built
  <2>3. CASE f \notin {"inet", "inet6"}
    BY <1>1, <2>1, <2>3, FromSockaddr, Unbuilt
  <2> QED
    BY <2>2, <2>3
<1>2. ASSUME NEW a, a = [NoIpAddr EXCEPT !.v4 = {V4Host}], NEW ask,
             ask = Ask(socks5_build_request_from_ip_addr(a), Asked(CONNECT, IPV4, V4))
      PROVE  IsAsk(ask)
  <2>2. a.port = {Port} /\ a.v4 = {V4Host}
    BY <1>2 DEF NoIpAddr
  <2>3. OctetsOf(The(a.v4)) = V4
    BY <2>2, V4Octets DEF The
  <2>4. socks5_build_request_from_ip_addr(a) =
          socks5_build_request_cmd(CONNECT, IPV4, V4, Port)
    BY <2>2, <2>3, FromIpAddr
  <2> QED
    BY <1>2, <2>4, Addresses, Built
<1>3. ASSUME NEW a, a = [NoIpAddr EXCEPT !.v6 = {V6}], NEW ask,
             ask = Ask(socks5_build_request_from_ip_addr(a), Asked(CONNECT, IPV6, V6))
      PROVE  IsAsk(ask)
  <2>1. a.port = {Port} /\ a.v4 = {} /\ a.v6 = {V6}
    BY <1>3 DEF NoIpAddr
  <2>2. socks5_build_request_from_ip_addr(a) =
          socks5_build_request_cmd(CONNECT, IPV6, V6, Port)
    BY <2>1, FromIpAddr
  <2> QED
    BY <1>3, <2>2, Addresses, Built
<1>4. ASSUME NEW a, a = [NoIpAddr EXCEPT !.v4 = {V4Host}, !.port = {}], NEW ask,
             ask = Ask(socks5_build_request_from_ip_addr(a), Asked(CONNECT, IPV4, V4))
      PROVE  IsAsk(ask)
  <2>1. a.port = {}
    BY <1>4 DEF NoIpAddr
  <2>2. socks5_build_request_from_ip_addr(a) = Nothing
    BY <2>1, FromIpAddr
  <2> QED
    BY <1>4, <2>2, Addresses, Unbuilt
<1>5. ASSUME NEW n \in NameLengths, NEW a, a = [NoIpAddr EXCEPT !.domain = {Text(n)}],
             NEW ask, ask = Ask(socks5_build_request_from_ip_addr(a),
                                Asked(CONNECT, DOMAINNAME, Text(n)))
      PROVE  IsAsk(ask)
  <2>1. a.port = {Port} /\ a.v4 = {} /\ a.v6 = {} /\ a.domain = {Text(n)}
    BY <1>5 DEF NoIpAddr
  <2>2. socks5_build_request_from_ip_addr(a) =
          socks5_build_request_cmd(CONNECT, DOMAINNAME, Text(n), Port)
    BY <2>1, FromIpAddr
  <2> QED
    BY <1>5, <2>2, Addresses, Built
<1>6. /\ IsAsk(Ask(socks5_build_request_from_ip_addr(
                     [NoIpAddr EXCEPT !.v4 = {V4Host}]), Asked(CONNECT, IPV4, V4)))
      /\ IsAsk(Ask(socks5_build_request_from_ip_addr(
                     [NoIpAddr EXCEPT !.v6 = {V6}]), Asked(CONNECT, IPV6, V6)))
      /\ IsAsk(Ask(socks5_build_request_from_ip_addr(
                     [NoIpAddr EXCEPT !.v4 = {V4Host}, !.port = {}]),
                   Asked(CONNECT, IPV4, V4)))
  BY <1>2, <1>3, <1>4
<1>7. \A n \in NameLengths :
        IsAsk(Ask(socks5_build_request_from_ip_addr(
                [NoIpAddr EXCEPT !.domain = {Text(n)}]),
              Asked(CONNECT, DOMAINNAME, Text(n))))
  BY <1>5
<1>8. \A f \in Families :
        IsAsk(Ask(socks5_build_request_from_sockaddr_cmd(CONNECT, Sockaddr(f)),
                  Asked(CONNECT, AtypOf(f), Sockaddr(f).addr)))
  BY <1>1
<1> QED
  BY <1>6, <1>7, <1>8 DEF ConnectAsks

(* So is what UDP ASSOCIATE asks for, the unspecified address included.     *)
LEMMA AssociateAsksMean == \A ask \in AssociateAsks : IsAsk(ask)
<1> ASSOCIATE \in Int
  BY DEF ASSOCIATE
<1>1. ASSUME NEW f \in Families PROVE IsAsk(Associate(f))
  <2>1. PICK h : h = socks5_build_request_from_sockaddr_cmd(ASSOCIATE, Sockaddr(f))
    OBVIOUS
  <2>2. Askable(AtypOf(f), Sockaddr(f).addr)
    BY Addresses DEF AtypOf, Sockaddr
  <2>3. CASE h # Nothing
    <3>1. h = socks5_build_request_cmd(ASSOCIATE, AtypOf(f), Sockaddr(f).addr, Port)
      BY <2>1, <2>3, FromSockaddr
    <3>2. Associate(f) = Ask(h, Asked(ASSOCIATE, AtypOf(f), Sockaddr(f).addr))
      BY <2>1, <2>3 DEF Associate
    <3> QED
      BY <2>2, <3>1, <3>2, Built
  <2>4. CASE h = Nothing
    <3>1. PICK x : x = socks5_build_request_cmd(ASSOCIATE, IPV4, <<0,0,0,0>>, 0)
      OBVIOUS
    <3>2. x \in Seq(Int) /\ Understood(x) = Unbound
      BY <3>1, PortIsWord, Addresses, ReadBack DEF Unbound
    <3>3. Associate(f) = Ask(x, Unbound)
      BY <2>1, <2>4, <3>1 DEF Associate
    <3>4. Associate(f).req = x /\ Associate(f).asked = Unbound
      BY <3>3 DEF Ask
    <3>5. Askable(Unbound.atyp, Unbound.addr) /\ Unbound.port \in Word
      BY PortIsWord, Addresses DEF Unbound, Askable
    <3> QED
      BY <3>2, <3>4, <3>5 DEF IsAsk, Faithful
  <2> QED
    BY <2>3, <2>4
<1> QED
  BY <1>1 DEF AssociateAsks

(* A login is read back as it was given.                                    *)
LEMMA AuthFacts ==
  ASSUME NEW c \in Logins, NEW x, x = socks5_build_auth(c), x # Nothing, NEW u, u = x[2]
  PROVE  /\ x \in Seq(Int)
         /\ SubSeq(x, 3, 2 + u) = c.username
         /\ SubSeq(x, 4 + u, Len(x)) = c.password
<1>1. PICK U, P : U = c.username /\ P = c.password
  OBVIOUS
<1>2. U \in Seq(Int) /\ P \in Seq(Int)
  <2>1. PICK n \in NameLengths, m \in {0, 1} : c = [username |-> Text(n), password |-> Text(m)]
    BY DEF Logins
  <2>2. n \in Nat /\ m \in Nat
    BY Socks5Assumption DEF Socks5Assumption
  <2> QED
    BY <1>1, <2>1, <2>2, TextFacts
<1>3. PICK m, n : m = Len(U) /\ n = Len(P)
  OBVIOUS
<1>4. m \in Nat /\ n \in Nat
  BY <1>2, <1>3, LenProperties
<1>5. PICK h, l : h = <<1, m>> /\ l = <<n>>
  OBVIOUS
<1>6. /\ h \in Seq(Int) /\ Len(h) = 2 /\ h[2] = m
      /\ l \in Seq(Int) /\ Len(l) = 1
  BY <1>4, <1>5, Octets1, Octets2
<1>7. PICK y, z : y = h \o U /\ z = y \o l
  OBVIOUS
<1>8. x = z \o P
  BY <1>1, <1>3, <1>5, <1>7 DEF socks5_build_auth
<1>9. y \in Seq(Int) /\ Len(y) = 2 + m /\ y[2] = m /\ \A i \in 1..m : y[2 + i] = U[i]
  <2>1. PICK k : k = Len(h)
    OBVIOUS
  <2>2. /\ y \in Seq(Int) /\ Len(y) = k + m /\ \A i \in 1..k : y[i] = h[i]
        /\ \A i \in 1..m : y[k + i] = U[i]
    <3>1. h \in Seq(Int) /\ U \in Seq(Int) /\ k = Len(h) /\ m = Len(U) /\ y = h \o U
      BY <1>2, <1>3, <1>6, <1>7, <2>1
    <3> QED
      BY ONLY <3>1, Cat
  <2> QED
    BY <1>6, <2>1, <2>2
<1>10. z \in Seq(Int) /\ Len(z) = 3 + m /\ \A i \in 1..(2 + m) : z[i] = y[i]
  <2>1. PICK k, j : k = Len(y) /\ j = Len(l)
    OBVIOUS
  <2>2. z \in Seq(Int) /\ Len(z) = k + j /\ \A i \in 1..k : z[i] = y[i]
    <3>1. y \in Seq(Int) /\ l \in Seq(Int) /\ k = Len(y) /\ j = Len(l) /\ z = y \o l
      BY <1>6, <1>7, <1>9, <2>1
    <3> QED
      BY ONLY <3>1, Cat
  <2> QED
    BY <1>4, <1>6, <1>9, <2>1, <2>2
<1>11. /\ x \in Seq(Int) /\ Len(x) = (3 + m) + n /\ \A i \in 1..(3 + m) : x[i] = z[i]
       /\ \A i \in 1..n : x[(3 + m) + i] = P[i]
  <2>1. PICK k : k = Len(z)
    OBVIOUS
  <2>2. /\ x \in Seq(Int) /\ Len(x) = k + n /\ \A i \in 1..k : x[i] = z[i]
        /\ \A i \in 1..n : x[k + i] = P[i]
    <3>1. z \in Seq(Int) /\ P \in Seq(Int) /\ k = Len(z) /\ n = Len(P) /\ x = z \o P
      BY <1>2, <1>3, <1>8, <1>10, <2>1
    <3> QED
      BY ONLY <3>1, Cat
  <2> QED
    BY <1>10, <2>1, <2>2
<1>12. u = m
  BY <1>4, <1>9, <1>10, <1>11
<1>13. SubSeq(x, 2 + 1, 2 + m) = U
  <2>1. PICK k : k = SubSeq(x, 2 + 1, 2 + m)
    OBVIOUS
  <2>2. k \in Seq(Int) /\ Len(k) = m /\ \A i \in 1..m : k[i] = x[2 + i]
    BY <1>4, <1>11, <2>1, Part
  <2>3. \A i \in 1..m : x[2 + i] = U[i]
    BY <1>4, <1>9, <1>10, <1>11
  <2>4. Len(k) = Len(U) /\ \A i \in 1..Len(k) : k[i] = U[i]
    BY <1>3, <2>2, <2>3
  <2> QED
    BY ONLY <1>2, <2>1, <2>2, <2>4, SeqEqual
<1>14. SubSeq(x, (3 + m) + 1, (3 + m) + n) = P
  <2>1. PICK k, j : j = 3 + m /\ k = SubSeq(x, j + 1, j + n)
    OBVIOUS
  <2>2. k \in Seq(Int) /\ Len(k) = n /\ \A i \in 1..n : k[i] = x[j + i]
    <3>1. x \in Seq(Int) /\ j \in Nat /\ n \in Nat /\ j + n <= Len(x)
      BY <1>4, <1>11, <2>1, SMTT(30)
    <3> QED
      BY <3>1, <2>1, Part
  <2>3. \A i \in 1..n : x[j + i] = P[i]
    BY <1>11, <2>1
  <2>4. Len(k) = Len(P) /\ \A i \in 1..Len(k) : k[i] = P[i]
    BY <1>3, <2>2, <2>3
  <2>5. k = P
    BY ONLY <1>2, <2>2, <2>4, SeqEqual
  <2> QED
    BY <2>1, <2>5
<1>15. 2 + 1 = 3 /\ (3 + m) + 1 = 4 + m
  BY <1>4
<1> QED
  BY <1>1, <1>11, <1>12, <1>13, <1>14, <1>15

-----------------------------------------------------------------------------
(* The client's reads.  Nothing but the call and its place in the stream    *)
(* changes.                                                                 *)
Reading == UNCHANGED <<sent, stream, arrived, proxy>>

(* A read that keeps the parts about the call keeps the invariant.          *)
LEMMA ReadKeeps ==
  ASSUME SocksInv, Reading, IsTalk(talk'), SameAsk(talk', talk),
         talk.pc # "idle", talk'.pc # "idle",
         PlaceInv(talk', sent, proxy, taken'),
         ReadInv(talk', sent, stream, proxy, arrived, taken'),
         DoneInv(talk', sent, proxy, arrived, taken')
  PROVE  SocksInv'
<1>1. AskInv(talk')
  BY DEF SocksInv, AskInv, SameAsk, IsAsk
<1>2. SentInv(talk', sent, proxy)
  BY DEF SocksInv, SentInv, SameAsk
<1> QED
  BY <1>1, <1>2 DEF SocksInv, Reading

(* How far the conversation is at each of the places where the client reads.*)
LEMMA Lengths ==
  ASSUME SocksInv
  PROVE  /\ Len(sent) \in Nat /\ Len(stream) \in Nat /\ arrived \in Nat /\ taken \in Nat
         /\ proxy.answered \in Nat /\ taken <= arrived /\ arrived <= Len(stream)
BY LenProperties DEF SocksInv, ReadInv, SentInv

(* Once the proxy has answered the request, its reply is in the stream.     *)
LEMMA RepliedFacts ==
  ASSUME SocksInv, Replied(proxy)
  PROVE  /\ Base(proxy) \in Nat /\ proxy.end \in Nat
         /\ \E r \in Replies : /\ ReplyIs(r, sent, stream, proxy)
                               /\ ReplyPlace(r, talk, proxy, taken)
                               /\ Len(AddrOf(r)) \in Nat /\ At(r) \in {4, 5}
                               /\ Base(proxy) + At(r) < proxy.end
<1>1. PICK r \in Replies : ReplyIs(r, sent, stream, proxy) /\ ReplyPlace(r, talk, proxy, taken)
  BY DEF SocksInv, ReadInv
<1>2. Len(AddrOf(r)) \in Nat
  <2>1. r.n \in Nat
    BY DEF Replies
  <2>2. Len(V4) \in Nat /\ Len(V6) \in Nat /\ Len(Text(r.n)) \in Nat
    BY <2>1, V4Facts, V6Facts, TextFacts
  <2>3. AddrOf(r) = V4 \/ AddrOf(r) = V6 \/ AddrOf(r) = Text(r.n)
    BY DEF AddrOf
  <2> QED
    BY <2>2, <2>3
<1>3. At(r) \in {4, 5} /\ Base(proxy) \in Nat
  BY DEF At, Base
<1>4. proxy.end = Base(proxy) + At(r) + Len(AddrOf(r)) + 2
  BY <1>1 DEF ReplyIs
<1>5. proxy.end \in Nat /\ Base(proxy) + At(r) < proxy.end
  BY <1>2, <1>3, <1>4
<1> QED
  BY <1>1, <1>2, <1>3, <1>5

(* A call that ends leaves little to show.                                  *)
LEMMA EndKeeps ==
  ASSUME SocksInv, Reading, talk.pc # "idle", NEW v, talk' = Done(v),
         taken' \in Nat, taken' <= arrived, Replied(proxy) => taken' <= proxy.end,
         DoneInv(talk', sent, proxy, arrived, taken')
  PROVE  SocksInv'
<1>1. IsTalk(talk') /\ talk'.pc = "done" /\ SameAsk(talk', talk)
  <2>1. IsTalk(talk) /\ talk' = [talk EXCEPT !.pc = "done", !.verdict = v]
    BY DEF SocksInv, Done
  <2> QED
    BY ONLY <2>1 DEF IsTalk, SameAsk
<1>2. PlaceInv(talk', sent, proxy, taken')
  BY <1>1 DEF PlaceInv
<1>3. ReadInv(talk', sent, stream, proxy, arrived, taken')
  <2>1. \A r : ReplyPlace(r, talk', proxy, taken')
    BY <1>1 DEF ReplyPlace
  <2> QED
    BY <2>1, Lengths DEF SocksInv, ReadInv
<1> QED
  BY <1>1, <1>2, <1>3, ReadKeeps

(* The method the proxy picked, read whole or cut.                          *)
LEMMA MethodStep ==
  ASSUME SocksInv, Picked \/ NotPicked
  PROVE  SocksInv'
<1>0. IsTalk(talk)
  BY DEF SocksInv
<1>1. /\ talk.pc = "method" /\ Reading /\ Len(sent) = 1 /\ taken = 0
      /\ proxy.answered <= 1 /\ ~Replied(proxy) /\ proxy.grant = {}
      /\ talk.rep # 0 /\ talk.named = FALSE /\ talk.verdict = "none"
  <2>1. talk.pc = "method" /\ Reading
    BY DEF Picked, NotPicked, Whole, Short, Reading
  <2>2. /\ Len(sent) = 1 /\ taken = 0
        /\ talk.rep # 0 /\ talk.named = FALSE /\ talk.verdict = "none"
    BY <2>1 DEF SocksInv, PlaceInv
  <2>3. proxy.answered \in Nat /\ proxy.answered <= Len(sent)
    BY DEF SocksInv, SentInv
  <2>4. ~Replied(proxy) /\ proxy.answered <= 1
    BY <2>2, <2>3 DEF Replied
  <2> QED
    BY <2>1, <2>2, <2>4 DEF SocksInv, StreamInv
<1>2. ASSUME talk' = NoRelay, taken' \in Nat, taken' <= arrived
      PROVE  SocksInv'
  <2>0. IsTalk(talk) /\ talk' = [talk EXCEPT !.pc = "done", !.verdict = "refused_rep"]
    BY <1>2 DEF SocksInv, NoRelay, Done
  <2>1. talk'.verdict = "refused_rep" /\ talk'.rep = talk.rep
    BY ONLY <2>0 DEF IsTalk
  <2>2. DoneInv(talk', sent, proxy, arrived, taken')
    BY <1>1, <2>1 DEF DoneInv
  <2> QED
    BY <1>1, <1>2, <2>2, EndKeeps DEF NoRelay
<1>3. CASE NotPicked
  BY <1>2, <1>3, Lengths DEF NotPicked, Short, NoRelay
<1>4. CASE Picked
  <2>1. taken' = 2 /\ arrived >= 2
    BY <1>1, <1>4, Lengths DEF Picked, Whole
  <2>2. PICK res : res = Take(2)
    OBVIOUS
  <2>3. proxy.answered = 1 /\ stream[2] = proxy.method
    BY <1>1, <2>1, Lengths, SMTT(30) DEF SocksInv, StreamInv
  <2>4. res[2] = proxy.method
    <3>1. /\ \A i \in 1..2 : SubSeq(stream, 0 + 1, 0 + 2)[i] = stream[0 + i]
      BY <2>1, Lengths, Part DEF SocksInv
    <3> QED
      BY <1>1, <2>2, <2>3, <3>1 DEF Take
  <2>5. CASE talk' = NoRelay
    BY <1>2, <2>1, <2>5
  <2>6. CASE res[2] = NoAuth /\ talk' = [talk EXCEPT !.pc = "request"]
    <3>1. /\ IsTalk(talk') /\ talk'.pc = "request" /\ SameAsk(talk', talk)
          /\ talk'.named = talk.named /\ talk'.verdict = talk.verdict
          /\ talk'.rep = talk.rep
      BY ONLY <1>0, <2>6 DEF IsTalk, SameAsk
    <3>2. PlaceInv(talk', sent, proxy, taken')
      BY <1>1, <2>1, <2>3, <2>4, <2>6, <3>1 DEF PlaceInv
    <3>3. ReadInv(talk', sent, stream, proxy, arrived, taken')
      BY <1>1, <2>1, Lengths DEF ReadInv
    <3>4. DoneInv(talk', sent, proxy, arrived, taken')
      BY <3>1 DEF DoneInv
    <3> QED
      BY <1>1, <3>1, <3>2, <3>3, <3>4, ReadKeeps
  <2>7. CASE /\ res[2] = UserPass /\ enabled(talk.login)
             /\ talk' = [talk EXCEPT !.pc = "login"]
    <3>1. /\ IsTalk(talk') /\ talk'.pc = "login" /\ SameAsk(talk', talk)
          /\ talk'.named = talk.named /\ talk'.verdict = talk.verdict
          /\ talk'.rep = talk.rep /\ talk'.login = talk.login
      BY ONLY <1>0, <2>7 DEF IsTalk, SameAsk
    <3>2. PlaceInv(talk', sent, proxy, taken')
      BY <1>1, <2>1, <2>3, <2>4, <2>7, <3>1 DEF PlaceInv
    <3>3. ReadInv(talk', sent, stream, proxy, arrived, taken')
      BY <1>1, <2>1, Lengths DEF ReadInv
    <3>4. DoneInv(talk', sent, proxy, arrived, taken')
      BY <3>1 DEF DoneInv
    <3> QED
      BY <1>1, <3>1, <3>2, <3>3, <3>4, ReadKeeps
  <2> QED
    BY <1>4, <2>2, <2>5, <2>6, <2>7 DEF Picked
<1> QED
  BY <1>3, <1>4

(* The answer to the login.                                                 *)
LEMMA AuthStep ==
  ASSUME SocksInv, LoggedIn \/ NotLoggedIn
  PROVE  SocksInv'
<1>0. IsTalk(talk)
  BY DEF SocksInv
<1>1. /\ talk.pc = "auth" /\ Reading /\ Len(sent) = 2 /\ taken = 2
      /\ proxy.method = UserPass /\ proxy.answered \in {1, 2}
      /\ ~Replied(proxy) /\ proxy.grant = {}
      /\ talk.rep # 0 /\ talk.named = FALSE /\ talk.verdict = "none"
  <2>1. /\ talk.pc = "auth" /\ Reading
    BY DEF LoggedIn, NotLoggedIn, Whole, Short, Reading
  <2>2. /\ Len(sent) = 2 /\ taken = 2 /\ proxy.method = UserPass
        /\ talk.rep # 0 /\ talk.named = FALSE /\ talk.verdict = "none"
    BY <2>1 DEF SocksInv, PlaceInv
  <2>3. proxy.answered \in {1, 2}
    <3>1. /\ proxy.answered \in Nat /\ proxy.answered <= Len(sent)
          /\ Len(sent) <= proxy.answered + 1
      BY DEF SocksInv, SentInv
    <3> QED
      BY <2>2, <3>1
  <2>4. ~Replied(proxy)
    BY <2>2, <2>3 DEF Replied, UserPass, NoAuth
  <2> QED
    BY <2>1, <2>2, <2>3, <2>4 DEF SocksInv, StreamInv
<1>2. ASSUME talk' = NoRelay, taken' \in Nat, taken' <= arrived
      PROVE  SocksInv'
  <2>0. IsTalk(talk) /\ talk' = [talk EXCEPT !.pc = "done", !.verdict = "refused_rep"]
    BY <1>2 DEF SocksInv, NoRelay, Done
  <2>1. talk'.verdict = "refused_rep" /\ talk'.rep = talk.rep
    BY ONLY <2>0 DEF IsTalk
  <2>2. DoneInv(talk', sent, proxy, arrived, taken')
    BY <1>1, <2>1 DEF DoneInv
  <2> QED
    BY <1>1, <1>2, <2>2, EndKeeps DEF NoRelay
<1>3. CASE NotLoggedIn
  BY <1>2, <1>3, Lengths DEF NotLoggedIn, Short, NoRelay
<1>4. CASE LoggedIn
  <2>1. taken' = 4 /\ arrived >= 4
    BY <1>1, <1>4, Lengths DEF LoggedIn, Whole
  <2>2. CASE talk' = NoRelay
    BY <1>2, <2>1, <2>2
  <2>3. CASE Take(2) = <<1, 0>> /\ talk' = [talk EXCEPT !.pc = "request"]
    <3>1. proxy.answered = 2 /\ (proxy.login <=> stream[3] = 1 /\ stream[4] = 0)
      BY <1>1, <2>1, Lengths, SMTT(30) DEF SocksInv, StreamInv
    <3>2. /\ \A i \in 1..2 : SubSeq(stream, 2 + 1, 2 + 2)[i] = stream[2 + i]
      BY <2>1, Lengths, Part DEF SocksInv
    <3>3. Take(2)[1] = stream[3] /\ Take(2)[2] = stream[4]
      BY <1>1, <3>2 DEF Take
    <3>4. proxy.login
      BY <2>3, <3>1, <3>3
    <3>5. /\ IsTalk(talk') /\ talk'.pc = "request" /\ SameAsk(talk', talk)
          /\ talk'.named = talk.named /\ talk'.verdict = talk.verdict
          /\ talk'.rep = talk.rep
      BY ONLY <1>0, <2>3 DEF IsTalk, SameAsk
    <3>6. PlaceInv(talk', sent, proxy, taken')
      BY <1>1, <2>1, <3>1, <3>4, <3>5 DEF PlaceInv
    <3>7. ReadInv(talk', sent, stream, proxy, arrived, taken')
      BY <1>1, <2>1, Lengths DEF ReadInv
    <3>8. DoneInv(talk', sent, proxy, arrived, taken')
      BY <3>5 DEF DoneInv
    <3> QED
      BY <1>1, <3>5, <3>6, <3>7, <3>8, ReadKeeps
  <2> QED
    BY <1>4, <2>2, <2>3 DEF LoggedIn
<1> QED
  BY <1>3, <1>4

(* A place inside the reply.                                                *)
LEMMA InsideKeeps ==
  ASSUME SocksInv, Reading, Replied(proxy), IsTalk(talk'), SameAsk(talk', talk),
         talk.pc # "idle", talk'.pc \in {"len", "addr"}, talk'.verdict = "none",
         NEW r \in Replies, ReplyIs(r, sent, stream, proxy),
         ReplyPlace(r, talk', proxy, taken'),
         taken' \in Nat, taken' <= arrived, taken' <= proxy.end
  PROVE  SocksInv'
<1>1. PlaceInv(talk', sent, proxy, taken')
  BY DEF PlaceInv
<1>2. ReadInv(talk', sent, stream, proxy, arrived, taken')
  BY Lengths DEF ReadInv
<1>3. DoneInv(talk', sent, proxy, arrived, taken')
  BY DEF DoneInv
<1> QED
  BY <1>1, <1>2, <1>3, ReadKeeps

(* The first four octets of the reply.                                      *)
LEMMA HeaderStep ==
  ASSUME SocksInv, Header \/ NoHeader
  PROVE  SocksInv'
<1>0. IsTalk(talk)
  BY DEF SocksInv
<1>1. /\ talk.pc = "head" /\ Reading
      /\ talk.rep # 0 /\ talk.named = FALSE /\ talk.verdict = "none"
  <2>1. talk.pc = "head" /\ Reading
    BY DEF Header, NoHeader, Whole, Short, Reading
  <2> QED
    BY <2>1 DEF SocksInv, PlaceInv
<1>2. CASE NoHeader
  <2>1. /\ talk' = Done("protocol_error") /\ taken' = arrived /\ arrived - taken < 4
    BY <1>2 DEF NoHeader, Short
  <2>2. Replied(proxy) => arrived < proxy.end
    <3>1. SUFFICES ASSUME Replied(proxy) PROVE arrived < proxy.end
      OBVIOUS
    <3>2. PICK r \in Replies : /\ ReplyPlace(r, talk, proxy, taken) /\ At(r) \in {4, 5}
                               /\ Base(proxy) + At(r) < proxy.end
                               /\ Base(proxy) \in Nat /\ proxy.end \in Nat
      BY <3>1, RepliedFacts
    <3>3. taken = Base(proxy)
      BY <1>1, <3>2 DEF ReplyPlace
    <3> QED
      BY <2>1, <3>2, <3>3, Lengths
  <2>3. talk'.pc = "done" /\ talk'.verdict = "protocol_error"
    <3>1. talk' = [talk EXCEPT !.pc = "done", !.verdict = "protocol_error"]
      BY <2>1 DEF Done
    <3> QED
      BY ONLY <1>0, <3>1 DEF IsTalk
  <2>4. DoneInv(talk', sent, proxy, arrived, taken')
    BY <2>2, <2>3 DEF DoneInv
  <2>5. Replied(proxy) => taken' <= proxy.end
    BY <2>1, <2>2, RepliedFacts, Lengths
  <2> QED
    BY <1>1, <2>1, <2>4, <2>5, Lengths, EndKeeps
<1>3. CASE Header
  <2>1. taken' = taken + 4 /\ arrived >= taken + 4
    BY <1>3, Lengths DEF Header, Whole
  <2>2. Replied(proxy)
    <3>1. /\ proxy.answered \in Nat /\ proxy.answered <= Len(sent)
          /\ Len(sent) <= proxy.answered + 1 /\ (Len(sent) = 3 => proxy.login)
      BY DEF SocksInv, SentInv
    <3>2. /\ proxy.answered = 1 => Len(stream) = 2
          /\ proxy.answered = 2 /\ proxy.method = UserPass => Len(stream) = 4
          /\ proxy.login => proxy.method = UserPass
      BY DEF SocksInv, StreamInv
    <3>3. CASE Len(sent) = 2 /\ taken = 2 /\ proxy.method = NoAuth
      <4>1. proxy.answered # 1
        <5>0. Len(stream) \in Nat /\ Len(stream) >= 6
          BY <2>1, <3>3, Lengths
        <5>1. Len(stream) # 2
          <6>1. PICK l : l = Len(stream)
            OBVIOUS
          <6>2. l \in Nat /\ l >= 6
            BY <5>0, <6>1
          <6>3. l # 2
            BY ONLY <6>2
          <6> QED
            BY ONLY <6>1, <6>3
        <5> QED
          BY ONLY <3>2, <5>1
      <4> QED
        BY <3>1, <3>3, <4>1 DEF Replied
    <3>4. CASE Len(sent) = 3 /\ taken = 4
      <4>1. proxy.answered # 2
        <5>0. Len(stream) \in Nat /\ Len(stream) >= 8
          BY <2>1, <3>4, Lengths
        <5>1. Len(stream) # 4
          <6>1. PICK l : l = Len(stream)
            OBVIOUS
          <6>2. l \in Nat /\ l >= 8
            BY <5>0, <6>1
          <6>3. l # 4
            BY ONLY <6>2
          <6> QED
            BY ONLY <6>1, <6>3
        <5>2. proxy.method = UserPass
          BY <3>1, <3>2, <3>4
        <5> QED
          BY ONLY <3>2, <5>1, <5>2
      <4> QED
        BY <3>1, <3>4, <4>1 DEF Replied
    <3> QED
      BY <1>1, <3>3, <3>4 DEF SocksInv, PlaceInv
  <2>3. PICK r \in Replies : /\ ReplyIs(r, sent, stream, proxy)
                             /\ ReplyPlace(r, talk, proxy, taken)
                             /\ At(r) \in {4, 5} /\ Base(proxy) + At(r) < proxy.end
                             /\ Base(proxy) \in Nat /\ proxy.end \in Nat
    BY <2>2, RepliedFacts
  <2>4. taken = Base(proxy)
    BY <1>1, <2>3 DEF ReplyPlace
  <2>5. PICK head : head = Take(4)
    OBVIOUS
  <2>6. head[1] = r.ver /\ head[2] = r.rep /\ head[4] = r.atyp
    <3>0. stream \in Seq(Int) /\ taken \in Nat /\ 4 \in Nat /\ taken + 4 <= Len(stream)
      BY <2>1, Lengths DEF SocksInv
    <3>1. \A i \in 1..4 : SubSeq(stream, taken + 1, taken + 4)[i] = stream[taken + i]
      BY ONLY <3>0, Part
    <3>2. /\ head[1] = stream[taken + 1] /\ head[2] = stream[taken + 2]
          /\ head[4] = stream[taken + 4]
      <4>1. 1 \in 1..4 /\ 2 \in 1..4 /\ 4 \in 1..4
        OBVIOUS
      <4>2. \A i \in 1..4 : head[i] = stream[taken + i]
        BY <2>5, <3>1, Zenon DEF Take
      <4> QED
        BY ONLY <4>1, <4>2
    <3> QED
      BY <2>3, <2>4, <3>2 DEF ReplyIs
  <2>7. /\ taken' \in Nat /\ taken' <= arrived /\ taken' <= proxy.end
    BY <2>1, <2>3, <2>4, Lengths
  <2>8. ~Legal(r) => proxy.grant = {}
    BY <2>3 DEF ReplyIs
  <2>9. CASE r.ver # 5 /\ talk' = Done("protocol_error")
    <3>1. talk'.pc = "done" /\ talk'.verdict = "protocol_error"
      <4>1. talk' = [talk EXCEPT !.pc = "done", !.verdict = "protocol_error"]
        BY <2>9 DEF Done
      <4> QED
        BY ONLY <1>0, <4>1 DEF IsTalk
    <3>2. DoneInv(talk', sent, proxy, arrived, taken')
      BY <2>8, <2>9, <3>1 DEF DoneInv, Legal
    <3> QED
      BY <1>1, <2>7, <2>9, <3>2, EndKeeps
  <2>10. CASE r.rep # 0 /\ talk' = [Done("refused_rep") EXCEPT !.rep = r.rep]
    <3>1. /\ talk'.pc = "done" /\ talk'.verdict = "refused_rep" /\ talk'.rep = r.rep
          /\ IsTalk(talk') /\ SameAsk(talk', talk)
      <4>1. talk' = [[talk EXCEPT !.pc = "done", !.verdict = "refused_rep"]
                       EXCEPT !.rep = r.rep]
        BY <2>10 DEF Done
      <4> QED
        BY ONLY <1>0, <4>1 DEF IsTalk, SameAsk
    <3>2. DoneInv(talk', sent, proxy, arrived, taken')
      BY <2>2, <2>8, <2>10, <3>1 DEF DoneInv, Legal
    <3>3. PlaceInv(talk', sent, proxy, taken')
      BY <3>1 DEF PlaceInv
    <3>4. ReplyPlace(r, talk', proxy, taken')
      BY <3>1 DEF ReplyPlace
    <3>5. ReadInv(talk', sent, stream, proxy, arrived, taken')
      BY <2>3, <2>7, <3>4, Lengths DEF ReadInv
    <3> QED
      BY <1>1, <3>1, <3>2, <3>3, <3>5, ReadKeeps
  <2>11. CASE r.ver = 5 /\ r.rep = 0 /\ talk' = [Sized(r.atyp) EXCEPT !.rep = 0]
    <3>1. CASE r.atyp = DOMAINNAME
      <4>1. talk' = [[talk EXCEPT !.pc = "len", !.named = TRUE] EXCEPT !.rep = 0]
        BY <2>11, <3>1 DEF Sized, IPV4, IPV6, DOMAINNAME
      <4>2. /\ IsTalk(talk') /\ SameAsk(talk', talk) /\ talk'.pc = "len"
            /\ talk'.named = TRUE /\ talk'.verdict = talk.verdict
        BY ONLY <1>0, <4>1 DEF IsTalk, SameAsk
      <4>3. ReplyPlace(r, talk', proxy, taken')
        BY <2>1, <2>4, <2>11, <3>1, <4>2 DEF ReplyPlace
      <4> QED
        BY <1>1, <2>2, <2>3, <2>7, <4>2, <4>3, InsideKeeps
    <3>2. ASSUME NEW n, talk' = [[talk EXCEPT !.pc = "addr", !.field = n] EXCEPT !.rep = 0],
                 r.atyp \in {IPV4, IPV6}, n = Len(AddrOf(r))
          PROVE  SocksInv'
      <4>1. /\ IsTalk(talk') /\ SameAsk(talk', talk) /\ talk'.pc = "addr"
            /\ talk'.field = n /\ talk'.named = talk.named /\ talk'.verdict = talk.verdict
        BY ONLY <1>0, <3>2 DEF IsTalk, SameAsk
      <4>2. At(r) = 4 /\ r.atyp # DOMAINNAME
        BY <3>2 DEF At, IPV4, IPV6, DOMAINNAME
      <4>3. ReplyPlace(r, talk', proxy, taken')
        BY <1>1, <2>1, <2>4, <2>11, <3>2, <4>1, <4>2 DEF ReplyPlace, Legal
      <4> QED
        BY <1>1, <2>2, <2>3, <2>7, <4>1, <4>3, InsideKeeps
    <3>3. CASE r.atyp = IPV4
      <4>1. Sized(r.atyp) = [talk EXCEPT !.pc = "addr", !.field = 4]
        BY <3>3 DEF Sized, IPV4, IPV6, DOMAINNAME
      <4>2. Len(AddrOf(r)) = 4
        BY <3>3, V4Facts DEF AddrOf, IPV4, IPV6
      <4> QED
        BY <2>11, <3>2, <3>3, <4>1, <4>2
    <3>4. CASE r.atyp = IPV6
      <4>1. Sized(r.atyp) = [talk EXCEPT !.pc = "addr", !.field = 16]
        BY <3>4 DEF Sized, IPV4, IPV6, DOMAINNAME
      <4>2. Len(AddrOf(r)) = 16
        BY <3>4, V6Facts DEF AddrOf, IPV4, IPV6
      <4> QED
        BY <2>11, <3>2, <3>4, <4>1, <4>2
    <3>5. CASE r.atyp \notin {IPV4, IPV6, DOMAINNAME}
      <4>0. ~Legal(r)
        BY <3>5 DEF Replies, Legal
      <4>1. talk' = [[talk EXCEPT !.pc = "done", !.verdict = "protocol_error"] EXCEPT !.rep = 0]
        BY <2>11, <3>5 DEF Sized, Done
      <4>2. /\ IsTalk(talk') /\ SameAsk(talk', talk) /\ talk'.pc = "done"
            /\ talk'.verdict = "protocol_error"
        BY ONLY <1>0, <4>1 DEF IsTalk, SameAsk
      <4>3. DoneInv(talk', sent, proxy, arrived, taken')
        BY <2>8, <4>0, <4>2 DEF DoneInv
      <4>4. PlaceInv(talk', sent, proxy, taken')
        BY <4>2 DEF PlaceInv
      <4>5. ReplyPlace(r, talk', proxy, taken')
        BY <4>2 DEF ReplyPlace
      <4>6. ReadInv(talk', sent, stream, proxy, arrived, taken')
        BY <2>3, <2>7, <4>5, Lengths DEF ReadInv
      <4> QED
        BY <1>1, <4>2, <4>3, <4>4, <4>6, ReadKeeps
    <3> QED
      BY <3>1, <3>3, <3>4, <3>5
  <2>12. \/ r.ver # 5 /\ talk' = Done("protocol_error")
         \/ r.rep # 0 /\ talk' = [Done("refused_rep") EXCEPT !.rep = r.rep]
         \/ r.ver = 5 /\ r.rep = 0 /\ talk' = [Sized(r.atyp) EXCEPT !.rep = 0]
    BY <1>3, <2>5, <2>6 DEF Header
  <2> QED
    BY <2>9, <2>10, <2>11, <2>12
<1> QED
  BY <1>2, <1>3

(* The length of a name.                                                    *)
LEMMA NameStep ==
  ASSUME SocksInv, NameLength \/ NoNameLength
  PROVE  SocksInv'
<1>0. IsTalk(talk)
  BY DEF SocksInv
<1>1. talk.pc = "len" /\ Reading
  BY DEF NameLength, NoNameLength, Whole, Short, Reading
<1>2. Replied(proxy) /\ talk.verdict = "none"
  BY <1>1 DEF SocksInv, PlaceInv
<1>3. PICK r \in Replies : /\ ReplyIs(r, sent, stream, proxy)
                           /\ ReplyPlace(r, talk, proxy, taken)
                           /\ At(r) \in {4, 5} /\ Base(proxy) + At(r) < proxy.end
                           /\ Base(proxy) \in Nat /\ proxy.end \in Nat
  BY <1>2, RepliedFacts
<1>4. /\ r.atyp = DOMAINNAME /\ taken = Base(proxy) + 4 /\ At(r) = 5
      /\ talk.named = TRUE /\ r.ver = 5 /\ r.rep = 0
  BY <1>1, <1>3 DEF ReplyPlace, At
<1>5. ASSUME talk' = Done("protocol_error"), taken' \in Nat, taken' <= arrived,
             taken' <= proxy.end, proxy.grant = {} \/ arrived < proxy.end
      PROVE  SocksInv'
  <2>1. talk'.pc = "done" /\ talk'.verdict = "protocol_error"
    <3>1. talk' = [talk EXCEPT !.pc = "done", !.verdict = "protocol_error"]
      BY <1>5 DEF Done
    <3> QED
      BY ONLY <1>0, <3>1 DEF IsTalk
  <2>2. DoneInv(talk', sent, proxy, arrived, taken')
    BY <1>5, <2>1 DEF DoneInv
  <2> QED
    BY <1>1, <1>5, <2>2, EndKeeps
<1>6. CASE NoNameLength
  <2>1. talk' = Done("protocol_error") /\ taken' = arrived /\ arrived - taken < 1
    BY <1>6 DEF NoNameLength, Short
  <2>2. arrived < proxy.end
    BY <1>3, <1>4, <2>1, Lengths
  <2> QED
    BY <1>3, <1>5, <2>1, <2>2, Lengths
<1>7. CASE NameLength
  <2>1. taken' = taken + 1 /\ arrived >= taken + 1
    BY <1>7, Lengths DEF NameLength, Whole
  <2>2. PICK n : n = Take(1)[1]
    OBVIOUS
  <2>3. n = r.n
    <3>0. stream \in Seq(Int) /\ taken \in Nat /\ 1 \in Nat /\ taken + 1 <= Len(stream)
      BY <2>1, Lengths DEF SocksInv
    <3>1. \A i \in 1..1 : SubSeq(stream, taken + 1, taken + 1)[i] = stream[taken + i]
      BY ONLY <3>0, Part
    <3>2. n = stream[taken + 1]
      <4>1. 1 \in 1..1
        OBVIOUS
      <4> QED
        BY <2>2, <3>1, <4>1, Zenon DEF Take
    <3>3. taken + 1 = Base(proxy) + 5
      BY <1>3, <1>4
    <3> QED
      BY <1>3, <1>4, <3>2, <3>3 DEF ReplyIs
  <2>4. taken' \in Nat /\ taken' <= arrived /\ taken' <= proxy.end
    BY <1>3, <1>4, <2>1, Lengths
  <2>5. CASE n = 0 /\ talk' = Done("protocol_error")
    <3>1. ~Legal(r)
      BY <1>4, <2>3, <2>5 DEF Legal, IPV4, IPV6, DOMAINNAME
    <3>2. proxy.grant = {}
      BY <1>3, <3>1 DEF ReplyIs
    <3> QED
      BY <1>5, <2>4, <2>5, <3>2
  <2>6. CASE n # 0 /\ talk' = [talk EXCEPT !.pc = "addr", !.field = n]
    <3>1. /\ IsTalk(talk') /\ SameAsk(talk', talk) /\ talk'.pc = "addr"
          /\ talk'.field = n /\ talk'.named = talk.named /\ talk'.verdict = talk.verdict
      BY ONLY <1>0, <2>6 DEF IsTalk, SameAsk
    <3>2. r.n \in Nat
      BY DEF Replies
    <3>3. Legal(r)
      BY <1>4, <2>3, <2>6, <3>2 DEF Legal
    <3>4. AddrOf(r) = Text(r.n)
      BY <1>4 DEF AddrOf, IPV4, IPV6, DOMAINNAME
    <3>5. Len(AddrOf(r)) = n
      BY <2>3, <3>2, <3>4, TextFacts
    <3>6. taken' = Base(proxy) + At(r)
      BY <1>3, <1>4, <2>1
    <3>7. ReplyPlace(r, talk', proxy, taken')
      BY <1>4, <3>1, <3>3, <3>5, <3>6 DEF ReplyPlace
    <3> QED
      BY <1>1, <1>2, <1>3, <2>4, <3>1, <3>7, InsideKeeps
  <2> QED
    BY <1>7, <2>2, <2>5, <2>6 DEF NameLength
<1> QED
  BY <1>6, <1>7

(* The bound address as it is read is the one that was written.             *)
HasBnd(s, k, addr, w) ==
  /\ s \in Seq(Int) /\ k \in Nat /\ addr \in Seq(Int) /\ w = Len(addr)
  /\ k + (w + 2) <= Len(s) /\ \A i \in 1..w : s[k + i] = addr[i]
  /\ s[k + w + 1] = 4 /\ s[k + w + 2] = 56

(* Bnd reads the address and the port that are in place.                    *)
LEMMA BndFacts ==
  ASSUME NEW s, NEW k, NEW addr, NEW w, HasBnd(s, k, addr, w)
  PROVE  Bnd(SubSeq(s, k + 1, k + (w + 2)), w) = {[addr |-> addr, port |-> 1080]}
<1>0. /\ s \in Seq(Int) /\ k \in Nat /\ addr \in Seq(Int) /\ w = Len(addr)
      /\ k + (w + 2) <= Len(s) /\ \A i \in 1..w : s[k + i] = addr[i]
      /\ s[k + w + 1] = 4 /\ s[k + w + 2] = 56
  BY DEF HasBnd
<1>1. w \in Nat /\ w + 2 \in Nat
  BY <1>0, LenProperties
<1>2. PICK part, v : v = w + 2 /\ part = SubSeq(s, k + 1, k + v)
  OBVIOUS
<1>3. /\ part \in Seq(Int) /\ Len(part) = w + 2
      /\ \A i \in 1..(w + 2) : part[i] = s[k + i]
  <2>1. s \in Seq(Int) /\ k \in Nat /\ v \in Nat /\ k + v <= Len(s)
    BY <1>0, <1>1, <1>2
  <2>2. /\ SubSeq(s, k + 1, k + v) \in Seq(Int) /\ Len(SubSeq(s, k + 1, k + v)) = v
        /\ \A i \in 1..v : SubSeq(s, k + 1, k + v)[i] = s[k + i]
    BY ONLY <2>1, Part
  <2> QED
    BY ONLY <1>2, <2>2
<1>4. SubSeq(part, 1, w) = addr
  <2>1. PICK a : a = SubSeq(part, 0 + 1, 0 + w)
    OBVIOUS
  <2>2. 0 \in Nat /\ 0 + w <= Len(part)
    BY <1>1, <1>3
  <2>3. a \in Seq(Int) /\ Len(a) = w /\ \A i \in 1..w : a[i] = part[0 + i]
    BY <1>1, <1>3, <2>1, <2>2, Part
  <2>4. \A i \in 1..w : 0 + i = i /\ i \in 1..(w + 2)
    BY <1>1
  <2>5. Len(a) = Len(addr) /\ \A i \in 1..Len(a) : a[i] = addr[i]
    <3>1. \A i \in 1..w : a[i] = part[i] /\ part[i] = s[k + i]
      BY ONLY <1>3, <2>3, <2>4
    <3> QED
      BY ONLY <1>0, <2>3, <3>1
  <2>6. a = addr
    BY ONLY <1>0, <2>3, <2>5, SeqEqual
  <2>7. 0 + 1 = 1 /\ 0 + w = w
    BY <1>1
  <2> QED
    BY <2>1, <2>6, <2>7
<1>5. ntohs(SubSeq(part, w + 1, w + 2)) = 1080
  <2>1. PICK q : q = SubSeq(part, w + 1, w + 2)
    OBVIOUS
  <2>2. 2 \in Nat /\ w + 2 <= Len(part)
    BY <1>1, <1>3
  <2>3. \A i \in 1..2 : q[i] = part[w + i]
    BY <1>1, <1>3, <2>1, <2>2, Part
  <2>4. part[w + 1] = s[k + (w + 1)] /\ part[w + 2] = s[k + (w + 2)]
    <3>1. w + 1 \in 1..(w + 2) /\ w + 2 \in 1..(w + 2)
      BY <1>1
    <3> QED
      BY ONLY <1>3, <3>1
  <2>5. k + (w + 1) = k + w + 1 /\ k + (w + 2) = k + w + 2
    BY <1>0, <1>1
  <2>6. q[1] = 4 /\ q[2] = 56
    <3>1. 1 \in 1..2 /\ 2 \in 1..2
      OBVIOUS
    <3>2. q[1] = part[w + 1] /\ q[2] = part[w + 2]
      BY ONLY <2>3, <3>1
    <3> QED
      BY ONLY <1>0, <2>4, <2>5, <3>2
  <2>7. ntohs(q) = 1080
    <3>1. ntohs(q) = 4 * 256 + 56
      BY ONLY <2>6, Zenon DEF ntohs
    <3>2. 4 * 256 + 56 = 1080
      BY ONLY Z3
    <3> QED
      BY ONLY <3>1, <3>2, SMTT(30)
  <2> QED
    BY ONLY <2>1, <2>7, SMTT(30)
<1> QED
  BY <1>2, <1>4, <1>5, ZenonT(60) DEF Bnd

(* The bound address and its port.                                          *)
LEMMA BoundStep ==
  ASSUME SocksInv, Bound \/ NotBound
  PROVE  SocksInv'
<1>0. IsTalk(talk)
  BY DEF SocksInv
<1>1. talk.pc = "addr" /\ Reading
  BY DEF Bound, NotBound, Whole, Short, Reading
<1>2. Replied(proxy) /\ talk.verdict = "none"
  BY <1>1 DEF SocksInv, PlaceInv
<1>3. PICK r \in Replies : /\ ReplyIs(r, sent, stream, proxy)
                           /\ ReplyPlace(r, talk, proxy, taken)
                           /\ Len(AddrOf(r)) \in Nat /\ At(r) \in {4, 5}
                           /\ Base(proxy) \in Nat /\ proxy.end \in Nat
  BY <1>2, RepliedFacts
<1>4. PICK w : w = Len(AddrOf(r)) /\ w \in Nat
  BY <1>3
<1>5. /\ taken = Base(proxy) + At(r) /\ talk.field = w /\ Legal(r)
      /\ talk.named = (r.atyp = DOMAINNAME)
  BY <1>1, <1>3, <1>4 DEF ReplyPlace
<1>6. proxy.grant # {} /\ proxy.named = talk.named /\ proxy.end = taken + (w + 2)
  <2>1. proxy.end = Base(proxy) + At(r) + w + 2
    BY <1>3, <1>4 DEF ReplyIs
  <2>2. proxy.grant # {} /\ proxy.named = talk.named
    BY <1>3, <1>5 DEF ReplyIs
  <2> QED
    BY <1>3, <1>4, <1>5, <2>1, <2>2, SMTT(30)
<1>7. CASE NotBound
  <2>1. talk' = Done("truncated") /\ taken' = arrived /\ arrived - taken < w + 2
    BY <1>5, <1>7 DEF NotBound, Short
  <2>2. arrived < proxy.end
    BY <1>4, <1>6, <2>1, Lengths
  <2>3. talk'.pc = "done" /\ talk'.verdict = "truncated"
    <3>1. talk' = [talk EXCEPT !.pc = "done", !.verdict = "truncated"]
      BY <2>1 DEF Done
    <3> QED
      BY ONLY <1>0, <3>1 DEF IsTalk
  <2>4. DoneInv(talk', sent, proxy, arrived, taken')
    BY <1>2, <1>6, <2>2, <2>3 DEF DoneInv
  <2>5. taken' \in Nat /\ taken' <= arrived /\ taken' <= proxy.end
    BY <1>3, <2>1, <2>2, Lengths
  <2> QED
    BY <1>1, <2>1, <2>4, <2>5, EndKeeps
<1>8. CASE Bound
  <2>1. taken' = taken + (w + 2) /\ arrived >= taken + (w + 2)
    BY <1>4, <1>5, <1>8, Lengths DEF Bound, Whole
  <2>2. PICK b, v : b = Bnd(Take(w + 2), w) /\ v = Verdict
    OBVIOUS
  <2>3. talk' = [Done(v) EXCEPT !.bnd = b]
    BY <1>5, <1>8, <2>2 DEF Bound
  <2>4. /\ IsTalk(talk') /\ SameAsk(talk', talk) /\ talk'.pc = "done"
        /\ talk'.verdict = v /\ talk'.bnd = b
    <3>1. talk' = [[talk EXCEPT !.pc = "done", !.verdict = v] EXCEPT !.bnd = b]
      BY <2>3 DEF Done
    <3> QED
      BY ONLY <1>0, <3>1 DEF IsTalk, SameAsk
  <2>5. b = proxy.bnd
    <3>1. PICK addr : addr = AddrOf(r)
      OBVIOUS
    <3>2. addr \in Seq(Int)
      <4>1. r.n \in Nat
        BY DEF Replies
      <4>2. V4 \in Seq(Int) /\ V6 \in Seq(Int) /\ Text(r.n) \in Seq(Int)
        BY <4>1, V4Facts, V6Facts, TextFacts
      <4>3. AddrOf(r) = V4 \/ AddrOf(r) = V6 \/ AddrOf(r) = Text(r.n)
        BY DEF AddrOf
      <4> QED
        BY <3>1, <4>2, <4>3
    <3>3. /\ \A i \in 1..w : stream[taken + i] = addr[i]
          /\ stream[taken + w + 1] = 4 /\ stream[taken + w + 2] = 56
          /\ proxy.bnd = {[addr |-> addr, port |-> 1080]}
      BY <1>3, <1>4, <1>5, <3>1 DEF ReplyIs
    <3>4. stream \in Seq(Int) /\ taken \in Nat /\ taken + (w + 2) <= Len(stream)
      BY <1>4, <2>1, Lengths DEF SocksInv
    <3>5. w = Len(addr)
      BY <1>4, <3>1
    <3>6. Bnd(SubSeq(stream, taken + 1, taken + (w + 2)), w)
            = {[addr |-> addr, port |-> 1080]}
      <4>1. HasBnd(stream, taken, addr, w)
        BY <3>2, <3>3, <3>4, <3>5 DEF HasBnd
      <4> QED
        BY ONLY <4>1, BndFacts
    <3> QED
      BY <2>2, <3>3, <3>6 DEF Take
  <2>6. taken' \in Nat /\ taken' <= arrived /\ taken' = proxy.end
    BY <1>4, <1>6, <2>1, Lengths
  <2>7. v \in {"ok", "bnd_is_a_name"} /\ (v = "ok" <=> ~proxy.named)
    BY <1>6, <2>2 DEF Verdict
  <2>8. DoneInv(talk', sent, proxy, arrived, taken')
    BY <1>2, <1>6, <2>4, <2>5, <2>6, <2>7 DEF DoneInv
  <2>9. PlaceInv(talk', sent, proxy, taken')
    BY <2>4 DEF PlaceInv
  <2>10. ReplyPlace(r, talk', proxy, taken')
    BY <2>4 DEF ReplyPlace
  <2>11. taken' <= proxy.end
    BY <1>3, <2>6
  <2>12. ReadInv(talk', sent, stream, proxy, arrived, taken')
    BY <1>3, <2>6, <2>10, <2>11, Lengths DEF ReadInv
  <2> QED
    BY <1>1, <2>4, <2>8, <2>9, <2>12, ReadKeeps
<1> QED
  BY <1>7, <1>8

-----------------------------------------------------------------------------
(* The client's messages.  One more of them.                                *)
LEMMA OneMore ==
  ASSUME NEW m \in Seq(Seq(Int)), NEW msg \in Seq(Int), NEW x, x = Append(m, msg),
         NEW n, n = Len(m)
  PROVE  /\ x \in Seq(Seq(Int)) /\ n \in Nat /\ Len(x) = n + 1 /\ x[n + 1] = msg
         /\ \A i \in 1..n : x[i] = m[i]
<1>1. n \in Nat
  BY LenProperties
<1> QED
  BY <1>1, AppendProperties

(* A message is sent before anything of the reply is there.                 *)
LEMMA SendKeeps ==
  ASSUME SocksInv, UNCHANGED <<stream, arrived, taken, proxy>>, ~Replied(proxy),
         sent' \in Seq(Seq(Int)), IsTalk(talk'), AskInv(talk'), talk'.pc # "done",
         SentInv(talk', sent', proxy), PlaceInv(talk', sent', proxy, taken)
  PROVE  SocksInv'
<1>1. StreamInv(sent', stream, proxy)
  BY DEF SocksInv, StreamInv
<1>2. ReadInv(talk', sent', stream, proxy, arrived, taken)
  BY DEF SocksInv, ReadInv
<1>3. DoneInv(talk', sent', proxy, arrived, taken)
  BY DEF DoneInv
<1>4. IsProxy(proxy) /\ stream \in Seq(Int)
  BY DEF SocksInv
<1> QED
  BY <1>1, <1>2, <1>3, <1>4 DEF SocksInv

(* The first message: the conversation has not begun.                       *)
LEMMA GreetStep ==
  ASSUME SocksInv, NEW ask \in ConnectAsks \cup AssociateAsks, NEW login \in Logins,
         Greet(ask, login)
  PROVE  SocksInv'
<1>1. talk.pc = "idle" /\ UNCHANGED <<stream, arrived, taken, proxy>>
  BY DEF Greet, SendOr
<1>2. /\ Len(sent) = 0 /\ proxy.answered = 0 /\ taken = 0 /\ ~Replied(proxy)
      /\ sent \in Seq(Seq(Int))
  <2>1. /\ Len(sent) = 0 /\ proxy.answered \in Nat /\ proxy.answered <= Len(sent)
        /\ taken = 0 /\ sent \in Seq(Seq(Int))
    BY <1>1 DEF SocksInv, SentInv, PlaceInv
  <2>2. proxy.answered = 0
    BY ONLY <2>1
  <2> QED
    BY <2>1, <2>2 DEF Replied
<1>3. IsAsk(ask)
  BY ConnectAsksMean, AssociateAsksMean
<1>4. PICK t : t = [NoTalk EXCEPT !.req = ask.req, !.asked = ask.asked,
                                  !.login = login, !.pc = "method"]
  OBVIOUS
<1>5. /\ IsTalk(t) /\ t.pc = "method" /\ t.req = ask.req /\ t.asked = ask.asked
      /\ t.login = login /\ t.rep = GeneralFailure /\ t.named = FALSE
      /\ t.verdict = "none"
  BY ONLY <1>4 DEF IsTalk, NoTalk
<1>6. PICK methods : methods = IF enabled(login) THEN <<UserPass, NoAuth>> ELSE <<NoAuth>>
  OBVIOUS
<1>7. PICK msg : msg = socks5_build_greeting(methods)
  OBVIOUS
<1>8. \/ msg # Nothing /\ sent' = Append(sent, msg) /\ talk' = t
      \/ sent' = sent /\ talk' = [t EXCEPT !.pc = "done", !.verdict = "refused_rep"]
  BY <1>4, <1>6, <1>7 DEF Greet, SendOr
<1>9. CASE sent' = Append(sent, msg) /\ talk' = t
  <2>1. msg \in Seq(Int)
    <3>1. methods \in Seq(Int)
      BY <1>6, Octets1, Octets2 DEF UserPass, NoAuth
    <3>2. Len(methods) \in Int
      BY <3>1, LenProperties
    <3>3. <<5, Len(methods)>> \in Seq(Int)
      BY <3>2, Octets2
    <3>4. <<5, Len(methods)>> \o methods \in Seq(Int)
      BY ONLY <3>1, <3>3, ConcatProperties
    <3> QED
      BY <1>7, <3>4, EmptySeq DEF socks5_build_greeting, Nothing
  <2>2. sent' \in Seq(Seq(Int)) /\ Len(sent') = 1
    <3>1. sent' \in Seq(Seq(Int)) /\ Len(sent') = Len(sent) + 1
      BY ONLY <1>2, <1>9, <2>1, AppendProperties
    <3> QED
      BY ONLY <1>2, <3>1
  <2>3. IsTalk(talk') /\ talk'.pc = "method"
    BY <1>5, <1>9
  <2>4. AskInv(talk')
    BY <1>3, <1>5, <1>9 DEF AskInv, IsAsk
  <2>5. SentInv(talk', sent', proxy)
    BY <1>2, <2>2, <2>3 DEF SentInv
  <2>6. PlaceInv(talk', sent', proxy, taken)
    BY <1>2, <1>5, <1>9, <2>2 DEF PlaceInv, GeneralFailure
  <2> QED
    BY <1>1, <1>2, <2>2, <2>3, <2>4, <2>5, <2>6, SendKeeps, SMTT(30)
<1>10. CASE sent' = sent /\ talk' = [t EXCEPT !.pc = "done", !.verdict = "refused_rep"]
  <2>1. /\ IsTalk(talk') /\ talk'.pc = "done" /\ talk'.req = ask.req
        /\ talk'.asked = ask.asked /\ talk'.login = login /\ talk'.rep = GeneralFailure
        /\ talk'.verdict = "refused_rep"
    <3>1. /\ IsTalk(talk') /\ talk'.pc = "done" /\ SameAsk(talk', t)
          /\ talk'.rep = t.rep /\ talk'.verdict = "refused_rep"
      BY ONLY <1>5, <1>10 DEF IsTalk, SameAsk
    <3> QED
      BY ONLY <1>5, <3>1 DEF SameAsk
  <2>2. AskInv(talk')
    BY <1>3, <2>1 DEF AskInv, IsAsk
  <2>3. SentInv(talk', sent, proxy)
    BY <1>2, <2>1 DEF SentInv
  <2>4. PlaceInv(talk', sent, proxy, taken)
    BY <2>1 DEF PlaceInv
  <2>5. proxy.grant = {}
    BY <1>2 DEF SocksInv, StreamInv
  <2>6. DoneInv(talk', sent, proxy, arrived, taken)
    BY <1>2, <2>1, <2>5 DEF DoneInv, GeneralFailure
  <2>7. ReadInv(talk', sent, stream, proxy, arrived, taken)
    BY <1>2 DEF SocksInv, ReadInv
  <2> QED
    BY <1>1, <1>10, <2>1, <2>2, <2>3, <2>4, <2>6, <2>7 DEF SocksInv
<1> QED
  BY <1>8, <1>9, <1>10

(* The login, once the proxy has picked it.                                 *)
LEMMA LoginStep ==
  ASSUME SocksInv, Login
  PROVE  SocksInv'
<1>0. IsTalk(talk) /\ sent \in Seq(Seq(Int))
  BY DEF SocksInv
<1>1. talk.pc = "login" /\ UNCHANGED <<stream, arrived, taken, proxy>>
  BY DEF Login, SendOr
<1>2. /\ Len(sent) = 1 /\ proxy.answered = 1 /\ taken = 2 /\ proxy.method = UserPass
      /\ enabled(talk.login) /\ talk.rep # 0 /\ talk.named = FALSE
      /\ talk.verdict = "none"
  BY <1>1 DEF SocksInv, PlaceInv
<1>3. ~Replied(proxy)
  BY <1>2 DEF Replied
<1>4. PICK msg : msg = socks5_build_auth(talk.login)
  OBVIOUS
<1>5. \/ msg # Nothing /\ sent' = Append(sent, msg) /\ talk' = [talk EXCEPT !.pc = "auth"]
      \/ sent' = sent /\ talk' = NoRelay
  BY <1>4 DEF Login, SendOr
<1>6. CASE /\ msg # Nothing /\ sent' = Append(sent, msg)
           /\ talk' = [talk EXCEPT !.pc = "auth"]
  <2>1. talk.login \in Logins
    BY <1>1 DEF SocksInv, AskInv
  <2>2. msg \in Seq(Int)
    BY <1>4, <1>6, <2>1, AuthFacts
  <2>3. sent' \in Seq(Seq(Int)) /\ Len(sent') = 2 /\ sent'[2] = msg
    <3>1. PICK n : n = Len(sent)
      OBVIOUS
    <3>2. sent' \in Seq(Seq(Int)) /\ Len(sent') = n + 1 /\ sent'[n + 1] = msg
      BY ONLY <1>0, <1>6, <2>2, <3>1, OneMore
    <3>3. n + 1 = 2
      BY <1>2, <3>1
    <3> QED
      BY ONLY <3>2, <3>3
  <2>4. /\ IsTalk(talk') /\ talk'.pc = "auth" /\ SameAsk(talk', talk)
        /\ talk'.rep = talk.rep /\ talk'.named = talk.named
        /\ talk'.verdict = talk.verdict
    BY ONLY <1>0, <1>6 DEF IsTalk, SameAsk
  <2>5. AskInv(talk')
    BY <1>1, <2>4 DEF SocksInv, AskInv, SameAsk, IsAsk
  <2>6. SentInv(talk', sent', proxy)
    BY <1>2, <1>4, <1>6, <2>3, <2>4 DEF SentInv, SameAsk
  <2>7. PlaceInv(talk', sent', proxy, taken)
    BY <1>2, <2>3, <2>4 DEF PlaceInv
  <2> QED
    BY <1>1, <1>3, <2>3, <2>4, <2>5, <2>6, <2>7, SendKeeps
<1>7. CASE sent' = sent /\ talk' = NoRelay
  <2>0. IsTalk(talk) /\ talk' = [talk EXCEPT !.pc = "done", !.verdict = "refused_rep"]
    BY <1>0, <1>7 DEF NoRelay, Done
  <2>1. talk'.verdict = "refused_rep" /\ talk'.rep = talk.rep
    BY ONLY <2>0 DEF IsTalk
  <2>2. proxy.grant = {}
    BY <1>3 DEF SocksInv, StreamInv
  <2>3. DoneInv(talk', sent, proxy, arrived, taken')
    BY <1>2, <2>1, <2>2 DEF DoneInv
  <2>4. taken' \in Nat /\ taken' <= arrived /\ Reading
    BY <1>1, <1>7, Lengths DEF Reading
  <2> QED
    BY <1>1, <1>3, <1>7, <2>3, <2>4, EndKeeps DEF NoRelay
<1> QED
  BY <1>5, <1>6, <1>7

(* The request, once no login is wanted or it was taken.                    *)
LEMMA RequestStep ==
  ASSUME SocksInv, Request
  PROVE  SocksInv'
<1>0. IsTalk(talk) /\ sent \in Seq(Seq(Int))
  BY DEF SocksInv
<1>1. talk.pc = "request" /\ UNCHANGED <<stream, arrived, taken, proxy>>
  BY DEF Request, SendOr
<1>2. /\ \/ Len(sent) = 1 /\ proxy.answered = 1 /\ taken = 2 /\ proxy.method = NoAuth
         \/ Len(sent) = 2 /\ proxy.answered = 2 /\ taken = 4 /\ proxy.login
      /\ talk.rep # 0 /\ talk.named = FALSE /\ talk.verdict = "none"
  BY <1>1 DEF SocksInv, PlaceInv
<1>3. proxy.login => proxy.method = UserPass
  BY DEF SocksInv, StreamInv
<1>4. ~Replied(proxy)
  BY <1>2, <1>3 DEF Replied, UserPass, NoAuth
<1>5. \/ talk.req # Nothing /\ sent' = Append(sent, talk.req) /\ talk' = [talk EXCEPT !.pc = "head"]
      \/ sent' = sent /\ talk' = Done("protocol_error")
  BY DEF Request, SendOr
<1>6. CASE /\ talk.req # Nothing /\ sent' = Append(sent, talk.req)
           /\ talk' = [talk EXCEPT !.pc = "head"]
  <2>1. PICK msg, n : msg = talk.req /\ n = Len(sent)
    OBVIOUS
  <2>2. msg \in Seq(Int)
    BY <1>1, <2>1 DEF SocksInv, AskInv, IsAsk
  <2>3. /\ sent' \in Seq(Seq(Int)) /\ Len(sent') = n + 1 /\ sent'[n + 1] = msg
        /\ \A i \in 1..n : sent'[i] = sent[i]
    BY ONLY <1>0, <1>6, <2>1, <2>2, OneMore
  <2>4. /\ IsTalk(talk') /\ talk'.pc = "head" /\ SameAsk(talk', talk)
        /\ talk'.rep = talk.rep /\ talk'.named = talk.named
        /\ talk'.verdict = talk.verdict
    BY ONLY <1>0, <1>6 DEF IsTalk, SameAsk
  <2>5. AskInv(talk')
    BY <1>1, <2>4 DEF SocksInv, AskInv, SameAsk, IsAsk
  <2>6. talk'.req = msg /\ talk'.login = talk.login /\ msg # Nothing
    BY <1>6, <2>1, <2>4 DEF SameAsk
  <2>7. CASE Len(sent) = 1 /\ proxy.answered = 1 /\ taken = 2 /\ proxy.method = NoAuth
    <3>1. Len(sent') = 2 /\ sent'[2] = msg
      <4>1. n + 1 = 2
        BY <2>1, <2>7
      <4> QED
        BY ONLY <2>3, <4>1
    <3>2. SentInv(talk', sent', proxy)
      BY <2>4, <2>6, <2>7, <3>1 DEF SentInv
    <3>3. PlaceInv(talk', sent', proxy, taken)
      BY <1>2, <2>4, <2>7, <3>1 DEF PlaceInv
    <3> QED
      BY <1>1, <1>4, <2>3, <2>4, <2>5, <3>2, <3>3, SendKeeps
  <2>8. CASE Len(sent) = 2 /\ proxy.answered = 2 /\ taken = 4 /\ proxy.login
    <3>1. Len(sent') = 3 /\ sent'[3] = msg /\ sent'[2] = sent[2]
      <4>1. n + 1 = 3 /\ 2 \in 1..n
        BY <2>1, <2>8
      <4> QED
        BY ONLY <2>3, <4>1
    <3>2. /\ proxy.method = UserPass /\ enabled(talk.login)
          /\ sent[2] # Nothing /\ sent[2] = socks5_build_auth(talk.login)
      BY <1>3, <2>8 DEF SocksInv, SentInv, UserPass, NoAuth
    <3>3. SentInv(talk', sent', proxy)
      BY <2>4, <2>6, <2>8, <3>1, <3>2 DEF SentInv
    <3>4. PlaceInv(talk', sent', proxy, taken)
      BY <1>2, <2>4, <2>8, <3>1 DEF PlaceInv
    <3> QED
      BY <1>1, <1>4, <2>3, <2>4, <2>5, <3>3, <3>4, SendKeeps
  <2> QED
    BY <1>2, <2>7, <2>8
<1>7. CASE sent' = sent /\ talk' = Done("protocol_error")
  <2>0. IsTalk(talk) /\ talk' = [talk EXCEPT !.pc = "done", !.verdict = "protocol_error"]
    BY <1>0, <1>7 DEF Done
  <2>1. talk'.verdict = "protocol_error"
    BY ONLY <2>0 DEF IsTalk
  <2>2. DoneInv(talk', sent, proxy, arrived, taken')
    BY <1>4, <2>1 DEF DoneInv
  <2>3. taken' \in Nat /\ taken' <= arrived /\ Reading
    BY <1>1, <1>7, Lengths DEF Reading
  <2> QED
    BY <1>1, <1>4, <1>7, <2>2, <2>3, EndKeeps
<1> QED
  BY <1>5, <1>6, <1>7

-----------------------------------------------------------------------------
(* The proxy's answers.  Nothing but the stream and what the proxy made of  *)
(* the conversation changes.                                                *)
Answering == UNCHANGED <<talk, sent, arrived, taken>>

(* An answer that keeps the parts about the proxy keeps the invariant.      *)
LEMMA AnswerKeeps ==
  ASSUME SocksInv, Answering, IsProxy(proxy'), stream' \in Seq(Int),
         SentInv(talk, sent, proxy'), StreamInv(sent, stream', proxy'),
         PlaceInv(talk, sent, proxy', taken),
         ReadInv(talk, sent, stream', proxy', arrived, taken),
         DoneInv(talk, sent, proxy', arrived, taken)
  PROVE  SocksInv'
<1>1. IsTalk(talk) /\ sent \in Seq(Seq(Int)) /\ AskInv(talk)
  BY DEF SocksInv
<1> QED
  BY <1>1 DEF SocksInv, Answering

(* The stream with an answer x at its end.                                  *)
LEMMA Extended ==
  ASSUME SocksInv, NEW x \in Seq(Int), stream' = stream \o x, NEW l, l = Len(stream)
  PROVE  /\ stream' \in Seq(Int) /\ l \in Nat /\ Len(stream') = l + Len(x)
         /\ \A i \in 1..l : stream'[i] = stream[i]
         /\ \A i \in 1..Len(x) : stream'[l + i] = x[i]
<1>1. PICK s, y, n : s = stream /\ y = stream' /\ n = Len(x)
  OBVIOUS
<1>2. s \in Seq(Int) /\ x \in Seq(Int) /\ l = Len(s) /\ n = Len(x) /\ y = s \o x
  BY <1>1 DEF SocksInv
<1>3. /\ y \in Seq(Int) /\ l \in Nat /\ Len(y) = l + n
      /\ \A i \in 1..l : y[i] = s[i]
      /\ \A i \in 1..n : y[l + i] = x[i]
  BY ONLY <1>2, Cat
<1> QED
  BY ONLY <1>1, <1>3

(* The proxy picks a method.                                                *)
LEMMA PicksStep ==
  ASSUME SocksInv, NEW ver \in {4, 5}, NEW m \in {NoAuth, UserPass, Unacceptable},
         PicksMethod(ver, m)
  PROVE  SocksInv'
<1>0. IsProxy(proxy) /\ proxy' = [[proxy EXCEPT !.method = m] EXCEPT !.answered = @ + 1]
  BY DEF SocksInv, PicksMethod, Says
<1>1. /\ proxy.answered = 0 /\ Len(sent) = 1 /\ Answering
      /\ stream' = stream \o <<ver, m>>
  BY DEF PicksMethod, Heard, Says, Answering
<1>2. /\ IsProxy(proxy') /\ proxy'.answered = proxy.answered + 1 /\ proxy'.method = m
      /\ proxy'.login = proxy.login /\ proxy'.grant = proxy.grant
  BY ONLY <1>0 DEF IsProxy
<1>3. ~Replied(proxy) /\ proxy'.answered = 1 /\ ~Replied(proxy')
  BY <1>1, <1>2 DEF Replied
<1>4. Len(stream) = 0 /\ proxy.grant = {} /\ ~proxy.login
  BY <1>1, <1>3 DEF SocksInv, StreamInv
<1>5. PICK x : x = <<ver, m>>
  OBVIOUS
<1>6. x \in Seq(Int) /\ Len(x) = 2 /\ x[1] = ver /\ x[2] = m /\ ver \in Nat /\ m \in Nat
  BY <1>5 DEF NoAuth, UserPass, Unacceptable
<1>7. /\ stream' \in Seq(Int) /\ Len(stream') = 2 /\ stream'[1] = ver /\ stream'[2] = m
  <2>1. PICK l : l = Len(stream)
    OBVIOUS
  <2>2. SocksInv /\ x \in Seq(Int) /\ stream' = stream \o x /\ l = Len(stream)
    BY <1>1, <1>5, <1>6, <2>1
  <2>3. /\ stream' \in Seq(Int) /\ Len(stream') = l + Len(x)
        /\ \A i \in 1..Len(x) : stream'[l + i] = x[i]
    BY ONLY <2>2, Extended, ZenonT(60)
  <2>4. 1 \in 1..Len(x) /\ 2 \in 1..Len(x) /\ l + 1 = 1 /\ l + 2 = 2 /\ l + Len(x) = 2
    BY <1>4, <1>6, <2>1
  <2>5. stream'[l + 1] = x[1] /\ stream'[l + 2] = x[2]
    BY ONLY <2>3, <2>4
  <2> QED
    BY ONLY <1>6, <2>3, <2>4, <2>5
<1>8. StreamInv(sent, stream', proxy')
  <2>1. \A i \in 1..Len(stream') : stream'[i] \in Nat
    <3>1. \A i \in 1..2 : i = 1 \/ i = 2
      OBVIOUS
    <3> QED
      BY ONLY <1>6, <1>7, <3>1
  <2> QED
    BY ONLY <1>2, <1>3, <1>4, <1>7, <2>1 DEF StreamInv
<1>9. SentInv(talk, sent, proxy')
  <2>1. talk.pc # "idle"
    BY <1>1 DEF SocksInv, SentInv
  <2> QED
    BY <1>1, <1>3, <2>1 DEF SentInv
<1>10. PlaceInv(talk, sent, proxy', taken)
  <2>1. /\ talk.pc \in {"method", "done"} /\ (talk.pc = "method" => taken = 0)
        /\ talk.pc # "done" => talk.rep # 0 /\ talk.named = FALSE /\ talk.verdict = "none"
    BY <1>1, <1>3 DEF SocksInv, PlaceInv, SentInv
  <2> QED
    BY <1>1, <2>1 DEF PlaceInv
<1>11. ReadInv(talk, sent, stream', proxy', arrived, taken)
  <2>1. PICK l, k : l = Len(stream) /\ k = Len(stream')
    OBVIOUS
  <2>2. arrived \in Nat /\ taken \in Nat /\ taken <= arrived /\ arrived <= l
    BY <2>1, Lengths
  <2>3. arrived <= k
    BY <1>4, <1>7, <2>1, <2>2
  <2> QED
    BY ONLY <1>3, <2>1, <2>2, <2>3 DEF ReadInv
<1>12. DoneInv(talk, sent, proxy', arrived, taken)
  BY <1>1, <1>2, <1>3, <1>4 DEF SocksInv, DoneInv
<1> QED
  BY <1>1, <1>2, <1>7, <1>8, <1>9, <1>10, <1>11, <1>12, AnswerKeeps

(* The proxy takes the login or refuses it.                                 *)
LEMMA AnswersLoginStep ==
  ASSUME SocksInv, NEW ver \in {1, 5}, NEW status \in {0, 255},
         AnswersLogin(ver, status)
  PROVE  SocksInv'
<1>0. PICK w : w = (ver = 1 /\ status = 0)
  OBVIOUS
<1>1. /\ proxy.answered = 1 /\ Len(sent) = 2 /\ Answering /\ proxy.method = UserPass
      /\ stream' = stream \o <<ver, status>>
  BY DEF AnswersLogin, Heard, Says, Answering
<1>2. /\ IsProxy(proxy') /\ proxy'.answered = proxy.answered + 1
      /\ proxy'.method = proxy.method /\ proxy'.login = w /\ proxy'.grant = proxy.grant
  <2>1. IsProxy(proxy) /\ proxy' = [[proxy EXCEPT !.login = w] EXCEPT !.answered = @ + 1]
    BY <1>0 DEF SocksInv, AnswersLogin, Says
  <2> QED
    BY ONLY <2>1 DEF IsProxy
<1>3. ~Replied(proxy) /\ proxy'.answered = 2 /\ ~Replied(proxy')
  BY <1>1, <1>2 DEF Replied, UserPass, NoAuth
<1>4. /\ Len(stream) = 2 /\ proxy.grant = {} /\ stream[2] = proxy.method
      /\ \A i \in 1..Len(stream) : stream[i] \in Nat
  BY <1>1, <1>3 DEF SocksInv, StreamInv
<1>5. PICK x : x = <<ver, status>>
  OBVIOUS
<1>6. x \in Seq(Int) /\ Len(x) = 2 /\ x[1] = ver /\ x[2] = status /\ ver \in Nat /\ status \in Nat
  BY <1>5
<1>7. /\ stream' \in Seq(Int) /\ Len(stream') = 4 /\ stream'[3] = ver /\ stream'[4] = status
      /\ stream'[1] = stream[1] /\ stream'[2] = stream[2]
  <2>1. PICK l : l = Len(stream)
    OBVIOUS
  <2>2. SocksInv /\ x \in Seq(Int) /\ stream' = stream \o x /\ l = Len(stream)
    BY <1>1, <1>5, <1>6, <2>1
  <2>3. /\ stream' \in Seq(Int) /\ Len(stream') = l + Len(x)
        /\ \A i \in 1..l : stream'[i] = stream[i]
        /\ \A i \in 1..Len(x) : stream'[l + i] = x[i]
    BY ONLY <2>2, Extended, SMTT(30)
  <2>4. /\ 1 \in 1..Len(x) /\ 2 \in 1..Len(x) /\ l + 1 = 3 /\ l + 2 = 4 /\ l + Len(x) = 4
        /\ 1 \in 1..l /\ 2 \in 1..l
    BY <1>4, <1>6, <2>1
  <2>5. /\ stream'[l + 1] = x[1] /\ stream'[l + 2] = x[2]
        /\ stream'[1] = stream[1] /\ stream'[2] = stream[2]
    BY ONLY <2>3, <2>4
  <2> QED
    BY ONLY <1>6, <2>3, <2>4, <2>5
<1>8. StreamInv(sent, stream', proxy')
  <2>1. \A i \in 1..Len(stream') : stream'[i] \in Nat
    <3>1. \A i \in 1..4 : i = 1 \/ i = 2 \/ i = 3 \/ i = 4
      OBVIOUS
    <3>2. 1 \in 1..2 /\ 2 \in 1..2
      OBVIOUS
    <3> QED
      BY ONLY <1>4, <1>6, <1>7, <3>1, <3>2
  <2>2. proxy'.login <=> stream'[3] = 1 /\ stream'[4] = 0
    BY ONLY <1>0, <1>2, <1>7
  <2> QED
    BY ONLY <1>1, <1>2, <1>3, <1>4, <1>7, <2>1, <2>2, SMTT(30) DEF StreamInv
<1>9. SentInv(talk, sent, proxy')
  <2>1. /\ talk.pc # "idle" /\ enabled(talk.login)
        /\ sent[2] # Nothing /\ sent[2] = socks5_build_auth(talk.login)
    BY <1>1 DEF SocksInv, SentInv, UserPass, NoAuth
  <2> QED
    BY <1>1, <1>2, <1>3, <2>1 DEF SentInv
<1>10. PlaceInv(talk, sent, proxy', taken)
  <2>1. /\ talk.pc \in {"auth", "done"} /\ (talk.pc = "auth" => taken = 2)
        /\ talk.pc # "done" => talk.rep # 0 /\ talk.named = FALSE /\ talk.verdict = "none"
    BY <1>1, <1>3 DEF SocksInv, PlaceInv, SentInv, UserPass, NoAuth
  <2> QED
    BY <1>1, <1>2, <2>1 DEF PlaceInv
<1>11. ReadInv(talk, sent, stream', proxy', arrived, taken)
  <2>1. PICK l, k : l = Len(stream) /\ k = Len(stream')
    OBVIOUS
  <2>2. arrived \in Nat /\ taken \in Nat /\ taken <= arrived /\ arrived <= l
    BY <2>1, Lengths
  <2>3. arrived <= k
    BY <1>4, <1>7, <2>1, <2>2
  <2> QED
    BY ONLY <1>3, <2>1, <2>2, <2>3 DEF ReadInv
<1>12. DoneInv(talk, sent, proxy', arrived, taken)
  BY <1>1, <1>2, <1>3, <1>4 DEF SocksInv, DoneInv
<1> QED
  BY <1>1, <1>2, <1>7, <1>8, <1>9, <1>10, <1>11, <1>12, AnswerKeeps

(* The frame of a reply.                                                    *)
FieldOf(r) == IF r.atyp = DOMAINNAME THEN <<r.n>> \o AddrOf(r) ELSE AddrOf(r)

FrameOf(r) == <<r.ver, r.rep, 0, r.atyp>> \o FieldOf(r) \o <<4, 56>>

IsFrame(x, r, w, n) ==
  /\ x \in Seq(Int) /\ w = Len(AddrOf(r)) /\ w \in Nat /\ At(r) \in {4, 5}
  /\ n = At(r) + w + 2 /\ n <= Len(x)
  /\ x[1] = r.ver /\ x[2] = r.rep /\ x[4] = r.atyp
  /\ r.atyp = DOMAINNAME => x[5] = r.n
  /\ \A i \in 1..w : x[At(r) + i] = AddrOf(r)[i]
  /\ x[At(r) + w + 1] = 4 /\ x[At(r) + w + 2] = 56
  /\ \A i \in 1..n : x[i] \in Nat

(* The frame of a reply has its fields in place.                            *)
LEMMA FrameFacts ==
  ASSUME NEW r \in Replies, NEW w, w = Len(AddrOf(r)), NEW n, n = Len(FrameOf(r))
  PROVE  IsFrame(FrameOf(r), r, w, n)
<1>1. r.ver \in Nat /\ r.rep \in Nat /\ r.atyp \in Nat /\ r.n \in Nat
  BY DEF Replies, IPV4, IPV6, DOMAINNAME
<1>2. PICK addr : addr = AddrOf(r)
  OBVIOUS
<1>3. addr \in Seq(Int) /\ w = Len(addr) /\ w \in Nat /\ \A i \in 1..w : addr[i] \in Nat
  <2>1. addr = V4 \/ addr = V6 \/ addr = Text(r.n)
    BY <1>2 DEF AddrOf
  <2>2. addr \in Seq(Int) /\ \A i \in 1..Len(addr) : addr[i] \in Nat
    BY <1>1, <2>1, V4Facts, V6Facts, TextFacts
  <2> QED
    BY <1>2, <2>2, LenProperties
<1>4. PICK a : a = At(r)
  OBVIOUS
<1>5. a \in {4, 5}
  BY <1>4 DEF At
<1>6. PICK f, c : f = FieldOf(r) /\ c = a - 4
  OBVIOUS
<1>7. /\ f \in Seq(Int) /\ Len(f) = c + w /\ c \in {0, 1}
      /\ r.atyp = DOMAINNAME => c = 1 /\ f[1] = r.n
      /\ \A i \in 1..w : f[c + i] = addr[i]
      /\ \A i \in 1..(c + w) : f[i] \in Nat
  <2>1. CASE r.atyp = DOMAINNAME
    <3>1. PICK h, k : h = <<r.n>> /\ k = 1
      OBVIOUS
    <3>2. h \in Seq(Int) /\ Len(h) = 1 /\ h[1] = r.n
      BY <1>1, <3>1, Octets1
    <3>3. c = 1 /\ f = h \o addr
      BY <1>2, <1>4, <1>6, <2>1, <3>1 DEF FieldOf, At
    <3>4. h \in Seq(Int) /\ addr \in Seq(Int) /\ k = Len(h) /\ w = Len(addr) /\ f = h \o addr
      BY <1>3, <3>1, <3>2, <3>3
    <3>6. /\ f \in Seq(Int) /\ Len(f) = k + w /\ f[1] = h[1]
          /\ \A j \in 1..w : f[k + j] = addr[j]
      <4>1. /\ f \in Seq(Int) /\ Len(f) = k + w /\ \A i \in 1..k : f[i] = h[i]
            /\ \A j \in 1..w : f[k + j] = addr[j]
        BY ONLY <3>4, Cat
      <4>2. 1 \in 1..k
        BY <3>1
      <4> QED
        BY ONLY <4>1, <4>2
    <3>7. \A i \in 1..(1 + w) : i = 1 \/ (i - 1 \in 1..w /\ 1 + (i - 1) = i)
      BY <1>3
    <3>8. \A i \in 1..(1 + w) : f[i] \in Nat
      BY ONLY <1>1, <1>3, <3>1, <3>2, <3>6, <3>7
    <3> QED
      BY ONLY <3>1, <3>2, <3>3, <3>6, <3>8
  <2>2. CASE r.atyp # DOMAINNAME
    <3>1. c = 0 /\ f = addr
      BY <1>2, <1>4, <1>6, <2>2 DEF FieldOf, At
    <3>2. 0 + w = w /\ \A i \in 1..w : 0 + i = i
      BY <1>3
    <3> QED
      BY ONLY <1>3, <2>2, <3>1, <3>2
  <2> QED
    BY <2>1, <2>2
<1>8. PICK h, e : h = <<r.ver, r.rep, 0, r.atyp>> /\ e = <<4, 56>>
  OBVIOUS
<1>9. /\ h \in Seq(Int) /\ Len(h) = 4 /\ h[1] = r.ver /\ h[2] = r.rep
      /\ h[3] = 0 /\ h[4] = r.atyp
      /\ e \in Seq(Int) /\ Len(e) = 2 /\ e[1] = 4 /\ e[2] = 56
  BY <1>1, <1>8, Octets4, Octets2
<1>10. PICK y, x, k, g, j, v :
          /\ y = h \o f /\ x = y \o e /\ k = 4 /\ g = c + w /\ j = k + g /\ v = 2
  OBVIOUS
<1>11. /\ y \in Seq(Int) /\ Len(y) = k + g /\ \A i \in 1..k : y[i] = h[i]
       /\ \A i \in 1..g : y[k + i] = f[i]
  <2>1. h \in Seq(Int) /\ f \in Seq(Int) /\ k = Len(h) /\ g = Len(f) /\ y = h \o f
    BY <1>7, <1>9, <1>10
  <2> QED
    BY ONLY <2>1, Cat
<1>12. /\ x \in Seq(Int) /\ Len(x) = j + v /\ \A i \in 1..j : x[i] = y[i]
       /\ \A i \in 1..v : x[j + i] = e[i]
  <2>1. y \in Seq(Int) /\ e \in Seq(Int) /\ j = Len(y) /\ v = Len(e) /\ x = y \o e
    BY <1>9, <1>10, <1>11
  <2> QED
    BY ONLY <2>1, Cat
<1>13. x = FrameOf(r)
  BY <1>6, <1>8, <1>10 DEF FrameOf
<1>14. c \in 0..1 /\ w \in Nat /\ a = 4 + c /\ j = a + w /\ n = a + w + 2 /\ g \in Nat
  BY <1>3, <1>5, <1>6, <1>7, <1>10, <1>12, <1>13
<1>15. /\ x[1] = r.ver /\ x[2] = r.rep /\ x[3] = 0 /\ x[4] = r.atyp
       /\ \A i \in 1..g : x[k + i] = f[i]
  <2>1. /\ 1 \in 1..k /\ 2 \in 1..k /\ 3 \in 1..k /\ 4 \in 1..k
        /\ \A i \in 1..k : i \in 1..j
        /\ \A i \in 1..g : k + i \in 1..j
    BY ONLY <1>10, <1>14
  <2> QED
    BY ONLY <1>9, <1>11, <1>12, <2>1, SMTT(30)
<1>16. r.atyp = DOMAINNAME => x[5] = r.n
  <2>1. c = 1 => 1 \in 1..g /\ k + 1 = 5
    BY ONLY <1>10, <1>14
  <2> QED
    BY ONLY <1>7, <1>15, <2>1
<1>17. \A i \in 1..w : x[a + i] = addr[i]
  <2>1. \A i \in 1..w : c + i \in 1..g /\ k + (c + i) = a + i
    BY ONLY <1>10, <1>14
  <2> QED
    BY ONLY <1>7, <1>15, <2>1
<1>18. x[a + w + 1] = 4 /\ x[a + w + 2] = 56
  <2>1. 1 \in 1..v /\ 2 \in 1..v /\ j + 1 = a + w + 1 /\ j + 2 = a + w + 2
    BY ONLY <1>10, <1>14
  <2> QED
    BY ONLY <1>9, <1>12, <2>1
<1>19. \A i \in 1..n : x[i] \in Nat
  <2>1. \A i \in 1..n : \/ i \in {1, 2, 3, 4}
                        \/ i - k \in 1..g /\ k + (i - k) = i
                        \/ i = a + w + 1 \/ i = a + w + 2
    BY ONLY <1>10, <1>14
  <2>2. \A i \in 1..g : x[k + i] \in Nat
    BY ONLY <1>7, <1>10, <1>15
  <2> QED
    BY ONLY <1>1, <1>15, <1>18, <2>1, <2>2
<1>20. n <= Len(x)
  BY <1>10, <1>12, <1>14
<1> QED
  BY ONLY <1>2, <1>3, <1>4, <1>5, <1>12, <1>13, <1>14, <1>15, <1>16, <1>17, <1>18, <1>19, <1>20
     DEF IsFrame

(* What follows a frame leaves it as it is.                                 *)
LEMMA Followed ==
  ASSUME NEW r, NEW x, NEW w, NEW n, IsFrame(x, r, w, n), n = Len(x),
         NEW e \in Seq(Int), NEW y, y = x \o e
  PROVE  IsFrame(y, r, w, n)
<1>1. PICK a, k : a = At(r) /\ k = Len(e)
  OBVIOUS
<1>2. /\ x \in Seq(Int) /\ w = Len(AddrOf(r)) /\ w \in Nat /\ a \in {4, 5}
      /\ n = a + w + 2
      /\ x[1] = r.ver /\ x[2] = r.rep /\ x[4] = r.atyp
      /\ r.atyp = DOMAINNAME => x[5] = r.n
      /\ \A i \in 1..w : x[a + i] = AddrOf(r)[i]
      /\ x[a + w + 1] = 4 /\ x[a + w + 2] = 56
      /\ \A i \in 1..n : x[i] \in Nat
  BY <1>1 DEF IsFrame
<1>3. y \in Seq(Int) /\ k \in Nat /\ Len(y) = n + k /\ \A i \in 1..n : y[i] = x[i]
  <2>1. x \in Seq(Int) /\ e \in Seq(Int) /\ n = Len(x) /\ k = Len(e) /\ y = x \o e
    BY <1>1, <1>2
  <2> QED
    BY ONLY <2>1, Cat
<1>4. /\ 1 \in 1..n /\ 2 \in 1..n /\ 4 \in 1..n /\ 5 \in 1..n
      /\ a + w + 1 \in 1..n /\ a + w + 2 \in 1..n /\ n <= n + k
      /\ \A i \in 1..w : a + i \in 1..n
  <2>1. w \in Nat /\ a \in {4, 5} /\ n = a + w + 2 /\ k \in Nat
    BY <1>2, <1>3
  <2> QED
    BY ONLY <2>1
<1>5. /\ y[1] = r.ver /\ y[2] = r.rep /\ y[4] = r.atyp
      /\ r.atyp = DOMAINNAME => y[5] = r.n
      /\ \A i \in 1..w : y[a + i] = AddrOf(r)[i]
      /\ y[a + w + 1] = 4 /\ y[a + w + 2] = 56
      /\ \A i \in 1..n : y[i] \in Nat
  BY ONLY <1>2, <1>3, <1>4, ZenonT(60)
<1>6. n <= Len(y)
  BY ONLY <1>3, <1>4
<1> QED
  BY ONLY <1>1, <1>2, <1>3, <1>5, <1>6 DEF IsFrame

(* What the proxy notes of the reply r at b.                                *)
Answered(r, m, p, b, n) ==
  /\ b = Base(p) /\ p.end = b + n
  /\ p.bnd = {[addr |-> AddrOf(r), port |-> 1080]}
  /\ p.named = (r.atyp = DOMAINNAME)
  /\ p.grant = IF Legal(r) THEN {Understood(m[Len(m)])} ELSE {}

(* A frame at the end of a stream is the reply there.                       *)
LEMMA Placed ==
  ASSUME NEW r, NEW x, NEW w, NEW n, IsFrame(x, r, w, n),
         NEW s \in Seq(Int), NEW b, b = Len(s), NEW z, z = s \o x,
         \A i \in 1..b : s[i] \in Nat,
         NEW p, NEW m, Answered(r, m, p, b, n)
  PROVE  ReplyIs(r, m, z, p)
<1>0. b = Base(p) /\ p.end = b + n
  BY DEF Answered
<1>1. PICK a, k, e : a = At(r) /\ k = Len(x) /\ e = p.end
  OBVIOUS
<1>2. /\ x \in Seq(Int) /\ w = Len(AddrOf(r)) /\ w \in Nat /\ a \in {4, 5}
      /\ n = a + w + 2 /\ n <= k
      /\ x[1] = r.ver /\ x[2] = r.rep /\ x[4] = r.atyp
      /\ r.atyp = DOMAINNAME => x[5] = r.n
      /\ \A i \in 1..w : x[a + i] = AddrOf(r)[i]
      /\ x[a + w + 1] = 4 /\ x[a + w + 2] = 56
      /\ \A i \in 1..n : x[i] \in Nat
  BY <1>1 DEF IsFrame
<1>3. /\ b \in Nat /\ k \in Nat /\ Len(z) = b + k
      /\ \A i \in 1..b : z[i] = s[i]
      /\ \A i \in 1..k : z[b + i] = x[i]
  <2>1. s \in Seq(Int) /\ x \in Seq(Int) /\ b = Len(s) /\ k = Len(x) /\ z = s \o x
    BY <1>1, <1>2
  <2> QED
    BY ONLY <2>1, Cat, SMTT(30)
<1>4. b \in Nat /\ w \in Nat /\ a \in {4, 5} /\ n = a + w + 2 /\ n <= k /\ k \in Nat /\ e = b + n
  BY <1>0, <1>1, <1>2, <1>3
<1>5. /\ 1 \in 1..k /\ 2 \in 1..k /\ 4 \in 1..k /\ 5 \in 1..k
      /\ a + w + 1 \in 1..k /\ a + w + 2 \in 1..k
      /\ \A i \in 1..w : a + i \in 1..k /\ b + (a + i) = b + a + i
      /\ b + (a + w + 1) = b + a + w + 1 /\ b + (a + w + 2) = b + a + w + 2
      /\ e = b + a + w + 2 /\ b + k >= e
      /\ \A i \in 1..e : i \in 1..b \/ (i - b \in 1..n /\ i - b \in 1..k /\ b + (i - b) = i)
  BY ONLY <1>4
<1>6. /\ z[b + 1] = r.ver /\ z[b + 2] = r.rep /\ z[b + 4] = r.atyp
      /\ r.atyp = DOMAINNAME => z[b + 5] = r.n
      /\ z[b + a + w + 1] = 4 /\ z[b + a + w + 2] = 56
  BY ONLY <1>2, <1>3, <1>5, ZenonT(60)
<1>7. \A i \in 1..w : z[b + a + i] = AddrOf(r)[i]
  <2> SUFFICES ASSUME NEW i \in 1..w PROVE z[b + a + i] = AddrOf(r)[i]
    OBVIOUS
  <2>1. a + i \in 1..k /\ b + (a + i) = b + a + i
    BY ONLY <1>5
  <2>2. x[a + i] = AddrOf(r)[i]
    BY ONLY <1>2
  <2>3. z[b + (a + i)] = x[a + i]
    BY ONLY <1>3, <2>1
  <2> QED
    BY ONLY <2>1, <2>2, <2>3
<1>8. \A i \in 1..e : z[i] \in Nat
  <2>1. \A i \in 1..b : z[i] \in Nat
    BY <1>3
  <2>2. \A i \in 1..n : i \in 1..k => z[b + i] \in Nat
    BY ONLY <1>2, <1>3
  <2> QED
    BY ONLY <1>5, <2>1, <2>2
<1>9. Len(z) >= e
  BY ONLY <1>3, <1>5
<1>10. p.end = e /\ b = Base(p) /\ a = At(r) /\ w = Len(AddrOf(r)) /\ e = b + a + w + 2
  BY <1>0, <1>1, <1>2, <1>5
<1>11. /\ p.end = Base(p) + At(r) + Len(AddrOf(r)) + 2
       /\ z[Base(p) + 1] = r.ver /\ z[Base(p) + 2] = r.rep /\ z[Base(p) + 4] = r.atyp
       /\ r.atyp = DOMAINNAME => z[Base(p) + 5] = r.n
       /\ \A i \in 1..Len(AddrOf(r)) : z[Base(p) + At(r) + i] = AddrOf(r)[i]
       /\ z[Base(p) + At(r) + Len(AddrOf(r)) + 1] = 4
       /\ z[Base(p) + At(r) + Len(AddrOf(r)) + 2] = 56
       /\ Len(z) >= p.end /\ \A i \in 1..p.end : z[i] \in Nat
  BY ONLY <1>6, <1>7, <1>8, <1>9, <1>10
<1>12. /\ p.bnd = {[addr |-> AddrOf(r), port |-> 1080]}
       /\ p.named = (r.atyp = DOMAINNAME)
       /\ p.grant = IF Legal(r) THEN {Understood(m[Len(m)])} ELSE {}
  BY DEF Answered
<1> QED
  BY ONLY <1>11, <1>12, ZenonT(60) DEF ReplyIs

(* The proxy grants the request or refuses it.                              *)
LEMMA AnswersRequestStep ==
  ASSUME SocksInv, NEW r \in Replies, AnswersRequest(r)
  PROVE  SocksInv'
<1>1. /\ Answering
      /\ \/ proxy.answered = 1 /\ Len(sent) = 2 /\ proxy.method = NoAuth
         \/ proxy.answered = 2 /\ Len(sent) = 3 /\ proxy.login
  <2>1. \/ Heard(2) /\ proxy.method = NoAuth
        \/ Heard(3) /\ proxy.login
    BY ONLY AnswersRequest(r) DEF AnswersRequest
  <2>2. PICK o, p : Says(o, p)
    BY ONLY AnswersRequest(r) DEF AnswersRequest
  <2>3. Answering
    BY ONLY <2>2 DEF Says, Answering
  <2> QED
    BY ONLY <2>1, <2>3 DEF Heard
<1>2. PICK w, n, x : /\ w = Len(AddrOf(r)) /\ n = Len(FrameOf(r))
                     /\ x = IF Legal(r) THEN FrameOf(r) \o <<App, App>> ELSE FrameOf(r)
  OBVIOUS
<1>20. PICK g : g = IF Legal(r) THEN {Understood(sent[Len(sent)])} ELSE {}
  OBVIOUS
<1>21. PICK b : b = {[addr |-> AddrOf(r), port |-> 1080]}
  BY ZenonT(60)
<1>22. PICK d, e : d = (r.atyp = DOMAINNAME) /\ e = Len(stream) + n
  OBVIOUS
<1>3. /\ stream' = stream \o x
      /\ proxy' = [[proxy EXCEPT !.grant = g, !.bnd = b, !.named = d, !.end = e]
                     EXCEPT !.answered = @ + 1]
  <2>1. Says(x, [proxy EXCEPT !.grant = g, !.bnd = b, !.named = d, !.end = e])
    <3>1. Says(IF Legal(r) THEN FrameOf(r) \o <<App, App>> ELSE FrameOf(r),
               [proxy EXCEPT !.grant = IF Legal(r) THEN {Understood(sent[Len(sent)])}
                                                   ELSE {},
                             !.bnd = {[addr |-> AddrOf(r), port |-> 1080]},
                             !.named = (r.atyp = DOMAINNAME),
                             !.end = Len(stream) + Len(FrameOf(r))])
      BY ONLY AnswersRequest(r), SMTT(30)
         DEF AnswersRequest, AddrOf, FieldOf, FrameOf, Legal
    <3> QED
      BY ONLY <3>1, <1>2, <1>20, <1>21, <1>22, SMTT(30)
  <2> QED
    BY ONLY <2>1 DEF Says
<1>4. /\ IsProxy(proxy') /\ proxy'.answered = proxy.answered + 1
      /\ proxy'.method = proxy.method /\ proxy'.login = proxy.login
      /\ proxy'.grant = g /\ proxy'.bnd = b /\ proxy'.named = d /\ proxy'.end = e
  <2>1. IsProxy(proxy)
    BY DEF SocksInv
  <2> QED
    BY ONLY <1>3, <2>1 DEF IsProxy
<1>5. IsFrame(x, r, w, n)
  <2>1. IsFrame(FrameOf(r), r, w, n)
    BY <1>2, FrameFacts
  <2>2. <<App, App>> \in Seq(Int)
    BY DEF App
  <2>3. IsFrame(FrameOf(r) \o <<App, App>>, r, w, n)
    <3>1. PICK f, t, y : f = FrameOf(r) /\ t = <<App, App>> /\ y = f \o t
      OBVIOUS
    <3>2. IsFrame(f, r, w, n) /\ n = Len(f) /\ t \in Seq(Int) /\ y = f \o t
      BY <1>2, <2>1, <2>2, <3>1
    <3>3. IsFrame(y, r, w, n)
      BY ONLY <3>2, Followed
    <3> QED
      BY <3>1, <3>3
  <2> QED
    BY <1>2, <2>1, <2>3
<1>6. proxy.login => proxy.method = UserPass
  BY DEF SocksInv, StreamInv
<1>7. ~Replied(proxy) /\ Replied(proxy')
  BY <1>1, <1>4, <1>6 DEF Replied, UserPass, NoAuth
<1>8. PICK l : l = Len(stream)
  OBVIOUS
<1>9. l = Base(proxy') /\ l \in {2, 4}
  <2>1. proxy.answered = 1 => Len(stream) = 2
    BY DEF SocksInv, StreamInv
  <2>2. proxy.answered = 2 /\ proxy.method = UserPass => Len(stream) = 4
    BY DEF SocksInv, StreamInv
  <2> QED
    BY <1>1, <1>4, <1>6, <1>8, <2>1, <2>2 DEF Base
<1>10. ReplyIs(r, sent, stream', proxy')
  <2>1. PICK s, z, p, m : s = stream /\ z = stream' /\ p = proxy' /\ m = sent
    OBVIOUS
  <2>2. \A i \in 1..l : stream[i] \in Nat
    BY <1>7, <1>8 DEF SocksInv, StreamInv
  <2>3. /\ IsFrame(x, r, w, n) /\ s \in Seq(Int) /\ l = Len(s) /\ z = s \o x
        /\ \A i \in 1..l : s[i] \in Nat
    BY <1>3, <1>5, <1>8, <2>1, <2>2 DEF SocksInv
  <2>4. Answered(r, m, p, l, n)
    <3>1. l = Base(p) /\ p.end = l + n /\ p.bnd = b /\ p.named = d /\ p.grant = g
      BY <1>4, <1>8, <1>9, <1>22, <2>1
    <3>2. g = IF Legal(r) THEN {Understood(m[Len(m)])} ELSE {}
      BY ONLY <1>20, <2>1
    <3> QED
      BY ONLY <1>21, <1>22, <3>1, <3>2 DEF Answered
  <2>5. ReplyIs(r, m, z, p)
    BY ONLY <2>3, <2>4, Placed
  <2> QED
    BY <2>1, <2>5
<1>11. /\ stream' \in Seq(Int) /\ l \in Nat /\ \A i \in 1..l : stream'[i] = stream[i]
  <2>1. SocksInv /\ x \in Seq(Int) /\ stream' = stream \o x /\ l = Len(stream)
    BY <1>3, <1>5, <1>8 DEF IsFrame
  <2> QED
    BY ONLY <2>1, Extended
<1>12. n \in Nat /\ n > 0 /\ e = l + n /\ e <= Len(stream')
  <2>1. n = At(r) + w + 2 /\ At(r) \in {4, 5} /\ w \in Nat
    BY <1>5 DEF IsFrame
  <2>2. n \in Nat /\ n > 0
    BY ONLY <2>1
  <2>3. Len(stream') >= proxy'.end
    BY <1>10 DEF ReplyIs
  <2>4. Len(stream') \in Nat /\ e = l + n
    BY <1>8, <1>11, <1>22, LenProperties
  <2>5. PICK k : k = Len(stream')
    OBVIOUS
  <2>6. k >= e /\ k \in Nat /\ e \in Nat
    BY <1>4, <1>11, <2>2, <2>3, <2>4, <2>5
  <2>7. e <= k
    BY ONLY <2>6
  <2> QED
    BY <2>2, <2>4, <2>5, <2>7
<1>13. StreamInv(sent, stream', proxy')
  <2>1. PICK k : k = Len(stream')
    OBVIOUS
  <2>2. k \in Nat /\ k >= l
    BY <1>9, <1>11, <1>12, <2>1, LenProperties
  <2>3. stream'[2] = proxy.method /\ proxy.answered \in {1, 2}
    <3>1. stream[2] = proxy.method
      BY <1>1 DEF SocksInv, StreamInv
    <3>2. 2 \in 1..l
      BY <1>9
    <3> QED
      BY <1>1, <1>11, <3>1, <3>2
  <2>4. proxy.method = UserPass => k >= 4 /\ (proxy.login <=> stream'[3] = 1 /\ stream'[4] = 0)
    <3>1. SUFFICES ASSUME proxy.method = UserPass
                   PROVE  k >= 4 /\ (proxy.login <=> stream'[3] = 1 /\ stream'[4] = 0)
      OBVIOUS
    <3>2. proxy.answered = 2
      BY <1>1, <3>1 DEF UserPass, NoAuth
    <3>3. Len(stream) = 4 /\ (proxy.login <=> stream[3] = 1 /\ stream[4] = 0)
      BY <3>1, <3>2 DEF SocksInv, StreamInv
    <3>4. l = 4 /\ 3 \in 1..l /\ 4 \in 1..l
      BY <1>8, <3>3
    <3> QED
      BY <1>11, <2>2, <3>3, <3>4
  <2>5. proxy'.answered \in {2, 3} /\ (proxy'.answered = 2 => proxy'.method # UserPass)
    BY <1>1, <1>4 DEF UserPass, NoAuth
  <2>6. k >= 2
    BY <1>9, <2>2
  <2>7. /\ proxy'.answered # 0 /\ proxy'.answered # 1 /\ proxy'.answered >= 2
    BY <2>5
  <2> QED
    BY ONLY <1>4, <1>6, <1>7, <2>1, <2>3, <2>4, <2>5, <2>6, <2>7 DEF StreamInv
<1>14. SentInv(talk, sent, proxy')
  <2>1. /\ (talk.pc = "idle" => Len(sent) = 0)
        /\ Len(sent) >= 2 =>
             \/ proxy.method = NoAuth /\ Len(sent) = 2 /\ sent[2] = talk.req /\ talk.req # Nothing
             \/ /\ proxy.method = UserPass /\ enabled(talk.login)
                /\ sent[2] # Nothing /\ sent[2] = socks5_build_auth(talk.login)
        /\ Len(sent) = 3 => proxy.login /\ sent[3] = talk.req /\ talk.req # Nothing
    BY DEF SocksInv, SentInv
  <2>2. /\ proxy'.answered \in Nat /\ proxy'.answered <= Len(sent)
        /\ Len(sent) <= proxy'.answered + 1 /\ Len(sent) <= 3 /\ proxy'.answered >= 2
    <3>1. PICK i, j : i = Len(sent) /\ j = proxy'.answered
      OBVIOUS
    <3>2. (j = 2 /\ i = 2) \/ (j = 3 /\ i = 3)
      BY <1>1, <1>4, <3>1
    <3>3. j \in Nat /\ j <= i /\ i <= j + 1 /\ i <= 3 /\ j >= 2
      BY ONLY <3>2
    <3> QED
      BY ONLY <3>1, <3>3
  <2> QED
    BY ONLY <1>4, <2>1, <2>2 DEF SentInv
<1>15. /\ talk.pc \in {"head", "done"}
       /\ talk.pc = "head" => /\ taken = l /\ talk.rep # 0 /\ talk.named = FALSE
                              /\ talk.verdict = "none"
                              /\ \/ Len(sent) = 2 /\ taken = 2 /\ proxy.method = NoAuth
                                 \/ Len(sent) = 3 /\ taken = 4
  <2>1. PlaceInv(talk, sent, proxy, taken)
    BY DEF SocksInv
  <2>2. talk.pc # "idle"
    BY <1>1 DEF SocksInv, SentInv
  <2>3. talk.pc \in {"head", "done"}
    BY <1>1, <1>6, <1>7, <2>1, <2>2 DEF PlaceInv, UserPass, NoAuth
  <2>4. talk.pc = "head" => /\ talk.rep # 0 /\ talk.named = FALSE /\ talk.verdict = "none"
                            /\ \/ Len(sent) = 2 /\ taken = 2 /\ proxy.method = NoAuth
                               \/ Len(sent) = 3 /\ taken = 4
    BY <2>1 DEF PlaceInv
  <2>5. (Len(sent) = 2 => l = 2) /\ (Len(sent) = 3 => l = 4)
    BY <1>1, <1>4, <1>9 DEF Base
  <2> QED
    BY <2>3, <2>4, <2>5
<1>16. PlaceInv(talk, sent, proxy', taken)
  BY <1>4, <1>7, <1>15 DEF PlaceInv
<1>17. ReadInv(talk, sent, stream', proxy', arrived, taken)
  <2>1. arrived \in Nat /\ taken \in Nat /\ taken <= arrived /\ arrived <= l
    BY <1>8, Lengths
  <2>2. PICK k : k = Len(stream')
    OBVIOUS
  <2>3. k \in Nat /\ e <= k
    BY <1>11, <1>12, <2>2, LenProperties
  <2>4. arrived <= k /\ taken <= e
    BY <1>11, <1>12, <2>1, <2>3
  <2>5. ReplyPlace(r, talk, proxy', taken)
    BY <1>9, <1>15 DEF ReplyPlace
  <2> QED
    BY <1>4, <1>10, <2>1, <2>2, <2>4, <2>5 DEF ReadInv
<1>18. DoneInv(talk, sent, proxy', arrived, taken)
  <2>1. SUFFICES ASSUME talk.pc = "done"
                 PROVE  DoneInv(talk, sent, proxy', arrived, taken)
    BY DEF DoneInv
  <2>2. talk.verdict \notin {"truncated", "ok", "bnd_is_a_name"}
    BY <1>7, <2>1 DEF SocksInv, DoneInv
  <2>3. talk.verdict # "refused_rep"
    <3>1. PICK i : i = Len(sent)
      OBVIOUS
    <3>2. talk.verdict = "refused_rep" => i <= 1 \/ (i = 2 /\ proxy.method = UserPass)
      BY <1>7, <2>1, <3>1 DEF SocksInv, DoneInv
    <3>3. (i = 2 /\ proxy.method # UserPass) \/ i = 3
      BY <1>1, <3>1 DEF UserPass, NoAuth
    <3> QED
      BY ONLY <3>2, <3>3
  <2>4. talk.verdict = "protocol_error"
    BY <2>1, <2>2, <2>3 DEF SocksInv, DoneInv
  <2>5. arrived < proxy'.end
    <3>1. arrived \in Nat /\ arrived <= l
      BY <1>8, Lengths
    <3> QED
      BY <1>4, <1>11, <1>12, <3>1
  <2> QED
    BY <2>4, <2>5 DEF DoneInv
<1> QED
  BY <1>1, <1>4, <1>11, <1>13, <1>14, <1>16, <1>17, <1>18, AnswerKeeps, SMTT(30)

(* One more octet arrives.                                                  *)
LEMMA ArriveStep ==
  ASSUME SocksInv, Arrive
  PROVE  SocksInv'
<1>1. /\ arrived < Len(stream) /\ talk.pc # "done" /\ arrived' = arrived + 1
      /\ UNCHANGED <<talk, sent, stream, taken, proxy>>
  BY DEF Arrive
<1>2. ReadInv(talk, sent, stream, proxy, arrived', taken)
  <2>1. arrived' \in Nat /\ taken \in Nat /\ taken <= arrived' /\ arrived' <= Len(stream)
    BY <1>1, Lengths
  <2> QED
    BY <2>1 DEF SocksInv, ReadInv
<1>3. DoneInv(talk, sent, proxy, arrived', taken)
  BY <1>1 DEF DoneInv
<1> QED
  BY <1>1, <1>2, <1>3 DEF SocksInv

-----------------------------------------------------------------------------
(* The invariant holds at the start.                                        *)
LEMMA SocksStarts == SocksInit => SocksInv
<1> SUFFICES ASSUME SocksInit PROVE SocksInv
  OBVIOUS
<1>1. /\ talk = NoTalk /\ proxy = NoProxy
      /\ sent = <<>> /\ stream = <<>> /\ arrived = 0 /\ taken = 0
  BY DEF SocksInit
<1>2. /\ IsTalk(talk) /\ talk.pc = "idle" /\ talk.rep = GeneralFailure
      /\ talk.named = FALSE /\ talk.verdict = "none"
  BY <1>1 DEF IsTalk, NoTalk
<1>3. /\ IsProxy(proxy) /\ proxy.answered = 0 /\ proxy.method = -1
      /\ proxy.login = FALSE /\ proxy.grant = {}
  BY <1>1 DEF IsProxy, NoProxy
<1>4. sent \in Seq(Seq(Int)) /\ stream \in Seq(Int) /\ Len(sent) = 0 /\ Len(stream) = 0
  BY <1>1, EmptySeq
<1>5. ~Replied(proxy)
  BY <1>3 DEF Replied
<1>6. AskInv(talk) /\ DoneInv(talk, sent, proxy, arrived, taken)
  BY <1>2 DEF AskInv, DoneInv
<1>7. SentInv(talk, sent, proxy)
  BY <1>2, <1>3, <1>4 DEF SentInv
<1>8. StreamInv(sent, stream, proxy)
  BY <1>3, <1>4, <1>5 DEF StreamInv
<1>9. PlaceInv(talk, sent, proxy, taken)
  BY <1>1, <1>2 DEF PlaceInv, GeneralFailure
<1>10. ReadInv(talk, sent, stream, proxy, arrived, taken)
  BY <1>1, <1>4, <1>5 DEF ReadInv
<1> QED
  BY <1>2, <1>3, <1>4, <1>6, <1>7, <1>8, <1>9, <1>10 DEF SocksInv

(* Every step keeps the invariant.                                          *)
LEMMA SocksKeeps == SocksInv /\ [SocksNext]_socksVars => SocksInv'
<1> SUFFICES ASSUME SocksInv, [SocksNext]_socksVars PROVE SocksInv'
  OBVIOUS
<1>1. CASE UNCHANGED socksVars
  BY <1>1 DEF socksVars, SocksInv
<1>2. ASSUME NEW ask \in ConnectAsks \cup AssociateAsks, NEW login \in Logins,
             Greet(ask, login)
      PROVE  SocksInv'
  BY <1>2, GreetStep
<1>3. CASE Picked \/ NotPicked
  BY <1>3, MethodStep
<1>4. CASE Login
  BY <1>4, LoginStep
<1>5. CASE LoggedIn \/ NotLoggedIn
  BY <1>5, AuthStep
<1>6. CASE Request
  BY <1>6, RequestStep
<1>7. CASE Header \/ NoHeader
  BY <1>7, HeaderStep
<1>8. CASE NameLength \/ NoNameLength
  BY <1>8, NameStep
<1>9. CASE Bound \/ NotBound
  BY <1>9, BoundStep
<1>10. ASSUME NEW ver \in {4, 5}, NEW m \in {NoAuth, UserPass, Unacceptable},
              PicksMethod(ver, m)
       PROVE  SocksInv'
  BY <1>10, PicksStep
<1>11. ASSUME NEW ver \in {1, 5}, NEW status \in {0, 255}, AnswersLogin(ver, status)
       PROVE  SocksInv'
  BY <1>11, AnswersLoginStep
<1>12. ASSUME NEW r \in Replies, AnswersRequest(r)
       PROVE  SocksInv'
  BY <1>12, AnswersRequestStep
<1>13. CASE Arrive
  BY <1>13, ArriveStep
<1> QED
  BY <1>1, <1>2, <1>3, <1>4, <1>5, <1>6, <1>7, <1>8, <1>9, <1>10, <1>11, <1>12, <1>13
     DEF SocksNext

(* It holds throughout.                                                     *)
LEMMA SocksAlways == SocksSpec => []SocksInv
<1> QED
  BY SocksStarts, SocksKeeps, PTL DEF SocksSpec

-----------------------------------------------------------------------------
(* A login goes only to a proxy that picked it, as it was given, and a      *)
(* request only to one that wants no login or took it, for names and        *)
(* credentials of every length (socks5.hpp 549-551).                        *)
THEOREM LoginNeverSkipped == SocksSpec => []NeverDowngraded
<1>1. SocksInv => NeverDowngraded
  <2> SUFFICES ASSUME SocksInv PROVE NeverDowngraded
    OBVIOUS
  <2>1. SentInv(talk, sent, proxy)
    BY DEF SocksInv
  <2>2. ASSUME Len(sent) >= 2, proxy.method # NoAuth
        PROVE  LET u == sent[2][2] IN
                 /\ SubSeq(sent[2], 3, 2 + u) = talk.login.username
                 /\ SubSeq(sent[2], 4 + u, Len(sent[2])) = talk.login.password
    <3>1. PICK c, x, u : c = talk.login /\ x = sent[2] /\ u = x[2]
      OBVIOUS
    <3>2. x # Nothing /\ x = socks5_build_auth(c)
      BY <2>1, <2>2, <3>1 DEF SentInv
    <3>3. talk.pc # "idle"
      BY <2>1, <2>2 DEF SentInv
    <3>4. c \in Logins
      BY <3>1, <3>3 DEF SocksInv, AskInv
    <3>5. SubSeq(x, 3, 2 + u) = c.username /\ SubSeq(x, 4 + u, Len(x)) = c.password
      BY ONLY <3>1, <3>2, <3>4, AuthFacts
    <3> QED
      BY <3>1, <3>5
  <2>3. Len(sent) >= 2 =>
          \/ proxy.method = NoAuth /\ sent[2] = talk.req
          \/ proxy.method = UserPass /\ enabled(talk.login)
    BY <2>1 DEF SentInv
  <2>4. Len(sent) = 3 => proxy.login /\ sent[3] = talk.req
    BY <2>1 DEF SentInv
  <2>5. proxy.method # NoAuth \/ proxy.method # UserPass
    BY DEF NoAuth, UserPass
  <2> QED
    BY <2>2, <2>3, <2>4, <2>5 DEF NeverDowngraded
<1> QED
  BY <1>1, SocksAlways, PTL

(* The client never reads an octet of the application's traffic, and one    *)
(* that read a reply to its end left nothing of it, for every reply in      *)
(* Replies and however the octets trickle (socks5.hpp 626-632).             *)
THEOREM ReadsOnlyTheReply == SocksSpec => []StaysInStep
<1>1. SocksInv => StaysInStep
  <2> SUFFICES ASSUME SocksInv PROVE StaysInStep
    OBVIOUS
  <2>1. ASSUME NEW i \in 1..taken PROVE stream[i] # App
    <3>1. stream[i] \in Nat
      <4>1. CASE Replied(proxy)
        <5>1. PICK r \in Replies : ReplyIs(r, sent, stream, proxy)
          BY <4>1 DEF SocksInv, ReadInv
        <5>2. \A j \in 1..proxy.end : stream[j] \in Nat
          BY <5>1 DEF ReplyIs
        <5>3. taken <= proxy.end /\ proxy.end \in Nat
          BY <4>1, RepliedFacts DEF SocksInv, ReadInv
        <5>4. i \in 1..proxy.end
          BY <5>3, Lengths
        <5> QED
          BY <5>2, <5>4
      <4>2. CASE ~Replied(proxy)
        <5>1. \A j \in 1..Len(stream) : stream[j] \in Nat
          BY <4>2 DEF SocksInv, StreamInv
        <5>2. i \in 1..Len(stream)
          BY Lengths
        <5> QED
          BY <5>1, <5>2
      <4> QED
        BY <4>1, <4>2
    <3> QED
      BY <3>1 DEF App
  <2>2. ASSUME talk.verdict \in {"ok", "bnd_is_a_name"} PROVE taken = proxy.end
    <3>1. talk.pc = "done"
      BY <2>2 DEF SocksInv, PlaceInv
    <3> QED
      BY <2>2, <3>1 DEF SocksInv, DoneInv
  <2> QED
    BY <2>1, <2>2 DEF StaysInStep
<1> QED
  BY <1>1, SocksAlways, PTL

(* What the proxy granted is what was asked for.                            *)
LEMMA GrantIsAsked ==
  ASSUME SocksInv, proxy.grant # {}
  PROVE  Replied(proxy) /\ proxy.grant = {talk.asked}
<1>1. Replied(proxy)
  BY DEF SocksInv, StreamInv
<1>2. proxy.grant = {Understood(sent[Len(sent)])}
  <2>1. PICK r \in Replies : ReplyIs(r, sent, stream, proxy)
    BY <1>1 DEF SocksInv, ReadInv
  <2> QED
    BY <2>1 DEF ReplyIs
<1>3. sent[Len(sent)] = talk.req /\ talk.req # Nothing /\ talk.pc # "idle"
  <2>1. PICK k, n : k = proxy.answered /\ n = Len(sent)
    OBVIOUS
  <2>2. /\ k \in Nat /\ n \in Nat /\ k <= n /\ n <= 3
        /\ (talk.pc = "idle" => n = 0)
        /\ n = 3 => proxy.login /\ sent[3] = talk.req /\ talk.req # Nothing
        /\ n >= 2 /\ proxy.method = NoAuth =>
             n = 2 /\ sent[2] = talk.req /\ talk.req # Nothing
    BY <2>1, LenProperties, SMTT(30) DEF SocksInv, SentInv, UserPass, NoAuth
  <2>3. (k = 2 /\ proxy.method = NoAuth) \/ k = 3
    BY <1>1, <2>1 DEF Replied
  <2>4. n = 2 \/ n = 3
    BY ONLY <2>2, <2>3
  <2>5. sent[n] = talk.req /\ talk.req # Nothing
    <3>1. CASE k = 3
      <4>1. n = 3
        BY ONLY <2>2, <3>1
      <4> QED
        BY ONLY <2>2, <4>1
    <3>2. CASE k = 2 /\ proxy.method = NoAuth
      <4>1. n >= 2
        BY ONLY <2>2, <3>2
      <4> QED
        BY ONLY <2>2, <3>2, <4>1
    <3> QED
      BY <2>3, <3>1, <3>2
  <2> QED
    BY <2>1, <2>2, <2>4, <2>5
<1>4. Understood(talk.req) = talk.asked
  BY <1>3 DEF SocksInv, AskInv, IsAsk, Faithful
<1> QED
  BY <1>1, <1>2, <1>3, <1>4

(* A tunnel or relay is reported if and only if the proxy granted the very  *)
(* command, address and port that were asked for and its whole reply        *)
(* arrived, and then with the address it bound (socks5.hpp 280-287,         *)
(* 617-640).                                                                *)
THEOREM GrantsAreReal == SocksSpec => []GrantIsReal
<1>1. SocksInv => GrantIsReal
  <2> SUFFICES ASSUME SocksInv, talk.pc = "done" PROVE GrantIsReal
    BY DEF GrantIsReal
  <2>1. /\ talk.verdict \in {"refused_rep", "protocol_error", "truncated", "ok",
                             "bnd_is_a_name"}
        /\ talk.verdict = "refused_rep" => talk.rep # 0 /\ proxy.grant = {}
        /\ talk.verdict = "protocol_error" /\ Replied(proxy) =>
             proxy.grant = {} \/ arrived < proxy.end
        /\ talk.verdict = "truncated" =>
             Replied(proxy) /\ proxy.grant # {} /\ arrived < proxy.end
        /\ talk.verdict \in {"ok", "bnd_is_a_name"} =>
             /\ Replied(proxy) /\ proxy.grant # {} /\ taken = proxy.end
             /\ talk.bnd = proxy.bnd /\ (talk.verdict = "ok" <=> ~proxy.named)
    BY DEF SocksInv, DoneInv
  <2>2. talk.verdict = "ok" <=>
          proxy.grant # {} /\ ~proxy.named /\ arrived >= proxy.end
    <3>1. ASSUME talk.verdict = "ok"
          PROVE  proxy.grant # {} /\ ~proxy.named /\ arrived >= proxy.end
      <4>1. taken = proxy.end /\ proxy.grant # {} /\ ~proxy.named
        BY <2>1, <3>1
      <4> QED
        BY <4>1, Lengths
    <3>2. ASSUME proxy.grant # {}, ~proxy.named, arrived >= proxy.end
          PROVE  talk.verdict = "ok"
      <4>1. Replied(proxy)
        BY <3>2, GrantIsAsked
      <4>2. ~(arrived < proxy.end)
        BY <3>2, <4>1, RepliedFacts, Lengths
      <4> QED
        BY <2>1, <3>2, <4>1, <4>2
    <3> QED
      BY <3>1, <3>2
  <2>3. talk.verdict \in {"ok", "bnd_is_a_name"} =>
          proxy.grant = {talk.asked} /\ talk.bnd = proxy.bnd
    BY <2>1, GrantIsAsked
  <2>4. Returned = 0 <=> talk.verdict = "ok"
    <3>1. CASE talk.verdict = "ok"
      BY <3>1 DEF Returned
    <3>2. CASE talk.verdict = "refused_rep"
      BY <2>1, <3>2 DEF Returned
    <3>3. CASE talk.verdict \notin {"ok", "refused_rep"}
      BY <3>3 DEF Returned, GeneralFailure
    <3> QED
      BY <3>1, <3>2, <3>3
  <2> QED
    BY <2>1, <2>2, <2>3, <2>4 DEF GrantIsReal
<1> QED
  BY <1>1, SocksAlways, PTL

-----------------------------------------------------------------------------
(* A datagram's header is read back as it was laid out, whatever follows it *)
(* and wherever the datagram ends.                                          *)
HasHeader(d, size, frag, atyp, addr, port, n, a) ==
  /\ d \in Seq(Int) /\ size \in Nat /\ Len(d) = size
  /\ n \in Nat /\ n = Len(addr) /\ a = Start(atyp) /\ Encodable(atyp, addr)
  /\ size >= 4 => d[3] = frag /\ d[4] = atyp
  /\ size >= 5 /\ atyp = DOMAINNAME => d[5] = n
  /\ size >= a + n + 2 => /\ \A i \in 1..n : d[a + i] = addr[i]
                          /\ Joined(d[a + n + 1], d[a + n + 2]) = port

(* The parser reads a header that is there, and nothing else.               *)
LEMMA Parsed ==
  ASSUME NEW d, NEW size, NEW frag, NEW atyp, NEW addr, NEW port, NEW n, NEW a,
         HasHeader(d, size, frag, atyp, addr, port, n, a)
  PROVE  socks5_parse_udp_header(d) =
           IF frag = 0 /\ n \in 1..16 /\ size >= a + n + 2
             THEN {[atyp |-> atyp, addr |-> addr, port |-> port,
                    header_size |-> a + n + 2]}
             ELSE {}
<1>0. /\ d \in Seq(Int) /\ size \in Nat /\ Len(d) = size
      /\ n \in Nat /\ n = Len(addr) /\ a = Start(atyp) /\ Encodable(atyp, addr)
      /\ size >= 4 => d[3] = frag /\ d[4] = atyp
      /\ size >= 5 /\ atyp = DOMAINNAME => d[5] = n
      /\ size >= a + n + 2 => /\ \A i \in 1..n : d[a + i] = addr[i]
                              /\ Joined(d[a + n + 1], d[a + n + 2]) = port
  BY DEF HasHeader
<1>1. /\ atyp \in {IPV4, IPV6, DOMAINNAME} /\ addr \in Seq(Int)
      /\ atyp = IPV4 => n = 4
      /\ atyp = IPV6 => n = 16
      /\ a = IF atyp = DOMAINNAME THEN 5 ELSE 4
  <2>0. DOMAINNAME # IPV4 /\ DOMAINNAME # IPV6 /\ IPV4 # IPV6
    BY SMTT(30) DEF IPV4, IPV6, DOMAINNAME
  <2>1. /\ addr \in Seq(Int)
        /\ \/ atyp = IPV4 /\ n = 4
           \/ atyp = IPV6 /\ n = 16
           \/ atyp = DOMAINNAME
    BY ONLY <1>0 DEF Encodable
  <2>2. a = IF atyp = DOMAINNAME THEN 5 ELSE 4
    BY ONLY <1>0 DEF Start
  <2> QED
    BY ONLY <2>0, <2>1, <2>2
<1>2. DOMAINNAME # IPV4 /\ DOMAINNAME # IPV6 /\ IPV4 # IPV6
  BY DEF IPV4, IPV6, DOMAINNAME
<1>3. a \in {4, 5}
  BY ONLY <1>1
<1>a. n \in Nat /\ size \in Nat /\ a \in {4, 5}
  BY <1>0, <1>3
<1>4. PICK at, k : /\ at = IF d[4] = DOMAINNAME THEN 5 ELSE 4
                   /\ k = CASE d[4] = IPV4 -> 4 [] d[4] = IPV6 -> 16 [] OTHER -> d[5]
  OBVIOUS
<1>5. socks5_parse_udp_header(d) =
        IF \/ size < 4 \/ d[3] # 0 \/ d[4] \notin {IPV4, IPV6, DOMAINNAME}
           \/ d[4] = DOMAINNAME /\ (size < 5 \/ d[5] \notin 1..16)
           \/ size < at + k + 2
          THEN {}
          ELSE {[atyp |-> d[4], addr |-> SubSeq(d, at + 1, at + k),
                 port |-> ntohs(SubSeq(d, at + k + 1, at + k + 2)),
                 header_size |-> at + k + 2]}
  BY <1>0, <1>4, ZenonT(60) DEF socks5_parse_udp_header
<1>6. CASE size < 4
  <2>1. ~(size >= a + n + 2)
    BY ONLY <1>0, <1>3, <1>6
  <2> QED
    BY <1>5, <1>6, <2>1
<1>7. CASE size >= 4
  <2>1. d[3] = frag /\ d[4] = atyp /\ at = a /\ ~(size < 4)
    BY <1>0, <1>1, <1>4, <1>7
  <2>2. CASE atyp = DOMAINNAME /\ size < 5
    <3>1. ~(size >= a + n + 2)
      BY ONLY <1>0, <1>3, <2>2, SMTT(30)
    <3> QED
      BY <1>5, <2>1, <2>2, <3>1
  <2>3. CASE ~(atyp = DOMAINNAME /\ size < 5)
    <3>1. k = n
      <4>1. CASE atyp = DOMAINNAME
        <5>1. d[5] = n
          BY ONLY <1>0, <2>3, <4>1
        <5> QED
          BY ONLY <1>2, <1>4, <2>1, <4>1, <5>1
      <4>2. CASE atyp = IPV4
        BY ONLY <1>1, <1>4, <2>1, <4>2
      <4>3. CASE atyp = IPV6
        BY ONLY <1>1, <1>2, <1>4, <2>1, <4>3
      <4> QED
        BY <1>1, <4>1, <4>2, <4>3
    <3>2. CASE frag # 0
      BY <1>5, <2>1, <3>2
    <3>3. CASE n \notin 1..16
      <4>1. atyp = DOMAINNAME
        BY ONLY <1>1, <3>3
      <4>2. d[5] = n
        BY ONLY <1>0, <2>3, <4>1
      <4> QED
        BY <1>5, <2>1, <3>3, <4>1, <4>2
    <3>4. CASE size < a + n + 2
      <4>1. ~(size >= a + n + 2)
        BY ONLY <1>0, <1>3, <3>4
      <4> QED
        BY <1>5, <2>1, <3>1, <3>4, <4>1
    <3>5. CASE frag = 0 /\ n \in 1..16 /\ size >= a + n + 2
      <4>1. socks5_parse_udp_header(d) =
              {[atyp |-> d[4], addr |-> SubSeq(d, at + 1, at + k),
                port |-> ntohs(SubSeq(d, at + k + 1, at + k + 2)),
                header_size |-> at + k + 2]}
        <5>1. /\ ~(size < 4) /\ d[3] = 0 /\ d[4] \in {IPV4, IPV6, DOMAINNAME}
          BY <1>1, <2>1, <3>5
        <5>2. ~(size < at + k + 2)
          BY <1>0, <1>3, <2>1, <3>1, <3>5
        <5>3. d[4] = DOMAINNAME => ~(size < 5) /\ d[5] \in 1..16
          <6>1. atyp = DOMAINNAME => size >= 5 /\ ~(size < 5)
            BY ONLY <1>0, <2>3
          <6> QED
            BY ONLY <1>0, <2>1, <3>5, <6>1
        <5> QED
          BY ONLY <1>5, <5>1, <5>2, <5>3, Zenon
      <4>2. SubSeq(d, a + 1, a + n) = addr
        <5>1. PICK z : z = SubSeq(d, a + 1, a + n)
          OBVIOUS
        <5>2. d \in Seq(Int) /\ a \in Nat /\ n \in Nat /\ a + n <= Len(d)
          <6>1. a + n <= size /\ a \in Nat
            BY ONLY <1>a, <3>5
          <6>2. d \in Seq(Int) /\ Len(d) = size
            BY <1>0
          <6> QED
            BY ONLY <1>a, <6>1, <6>2
        <5>3. z \in Seq(Int) /\ Len(z) = n /\ \A i \in 1..n : z[i] = d[a + i]
          BY ONLY <5>1, <5>2, Part
        <5>4. Len(z) = Len(addr) /\ \A i \in 1..Len(z) : z[i] = addr[i]
          BY ONLY <1>0, <3>5, <5>3
        <5> QED
          BY ONLY <1>1, <5>1, <5>3, <5>4, SeqEqual
      <4>3. ntohs(SubSeq(d, a + n + 1, a + n + 2)) = port
        <5>1. PICK j, q : j = a + n /\ q = SubSeq(d, j + 1, j + 2)
          OBVIOUS
        <5>2. j \in Nat /\ 2 \in Nat /\ j + 2 <= Len(d) /\ d \in Seq(Int)
          <6>1. j \in Nat /\ j + 2 <= size
            BY ONLY <1>a, <3>5, <5>1
          <6>2. d \in Seq(Int) /\ Len(d) = size
            BY <1>0
          <6> QED
            BY ONLY <6>1, <6>2
        <5>3. \A i \in 1..2 : SubSeq(d, j + 1, j + 2)[i] = d[j + i]
          BY ONLY <5>2, Part
        <5>4. 1 \in 1..2 /\ 2 \in 1..2
          OBVIOUS
        <5>5. q[1] = d[a + n + 1] /\ q[2] = d[a + n + 2]
          BY ONLY <5>1, <5>3, <5>4
        <5>6. Joined(d[a + n + 1], d[a + n + 2]) = port
          BY ONLY <1>0, <3>5
        <5>7. ntohs(q) = Joined(q[1], q[2])
          BY ONLY Zenon DEF ntohs, Joined
        <5> QED
          BY ONLY <5>1, <5>5, <5>6, <5>7
      <4> QED
        BY ONLY <2>1, <3>1, <3>5, <4>1, <4>2, <4>3
    <3>6. frag # 0 \/ n \notin 1..16 \/ size < a + n + 2 \/
            (frag = 0 /\ n \in 1..16 /\ size >= a + n + 2)
      <4>1. size < a + n + 2 \/ size >= a + n + 2
        BY ONLY <1>a
      <4> QED
        BY ONLY <4>1
    <3> QED
      BY <3>2, <3>3, <3>4, <3>5, <3>6
  <2> QED
    BY <2>2, <2>3
<1>8. size < 4 \/ size >= 4
  BY ONLY <1>0
<1> QED
  BY <1>6, <1>7, <1>8

(* A cut of a datagram that begins with a header has what is left of it.    *)
LEMMA CutHeader ==
  ASSUME NEW frag \in {0, 1}, NEW atyp, NEW addr, Encodable(atyp, addr),
         NEW port \in Word, NEW x, x = socks5_build_udp_header(atyp, addr, port, frag),
         NEW y, y = x \o <<1, 2>>, NEW n, n = Len(addr), NEW a, a = Start(atyp),
         NEW size \in Nat, size <= Len(y), NEW d, d = SubSeq(y, 1, size)
  PROVE  HasHeader(d, size, frag, atyp, addr, port, n, a)
<1>1. PICK h : h = <<0, 0, frag>>
  OBVIOUS
<1>2. h \in Seq(Int) /\ Len(h) = 3 /\ h[3] = frag
  BY <1>1, Octets3
<1>3. /\ x \in Seq(Int) /\ n \in Nat /\ a \in Nat /\ Len(x) = a + n + 2
      /\ x[3] = frag /\ x[4] = atyp
      /\ atyp = DOMAINNAME => x[5] = n
      /\ \A i \in 1..n : x[a + i] = addr[i]
      /\ Joined(x[a + n + 1], x[a + n + 2]) = port
  <2>1. x = Layout(h, atyp, addr, port)
    BY <1>1 DEF socks5_build_udp_header
  <2>2. h \in Seq(Int) /\ Len(h) = 3 /\ Encodable(atyp, addr) /\ port \in Word
    BY <1>2
  <2>3. n = Len(addr) /\ a = Start(atyp)
    OBVIOUS
  <2>4. LaidOut(x, h, atyp, addr, port, n, a)
    BY ONLY <2>1, <2>2, <2>3, LayoutFacts
  <2> QED
    BY <1>2, <2>4 DEF LaidOut
<1>4. a \in {4, 5} /\ (atyp = DOMAINNAME => a = 5)
  BY DEF Start
<1>5. PICK e, l : e = <<1, 2>> /\ l = a + n + 2
  OBVIOUS
<1>6. y \in Seq(Int) /\ Len(y) = l + 2 /\ \A i \in 1..l : y[i] = x[i]
  <2>1. PICK k : k = 2
    OBVIOUS
  <2>2. x \in Seq(Int) /\ e \in Seq(Int) /\ l = Len(x) /\ k = Len(e) /\ y = x \o e
    BY <1>3, <1>5, <2>1, Octets2
  <2>3. y \in Seq(Int) /\ Len(y) = l + k /\ \A i \in 1..l : y[i] = x[i]
    BY ONLY <2>2, Cat
  <2> QED
    BY ONLY <2>1, <2>3
<1>7. d \in Seq(Int) /\ Len(d) = size /\ \A i \in 1..size : d[i] = y[i]
  <2>1. 0 \in Nat /\ 0 + size <= Len(y)
    OBVIOUS
  <2>2. PICK c : c = SubSeq(y, 0 + 1, 0 + size)
    OBVIOUS
  <2>3. y \in Seq(Int) /\ 0 \in Nat /\ size \in Nat /\ 0 + size <= Len(y)
    BY <1>6, <2>1
  <2>4. c \in Seq(Int) /\ Len(c) = size /\ \A i \in 1..size : c[i] = y[0 + i]
    BY ONLY <2>2, <2>3, Part
  <2>5. 0 + 1 = 1 /\ 0 + size = size /\ \A i \in 1..size : 0 + i = i
    OBVIOUS
  <2> QED
    BY <2>2, <2>4, <2>5
<1>8. n \in Nat /\ l = a + n + 2 /\ size \in Nat
  BY <1>3, <1>5
<1>9. size >= 4 => d[3] = frag /\ d[4] = atyp
  <2>1. size >= 4 => 3 \in 1..size /\ 4 \in 1..size /\ 3 \in 1..l /\ 4 \in 1..l
    BY ONLY <1>4, <1>8
  <2>2. size >= 4 => d[3] = x[3] /\ d[4] = x[4]
    BY ONLY <1>6, <1>7, <2>1
  <2>3. x[3] = frag /\ x[4] = atyp
    BY <1>3
  <2> QED
    BY ONLY <2>2, <2>3
<1>10. size >= 5 /\ atyp = DOMAINNAME => d[5] = n
  <2>1. size >= 5 /\ atyp = DOMAINNAME => 5 \in 1..size /\ 5 \in 1..l
    BY ONLY <1>4, <1>8
  <2> QED
    BY ONLY <1>3, <1>6, <1>7, <2>1
<1>11. size >= a + n + 2 => /\ \A i \in 1..n : d[a + i] = addr[i]
                            /\ Joined(d[a + n + 1], d[a + n + 2]) = port
  <2> SUFFICES ASSUME size >= a + n + 2
               PROVE  /\ \A i \in 1..n : d[a + i] = addr[i]
                      /\ Joined(d[a + n + 1], d[a + n + 2]) = port
    OBVIOUS
  <2>0. size >= a + n + 2
    OBVIOUS
  <2>1. /\ \A i \in 1..n : a + i \in 1..size /\ a + i \in 1..l
        /\ a + n + 1 \in 1..size /\ a + n + 1 \in 1..l
        /\ a + n + 2 \in 1..size /\ a + n + 2 \in 1..l
    BY ONLY <1>4, <1>8, <2>0
  <2>2. \A i \in 1..n : d[a + i] = addr[i]
    BY ONLY <1>3, <1>6, <1>7, <2>1
  <2>3. d[a + n + 1] = x[a + n + 1] /\ d[a + n + 2] = x[a + n + 2]
    BY ONLY <1>6, <1>7, <2>1
  <2> QED
    BY <1>3, <2>2, <2>3
<1> QED
  BY <1>3, <1>7, <1>9, <1>10, <1>11 DEF HasHeader

HeaderOf(A, frag) == socks5_build_udp_header(A.atyp, A.addr, A.port, frag)

CutReadsBack(A, frag, size) ==
  LET x == HeaderOf(A, frag) IN
  socks5_parse_udp_header(SubSeq(x \o <<1, 2>>, 1, size)) =
    IF (frag = 0 /\ Len(A.addr) \in 1..16) /\ size >= Len(x)
      THEN {[atyp |-> A.atyp, addr |-> A.addr, port |-> A.port,
             header_size |-> Len(x)]}
      ELSE {}

(* A header for the address that was asked for is read back as it was       *)
(* written, and no part of one is ever read as a whole, for names of every  *)
(* length (socks5.hpp 395-409).                                             *)
THEOREM HeadersReadBack == SocksSpec => []HeadersRoundTrip
<1>1. SocksInv => HeadersRoundTrip
  <2> SUFFICES ASSUME SocksInv, talk.pc # "idle" PROVE HeadersRoundTrip
    BY DEF HeadersRoundTrip
  <2> SUFFICES ASSUME NEW frag \in {0, 1},
                      HeaderOf(talk.asked, frag) # Nothing,
                      NEW size \in {0, 3, 4, 5, Len(HeaderOf(talk.asked, frag)) - 1,
                                    Len(HeaderOf(talk.asked, frag)),
                                    Len(HeaderOf(talk.asked, frag) \o <<1, 2>>)}
               PROVE  CutReadsBack(talk.asked, frag, size)
    BY DEF HeadersRoundTrip, HeaderOf, CutReadsBack
  <2>a. PICK A : A = talk.asked
    OBVIOUS
  <2>b. PICK x : x = HeaderOf(A, frag)
    OBVIOUS
  <2>c. PICK y : y = x \o <<1, 2>>
    OBVIOUS
  <2>d. x # Nothing /\ size \in {0, 3, 4, 5, Len(x) - 1, Len(x), Len(y)}
    BY <2>a, <2>b, <2>c
  <2>1. PICK atyp, addr, port : atyp = A.atyp /\ addr = A.addr /\ port = A.port
    OBVIOUS
  <2>2. Askable(atyp, addr) /\ port \in Word
    BY <2>1, <2>a DEF SocksInv, AskInv, IsAsk
  <2>3. x = socks5_build_udp_header(atyp, addr, port, frag)
    BY <2>1, <2>b DEF HeaderOf
  <2>4. Encodable(atyp, addr)
    <3>1. CASE atyp = DOMAINNAME /\ Len(addr) \notin 1..255
      <4>1. socks5_write_atyp_addr(atyp, addr) = Nothing
        BY <3>1 DEF socks5_write_atyp_addr, IPV4, IPV6, DOMAINNAME
      <4> QED
        BY <2>3, <2>d, <4>1 DEF socks5_build_udp_header, Layout
    <3> QED
      BY <2>2, <3>1 DEF Askable
  <2>5. PICK n, a : n = Len(addr) /\ a = Start(atyp)
    OBVIOUS
  <2>6. Len(x) = a + n + 2 /\ Len(y) = a + n + 4 /\ n \in Nat /\ a \in {4, 5}
    <3>1. x \in Seq(Int) /\ Len(x) = a + n + 2
      <4>1. PICK h : h = <<0, 0, frag>>
        OBVIOUS
      <4>2. h \in Seq(Int) /\ Len(h) = 3
        BY <4>1, Octets3
      <4>3. x = Layout(h, atyp, addr, port)
        BY <2>3, <4>1 DEF socks5_build_udp_header
      <4>4. LaidOut(x, h, atyp, addr, port, n, a)
        BY ONLY <2>2, <2>4, <2>5, <4>2, <4>3, LayoutFacts
      <4> QED
        BY ONLY <4>4 DEF LaidOut
    <3>2. n \in Nat /\ a \in {4, 5}
      BY <2>4, <2>5, LenProperties DEF Encodable, Start
    <3>3. Len(y) = a + n + 4
      <4>1. PICK e, l, k : e = <<1, 2>> /\ l = a + n + 2 /\ k = 2
        OBVIOUS
      <4>2. e \in Seq(Int) /\ k = Len(e) /\ y = x \o e
        BY <2>c, <4>1, Octets2
      <4>3. x \in Seq(Int) /\ l = Len(x)
        BY ONLY <3>1, <4>1
      <4>4. Len(y) = l + k
        BY ONLY <4>2, <4>3, Cat
      <4>5. l + k = a + n + 4
        BY ONLY <3>2, <4>1
      <4> QED
        BY ONLY <4>4, <4>5
    <3> QED
      BY ONLY <3>1, <3>2, <3>3
  <2>7. size \in Nat /\ size <= Len(y)
    <3>1. PICK l, k : l = Len(x) /\ k = Len(y)
      OBVIOUS
    <3>2. size \in {0, 3, 4, 5, l - 1, l, k}
      BY <2>d, <3>1
    <3>3. l = a + n + 2 /\ k = a + n + 4 /\ n \in Nat /\ a \in {4, 5}
      BY <2>6, <3>1
    <3>4. size \in Nat /\ size <= k
      BY ONLY <3>2, <3>3
    <3> QED
      BY <3>1, <3>4
  <2>8. PICK d : d = SubSeq(y, 1, size)
    OBVIOUS
  <2>9. frag \in {0, 1} /\ y = x \o <<1, 2>>
    BY <2>c
  <2>10. HasHeader(d, size, frag, atyp, addr, port, n, a)
    BY ONLY <2>2, <2>3, <2>4, <2>5, <2>7, <2>8, <2>9, CutHeader
  <2>11. socks5_parse_udp_header(d) =
           IF frag = 0 /\ n \in 1..16 /\ size >= a + n + 2
             THEN {[atyp |-> atyp, addr |-> addr, port |-> port,
                    header_size |-> a + n + 2]}
             ELSE {}
    BY ONLY <2>10, Parsed
  <2>12. Len(x) = a + n + 2
    BY <2>6
  <2>13. CutReadsBack(A, frag, size)
    BY ONLY <2>1, <2>5, <2>8, <2>9, <2>11, <2>12, <2>b DEF CutReadsBack
  <2> QED
    BY ONLY <2>13, <2>a
<1> QED
  BY <1>1, SocksAlways, PTL

=============================================================================
