------------------------------ MODULE FrontEnd ------------------------------
(***************************************************************************)
(* The proxy panel of the graphical front end: the on_click handlers of    *)
(* src/src/injector/injector_gui.hpp on the window's thread, which read    *)
(* the boxes, refuse what cannot be sent and call injector_server's        *)
(* setters, and with ConfigPush what a session is handed meanwhile.        *)
(*                                                                         *)
(* A box holds a member of a small set; the port is the sequence of its    *)
(* characters, a digit being its value and anything else 10.  A setting    *)
(* that is absent is {}.                                                   *)
(***************************************************************************)
EXTENDS ConfigPush

CONSTANTS Hosts,       \* numeric addresses
          Others,      \* what else the address box may hold
          PortTexts,   \* what the port box may hold
          Users, Passwords,   \* "" is an empty box
          TooLong      \* texts longer than 255 characters

VARIABLES versions,    \* config_ after every setter call, the first being none
          toggle,      \* what the proxy toggle shows
          click        \* the handler in progress, or the last one

frontVars == <<versions, toggle, click>>
allVars   == <<vars, frontVars>>

NoSettings == [addr |-> {}, username |-> {}, password |-> {}, log |-> FALSE]

fields == versions[Len(versions)]

Boxes == [addr : Hosts \cup Others, port : PortTexts, user : Users,
          pass : Passwords]

NoClick == [pc |-> "idle", refused |-> FALSE,
            boxes |-> [addr |-> "", port |-> <<>>, user |-> "", pass |-> ""]]

FrontInit == /\ PushInit
             /\ versions = <<NoSettings>> /\ toggle = FALSE /\ click = NoClick

-----------------------------------------------------------------------------
(* The digits of a port, added up one by one.                               *)
port_value(text) ==
  LET value[i \in 0..Len(text)] ==
        IF i = 0 THEN 0 ELSE value[i - 1] * 10 + text[i]
  IN  value[Len(text)]

Ports == 1..65535   \* what two octets hold, and no zero

bad_port(text) ==
  \/ Len(text) > 5
  \/ \E i \in 1..Len(text) : text[i] > 9
  \/ port_value(text) \notin Ports

(* What the handler refuses: a login that no octet can count, a box that is *)
(* empty, a port that is none, an address that is too long or not numeric.  *)
refused(b) ==
  \/ b.user \in TooLong \/ b.pass \in TooLong
  \/ b.addr = "" \/ b.port = <<>>
  \/ bad_port(b.port)
  \/ b.addr \in TooLong
  \/ b.addr \notin Hosts

(* A setter: the field is written and the result broadcast, under the lock. *)
Setter(new) == Set /\ versions' = Append(versions, new)

Opt(text) == IF text = "" THEN {} ELSE {text}

-----------------------------------------------------------------------------
Idle == click.pc = "idle"

Refuse ==
  /\ Idle /\ ~toggle
  /\ {b \in Boxes : refused(b)} # {}
  /\ click' = [NoClick EXCEPT !.refused = TRUE]
  /\ UNCHANGED <<vars, versions, toggle>>

ClickOn(b) ==
  /\ Idle /\ ~toggle /\ ~refused(b)
  /\ toggle' = TRUE
  /\ click' = [pc |-> "proxy", refused |-> FALSE, boxes |-> b]
  /\ UNCHANGED <<vars, versions>>

(* set_proxy(), and then, as a call of its own, the login.                  *)
SetProxy ==
  /\ click.pc = "proxy"
  /\ Setter([fields EXCEPT !.addr = {[host |-> click.boxes.addr,
                                      port |-> port_value(click.boxes.port)]}])
  /\ click' = [click EXCEPT !.pc = "login"]
  /\ UNCHANGED toggle

(* set_proxy_credentials() leaves what it is not given as it was;           *)
(* clear_proxy_credentials() erases both.                                   *)
set_proxy_credentials(user, pass) ==
  Setter([fields EXCEPT !.username = IF user # {} THEN user ELSE @,
                        !.password = IF pass # {} THEN pass ELSE @])

clear_proxy_credentials ==
  Setter([fields EXCEPT !.username = {}, !.password = {}])

SetLoginKeeps ==   \* mutant: without a username the old login is left alone
  /\ click.pc = "login"
  /\ LET b == click.boxes IN
       set_proxy_credentials(Opt(b.user), Opt(b.pass))
  /\ click' = [click EXCEPT !.pc = "idle"]
  /\ UNCHANGED toggle

SetLogin ==
  /\ click.pc = "login"
  /\ LET b == click.boxes IN
       IF b.user = "" THEN clear_proxy_credentials
                      ELSE set_proxy_credentials({b.user}, Opt(b.pass))
  /\ click' = [click EXCEPT !.pc = "idle"]
  /\ UNCHANGED toggle

(* The toggle is switched off: clear_proxy(), and the login stays.          *)
ClickOff ==
  /\ Idle /\ toggle
  /\ Setter([fields EXCEPT !.addr = {}])
  /\ toggle' = FALSE
  /\ click' = NoClick

(* The other toggles, of which the connection log stands for both.          *)
ClickLog ==
  /\ Idle
  /\ Setter([fields EXCEPT !.log = ~@])
  /\ UNCHANGED <<toggle, click>>

FrontNext ==
  \/ Refuse \/ (\E b \in Boxes : ClickOn(b))
  \/ SetProxy \/ SetLogin \/ ClickOff \/ ClickLog
  \/ IoThread /\ UNCHANGED frontVars

FrontSpec == FrontInit /\ [][FrontNext]_allVars

FairFrontSpec == FrontSpec /\ PushFairness

-----------------------------------------------------------------------------
(* The settings a session was last handed.                                  *)
Handed == versions[told + 1]

(* An address and its login are two setter calls, pushed as two             *)
(* configurations, with sessions coming and going between them.  Once the   *)
(* handler is done and nothing is posted, every session has the address of  *)
(* the click that the toggle shows, together with that click's login and    *)
(* never another's username, or has no proxy when the toggle is off         *)
(* (server.hpp 378-416, injector_gui.hpp 592-603).                          *)
SettledPair ==
  Idle /\ hello = "done" /\ spawned = <<>> =>
    LET b == click.boxes IN
    /\ (Handed.addr # {}) = toggle
    /\ \A a \in Handed.addr : a.port \in Ports   \* what the wire can carry
    /\ toggle => /\ Handed.addr = {[host |-> b.addr, port |-> port_value(b.port)]}
                 /\ Handed.username = Opt(b.user)
                 /\ b.user = "" => Handed.password = {}
                 /\ b.user # "" /\ b.pass # "" => Handed.password = {b.pass}
=============================================================================
