--------------------------- MODULE FrontEndProofs ---------------------------
(***************************************************************************)
(* No configuration is missed and no address is paired with another        *)
(* click's login, for every number of setter calls and sessions and every  *)
(* content of the boxes.                                                   *)
(***************************************************************************)
EXTENDS FrontEnd, SequenceTheorems, TLAPS

(* NothingMissed is not inductive: what a session will have been told once  *)
(* nothing is posted depends on what is posted now.  The last thing posted  *)
(* is the current configuration, and the answer that process() took is the  *)
(* current one as long as nothing was posted after it.                      *)
PushInv ==
  /\ config \in Nat /\ answer \in Nat /\ spawned \in Seq(Nat)
  /\ hello \in {"none", "open", "config", "write", "done"}
  /\ registered \in BOOLEAN
  /\ registered <=> hello \in {"config", "write", "done"}
  /\ ~registered => spawned = <<>>
  /\ spawned # <<>> => spawned[Len(spawned)] = config
  /\ hello = "write" /\ spawned = <<>> => answer = config
  /\ NothingMissed

(* The last of what is posted stays the last until it is the only one.      *)
LEMMA TailKeepsLast ==
  ASSUME NEW S, NEW s \in Seq(S), s # <<>>
  PROVE  /\ Tail(s) \in Seq(S)
         /\ Tail(s) = <<>> => Head(s) = s[Len(s)]
         /\ Tail(s) # <<>> => Tail(s)[Len(Tail(s))] = s[Len(s)]
<1> DEFINE t == Tail(s)
<1>1. /\ Len(s) \in Nat \ {0} /\ t \in Seq(S) /\ Len(t) = Len(s) - 1
      /\ Head(s) = s[1] /\ \A i \in 1..Len(t) : t[i] = s[i + 1]
  OBVIOUS
<1> HIDE DEF t
<1>2. t = <<>> => Len(t) = 0
  BY EmptySeq
<1>3. t # <<>> => Len(t) \in 1..Len(t)
  BY <1>1, EmptySeq
<1>4. t = <<>> => Head(s) = s[Len(s)]
  BY <1>1, <1>2
<1>5. t # <<>> => t[Len(t)] = s[Len(s)]
  BY <1>1, <1>3
<1> QED
  BY <1>1, <1>4, <1>5 DEF t

(* What is appended is the last.                                            *)
LEMMA AppendLast ==
  ASSUME NEW S, NEW s \in Seq(S), NEW x \in S
  PROVE  /\ Append(s, x) \in Seq(S) /\ Append(s, x) # <<>>
         /\ Len(Append(s, x)) = Len(s) + 1 /\ Len(s) \in Nat
         /\ Append(s, x)[Len(Append(s, x))] = x
  OBVIOUS

(* Every step of the setters, the push and the hello keeps PushInv.         *)
LEMMA PushStep ==
  ASSUME PushInv, [PushNext]_vars
  PROVE  PushInv'
<1> USE DEF PushInv, NothingMissed
<1>1. CASE Set
  <2>1. config + 1 \in Nat
    OBVIOUS
  <2>2. CASE registered
    BY <1>1, <2>1, <2>2, AppendLast DEF Set
  <2>3. CASE ~registered
    BY <1>1, <2>1, <2>3 DEF Set
  <2> QED
    BY <2>2, <2>3
<1>2. CASE Accept
  BY <1>2 DEF Accept
<1>3. CASE OpenThenAnswer
  BY <1>3 DEF OpenThenAnswer
<1>4. CASE Answer
  BY <1>4 DEF Answer, BeginMessage
<1>5. CASE RunConfig
  BY <1>5, TailKeepsLast DEF RunConfig, BeginMessage, IoFree
<1>6. CASE WriteCompletes
  BY <1>6 DEF WriteCompletes
<1>7. CASE Lose
  <2>1. spawned' \in Seq(Nat) /\ spawned' = <<>>
    BY <1>7 DEF Lose
  <2> QED
    BY <1>7, <2>1 DEF Lose
<1>8. CASE UNCHANGED vars
  BY <1>8 DEF vars
<1> QED
  BY <1>1, <1>2, <1>3, <1>4, <1>5, <1>6, <1>7, <1>8 DEF PushNext, IoThread

(* PushInv holds throughout.                                                *)
LEMMA PushInductive == PushSpec => []PushInv
<1>1. PushInit => PushInv
  <2> SUFFICES ASSUME PushInit PROVE PushInv
    OBVIOUS
  <2>1. spawned \in Seq(Nat) /\ spawned = <<>>
    BY DEF PushInit
  <2> QED
    BY <2>1 DEF PushInit, PushInv, NothingMissed
<1>2. PushInv /\ [PushNext]_vars => PushInv'
  BY PushStep
<1> QED
  BY <1>1, <1>2, PTL DEF PushSpec

(* Whatever the front end does to the server is one of its setters.         *)
LEMMA FrontIsPush == FrontSpec => PushSpec
<1>1. FrontInit => PushInit
  BY DEF FrontInit
<1>2. [FrontNext]_allVars => [PushNext]_vars
  BY DEF FrontNext, Refuse, ClickOn, SetProxy, SetLogin, ClickOff, ClickLog, Setter,
     set_proxy_credentials, clear_proxy_credentials, PushNext, allVars, vars
<1> QED
  BY <1>1, <1>2, PTL DEF FrontSpec, PushSpec

(* A session that was answered, with nothing posted for it any more, was    *)
(* last handed the current configuration (server.hpp, open() before         *)
(* get_config(), and broadcast_config() under config_mutex).                *)
THEOREM NoneIsMissed == PushSpec => []NothingMissed
<1>1. PushInv => NothingMissed
  BY DEF PushInv
<1> QED
  BY <1>1, PushInductive, PTL

-----------------------------------------------------------------------------
Addresses == SUBSET [host : Hosts \cup Others, port : Ports]
UserSets  == SUBSET Users
PassSets  == SUBSET Passwords
Settings  == [addr : Addresses, username : UserSets, password : PassSets,
              log : BOOLEAN]

(* The fields of the settings.                                              *)
LEMMA SettingsFacts ==
  ASSUME NEW f \in Settings
  PROVE  /\ f.addr \in Addresses /\ f.username \in UserSets
         /\ f.password \in PassSets /\ f.log \in BOOLEAN
  BY DEF Settings

(* The address and the login that the boxes b ask for.                      *)
AddressOf(b) == {[host |-> b.addr, port |-> port_value(b.port)]}
LoginIs(f, b) ==
  /\ f.username = Opt(b.user)
  /\ b.user = "" => f.password = {}
  /\ b.user # "" /\ b.pass # "" => f.password = {b.pass}

(* Every setter call leaves a version, and the last of them is as far as    *)
(* the handler has come.                                                    *)
FrontInv ==
  /\ versions \in Seq(Settings) /\ Len(versions) = config + 1
  /\ toggle \in BOOLEAN
  /\ click.pc \in {"idle", "proxy", "login"}
  /\ click = [pc |-> click.pc, refused |-> click.refused, boxes |-> click.boxes]
  /\ click.pc # "idle" => toggle
  /\ toggle => click.boxes \in Boxes /\ ~refused(click.boxes)
  /\ click.pc = "login" => fields.addr = AddressOf(click.boxes)
  /\ Idle /\ toggle => /\ fields.addr = AddressOf(click.boxes)
                       /\ LoginIs(fields, click.boxes)
  /\ ~toggle => fields.addr = {}

(* What a click may send has a port that two octets hold.                   *)
LEMMA AcceptedAddress ==
  ASSUME NEW b \in Boxes, ~refused(b)
  PROVE  /\ AddressOf(b) \in Addresses
         /\ Opt(b.user) \in UserSets /\ Opt(b.pass) \in PassSets
<1>1. /\ b.addr \in Hosts \cup Others /\ b.user \in Users /\ b.pass \in Passwords
  BY DEF Boxes
<1>2. port_value(b.port) \in Ports
  BY DEF refused, bad_port
<1>3. AddressOf(b) \in Addresses
  BY <1>1, <1>2 DEF AddressOf, Addresses
<1> QED
  BY <1>1, <1>3 DEF Opt, UserSets, PassSets

(* A setter adds a version.                                                 *)
LEMMA SetterFacts ==
  ASSUME FrontInv, config \in Nat, NEW new \in Settings, Setter(new)
  PROVE  /\ versions' \in Seq(Settings) /\ Len(versions') = config' + 1
         /\ fields' = new
  BY AppendLast DEF FrontInv, Setter, Set, fields

(* Every step of the panel and of the sessions keeps FrontInv.              *)
LEMMA FrontStep ==
  ASSUME FrontInv, config \in Nat, [FrontNext]_allVars
  PROVE  FrontInv'
<1>1. /\ versions \in Seq(Settings) /\ Len(versions) = config + 1
      /\ toggle \in BOOLEAN /\ fields \in Settings
  BY DEF FrontInv, fields
<1>2. CASE Refuse
  <2>1. /\ click' = [pc |-> "idle", refused |-> TRUE, boxes |-> NoClick.boxes]
        /\ UNCHANGED <<config, versions, toggle>> /\ ~toggle
    BY <1>2 DEF Refuse, NoClick, vars
  <2> QED
    BY <1>1, <2>1 DEF FrontInv, fields, Idle
<1>3. ASSUME NEW b \in Boxes, ClickOn(b)
      PROVE  FrontInv'
  <2>1. /\ click' = [pc |-> "proxy", refused |-> FALSE, boxes |-> b]
        /\ UNCHANGED <<config, versions>> /\ toggle' = TRUE /\ ~refused(b)
    BY <1>3 DEF ClickOn, vars
  <2> QED
    BY <1>1, <2>1 DEF FrontInv, fields, Idle
<1>4. CASE SetProxy
  <2> DEFINE b == click.boxes
  <2>1. /\ click.pc = "proxy" /\ toggle /\ b \in Boxes /\ ~refused(b)
    BY <1>4 DEF SetProxy, FrontInv
  <2>0. PICK new : new = [fields EXCEPT !.addr = AddressOf(b)]
    OBVIOUS
  <2>2. Setter(new) /\ UNCHANGED toggle /\ click' = [click EXCEPT !.pc = "login"]
    BY <1>4, <2>0 DEF SetProxy, AddressOf
  <2>3. new \in Settings /\ new.addr = AddressOf(b)
    <3>1. AddressOf(b) \in Addresses
      BY <2>1, AcceptedAddress
    <3> QED
      BY <1>1, <2>0, <3>1 DEF Settings
  <2>4. click'.pc = "login" /\ click'.boxes = b
        /\ click' = [pc |-> "login", refused |-> click.refused, boxes |-> b]
    BY <2>2 DEF FrontInv
  <2>5. /\ versions' \in Seq(Settings) /\ Len(versions') = config' + 1
        /\ fields' = new
    BY <2>2, <2>3, SetterFacts
  <2> QED
    BY <1>1, <2>1, <2>2, <2>3, <2>4, <2>5 DEF FrontInv, Idle
<1>5. CASE SetLogin
  <2> DEFINE b == click.boxes
  <2>1. /\ click.pc = "login" /\ toggle /\ b \in Boxes /\ ~refused(b)
        /\ fields.addr = AddressOf(b)
    BY <1>5 DEF SetLogin, FrontInv
  <2>2. click'.pc = "idle" /\ click'.boxes = b /\ UNCHANGED toggle
        /\ click' = [pc |-> "idle", refused |-> click.refused, boxes |-> b]
    BY <1>5 DEF SetLogin, FrontInv
  <2>3. PICK new \in Settings : /\ Setter(new) /\ new.addr = fields.addr
                                /\ LoginIs(new, b)
    <3>1. Opt(b.user) \in UserSets /\ Opt(b.pass) \in PassSets
      BY <2>1, AcceptedAddress
    <3>2. fields.password \in PassSets
      BY <1>1, SettingsFacts
    <3>3. CASE b.user = ""
      <4>1. PICK g : g = [fields EXCEPT !.username = {}, !.password = {}]
        OBVIOUS
      <4>2. Setter(g)
        BY <1>5, <3>3, <4>1 DEF SetLogin, clear_proxy_credentials
      <4>3. {} \in UserSets /\ {} \in PassSets
        BY DEF UserSets, PassSets
      <4>4. g \in Settings /\ g.addr = fields.addr /\ g.username = {} /\ g.password = {}
        BY <1>1, <4>1, <4>3 DEF Settings
      <4> QED
        BY <3>3, <4>2, <4>4 DEF LoginIs, Opt
    <3>4. CASE b.user # ""
      <4>1. PICK w : w = IF Opt(b.pass) # {} THEN Opt(b.pass) ELSE fields.password
        OBVIOUS
      <4>2. PICK g : g = [fields EXCEPT !.username = {b.user}, !.password = w]
        OBVIOUS
      <4>3. Setter(g)
        BY <1>5, <3>4, <4>1, <4>2 DEF SetLogin, set_proxy_credentials
      <4>4. /\ w \in PassSets /\ {b.user} \in UserSets
            /\ b.pass # "" => w = {b.pass}
        BY <3>1, <3>2, <3>4, <4>1 DEF Opt
      <4>5. /\ g \in Settings /\ g.addr = fields.addr
            /\ g.username = {b.user} /\ g.password = w
        BY <1>1, <4>2, <4>4 DEF Settings
      <4> QED
        BY <3>4, <4>3, <4>4, <4>5 DEF LoginIs, Opt
    <3> QED
      BY <3>3, <3>4
  <2>4. /\ versions' \in Seq(Settings) /\ Len(versions') = config' + 1
        /\ fields' = new
    BY <2>3, SetterFacts
  <2> QED
    BY <1>1, <2>1, <2>2, <2>3, <2>4 DEF FrontInv, Idle
<1>6. CASE ClickOff
  <2>0. PICK new : new = [fields EXCEPT !.addr = {}]
    OBVIOUS
  <2>1. new \in Settings /\ new.addr = {}
    <3>1. {} \in Addresses
      BY DEF Addresses
    <3> QED
      BY <1>1, <2>0, <3>1 DEF Settings
  <2>2. Setter(new) /\ toggle' = FALSE /\ click' = NoClick
    BY <1>6, <2>0 DEF ClickOff
  <2>3. /\ versions' \in Seq(Settings) /\ Len(versions') = config' + 1
        /\ fields' = new
    BY <2>1, <2>2, SetterFacts
  <2> QED
    BY <2>1, <2>2, <2>3 DEF FrontInv, Idle, NoClick
<1>7. CASE ClickLog
  <2>0. PICK l, new : l = ~fields.log /\ new = [fields EXCEPT !.log = l]
    OBVIOUS
  <2>1. /\ new \in Settings /\ new.addr = fields.addr
        /\ new.username = fields.username /\ new.password = fields.password
    <3>1. l \in BOOLEAN
      BY <1>1, <2>0, SettingsFacts
    <3> QED
      BY <1>1, <2>0, <3>1 DEF Settings
  <2>2. Setter(new) /\ UNCHANGED <<toggle, click>>
    BY <1>7, <2>0 DEF ClickLog
  <2>3. /\ versions' \in Seq(Settings) /\ Len(versions') = config' + 1
        /\ fields' = new
    BY <2>1, <2>2, SetterFacts
  <2> QED
    BY <1>1, <2>1, <2>2, <2>3 DEF FrontInv, Idle, LoginIs
<1>8. CASE IoThread /\ UNCHANGED frontVars
  <2>1. UNCHANGED config
    BY <1>8 DEF IoThread, Accept, OpenThenAnswer, Answer, RunConfig, WriteCompletes,
       Lose
  <2> QED
    BY <1>8, <2>1 DEF FrontInv, frontVars, fields, Idle
<1>9. CASE UNCHANGED allVars
  BY <1>9 DEF FrontInv, allVars, frontVars, vars, fields, Idle
<1> QED
  BY <1>2, <1>3, <1>4, <1>5, <1>6, <1>7, <1>8, <1>9 DEF FrontNext

(* A session with nothing left to be sent has the address and the login of  *)
(* the click that the toggle shows, and of no other (server.hpp 378-416,    *)
(* injector_gui.hpp 592-603).                                               *)
THEOREM PairsSettle == FrontSpec => []SettledPair
<1>1. FrontInit => FrontInv
  <2> SUFFICES ASSUME FrontInit PROVE FrontInv
    OBVIOUS
  <2>1. NoSettings \in Settings /\ NoSettings.addr = {}
    <3>1. {} \in Addresses /\ {} \in UserSets /\ {} \in PassSets
      BY DEF Addresses, UserSets, PassSets
    <3> QED
      BY <3>1 DEF NoSettings, Settings
  <2>2. versions = <<NoSettings>> /\ config = 0 /\ toggle = FALSE /\ click = NoClick
    BY DEF FrontInit, PushInit
  <2>3. versions \in Seq(Settings) /\ Len(versions) = 1 /\ fields = NoSettings
    BY <2>1, <2>2 DEF fields
  <2>4. NoClick.pc = "idle"
        /\ NoClick = [pc |-> NoClick.pc, refused |-> NoClick.refused,
                      boxes |-> NoClick.boxes]
    BY DEF NoClick
  <2>5. versions \in Seq(Settings) /\ Len(versions) = config + 1
    BY <2>2, <2>3
  <2>6. toggle = FALSE /\ fields.addr = {} /\ click.pc = "idle"
    BY <2>1, <2>2, <2>3, <2>4
  <2>7. click = [pc |-> click.pc, refused |-> click.refused, boxes |-> click.boxes]
    BY <2>2, <2>4
  <2> QED
    BY <2>5, <2>6, <2>7 DEF FrontInv, Idle
<1>2. FrontInv /\ PushInv /\ [FrontNext]_allVars => FrontInv'
  BY FrontStep DEF PushInv
<1>3. ASSUME FrontInv, PushInv PROVE SettledPair
  <2> SUFFICES ASSUME Idle, hello = "done", spawned = <<>>
               PROVE
    /\ (Handed.addr # {}) = toggle
    /\ \A a \in Handed.addr : a.port \in Ports
    /\ toggle => /\ Handed.addr = AddressOf(click.boxes)
                 /\ LoginIs(Handed, click.boxes)
    BY DEF SettledPair, AddressOf, LoginIs
  <2>1. told = config
    BY <1>3 DEF PushInv, NothingMissed
  <2>2. Handed = fields /\ fields \in Settings
    BY <1>3, <2>1 DEF Handed, fields, FrontInv, PushInv
  <2>3. /\ toggle => fields.addr = AddressOf(click.boxes) /\ LoginIs(fields, click.boxes)
        /\ ~toggle => fields.addr = {}
        /\ toggle \in BOOLEAN
    BY <1>3 DEF FrontInv
  <2>4. AddressOf(click.boxes) # {}
    BY DEF AddressOf
  <2>5. \A a \in fields.addr : a.port \in Ports
    <3>1. fields.addr \in Addresses
      BY <2>2, SettingsFacts
    <3> QED
      BY <3>1 DEF Addresses
  <2>6. (fields.addr # {}) = toggle
    BY <2>3, <2>4
  <2> QED
    BY <2>2, <2>3, <2>5, <2>6
<1> QED
  BY <1>1, <1>2, <1>3, FrontIsPush, PushInductive, PTL DEF FrontSpec
=============================================================================
