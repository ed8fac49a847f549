------------------------- MODULE ControlServerProofs -------------------------
(***************************************************************************)
(* The control server keeps its table, its record and its tokens straight  *)
(* whatever its two threads interleave, for every number of processes,     *)
(* sessions and tokens and every size of the record.                       *)
(***************************************************************************)
EXTENDS ControlServer, TLAPS

InjectPcs   == {"publish", "load", "injected"}
HelloPcs    == {"insert", "registered", "opened", "children"}
StopPcs     == {"close", "exchange", "remove", "forget", "erase", "hook"}
(* A thread registers the session it works on, or tears it down.            *)
OwnerPcs    == {"insert", "registered", "opened", "remove", "forget", "erase",
                "hook"}
(* The table has that session's entry meanwhile.                            *)
EntryPcs    == {"registered", "opened", "remove", "forget", "erase"}

Owns(t, s) == thread[t].pc \in OwnerPcs /\ thread[t].s = s

(* What a thread's locals are at each place of the code it can be in.       *)
Local(t, th, ses) ==
  /\ th.pc \notin InjectPcs => th.ret = "idle"
  /\ th.pc \in InjectPcs => th.pid \in Pids
  /\ th.ret = "children" => t = "io" /\ th.s \in Sessions
  /\ th.pc \in HelloPcs => t = "io" /\ th.s \in Sessions
  /\ th.pc \in StopPcs =>
       /\ th.s \in Sessions
       /\ th.end = IF t = "io" THEN "lost" ELSE "retired"
       /\ t = "ui" => th.pid \in Pids
  /\ th.pc \in {"insert", "registered", "opened", "remove", "erase"} =>
       th.pid = ses[th.s].pid
  /\ th.pc = "forget" => th.pid \in Pids
  /\ th.s \in Sessions => ses[th.s].sock # "free"

LocalsInv == \A t \in Threads : Local(t, thread[t], session)

(* Where a session stands between its hello and its close.                  *)
SessionInv ==
  \A s \in Sessions :
    /\ session[s].sock # "free" => session[s].pid \in Pids
    /\ session[s].sock = "free" => session[s].hello = "none"
    /\ session[s].sock = "free" \/ session[s].hello = "sent" =>
         /\ ~session[s].opened /\ closes[s] = 0
         /\ \A p \in Pids : clients[p] # s
         /\ \A t \in Threads : ~Owns(t, s)
    /\ session[s].opened =>
         /\ clients[session[s].pid] = s /\ closes[s] = 0
         /\ \A t \in Threads : ~Owns(t, s)

(* A session has one owner at a time, its entry is its own, and it is not   *)
(* closed while it is owned.                                                *)
OwnerInv ==
  /\ \A p \in Pids : clients[p] \in Sessions => session[clients[p]].pid = p
  /\ \A t \in Threads :
       thread[t].pc \in OwnerPcs =>
         /\ closes[thread[t].s] = 0
         /\ thread[t].pc \in EntryPcs =>
              clients[session[thread[t].s].pid] = thread[t].s
  /\ \A t, u \in Threads, s \in Sessions : Owns(t, s) /\ Owns(u, s) => t = u

(* A registered pid is in the record only while the io thread is between    *)
(* the two critical sections that settle which of the two it is.            *)
KeptInv ==
  \A i \in DOMAIN kept :
    Registered(kept[i]) =>
      /\ thread["io"].pc \in {"registered", "forget", "erase"}
      /\ thread["io"].s = clients[kept[i]]

TableInv == LocalsInv /\ SessionInv /\ OwnerInv

-----------------------------------------------------------------------------
(* kept_bootstraps: what dropping a pid leaves.                             *)
LEMMA DropFacts ==
  ASSUME NEW p \in Pids, kept \in Seq(Pids),
         \A i, j \in DOMAIN kept : kept[i] = kept[j] => i = j
  PROVE  /\ KeptWithout(p) \in Seq(Pids)
         /\ Len(KeptWithout(p)) <= Len(kept)
         /\ \A i \in DOMAIN KeptWithout(p) :
              /\ KeptWithout(p)[i] # p
              /\ \E k \in DOMAIN kept : kept[k] = KeptWithout(p)[i]
         /\ \A i, j \in DOMAIN KeptWithout(p) :
              KeptWithout(p)[i] = KeptWithout(p)[j] => i = j
<1>1. CASE ~\E i \in DOMAIN kept : kept[i] = p
  BY <1>1 DEF KeptWithout
<1>2. CASE \E i \in DOMAIN kept : kept[i] = p
  <2> DEFINE n == CHOOSE i \in DOMAIN kept : kept[i] = p
             out == KeptWithout(p)
  <2>1. n \in 1..Len(kept) /\ kept[n] = p
    BY <1>2
  <2>2. out = SubSeq(kept, 1, n - 1) \o SubSeq(kept, n + 1, Len(kept))
    BY <1>2 DEF KeptWithout, RemoveAt
  <2> HIDE DEF n, out
  <2>3. /\ out \in Seq(Pids) /\ Len(out) = Len(kept) - 1
        /\ \A i \in 1..Len(out) : out[i] = IF i < n THEN kept[i] ELSE kept[i + 1]
    <3> DEFINE a == SubSeq(kept, 1, n - 1)
               b == SubSeq(kept, n + 1, Len(kept))
    <3>1. /\ a \in Seq(Pids) /\ Len(a) = n - 1
          /\ \A i \in 1..(n - 1) : a[i] = kept[i]
      BY <2>1
    <3>2. /\ b \in Seq(Pids) /\ Len(b) = Len(kept) - n
          /\ \A i \in 1..(Len(kept) - n) : b[i] = kept[n + i]
      BY <2>1
    <3> HIDE DEF a, b
    <3>3. out = a \o b
      BY <2>2 DEF a, b
    <3>4. out \in Seq(Pids) /\ Len(out) = Len(kept) - 1
      BY <2>1, <3>1, <3>2, <3>3
    <3>5. ASSUME NEW i \in 1..Len(out)
          PROVE  out[i] = IF i < n THEN kept[i] ELSE kept[i + 1]
      <4>1. CASE i < n
        BY <2>1, <3>1, <3>2, <3>3, <3>4, <4>1
      <4>2. CASE ~(i < n)
        <5>1. out[i] = b[i - (n - 1)] /\ i - (n - 1) \in 1..(Len(kept) - n)
          BY <2>1, <3>1, <3>2, <3>3, <3>4, <4>2
        <5>2. b[i - (n - 1)] = kept[n + (i - (n - 1))]
          BY <3>2, <5>1
        <5> QED
          BY <2>1, <4>2, <5>1, <5>2
      <4> QED
        BY <4>1, <4>2
    <3> QED
      BY <3>4, <3>5
  <2>4. DOMAIN out = 1..Len(out) /\ DOMAIN kept = 1..Len(kept)
    BY <2>3
  <2>5. \A i \in DOMAIN out : out[i] # p /\ \E k \in DOMAIN kept : kept[k] = out[i]
    <3> SUFFICES ASSUME NEW i \in DOMAIN out
                 PROVE  out[i] # p /\ \E k \in DOMAIN kept : kept[k] = out[i]
      OBVIOUS
    <3>1. CASE i < n
      BY <2>1, <2>3, <2>4, <3>1
    <3>2. CASE ~(i < n)
      BY <2>1, <2>3, <2>4, <3>2, SMTT(30)
    <3> QED
      BY <3>1, <3>2
  <2>6. \A i, j \in DOMAIN out : out[i] = out[j] => i = j
    <3> SUFFICES ASSUME NEW i \in DOMAIN out, NEW j \in DOMAIN out, out[i] = out[j]
                 PROVE  i = j
      OBVIOUS
    <3>1. PICK k \in DOMAIN kept : k = (IF i < n THEN i ELSE i + 1) /\ kept[k] = out[i]
      BY <2>1, <2>3, <2>4
    <3>2. PICK l \in DOMAIN kept : l = (IF j < n THEN j ELSE j + 1) /\ kept[l] = out[j]
      BY <2>1, <2>3, <2>4
    <3>3. k = l
      BY <3>1, <3>2
    <3> QED
      BY <2>1, <2>3, <2>4, <3>1, <3>2, <3>3
  <2> QED
    BY <2>3, <2>5, <2>6 DEF out
<1> QED
  BY <1>1, <1>2

(* keep(): the pid is in, the record is no longer than its cap, and the one *)
(* that goes was in it.                                                     *)
LEMMA KeepFacts ==
  ASSUME NEW p \in Pids,
         kept \in Seq(Pids), Len(kept) <= KeptCap,
         \A i, j \in DOMAIN kept : kept[i] = kept[j] => i = j
  PROVE  /\ Keep(p) \in Seq(Pids) /\ Len(Keep(p)) <= KeptCap
         /\ \A i \in DOMAIN Keep(p) :
              Keep(p)[i] = p \/ \E k \in DOMAIN kept : kept[k] = Keep(p)[i]
         /\ \A i, j \in DOMAIN Keep(p) : Keep(p)[i] = Keep(p)[j] => i = j
         /\ Stale(p) \in Pids \cup {NoPid}
<1> DEFINE w == KeptWithout(p)
<1> DEFINE o == Append(w, p)
<1>1. /\ w \in Seq(Pids) /\ Len(w) <= Len(kept)
      /\ \A i \in DOMAIN w : w[i] # p /\ \E k \in DOMAIN kept : kept[k] = w[i]
      /\ \A i, j \in DOMAIN w : w[i] = w[j] => i = j
  BY DropFacts
<1>2. /\ Keep(p) = IF Len(o) <= KeptCap THEN o ELSE Tail(o)
      /\ Stale(p) = IF Len(o) <= KeptCap THEN NoPid ELSE Head(o)
  BY DEF Keep, Stale
<1> HIDE DEF w
<1>3. /\ o \in Seq(Pids) /\ Len(o) = Len(w) + 1 /\ DOMAIN o = 1..Len(o)
      /\ \A i \in 1..Len(w) : o[i] = w[i]
      /\ o[Len(o)] = p /\ DOMAIN w = 1..Len(w) /\ Len(w) \in Nat
  BY <1>1
<1>4. \A i \in DOMAIN o : o[i] = p \/ \E k \in DOMAIN kept : kept[k] = o[i]
  <2> SUFFICES ASSUME NEW i \in DOMAIN o
               PROVE  o[i] = p \/ \E k \in DOMAIN kept : kept[k] = o[i]
    OBVIOUS
  <2>1. i = Len(o) \/ i \in 1..Len(w)
    BY <1>3
  <2> QED
    BY <1>1, <1>3, <2>1
<1>5. \A i, j \in DOMAIN o : o[i] = o[j] => i = j
  <2> SUFFICES ASSUME NEW i \in DOMAIN o, NEW j \in DOMAIN o, o[i] = o[j]
               PROVE  i = j
    OBVIOUS
  <2>1. i \in 1..Len(w) \/ i = Len(o)
    BY <1>3
  <2>2. j \in 1..Len(w) \/ j = Len(o)
    BY <1>3
  <2> QED
    BY <1>1, <1>3, <2>1, <2>2
<1> HIDE DEF o
<1>6. CASE Len(o) <= KeptCap
  BY <1>2, <1>3, <1>4, <1>5, <1>6
<1>7. CASE ~(Len(o) <= KeptCap)
  <2>1. /\ Tail(o) \in Seq(Pids) /\ Len(Tail(o)) = Len(w)
        /\ DOMAIN Tail(o) = 1..Len(w)
        /\ \A i \in 1..Len(w) : Tail(o)[i] = o[i + 1] /\ i + 1 \in DOMAIN o
        /\ Head(o) \in Pids
    BY <1>3
  <2>2. KeptCap \in Nat /\ Len(kept) \in Nat
    BY ServerAssumption DEF ServerAssumption
  <2> QED
    BY <1>1, <1>2, <1>3, <1>4, <1>5, <1>7, <2>1, <2>2
<1> QED
  BY <1>6, <1>7

(* Dropping a pid keeps the record within its bound and without repeats.    *)
LEMMA DropTyped ==
  ASSUME NEW p \in Pids, kept \in Seq(Pids), Len(kept) <= KeptCap,
         \A i, j \in DOMAIN kept : kept[i] = kept[j] => i = j,
         kept' = KeptWithout(p)
  PROVE  /\ kept' \in Seq(Pids) /\ Len(kept') <= KeptCap
         /\ \A i, j \in DOMAIN kept' : kept'[i] = kept'[j] => i = j
<1>1. /\ KeptCap \in Nat /\ Len(kept) \in Nat /\ kept' \in Seq(Pids)
      /\ Len(kept') <= Len(kept)
      /\ \A i, j \in DOMAIN kept' : kept'[i] = kept'[j] => i = j
  BY DropFacts, ServerAssumption DEF ServerAssumption
<1>2. Len(kept') \in Nat
  BY <1>1
<1> QED
  BY <1>1, <1>2

-----------------------------------------------------------------------------
(* The ways in which a step changes a thread's locals, a session and a      *)
(* capsule keep their types.                                                *)
LEMMA ThreadTyped ==
  ASSUME thread \in [Threads -> ThreadRecord], NEW t \in Threads,
         NEW pc \in Places
  PROVE
  LET typed == thread' \in [Threads -> ThreadRecord] IN
  /\ thread' = [thread EXCEPT ![t].pc = pc] => typed
  /\ \A pid \in SomePid :
       /\ thread' = [thread EXCEPT ![t].pc = pc, ![t].pid = pid] => typed
       /\ \A ret \in Returns :
            thread' = [thread EXCEPT ![t].pc = pc, ![t].pid = pid, ![t].ret = ret]
              => typed
  /\ \A token \in Tokens :
       /\ thread' = [thread EXCEPT ![t].pc = pc, ![t].token = token] => typed
       /\ \A pid \in SomePid, ret \in Returns :
            thread' = [thread EXCEPT ![t].pc = pc, ![t].token = token,
                                     ![t].ret = ret, ![t].pid = pid] => typed
  /\ \A s \in SomeSession, pid \in SomePid :
       thread' = [thread EXCEPT ![t].pc = pc, ![t].s = s, ![t].pid = pid] => typed
  /\ \A s \in SomeSession, end \in Ends :
       /\ thread' = [thread EXCEPT ![t].pc = pc, ![t].s = s, ![t].end = end]
            => typed
       /\ \A pid \in SomePid :
            thread' = [thread EXCEPT ![t].pc = pc, ![t].s = s, ![t].end = end,
                                     ![t].pid = pid] => typed
<1> DEFINE typed == thread' \in [Threads -> ThreadRecord]
<1> USE DEF ThreadRecord
<1>1. ASSUME thread' = [thread EXCEPT ![t].pc = pc] PROVE typed
  BY <1>1
<1>2. ASSUME NEW pid \in SomePid, NEW ret \in Returns,
             \/ thread' = [thread EXCEPT ![t].pc = pc, ![t].pid = pid]
             \/ thread' = [thread EXCEPT ![t].pc = pc, ![t].pid = pid, ![t].ret = ret]
      PROVE  typed
  BY <1>2
<1>3. ASSUME NEW token \in Tokens,
             thread' = [thread EXCEPT ![t].pc = pc, ![t].token = token]
      PROVE  typed
  BY <1>3
<1>4. ASSUME NEW token \in Tokens, NEW pid \in SomePid, NEW ret \in Returns,
             thread' = [thread EXCEPT ![t].pc = pc, ![t].token = token,
                                      ![t].ret = ret, ![t].pid = pid]
      PROVE  typed
  BY <1>4, ZenonT(60)
<1>5. ASSUME NEW s \in SomeSession, NEW pid \in SomePid,
             thread' = [thread EXCEPT ![t].pc = pc, ![t].s = s, ![t].pid = pid]
      PROVE  typed
  BY <1>5
<1>6. ASSUME NEW s \in SomeSession, NEW end \in Ends,
             thread' = [thread EXCEPT ![t].pc = pc, ![t].s = s, ![t].end = end]
      PROVE  typed
  BY <1>6
<1>7. ASSUME NEW s \in SomeSession, NEW end \in Ends, NEW pid \in SomePid,
             thread' = [thread EXCEPT ![t].pc = pc, ![t].s = s, ![t].end = end,
                                      ![t].pid = pid]
      PROVE  typed
  BY <1>7, ZenonT(60)
<1> HIDE DEF typed
<1> QED
  BY <1>1, <1>2, <1>3, <1>4, <1>5, <1>6, <1>7 DEF typed

(* The edits that the actions make of a session record keep its type.       *)
LEMMA SessionTyped ==
  ASSUME session \in [Sessions -> SessionRecord], NEW s \in Sessions
  PROVE
  LET typed == session' \in [Sessions -> SessionRecord] IN
  /\ \A sock \in Socks :
       session' = [session EXCEPT ![s].sock = sock] => typed
  /\ \A hello \in Hellos :
       /\ session' = [session EXCEPT ![s].hello = hello] => typed
       /\ session' = [session EXCEPT ![s].reader = FALSE, ![s].hello = hello]
            => typed
       /\ \A sock \in Socks, token \in Tokens, pid \in SomePid :
            session' = [session EXCEPT ![s].sock = sock, ![s].hello = hello,
              ![s].reader = TRUE, ![s].token = token, ![s].pid = pid] => typed
  /\ \A opened \in BOOLEAN :
       session' = [session EXCEPT ![s].opened = opened] => typed
<1> DEFINE typed == session' \in [Sessions -> SessionRecord]
<1> USE DEF SessionRecord
<1>1. ASSUME NEW sock \in Socks, session' = [session EXCEPT ![s].sock = sock]
      PROVE  typed
  BY <1>1
<1>2. ASSUME NEW hello \in Hellos,
             session' = [session EXCEPT ![s].hello = hello]
      PROVE  typed
  BY <1>2
<1>3. ASSUME NEW hello \in Hellos,
             session' = [session EXCEPT ![s].reader = FALSE, ![s].hello = hello]
      PROVE  typed
  BY <1>3
<1>4. ASSUME NEW hello \in Hellos, NEW sock \in Socks,
             NEW token \in Tokens, NEW pid \in SomePid,
             session' = [session EXCEPT ![s].sock = sock, ![s].hello = hello,
               ![s].reader = TRUE, ![s].token = token, ![s].pid = pid]
      PROVE  typed
  <2>1. session[s] \in SessionRecord
    OBVIOUS
  <2>2. PICK r : r = [session[s] EXCEPT !.sock = sock, !.hello = hello,
                        !.reader = TRUE, !.token = token, !.pid = pid]
    OBVIOUS
  <2>3. r \in SessionRecord
    BY <2>1, <2>2
  <2>4. session' = [session EXCEPT ![s] = r]
    BY <1>4, <2>2
  <2> HIDE DEF SessionRecord
  <2> QED
    BY <2>3, <2>4
<1>5. ASSUME NEW opened \in BOOLEAN, session' = [session EXCEPT ![s].opened = opened]
      PROVE  typed
  BY <1>5
<1> HIDE DEF typed
<1> QED
  BY <1>1, <1>2, <1>3, <1>4, <1>5 DEF typed

(* What a step of an injection leaves a thread at, once its call is over.   *)
LEMMA InjectReturnsTyped ==
  ASSUME ServerTypeOK, LocalsInv, NEW t \in Threads, InjectReturns(t)
  PROVE  thread' \in [Threads -> ThreadRecord]
<1>1. /\ thread \in [Threads -> ThreadRecord] /\ session \in [Sessions -> SessionRecord]
      /\ NoToken \in Tokens /\ NoPid \in SomePid
  BY ServerAssumption DEF ServerTypeOK, Tokens, NoToken, SomePid, ServerAssumption
<1>2. thread[t].ret \in Places /\ "idle" \in Returns /\ (thread[t].ret = "children" => thread[t].s \in Sessions)
  BY <1>1 DEF ThreadRecord, Places, Returns, LocalsInv, Local
<1>3. (IF thread[t].ret = "children" THEN session[thread[t].s].pid ELSE NoPid)
        \in SomePid
  BY <1>1, <1>2 DEF SessionRecord
<1> QED
  BY <1>1, <1>2, <1>3, ThreadTyped DEF InjectReturns

(* Every step keeps the types.                                              *)
LEMMA TypeStep ==
  ASSUME ServerTypeOK, LocalsInv, SessionInv, [ServerNext]_vars
  PROVE  ServerTypeOK'
<1>1. /\ tokens \in [Pids -> 0..minted] /\ minted \in 0..MaxMint
      /\ kept \in Seq(Pids) /\ Len(kept) <= KeptCap
      /\ \A i, j \in DOMAIN kept : kept[i] = kept[j] => i = j
      /\ clients \in [Pids -> SomeSession]
      /\ session \in [Sessions -> SessionRecord]
      /\ capsule \in [Pids -> CapsuleRecord] /\ late \subseteq Pids
      /\ thread \in [Threads -> ThreadRecord]
      /\ retired \subseteq Pids /\ revoked \subseteq Pids
      /\ closes \in [Sessions -> Nat] /\ MaxMint \in Nat
  BY ServerAssumption DEF ServerTypeOK, ServerAssumption
<1>2. /\ {"idle", "publish", "load", "injected", "insert", "registered",
          "opened", "children", "close", "exchange", "remove", "forget",
          "erase", "hook"} \subseteq Places
      /\ 0..minted \subseteq Tokens /\ 0 \in Tokens /\ NoPid \in SomePid
      /\ NoSession \in SomeSession /\ Pids \subseteq SomePid
      /\ Sessions \subseteq SomeSession /\ {"lost", "retired", "none"} \subseteq Ends
      /\ {"io", "ui"} \subseteq Threads
      /\ {"none", "sent"} = Hellos /\ {"idle", "children"} = Returns
  BY <1>1 DEF Hellos, Returns, Places, Tokens, SomePid, SomeSession, Ends, Threads
<1>3. ASSUME NEW t \in Threads, NEW p \in Pids, Inject(t, p)
      PROVE  ServerTypeOK'
  <2>1. thread' \in [Threads -> ThreadRecord]
    BY <1>1, <1>2, <1>3, ThreadTyped DEF Inject
  <2> QED
    BY <1>1, <1>3, <2>1 DEF Inject, ServerTypeOK, storeVars, history
<1>4. ASSUME NEW p \in Pids, InjectChild(p)
      PROVE  ServerTypeOK'
  <2>1. thread' \in [Threads -> ThreadRecord]
    BY <1>1, <1>2, <1>4, ThreadTyped DEF InjectChild
  <2> QED
    BY <1>1, <1>4, <2>1 DEF InjectChild, ServerTypeOK, storeVars, history
<1>5. ASSUME NEW t \in Threads, Publish(t)
      PROVE  ServerTypeOK'
  <2>1. thread[t].pid \in Pids
    BY <1>5 DEF LocalsInv, Local, Publish, At, InjectPcs
  <2>2. minted + 1 \in Tokens /\ minted' \in 0..MaxMint /\ 0..minted \subseteq 0..minted'
    BY <1>1, <1>5 DEF Publish, Tokens
  <2>3. thread' \in [Threads -> ThreadRecord]
    BY <1>1, <1>2, <1>5, <2>2, ThreadTyped DEF Publish
  <2>4. tokens' \in [Pids -> 0..minted']
    BY <1>1, <1>5, <2>1, <2>2 DEF Publish
  <2> QED
    BY <1>1, <1>5, <2>1, <2>2, <2>3, <2>4 DEF Publish, ServerTypeOK
<1>6. ASSUME NEW t \in Threads, PublishFails(t)
      PROVE  ServerTypeOK'
  BY <1>1, <1>6, InjectReturnsTyped DEF PublishFails, ServerTypeOK, storeVars, history
<1>7. ASSUME NEW p \in Pids, Attach(p)
      PROVE  capsule' \in [Pids -> CapsuleRecord] /\ revoked' \subseteq Pids
  <2>1. tokens[p] \in Tokens /\ (tokens[p] = NoToken) \in BOOLEAN
    BY <1>1, <1>2
  <2>2. CASE capsule[p].loaded
    BY <1>1, <1>7, <2>2 DEF Attach
  <2>3. CASE ~capsule[p].loaded
    <3>1. PICK k \in Tokens, b \in BOOLEAN :
            capsule' = [capsule EXCEPT ![p].loaded = TRUE, ![p].token = k,
                                       ![p].probing = b]
      BY <1>7, <2>1, <2>3 DEF Attach
    <3>2. capsule' \in [Pids -> CapsuleRecord]
      <4>1. capsule \in [Pids -> CapsuleRecord] /\ capsule[p] \in CapsuleRecord
        BY <1>1
      <4>2. PICK c : c = [capsule[p] EXCEPT !.loaded = TRUE, !.token = k,
                                            !.probing = b]
        OBVIOUS
      <4>3. c \in CapsuleRecord
        BY <4>1, <4>2 DEF CapsuleRecord
      <4>4. capsule' = [capsule EXCEPT ![p] = c]
        BY <3>1, <4>1, <4>2
      <4> QED
        BY <4>1, <4>3, <4>4
    <3> QED
      BY <1>1, <1>7, <2>3, <3>2 DEF Attach
  <2> QED
    BY <2>2, <2>3
<1>8. ASSUME NEW t \in Threads, LoadSucceeds(t)
      PROVE  ServerTypeOK'
  <2>1. thread[t].pid \in Pids
    BY <1>8 DEF LocalsInv, Local, LoadSucceeds, At, InjectPcs
  <2>2. thread' \in [Threads -> ThreadRecord]
    BY <1>1, <1>2, <1>8, ThreadTyped DEF LoadSucceeds, Goto
  <2> QED
    BY <1>1, <1>7, <1>8, <2>1, <2>2 DEF LoadSucceeds, ServerTypeOK, storeVars
<1>9. ASSUME NEW t \in Threads, LoadFails(t)
      PROVE  ServerTypeOK'
  <2>1. thread[t].pid \in Pids
    BY <1>9 DEF LocalsInv, Local, LoadFails, At, InjectPcs
  <2>2. thread' \in [Threads -> ThreadRecord]
    BY <1>9, InjectReturnsTyped DEF LoadFails
  <2>3. tokens' \in [Pids -> 0..minted] /\ revoked' \subseteq Pids
    BY <1>1, <1>9, <2>1 DEF LoadFails, ForgetBootstrap, NoToken
  <2> QED
    BY <1>1, <1>9, <2>1, <2>2, <2>3 DEF LoadFails, ServerTypeOK
<1>10. ASSUME NEW p \in Pids, LateAttach(p)
       PROVE  ServerTypeOK'
  BY <1>1, <1>7, <1>10 DEF LateAttach, ServerTypeOK, storeVars
<1>11. ASSUME NEW p \in Pids, Probe(p)
       PROVE  ServerTypeOK'
  <2>1. PICK k \in Tokens : capsule' = [capsule EXCEPT ![p].token = k, ![p].probing = FALSE]
    BY <1>1, <1>2, <1>11 DEF Probe
  <2>2. capsule' \in [Pids -> CapsuleRecord]
    BY <1>1, <2>1, ZenonT(60) DEF CapsuleRecord
  <2> QED
    BY <1>1, <1>11, <2>2 DEF Probe, ServerTypeOK, storeVars
<1>12. ASSUME NEW t \in Threads, InjectDone(t)
       PROVE  ServerTypeOK'
  <2>1. thread[t].pid \in Pids
    BY <1>12 DEF LocalsInv, Local, InjectDone, At, InjectPcs
  <2>2. thread' \in [Threads -> ThreadRecord]
    BY <1>12, InjectReturnsTyped DEF InjectDone
  <2>3. /\ kept' \in Seq(Pids) /\ Len(kept') <= KeptCap
        /\ \A i, j \in DOMAIN kept' : kept'[i] = kept'[j] => i = j
    BY <1>1, <1>12, <2>1, DropTyped DEF InjectDone
  <2> QED
    BY <1>1, <1>12, <2>2, <2>3 DEF InjectDone, ServerTypeOK, storeVars, history
<1>13. ASSUME NEW p \in Pids, NEW s \in Sessions, Connect(p, s)
       PROVE  ServerTypeOK'
  <2>1. capsule[p].token \in Tokens
    BY <1>1 DEF CapsuleRecord
  <2>2. "open" \in Socks /\ s \in SomeSession /\ p \in SomePid
    BY <1>2 DEF Socks
  <2>3. session' \in [Sessions -> SessionRecord]
    BY <1>1, <1>2, <1>13, <2>1, <2>2, SessionTyped DEF Connect
  <2>4. capsule' \in [Pids -> CapsuleRecord]
    BY <1>1, <1>13, <2>2, ZenonT(60) DEF Connect, CapsuleRecord
  <2> QED
    BY <1>1, <1>13, <2>3, <2>4 DEF Connect, ServerTypeOK, storeVars, history
<1>14. ASSUME NEW s \in Sessions, session' = HangUp(s)
       PROVE  session' \in [Sessions -> SessionRecord]
  <2>1. (IF session[s].sock = "open" THEN "eof" ELSE session[s].sock) \in Socks
    BY <1>1 DEF SessionRecord, Socks
  <2> QED
    BY <1>1, <1>14, <2>1, SessionTyped DEF HangUp
<1>15. ASSUME NEW p \in Pids, CapsuleDrops(p)
       PROVE  ServerTypeOK'
  <2>1. capsule[p].session \in Sessions
    BY <1>1, <1>15 DEF CapsuleDrops, CapsuleRecord, SomeSession
  <2>2. capsule' \in [Pids -> CapsuleRecord]
    BY <1>1, <1>2, <1>15 DEF CapsuleDrops, CapsuleRecord
  <2>3. session' \in [Sessions -> SessionRecord]
    BY <1>14, <1>15, <2>1 DEF CapsuleDrops
  <2> QED
    BY <1>1, <1>15, <2>2, <2>3 DEF CapsuleDrops, ServerTypeOK, storeVars, history
<1>16. ASSUME NEW p \in Pids, CapsuleExits(p)
       PROVE  ServerTypeOK'
  <2>1. NoCapsule \in CapsuleRecord
    BY <1>2 DEF NoCapsule, CapsuleRecord, NoToken
  <2>2. capsule' \in [Pids -> CapsuleRecord]
    BY <1>1, <1>16, <2>1 DEF CapsuleExits
  <2>3. capsule[p].session \in SomeSession
    BY <1>1 DEF CapsuleRecord
  <2>4. session' \in [Sessions -> SessionRecord]
    BY <1>1, <1>14, <1>16, <2>3 DEF CapsuleExits, SomeSession
  <2> QED
    BY <1>1, <1>16, <2>2, <2>4 DEF CapsuleExits, ServerTypeOK, storeVars, history
<1>17. ASSUME NEW s \in Sessions, Hello(s)
       PROVE  ServerTypeOK'
  <2>1. session[s].pid \in SomePid
    BY <1>1 DEF SessionRecord
  <2>2. thread' \in [Threads -> ThreadRecord]
    <3>1. \/ thread' = [thread EXCEPT !["io"].pc = "insert", !["io"].s = s,
                                      !["io"].pid = session[s].pid]
          \/ StartStop("io", s, "lost")
      BY <1>17 DEF Hello
    <3>2. "io" \in Threads /\ s \in SomeSession
      BY <1>2
    <3>3. CASE StartStop("io", s, "lost")
      BY <1>1, <1>2, <3>2, <3>3, ThreadTyped DEF StartStop
    <3>4. CASE thread' = [thread EXCEPT !["io"].pc = "insert", !["io"].s = s,
                                        !["io"].pid = session[s].pid]
      BY <1>1, <1>2, <2>1, <3>2, <3>4, ThreadTyped
    <3> QED
      BY <3>1, <3>3, <3>4
  <2>3. session' \in [Sessions -> SessionRecord]
    BY <1>1, <1>2, <1>17, SessionTyped DEF Hello
  <2> QED
    BY <1>1, <1>17, <2>2, <2>3 DEF Hello, ServerTypeOK, storeVars, history
<1>18. CASE Insert
  <2>1. thread' \in [Threads -> ThreadRecord]
    <3>1. \E pc \in Places : Goto("io", pc)
      BY <1>2, <1>18 DEF Insert
    <3> QED
      BY <1>1, <1>2, <3>1, ThreadTyped DEF Goto
  <2>2. thread["io"].s \in SomeSession
    BY <1>1, <1>2 DEF ThreadRecord
  <2>3. clients' \in [Pids -> SomeSession]
    BY <1>1, <1>18, <2>2 DEF Insert
  <2> QED
    BY <1>1, <1>18, <2>1, <2>3 DEF Insert, ServerTypeOK, storeVars, history
<1>19. CASE OpenDropsKept
  <2>1. thread["io"].pid \in Pids
    BY <1>2, <1>19 DEF LocalsInv, Local, SessionInv, OpenDropsKept, At, HelloPcs
  <2>2. thread' \in [Threads -> ThreadRecord]
    BY <1>1, <1>2, <1>19, ThreadTyped DEF OpenDropsKept, Goto
  <2>3. /\ kept' \in Seq(Pids) /\ Len(kept') <= KeptCap
        /\ \A i, j \in DOMAIN kept' : kept'[i] = kept'[j] => i = j
    BY <1>1, <1>19, <2>1, DropTyped DEF OpenDropsKept
  <2> QED
    BY <1>1, <1>19, <2>2, <2>3 DEF OpenDropsKept, ServerTypeOK, storeVars, history
<1>20. CASE StoreOpened
  <2>1. thread["io"].s \in Sessions
    BY <1>2, <1>20 DEF LocalsInv, Local, StoreOpened, At, HelloPcs
  <2>2. thread' \in [Threads -> ThreadRecord]
    BY <1>1, <1>2, <1>20, ThreadTyped DEF StoreOpened, Goto
  <2>3. session' \in [Sessions -> SessionRecord]
    BY <1>1, <1>20, <2>1, SessionTyped DEF StoreOpened
  <2> QED
    BY <1>1, <1>20, <2>2, <2>3 DEF StoreOpened, ServerTypeOK, storeVars, history
<1>21. ASSUME NEW t \in Threads, Return(t)
       PROVE  thread' \in [Threads -> ThreadRecord]
  <2>1. Idle \in ThreadRecord
    BY <1>2 DEF Idle, ThreadRecord, NoToken
  <2> QED
    BY <1>1, <1>21, <2>1 DEF Return
<1>22. CASE HelloDone
  BY <1>1, <1>2, <1>21, <1>22 DEF HelloDone, ServerTypeOK, storeVars, history
<1>23. ASSUME NEW s \in Sessions, ReaderFails(s)
       PROVE  ServerTypeOK'
  <2>1. thread' \in [Threads -> ThreadRecord]
    BY <1>1, <1>2, <1>23, ThreadTyped DEF ReaderFails, StartStop
  <2>2. session' \in [Sessions -> SessionRecord]
    BY <1>1, <1>2, <1>23, SessionTyped DEF ReaderFails
  <2> QED
    BY <1>1, <1>23, <2>1, <2>2 DEF ReaderFails, ServerTypeOK, storeVars, history
<1>24. ASSUME NEW p \in Pids, Close(p)
       PROVE  ServerTypeOK'
  <2>1. clients[p] \in SomeSession
    BY <1>1
  <2>2. thread' \in [Threads -> ThreadRecord]
    BY <1>1, <1>2, <1>24, <2>1, ThreadTyped DEF Close
  <2> QED
    BY <1>1, <1>24, <2>2 DEF Close, ServerTypeOK, storeVars, history
<1>25. ASSUME NEW t \in Threads, thread[t].pc \in StopPcs, StopReturns(t)
       PROVE  thread' \in [Threads -> ThreadRecord] /\ retired' \subseteq Pids
  <2>1. thread[t].end = "retired" => thread[t].pid \in Pids
    BY <1>25 DEF LocalsInv, Local, Threads
  <2> QED
    BY <1>1, <1>21, <1>25, <2>1 DEF StopReturns
<1>26. ASSUME NEW t \in Threads, thread[t].pc \in StopPcs
       PROVE  thread[t].s \in Sessions /\ session[thread[t].s].pid \in Pids
  BY <1>26 DEF LocalsInv, Local, SessionInv
<1>27. ASSUME NEW t \in Threads, StopCloses(t)
       PROVE  ServerTypeOK'
  <2>1. thread[t].s \in Sessions
    BY <1>26, <1>27 DEF StopCloses, At, StopPcs
  <2>2. thread' \in [Threads -> ThreadRecord]
    BY <1>1, <1>2, <1>27, ThreadTyped DEF StopCloses, Goto
  <2>3. session' \in [Sessions -> SessionRecord]
    BY <1>1, <1>27, <2>1, SessionTyped DEF StopCloses, Socks
  <2>4. ASSUME NEW p \in Pids
        PROVE  [capsule[p] EXCEPT !.session = NoSession] \in CapsuleRecord
    BY <1>1, <1>2 DEF CapsuleRecord
  <2>5. capsule' \in [Pids -> CapsuleRecord]
    BY <1>1, <1>27, <2>4 DEF StopCloses
  <2> QED
    BY <1>1, <1>27, <2>2, <2>3, <2>5 DEF StopCloses, ServerTypeOK, storeVars, history
<1>28. ASSUME NEW t \in Threads, StopExchange(t)
       PROVE  ServerTypeOK'
  <2>1. thread[t].pc \in StopPcs /\ thread[t].s \in Sessions
        /\ session[thread[t].s].pid \in SomePid
    BY <1>2, <1>26, <1>28 DEF StopExchange, At, StopPcs
  <2>2. thread' \in [Threads -> ThreadRecord] /\ retired' \subseteq Pids
    <3>1. CASE session[thread[t].s].opened
      BY <1>1, <1>2, <1>28, <2>1, <3>1, ThreadTyped DEF StopExchange
    <3>2. CASE ~session[thread[t].s].opened
      BY <1>25, <1>28, <2>1, <3>2 DEF StopExchange
    <3> QED
      BY <3>1, <3>2
  <2>3. session' \in [Sessions -> SessionRecord]
    BY <1>1, <1>28, <2>1, SessionTyped DEF StopExchange
  <2> QED
    BY <1>1, <1>28, <2>2, <2>3 DEF StopExchange, ServerTypeOK, storeVars
<1>29. ASSUME NEW t \in Threads, RemoveRetired(t)
       PROVE  ServerTypeOK'
  <2>1. thread[t].pid \in Pids
    BY <1>26, <1>29 DEF LocalsInv, Local, RemoveRetired, At, StopPcs
  <2>2. thread' \in [Threads -> ThreadRecord]
    BY <1>1, <1>2, <1>29, ThreadTyped DEF RemoveRetired, Goto
  <2>3. /\ kept' \in Seq(Pids) /\ Len(kept') <= KeptCap
        /\ \A i, j \in DOMAIN kept' : kept'[i] = kept'[j] => i = j
    BY <1>1, <1>29, <2>1, DropTyped DEF RemoveRetired
  <2> QED
    BY <1>1, <1>29, <2>2, <2>3 DEF RemoveRetired, ServerTypeOK, storeVars, history
<1>30. ASSUME NEW t \in Threads, RemoveLost(t)
       PROVE  ServerTypeOK'
  <2>1. thread[t].pid \in Pids
    BY <1>26, <1>30 DEF LocalsInv, Local, RemoveLost, At, StopPcs
  <2>2. /\ kept' \in Seq(Pids) /\ Len(kept') <= KeptCap
        /\ \A i, j \in DOMAIN kept' : kept'[i] = kept'[j] => i = j
        /\ Stale(thread[t].pid) \in SomePid
    BY <1>1, <1>30, <2>1, KeepFacts DEF RemoveLost, SomePid
  <2>3. thread' \in [Threads -> ThreadRecord]
    <3>1. \/ thread' = [thread EXCEPT ![t].pc = "erase"]
          \/ thread' = [thread EXCEPT ![t].pc = "forget",
                                      ![t].pid = Stale(thread[t].pid)]
      BY <1>30 DEF RemoveLost, Goto
    <3> QED
      BY <1>1, <1>2, <2>2, <3>1, ThreadTyped
  <2> QED
    BY <1>1, <1>30, <2>2, <2>3 DEF RemoveLost, ServerTypeOK, storeVars, history
<1>31. ASSUME NEW t \in Threads, Forget(t)
       PROVE  ServerTypeOK'
  <2>1. thread[t].pid \in Pids /\ session[thread[t].s].pid \in SomePid
    BY <1>2, <1>26, <1>31 DEF LocalsInv, Local, Forget, At, StopPcs
  <2>2. thread' \in [Threads -> ThreadRecord]
    BY <1>1, <1>2, <1>31, <2>1, ThreadTyped DEF Forget
  <2>3. tokens' \in [Pids -> 0..minted]
    BY <1>1, <1>31, <2>1 DEF Forget, NoToken
  <2> QED
    BY <1>1, <1>31, <2>1, <2>2, <2>3 DEF Forget, ServerTypeOK
<1>32. ASSUME NEW t \in Threads, Erase(t)
       PROVE  ServerTypeOK'
  <2>1. thread' \in [Threads -> ThreadRecord]
    BY <1>1, <1>2, <1>32, ThreadTyped DEF Erase, Goto
  <2>2. clients' \in [Pids -> SomeSession]
    BY <1>1, <1>2, <1>32 DEF Erase
  <2> QED
    BY <1>1, <1>32, <2>1, <2>2 DEF Erase, ServerTypeOK, storeVars, history
<1>33. ASSUME NEW t \in Threads, Hook(t)
       PROVE  ServerTypeOK'
  <2>1. thread[t].pc \in StopPcs
    BY <1>33 DEF Hook, At, StopPcs
  <2>2. thread' \in [Threads -> ThreadRecord] /\ retired' \subseteq Pids
    BY <1>25, <1>33, <2>1 DEF Hook
  <2>3. closes' \in [Sessions -> Nat]
    <3>1. thread[t].s \in Sessions /\ closes[thread[t].s] + 1 \in Nat
      BY <1>1, <1>26, <2>1
    <3> QED
      BY <1>1, <1>33, <3>1 DEF Hook
  <2> QED
    BY <1>1, <1>33, <2>2, <2>3 DEF Hook, ServerTypeOK, storeVars
<1>34. CASE UNCHANGED vars
  BY <1>1, <1>34 DEF vars, ServerTypeOK
<1> QED
  BY <1>3, <1>4, <1>5, <1>6, <1>8, <1>9, <1>10, <1>11, <1>12, <1>13, <1>15,
     <1>16, <1>17, <1>18, <1>19, <1>20, <1>22, <1>23, <1>24, <1>27, <1>28,
     <1>29, <1>30, <1>31, <1>32, <1>33, <1>34
     DEF ServerNext, InjectStep, HelloStep, StopStep

-----------------------------------------------------------------------------
(* A step that leaves the table alone, gives no session an owner, a hello   *)
(* or its first socket, and moves one thread, is harmless.                  *)
LEMMA TableKept ==
  ASSUME ServerTypeOK, TableInv, UNCHANGED <<clients, closes>>,
         \A r \in Sessions :
           /\ session'[r].pid = session[r].pid
           /\ session'[r].opened = session[r].opened
           /\ session'[r].sock = "free" <=> session[r].sock = "free"
           /\ session'[r].hello \in {session[r].hello, "none"},
         NEW t \in Threads,
         \A u \in Threads \ {t} : thread'[u] = thread[u],
         Local(t, thread'[t], session'),
         thread'[t].pc \in OwnerPcs =>
           /\ thread[t].pc \in OwnerPcs /\ thread'[t].s = thread[t].s
           /\ thread'[t].pc \in EntryPcs => thread[t].pc \in EntryPcs
  PROVE  TableInv'
<1>1. LocalsInv'
  <2>1. ASSUME NEW u \in Threads, u # t
        PROVE  Local(u, thread'[u], session')
    <3>1. thread'[u] = thread[u] /\ Local(u, thread[u], session)
      BY <2>1 DEF TableInv, LocalsInv
    <3>2. thread[u].pc \in HelloPcs \cup StopPcs => thread[u].s \in Sessions
      BY <3>1 DEF Local
    <3> QED
      BY <3>1, <3>2 DEF Local, HelloPcs, StopPcs
  <2> QED
    BY <2>1 DEF LocalsInv
<1>2. \A u \in Threads : thread[u].pc \in OwnerPcs => thread[u].s \in Sessions
  BY DEF TableInv, LocalsInv, Local, OwnerPcs, HelloPcs, StopPcs
<1>3. \A u \in Threads, r \in Sessions : Owns(u, r)' => Owns(u, r)
  BY DEF Owns
<1>4. SessionInv'
  BY <1>3 DEF TableInv, SessionInv
<1>5. OwnerInv'
  <2>1. \A p \in Pids : clients[p] \in Sessions => session'[clients[p]].pid = p
    BY DEF TableInv, OwnerInv
  <2>2. \A u \in Threads : thread'[u].pc \in OwnerPcs =>
           /\ closes[thread'[u].s] = 0
           /\ thread'[u].pc \in EntryPcs =>
                clients[session'[thread'[u].s].pid] = thread'[u].s
    BY <1>2 DEF TableInv, OwnerInv
  <2> QED
    BY <1>3, <2>1, <2>2 DEF TableInv, OwnerInv
<1> QED
  BY <1>1, <1>4, <1>5 DEF TableInv

(* The inject calls, the ends of handlers, and the capsules' own steps.     *)
LEMMA QuietSteps ==
  ASSUME ServerTypeOK, TableInv,
         \/ \E t \in Threads : InjectStep(t)
         \/ \E t \in Threads, p \in Pids : Inject(t, p)
         \/ \E p \in Pids : InjectChild(p) \/ Close(p)
         \/ OpenDropsKept \/ HelloDone
         \/ \E p \in Pids : LateAttach(p) \/ Probe(p) \/ CapsuleDrops(p)
                            \/ CapsuleExits(p)
         \/ \E s \in Sessions : ReaderFails(s)
         \/ UNCHANGED vars
  PROVE  TableInv'
<1>1. /\ thread \in [Threads -> ThreadRecord] /\ session \in [Sessions -> SessionRecord]
      /\ "io" \in Threads /\ "ui" \in Threads
  BY DEF ServerTypeOK, Threads
<1>2. \A t \in Threads : Local(t, thread[t], session)
  BY DEF TableInv, LocalsInv
<1>3. ASSUME NEW t \in Threads, NEW pc, UNCHANGED <<clients, closes, session>>,
             \/ thread' = [thread EXCEPT ![t].pc = pc]
             \/ \E k : thread' = [thread EXCEPT ![t].pc = pc, ![t].token = k],
             \/ thread[t].pc \in InjectPcs /\ pc \in InjectPcs
             \/ thread[t].pc = "registered" /\ pc = "opened"
      PROVE  TableInv'
  <2>1. /\ thread'[t].pc = pc /\ thread'[t].s = thread[t].s
        /\ thread'[t].pid = thread[t].pid /\ thread'[t].ret = thread[t].ret
        /\ \A u \in Threads \ {t} : thread'[u] = thread[u]
    BY <1>1, <1>3 DEF ThreadRecord
  <2>2. Local(t, thread'[t], session')
    BY <1>2, <1>3, <2>1 DEF Local, InjectPcs, HelloPcs, StopPcs
  <2> QED
    BY <1>3, <2>1, <2>2, TableKept DEF InjectPcs, OwnerPcs, EntryPcs
<1>4. ASSUME NEW t \in Threads, UNCHANGED <<clients, closes, session>>,
             thread[t].pc \in InjectPcs, InjectReturns(t)
      PROVE  TableInv'
  <2>1. /\ thread'[t].pc = thread[t].ret /\ thread'[t].s = thread[t].s
        /\ thread'[t].ret = "idle"
        /\ \A u \in Threads \ {t} : thread'[u] = thread[u]
    BY <1>1, <1>4 DEF ThreadRecord, InjectReturns
  <2>2. thread[t].ret \in {"idle", "children"}
    BY <1>1 DEF ThreadRecord, Returns
  <2>3. Local(t, thread'[t], session')
    BY <1>2, <1>4, <2>1, <2>2 DEF Local, InjectPcs, HelloPcs, StopPcs
  <2> QED
    BY <1>4, <2>1, <2>2, <2>3, TableKept DEF OwnerPcs
<1>5. ASSUME NEW t \in Threads, InjectStep(t)
      PROVE  TableInv'
  <2>1. CASE Publish(t)
    BY <1>3, <2>1 DEF Publish, At, InjectPcs
  <2>2. CASE PublishFails(t)
    BY <1>4, <2>2 DEF PublishFails, At, InjectPcs, history
  <2>3. CASE LoadSucceeds(t)
    BY <1>3, <2>3 DEF LoadSucceeds, At, Goto, InjectPcs
  <2>4. CASE LoadFails(t)
    BY <1>4, <2>4 DEF LoadFails, At, InjectPcs
  <2>5. CASE InjectDone(t)
    BY <1>4, <2>5 DEF InjectDone, At, InjectPcs, history
  <2> QED
    BY <1>5, <2>1, <2>2, <2>3, <2>4, <2>5 DEF InjectStep
<1>6. ASSUME NEW t \in Threads, NEW p \in Pids, Inject(t, p)
      PROVE  TableInv'
  <2>1. /\ thread[t].pc = "idle" /\ thread'[t].pc = "publish"
        /\ thread'[t].s = thread[t].s /\ thread'[t].ret = thread[t].ret
        /\ thread'[t].pid = p
        /\ \A u \in Threads \ {t} : thread'[u] = thread[u]
    BY <1>1, <1>6 DEF ThreadRecord, Inject, At
  <2>2. UNCHANGED <<clients, closes, session>>
    BY <1>6 DEF Inject, history
  <2>3. Local(t, thread'[t], session')
    BY <1>2, <2>1, <2>2 DEF Local, InjectPcs, HelloPcs, StopPcs
  <2> QED
    BY <2>1, <2>2, <2>3, TableKept DEF OwnerPcs
<1>7. ASSUME NEW p \in Pids, InjectChild(p)
      PROVE  TableInv'
  <2>1. /\ thread["io"].pc = "children" /\ thread'["io"].pc = "publish"
        /\ thread'["io"].s = thread["io"].s /\ thread'["io"].ret = "children"
        /\ thread'["io"].pid = p
        /\ \A u \in Threads \ {"io"} : thread'[u] = thread[u]
    BY <1>1, <1>7 DEF ThreadRecord, InjectChild, At
  <2>2. UNCHANGED <<clients, closes, session>>
    BY <1>7 DEF InjectChild, history
  <2>3. Local("io", thread'["io"], session')
    BY <1>1, <1>2, <2>1, <2>2 DEF Local, InjectPcs, HelloPcs, StopPcs
  <2> QED
    BY <1>1, <2>1, <2>2, <2>3, TableKept DEF OwnerPcs
<1>8. ASSUME NEW p \in Pids, Close(p)
      PROVE  TableInv'
  <2>1. /\ thread["ui"].pc = "idle" /\ thread'["ui"].pc = "close"
        /\ thread'["ui"].s = clients[p] /\ thread'["ui"].ret = thread["ui"].ret
        /\ thread'["ui"].pid = p /\ thread'["ui"].end = "retired"
        /\ \A u \in Threads \ {"ui"} : thread'[u] = thread[u]
    <3>1. PICK th : th = [thread["ui"] EXCEPT !.pc = "close", !.s = clients[p],
                                              !.end = "retired", !.pid = p]
      OBVIOUS
    <3>2. thread' = [thread EXCEPT !["ui"] = th] /\ thread["ui"].pc = "idle"
      BY <1>8, <3>1 DEF Close, At
    <3>3. thread["ui"] \in ThreadRecord
      BY <1>1
    <3>4. /\ th.pc = "close" /\ th.s = clients[p] /\ th.end = "retired"
          /\ th.pid = p /\ th.ret = thread["ui"].ret
      BY <3>1, <3>3 DEF ThreadRecord
    <3> QED
      BY <1>1, <3>2, <3>4
  <2>2. UNCHANGED <<clients, closes, session>>
    BY <1>8 DEF Close, history
  <2>3. clients[p] \in Sessions /\ session[clients[p]].sock # "free"
    <3>1. clients[p] \in Sessions
      BY <1>8 DEF Close, Registered, ServerTypeOK, SomeSession
    <3> QED
      BY <3>1 DEF TableInv, SessionInv
  <2>4. Local("ui", thread'["ui"], session')
    BY <1>1, <1>2, <2>1, <2>2, <2>3 DEF Local, InjectPcs, HelloPcs, StopPcs
  <2> QED
    BY <1>1, <2>1, <2>2, <2>4, TableKept DEF OwnerPcs
<1>9. CASE OpenDropsKept
  BY <1>1, <1>3, <1>9 DEF OpenDropsKept, At, Goto, history
<1>10. ASSUME NEW t \in Threads, Return(t)
       PROVE  /\ thread'[t].pc = "idle" /\ \A u \in Threads \ {t} : thread'[u] = thread[u]
              /\ \A ses : Local(t, thread'[t], ses)
  <2>1. thread'[t] = Idle /\ \A u \in Threads \ {t} : thread'[u] = thread[u]
    BY <1>1, <1>10 DEF Return
  <2> QED
    BY <2>1, ServerAssumption
       DEF Idle, Local, InjectPcs, HelloPcs, StopPcs, ServerAssumption
<1>11. CASE HelloDone
  BY <1>1, <1>10, <1>11, TableKept DEF HelloDone, history, OwnerPcs
<1>12. ASSUME NEW s \in Sessions, session' = HangUp(s)
       PROVE  \A r \in Sessions :
                /\ session'[r].pid = session[r].pid
                /\ session'[r].opened = session[r].opened
                /\ session'[r].sock = "free" <=> session[r].sock = "free"
                /\ session'[r].hello = session[r].hello
  BY <1>1, <1>12 DEF HangUp, SessionRecord
<1>13. ASSUME UNCHANGED <<clients, closes, thread>>,
              \A r \in Sessions :
                /\ session'[r].pid = session[r].pid
                /\ session'[r].opened = session[r].opened
                /\ session'[r].sock = "free" <=> session[r].sock = "free"
                /\ session'[r].hello = session[r].hello
       PROVE  TableInv'
  <2>1. Local("io", thread["io"], session')
    <3>1. Local("io", thread["io"], session)
      BY <1>1, <1>2
    <3>2. thread["io"].pc \in HelloPcs \cup StopPcs => thread["io"].s \in Sessions
      BY <3>1 DEF Local
    <3> QED
      BY <1>13, <3>1, <3>2 DEF Local, HelloPcs, StopPcs
  <2> QED
    BY <1>1, <1>13, <2>1, TableKept
<1>14. ASSUME NEW p \in Pids, LateAttach(p) \/ Probe(p) \/ CapsuleDrops(p) \/ CapsuleExits(p)
       PROVE  TableInv'
  <2>1. UNCHANGED <<clients, closes, thread>>
    BY <1>14 DEF LateAttach, Probe, CapsuleDrops, CapsuleExits, history
  <2>2. capsule[p].session # NoSession => capsule[p].session \in Sessions
    BY DEF ServerTypeOK, CapsuleRecord, SomeSession
  <2>3. \/ UNCHANGED session
        \/ capsule[p].session \in Sessions /\ session' = HangUp(capsule[p].session)
    BY <1>14, <2>2 DEF LateAttach, Probe, CapsuleDrops, CapsuleExits
  <2> QED
    BY <1>12, <1>13, <2>1, <2>3
<1>15. ASSUME NEW s \in Sessions, ReaderFails(s)
       PROVE  TableInv'
  <2>1. /\ thread["io"].pc = "idle" /\ thread'["io"].pc = "close"
        /\ thread'["io"].s = s /\ thread'["io"].ret = thread["io"].ret
        /\ thread'["io"].end = "lost"
        /\ \A u \in Threads \ {"io"} : thread'[u] = thread[u]
    BY <1>1, <1>15 DEF ThreadRecord, ReaderFails, StartStop, At
  <2>2. UNCHANGED <<clients, closes>>
    BY <1>15 DEF ReaderFails, history
  <2>3. \A r \in Sessions :
                /\ session'[r].pid = session[r].pid
                /\ session'[r].opened = session[r].opened
                /\ session'[r].sock = session[r].sock
                /\ session'[r].hello \in {session[r].hello, "none"}
    BY <1>1, <1>15 DEF ReaderFails, SessionRecord
  <2>4. session[s].sock # "free"
    BY <1>15 DEF ReaderFails
  <2>5. Local("io", thread'["io"], session')
    BY <1>1, <1>2, <2>1, <2>3, <2>4 DEF Local, InjectPcs, HelloPcs, StopPcs
  <2> QED
    BY <1>1, <2>1, <2>2, <2>3, <2>5, TableKept DEF OwnerPcs
<1>16. CASE UNCHANGED vars
  BY <1>13, <1>16 DEF vars
<1> QED
  BY <1>5, <1>6, <1>7, <1>8, <1>9, <1>11, <1>14, <1>15, <1>16

(* A session gets its socket, its hello its owner, its owner its entry.     *)
LEMMA HelloSteps ==
  ASSUME ServerTypeOK, TableInv,
         \/ \E p \in Pids, s \in Sessions : Connect(p, s)
         \/ \E s \in Sessions : Hello(s)
         \/ Insert \/ StoreOpened
  PROVE  TableInv'
<1>1. /\ thread \in [Threads -> ThreadRecord] /\ session \in [Sessions -> SessionRecord]
      /\ clients \in [Pids -> SomeSession]
      /\ "io" \in Threads /\ "ui" \in Threads /\ Threads = {"io", "ui"}
  BY DEF ServerTypeOK, Threads
<1>2. \A t \in Threads : Local(t, thread[t], session)
  BY DEF TableInv, LocalsInv
<1>3. \A t \in Threads : thread[t].pc \in OwnerPcs => thread[t].s \in Sessions
  BY <1>2 DEF Local, OwnerPcs, HelloPcs, StopPcs
<1>4. ASSUME NEW p \in Pids, NEW s \in Sessions, Connect(p, s)
      PROVE  TableInv'
  <2>1. /\ session[s].sock = "free" /\ session'[s].sock = "open"
        /\ session'[s].hello = "sent" /\ session'[s].pid = p
        /\ session'[s].opened = session[s].opened
        /\ \A r \in Sessions \ {s} : session'[r] = session[r]
    <3>1. PICK rec : rec = [session[s] EXCEPT !.sock = "open", !.hello = "sent",
                     !.reader = TRUE, !.token = capsule[p].token, !.pid = p]
      OBVIOUS
    <3>2. session' = [session EXCEPT ![s] = rec] /\ session[s].sock = "free"
      BY <1>4, <3>1 DEF Connect
    <3>3. session[s] \in SessionRecord
      BY <1>1
    <3>4. /\ rec.sock = "open" /\ rec.hello = "sent" /\ rec.pid = p
          /\ rec.opened = session[s].opened
      BY <3>1, <3>3 DEF SessionRecord
    <3> QED
      BY <1>1, <3>2, <3>4
  <2>2. UNCHANGED <<clients, closes, thread>>
    BY <1>4 DEF Connect, history
  <2>3. \A t \in Threads : thread[t].s # s
    BY <1>2, <2>1 DEF Local
  <2>4. LocalsInv'
    <3> SUFFICES ASSUME NEW t \in Threads PROVE Local(t, thread[t], session')
      BY <2>2 DEF LocalsInv
    <3>1. /\ Local(t, thread[t], session)
          /\ thread[t].s \in Sessions => session'[thread[t].s] = session[thread[t].s]
          /\ thread[t].pc \in HelloPcs \cup StopPcs => thread[t].s \in Sessions
      BY <1>2, <2>1, <2>3 DEF Local
    <3> QED
      BY <3>1 DEF Local, HelloPcs, StopPcs
  <2>5. SessionInv'
    BY <2>1, <2>2, <2>3 DEF TableInv, SessionInv, Owns
  <2>6. \A q \in Pids : clients[q] # s
    BY <2>1 DEF TableInv, SessionInv
  <2>7. OwnerInv'
    <3>1. \A q \in Pids : clients[q] \in Sessions => session'[clients[q]].pid = q
      BY <2>1, <2>6 DEF TableInv, OwnerInv
    <3>2. \A t \in Threads : thread[t].pc \in OwnerPcs =>
             session'[thread[t].s] = session[thread[t].s]
      BY <1>3, <2>1, <2>3
    <3> QED
      BY <2>2, <3>1, <3>2 DEF TableInv, OwnerInv, Owns
  <2> QED
    BY <2>4, <2>5, <2>7 DEF TableInv
<1>5. ASSUME NEW s \in Sessions, Hello(s)
      PROVE  TableInv'
  <2>1. /\ session[s].hello = "sent" /\ session'[s].hello = "none"
        /\ session'[s].opened = session[s].opened
        /\ session'[s].pid = session[s].pid /\ session'[s].sock = session[s].sock
        /\ \A r \in Sessions \ {s} : session'[r] = session[r]
    BY <1>1, <1>5 DEF Hello, SessionRecord
  <2>2. UNCHANGED <<clients, closes>> /\ thread["io"].pc = "idle"
    BY <1>5 DEF Hello, At, history
  <2>3. session[s].sock # "free" /\ session[s].pid \in Pids
    BY <2>1 DEF TableInv, SessionInv
  <2>4. CASE StartStop("io", s, "lost")
    <3>1. /\ thread'["io"].pc = "close" /\ thread'["io"].s = s
          /\ thread'["io"].ret = thread["io"].ret /\ thread'["io"].end = "lost"
          /\ \A u \in Threads \ {"io"} : thread'[u] = thread[u]
      BY <1>1, <2>4 DEF ThreadRecord, StartStop
    <3>2. Local("io", thread'["io"], session')
      BY <1>1, <1>2, <2>1, <2>2, <2>3, <3>1 DEF Local, InjectPcs, HelloPcs, StopPcs
    <3>3. \A r \in Sessions :
           /\ session'[r].pid = session[r].pid
           /\ session'[r].opened = session[r].opened
           /\ session'[r].sock = "free" <=> session[r].sock = "free"
           /\ session'[r].hello \in {session[r].hello, "none"}
      BY <2>1
    <3> QED
      BY <1>1, <2>2, <3>1, <3>2, <3>3, TableKept DEF OwnerPcs
  <2>5. CASE thread' = [thread EXCEPT !["io"].pc = "insert", !["io"].s = s,
                                      !["io"].pid = session[s].pid]
    <3>1. /\ thread'["io"].pc = "insert" /\ thread'["io"].s = s
          /\ thread'["io"].ret = thread["io"].ret
          /\ thread'["io"].pid = session[s].pid
          /\ thread'["ui"] = thread["ui"]
      BY <1>1, <2>5 DEF ThreadRecord
    <3>2. LocalsInv'
      <4>1. Local("io", thread'["io"], session')
        BY <1>1, <1>2, <2>1, <2>2, <2>3, <3>1 DEF Local, InjectPcs, HelloPcs, StopPcs
      <4>2. Local("ui", thread["ui"], session')
        <5>1. /\ Local("ui", thread["ui"], session)
              /\ thread["ui"].pc \in HelloPcs \cup StopPcs => thread["ui"].s \in Sessions
          BY <1>1, <1>2 DEF Local
        <5> QED
          BY <2>1, <5>1 DEF Local, HelloPcs, StopPcs
      <4> QED
        BY <1>1, <3>1, <4>1, <4>2 DEF LocalsInv
    <3>3. ~Owns("ui", s) /\ closes[s] = 0 /\ ~session[s].opened
      BY <1>1, <2>1 DEF TableInv, SessionInv
    <3>4. /\ Owns("ui", s)' <=> Owns("ui", s)
          /\ \A r \in Sessions \ {s} : Owns("io", r)' => Owns("io", r)
          /\ \A r \in Sessions : Owns("ui", r)' <=> Owns("ui", r)
      BY <3>1 DEF Owns
    <3>5. SessionInv'
      BY <1>1, <2>1, <2>2, <2>3, <3>3, <3>4 DEF TableInv, SessionInv
    <3>6. OwnerInv'
      <4>1. \A q \in Pids : clients[q] \in Sessions => session'[clients[q]].pid = q
        BY <2>1 DEF TableInv, OwnerInv
      <4>2. \A t \in Threads : thread'[t].pc \in OwnerPcs =>
             /\ closes[thread'[t].s] = 0
             /\ thread'[t].pc \in EntryPcs =>
                  clients[session'[thread'[t].s].pid] = thread'[t].s
        BY <1>1, <1>3, <2>1, <3>1, <3>3 DEF TableInv, OwnerInv, EntryPcs
      <4>3. \A r \in Sessions : ~(Owns("io", r)' /\ Owns("ui", r)')
        <5>1. \A r \in Sessions : r # s => ~Owns("io", r)'
          BY <3>1 DEF Owns
        <5> QED
          BY <3>3, <3>4, <5>1
      <4> QED
        BY <1>1, <2>2, <4>1, <4>2, <4>3 DEF OwnerInv
    <3> QED
      BY <3>2, <3>5, <3>6 DEF TableInv
  <2> QED
    BY <1>5, <2>4, <2>5 DEF Hello
<1>6. CASE Insert
  <2> DEFINE s == thread["io"].s
             p == thread["io"].pid
  <2>1. /\ thread["io"].pc = "insert" /\ s \in Sessions /\ p = session[s].pid
        /\ session[s].sock # "free" /\ p \in Pids
    <3>1. thread["io"].pc = "insert" /\ Local("io", thread["io"], session)
      BY <1>1, <1>2, <1>6 DEF Insert, At
    <3>2. s \in Sessions /\ p = session[s].pid /\ session[s].sock # "free"
      BY <3>1 DEF Local, HelloPcs
    <3> QED
      BY <3>1, <3>2 DEF TableInv, SessionInv
  <2>2. UNCHANGED <<session, closes>>
    BY <1>6 DEF Insert, history
  <2>3. ASSUME NEW pc \in {"registered", "children"}, Goto("io", pc)
        PROVE  /\ thread'["io"].pc = pc /\ thread'["io"].s = s
               /\ thread'["io"].pid = p /\ thread'["io"].ret = thread["io"].ret
               /\ thread'["ui"] = thread["ui"]
               /\ \A u \in Threads \ {"io"} : thread'[u] = thread[u]
               /\ Local("io", thread'["io"], session')
    <3>1. /\ thread'["io"].pc = pc /\ thread'["io"].s = s
          /\ thread'["io"].pid = p /\ thread'["io"].ret = thread["io"].ret
          /\ thread'["ui"] = thread["ui"]
          /\ \A u \in Threads \ {"io"} : thread'[u] = thread[u]
      BY <1>1, <2>3 DEF Goto, ThreadRecord
    <3>2. Local("io", thread["io"], session)
      BY <1>1, <1>2
    <3> QED
      BY <2>1, <2>2, <2>3, <3>1, <3>2 DEF Local, InjectPcs, HelloPcs, StopPcs
  <2>4. CASE Registered(p)
    <3>1. UNCHANGED clients /\ Goto("io", "children")
      BY <1>6, <2>4 DEF Insert
    <3> QED
      BY <1>1, <2>2, <2>3, <3>1, TableKept DEF OwnerPcs
  <2>5. CASE ~Registered(p)
    <3>1. clients' = [clients EXCEPT ![p] = s] /\ Goto("io", "registered")
      BY <1>6, <2>5 DEF Insert
    <3>2. /\ clients'[p] = s /\ \A q \in Pids \ {p} : clients'[q] = clients[q]
          /\ clients[p] = NoSession /\ NoSession \notin Sessions
      BY <1>1, <2>1, <2>5, <3>1, ServerAssumption DEF Registered, ServerAssumption
    <3>3. /\ thread'["io"].pc = "registered" /\ thread'["io"].s = s
          /\ thread'["ui"] = thread["ui"]
          /\ Local("io", thread'["io"], session')
      BY <2>3, <3>1
    <3>4. LocalsInv'
      BY <1>1, <1>2, <2>2, <3>3 DEF LocalsInv
    <3>5. \A u \in Threads, r \in Sessions : Owns(u, r)' <=> Owns(u, r)
      BY <1>1, <2>1, <3>3 DEF Owns, OwnerPcs
    <3>6. Owns("io", s) /\ closes[s] = 0
      BY <1>1, <2>1 DEF Owns, OwnerPcs, TableInv, OwnerInv
    <3> HIDE DEF s, p
    <3>7. session[s].hello # "sent" /\ ~session[s].opened
      BY <1>1, <2>1, <3>6 DEF TableInv, SessionInv
    <3>8. \A r \in Sessions : session[r].opened => session[r].pid # p
      <4>1. ASSUME NEW r \in Sessions, session[r].opened PROVE session[r].pid # p
        BY <3>2, <4>1 DEF TableInv, SessionInv
      <4> QED
        BY <4>1
    <3>9. \A r \in Sessions : session[r].pid \in Pids \/ session[r].sock = "free"
      BY DEF TableInv, SessionInv
    <3>10. SessionInv'
      <4> SUFFICES ASSUME NEW r \in Sessions
                   PROVE
    /\ session[r].sock # "free" => session[r].pid \in Pids
    /\ session[r].sock = "free" => session[r].hello = "none"
    /\ session[r].sock = "free" \/ session[r].hello = "sent" =>
         /\ ~session[r].opened /\ closes[r] = 0
         /\ \A q \in Pids : clients'[q] # r
         /\ \A t \in Threads : ~Owns(t, r)
    /\ session[r].opened =>
         /\ clients'[session[r].pid] = r /\ closes[r] = 0
         /\ \A t \in Threads : ~Owns(t, r)
        BY <2>2, <3>5 DEF SessionInv
      <4>1. r = s => session[r].hello # "sent" /\ session[r].sock # "free"
        BY <2>1, <3>7
      <4>2. session[r].opened => clients'[session[r].pid] = clients[session[r].pid]
        <5>1. session[r].opened => session[r].sock # "free"
          BY DEF TableInv, SessionInv
        <5> QED
          BY <3>2, <3>8, <3>9, <5>1
      <4> QED
        BY <3>2, <4>1, <4>2 DEF TableInv, SessionInv
    <3>11. OwnerInv'
      <4>1. \A q \in Pids : clients'[q] \in Sessions => session[clients'[q]].pid = q
        BY <2>1, <3>2 DEF TableInv, OwnerInv
      <4>2. thread["ui"].pc \in EntryPcs =>
              clients'[session[thread["ui"].s].pid] = thread["ui"].s
        <5> SUFFICES ASSUME thread["ui"].pc \in EntryPcs
                     PROVE  clients'[session[thread["ui"].s].pid] = thread["ui"].s
          OBVIOUS
        <5>1. thread["ui"].pc \in OwnerPcs /\ thread["ui"].s \in Sessions
          BY <1>1, <1>3 DEF EntryPcs, OwnerPcs
        <5>2. session[thread["ui"].s].pid \in Pids
          BY <1>1, <1>2, <3>9, <5>1 DEF Local
        <5>3. clients[session[thread["ui"].s].pid] = thread["ui"].s
          BY <1>1, <5>1 DEF TableInv, OwnerInv
        <5> QED
          BY <3>2, <5>1, <5>2, <5>3
      <4>3. \A t \in Threads : thread'[t].pc \in OwnerPcs =>
             /\ closes[thread'[t].s] = 0
             /\ thread'[t].pc \in EntryPcs =>
                  clients'[session[thread'[t].s].pid] = thread'[t].s
        <5>1. thread["ui"].pc \in OwnerPcs => closes[thread["ui"].s] = 0
          BY <1>1 DEF TableInv, OwnerInv
        <5> QED
          BY <1>1, <2>1, <3>2, <3>3, <3>6, <4>2, <5>1
      <4> QED
        BY <2>2, <3>5, <4>1, <4>3 DEF TableInv, OwnerInv
    <3> QED
      BY <3>4, <3>10, <3>11 DEF TableInv
  <2> QED
    BY <2>4, <2>5
<1>7. CASE StoreOpened
  <2>1. PICK s \in Sessions : s = thread["io"].s /\ session[s].sock # "free"
    <3>1. thread["io"].pc = "opened" /\ Local("io", thread["io"], session)
      BY <1>1, <1>2, <1>7 DEF StoreOpened, At
    <3> QED
      BY <3>1 DEF Local, HelloPcs
  <2>2. /\ session'[s].opened = TRUE /\ session'[s].hello = session[s].hello
        /\ session'[s].pid = session[s].pid /\ session'[s].sock = session[s].sock
        /\ \A r \in Sessions \ {s} : session'[r] = session[r]
    BY <1>1, <1>7, <2>1 DEF StoreOpened, SessionRecord
  <2>3. /\ thread["io"].pc = "opened"
        /\ thread'["io"].pc = "children" /\ thread'["io"].s = s
        /\ thread'["io"].ret = thread["io"].ret /\ thread'["ui"] = thread["ui"]
    BY <1>1, <1>7, <2>1 DEF StoreOpened, Goto, At, ThreadRecord
  <2>4. UNCHANGED <<clients, closes>>
    BY <1>7 DEF StoreOpened, history
  <2>5. /\ Owns("io", s) /\ closes[s] = 0 /\ clients[session[s].pid] = s
        /\ ~Owns("ui", s)
    BY <1>1, <2>1, <2>3 DEF Owns, OwnerPcs, EntryPcs, TableInv, OwnerInv
  <2>6. LocalsInv'
    <3>1. Local("io", thread'["io"], session')
      <4>1. Local("io", thread["io"], session)
        BY <1>1, <1>2
      <4> QED
        BY <2>1, <2>2, <2>3, <4>1 DEF Local, InjectPcs, HelloPcs, StopPcs
    <3>2. Local("ui", thread["ui"], session')
      <4>1. /\ Local("ui", thread["ui"], session)
            /\ thread["ui"].pc \in HelloPcs \cup StopPcs => thread["ui"].s \in Sessions
        BY <1>1, <1>2 DEF Local
      <4> QED
        BY <2>2, <4>1 DEF Local, HelloPcs, StopPcs
    <3> QED
      BY <1>1, <2>3, <3>1, <3>2 DEF LocalsInv
  <2>7. /\ \A r \in Sessions : ~Owns("io", r)'
        /\ \A r \in Sessions : Owns("ui", r)' <=> Owns("ui", r)
    BY <2>3 DEF Owns, OwnerPcs
  <2>8. SessionInv'
    <3>1. session[s].hello # "sent" /\ session[s].pid \in Pids
      BY <1>1, <2>1, <2>5 DEF TableInv, SessionInv
    <3> QED
      BY <1>1, <2>1, <2>2, <2>4, <2>5, <2>7, <3>1 DEF TableInv, SessionInv
  <2>9. OwnerInv'
    <3>1. \A q \in Pids : clients[q] \in Sessions => session'[clients[q]].pid = q
      BY <2>2 DEF TableInv, OwnerInv
    <3>2. \A t \in Threads : thread'[t].pc \in OwnerPcs =>
             /\ closes[thread'[t].s] = 0
             /\ thread'[t].pc \in EntryPcs =>
                  clients[session'[thread'[t].s].pid] = thread'[t].s
      BY <1>1, <1>3, <2>2, <2>3 DEF TableInv, OwnerInv, OwnerPcs
    <3> QED
      BY <1>1, <2>4, <2>7, <3>1, <3>2 DEF OwnerInv
  <2> QED
    BY <2>6, <2>8, <2>9 DEF TableInv
<1> QED
  BY <1>4, <1>5, <1>6, <1>7

(* stop(), on either thread: the exchange makes an owner of the one thread  *)
(* that finds the session opened.                                           *)
LEMMA StopSteps ==
  ASSUME ServerTypeOK, TableInv, NEW t \in Threads, StopStep(t)
  PROVE  TableInv'
<1> DEFINE s == thread[t].s
<1>1. /\ thread \in [Threads -> ThreadRecord] /\ session \in [Sessions -> SessionRecord]
      /\ clients \in [Pids -> SomeSession] /\ closes \in [Sessions -> Nat]
  BY DEF ServerTypeOK
<1>2. \A u \in Threads : Local(u, thread[u], session)
  BY DEF TableInv, LocalsInv
<1>3. \A u \in Threads : thread[u].pc \in OwnerPcs => thread[u].s \in Sessions
  BY <1>2 DEF Local, OwnerPcs, HelloPcs, StopPcs
<1>4. thread[t].pc \in StopPcs
  BY DEF StopStep, StopCloses, StopExchange, RemoveRetired, RemoveLost, Forget,
         Erase, Hook, At, StopPcs
<1>5. /\ s \in Sessions /\ session[s].sock # "free" /\ session[s].pid \in Pids
      /\ thread[t].ret = "idle" /\ (t = "ui" => thread[t].pid \in Pids)
      /\ thread[t].end = IF t = "io" THEN "lost" ELSE "retired"
  BY <1>2, <1>4 DEF Local, StopPcs, InjectPcs, TableInv, SessionInv
<1>6. ASSUME NEW pc \in {"exchange", "forget", "erase", "hook"}, NEW pid \in Pids \cup {thread[t].pid},
             \/ thread' = [thread EXCEPT ![t].pc = pc] /\ pid = thread[t].pid
             \/ thread' = [thread EXCEPT ![t].pc = pc, ![t].pid = pid],
             pc = "forget" => pid \in Pids,
             pc = "erase" => pid = session[s].pid,
             session'[s].pid = session[s].pid, session'[s].sock # "free"
      PROVE  /\ thread'[t].pc = pc /\ thread'[t].s = s
             /\ \A u \in Threads \ {t} : thread'[u] = thread[u]
             /\ Local(t, thread'[t], session')
  <2>1. /\ thread'[t].pc = pc /\ thread'[t].s = s /\ thread'[t].pid = pid
        /\ thread'[t].ret = "idle" /\ thread'[t].end = thread[t].end
        /\ \A u \in Threads \ {t} : thread'[u] = thread[u]
    BY <1>1, <1>5, <1>6 DEF ThreadRecord
  <2> QED
    BY <1>5, <1>6, <2>1 DEF Local, InjectPcs, HelloPcs, StopPcs
<1>7. ASSUME Return(t)
      PROVE  /\ thread'[t].pc = "idle" /\ \A u \in Threads \ {t} : thread'[u] = thread[u]
             /\ \A ses : Local(t, thread'[t], ses)
  <2>1. thread'[t] = Idle /\ \A u \in Threads \ {t} : thread'[u] = thread[u]
    BY <1>1, <1>7 DEF Return
  <2> QED
    BY <2>1, ServerAssumption
       DEF Idle, Local, InjectPcs, HelloPcs, StopPcs, ServerAssumption
<1>8. ASSUME NEW u \in Threads, thread'[u] = thread[u],
             \A r \in Sessions : /\ session'[r].pid = session[r].pid
                                /\ session'[r].sock = session[r].sock
      PROVE  Local(u, thread'[u], session')
  <2>1. /\ Local(u, thread[u], session)
        /\ thread[u].pc \in HelloPcs \cup StopPcs => thread[u].s \in Sessions
    BY <1>2 DEF Local
  <2> QED
    BY <1>8, <2>1 DEF Local, HelloPcs, StopPcs
<1>9. CASE StopCloses(t)
  <2>1. /\ \A r \in Sessions :
             /\ session'[r].pid = session[r].pid
             /\ session'[r].opened = session[r].opened
             /\ session'[r].sock = "free" <=> session[r].sock = "free"
             /\ session'[r].hello = session[r].hello
    BY <1>1, <1>5, <1>9 DEF StopCloses, SessionRecord
  <2>2. Goto(t, "exchange") /\ UNCHANGED <<clients, closes>>
    BY <1>9 DEF StopCloses, history
  <2>3. /\ thread'[t].pc = "exchange" /\ thread'[t].s = s
        /\ \A u \in Threads \ {t} : thread'[u] = thread[u]
        /\ Local(t, thread'[t], session')
    BY <1>5, <1>6, <2>1, <2>2 DEF Goto
  <2> QED
    BY <2>1, <2>2, <2>3, TableKept DEF OwnerPcs
<1>10. CASE RemoveRetired(t)
  <2>1. /\ thread[t].pc = "remove" /\ thread[t].end = "retired"
        /\ Goto(t, "forget") /\ UNCHANGED <<session, clients, closes>>
    BY <1>10 DEF RemoveRetired, At, history
  <2>2. thread[t].pid \in Pids
    BY <1>5, <2>1 DEF Threads
  <2>3. /\ thread'[t].pc = "forget" /\ thread'[t].s = s
        /\ \A u \in Threads \ {t} : thread'[u] = thread[u]
        /\ Local(t, thread'[t], session')
    BY <1>5, <1>6, <2>1, <2>2 DEF Goto
  <2> QED
    BY <2>1, <2>3, TableKept DEF OwnerPcs, EntryPcs
<1>11. CASE RemoveLost(t)
  <2>1. /\ thread[t].pc = "remove" /\ UNCHANGED <<session, clients, closes>>
        /\ \/ Stale(thread[t].pid) = NoPid /\ Goto(t, "erase")
           \/ /\ Stale(thread[t].pid) # NoPid
              /\ thread' = [thread EXCEPT ![t].pc = "forget",
                                          ![t].pid = Stale(thread[t].pid)]
    BY <1>11 DEF RemoveLost, At, history
  <2>2. thread[t].pid = session[s].pid
    BY <1>2, <2>1 DEF Local
  <2>3. Stale(thread[t].pid) \in Pids \cup {NoPid}
    BY <1>5, <2>2, KeepFacts DEF ServerTypeOK
  <2>4. /\ thread'[t].pc \in {"forget", "erase"} /\ thread'[t].s = s
        /\ \A u \in Threads \ {t} : thread'[u] = thread[u]
        /\ Local(t, thread'[t], session')
    <3>1. CASE Goto(t, "erase")
      BY <1>5, <1>6, <2>1, <2>2, <3>1 DEF Goto
    <3>2. CASE Stale(thread[t].pid) \in Pids
                 /\ thread' = [thread EXCEPT ![t].pc = "forget",
                                             ![t].pid = Stale(thread[t].pid)]
      BY <1>5, <1>6, <2>1, <3>2
    <3> QED
      BY <2>1, <2>3, <3>1, <3>2
  <2> QED
    BY <2>1, <2>4, TableKept DEF OwnerPcs, EntryPcs
<1>12. CASE Forget(t)
  <2>1. /\ thread[t].pc = "forget" /\ UNCHANGED <<session, clients, closes>>
        /\ thread' = [thread EXCEPT ![t].pc = "erase", ![t].pid = session[s].pid]
    BY <1>12 DEF Forget, At
  <2>2. /\ thread'[t].pc = "erase" /\ thread'[t].s = s
        /\ \A u \in Threads \ {t} : thread'[u] = thread[u]
        /\ Local(t, thread'[t], session')
    BY <1>5, <1>6, <2>1
  <2> QED
    BY <2>1, <2>2, TableKept DEF OwnerPcs, EntryPcs
<1>13. CASE StopExchange(t)
  <2>1. /\ thread[t].pc = "exchange" /\ UNCHANGED <<clients, closes>>
        /\ session' = [session EXCEPT ![s].opened = FALSE]
    BY <1>13 DEF StopExchange, At
  <2>2. /\ session'[s].opened = FALSE /\ session'[s].hello = session[s].hello
        /\ session'[s].pid = session[s].pid /\ session'[s].sock = session[s].sock
        /\ \A r \in Sessions \ {s} : session'[r] = session[r]
    BY <1>1, <1>5, <2>1 DEF SessionRecord
  <2>3. CASE ~session[s].opened
    <3>1. Return(t)
      BY <1>13, <2>3 DEF StopExchange, StopReturns
    <3>2. session[s].opened \in BOOLEAN
      BY <1>1, <1>5 DEF SessionRecord
    <3>3. \A r \in Sessions :
             /\ session'[r].pid = session[r].pid
             /\ session'[r].opened = session[r].opened
             /\ session'[r].sock = session[r].sock
             /\ session'[r].hello = session[r].hello
      BY <2>2, <2>3, <3>2
    <3> QED
      BY <1>7, <2>1, <3>1, <3>3, TableKept DEF OwnerPcs
  <2>4. CASE session[s].opened
    <3>1. thread' = [thread EXCEPT ![t].pc = "remove", ![t].pid = session[s].pid]
      BY <1>13, <2>4 DEF StopExchange
    <3>2. /\ thread'[t].pc = "remove" /\ thread'[t].s = s
          /\ thread'[t].pid = session[s].pid
          /\ thread'[t].ret = "idle" /\ thread'[t].end = thread[t].end
          /\ \A u \in Threads \ {t} : thread'[u] = thread[u]
      BY <1>1, <1>5, <3>1 DEF ThreadRecord
    <3>3. Local(t, thread'[t], session')
      BY <1>5, <2>2, <3>2 DEF Local, InjectPcs, HelloPcs, StopPcs
    <3>4. LocalsInv'
      BY <1>8, <2>2, <3>2, <3>3 DEF LocalsInv
    <3>5. /\ clients[session[s].pid] = s /\ closes[s] = 0
          /\ \A u \in Threads : ~Owns(u, s)
          /\ session[s].hello # "sent"
      BY <1>5, <2>4 DEF TableInv, SessionInv
    <3>6. /\ \A r \in Sessions \ {s} : ~Owns(t, r)'
          /\ \A u \in Threads \ {t}, r \in Sessions : Owns(u, r)' <=> Owns(u, r)
      BY <3>2 DEF Owns
    <3> HIDE DEF s
    <3>7. SessionInv'
      <4>1. ASSUME NEW r \in Sessions, r # s
            PROVE  \A u \in Threads : Owns(u, r)' => Owns(u, r)
        BY <3>6, <4>1
      <4> QED
        BY <1>5, <2>1, <2>2, <3>5, <4>1 DEF TableInv, SessionInv
    <3>8. OwnerInv'
      <4>1. \A q \in Pids : clients[q] \in Sessions => session'[clients[q]].pid = q
        BY <2>2 DEF TableInv, OwnerInv
      <4>2. \A u \in Threads : thread'[u].pc \in OwnerPcs =>
             /\ closes[thread'[u].s] = 0
             /\ thread'[u].pc \in EntryPcs =>
                  clients[session'[thread'[u].s].pid] = thread'[u].s
        BY <1>3, <2>2, <3>2, <3>5 DEF TableInv, OwnerInv
      <4>3. \A u, v \in Threads, r \in Sessions : Owns(u, r)' /\ Owns(v, r)' => u = v
        BY <3>5, <3>6 DEF TableInv, OwnerInv
      <4> QED
        BY <2>1, <4>1, <4>2, <4>3 DEF OwnerInv
    <3> QED
      BY <3>4, <3>7, <3>8 DEF TableInv
  <2> QED
    BY <2>3, <2>4
<1>14. CASE Erase(t)
  <2>1. /\ thread[t].pc = "erase" /\ UNCHANGED <<session, closes>>
        /\ clients' = [clients EXCEPT ![thread[t].pid] = NoSession]
        /\ Goto(t, "hook") /\ thread[t].pid = session[s].pid
    BY <1>2, <1>14 DEF Erase, At, Local, history
  <2>2. /\ thread'[t].pc = "hook" /\ thread'[t].s = s
        /\ \A u \in Threads \ {t} : thread'[u] = thread[u]
        /\ Local(t, thread'[t], session')
    BY <1>5, <1>6, <2>1 DEF Goto
  <2>3. LocalsInv'
    BY <1>8, <2>1, <2>2 DEF LocalsInv
  <2>4. Owns(t, s) /\ clients[session[s].pid] = s
    BY <2>1 DEF Owns, OwnerPcs, EntryPcs, TableInv, OwnerInv
  <2>5. \A u \in Threads, r \in Sessions : Owns(u, r)' <=> Owns(u, r)
    BY <2>1, <2>2 DEF Owns, OwnerPcs
  <2> HIDE DEF s
  <2>6. /\ clients'[session[s].pid] = NoSession /\ NoSession \notin Sessions
        /\ \A q \in Pids \ {session[s].pid} : clients'[q] = clients[q]
    BY <1>1, <1>5, <2>1, ServerAssumption DEF ServerAssumption
  <2>7. ~session[s].opened
    BY <1>5, <2>4 DEF TableInv, SessionInv
  <2>8. SessionInv'
    <3> SUFFICES ASSUME NEW r \in Sessions
                 PROVE
    /\ session[r].sock # "free" => session[r].pid \in Pids
    /\ session[r].sock = "free" => session[r].hello = "none"
    /\ session[r].sock = "free" \/ session[r].hello = "sent" =>
         /\ ~session[r].opened /\ closes[r] = 0
         /\ \A q \in Pids : clients'[q] # r
         /\ \A u \in Threads : ~Owns(u, r)
    /\ session[r].opened =>
         /\ clients'[session[r].pid] = r /\ closes[r] = 0
         /\ \A u \in Threads : ~Owns(u, r)
      BY <2>1, <2>5 DEF SessionInv
    <3>1. session[r].opened => session[r].pid \in Pids /\ session[r].pid # session[s].pid
      BY <2>4, <2>7 DEF TableInv, SessionInv
    <3> QED
      BY <2>6, <3>1 DEF TableInv, SessionInv
  <2>9. OwnerInv'
    <3>1. \A q \in Pids : clients'[q] \in Sessions => session[clients'[q]].pid = q
      BY <2>6 DEF TableInv, OwnerInv
    <3>2. ASSUME NEW u \in Threads, u # t, thread[u].pc \in EntryPcs
          PROVE  clients'[session[thread[u].s].pid] = thread[u].s
      <4>1. thread[u].pc \in OwnerPcs /\ thread[u].s \in Sessions
        BY <1>3, <3>2 DEF EntryPcs, OwnerPcs
      <4>2. thread[u].s # s
        BY <1>5, <2>4, <3>2, <4>1 DEF Owns, TableInv, OwnerInv
      <4>3. clients[session[thread[u].s].pid] = thread[u].s
        BY <3>2, <4>1 DEF TableInv, OwnerInv
      <4>4. session[thread[u].s].pid \in Pids
        BY <1>2, <4>1 DEF Local, TableInv, SessionInv
      <4> QED
        BY <2>4, <2>6, <4>2, <4>3, <4>4
    <3>3. \A u \in Threads : thread'[u].pc \in OwnerPcs =>
             /\ closes[thread'[u].s] = 0
             /\ thread'[u].pc \in EntryPcs =>
                  clients'[session[thread'[u].s].pid] = thread'[u].s
      <4>1. \A u \in Threads : thread[u].pc \in OwnerPcs => closes[thread[u].s] = 0
        BY DEF TableInv, OwnerInv
      <4>2. thread'[t].pc \notin EntryPcs /\ closes[s] = 0
        BY <2>2, <2>4, <4>1 DEF EntryPcs, Owns
      <4> QED
        BY <2>2, <3>2, <4>1, <4>2
    <3> QED
      BY <2>1, <2>5, <3>1, <3>3 DEF TableInv, OwnerInv
  <2> QED
    BY <2>3, <2>8, <2>9 DEF TableInv
<1>15. CASE Hook(t)
  <2>1. /\ thread[t].pc = "hook" /\ UNCHANGED <<session, clients>> /\ Return(t)
        /\ closes' = [closes EXCEPT ![s] = @ + 1]
    BY <1>15 DEF Hook, At, StopReturns
  <2>2. /\ thread'[t].pc = "idle" /\ \A u \in Threads \ {t} : thread'[u] = thread[u]
        /\ Local(t, thread'[t], session')
    BY <1>7, <2>1
  <2>3. LocalsInv'
    BY <1>8, <2>1, <2>2 DEF LocalsInv
  <2>4. Owns(t, s)
    BY <2>1 DEF Owns, OwnerPcs
  <2>5. /\ \A r \in Sessions : ~Owns(t, r)'
        /\ \A u \in Threads \ {t}, r \in Sessions : Owns(u, r)' <=> Owns(u, r)
    BY <2>2 DEF Owns, OwnerPcs
  <2> HIDE DEF s
  <2>6. \A r \in Sessions \ {s} : closes'[r] = closes[r]
    BY <1>1, <2>1
  <2>7. SessionInv'
    BY <1>5, <2>1, <2>4, <2>5, <2>6 DEF TableInv, SessionInv
  <2>8. OwnerInv'
    <3>1. \A u \in Threads : thread'[u].pc \in OwnerPcs =>
             /\ closes'[thread'[u].s] = 0
             /\ thread'[u].pc \in EntryPcs =>
                  clients[session[thread'[u].s].pid] = thread'[u].s
      <4>1. ASSUME NEW u \in Threads, thread'[u].pc \in OwnerPcs
            PROVE  u # t /\ thread'[u] = thread[u] /\ thread[u].s \in Sessions \ {s}
        <5>1. u # t /\ thread'[u] = thread[u]
          BY <2>2, <4>1 DEF OwnerPcs
        <5>2. thread[u].s \in Sessions
          BY <1>3, <4>1, <5>1
        <5>3. thread[u].s # s
          BY <1>5, <2>4, <4>1, <5>1 DEF Owns, TableInv, OwnerInv
        <5> QED
          BY <5>1, <5>2, <5>3
      <4> QED
        BY <2>6, <4>1 DEF TableInv, OwnerInv
    <3> QED
      BY <2>1, <2>5, <3>1 DEF TableInv, OwnerInv
  <2> QED
    BY <2>3, <2>7, <2>8 DEF TableInv
<1> QED
  BY <1>9, <1>10, <1>11, <1>12, <1>13, <1>14, <1>15 DEF StopStep

(* Every step keeps sessions, owners and table in agreement.                *)
LEMMA TableStep ==
  ASSUME ServerTypeOK, TableInv, [ServerNext]_vars
  PROVE  TableInv'
  BY QuietSteps, HelloSteps, StopSteps DEF ServerNext, HelloStep

-----------------------------------------------------------------------------
(* Every step keeps the record of kept bootstraps to the pids that are      *)
(* away.                                                                    *)
LEMMA KeptStep ==
  ASSUME ServerTypeOK, TableInv, KeptInv, [ServerNext]_vars
  PROVE  KeptInv'
<1> DEFINE Settling == {"registered", "forget", "erase"}
           io == thread["io"]
<1>1. /\ thread \in [Threads -> ThreadRecord] /\ clients \in [Pids -> SomeSession]
      /\ kept \in Seq(Pids) /\ "io" \in Threads /\ "ui" \in Threads
      /\ Threads = {"io", "ui"}
      /\ \A i, j \in DOMAIN kept : kept[i] = kept[j] => i = j
      /\ Len(kept) <= KeptCap
  BY DEF ServerTypeOK, Threads
<1>2. \A t \in Threads : Local(t, thread[t], session)
  BY DEF TableInv, LocalsInv
<1>3. \A i \in DOMAIN kept : kept[i] \in Pids
  BY <1>1
<1>4. ASSUME \A i \in DOMAIN kept' : \E k \in DOMAIN kept : kept[k] = kept'[i],
             \A p \in Pids : clients'[p] \in {clients[p], NoSession},
             \/ thread'["io"] = io
             \/ io.pc \notin Settling
             \/ io.pc = "forget" /\ thread'["io"].pc = "erase" /\ thread'["io"].s = io.s
      PROVE  KeptInv'
  <2> SUFFICES ASSUME NEW i \in DOMAIN kept', clients'[kept'[i]] # NoSession
               PROVE  /\ thread'["io"].pc \in Settling
                      /\ thread'["io"].s = clients'[kept'[i]]
    BY DEF KeptInv, Registered
  <2>1. PICK k \in DOMAIN kept : kept[k] = kept'[i]
    BY <1>4
  <2>2. clients'[kept[k]] = clients[kept[k]] /\ Registered(kept[k])
    BY <1>3, <1>4, <2>1 DEF Registered
  <2> QED
    BY <1>4, <2>1, <2>2 DEF KeptInv
<1>5. ASSUME NEW p \in Pids, kept' = KeptWithout(p)
      PROVE  \A i \in DOMAIN kept' :
               kept'[i] # p /\ \E k \in DOMAIN kept : kept[k] = kept'[i]
  BY <1>1, <1>5, DropFacts
<1>6. ASSUME NEW t \in Threads, thread[t].pc \in InjectPcs, InjectReturns(t),
             UNCHANGED clients, kept' \in {kept, KeptWithout(thread[t].pid)}
      PROVE  KeptInv'
  <2>1. thread'["io"] = io \/ io.pc \notin Settling
    BY <1>1, <1>6 DEF InjectReturns, InjectPcs
  <2>2. thread[t].pid \in Pids
    BY <1>2, <1>6 DEF Local
  <2> QED
    BY <1>4, <1>5, <1>6, <2>1, <2>2
<1>7. ASSUME NEW t \in Threads, InjectStep(t)
      PROVE  KeptInv'
  <2>1. CASE Publish(t) \/ LoadSucceeds(t)
    <3>1. UNCHANGED <<kept, clients>> /\ (thread'["io"] = io \/ io.pc \notin Settling)
      BY <1>1, <2>1 DEF Publish, LoadSucceeds, At, Goto
    <3> QED
      BY <1>4, <3>1
  <2>2. CASE PublishFails(t) \/ LoadFails(t) \/ InjectDone(t)
    BY <1>6, <2>2 DEF PublishFails, LoadFails, InjectDone, At, InjectPcs
  <2> QED
    BY <1>7, <2>1, <2>2 DEF InjectStep
<1>8. CASE \/ \E t \in Threads, p \in Pids : Inject(t, p)
           \/ \E p \in Pids : InjectChild(p) \/ Close(p)
           \/ StoreOpened \/ HelloDone
           \/ \E s \in Sessions : Hello(s) \/ ReaderFails(s)
  <2>1. UNCHANGED <<kept, clients>> /\ (thread'["io"] = io \/ io.pc \notin Settling)
    BY <1>1, <1>8 DEF Inject, InjectChild, Close, StoreOpened, HelloDone, Hello,
       ReaderFails, StartStop, Goto, Return, At
  <2> QED
    BY <1>4, <2>1
<1>9. CASE \/ \E p \in Pids : \/ LateAttach(p) \/ Probe(p) \/ CapsuleDrops(p)
                             \/ CapsuleExits(p)
           \/ \E p \in Pids, s \in Sessions : Connect(p, s)
           \/ UNCHANGED vars
  <2>1. UNCHANGED <<kept, clients, thread>>
    BY <1>9 DEF LateAttach, Probe, CapsuleDrops, CapsuleExits, Connect, vars
  <2> QED
    BY <1>4, <2>1
<1>10. CASE Insert
  <2>1. /\ io.pc = "insert" /\ kept' = kept
        /\ \/ UNCHANGED clients
           \/ clients' = [clients EXCEPT ![io.pid] = io.s] /\ Goto("io", "registered")
    BY <1>10 DEF Insert, At
  <2>2. CASE UNCHANGED clients
    BY <1>4, <2>1, <2>2
  <2>3. CASE clients' = [clients EXCEPT ![io.pid] = io.s] /\ Goto("io", "registered")
    <3>1. thread'["io"].pc = "registered" /\ thread'["io"].s = io.s
      BY <1>1, <2>3 DEF Goto, ThreadRecord
    <3>2. \A i \in DOMAIN kept : clients[kept[i]] = NoSession
      BY <2>1 DEF KeptInv, Registered
    <3> QED
      BY <1>1, <1>3, <2>1, <2>3, <3>1, <3>2 DEF KeptInv, Registered
  <2> QED
    BY <2>1, <2>2, <2>3
<1>11. CASE OpenDropsKept
  <2>1. /\ io.pc = "registered" /\ kept' = KeptWithout(io.pid) /\ UNCHANGED clients
    BY <1>11 DEF OpenDropsKept, At
  <2>2. io.s \in Sessions /\ io.pid = session[io.s].pid /\ io.pid \in Pids
    BY <1>1, <1>2, <2>1 DEF Local, HelloPcs, TableInv, SessionInv
  <2>3. ASSUME NEW i \in DOMAIN kept' PROVE clients[kept'[i]] = NoSession
    <3>1. PICK k \in DOMAIN kept : kept[k] = kept'[i]
      BY <1>5, <2>1, <2>2
    <3>2. kept[k] # io.pid /\ kept[k] \in Pids
      BY <1>3, <1>5, <2>1, <2>2, <3>1
    <3>3. clients[kept[k]] # io.s
      BY <2>2, <3>2 DEF TableInv, OwnerInv
    <3> QED
      BY <3>1, <3>3 DEF KeptInv, Registered
  <2> QED
    BY <2>1, <2>3 DEF KeptInv, Registered
<1>12. ASSUME NEW t \in Threads, StopStep(t)
       PROVE  KeptInv'
  <2>1. thread[t].pc \in StopPcs
    BY <1>12 DEF StopStep, StopCloses, StopExchange, RemoveRetired, RemoveLost,
       Forget, Erase, Hook, At, StopPcs
  <2>2. /\ thread[t].s \in Sessions /\ session[thread[t].s].pid \in Pids
        /\ thread[t].end = IF t = "io" THEN "lost" ELSE "retired"
    BY <1>2, <2>1 DEF Local, TableInv, SessionInv
  <2>3. CASE StopCloses(t) \/ StopExchange(t) \/ Hook(t)
    <3>1. UNCHANGED <<kept, clients>> /\ (thread'["io"] = io \/ io.pc \notin Settling)
      BY <1>1, <2>3 DEF StopCloses, StopExchange, Hook, StopReturns, Goto, Return, At
    <3> QED
      BY <1>4, <3>1
  <2>4. CASE RemoveRetired(t)
    <3>1. /\ kept' = KeptWithout(thread[t].pid) /\ thread[t].pc = "remove"
          /\ UNCHANGED clients /\ (thread'["io"] = io \/ io.pc \notin Settling)
      BY <1>1, <2>4 DEF RemoveRetired, Goto, At
    <3>2. thread[t].pid \in Pids
      BY <1>2, <2>2, <3>1 DEF Local
    <3> QED
      BY <1>4, <1>5, <3>1, <3>2
  <2>5. CASE RemoveLost(t)
    <3>1. t = "io" /\ io.pc = "remove" /\ kept' = Keep(io.pid) /\ UNCHANGED clients
      BY <1>1, <2>2, <2>5 DEF RemoveLost, At
    <3>2. io.pid \in Pids /\ clients[io.pid] = io.s
      BY <1>1, <1>2, <2>2, <3>1 DEF Local, TableInv, OwnerInv, OwnerPcs, EntryPcs
    <3>3. thread'["io"].pc \in Settling /\ thread'["io"].s = io.s
      BY <1>1, <2>5, <3>1 DEF RemoveLost, Goto, ThreadRecord
    <3>4. \A i \in DOMAIN kept' :
            kept'[i] = io.pid \/ \E k \in DOMAIN kept : kept[k] = kept'[i]
      BY <1>1, <3>1, <3>2, KeepFacts
    <3>5. \A k \in DOMAIN kept : clients[kept[k]] = NoSession
      BY <3>1 DEF KeptInv, Registered
    <3> QED
      BY <3>1, <3>2, <3>3, <3>4, <3>5 DEF KeptInv, Registered
  <2>6. CASE Forget(t)
    <3>1. /\ UNCHANGED <<kept, clients>>
          /\ \/ thread'["io"] = io
             \/ io.pc = "forget" /\ thread'["io"].pc = "erase" /\ thread'["io"].s = io.s
      BY <1>1, <2>6 DEF Forget, At, ThreadRecord
    <3> QED
      BY <1>4, <3>1
  <2>7. CASE Erase(t)
    <3>1. /\ thread[t].pc = "erase" /\ thread[t].pid = session[thread[t].s].pid
          /\ clients' = [clients EXCEPT ![thread[t].pid] = NoSession]
          /\ UNCHANGED kept /\ Goto(t, "hook")
      BY <1>2, <2>7 DEF Erase, At, Local
    <3>2. CASE t = "ui"
      BY <1>1, <1>4, <3>1, <3>2 DEF Goto
    <3>3. CASE t = "io"
      <4>1. ASSUME NEW i \in DOMAIN kept PROVE clients'[kept[i]] = NoSession
        <5>1. CASE kept[i] = io.pid
          BY <1>1, <1>3, <3>1, <3>3, <5>1
        <5>2. CASE kept[i] # io.pid
          <6>1. clients[kept[i]] # io.s
            BY <1>3, <2>2, <3>1, <3>3, <5>2 DEF TableInv, OwnerInv
          <6>2. clients[kept[i]] = NoSession
            BY <6>1 DEF KeptInv, Registered
          <6> QED
            BY <1>1, <1>3, <3>1, <3>3, <5>2, <6>2
        <5> QED
          BY <5>1, <5>2
      <4> QED
        BY <3>1, <4>1 DEF KeptInv, Registered
    <3> QED
      BY <1>1, <3>2, <3>3
  <2> QED
    BY <1>12, <2>3, <2>4, <2>5, <2>6, <2>7 DEF StopStep
<1> QED
  BY <1>7, <1>8, <1>9, <1>10, <1>11, <1>12 DEF ServerNext, HelloStep

-----------------------------------------------------------------------------
(* A token is only ever replaced or taken away together with a word to the  *)
(* history that it was.                                                     *)
LEMMA WelcomeStep ==
  ASSUME ServerTypeOK, LocalsInv, StillWelcome, [ServerNext]_vars
  PROVE  StillWelcome'
<1>1. /\ tokens \in [Pids -> 0..minted] /\ capsule \in [Pids -> CapsuleRecord]
  BY DEF ServerTypeOK
<1>2. ASSUME UNCHANGED <<tokens, revoked>>,
             \A p \in Pids : /\ capsule'[p].loaded => capsule[p].loaded
                             /\ capsule'[p].token \in {capsule[p].token, NoToken}
      PROVE  StillWelcome'
  BY <1>2 DEF StillWelcome
<1>3. ASSUME NEW q \in Pids, NEW k, UNCHANGED capsule,
             tokens' = [tokens EXCEPT ![q] = k], q \in revoked',
             revoked \ {q} = revoked' \ {q}
      PROVE  StillWelcome'
  BY <1>1, <1>3 DEF StillWelcome
<1>4. ASSUME NEW p \in Pids, UNCHANGED tokens, Attach(p)
      PROVE  StillWelcome'
  <2>1. CASE capsule[p].loaded
    BY <1>2, <1>4, <2>1 DEF Attach
  <2>2. CASE ~capsule[p].loaded
    <3>1. /\ capsule'[p].token = tokens[p]
          /\ \A q \in Pids \ {p} : capsule'[q] = capsule[q]
          /\ revoked' = revoked \ {p}
      BY <1>1, <1>4, <2>2 DEF Attach, CapsuleRecord
    <3> QED
      BY <1>4, <3>1 DEF StillWelcome
  <2> QED
    BY <2>1, <2>2
<1>5. ASSUME NEW t \in Threads, InjectStep(t)
      PROVE  StillWelcome'
  <2>1. At(t, "publish") \/ At(t, "load") => thread[t].pid \in Pids
    BY DEF LocalsInv, Local, At, InjectPcs
  <2>2. CASE Publish(t)
    BY <1>3, <2>1, <2>2 DEF Publish
  <2>3. CASE PublishFails(t) \/ InjectDone(t)
    BY <1>2, <2>3 DEF PublishFails, InjectDone, storeVars, history
  <2>4. CASE LoadSucceeds(t)
    BY <1>4, <2>1, <2>4 DEF LoadSucceeds, storeVars
  <2>5. CASE LoadFails(t)
    BY <1>2, <1>3, <2>1, <2>5 DEF LoadFails, ForgetBootstrap
  <2> QED
    BY <1>5, <2>2, <2>3, <2>4, <2>5 DEF InjectStep
<1>6. ASSUME NEW t \in Threads, StopStep(t)
      PROVE  StillWelcome'
  <2>1. CASE Forget(t)
    <3>1. thread[t].pid \in Pids
      BY <2>1 DEF Forget, At, LocalsInv, Local
    <3> QED
      BY <1>3, <2>1, <3>1 DEF Forget
  <2>2. CASE StopCloses(t)
    <3>1. ASSUME NEW p \in Pids
          PROVE  capsule'[p].loaded = capsule[p].loaded /\ capsule'[p].token = capsule[p].token
      <4>1. capsule[p] \in CapsuleRecord
        BY <1>1
      <4>2. capsule'[p] \in {capsule[p], [capsule[p] EXCEPT !.session = NoSession]}
        BY <2>2 DEF StopCloses
      <4> QED
        BY <4>1, <4>2 DEF CapsuleRecord
    <3> QED
      BY <1>2, <2>2, <3>1 DEF StopCloses, storeVars, history
  <2>3. CASE StopExchange(t) \/ RemoveRetired(t) \/ RemoveLost(t) \/ Erase(t) \/ Hook(t)
    BY <1>2, <2>3 DEF StopExchange, RemoveRetired, RemoveLost, Erase, Hook,
       storeVars, history
  <2> QED
    BY <1>6, <2>1, <2>2, <2>3 DEF StopStep
<1>7. CASE \/ HelloStep \/ UNCHANGED vars
           \/ \E t \in Threads, p \in Pids : Inject(t, p)
           \/ \E p \in Pids : InjectChild(p) \/ Close(p)
           \/ \E s \in Sessions : Hello(s) \/ ReaderFails(s)
  BY <1>2, <1>7 DEF HelloStep, Insert, OpenDropsKept, StoreOpened, HelloDone, Inject,
     InjectChild, Close, Hello, ReaderFails, storeVars, history, vars
<1>8. ASSUME NEW p \in Pids, LateAttach(p)
      PROVE  StillWelcome'
  BY <1>4, <1>8 DEF LateAttach, storeVars
<1>9. ASSUME NEW p \in Pids, Probe(p)
      PROVE  StillWelcome'
  <2>1. /\ capsule'[p].token = tokens[p] /\ UNCHANGED tokens
        /\ \A q \in Pids \ {p} : capsule'[q] = capsule[q]
        /\ revoked' = revoked \ {p}
    BY <1>1, <1>9 DEF Probe, CapsuleRecord, storeVars
  <2> QED
    BY <2>1 DEF StillWelcome
<1>10. ASSUME NEW p \in Pids,
              \/ CapsuleDrops(p) \/ CapsuleExits(p)
              \/ \E s \in Sessions : Connect(p, s)
       PROVE  StillWelcome'
  <2>1. UNCHANGED <<tokens, revoked>>
    BY <1>10 DEF CapsuleDrops, CapsuleExits, Connect, storeVars, history
  <2>2. \/ \E x : capsule' = [capsule EXCEPT ![p].session = x]
        \/ capsule' = [capsule EXCEPT ![p] = NoCapsule]
    BY <1>10 DEF CapsuleDrops, CapsuleExits, Connect
  <2>3. \A q \in Pids : /\ capsule'[q].loaded => capsule[q].loaded
                        /\ capsule'[q].token \in {capsule[q].token, NoToken}
    BY <1>1, <2>2 DEF NoCapsule, CapsuleRecord
  <2> QED
    BY <1>2, <2>1, <2>3
<1> QED
  BY <1>5, <1>6, <1>7, <1>8, <1>9, <1>10 DEF ServerNext

-----------------------------------------------------------------------------
(* The four step lemmas together.                                           *)
ServerInv == ServerTypeOK /\ TableInv /\ KeptInv /\ StillWelcome

(* The invariant of the server holds throughout.                            *)
LEMMA ServerInductive == ServerSpec => []ServerInv
<1>1. ServerInit => ServerInv
  <2> SUFFICES ASSUME ServerInit PROVE ServerInv
    OBVIOUS
  <2>1. ServerTypeOK
    <3>1. /\ FreshSession \in SessionRecord /\ NoCapsule \in CapsuleRecord
          /\ Idle \in ThreadRecord
      BY ServerAssumption DEF FreshSession, SessionRecord, NoCapsule, CapsuleRecord,
         Idle, ThreadRecord, ServerAssumption, Places, Tokens, SomePid, SomeSession,
         Socks, Hellos, Ends, Returns, NoToken
    <3> QED
      BY <3>1, ServerAssumption DEF ServerInit, ServerTypeOK, ServerAssumption,
         SomeSession, NoToken
  <2>2. TableInv
    BY ServerAssumption DEF ServerInit, TableInv, LocalsInv, Local, SessionInv,
       OwnerInv, Owns, FreshSession, Idle, InjectPcs, HelloPcs, StopPcs, OwnerPcs,
       EntryPcs, ServerAssumption
  <2>3. KeptInv
    BY DEF ServerInit, KeptInv
  <2>4. StillWelcome
    BY DEF ServerInit, StillWelcome, NoCapsule
  <2> QED
    BY <2>1, <2>2, <2>3, <2>4 DEF ServerInv
<1>2. ServerInv /\ [ServerNext]_vars => ServerInv'
  BY TypeStep, TableStep, KeptStep, WelcomeStep DEF ServerInv, TableInv
<1> QED
  BY <1>1, <1>2, PTL DEF ServerSpec

(* Every variable keeps its type; the record of kept bootstraps never       *)
(* outgrows its cap and never lists a pid twice (server.hpp 168-209).       *)
THEOREM ServerTypeCorrect == ServerSpec => []ServerTypeOK
<1>1. ServerInv => ServerTypeOK
  BY DEF ServerInv
<1> QED
  BY <1>1, ServerInductive, PTL

(* stop() tears a session down once, whichever threads notice its end, and  *)
(* erases that session's own entry (server.hpp, injectee_session::stop() and *)
(* injector_server::remove()).                                              *)
THEOREM TeardownIsOwn == ServerSpec => []OwnTeardown
<1>1. ServerInv => OwnTeardown
  BY DEF ServerInv, OwnTeardown, TableInv, OwnerInv, OwnerPcs, EntryPcs, At
<1> QED
  BY <1>1, ServerInductive, PTL

(* Eviction from a full record of kept bootstraps never finds the pid of a  *)
(* session that is up (server.hpp, open(), remove() and keep()).            *)
THEOREM EvictsOnlyTheAway == ServerSpec => []KeptAreAway
<1>1. ServerInv => KeptAreAway
  <2> SUFFICES ASSUME ServerInv, NEW i \in DOMAIN kept, Registered(kept[i])
               PROVE  /\ session[clients[kept[i]]].opened = FALSE
                      /\ thread["io"].s = clients[kept[i]]
    BY DEF KeptAreAway
  <2>1. /\ thread["io"].pc \in {"registered", "forget", "erase"}
        /\ thread["io"].s = clients[kept[i]] /\ "io" \in Threads
    BY DEF ServerInv, KeptInv, Threads
  <2>2. thread["io"].s \in Sessions
    BY <2>1 DEF ServerInv, TableInv, LocalsInv, Local, HelloPcs, StopPcs
  <2>3. Owns("io", thread["io"].s)
    BY <2>1 DEF Owns, OwnerPcs
  <2>4. session[thread["io"].s].opened \in BOOLEAN
    BY <2>2 DEF ServerInv, ServerTypeOK, SessionRecord
  <2> QED
    BY <2>1, <2>2, <2>3, <2>4 DEF ServerInv, TableInv, SessionInv
<1> QED
  BY <1>1, ServerInductive, PTL

(* A lost connection never burns a bootstrap: a capsule stays welcome with  *)
(* the token it attached with until its pid is injected again, un-injected  *)
(* or evicted, or its own injection is rolled back (server.hpp, remove();   *)
(* injector.hpp, forget_bootstrap()).                                       *)
THEOREM LossKeepsWelcome == ServerSpec => []StillWelcome
<1>1. ServerInv => StillWelcome
  BY DEF ServerInv
<1> QED
  BY <1>1, ServerInductive, PTL
=============================================================================
