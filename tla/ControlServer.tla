---------------------------- MODULE ControlServer ----------------------------
(***************************************************************************)
(* The injector's control server: injector_server, injector_clients,       *)
(* kept_bootstraps and injectee_session of src/src/injector/server.hpp over *)
(* the token store of src/src/injector/injector.hpp.                       *)
(*                                                                         *)
(* Two threads run its code: "io", the io_context's, one handler at a time, *)
(* and "ui", the front end's.  A step is what a thread does under one lock *)
(* (or with one atomic); between two steps the other thread may run.  The  *)
(* injected processes are the environment: a pid's capsule reads its token *)
(* at attach, connects, is cut off, reconnects and dies.                   *)
(*                                                                         *)
(* A token is its mint number.  `tokens` and `mappings` are written and    *)
(* erased in the same critical sections, so one function stands for both,  *)
(* NoToken where neither has an entry.  The server has its port.           *)
(***************************************************************************)
EXTENDS Naturals, Sequences

CONSTANTS Pids, NoPid, NoSession,
          Sessions,   \* bound: the connections accepted in a behaviour
          KeptCap,    \* kept_bootstraps::cap
          MaxMint     \* bound: tokens minted

ASSUME ServerAssumption ==
  /\ KeptCap \in Nat /\ MaxMint \in Nat
  /\ NoPid \notin Pids /\ NoSession \notin Sessions

VARIABLES tokens,    \* injector::tokens and ::mappings
          minted,    \* how many tokens were minted
          kept,      \* kept_bootstraps::order, oldest first
          clients,   \* injector_clients: the session registered for a pid
          session,   \* every accepted connection
          capsule,   \* the module in each process
          late,      \* pids whose remote load outlived the injector's wait
          thread,    \* where each thread is, and its locals
          retired,   \* history: pids whose close() returned true since inject
          revoked,   \* history: pids whose bootstrap was replaced or retired
          closes     \* history: process_close() calls of each session

storeVars == <<tokens, minted>>
history   == <<retired, revoked, closes>>
vars == <<tokens, minted, kept, clients, session, capsule, late, thread,
          retired, revoked, closes>>

Threads == {"io", "ui"}
NoToken == 0

(* socket_ as the server sees it, the hello that is on it, whether reader() *)
(* still runs, pid_ and opened_.                                            *)
FreshSession == [sock |-> "free", hello |-> "none", reader |-> FALSE,
                 pid |-> NoPid, token |-> NoToken, opened |-> FALSE]

NoCapsule == [loaded |-> FALSE, probing |-> FALSE, token |-> NoToken,
              session |-> NoSession]

Idle == [pc |-> "idle", s |-> NoSession, pid |-> NoPid, end |-> "none",
         token |-> NoToken, ret |-> "idle"]

Tokens      == 0..MaxMint
SomePid     == Pids \cup {NoPid}
SomeSession == Sessions \cup {NoSession}
Socks       == {"free", "open", "eof", "closed"}
Hellos      == {"none", "sent"}
Returns     == {"idle", "children"}
Ends        == {"none", "lost", "retired"}   \* session_end, or no stop() runs
Places      == {"idle", "publish", "load", "injected", "insert", "registered",
                "opened", "children", "close", "exchange", "remove", "forget",
                "erase", "hook"}

SessionRecord == [sock : Socks, hello : Hellos, reader : BOOLEAN,
                  pid : SomePid, token : Tokens, opened : BOOLEAN]
CapsuleRecord == [loaded : BOOLEAN, probing : BOOLEAN, token : Tokens,
                  session : SomeSession]
ThreadRecord  == [pc : Places, s : SomeSession, pid : SomePid, end : Ends,
                  token : Tokens, ret : Returns]

(* What every variable ranges over; the record of kept bootstraps stays     *)
(* within its cap and lists a pid once.                                     *)
ServerTypeOK ==
  /\ tokens \in [Pids -> 0..minted] /\ minted \in 0..MaxMint
  /\ kept \in Seq(Pids) /\ Len(kept) <= KeptCap
  /\ \A i, j \in DOMAIN kept : kept[i] = kept[j] => i = j
  /\ clients \in [Pids -> SomeSession]
  /\ session \in [Sessions -> SessionRecord]
  /\ capsule \in [Pids -> CapsuleRecord]
  /\ late \subseteq Pids
  /\ thread \in [Threads -> ThreadRecord]
  /\ retired \subseteq Pids /\ revoked \subseteq Pids
  /\ closes \in [Sessions -> Nat]

ServerInit ==
  /\ tokens = [p \in Pids |-> NoToken] /\ minted = 0
  /\ kept = <<>>
  /\ clients = [p \in Pids |-> NoSession]
  /\ session = [s \in Sessions |-> FreshSession]
  /\ capsule = [p \in Pids |-> NoCapsule] /\ late = {}
  /\ thread = [t \in Threads |-> Idle]
  /\ retired = {} /\ revoked = {} /\ closes = [s \in Sessions |-> 0]

At(t, pc) == thread[t].pc = pc
Goto(t, pc) == thread' = [thread EXCEPT ![t].pc = pc]
Return(t) == thread' = [thread EXCEPT ![t] = Idle]

Registered(p) == clients[p] # NoSession

-----------------------------------------------------------------------------
(* injector_server::inject() and injector::inject(), on either thread.  The *)
(* io thread is led there by a "subpid" message of a registered session, or *)
(* by the child enumeration inside process(), to which it returns.          *)
InjectReturns(t) ==
  thread' = [thread EXCEPT ![t].pc = thread[t].ret, ![t].token = NoToken,
                           ![t].ret = "idle",
                           ![t].pid = IF thread[t].ret = "children"
                                        THEN session[thread[t].s].pid ELSE NoPid]

(* The call: a registered pid is answered already_registered at once.       *)
Inject(t, p) ==
  /\ At(t, "idle")
  /\ t = "io" => \E q \in Pids : Registered(q)
  /\ ~Registered(p)
  /\ thread' = [thread EXCEPT ![t].pc = "publish", ![t].pid = p]
  /\ UNCHANGED <<storeVars, kept, clients, session, capsule, late, history>>

InjectChild(p) ==
  /\ At("io", "children") /\ thread["io"].pid # p
  /\ ~Registered(p)
  /\ thread' = [thread EXCEPT !["io"].pc = "publish", !["io"].pid = p,
                              !["io"].ret = "children"]
  /\ UNCHANGED <<storeVars, kept, clients, session, capsule, late, history>>

(* publish(): mint a token, write it into the mapping, record both.         *)
Publish(t) ==
  /\ At(t, "publish")
  /\ minted < MaxMint
  /\ minted' = minted + 1
  /\ tokens' = [tokens EXCEPT ![thread[t].pid] = minted + 1]
  /\ thread' = [thread EXCEPT ![t].pc = "load", ![t].token = minted + 1]
  /\ retired' = retired \ {thread[t].pid}
  /\ revoked' = revoked \cup {thread[t].pid}
  /\ UNCHANGED <<kept, clients, session, capsule, late, closes>>

(* No process handle, module, random number or mapping: nothing recorded.   *)
PublishFails(t) ==
  /\ At(t, "publish")
  /\ InjectReturns(t)
  /\ UNCHANGED <<storeVars, kept, clients, session, capsule, late, history>>

(* DllMain of a capsule that attaches reads the mapping; a module that is   *)
(* already resident only gains a reference.                                 *)
Attach(p) ==
  IF capsule[p].loaded
    THEN UNCHANGED <<capsule, revoked>>
    ELSE /\ capsule' = [capsule EXCEPT ![p].loaded = TRUE,
                                       ![p].token = tokens[p],
                                       ![p].probing = tokens[p] = NoToken]
         /\ revoked' = revoked \ {p}

(* The capsule that found none tries again for a while, then stays resident *)
(* without a client.                                                        *)
Probe(p) ==
  /\ capsule[p].probing
  /\ capsule' = [capsule EXCEPT ![p].token = tokens[p], ![p].probing = FALSE]
  /\ revoked' = revoked \ {p}
  /\ UNCHANGED <<storeVars, kept, clients, session, late, thread, retired, closes>>

(* load_into(): the remote LoadLibraryW ends, or is late but resident.      *)
LoadSucceeds(t) ==
  /\ At(t, "load")
  /\ Attach(thread[t].pid)
  /\ Goto(t, "injected")
  /\ UNCHANGED <<storeVars, kept, clients, session, late, retired, closes>>

(* It fails, or has neither ended nor mapped the module after five seconds, *)
(* in which case it may still do so: forget_bootstrap() takes back what     *)
(* this publish recorded.                                                   *)
ForgetBootstrap(p, token) ==
  IF tokens[p] = token
    THEN tokens' = [tokens EXCEPT ![p] = NoToken] /\ revoked' = revoked \cup {p}
    ELSE UNCHANGED <<tokens, revoked>>

LoadFails(t) ==
  /\ At(t, "load")
  /\ ForgetBootstrap(thread[t].pid, thread[t].token)
  /\ late' \in {late, late \cup {thread[t].pid}}
  /\ InjectReturns(t)
  /\ UNCHANGED <<minted, kept, clients, session, capsule, retired, closes>>

LateAttach(p) ==
  /\ p \in late
  /\ late' = late \ {p}
  /\ Attach(p)
  /\ UNCHANGED <<storeVars, kept, clients, session, thread, retired, closes>>

(* kept_bootstraps::drop(), after a successful injection: where the pid is  *)
(* recorded, its place in the order goes.                                   *)
RemoveAt(seq, i) == SubSeq(seq, 1, i - 1) \o SubSeq(seq, i + 1, Len(seq))

KeptWithout(p) ==
  IF \E i \in DOMAIN kept : kept[i] = p
    THEN RemoveAt(kept, CHOOSE i \in DOMAIN kept : kept[i] = p)
    ELSE kept

InjectDone(t) ==
  /\ At(t, "injected")
  /\ kept' = KeptWithout(thread[t].pid)
  /\ InjectReturns(t)
  /\ UNCHANGED <<storeVars, clients, session, capsule, late, history>>

-----------------------------------------------------------------------------
(* The capsule's side of a connection (client.hpp): it connects and says    *)
(* hello with the token it read; it is cut off; it sees the server's close; *)
(* its process exits.                                                       *)
Connect(p, s) ==
  /\ capsule[p].loaded /\ capsule[p].token # NoToken
  /\ capsule[p].session = NoSession
  /\ session[s].sock = "free"
  /\ session' = [session EXCEPT ![s].sock = "open", ![s].hello = "sent",
                   ![s].reader = TRUE, ![s].token = capsule[p].token,
                   ![s].pid = p]
  /\ capsule' = [capsule EXCEPT ![p].session = s]
  /\ UNCHANGED <<storeVars, kept, clients, late, thread, history>>

HangUp(s) ==
  [session EXCEPT ![s].sock = IF @ = "open" THEN "eof" ELSE @]

CapsuleDrops(p) ==
  /\ capsule[p].session # NoSession
  /\ session' = HangUp(capsule[p].session)
  /\ capsule' = [capsule EXCEPT ![p].session = NoSession]
  /\ UNCHANGED <<storeVars, kept, clients, late, thread, history>>

CapsuleExits(p) ==
  /\ capsule[p].loaded
  /\ session' = IF capsule[p].session = NoSession THEN session
                ELSE HangUp(capsule[p].session)
  /\ capsule' = [capsule EXCEPT ![p] = NoCapsule]
  /\ late' = late \ {p}
  /\ UNCHANGED <<storeVars, kept, clients, thread, history>>

-----------------------------------------------------------------------------
(* injectee_session::process() of a hello, on the io thread.  A hello whose *)
(* token does not match ends the session before it is registered.           *)
StartStop(t, s, end) ==
  thread' = [thread EXCEPT ![t].pc = "close", ![t].s = s, ![t].end = end]

TokenMatches(s) == tokens[session[s].pid] = session[s].token

Hello(s) ==
  /\ At("io", "idle") /\ session[s].hello = "sent"
  /\ session' = [session EXCEPT ![s].hello = "none"]
  /\ IF TokenMatches(s)
       THEN thread' = [thread EXCEPT !["io"].pc = "insert", !["io"].s = s,
                                     !["io"].pid = session[s].pid]
       ELSE StartStop("io", s, "lost")
  /\ UNCHANGED <<storeVars, kept, clients, capsule, late, history>>

(* open(): injector_clients::insert(), then kept_bootstraps::drop(), then   *)
(* the store of the result into opened_.                                    *)
InsertAlwaysOpens ==   \* mutant: opened_ whatever insert() said
  /\ At("io", "insert")
  /\ LET p == thread["io"].pid IN
       /\ clients' = IF Registered(p) THEN clients
                     ELSE [clients EXCEPT ![p] = thread["io"].s]
       /\ Goto("io", "registered")
  /\ UNCHANGED <<storeVars, kept, session, capsule, late, history>>

Insert ==
  /\ At("io", "insert")
  /\ LET p == thread["io"].pid IN
       IF Registered(p)
         THEN UNCHANGED clients /\ Goto("io", "children")
         ELSE clients' = [clients EXCEPT ![p] = thread["io"].s] /\ Goto("io", "registered")
  /\ UNCHANGED <<storeVars, kept, session, capsule, late, history>>

OpenForgetsKept ==   \* mutant: open() without kept.drop()
  /\ At("io", "registered")
  /\ Goto("io", "opened")
  /\ UNCHANGED <<storeVars, kept, clients, session, capsule, late, history>>

OpenDropsKept ==
  /\ At("io", "registered")
  /\ kept' = KeptWithout(thread["io"].pid)
  /\ Goto("io", "opened")
  /\ UNCHANGED <<storeVars, clients, session, capsule, late, history>>

StoreOpenedLost ==   \* mutant: the result of open() is not stored
  /\ At("io", "opened")
  /\ Goto("io", "children")
  /\ UNCHANGED <<storeVars, kept, clients, session, capsule, late, history>>

StoreOpened ==
  /\ At("io", "opened")
  /\ session' = [session EXCEPT ![thread["io"].s].opened = TRUE]
  /\ Goto("io", "children")
  /\ UNCHANGED <<storeVars, kept, clients, capsule, late, history>>

(* The children are enumerated (InjectChild) and the configuration is sent: *)
(* the handler is over.                                                     *)
HelloDone ==
  /\ At("io", "children")
  /\ Return("io")
  /\ UNCHANGED <<storeVars, kept, clients, session, capsule, late, history>>

(* reader() fails: the peer hung up, with what it had sent before read or   *)
(* lost, or a stop() closed the socket.                                     *)
ReaderFails(s) ==
  /\ At("io", "idle")
  /\ session[s].reader /\ session[s].sock \in {"eof", "closed"}
  /\ session[s].hello = "none" \/ session[s].sock = "eof"
  /\ session' = [session EXCEPT ![s].reader = FALSE, ![s].hello = "none"]
  /\ StartStop("io", s, "lost")
  /\ UNCHANGED <<storeVars, kept, clients, capsule, late, history>>

(* injector_server::close(): find the session, and stop it for good.        *)
Close(p) ==
  /\ At("ui", "idle")
  /\ Registered(p)
  /\ thread' = [thread EXCEPT !["ui"].pc = "close", !["ui"].s = clients[p],
                              !["ui"].end = "retired", !["ui"].pid = p]
  /\ UNCHANGED <<storeVars, kept, clients, session, capsule, late, history>>

-----------------------------------------------------------------------------
(* injectee_session::stop(end), on either thread.  A stop that is over on   *)
(* the front end's thread lets close() return true.                         *)
StopReturns(t) ==
  /\ Return(t)
  /\ retired' = IF thread[t].end = "retired" THEN retired \cup {thread[t].pid}
                ELSE retired

StopCloses(t) ==
  /\ At(t, "close")
  /\ session' = [session EXCEPT ![thread[t].s].sock = "closed"]
  /\ capsule' = [p \in Pids |-> IF capsule[p].session = thread[t].s
                                  THEN [capsule[p] EXCEPT !.session = NoSession]
                                  ELSE capsule[p]]
  /\ Goto(t, "exchange")
  /\ UNCHANGED <<storeVars, kept, clients, late, history>>

(* opened_.exchange(false): the thread that finds it set owns the teardown, *)
(* and only that thread reads pid_.                                         *)
StopExchange(t) ==
  /\ At(t, "exchange")
  /\ session' = [session EXCEPT ![thread[t].s].opened = FALSE]
  /\ IF session[thread[t].s].opened
       THEN /\ thread' = [thread EXCEPT ![t].pc = "remove",
                                        ![t].pid = session[thread[t].s].pid]
            /\ UNCHANGED retired
       ELSE StopReturns(t)
  /\ UNCHANGED <<storeVars, kept, clients, capsule, late, revoked, closes>>

(* remove(): a retired pid leaves the record and its token is forgotten; a  *)
(* lost one enters the record as the newest, and the oldest goes, token and *)
(* all, when that is one too many.                                          *)
RemoveRetired(t) ==
  /\ At(t, "remove") /\ thread[t].end = "retired"
  /\ kept' = KeptWithout(thread[t].pid)
  /\ Goto(t, "forget")
  /\ UNCHANGED <<storeVars, clients, session, capsule, late, history>>

KeepOverfull(p) == Append(KeptWithout(p), p)   \* mutant: nothing is evicted

Keep(p) ==
  LET order == Append(KeptWithout(p), p)
  IN  IF Len(order) <= KeptCap THEN order ELSE Tail(order)

Stale(p) ==
  LET order == Append(KeptWithout(p), p)
  IN  IF Len(order) <= KeptCap THEN NoPid ELSE Head(order)

RemoveLostBurns(t) ==   \* mutant, the old M1: a lost session is forgotten
  /\ At(t, "remove") /\ thread[t].end = "lost"
  /\ tokens' = [tokens EXCEPT ![thread[t].pid] = NoToken]
  /\ Goto(t, "erase")
  /\ UNCHANGED <<minted, kept, clients, session, capsule, late, history>>

RemoveLost(t) ==
  /\ At(t, "remove") /\ thread[t].end = "lost"
  /\ kept' = Keep(thread[t].pid)
  /\ LET stale == Stale(thread[t].pid) IN
       IF stale = NoPid THEN Goto(t, "erase")
       ELSE thread' = [thread EXCEPT ![t].pc = "forget", ![t].pid = stale]
  /\ UNCHANGED <<storeVars, clients, session, capsule, late, history>>

(* injector::forget_token(), of the retired pid or of the evicted one.      *)
Forget(t) ==
  /\ At(t, "forget")
  /\ tokens' = [tokens EXCEPT ![thread[t].pid] = NoToken]
  /\ revoked' = revoked \cup {thread[t].pid}
  /\ thread' = [thread EXCEPT ![t].pc = "erase",
                              ![t].pid = session[thread[t].s].pid]
  /\ UNCHANGED <<minted, kept, clients, session, capsule, late, retired, closes>>

Erase(t) ==
  /\ At(t, "erase")
  /\ clients' = [clients EXCEPT ![thread[t].pid] = NoSession]
  /\ Goto(t, "hook")
  /\ UNCHANGED <<storeVars, kept, session, capsule, late, history>>

(* process_close(), the front end's hook.                                   *)
Hook(t) ==
  /\ At(t, "hook")
  /\ closes' = [closes EXCEPT ![thread[t].s] = @ + 1]
  /\ StopReturns(t)
  /\ UNCHANGED <<storeVars, kept, clients, session, capsule, late, revoked>>

-----------------------------------------------------------------------------
InjectStep(t) == \/ Publish(t) \/ PublishFails(t) \/ LoadSucceeds(t)
                 \/ LoadFails(t) \/ InjectDone(t)

HelloStep == Insert \/ OpenDropsKept \/ StoreOpened \/ HelloDone

StopStep(t) == \/ StopCloses(t) \/ StopExchange(t) \/ RemoveRetired(t)
               \/ RemoveLost(t) \/ Forget(t) \/ Erase(t) \/ Hook(t)

ServerNext ==
  \/ \E t \in Threads : InjectStep(t) \/ StopStep(t)
  \/ HelloStep
  \/ \E t \in Threads, p \in Pids : Inject(t, p)
  \/ \E p \in Pids : InjectChild(p) \/ Close(p)
  \/ \E s \in Sessions : Hello(s) \/ ReaderFails(s)
  \/ \E p \in Pids : LateAttach(p) \/ Probe(p) \/ CapsuleDrops(p) \/ CapsuleExits(p)
  \/ \E p \in Pids, s \in Sessions : Connect(p, s)

ServerSpec == ServerInit /\ [][ServerNext]_vars

(* Both threads finish what they have begun, and the io thread runs every   *)
(* handler that is ready: its queue is served in order, so a ready hello or *)
(* a failed read is not passed over for ever (SF), and the children that a  *)
(* hello enumerates are finitely many.  Nothing is owed by the front end or *)
(* by a capsule.                                                            *)
ServerFairness ==
  /\ \A t \in Threads : WF_vars(InjectStep(t)) /\ WF_vars(StopStep(t))
  /\ WF_vars(HelloStep) /\ SF_vars(HelloDone)
  /\ \A s \in Sessions : SF_vars(Hello(s)) /\ SF_vars(ReaderFails(s))

FairServerSpec == ServerSpec /\ ServerFairness

-----------------------------------------------------------------------------
(* What stop()'s exchange is for: whichever threads notice the end of a     *)
(* session, its teardown runs once, it erases its own entry of the table    *)
(* and never that of another session of the same pid.                       *)
OwnTeardown ==
  \A t \in Threads :
    /\ thread[t].pc \in {"remove", "forget", "erase"} =>
         clients[session[thread[t].s].pid] = thread[t].s
    /\ At(t, "hook") => closes[thread[t].s] = 0

(* The record of kept bootstraps is of pids that are away: a registered pid *)
(* is in it only while its teardown or its registration is under way, so an *)
(* eviction can never retire the bootstrap of a session that is up.         *)
KeptAreAway ==
  \A i \in DOMAIN kept :
    Registered(kept[i]) =>
      /\ session[clients[kept[i]]].opened = FALSE
      /\ thread["io"].s = clients[kept[i]]

(* Losing the connection never burns the bootstrap (M1): a capsule that     *)
(* attached with a token is welcome with it until somebody injects its pid  *)
(* again, un-injects it or evicts it from a full record, or the injection   *)
(* that published it is itself rolled back, whatever sessions came and went *)
(* and whichever other injections failed meanwhile.                         *)
StillWelcome ==
  \A p \in Pids :
    capsule[p].loaded /\ capsule[p].token # NoToken /\ p \notin revoked
      => tokens[p] = capsule[p].token

(* A session that ended does not stay in the table: the pid can be injected *)
(* again.                                                                   *)
DeadLeave ==
  \A p \in Pids, s \in Sessions :
    clients[p] = s /\ session[s].sock \in {"eof", "closed"} ~> clients[p] # s

(* server.hpp 468-469: close() "is the one call site that means "retire":   *)
(* the front end's un-inject button runs it, so the bootstrap goes with the *)
(* session".                                                                *)
UninjectForgets == \A p \in retired : tokens[p] = NoToken

(* server.hpp 339-341: "an eviction must never retire the bootstrap that    *)
(* was created a moment ago": while a capsule is being loaded for a fresh   *)
(* bootstrap, no eviction is about to forget it.                            *)
EvictionSparesFresh ==
  \A t, u \in Threads :
    At(t, "forget") /\ thread[t].end = "lost" /\ At(u, "load")
      => thread[u].pid # thread[t].pid
=============================================================================
