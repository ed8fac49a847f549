--------------------------- MODULE InjecteeClient ---------------------------
(***************************************************************************)
(* injectee_client and injectee_config of src/src/injectee/client.hpp: the *)
(* control session that one injected process keeps with its injector, on   *)
(* the io thread of do_client() (injectee.cpp), over the report queue.     *)
(*                                                                         *)
(* The io thread runs one handler at a time; the host's own threads push   *)
(* reports at any moment.  A coroutine is a variable that says what it     *)
(* waits for.  A writer() is a popper of the report queue; a configuration *)
(* is its version number at the injector, 0 being "none has arrived".      *)
(* The injector is the environment: it comes and goes, closes a session,   *)
(* and sends its current configuration to a session that said hello and to *)
(* every session when it changes.                                          *)
(***************************************************************************)
EXTENDS ReportQueue

CONSTANTS BackoffStart, BackoffCap, ReconnectBudget,  \* seconds
          ConnectTime,  \* seconds a refused connect may take
          MaxConfig,    \* bound: configuration versions of the injector
          MaxLosses     \* bound: sessions or injectors lost

ASSUME ClientAssumption ==
  /\ BackoffStart \in Nat \ {0} /\ BackoffCap \in Nat /\ BackoffStart <= BackoffCap
  /\ ReconnectBudget \in Nat /\ ConnectTime \in Nat
  /\ MaxConfig \in Nat \ {0} /\ MaxLosses \in Nat
  /\ Cardinality(Poppers) > MaxLosses   \* one writer() per session at least
  /\ Poppers \cap {"nobody", "reader", "start"} = {}

VARIABLES sock,          \* socket_: closed, connecting, open, or dead (lost)
          opening,       \* where open_session() stands: no, connect, hello
          reader,        \* a reader() waits for a message
          task,          \* each writer(): none, in pop(), or in a write
          stopper,       \* whose handler is inside stop(): see NoStop
          reconnecting,  \* reconnecting_
          timer,         \* timer_ is armed
          backoff,       \* backoff_
          elapsed,       \* seconds since deadline_ was set
          gaveUp,        \* give_up() ran
          cfg, pinned, live,          \* injectee_config
          arrived,       \* process() coroutines spawned and not yet run
          inbound,       \* configurations on their way on this connection
          greeted,       \* the injector has answered this session's hello
          injectorUp,    \* the injector listens
          latest,        \* its current configuration
          losses

sessionVars == <<sock, opening, reader, task, stopper>>
retryVars   == <<reconnecting, timer, backoff, elapsed, gaveUp>>
configVars  == <<cfg, pinned, live, arrived>>
injectorVars == <<inbound, greeted, injectorUp, latest, losses>>
clientVars  == <<sessionVars, retryVars, configVars, injectorVars>>
vars        == <<queueVars, clientVars>>

NoStop == "nobody"

(* What every variable ranges over.                                         *)
ClientTypeOK ==
  /\ QueueTypeOK
  /\ sock \in {"closed", "connecting", "open", "dead"}
  /\ opening \in {"no", "connect", "hello"}
  /\ reader \in BOOLEAN
  /\ task \in [Poppers -> {"none", "pop", "write"}]
  /\ stopper \in Poppers \cup {NoStop, "reader", "start"}
  /\ reconnecting \in BOOLEAN /\ timer \in BOOLEAN /\ gaveUp \in BOOLEAN
  /\ backoff \in BackoffStart..BackoffCap
  /\ elapsed \in Nat
  /\ cfg \in 0..latest /\ pinned \in 0..latest /\ live \in BOOLEAN
  /\ arrived \in Seq(0..latest) /\ inbound \in Seq(0..latest)
  /\ greeted \in BOOLEAN /\ injectorUp \in BOOLEAN
  /\ latest \in 0..MaxConfig /\ losses \in 0..MaxLosses

(* do_client() has spawned start().                                         *)
ClientInit ==
  /\ QueueInit
  /\ sock = "connecting" /\ opening = "connect"
  /\ reader = FALSE /\ task = [w \in Poppers |-> "none"] /\ stopper = NoStop
  /\ reconnecting = FALSE /\ timer = FALSE /\ backoff = BackoffStart
  /\ elapsed = 0 /\ gaveUp = FALSE
  /\ cfg = 0 /\ pinned = 0 /\ live = FALSE /\ arrived = <<>>
  /\ inbound = <<>> /\ greeted = FALSE /\ injectorUp = TRUE
  /\ latest = 1 /\ losses = 0

(* injectee_config::get(): what the detours route by.                       *)
Route == IF live THEN cfg ELSE pinned

(* No handler is in the middle of stop().                                   *)
Free == IoFree /\ stopper = NoStop

Running == {w \in Poppers : task[w] # "none"}

-----------------------------------------------------------------------------
(* open_session() and its two callers.  The connect and the hello's write   *)
(* are the points where it suspends.                                        *)
Connected ==
  /\ Free
  /\ opening = "connect" /\ sock = "connecting" /\ injectorUp
  /\ sock' = "open" /\ opening' = "hello"
  /\ inbound' = <<>> /\ greeted' = FALSE
  /\ UNCHANGED <<reader, task, stopper, retryVars, configVars, injectorUp,
                 latest, losses, queueVars>>

(* The hello is written: start() and attempt() both spawn reader() and      *)
(* writer(), and attempt() also leaves reconnect mode.  The spawned writer  *)
(* is in its first pop() before anything the session brings is handled.     *)
SessionUpStillReconnecting ==   \* mutant: reconnecting_ is not cleared
  /\ Free
  /\ opening = "hello" /\ sock = "open"
  /\ opening' = "no"
  /\ reader' = TRUE
  /\ \E w \in Poppers \ Running : Pop(w) /\ task' = [task EXCEPT ![w] = "pop"]
  /\ backoff' = BackoffStart
  /\ UNCHANGED <<sock, stopper, reconnecting, timer, elapsed, gaveUp,
                 configVars, injectorVars>>

SessionUpUnread ==              \* mutant: only the writer() is spawned
  /\ Free
  /\ opening = "hello" /\ sock = "open"
  /\ opening' = "no"
  /\ \E w \in Poppers \ Running : Pop(w) /\ task' = [task EXCEPT ![w] = "pop"]
  /\ reconnecting' = FALSE
  /\ backoff' = BackoffStart
  /\ UNCHANGED <<sock, reader, stopper, timer, elapsed, gaveUp, configVars,
                 injectorVars>>

SessionUp ==
  /\ Free
  /\ opening = "hello" /\ sock = "open"
  /\ opening' = "no"
  /\ reader' = TRUE
  /\ \E w \in Poppers \ Running : Pop(w) /\ task' = [task EXCEPT ![w] = "pop"]
  /\ reconnecting' = FALSE
  /\ backoff' = BackoffStart
  /\ UNCHANGED <<sock, stopper, timer, elapsed, gaveUp, configVars,
                 injectorVars>>

(* open_session() throws: nobody listens, the connection was lost during    *)
(* the hello, or the socket was closed under it.                            *)
OpenThrows ==
  /\ Free
  /\ \/ opening = "connect" /\ (~injectorUp \/ sock = "closed")
     \/ opening = "hello" /\ sock \in {"dead", "closed"}

(* In start(): the policy of a mid-session loss.                            *)
StartFails ==
  /\ OpenThrows /\ ~reconnecting
  /\ opening' = "no"
  /\ stopper' = "start"
  /\ UNCHANGED <<sock, reader, task, retryVars, configVars, injectorVars,
                 queueVars>>

(* The next delay, and whether the budget is spent after e seconds.         *)
NextBackoffUncapped == 2 * backoff   \* mutant

NextBackoff == IF 2 * backoff < BackoffCap THEN 2 * backoff ELSE BackoffCap

OutOfBudget(e) == e >= ReconnectBudget

(* In attempt(): close, then give up when out of budget, or arm the timer   *)
(* with twice the delay, up to the cap.                                     *)
AttemptFailsUnarmed ==   \* mutant: the timer is not armed again
  /\ OpenThrows /\ reconnecting
  /\ opening' = "no" /\ sock' = "closed"
  /\ \E d \in {0, ConnectTime} : elapsed' = elapsed + d
  /\ IF OutOfBudget(elapsed')
       THEN gaveUp' = TRUE /\ timer' = FALSE /\ UNCHANGED backoff
       ELSE backoff' = NextBackoff /\ UNCHANGED <<timer, gaveUp>>
  /\ UNCHANGED <<reader, task, stopper, reconnecting, configVars, injectorVars,
                 queueVars>>

AttemptFails ==
  /\ OpenThrows /\ reconnecting
  /\ opening' = "no" /\ sock' = "closed"
  /\ \E d \in {0, ConnectTime} : elapsed' = elapsed + d
  /\ IF OutOfBudget(elapsed')
       THEN gaveUp' = TRUE /\ timer' = FALSE /\ UNCHANGED backoff
       ELSE backoff' = NextBackoff /\ timer' = TRUE /\ UNCHANGED gaveUp
  /\ UNCHANGED <<reader, task, stopper, reconnecting, configVars, injectorVars,
                 queueVars>>

-----------------------------------------------------------------------------
(* reader(): every message is handed to a process() of its own.             *)
ReadMessage ==
  /\ Free
  /\ reader /\ sock \in {"open", "dead"} /\ inbound # <<>>
  /\ arrived' = Append(arrived, Head(inbound))
  /\ inbound' = Tail(inbound)
  /\ UNCHANGED <<sessionVars, retryVars, cfg, pinned, live, greeted,
                 injectorUp, latest, losses, queueVars>>

ReadFails ==
  /\ Free
  /\ reader /\ sock \in {"dead", "closed"}
  /\ reader' = FALSE
  /\ stopper' = "reader"
  /\ UNCHANGED <<sock, opening, task, retryVars, configVars, injectorVars,
                 queueVars>>

(* process(): injectee_config::set() with the message's configuration.      *)
Process ==
  /\ Free
  /\ arrived # <<>>
  /\ cfg' = Head(arrived) /\ pinned' = Head(arrived) /\ live' = TRUE
  /\ arrived' = Tail(arrived)
  /\ UNCHANGED <<sessionVars, retryVars, injectorVars, queueVars>>

-----------------------------------------------------------------------------
(* writer() w: pop() and write, until either throws.                        *)
WriterSkips(w) ==
  /\ Free /\ task[w] = "pop"
  /\ SkipToken(w)
  /\ UNCHANGED clientVars

(* An item arrives: the write is begun, or fails at once on a socket that   *)
(* is not connected.                                                        *)
WriterTakes(w) ==
  /\ Free /\ task[w] = "pop"
  /\ TakeItem(w)
  /\ IF sock \in {"open", "dead"}
       THEN task' = [task EXCEPT ![w] = "write"] /\ UNCHANGED stopper
       ELSE task' = [task EXCEPT ![w] = "none"] /\ stopper' = w
  /\ UNCHANGED <<sock, opening, reader, retryVars, configVars, injectorVars>>

WriteDone(w) ==
  /\ Free /\ task[w] = "write" /\ sock \in {"open", "dead"}
  /\ task' = [task EXCEPT ![w] = "pop"]
  /\ Pop(w)
  /\ UNCHANGED <<sock, opening, reader, stopper, retryVars, configVars,
                 injectorVars>>

WriteFails(w) ==
  /\ Free /\ task[w] = "write" /\ sock # "open"
  /\ task' = [task EXCEPT ![w] = "none"]
  /\ stopper' = w
  /\ UNCHANGED <<sock, opening, reader, retryVars, configVars, injectorVars,
                 queueVars>>

WriterCancelled(w) ==
  /\ Free /\ task[w] = "pop"
  /\ Rethrow(w)
  /\ task' = [task EXCEPT ![w] = "none"]
  /\ stopper' = w
  /\ UNCHANGED <<sock, opening, reader, retryVars, configVars, injectorVars>>

-----------------------------------------------------------------------------
(* stop() and begin_reconnect(), called by whoever noticed the loss.  The   *)
(* queue's cancel() is three steps, between which only the host's threads   *)
(* run; the last step carries the rest of stop() and begin_reconnect().     *)
StopCancels == stopper # NoStop /\ CancelChannel /\ UNCHANGED clientVars

StopDrains == stopper # NoStop /\ CancelDrain /\ UNCHANGED clientVars

BeginReconnectUnguarded ==   \* mutant: every caller starts a schedule
  /\ reconnecting' = TRUE
  /\ backoff' = BackoffStart
  /\ elapsed' = 0
  /\ timer' = TRUE
  /\ UNCHANGED gaveUp

BeginReconnect ==
  \/ /\ reconnecting
     /\ UNCHANGED retryVars
  \/ /\ ~reconnecting
     /\ reconnecting' = TRUE
     /\ backoff' = BackoffStart
     /\ elapsed' = 0
     /\ timer' = TRUE
     /\ UNCHANGED gaveUp

(* injectee_config::drop() marks the session down and keeps the rest.       *)
DropClears == live' = FALSE /\ cfg' = 0 /\ pinned' = 0   \* mutant

Drop == live' = FALSE /\ UNCHANGED <<cfg, pinned>>

StopEnds ==
  /\ stopper # NoStop
  /\ CancelCount
  /\ Drop
  /\ sock' = "closed"     \* close_socket()
  /\ BeginReconnect
  /\ stopper' = NoStop
  /\ UNCHANGED <<opening, reader, task, arrived, injectorVars>>

-----------------------------------------------------------------------------
(* The timer is a second away or more and the io thread's handlers are run  *)
(* in order, so all that was ready when it was armed has run: what is left  *)
(* waits for a token or for the injector.                                   *)
Quiet ==
  /\ Free
  /\ opening = "no" /\ arrived = <<>> /\ unsent = 0
  /\ reader => sock = "open"
  /\ \A w \in Poppers : task[w] # "none" => task[w] = "pop" /\ popper[w] = "parked"

(* The timer expires: attempt() runs into its connect.                      *)
Attempt ==
  /\ Quiet /\ timer
  /\ timer' = FALSE
  /\ elapsed' = elapsed + backoff
  /\ opening' = "connect" /\ sock' = "connecting"
  /\ UNCHANGED <<reader, task, stopper, reconnecting, backoff, gaveUp,
                 configVars, injectorVars, queueVars>>

-----------------------------------------------------------------------------
(* The host's threads report a connect; the channel runs the queue's sends  *)
(* while the io thread is in run(), that is, until give_up() leaves it      *)
(* without work.                                                            *)
Report == Push /\ UNCHANGED clientVars

RunSends ==
  /\ Free
  /\ gaveUp => Running # {}
  /\ SendToken
  /\ UNCHANGED clientVars

(* The injector answers a hello, changes its configuration, closes this     *)
(* session, goes away, comes back.  Its answer may overtake two broadcasts  *)
(* that were posted when the session was registered (module ConfigPush).    *)
InjectorGreets ==
  /\ sock = "open" /\ opening = "no" /\ ~greeted
  /\ greeted' = TRUE
  /\ \/ inbound' = Append(inbound, latest)
     \/ latest > 1 /\ inbound' = inbound \o <<latest, latest - 1, latest>>
  /\ UNCHANGED <<sessionVars, retryVars, configVars, injectorUp, latest,
                 losses, queueVars>>

InjectorChanges ==
  /\ injectorUp /\ latest < MaxConfig
  /\ latest' = latest + 1
  /\ inbound' = IF sock = "open" /\ greeted THEN Append(inbound, latest + 1)
                                            ELSE inbound
  /\ UNCHANGED <<sessionVars, retryVars, configVars, greeted, injectorUp,
                 losses, queueVars>>

InjectorLost ==
  /\ injectorUp /\ losses < MaxLosses
  /\ losses' = losses + 1
  /\ injectorUp' \in BOOLEAN
  /\ injectorUp' => sock = "open"   \* closing a session needs one
  /\ sock' = IF sock = "open" THEN "dead" ELSE sock
  /\ UNCHANGED <<opening, reader, task, stopper, retryVars, configVars,
                 inbound, greeted, latest, queueVars>>

InjectorReturns ==
  /\ ~injectorUp
  /\ injectorUp' = TRUE
  /\ UNCHANGED <<sessionVars, retryVars, configVars, inbound, greeted, latest,
                 losses, queueVars>>

-----------------------------------------------------------------------------
Writer(w) == \/ WriterSkips(w) \/ WriterTakes(w) \/ WriteDone(w)
             \/ WriteFails(w) \/ WriterCancelled(w)

Open == Connected \/ SessionUp \/ StartFails \/ AttemptFails

Stop == StopCancels \/ StopDrains \/ StopEnds

ClientNext ==
  \/ Open \/ ReadMessage \/ ReadFails \/ Process \/ Stop \/ Attempt \/ RunSends
  \/ \E w \in Poppers : Writer(w)
  \/ Report
  \/ InjectorGreets \/ InjectorChanges \/ InjectorLost \/ InjectorReturns

ClientSpec == ClientInit /\ [][ClientNext]_vars

(* The io thread runs every handler that is ready and every timer that      *)
(* expires; an injector that is up answers a hello.  Nothing is owed by the *)
(* host's threads, and the injector may stay away for ever.                 *)
ClientFairness ==
  /\ WF_vars(Open) /\ WF_vars(ReadMessage) /\ WF_vars(ReadFails)
  /\ WF_vars(Process) /\ WF_vars(Stop) /\ WF_vars(Attempt) /\ WF_vars(RunSends)
  /\ \A w \in Poppers : WF_vars(Writer(w))
  /\ WF_vars(InjectorGreets)

FairClientSpec == ClientSpec /\ ClientFairness

-----------------------------------------------------------------------------
(* The client is never left with nobody to bring the session back: unless   *)
(* it gave up, it is opening one, reading one, unwinding one or waiting for *)
(* the timer, however reader() and the writers interleave their stop() and  *)
(* begin_reconnect() with an attempt().                                     *)
SomebodyDrives ==
  gaveUp \/ opening # "no" \/ reader \/ stopper # NoStop \/ timer

(* ... and by one at a time: no timer runs against an attempt or a session  *)
(* that is up, and an attempt never meets the reader() of an older session. *)
OneDriver ==
  /\ timer => opening = "no" /\ reconnecting /\ ~gaveUp
  /\ opening # "no" => ~reader /\ ~gaveUp
  /\ reader /\ sock = "open" => ~reconnecting

(* Routing is pinned: what the detours route by changes only to the next    *)
(* configuration the injector sent.  Losing the injector, reconnecting and  *)
(* giving up leave it alone; in particular it never returns to none, which  *)
(* would be a silent direct connect (client.hpp 100-104).                   *)
RoutePinned ==
  [][Route' # Route => arrived # <<>> /\ Route' = Head(arrived) /\ Route' # 0]_vars

(* An injector that stays away is given up on.                              *)
GivesUp == <>[]~injectorUp => <>gaveUp

(* One that stays is reconnected to, and its current configuration is what  *)
(* the process ends up routing by, unless the client had given up before.   *)
Converges ==
  <>[]injectorUp => <>[](gaveUp \/ (reader /\ sock = "open" /\ Route = latest))
=============================================================================
