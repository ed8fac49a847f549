----------------------------- MODULE ConfigPush -----------------------------
(***************************************************************************)
(* How a configuration reaches one session: injector_server's setters and  *)
(* broadcast_config() on the front end's thread, the hello's answer in     *)
(* injectee_session::process() and the config() coroutines on the io       *)
(* thread (src/src/injector/server.hpp), and async_write_message(), which  *)
(* writes a length and then a body (src/src/common/async_io.hpp).          *)
(*                                                                         *)
(* A configuration is its version, a count of the setter calls.            *)
(***************************************************************************)
EXTENDS Integers, Sequences

CONSTANTS MaxSets,      \* bound: setter calls
          MaxSessions   \* bound: sessions, one after the other

ASSUME PushAssumption == MaxSets \in Nat /\ MaxSessions \in Nat

VARIABLES config,     \* config_, under config_mutex
          registered, \* the session is in injector_clients
          hello,      \* where process() of the hello is, on the io thread
          answer,     \* the configuration process() took with get_config()
          spawned,    \* config() coroutines posted and not yet begun
          writes,     \* async_writes in flight, in the order they began
          told,       \* the configuration last begun, -1 if none
          sessions    \* sessions so far

vars == <<config, registered, hello, answer, spawned, writes, told, sessions>>

Part(what, v) == [what |-> what, v |-> v]

PushInit ==
  /\ config = 0 /\ registered = FALSE /\ hello = "none" /\ answer = 0
  /\ spawned = <<>> /\ writes = <<>> /\ told = -1 /\ sessions = 0

(* async_write_message(): the length is handed to the socket.               *)
BeginMessage(v) ==
  /\ writes' = Append(writes, Part("len", v))
  /\ told' = v

-----------------------------------------------------------------------------
(* set_proxy(), clear_proxy(), set_proxy_credentials(), enable_log() and    *)
(* the like: change config_ and broadcast it, under config_mutex.  The      *)
(* broadcast posts one config() for every session in the table.             *)
SetSilently ==   \* mutant: config_ changes and nothing is broadcast
  /\ config < MaxSets
  /\ config' = config + 1
  /\ UNCHANGED <<registered, hello, answer, spawned, writes, told, sessions>>

Set ==
  /\ config < MaxSets
  /\ config' = config + 1
  /\ spawned' = IF registered THEN Append(spawned, config + 1) ELSE spawned
  /\ UNCHANGED <<registered, hello, answer, writes, told, sessions>>

-----------------------------------------------------------------------------
(* The io thread is inside process() from the hello to the write of the     *)
(* answer, blocked there while it injects the children it enumerates.       *)
IoFree == hello \in {"none", "done"}

Accept ==
  /\ hello = "none" /\ ~registered
  /\ sessions < MaxSessions
  /\ sessions' = sessions + 1
  /\ hello' = "open"
  /\ UNCHANGED <<config, registered, answer, spawned, writes, told>>

(* open() registers the session, and get_config() is called after it.       *)
OpenAfterAnswer ==   \* mutant: get_config() before open()
  \/ /\ hello = "open"
     /\ answer' = config
     /\ hello' = "config"
     /\ UNCHANGED <<config, registered, spawned, writes, told, sessions>>
  \/ /\ hello = "config"
     /\ registered' = TRUE
     /\ hello' = "write"
     /\ UNCHANGED <<config, answer, spawned, writes, told, sessions>>

OpenThenAnswer ==
  \/ /\ hello = "open"
     /\ registered' = TRUE
     /\ hello' = "config"
     /\ UNCHANGED <<config, answer, spawned, writes, told, sessions>>
  \/ /\ hello = "config"
     /\ answer' = config
     /\ hello' = "write"
     /\ UNCHANGED <<config, registered, spawned, writes, told, sessions>>

Answer ==
  /\ hello = "write"
  /\ BeginMessage(answer)
  /\ hello' = "done"
  /\ UNCHANGED <<config, registered, answer, spawned, sessions>>

(* A posted config() begins.                                                *)
RunConfig ==
  /\ IoFree /\ spawned # <<>>
  /\ BeginMessage(Head(spawned))
  /\ spawned' = Tail(spawned)
  /\ UNCHANGED <<config, registered, hello, answer, sessions>>

(* The oldest async_write completes: after a length its body is written.    *)
WriteCompletes ==
  /\ IoFree /\ writes # <<>>
  /\ LET w == Head(writes) IN
       writes' = IF w.what = "len" THEN Append(Tail(writes), Part("body", w.v))
                                   ELSE Tail(writes)
  /\ UNCHANGED <<config, registered, hello, answer, spawned, told, sessions>>

(* The session is lost and removed; what was posted for it fails.           *)
Lose ==
  /\ IoFree /\ registered
  /\ registered' = FALSE /\ hello' = "none" /\ answer' = 0
  /\ spawned' = <<>> /\ writes' = <<>> /\ told' = -1
  /\ UNCHANGED <<config, sessions>>

IoThread == \/ Accept \/ OpenThenAnswer \/ Answer
            \/ RunConfig \/ WriteCompletes \/ Lose

PushNext == Set \/ IoThread

PushSpec == PushInit /\ [][PushNext]_vars

(* The io thread runs what is posted to it.                                 *)
PushFairness ==
  /\ WF_vars(OpenThenAnswer) /\ WF_vars(Answer) /\ WF_vars(RunConfig)
  /\ WF_vars(WriteCompletes)

-----------------------------------------------------------------------------
(* No configuration is missed: a session that was answered, with nothing    *)
(* posted for it any more, was last handed the current configuration, no    *)
(* matter how its registration and its answer interleave with the setters.  *)
NothingMissed ==
  hello = "done" /\ spawned = <<>> => told = config

(* A session that stays is brought up to date after every change.           *)
BroughtUpToDate ==
  []<>(~registered \/ told = config)

(* Every setter pushes the result "to every session already connected"      *)
(* (server.hpp 384-386): what a session is sent is a sequence of messages,  *)
(* so none is begun while the length of another is being written and its    *)
(* body has yet to follow (async_io.hpp).                                   *)
WholeMessages ==
  \A i, j \in 1..Len(writes) :
    writes[i].what = "len" /\ writes[j].what = "len" => i = j
=============================================================================
