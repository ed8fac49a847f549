------------------------------ MODULE Bootstrap ------------------------------
(***************************************************************************)
(* How a capsule comes to life in its host and how it ends: DllMain(),     *)
(* do_client() and get_ipc_payload_waiting() of src/src/injectee/          *)
(* injectee.cpp, hook_create_all() and hook_cleanup_wsa() of               *)
(* src/src/injectee/hook.hpp, over the wrapper in src/src/common/          *)
(* minhook.hpp.                                                            *)
(*                                                                         *)
(* The actors are the loader's thread inside DllMain, the helper thread    *)
(* that unloads a capsule whose hooks could not be made, the client        *)
(* thread, and the host's threads, which call hooked functions all the     *)
(* while.  The mapping that the injector publishes comes and goes.         *)
(***************************************************************************)
EXTENDS Integers, FiniteSets

CONSTANTS Hooks,        \* how many functions are hooked; the last is ConnectEx
          Tries,        \* kMappingProbeTries
          HostThreads   \* the host's threads

ASSUME BootstrapAssumption == Hooks \in Nat \ {0} /\ Tries \in Nat \ {0}

VARIABLES image,     \* the module: "absent", "mapped", "unmapped"
          loader,    \* where the loader's thread is inside DllMain
          created,   \* hooks that exist: 1..created, in the order of the set
          armed,     \* the hooks that are enabled
          wsa,       \* WSAStartup calls of the capsule not yet cleaned up
          started,   \* hook_ConnectEx::wsa_started
          helper,    \* the thread that unloads a half-made capsule
          client,    \* where do_client() is
          payload,   \* the port was read from the mapping
          attempt,   \* get_ipc_payload_waiting()'s counter
          bound,     \* globals bound so far: queue, config, nbio_map
          owners,    \* the objects they point to are alive
          mapping,   \* the injector's mapping has a name
          inside,    \* the host's threads that are inside a detour
          holding    \* those of them that have read a global that was bound

bootVars == <<image, loader, created, armed, wsa, started, helper, client,
              payload, attempt, bound, owners, mapping, inside, holding>>

hookVars   == <<created, armed, wsa, started>>
clientVars == <<client, payload, attempt, bound, owners>>
hostVars   == <<inside, holding>>

BootInit ==
  /\ image = "absent" /\ loader = "none" /\ created = 0 /\ armed = {}
  /\ wsa = 0 /\ started = FALSE /\ helper = "none" /\ client = "none"
  /\ payload = FALSE /\ attempt = 1 /\ bound = 0 /\ owners = FALSE
  /\ mapping = FALSE /\ inside = {} /\ holding = {}

-----------------------------------------------------------------------------
(* DLL_PROCESS_ATTACH, in the remote LoadLibraryW: minhook::init().         *)
Attach ==
  /\ image = "absent"
  /\ image' = "mapped" /\ loader' = "create"
  /\ UNCHANGED <<hookVars, helper, clientVars, mapping, hostVars>>

(* create_hooks<T, Ts...>(): T, then the rest.  The last hook is that of    *)
(* ConnectEx, for which GetConnectEx() starts Winsock; without a pointer    *)
(* there is nothing to hook.                                                *)
CreateHook ==
  /\ loader = "create" /\ created < Hooks
  /\ IF created + 1 = Hooks THEN wsa' = 1 /\ started' = TRUE
                            ELSE UNCHANGED <<wsa, started>>
  /\ created' = created + 1
  /\ loader' = IF created + 1 = Hooks THEN "enable" ELSE "create"
  /\ UNCHANGED <<image, armed, helper, clientVars, mapping, hostVars>>

CreateFails ==
  /\ loader = "create" /\ created < Hooks
  /\ IF created + 1 = Hooks
       THEN \/ UNCHANGED <<wsa, started>>
            \/ wsa' = 1 /\ started' = TRUE
       ELSE UNCHANGED <<wsa, started>>
  /\ loader' = "unroll"
  /\ UNCHANGED <<image, created, armed, helper, clientVars, mapping, hostVars>>

UnrollNever ==   \* mutant: the error is dropped and the hooks are kept
  /\ loader = "unroll"
  /\ loader' = "enable"
  /\ UNCHANGED <<image, hookVars, helper, clientVars, mapping, hostVars>>

UnrollStays ==   \* mutant: nobody is told to unload the module
  /\ loader = "unroll"
  /\ IF created > 0
       THEN created' = created - 1 /\ UNCHANGED loader
       ELSE loader' = "none" /\ UNCHANGED created
  /\ UNCHANGED <<image, armed, wsa, started, helper, clientVars, mapping,
                 hostVars>>

(* The error returns through the frames, each removing its own hook; then   *)
(* DllMain starts the thread that is to unload the module, and returns.     *)
Unroll ==
  /\ loader = "unroll"
  /\ IF created > 0
       THEN created' = created - 1 /\ UNCHANGED <<loader, helper>>
       ELSE loader' = "none" /\ helper' = "running" /\ UNCHANGED created
  /\ UNCHANGED <<image, armed, wsa, started, clientVars, mapping, hostVars>>

(* minhook::enable() (external): all hooks, or those before the one it      *)
(* failed on.  Its status is not looked at.                                 *)
Enable(n) ==
  /\ loader = "enable"
  /\ armed' = 1..n
  /\ loader' = "start"
  /\ UNCHANGED <<image, created, wsa, started, helper, clientVars, mapping,
                 hostVars>>

(* The client thread starts with what get_ipc_payload() reads here and now. *)
StartClient ==
  /\ loader = "start"
  /\ payload' = mapping
  /\ client' = IF mapping THEN "make" ELSE "probe"
  /\ loader' = "none"
  /\ UNCHANGED <<image, hookVars, helper, attempt, bound, owners, mapping,
                 hostVars>>

-----------------------------------------------------------------------------
(* get_ipc_payload_waiting(): one sleep and one read for every attempt.     *)
Probe ==
  /\ client = "probe" /\ attempt < Tries
  /\ payload' = mapping
  /\ attempt' = attempt + 1
  /\ client' = IF mapping THEN "make" ELSE "probe"
  /\ UNCHANGED <<image, loader, hookVars, helper, bound, owners, mapping,
                 hostVars>>

(* No mapping within the budget: the thread returns, before any bind.       *)
GiveUp ==
  /\ client = "probe" /\ attempt = Tries
  /\ client' = "returned"
  /\ UNCHANGED <<image, loader, hookVars, helper, payload, attempt, bound,
                 owners, mapping, hostVars>>

(* The owners are made, then the globals are bound to them one by one.      *)
Make ==
  /\ client = "make"
  /\ owners' = TRUE /\ client' = "bind"
  /\ UNCHANGED <<image, loader, hookVars, helper, payload, attempt, bound,
                 mapping, hostVars>>

Bind ==
  /\ client = "bind"
  /\ bound' = bound + 1
  /\ client' = IF bound + 1 = 3 THEN "run" ELSE "bind"
  /\ UNCHANGED <<image, loader, hookVars, helper, payload, attempt, owners,
                 mapping, hostVars>>

(* run() comes back or something throws: stay_resident(), either way.       *)
RunEnds ==
  /\ client = "run"
  /\ client' = "parked"
  /\ UNCHANGED <<image, loader, hookVars, helper, payload, attempt, bound,
                 owners, mapping, hostVars>>

-----------------------------------------------------------------------------
(* A host thread calls a hooked function: load_scope() takes the global     *)
(* once.  It may be inside for as long as a connect takes.  No host thread  *)
(* is left when the end of the process detaches the module.                 *)
Enter(t) ==
  /\ armed # {} /\ t \notin inside /\ loader # "detach"
  /\ inside' = inside \cup {t}
  /\ holding' = IF bound > 0 THEN holding \cup {t} ELSE holding
  /\ UNCHANGED <<image, loader, hookVars, helper, clientVars, mapping>>

Leave(t) ==
  /\ t \in inside
  /\ inside' = inside \ {t} /\ holding' = holding \ {t}
  /\ UNCHANGED <<image, loader, hookVars, helper, clientVars, mapping>>

(* The injector publishes its mapping, and takes it back.                   *)
Remap ==
  /\ image # "unmapped"
  /\ mapping' = ~mapping
  /\ UNCHANGED <<image, loader, hookVars, helper, clientVars, hostVars>>

-----------------------------------------------------------------------------
(* DLL_PROCESS_DETACH: FreeLibraryAndExitThread() of the helper once the    *)
(* loader lock is free, or the end of the process, whose other threads are  *)
(* no more by then.                                                         *)
Unload ==
  /\ helper = "running" /\ loader = "none"
  /\ helper' = "exited" /\ loader' = "detach"
  /\ UNCHANGED <<image, hookVars, clientVars, mapping, hostVars>>

ProcessEnds ==
  /\ image = "mapped" /\ loader = "none"
  /\ inside' = {} /\ holding' = {} /\ client' = "none" /\ helper' = "exited"
  /\ loader' = "detach"
  /\ UNCHANGED <<image, hookVars, payload, attempt, bound, owners, mapping>>

(* minhook::disable(), minhook::deinit() and hook_cleanup_wsa(), in turn;   *)
(* then the loader takes the image.                                         *)
Detach ==
  \/ /\ loader = "detach" /\ loader' = "deinit"
     /\ armed' = {}
     /\ UNCHANGED <<image, created, wsa, started>>
  \/ /\ loader = "deinit" /\ loader' = "cleanup"
     /\ created' = 0
     /\ UNCHANGED <<image, armed, wsa, started>>
  \/ /\ loader = "cleanup" /\ loader' = "unmap"
     /\ IF started THEN wsa' = wsa - 1 /\ started' = FALSE
                   ELSE UNCHANGED <<wsa, started>>
     /\ UNCHANGED <<image, created, armed>>
  \/ /\ loader = "unmap" /\ loader' = "none"
     /\ image' = "unmapped"
     /\ UNCHANGED hookVars

DetachStep == Detach /\ UNCHANGED <<helper, clientVars, mapping, hostVars>>

BootNext ==
  \/ Attach \/ CreateHook \/ CreateFails \/ Unroll
  \/ \E n \in 0..created : Enable(n)
  \/ StartClient \/ Probe \/ GiveUp \/ Make \/ Bind \/ RunEnds
  \/ \E t \in HostThreads : Enter(t) \/ Leave(t)
  \/ Remap \/ Unload \/ ProcessEnds \/ DetachStep

BootSpec == BootInit /\ [][BootNext]_bootVars

-----------------------------------------------------------------------------
(* "A hooking DLL has to outlive the hooks it installed" (injectee.cpp 122) *)
(* and "a half-initialized hook set must never go live" (217): while a hook *)
(* is enabled, or a thread is inside a detour or in the client's code, the  *)
(* image is mapped; nothing is enabled unless the whole set was created     *)
(* with Winsock started behind it; what a detour has read of the globals is *)
(* alive for as long as it is inside; and an image that is gone has left no *)
(* hook and no Winsock reference.                                           *)
NothingDangles ==
  /\ armed # {} \/ inside # {} => image = "mapped"
  /\ client \notin {"none", "returned"} => image = "mapped"
  /\ armed # {} => created = Hooks /\ wsa = 1
  /\ holding # {} \/ bound > 0 => owners
  /\ image = "unmapped" => created = 0 /\ wsa = 0

(* A capsule whose hook set could not be made never stays: whenever no      *)
(* thread is in DllMain, either the whole set exists or the thread that     *)
(* will unload the module is on its way, with no client thread left behind  *)
(* in it and the globals never bound (injectee.cpp 216-223).                *)
HalfMadeLeaves ==
  image = "mapped" /\ loader = "none" /\ created < Hooks =>
    helper = "running" /\ client = "none" /\ bound = 0 /\ inside = {}
=============================================================================
