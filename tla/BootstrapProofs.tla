--------------------------- MODULE BootstrapProofs ---------------------------
(***************************************************************************)
(* A capsule outlives its hooks, for every number of hooks, attempts and   *)
(* host threads.                                                           *)
(***************************************************************************)
EXTENDS Bootstrap, TLAPS

Leaving == {"detach", "deinit", "cleanup", "unmap"}

(* Nobody is in the module: no client thread, no host thread in a detour.   *)
Quiet == client = "none" /\ inside = {} /\ holding = {}

(* Nothing of the module was ever alive.                                    *)
Untouched == Quiet /\ armed = {} /\ bound = 0

Whole == created = Hooks /\ wsa = 1

(* What is true at each place the loader's thread can be, and, between its  *)
(* calls, of a module that is not there yet, whole, half-made or gone.      *)
LoaderInv ==
  /\ loader \notin {"none"} => image = "mapped"
  /\ loader = "create" => Untouched /\ helper = "none" /\ created < Hooks /\ wsa = 0
  /\ loader = "unroll" => Untouched /\ helper = "none" /\ created < Hooks
  /\ loader = "enable" => Untouched /\ helper = "none" /\ Whole
  /\ loader = "start" => helper = "none" /\ Whole /\ client = "none" /\ bound = 0
  /\ loader \in Leaving => Quiet /\ helper = "exited"
  /\ loader = "detach" => armed = {} \/ Whole
  /\ loader \in {"deinit", "cleanup", "unmap"} => armed = {}
  /\ loader \in {"cleanup", "unmap"} => created = 0
  /\ loader = "unmap" => wsa = 0
  /\ image = "mapped" /\ loader = "none" =>
       \/ Whole /\ helper = "none"
       \/ Untouched /\ helper = "running" /\ created < Hooks
  /\ image = "absent" => Untouched /\ helper = "none" /\ created = 0 /\ wsa = 0
  /\ image = "unmapped" => Quiet /\ armed = {} /\ helper = "exited"
                           /\ created = 0 /\ wsa = 0

(* The globals are bound by a client that has made their owners.            *)
OwnerInv ==
  /\ started => wsa = 1
  /\ ~started => wsa = 0
  /\ bound > 0 => owners
  /\ client \in {"bind", "run", "parked"} => owners
  /\ client \in {"probe", "make"} => bound = 0
  /\ client = "bind" => bound < 3
  /\ holding # {} => bound > 0

(* The counters and the places of the two main actors stay in range.        *)
RangeInv ==
  /\ created \in 0..Hooks /\ wsa \in 0..1 /\ bound \in 0..3
  /\ image \in {"absent", "mapped", "unmapped"}
  /\ loader \in {"none", "create", "unroll", "enable", "start"} \cup Leaving

BootInv == RangeInv /\ LoaderInv /\ OwnerInv

(* The three parts of the invariant hold together, step by step.            *)
LEMMA BootInductive == BootSpec => []BootInv
<1> USE BootstrapAssumption DEF Quiet, Untouched, Whole, Leaving
<1>1. BootInit => BootInv
  <2> SUFFICES ASSUME BootInit PROVE BootInv
    OBVIOUS
  <2>1. RangeInv
    BY DEF BootInit, RangeInv
  <2>2. LoaderInv /\ OwnerInv
    BY DEF BootInit, LoaderInv, OwnerInv
  <2> QED
    BY <2>1, <2>2 DEF BootInv
<1>2. ASSUME BootInv, [BootNext]_bootVars
      PROVE  BootInv'
  <2> USE DEF BootInv, hookVars, clientVars, hostVars
  <2>1. CASE Attach
    BY <1>2, <2>1 DEF Attach, RangeInv, LoaderInv, OwnerInv
  <2>2. CASE CreateHook
    <3>1. RangeInv'
      BY <1>2, <2>2 DEF CreateHook, RangeInv, LoaderInv, OwnerInv
    <3>2. LoaderInv'
      BY <1>2, <2>2 DEF CreateHook, RangeInv, LoaderInv, OwnerInv
    <3>3. OwnerInv'
      BY <1>2, <2>2 DEF CreateHook, RangeInv, LoaderInv, OwnerInv
    <3> QED
      BY <3>1, <3>2, <3>3
  <2>3. CASE CreateFails
    <3>1. RangeInv'
      BY <1>2, <2>3 DEF CreateFails, RangeInv, LoaderInv, OwnerInv
    <3>2. LoaderInv'
      BY <1>2, <2>3 DEF CreateFails, RangeInv, LoaderInv, OwnerInv
    <3>3. OwnerInv'
      BY <1>2, <2>3 DEF CreateFails, RangeInv, LoaderInv, OwnerInv
    <3> QED
      BY <3>1, <3>2, <3>3
  <2>4. CASE Unroll
    BY <1>2, <2>4 DEF Unroll, RangeInv, LoaderInv, OwnerInv
  <2>5. ASSUME NEW n \in 0..created, Enable(n)
        PROVE  BootInv'
    BY <1>2, <2>5 DEF Enable, RangeInv, LoaderInv, OwnerInv
  <2>6. CASE StartClient
    <3>1. RangeInv'
      BY <1>2, <2>6 DEF StartClient, RangeInv, LoaderInv, OwnerInv
    <3>2. LoaderInv'
      BY <1>2, <2>6 DEF StartClient, RangeInv, LoaderInv, OwnerInv
    <3>3. OwnerInv'
      BY <1>2, <2>6 DEF StartClient, RangeInv, LoaderInv, OwnerInv
    <3> QED
      BY <3>1, <3>2, <3>3
  <2>7. CASE Probe
    BY <1>2, <2>7 DEF Probe, RangeInv, LoaderInv, OwnerInv
  <2>8. CASE GiveUp
    BY <1>2, <2>8 DEF GiveUp, RangeInv, LoaderInv, OwnerInv
  <2>9. CASE Make
    <3>1. RangeInv' /\ LoaderInv'
      BY <1>2, <2>9 DEF Make, RangeInv, LoaderInv
    <3>2. owners' /\ client' = "bind" /\ UNCHANGED <<started, wsa, bound, holding>>
      BY <2>9 DEF Make
    <3>3. bound < 3
      BY <1>2, <2>9 DEF Make, OwnerInv
    <3>4. OwnerInv'
      BY <1>2, <3>2, <3>3 DEF OwnerInv
    <3> QED
      BY <3>1, <3>4
  <2>10. CASE Bind
    BY <1>2, <2>10 DEF Bind, RangeInv, LoaderInv, OwnerInv
  <2>11. CASE RunEnds
    BY <1>2, <2>11 DEF RunEnds, RangeInv, LoaderInv, OwnerInv
  <2>12. ASSUME NEW t \in HostThreads, Enter(t)
         PROVE  BootInv'
    <3>1. /\ image = "mapped" /\ Whole /\ helper = "none"
          /\ loader \in {"none", "start"}
      BY <1>2, <2>12 DEF Enter, RangeInv, LoaderInv
    <3>2. RangeInv' /\ LoaderInv'
      BY <1>2, <2>12, <3>1 DEF Enter, RangeInv, LoaderInv
    <3>3. OwnerInv'
      BY <1>2, <2>12 DEF Enter, OwnerInv
    <3> QED
      BY <3>2, <3>3
  <2>13. ASSUME NEW t \in HostThreads, Leave(t)
         PROVE  BootInv'
    BY <1>2, <2>13 DEF Leave, RangeInv, LoaderInv, OwnerInv
  <2>14. CASE Remap
    BY <1>2, <2>14 DEF Remap, RangeInv, LoaderInv, OwnerInv
  <2>15. CASE Unload
    BY <1>2, <2>15 DEF Unload, RangeInv, LoaderInv, OwnerInv
  <2>16. CASE ProcessEnds
    <3>1. RangeInv'
      BY <1>2, <2>16 DEF ProcessEnds, RangeInv, LoaderInv, OwnerInv
    <3>2. LoaderInv'
      BY <1>2, <2>16 DEF ProcessEnds, RangeInv, LoaderInv, OwnerInv
    <3>3. OwnerInv'
      BY <1>2, <2>16 DEF ProcessEnds, RangeInv, LoaderInv, OwnerInv
    <3> QED
      BY <3>1, <3>2, <3>3
  <2>17. CASE DetachStep
    <3>1. RangeInv'
      BY <1>2, <2>17 DEF DetachStep, Detach, RangeInv, LoaderInv, OwnerInv
    <3>2. LoaderInv'
      BY <1>2, <2>17 DEF DetachStep, Detach, RangeInv, LoaderInv, OwnerInv
    <3>3. OwnerInv'
      BY <1>2, <2>17 DEF DetachStep, Detach, RangeInv, LoaderInv, OwnerInv
    <3> QED
      BY <3>1, <3>2, <3>3
  <2>18. CASE UNCHANGED bootVars
    BY <1>2, <2>18 DEF bootVars, RangeInv, LoaderInv, OwnerInv
  <2> QED
    BY <1>2, <2>1, <2>2, <2>3, <2>4, <2>5, <2>6, <2>7, <2>8, <2>9, <2>10,
       <2>11, <2>12, <2>13, <2>14, <2>15, <2>16, <2>17, <2>18 DEF BootNext
<1> QED
  BY <1>1, <1>2, PTL DEF BootSpec

(* The module is there for as long as a hook is enabled, a host thread is   *)
(* inside a detour or the client thread runs, what the detours read is      *)
(* alive, nothing is enabled of a set that is not whole, and a module that  *)
(* left has left nothing (injectee.cpp DllMain(), do_client()).             *)
THEOREM CapsuleOutlivesHooks == BootSpec => []NothingDangles
<1>1. BootInv => NothingDangles
  BY DEF BootInv, RangeInv, LoaderInv, OwnerInv, NothingDangles, Quiet,
         Untouched, Whole, Leaving
<1> QED
  BY <1>1, BootInductive, PTL

(* A capsule whose hook set could not be made never stays resident, whoever *)
(* is scheduled when (injectee.cpp 216-226, hook.hpp create_hooks()).       *)
THEOREM HalfMadeNeverStays == BootSpec => []HalfMadeLeaves
<1>1. BootInv => HalfMadeLeaves
  BY DEF BootInv, RangeInv, LoaderInv, HalfMadeLeaves, Quiet, Untouched,
         Whole, Leaving
<1> QED
  BY <1>1, BootInductive, PTL
=============================================================================
