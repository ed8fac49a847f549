------------------------------- MODULE NameMap -------------------------------
(***************************************************************************)
(* What fake_ip_table (src/src/injectee/fakeip.hpp) promises its callers,  *)
(* without the clocks, the pins and the LRU: a partial one-to-one map from *)
(* addresses to names, and a set of addresses that are out of circulation  *)
(* for good.  FakeIp is shown to implement it.                             *)
(***************************************************************************)
CONSTANTS Slots,   \* the addresses
          Names,   \* the names
          NoName   \* an address that stands for no name

VARIABLES holds,   \* the name each address stands for
          out      \* the addresses taken out of circulation

mapVars == <<holds, out>>

MapInit == holds = [s \in Slots |-> NoName] /\ out = {}

(* A name that has no address gets one that is free, or one whose name is   *)
(* given up for it in the same call.                                        *)
Issue(s, n) ==
  /\ s \notin out
  /\ \A o \in Slots : holds[o] # n
  /\ holds' = [holds EXCEPT ![s] = n]
  /\ out' = out

(* A name loses its address.                                                *)
GiveUp(s) ==
  /\ holds[s] # NoName
  /\ holds' = [holds EXCEPT ![s] = NoName]
  /\ out' = out

(* An address leaves circulation, and takes its name with it.               *)
Withdraw(s) ==
  /\ s \notin out
  /\ out' = out \cup {s}
  /\ holds' = [holds EXCEPT ![s] = NoName]

MapNext ==
  \E s \in Slots :
    \/ GiveUp(s) \/ Withdraw(s)
    \/ \E n \in Names : Issue(s, n)

MapSpec == MapInit /\ [][MapNext]_mapVars
=============================================================================
