------------------------------ MODULE MCCapsule ------------------------------
(* The parts of a capsule that share no state with its detours or with one  *)
(* another: how it is loaded and unloaded, the SOCKS5 conversation and the  *)
(* two UDP tables (the repository has no pump that would join them yet).    *)
(* Each is explored in full while the others are still as they were made,   *)
(* instead of multiplying one by the other.                                 *)
EXTENDS Bootstrap, UdpAssociations, UdpSockets, Socks5

CONSTANTS u1, u2

MCUsers == {u1, u2}

capsuleVars == <<bootVars, assocVars, sockVars, socksVars>>

CapsuleInit == BootInit /\ AssocInit /\ SocketsInit /\ SocksInit

CapsuleNext ==
  \/ /\ AssocInit /\ SocketsInit /\ SocksInit /\ BootNext
     /\ UNCHANGED <<assocVars, sockVars, socksVars>>
  \/ /\ BootInit /\ SocketsInit /\ SocksInit /\ AssocNext
     /\ UNCHANGED <<bootVars, sockVars, socksVars>>
  \/ /\ BootInit /\ AssocInit /\ SocksInit /\ SocketsNext
     /\ UNCHANGED <<bootVars, assocVars, socksVars>>
  \/ /\ BootInit /\ AssocInit /\ SocketsInit /\ SocksNext
     /\ UNCHANGED <<bootVars, assocVars, sockVars>>

CapsuleSpec == CapsuleInit /\ [][CapsuleNext]_capsuleVars
=============================================================================
