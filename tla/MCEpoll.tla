------------------------------ MODULE MCEpoll ------------------------------
(***************************************************************************)
(* Instances of Epoll for TLC: one model value per socket, named for what  *)
(* it is, of which each configuration puts some in Socks.                  *)
(***************************************************************************)
EXTENDS EpollRefinement, EpollInv

CONSTANTS tcp1, tcp2, peer1, peer2, listener, udp, timer, signals

MCKind ==
  [s \in Socks |->
     CASE s \in {tcp1, tcp2, peer1, peer2} -> "TCP"
       [] s = listener -> "LISTENER"
       [] s = udp -> "UDP"
       [] s = timer -> "TIMER"
       [] s = signals -> "SIGNALFD"]

MCFresh == Socks \cap {peer1, peer2}

OpsSymmetry == Permutations(Ops)
=============================================================================
