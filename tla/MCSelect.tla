------------------------------ MODULE MCSelect ------------------------------
(* Instance of SelectLoop for TLC: an acceptor, a TCP socket and a         *)
(* datagram socket.                                                        *)
EXTENDS SelectLoop

SelectKind == 1 :> "LISTEN" @@ 2 :> "TCP" @@ 3 :> "UDP"
=============================================================================
