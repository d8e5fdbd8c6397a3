------------------------------- MODULE MCAddr -------------------------------
(* Instance of Addr for TLC: groups of zeros and of ones and one of five   *)
(* digits, and octets among which are one too large and one with a leading *)
(* zero.                                                                   *)
EXTENDS Addr

SomeNumerals == {<<0>>, <<15, 15, 15, 15>>, <<0, 0, 0, 0, 0>>}
SomeOctets == {<<0>>, <<2, 5, 5>>, <<2, 5, 6>>, <<0, 1>>}
SomePorts == {0, 1, 80, 256, 32768, 65535, 65536, 65616}
=============================================================================
