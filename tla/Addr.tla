-------------------------------- MODULE Addr --------------------------------
(***************************************************************************)
(* IP addresses and their texts: inet_pton (inet_pton.h) as the automaton  *)
(* it is, one action per turn of its loops, reading a text that is made up *)
(* while it is read; inet_ntop (inet_ntop.h), the byte order of ports      *)
(* (htons.h, on a little-endian machine) and IPAddr::ToString (addr.h) as  *)
(* operators; and what a text denotes, said without reading it in order.   *)
(*                                                                         *)
(* A text is a sequence of tokens: a numeral, which is a sequence of       *)
(* digits, a colon, a dot, any other character, or the end.                *)
(***************************************************************************)
EXTENDS Integers, SequencesExt

CONSTANTS Numerals,  \* the numerals of groups to try
          Octets,    \* those to try in dotted texts
          Ports, Colon, Dot, Other, End

Symbols == {Colon, Dot, Other, End}

ASSUME AddrAssumption ==
  /\ Numerals \cup Octets \subseteq Seq(0..15) \ {<<>>}
  /\ Symbols \cap Seq(0..15) = {}
  /\ Colon \notin {Dot, Other, End} /\ Dot \notin {Other, End} /\ Other # End
  /\ Ports \subseteq Nat

VARIABLES family,  \* af, "v4" or "v6"
          phase,   \* "groups" and "bytes": the loops; "done": 1; "failed": 0
          text,    \* the tokens read so far, s[0] the last of them
          i, brk, ip,
          bytes    \* a[0..3], of the dotted text

vars == <<family, phase, text, i, brk, ip, bytes>>

Uninitialized == -1
s0 == Last(text)

TypeOK ==
  /\ family \in {"v4", "v6"}
  /\ phase \in {"start", "groups", "bytes", "done", "failed"}
  /\ text \in Seq(Numerals \cup Octets \cup Symbols)
  /\ i \in 0..7 /\ brk \in -1..7
  /\ ip \in [0..7 -> 0..65535 \cup {Uninitialized}]
  /\ bytes \in Seq(0..255)

-----------------------------------------------------------------------------
(* Numerals.                                                               *)
Value(n, base) == FoldLeft(LAMBDA v, d : base * v + d, 0, n)

(* At most four, from the first that is not 0. *)
Digits(v, base) ==
  LET ds == <<v \div (base * base * base), (v \div (base * base)) % base,
              (v \div base) % base, v % base>>
      first == CHOOSE f \in 1..4 : (f = 4 \/ ds[f] # 0) /\ \A k \in 1..f - 1 : ds[k] = 0
  IN SubSeq(ds, first, 4)

IsGroup(n) == n \notin Symbols /\ Len(n) <= 4

IsByte(n) ==
  /\ n \notin Symbols /\ Len(n) <= 3
  /\ \A k \in 1..Len(n) : n[k] < 10
  /\ Len(n) > 1 => n[1] # 0
  /\ Value(n, 10) <= 255

-----------------------------------------------------------------------------
(* inet_pton.                                                              *)
Init ==
  /\ family \in {"v4", "v6"}
  /\ phase = IF family = "v4" THEN "bytes" ELSE "start"
  /\ \E t \in Symbols \cup (IF family = "v4" THEN Octets ELSE Numerals) : text = <<t>>
  /\ i = 0 /\ brk = -1
  /\ ip = [g \in 0..7 |-> Uninitialized]
  /\ bytes = <<>>

(* A text cannot start with one colon. *)
Start ==
  /\ phase = "start"
  /\ IF s0 = Colon
     THEN \E t \in Numerals \cup Symbols :
            text' = Append(text, t) /\ phase' = IF t = Colon THEN "groups" ELSE "failed"
     ELSE phase' = "groups" /\ UNCHANGED text
  /\ UNCHANGED <<family, i, brk, ip, bytes>>

(* The second colon of a gap: the gap is a group, 0 for now. *)
Gap ==
  /\ phase = "groups" /\ s0 = Colon /\ brk < 0
  /\ brk' = i
  /\ ip' = [ip EXCEPT ![i] = 0]
  /\ \E t \in Numerals \cup Symbols :
       /\ text' = Append(text, t)
       /\ phase' = IF t = End THEN "done" ELSE IF i = 7 THEN "failed" ELSE "groups"
       /\ i' = IF t = End \/ i = 7 THEN i ELSE i + 1
  /\ UNCHANGED <<family, bytes>>

(* A numeral and what follows it.  Before a dot it is read again. *)
Group ==
  /\ phase = "groups" /\ IsGroup(s0)
  /\ ip' = [ip EXCEPT ![i] = Value(s0, 16)]
  /\ \/ /\ brk >= 0 \/ i = 7
        /\ text' = Append(text, End) /\ phase' = "done" /\ i' = i
     \/ /\ i < 7
        /\ \E t \in Numerals \cup Symbols : text' = text \o <<Colon, t>>
        /\ i' = i + 1 /\ UNCHANGED phase
     \/ /\ i < 7 /\ (i = 6 \/ brk >= 0)
        /\ phase' = "bytes" /\ i' = i + 1 /\ UNCHANGED text
  /\ UNCHANGED <<family, brk, bytes>>

(* Mutant: dotted bytes are not taken for the last two of eight groups. *)
NoDotAtSix == i = 7 \/ brk < 0

(* Where no dot may follow a group. *)
NoDot == i = 7 \/ (i < 6 /\ brk < 0)

(* return 0 *)
GroupFails ==
  /\ phase = "groups"
  /\ \/ /\ ~IsGroup(s0) /\ ~(s0 = Colon /\ brk < 0)
        /\ UNCHANGED text
     \/ /\ IsGroup(s0)
        /\ \E t \in Symbols :
             /\ t = End => brk < 0 /\ i < 7
             /\ t = Colon => i = 7
             /\ t = Dot => NoDot
             /\ text' = Append(text, t)
  /\ phase' = "failed"
  /\ UNCHANGED <<family, i, brk, ip, bytes>>

(* What may follow s0: the dot that ended the groups is still unread. *)
Following == IF family = "v6" /\ bytes = <<>> THEN {Dot} ELSE Symbols

Byte ==
  /\ phase = "bytes" /\ IsByte(s0)
  /\ bytes' = Append(bytes, Value(s0, 10))
  /\ IF Len(bytes) = 3
     THEN text' = Append(text, End) /\ phase' = "done"
     ELSE \E t \in Octets \cup Symbols : text' = text \o <<Dot, t>> /\ UNCHANGED phase
  /\ UNCHANGED <<family, i, brk, ip>>

ByteFails ==
  /\ phase = "bytes"
  /\ \/ ~IsByte(s0) /\ text' = IF Following = {Dot} THEN Append(text, Dot) ELSE text
     \/ /\ IsByte(s0)
        /\ \E t \in Following \ {IF Len(bytes) = 3 THEN End ELSE Dot} :
             text' = Append(text, t)
  /\ phase' = "failed"
  /\ UNCHANGED <<family, i, brk, ip, bytes>>

Next == Start \/ Gap \/ Group \/ GroupFails \/ Byte \/ ByteFails

Spec == Init /\ [][Next]_vars

(* Mutant: the groups after the gap move one place too few. *)
ExpandedShort ==
  [g \in 0..7 |-> IF brk < 0 \/ g < brk THEN ip[g]
                  ELSE IF g < brk + 6 - i THEN 0 ELSE ip[g - (6 - i)]]

(* memmove and the loop after it. *)
Expanded ==
  [g \in 0..7 |-> IF brk < 0 \/ g < brk THEN ip[g]
                  ELSE IF g < brk + 7 - i THEN 0 ELSE ip[g - (7 - i)]]

PairOf(bs, k) == 256 * bs[k] + bs[k + 1]

(* The address that was read, the dotted text over its last four bytes. *)
Result ==
  CASE family = "v4" -> bytes
    [] family = "v6" /\ bytes = <<>> -> [k \in 1..8 |-> Expanded[k - 1]]
    [] family = "v6" /\ bytes # <<>> ->
         [k \in 1..8 |-> IF k > 6 THEN PairOf(bytes, 2 * k - 13) ELSE Expanded[k - 1]]

-----------------------------------------------------------------------------
(* inet_ntop.                                                              *)

(* The texts in ts with a separator between them. *)
Joined(ts, sep) ==
  FlattenSeq([k \in 1..2 * Len(ts) - 1 |-> IF k % 2 = 1 THEN ts[(k + 1) \div 2] ELSE <<sep>>])

(* snprintf of the numbers in s. *)
Printed(s, base, sep) == Joined([k \in 1..Len(s) |-> <<Digits(s[k], base)>>], sep)

Mapped(a) == \A k \in 1..6 : a[k] = IF k = 6 THEN 65535 ELSE 0

Plain(a) ==
  IF Mapped(a)
  THEN Joined([k \in 1..7 |->
         IF k = 7 THEN Printed(<<a[7] \div 256, a[7] % 256, a[8] \div 256, a[8] % 256>>, 10, Dot)
         ELSE <<Digits(a[k], 16)>>], Colon)
  ELSE Printed(a, 16, Colon)

(* strspn(buf + p, ":0"): a numeral that starts with 0 is 0. *)
Span(buf, p) ==
  CHOOSE n \in 0..Len(buf) - p + 1 :
    /\ \A q \in p..p + n - 1 : buf[q] \in {Colon, <<0>>}
    /\ p + n <= Len(buf) => buf[p + n] \notin {Colon, <<0>>}

(* Mutant: a run starts at a colon. *)
StartsAtColon(buf) == {p \in 1..Len(buf) : buf[p] = Colon}

Starts(buf) == {p \in 1..Len(buf) : p = 1 \/ buf[p] = Colon}

(* The first of the longest runs, of more than two characters, is replaced. *)
Compressed(buf) ==
  LET runs == {p \in Starts(buf) : Span(buf, p) > 2}
      best == CHOOSE p \in runs : \A q \in runs : Span(buf, q) < Span(buf, p) + (IF p <= q THEN 1 ELSE 0)
  IN IF runs = {} THEN buf
     ELSE SubSeq(buf, 1, best - 1) \o <<Colon, Colon>>
            \o SubSeq(buf, best + Span(buf, best), Len(buf))

Ntop(a) == IF Len(a) = 4 THEN Printed(a, 10, Dot) ELSE Compressed(Plain(a))

(* Ports.                                                                  *)
Bswap16(x) == ((x * 256) % 65536) + (x \div 256)

(* port_ is a short. *)
AsShort(x) == IF x < 32768 THEN x ELSE x - 65536
AsUnsigned(x) == x % 65536
StoredPort(port) == AsShort(Bswap16(AsUnsigned(port)))

(* ToString fills the text up to 47 or 16 characters with NULs, which end  *)
(* it for inet_pton, before it appends the port.                           *)
TextOf(a, port_) ==
  [address |-> Ntop(a), port |-> IF port_ # 0 THEN <<Bswap16(AsUnsigned(port_))>> ELSE <<>>]

-----------------------------------------------------------------------------
(* What a text denotes.                                                    *)
NumeralsOf(w) == FlattenSeq([k \in 1..Len(w) |-> IF w[k] \in Symbols THEN <<>> ELSE <<w[k]>>])
Zeros(n) == [k \in 1..n |-> 0]
Singles(ns) == [k \in 1..Len(ns) |-> <<ns[k]>>]
Values(ns, base) == [k \in 1..Len(ns) |-> Value(ns[k], base)]

(* Four bytes with dots between them. *)
Denoted4(w) ==
  LET ns == NumeralsOf(w)
  IN IF Len(ns) = 4 /\ (\A k \in 1..4 : IsByte(ns[k])) /\ w = Joined(Singles(ns), Dot)
     THEN {Values(ns, 10)} ELSE {}

(* What stands between the colons, and the groups it is worth: the groups  *)
(* hs and perhaps four bytes bs.                                           *)
Items(hs, bs) == Singles(hs) \o IF bs = <<>> THEN <<>> ELSE <<Joined(Singles(bs), Dot)>>

Worth(hs, bs) ==
  Values(hs, 16) \o IF bs = <<>> THEN <<>>
                    ELSE <<PairOf(Values(bs, 10), 1), PairOf(Values(bs, 10), 3)>>

(* Eight groups with colons between them, or fewer and one gap. *)
Denoted6(w) ==
  LET ns == NumeralsOf(w)
      h == IF Dot \in ToSet(w) THEN Len(ns) - 4 ELSE Len(ns)
      hs == SubSeq(ns, 1, h)
      bs == SubSeq(ns, h + 1, Len(ns))
      items == Items(hs, bs)
      worth == Worth(hs, bs)
      m == Len(worth)
      gaps == {p \in 0..h : m < 8 /\ w = Joined(SubSeq(items, 1, p), Colon) \o <<Colon, Colon>>
                                         \o Joined(SubSeq(items, p + 1, Len(items)), Colon)}
  IN IF h < 0 \/ (\E k \in 1..Len(hs) : ~IsGroup(hs[k])) \/ (\E k \in 1..Len(bs) : ~IsByte(bs[k]))
     THEN {}
     ELSE {SubSeq(worth, 1, p) \o Zeros(8 - m) \o SubSeq(worth, p + 1, m) : p \in gaps}
            \cup IF m = 8 /\ w = Joined(items, Colon) THEN {worth} ELSE {}

Denoted(w) == IF family = "v4" THEN Denoted4(w) ELSE Denoted6(w)

(* Ways to go on, one of which completes w if anything does. *)
Repeated(x, n) == FlattenSeq([k \in 1..n |-> x])
Completions ==
  LET one == <<1>>
  IN {x \o y : x \in {<<>>, <<one>>, <<Colon>>},
               y \in {Repeated(<<Colon, one>>, n) : n \in 0..7}
                       \cup {Repeated(<<Dot, one>>, n) : n \in 0..3}}

(* What inet_pton reads is the one address the text denotes, whatever the  *)
(* gap, the dotted end and the leading zeros: every group is in its place, *)
(* and none is left uninitialized (inet_pton.h:38-84).                     *)
ReadsTheAddress == phase = "done" => Denoted(Front(text)) = {Result}

(* Where inet_pton gives up the text denotes nothing, and no way to go on  *)
(* would have been right (inet_pton.h:38-84).                              *)
GivesUpRightly ==
  phase = "failed" /\ s0 # Other =>
    IF s0 = End THEN Denoted(Front(text)) = {}
    ELSE \A c \in Completions : Denoted(text \o c) = {}

(* ToString of every address that has a text is a text of that address,    *)
(* and but for the dotted ones no text of it is shorter; the port, stored  *)
(* in a short in network order, comes back as it was, modulo 2^16          *)
(* (inet_ntop.h:26-67, addr.h:61-74, htons.h:20-50).                       *)
ToStringIsTheAddress ==
  phase = "done" =>
    LET s == [port \in Ports |-> TextOf(Result, StoredPort(port))]
    IN \A port \in Ports :
         /\ Denoted(s[port].address) = {Result}
         /\ Dot \in ToSet(s[port].address)
              \/ Len(s[port].address) < Len(text)
         /\ s[port].port = IF AsUnsigned(port) = 0 THEN <<>> ELSE <<AsUnsigned(port)>>
=============================================================================
