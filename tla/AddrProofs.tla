----------------------------- MODULE AddrProofs -----------------------------
(***************************************************************************)
(* Why inet_pton reads the address its text denotes, for any numerals: the *)
(* text is, at each turn of the loops, the groups and bytes read so far    *)
(* with their separators, and Denoted takes it apart again.  Why it gives  *)
(* up on no text of an address: while such a text is read the registers    *)
(* say which place of it comes next, and there no return 0 is reached.     *)
(* Why ToString writes a text of the address it was read from: the digits  *)
(* of a number are worth it again, and a run of zeros is replaced by a gap *)
(* with whole groups, which leaves the others where they are denoted.      *)
(***************************************************************************)
EXTENDS Addr, SequenceTheorems, WellFoundedInduction, TLAPS

-----------------------------------------------------------------------------
(* Sequences.                                                              *)

(* Induction, over numbers and sequences, for a set of good ones. *)
LEMMA NatSetInduction ==
  ASSUME NEW S, 0 \in S, \A n \in Nat : n \in S => n + 1 \in S
  PROVE Nat \subseteq S
<1> SUFFICES ASSUME Nat \ S # {} PROVE FALSE
  OBVIOUS
<1> DEFINE R == OpToRel(<, Nat)
<1>1. IsWellFoundedOn(R, Nat) BY NatLessThanWellFounded
<1>2. \A n \in Nat, m \in Nat : n < m => <<n, m>> \in R BY DEF OpToRel
<1> HIDE DEF R
<1>3. PICK m \in Nat \ S : \A y \in Nat \ S : <<y, m>> \notin R
  BY <1>1, WFMin
<1>4. m # 0 /\ m - 1 \in Nat /\ (m - 1) + 1 = m BY <1>3
<1>5. m - 1 \in Nat \ S BY <1>3, <1>4
<1>6. <<m - 1, m>> \in R BY <1>2, <1>4
<1> QED BY <1>3, <1>5, <1>6

LEMMA SeqInduction ==
  ASSUME NEW S, NEW Good, <<>> \in Good,
         \A s \in Seq(S), x \in S : s \in Good => Append(s, x) \in Good
  PROVE  Seq(S) \subseteq Good
<1> DEFINE N == {n \in Nat : \A s \in Seq(S) : Len(s) = n => s \in Good}
<1>1. 0 \in N BY EmptySeq
<1>2. ASSUME NEW n \in Nat, n \in N PROVE n + 1 \in N
  <2> SUFFICES ASSUME NEW s \in Seq(S), Len(s) = n + 1 PROVE s \in Good
    OBVIOUS
  <2>1. s # <<>> BY EmptySeq
  <2>2. PICK t \in Seq(S), x \in S : s = Append(t, x) BY <2>1, SequenceEmptyOrAppend
  <2>3. Len(t) \in Nat /\ Len(s) = Len(t) + 1 BY <2>2, AppendProperties, LenProperties
  <2>4. t \in Good BY <1>2, <2>3
  <2> QED BY <2>2, <2>4
<1> HIDE DEF N
<1>3. Nat \subseteq N BY <1>1, <1>2, NatSetInduction
<1> QED BY <1>3, LenProperties DEF N

LEMMA AppendsOutside ==
  ASSUME NEW T, NEW s \in Seq(T), NEW t \in Seq(T), NEW x \in T
  PROVE  s \o Append(t, x) = Append(s \o t, x)
<1>1. <<x>> \in Seq(T) /\ s \o t \in Seq(T) BY ConcatProperties
<1>2. Append(t, x) = t \o <<x>> /\ Append(s \o t, x) = (s \o t) \o <<x>>
  BY <1>1, AppendIsConcat
<1> QED BY <1>1, <1>2, ConcatAssociative

(* A sequence cut where two were joined. *)
LEMMA CutConcat ==
  ASSUME NEW T, NEW s \in Seq(T), NEW t \in Seq(T)
  PROVE  /\ SubSeq(s \o t, 1, Len(s)) = s
         /\ SubSeq(s \o t, Len(s) + 1, Len(s \o t)) = t
<1> DEFINE u == s \o t
           a == SubSeq(u, 1, Len(s))
           b == SubSeq(u, Len(s) + 1, Len(u))
<1>1. /\ Len(s) \in Nat /\ Len(t) \in Nat /\ u \in Seq(T) /\ Len(u) = Len(s) + Len(t)
      /\ \A k \in 1..Len(s) + Len(t) : u[k] = IF k <= Len(s) THEN s[k] ELSE t[k - Len(s)]
  BY ConcatProperties, LenProperties
<1>2. \A k \in 1..Len(u) : u[k] \in T BY <1>1, ElementOfSeq
<1> HIDE DEF u
<1>3. /\ a \in Seq(T) /\ Len(a) = IF 1 <= Len(s) THEN Len(s) - 1 + 1 ELSE 0
      /\ \A k \in 1..Len(s) - 1 + 1 : a[k] = u[1 + k - 1]
  <2>1. \A k \in 1..Len(s) : u[k] \in T BY <1>1, <1>2
  <2> QED BY <1>1, <2>1, SubSeqProperties
<1>4. /\ b \in Seq(T)
      /\ Len(b) = IF Len(s) + 1 <= Len(u) THEN Len(u) - (Len(s) + 1) + 1 ELSE 0
      /\ \A k \in 1..Len(u) - (Len(s) + 1) + 1 : b[k] = u[Len(s) + 1 + k - 1]
  <2>1. \A k \in Len(s) + 1..Len(u) : u[k] \in T BY <1>1, <1>2
  <2>2. Len(s) + 1 \in Int /\ Len(u) \in Int BY <1>1
  <2> QED BY <2>1, <2>2, SubSeqProperties
<1> HIDE DEF a, b
<1>5. Len(a) = Len(s) /\ \A k \in 1..Len(a) : a[k] = s[k]
  <2>1. Len(a) = Len(s) BY <1>1, <1>3
  <2>2. ASSUME NEW k \in 1..Len(s) PROVE a[k] = s[k]
    <3>1. 1 + k - 1 = k /\ k \in 1..Len(s) - 1 + 1 /\ k \in 1..Len(s) + Len(t) BY <1>1
    <3> QED BY <1>1, <1>3, <3>1
  <2> QED BY <2>1, <2>2
<1>6. Len(b) = Len(t) /\ \A k \in 1..Len(b) : b[k] = t[k]
  <2>1. Len(b) = Len(t) BY <1>1, <1>4
  <2>2. ASSUME NEW k \in 1..Len(t) PROVE b[k] = t[k]
    <3>1. /\ Len(s) + 1 + k - 1 = Len(s) + k /\ k \in 1..Len(u) - (Len(s) + 1) + 1
          /\ Len(s) + k \in 1..Len(s) + Len(t) /\ ~(Len(s) + k <= Len(s))
          /\ Len(s) + k - Len(s) = k
      BY <1>1
    <3>2. b[k] = u[Len(s) + k] BY <1>4, <3>1
    <3>3. u[Len(s) + k] = t[k] BY <1>1, <3>1
    <3> QED BY <3>2, <3>3
  <2> QED BY <2>1, <2>2
<1>7. a = s BY <1>3, <1>5, SeqEqual
<1>8. b = t BY <1>4, <1>6, SeqEqual
<1> QED BY <1>7, <1>8 DEF a, b, u

LEMMA CutAt ==
  ASSUME NEW T, NEW s \in Seq(T), NEW p \in 0..Len(s)
  PROVE  /\ SubSeq(s, 1, p) \in Seq(T) /\ Len(SubSeq(s, 1, p)) = p
         /\ SubSeq(s, p + 1, Len(s)) \in Seq(T) /\ Len(SubSeq(s, p + 1, Len(s))) = Len(s) - p
         /\ SubSeq(s, 1, p) \o SubSeq(s, p + 1, Len(s)) = s
<1>1. Len(s) \in Nat BY LenProperties
<1>2. SubSeq(s, 1, p) \in Seq(T) /\ Len(SubSeq(s, 1, p)) = p
  <2>1. \A k \in 1..p : s[k] \in T BY <1>1, ElementOfSeq
  <2>2. Len(SubSeq(s, 1, p)) = IF 1 <= p THEN p - 1 + 1 ELSE 0 BY <1>1, <2>1, SubSeqProperties
  <2>3. SubSeq(s, 1, p) \in Seq(T) BY <1>1, <2>1, SubSeqProperties
  <2> QED BY <1>1, <2>2, <2>3
<1>3. SubSeq(s, p + 1, Len(s)) \in Seq(T) /\ Len(SubSeq(s, p + 1, Len(s))) = Len(s) - p
  <2>1. \A k \in p + 1..Len(s) : s[k] \in T BY <1>1, ElementOfSeq
  <2>2. p + 1 \in Int /\ Len(s) \in Int BY <1>1
  <2>3. /\ SubSeq(s, p + 1, Len(s)) \in Seq(T)
        /\ Len(SubSeq(s, p + 1, Len(s))) = IF p + 1 <= Len(s) THEN Len(s) - (p + 1) + 1 ELSE 0
    BY <2>1, <2>2, SubSeqProperties
  <2> QED BY <1>1, <2>3
<1>4. SubSeq(s, 1, p) \o SubSeq(s, p + 1, Len(s)) = s
  <2>1. 1 \in 1..Len(s) + 1 /\ p \in 1 - 1..Len(s) /\ Len(s) \in p..Len(s) BY <1>1
  <2>2. SubSeq(s, 1, p) \o SubSeq(s, p + 1, Len(s)) = SubSeq(s, 1, Len(s))
    BY <2>1, ConcatAdjacentSubSeq
  <2> QED BY <2>2, SubSeqFull
<1> QED BY <1>2, <1>3, <1>4

(* The function FlattenSeq defines. *)
Link(g, ss, j) == IF j = 1 THEN ss[j] ELSE g[j - 1] \o ss[j]
Flattens(ss, n, g) == g = [j \in 1..n |-> Link(g, ss, j)]

LEMMA FlattensExists ==
  ASSUME NEW ss, NEW n \in Nat PROVE \E g : Flattens(ss, n, g)
<1> DEFINE N == {m \in Nat : \E g : Flattens(ss, m, g)}
<1>1. 0 \in N
  <2> DEFINE g == [j \in 1..0 |-> ss[j]]
  <2>1. g = [j \in 1..0 |-> Link(g, ss, j)] OBVIOUS
  <2> QED BY <2>1 DEF Flattens
<1>2. ASSUME NEW m \in Nat, m \in N PROVE m + 1 \in N
  <2>1. PICK g : g = [j \in 1..m |-> Link(g, ss, j)] BY <1>2 DEF Flattens
  <2> DEFINE h == [j \in 1..m + 1 |-> Link(g, ss, j)]
  <2>2. \A j \in 1..m : h[j] = g[j]
    <3>1. \A j \in 1..m : g[j] = Link(g, ss, j) BY <2>1
    <3>2. \A j \in 1..m : j \in 1..m + 1 OBVIOUS
    <3> QED BY <3>1, <3>2
  <2>3. \A j \in 1..m + 1 : Link(g, ss, j) = Link(h, ss, j)
    <3> SUFFICES ASSUME NEW j \in 1..m + 1 PROVE Link(g, ss, j) = Link(h, ss, j) OBVIOUS
    <3>1. j # 1 => j - 1 \in 1..m OBVIOUS
    <3>2. j # 1 => g[j - 1] = h[j - 1] BY <2>2, <3>1
    <3> HIDE DEF h
    <3> QED BY <3>2, Zenon DEF Link
  <2>4. h = [j \in 1..m + 1 |-> Link(h, ss, j)] BY <2>3
  <2> HIDE DEF h
  <2> QED BY <2>4 DEF Flattens
<1> HIDE DEF N
<1>3. Nat \subseteq N BY <1>1, <1>2, NatSetInduction
<1> QED BY <1>3 DEF N

(* It depends on nothing but the sequences it reads. *)
LEMMA FlattensSame ==
  ASSUME NEW s1, NEW s2, NEW n1 \in Nat, NEW n2 \in Nat, n1 <= n2,
         NEW g1, NEW g2, Flattens(s1, n1, g1), Flattens(s2, n2, g2),
         \A j \in 1..n1 : s1[j] = s2[j]
  PROVE  \A j \in 1..n1 : g1[j] = g2[j]
<1> DEFINE N == {m \in Nat : m \in 1..n1 => g1[m] = g2[m]}
<1>1. 0 \in N OBVIOUS
<1>2. ASSUME NEW m \in Nat, m \in N PROVE m + 1 \in N
  <2> SUFFICES ASSUME m + 1 \in 1..n1 PROVE g1[m + 1] = g2[m + 1] OBVIOUS
  <2>1. m + 1 \in 1..n2 /\ (m + 1) - 1 = m OBVIOUS
  <2>2. g1[m + 1] = Link(g1, s1, m + 1) /\ g2[m + 1] = Link(g2, s2, m + 1)
    BY <2>1 DEF Flattens
  <2>4. m + 1 # 1 => g1[m] = g2[m] BY <1>2
  <2>5. s1[m + 1] = s2[m + 1] OBVIOUS
  <2>6. Link(g1, s1, m + 1) = Link(g2, s2, m + 1)
    <3>1. m + 1 # 1 => g1[(m + 1) - 1] = g2[(m + 1) - 1] BY <2>1, <2>4
    <3> QED BY <2>5, <3>1, Zenon DEF Link
  <2> QED BY <2>2, <2>6
<1> HIDE DEF N
<1>3. Nat \subseteq N BY <1>1, <1>2, NatSetInduction
<1> QED BY <1>3 DEF N

LEMMA FlattenSeqIs ==
  ASSUME NEW ss, Len(ss) \in Nat, Len(ss) # 0
  PROVE  \E g : Flattens(ss, Len(ss), g) /\ FlattenSeq(ss) = g[Len(ss)]
<1> DEFINE g == CHOOSE f : f = [j \in 1..Len(ss) |-> IF j = 1 THEN ss[j] ELSE f[j - 1] \o ss[j]]
<1>1. \E f : f = [j \in 1..Len(ss) |-> IF j = 1 THEN ss[j] ELSE f[j - 1] \o ss[j]]
  BY FlattensExists, ZenonT(90) DEF Flattens, Link
<1>2. g = [j \in 1..Len(ss) |-> IF j = 1 THEN ss[j] ELSE g[j - 1] \o ss[j]] BY <1>1
<1>3. FlattenSeq(ss) = g[Len(ss)] BY DEF FlattenSeq
<1> HIDE DEF g
<1>4. Flattens(ss, Len(ss), g) BY <1>2, Zenon DEF Flattens, Link
<1> QED BY <1>3, <1>4

LEMMA FlattenEmpty == FlattenSeq(<<>>) = <<>>
BY EmptySeq DEF FlattenSeq

LEMMA FlattenAppend ==
  ASSUME NEW T, NEW ss \in Seq(Seq(T)), NEW x \in Seq(T)
  PROVE  FlattenSeq(Append(ss, x)) = IF ss = <<>> THEN x ELSE FlattenSeq(ss) \o x
<1> DEFINE n == Len(ss)
           new == Append(ss, x)
<1>1. /\ n \in Nat /\ Len(new) = n + 1 /\ new[n + 1] = x
      /\ \A j \in 1..n : new[j] = ss[j]
  BY AppendProperties, LenProperties
<1>2. n = 0 <=> ss = <<>> BY EmptySeq
<1> HIDE DEF new, n
<1>3. PICK g : Flattens(new, n + 1, g) /\ FlattenSeq(new) = g[n + 1]
  <2>1. Len(new) \in Nat /\ Len(new) # 0 BY <1>1
  <2> QED BY <1>1, <2>1, FlattenSeqIs
<1>4. g[n + 1] = IF n + 1 = 1 THEN new[n + 1] ELSE g[n] \o new[n + 1]
  <2>1. n + 1 \in 1..n + 1 /\ (n + 1) - 1 = n BY <1>1
  <2>2. g[n + 1] = Link(g, new, n + 1) BY <1>3, <2>1 DEF Flattens
  <2> QED BY <2>1, <2>2, Zenon DEF Link
<1>5. CASE ss = <<>> BY <1>1, <1>2, <1>3, <1>4, <1>5 DEF new
<1>6. CASE ss # <<>>
  <2>1. PICK f : Flattens(ss, n, f) /\ FlattenSeq(ss) = f[n]
    BY <1>1, <1>2, <1>6, FlattenSeqIs DEF n
  <2>2. \A j \in 1..n : f[j] = g[j]
    <3>1. \A j \in 1..n : ss[j] = new[j] BY <1>1
    <3>2. n \in Nat /\ n + 1 \in Nat /\ n <= n + 1 BY <1>1
    <3> QED BY <1>3, <2>1, <3>1, <3>2, FlattensSame
  <2>3. n \in 1..n /\ n + 1 # 1 BY <1>1, <1>2, <1>6
  <2>4. g[n + 1] = f[n] \o x BY <1>1, <1>4, <2>2, <2>3
  <2> QED BY <1>3, <1>6, <2>1, <2>4 DEF new
<1> QED BY <1>5, <1>6

LEMMA FlattenTyped ==
  ASSUME NEW T, NEW ss \in Seq(Seq(T)) PROVE FlattenSeq(ss) \in Seq(T)
<1> DEFINE Good == {s \in Seq(Seq(T)) : FlattenSeq(s) \in Seq(T)}
<1>1. <<>> \in Good BY FlattenEmpty, EmptySeq
<1>2. ASSUME NEW s \in Seq(Seq(T)), NEW x \in Seq(T), s \in Good PROVE Append(s, x) \in Good
  <2>1. FlattenSeq(Append(s, x)) = IF s = <<>> THEN x ELSE FlattenSeq(s) \o x
    BY FlattenAppend
  <2>2. FlattenSeq(s) \o x \in Seq(T) BY <1>2, ConcatProperties
  <2> QED BY <2>1, <2>2, AppendProperties
<1> HIDE DEF Good
<1>3. Seq(Seq(T)) \subseteq Good BY <1>1, <1>2, SeqInduction
<1> QED BY <1>3 DEF Good

(* One after another: the first of several does not differ. *)
LEMMA FlattenAppends ==
  ASSUME NEW T, NEW ss \in Seq(Seq(T)), NEW x \in Seq(T)
  PROVE  FlattenSeq(Append(ss, x)) = FlattenSeq(ss) \o x
<1>1. CASE ss = <<>> BY <1>1, FlattenAppend, FlattenEmpty, ConcatEmptySeq, ZenonT(40)
<1>2. CASE ss # <<>> BY <1>2, FlattenAppend
<1> QED BY <1>1, <1>2

LEMMA FlattenConcat ==
  ASSUME NEW T, NEW ss \in Seq(Seq(T)), NEW tt \in Seq(Seq(T))
  PROVE  FlattenSeq(ss \o tt) = FlattenSeq(ss) \o FlattenSeq(tt)
<1> DEFINE Good == {t \in Seq(Seq(T)) : FlattenSeq(ss \o t) = FlattenSeq(ss) \o FlattenSeq(t)}
<1>1. <<>> \in Good
  <2>1. ss \o <<>> = ss /\ FlattenSeq(ss) \o <<>> = FlattenSeq(ss)
    BY FlattenTyped, ConcatEmptySeq
  <2> QED BY <2>1, FlattenEmpty, EmptySeq
<1>2. ASSUME NEW t \in Seq(Seq(T)), NEW x \in Seq(T), t \in Good PROVE Append(t, x) \in Good
  <2>1. ss \o Append(t, x) = Append(ss \o t, x) BY AppendsOutside, SMTT(40)
  <2>2. ss \o t \in Seq(Seq(T)) BY ConcatProperties
  <2>3. FlattenSeq(Append(ss \o t, x)) = FlattenSeq(ss \o t) \o x BY <2>2, FlattenAppends
  <2>4. FlattenSeq(Append(t, x)) = FlattenSeq(t) \o x BY FlattenAppends
  <2>5. FlattenSeq(ss \o t) = FlattenSeq(ss) \o FlattenSeq(t) BY <1>2
  <2>6. (FlattenSeq(ss) \o FlattenSeq(t)) \o x = FlattenSeq(ss) \o (FlattenSeq(t) \o x)
    BY FlattenTyped, ConcatAssociative, SMTT(40)
  <2>7. Append(t, x) \in Seq(Seq(T)) BY AppendProperties
  <2> QED BY <2>1, <2>3, <2>4, <2>5, <2>6, <2>7
<1> HIDE DEF Good
<1>3. Seq(Seq(T)) \subseteq Good BY <1>1, <1>2, SeqInduction
<1> QED BY <1>3 DEF Good

-----------------------------------------------------------------------------
(* Numerals with separators between them.                                  *)

LEMMA SinglesTyped ==
  ASSUME NEW T, NEW s \in Seq(T)
  PROVE  /\ Singles(s) \in Seq(Seq(T)) /\ Len(Singles(s)) = Len(s)
         /\ \A k \in 1..Len(s) : Singles(s)[k] = <<s[k]>>
<1>1. Len(s) \in Nat BY LenProperties
<1>2. \A k \in 1..Len(s) : <<s[k]>> \in Seq(T) BY ElementOfSeq
<1> QED BY <1>1, <1>2 DEF Singles

LEMMA SinglesAppend ==
  ASSUME NEW T, NEW s \in Seq(T), NEW x \in T
  PROVE  Singles(Append(s, x)) = Append(Singles(s), <<x>>)
<1> DEFINE a == Singles(Append(s, x))
           b == Append(Singles(s), <<x>>)
<1>1. /\ Append(s, x) \in Seq(T) /\ Len(s) \in Nat
      /\ Len(Append(s, x)) = Len(s) + 1 /\ Append(s, x)[Len(s) + 1] = x
      /\ \A k \in 1..Len(s) : Append(s, x)[k] = s[k]
  BY AppendProperties, LenProperties
<1>2. /\ a \in Seq(Seq(T)) /\ Len(a) = Len(s) + 1
      /\ \A k \in 1..Len(s) + 1 : a[k] = <<Append(s, x)[k]>>
  BY <1>1, SinglesTyped
<1>3. <<x>> \in Seq(T) OBVIOUS
<1>4. /\ Singles(s) \in Seq(Seq(T)) /\ Len(Singles(s)) = Len(s)
      /\ \A k \in 1..Len(s) : Singles(s)[k] = <<s[k]>>
  BY SinglesTyped
<1>5. /\ b \in Seq(Seq(T)) /\ Len(b) = Len(s) + 1 /\ b[Len(s) + 1] = <<x>>
      /\ \A k \in 1..Len(s) : b[k] = Singles(s)[k]
  BY <1>3, <1>4, AppendProperties
<1> HIDE DEF a, b
<1>6. \A k \in 1..Len(a) : a[k] = b[k]
  <2> SUFFICES ASSUME NEW k \in 1..Len(s) + 1 PROVE a[k] = b[k] BY <1>2
  <2>1. CASE k = Len(s) + 1 BY <1>1, <1>2, <1>5, <2>1
  <2>2. CASE k \in 1..Len(s) BY <1>1, <1>2, <1>4, <1>5, <2>2
  <2> QED BY <1>1, <2>1, <2>2
<1>7. a = b BY <1>2, <1>5, <1>6, SeqEqual
<1> QED BY <1>7 DEF a, b

LEMMA FlattenSingles ==
  ASSUME NEW T, NEW s \in Seq(T) PROVE FlattenSeq(Singles(s)) = s
<1> DEFINE Good == {x \in Seq(T) : FlattenSeq(Singles(x)) = x}
<1>1. <<>> \in Good
  <2>1. Singles(<<>>) = <<>> BY EmptySeq DEF Singles
  <2> QED BY <2>1, FlattenEmpty, EmptySeq
<1>2. ASSUME NEW x \in Seq(T), NEW t \in T, x \in Good PROVE Append(x, t) \in Good
  <2>1. Singles(x) \in Seq(Seq(T)) /\ <<t>> \in Seq(T) BY SinglesTyped
  <2>2. FlattenSeq(Append(Singles(x), <<t>>)) = FlattenSeq(Singles(x)) \o <<t>>
    BY <2>1, FlattenAppends
  <2>3. Append(x, t) = x \o <<t>> /\ Append(x, t) \in Seq(T)
    BY AppendIsConcat, AppendProperties
  <2> QED BY <1>2, <2>2, <2>3, SinglesAppend
<1> HIDE DEF Good
<1>3. Seq(T) \subseteq Good BY <1>1, <1>2, SeqInduction
<1> QED BY <1>3 DEF Good

(* What Joined flattens. *)
Woven(ts, sep) ==
  [k \in 1..2 * Len(ts) - 1 |-> IF k % 2 = 1 THEN ts[(k + 1) \div 2] ELSE <<sep>>]

LEMMA WovenTyped ==
  ASSUME NEW T, NEW ts \in Seq(Seq(T)), NEW sep \in T
  PROVE  /\ Woven(ts, sep) \in Seq(Seq(T))
         /\ ts # <<>> => Len(Woven(ts, sep)) = 2 * Len(ts) - 1
         /\ ts = <<>> => Woven(ts, sep) = <<>>
<1>1. Len(ts) \in Nat /\ (ts # <<>> => Len(ts) # 0) BY LenProperties, EmptySeq
<1>2. \A k \in 1..2 * Len(ts) - 1 : k % 2 = 1 => (k + 1) \div 2 \in 1..Len(ts) BY <1>1
<1>3. \A k \in 1..Len(ts) : ts[k] \in Seq(T) BY ElementOfSeq
<1>4. <<sep>> \in Seq(T) OBVIOUS
<1>5. \A k \in 1..2 * Len(ts) - 1 :
        (IF k % 2 = 1 THEN ts[(k + 1) \div 2] ELSE <<sep>>) \in Seq(T)
  BY <1>2, <1>3, <1>4
<1>6. CASE ts # <<>>
  <2>1. 2 * Len(ts) - 1 \in Nat BY <1>1, <1>6
  <2> DEFINE n == 2 * Len(ts) - 1
             e(k) == IF k % 2 = 1 THEN ts[(k + 1) \div 2] ELSE <<sep>>
  <2>2. \A k \in 1..n : e(k) \in Seq(T) BY <1>5
  <2>3. n \in Nat BY <2>1
  <2> HIDE DEF n, e
  <2>4. [k \in 1..n |-> e(k)] \in Seq(Seq(T)) /\ Len([k \in 1..n |-> e(k)]) = n
    BY <2>2, <2>3
  <2> QED BY <1>6, <2>4 DEF Woven, n, e
<1>7. CASE ts = <<>>
  <2>1. 1..2 * Len(ts) - 1 = {} BY <1>7, EmptySeq
  <2> QED BY <1>7, <2>1, EmptySeq DEF Woven
<1> QED BY <1>6, <1>7

LEMMA WovenAppend ==
  ASSUME NEW T, NEW ts \in Seq(Seq(T)), NEW sep \in T, NEW x \in Seq(T)
  PROVE  Woven(Append(ts, x), sep)
           = IF ts = <<>> THEN <<x>> ELSE Append(Append(Woven(ts, sep), <<sep>>), x)
<1> DEFINE n == Len(ts)
           new == Append(ts, x)
           a == Woven(new, sep)
<1>1. /\ n \in Nat /\ new \in Seq(Seq(T)) /\ new # <<>> /\ Len(new) = n + 1
      /\ new[n + 1] = x /\ \A k \in 1..n : new[k] = ts[k]
  BY AppendProperties, LenProperties
<1>2. n = 0 <=> ts = <<>> BY EmptySeq
<1> HIDE DEF n, new
<1>3. a \in Seq(Seq(T)) /\ Len(a) = 2 * n + 1
  <2>1. a \in Seq(Seq(T)) /\ Len(a) = 2 * Len(new) - 1 BY <1>1, WovenTyped
  <2> QED BY <1>1, <2>1
<1>4. \A k \in 1..2 * n + 1 : a[k] = IF k % 2 = 1 THEN new[(k + 1) \div 2] ELSE <<sep>>
  <2>1. 2 * Len(new) - 1 = 2 * n + 1 BY <1>1
  <2> QED BY <2>1 DEF Woven
<1> HIDE DEF a
<1>5. a[2 * n + 1] = x
  <2>1. 2 * n + 1 \in 1..2 * n + 1 /\ (2 * n + 1) % 2 = 1 /\ (2 * n + 1 + 1) \div 2 = n + 1
    BY <1>1
  <2> QED BY <1>1, <1>4, <2>1
<1>6. CASE ts = <<>>
  <2>1. Len(a) = 1 /\ a[1] = x BY <1>2, <1>3, <1>5, <1>6
  <2>2. <<x>> \in Seq(Seq(T)) /\ Len(<<x>>) = 1 /\ <<x>>[1] = x OBVIOUS
  <2> DEFINE one == <<x>>
  <2>3. a = one
    <3>1. one \in Seq(Seq(T)) /\ Len(one) = 1 /\ one[1] = x BY <2>2
    <3> HIDE DEF one
    <3>2. Len(a) = Len(one) /\ \A k \in 1..Len(a) : a[k] = one[k] BY <2>1, <3>1
    <3> QED BY <1>3, <3>1, <3>2, SeqEqual
  <2> QED BY <1>6, <2>3 DEF a, new
<1>7. CASE ts # <<>>
  <2> DEFINE w == Woven(ts, sep)
             v == Append(w, <<sep>>)
             b == Append(v, x)
  <2>1. w \in Seq(Seq(T)) /\ Len(w) = 2 * n - 1 /\ n # 0 BY <1>2, <1>7, WovenTyped DEF n
  <2>2. \A k \in 1..2 * n - 1 : w[k] = IF k % 2 = 1 THEN ts[(k + 1) \div 2] ELSE <<sep>>
    BY DEF Woven, n
  <2> HIDE DEF w
  <2>3. <<sep>> \in Seq(T) OBVIOUS
  <2>4. /\ v \in Seq(Seq(T)) /\ Len(v) = 2 * n /\ v[2 * n] = <<sep>>
        /\ \A k \in 1..2 * n - 1 : v[k] = w[k]
    <3>1. /\ v \in Seq(Seq(T)) /\ Len(v) = Len(w) + 1 /\ v[Len(w) + 1] = <<sep>>
          /\ \A k \in 1..Len(w) : v[k] = w[k]
      BY <2>1, <2>3, AppendProperties
    <3>2. Len(w) + 1 = 2 * n BY <1>1, <2>1
    <3> QED BY <2>1, <3>1, <3>2
  <2> HIDE DEF v
  <2>5. /\ b \in Seq(Seq(T)) /\ Len(b) = 2 * n + 1 /\ b[2 * n + 1] = x
        /\ \A k \in 1..2 * n : b[k] = v[k]
    <3>1. /\ b \in Seq(Seq(T)) /\ Len(b) = Len(v) + 1 /\ b[Len(v) + 1] = x
          /\ \A k \in 1..Len(v) : b[k] = v[k]
      BY <2>4, AppendProperties
    <3> QED BY <2>4, <3>1
  <2> HIDE DEF b
  <2>6. \A k \in 1..Len(a) : a[k] = b[k]
    <3> SUFFICES ASSUME NEW k \in 1..2 * n + 1 PROVE a[k] = b[k] BY <1>3
    <3>1. CASE k = 2 * n + 1 BY <1>5, <2>5, <3>1
    <3>2. CASE k = 2 * n
      <4>1. k % 2 # 1 BY <1>1, <3>2
      <4>2. k \in 1..2 * n BY <1>1, <2>1, <3>2
      <4> QED BY <1>4, <2>4, <2>5, <3>2, <4>1, <4>2
    <3>3. CASE k \in 1..2 * n - 1
      <4>1. k \in 1..2 * n BY <1>1, <3>3
      <4>2. k % 2 = 1 => (k + 1) \div 2 \in 1..n BY <1>1, <3>3
      <4>3. b[k] = w[k] BY <2>4, <2>5, <3>3, <4>1
      <4>4. k % 2 = 1 => new[(k + 1) \div 2] = ts[(k + 1) \div 2] BY <1>1, <4>2
      <4> QED BY <1>4, <2>2, <3>3, <4>3, <4>4
    <3> QED BY <1>1, <3>1, <3>2, <3>3
  <2>7. a = b BY <1>3, <2>5, <2>6, SeqEqual
  <2> QED BY <1>7, <2>7 DEF a, b, v, w, new
<1> QED BY <1>6, <1>7

LEMMA JoinedTyped ==
  ASSUME NEW T, NEW ts \in Seq(Seq(T)), NEW sep \in T
  PROVE  /\ Joined(ts, sep) = FlattenSeq(Woven(ts, sep))
         /\ Joined(ts, sep) \in Seq(T)
<1>1. Joined(ts, sep) = FlattenSeq(Woven(ts, sep)) BY DEF Joined, Woven
<1> QED BY <1>1, WovenTyped, FlattenTyped

LEMMA JoinedEmpty ==
  ASSUME NEW sep PROVE Joined(<<>>, sep) = <<>>
<1>1. <<>> \in Seq(Seq({sep})) /\ sep \in {sep} BY EmptySeq
<1>2. Woven(<<>>, sep) = <<>> BY <1>1, WovenTyped
<1> QED BY <1>1, <1>2, JoinedTyped, FlattenEmpty

LEMMA JoinedAppend ==
  ASSUME NEW T, NEW ts \in Seq(Seq(T)), NEW sep \in T, NEW x \in Seq(T)
  PROVE  Joined(Append(ts, x), sep)
           = IF ts = <<>> THEN x ELSE Append(Joined(ts, sep), sep) \o x
<1>1. Append(ts, x) \in Seq(Seq(T)) BY AppendProperties
<1>2. Joined(Append(ts, x), sep) = FlattenSeq(Woven(Append(ts, x), sep))
  BY <1>1, JoinedTyped
<1>3. CASE ts = <<>>
  <2>1. Woven(Append(ts, x), sep) = <<x>> BY <1>3, WovenAppend
  <2>2. FlattenSeq(<<x>>) = x
    <3>1. <<>> \in Seq(Seq(T)) /\ <<x>> \in Seq(Seq(T)) BY EmptySeq
    <3>2. Append(<<>>, x) = <<>> \o <<x>> BY <3>1, AppendIsConcat
    <3>3. <<>> \o <<x>> = <<x>> BY <3>1, ConcatEmptySeq
    <3> QED BY <3>1, <3>2, <3>3, FlattenAppend
  <2> QED BY <1>2, <1>3, <2>1, <2>2
<1>4. CASE ts # <<>>
  <2> DEFINE w == Woven(ts, sep)
  <2>1. Woven(Append(ts, x), sep) = Append(Append(w, <<sep>>), x) BY <1>4, WovenAppend
  <2>2. w \in Seq(Seq(T)) /\ <<sep>> \in Seq(T) BY WovenTyped
  <2> HIDE DEF w
  <2>3. Append(w, <<sep>>) \in Seq(Seq(T)) BY <2>2, AppendProperties
  <2>4. FlattenSeq(Append(Append(w, <<sep>>), x)) = FlattenSeq(Append(w, <<sep>>)) \o x
    BY <2>3, FlattenAppends
  <2>5. FlattenSeq(Append(w, <<sep>>)) = FlattenSeq(w) \o <<sep>> BY <2>2, FlattenAppends
  <2>6. FlattenSeq(w) = Joined(ts, sep) /\ Joined(ts, sep) \in Seq(T) BY JoinedTyped DEF w
  <2>7. Joined(ts, sep) \o <<sep>> = Append(Joined(ts, sep), sep) BY <2>6, AppendIsConcat
  <2> QED BY <1>2, <1>4, <2>1, <2>4, <2>5, <2>6, <2>7
<1> QED BY <1>3, <1>4

(* Single tokens with separators between them. *)
Alt(s, sep) == Joined(Singles(s), sep)

LEMMA AltEmpty ==
  ASSUME NEW sep PROVE Alt(<<>>, sep) = <<>>
<1>1. Singles(<<>>) = <<>> BY EmptySeq DEF Singles
<1> QED BY <1>1, JoinedEmpty DEF Alt

Alternating(s, sep) ==
  [k \in 1..2 * Len(s) - 1 |-> IF k % 2 = 1 THEN s[(k + 1) \div 2] ELSE sep]

LEMMA AltElements ==
  ASSUME NEW T, NEW s \in Seq(T), s # <<>>, NEW sep \in T
  PROVE  /\ Alt(s, sep) \in Seq(T) /\ Len(Alt(s, sep)) = 2 * Len(s) - 1
         /\ Alt(s, sep) = Alternating(s, sep)
<1> DEFINE n == 2 * Len(s) - 1
           e(k) == IF k % 2 = 1 THEN s[(k + 1) \div 2] ELSE sep
           z == [k \in 1..n |-> e(k)]
           ss == Singles(s)
           w == Woven(ss, sep)
<1>1. /\ ss \in Seq(Seq(T)) /\ Len(ss) = Len(s)
      /\ \A k \in 1..Len(s) : ss[k] = <<s[k]>>
  BY SinglesTyped
<1>2. Len(s) \in Nat \ {0} BY EmptySeq
<1>3. n \in Nat BY <1>2
<1>4. \A k \in 1..n : k % 2 = 1 => (k + 1) \div 2 \in 1..Len(s) BY <1>2
<1>5. \A k \in 1..n : e(k) \in T BY <1>4, ElementOfSeq
<1>6. z \in Seq(T) /\ Len(z) = n /\ \A k \in 1..n : z[k] = e(k)
  <2> HIDE DEF n, e
  <2> QED BY <1>3, <1>5
<1>7. ss # <<>> BY <1>1, <1>2, EmptySeq
<1> HIDE DEF z, ss
<1>8. w \in Seq(Seq(T)) /\ Len(w) = n
  <2>1. Woven(ss, sep) \in Seq(Seq(T)) /\ (ss # <<>> => Len(Woven(ss, sep)) = 2 * Len(ss) - 1)
    BY <1>1, WovenTyped
  <2> QED BY <1>1, <1>7, <2>1
<1>9. \A k \in 1..n : w[k] = IF k % 2 = 1 THEN ss[(k + 1) \div 2] ELSE <<sep>>
  BY <1>1 DEF Woven
<1>10. \A k \in 1..n : w[k] = <<e(k)>> BY <1>1, <1>4, <1>9
<1> HIDE DEF w
<1>11. w = Singles(z)
  <2>1. Singles(z) \in Seq(Seq(T)) /\ Len(Singles(z)) = n
        /\ \A k \in 1..n : Singles(z)[k] = <<z[k]>>
    BY <1>6, SinglesTyped
  <2>2. \A k \in 1..Len(w) : w[k] = Singles(z)[k]
    <3> HIDE DEF n, e
    <3> QED BY <1>6, <1>8, <1>10, <2>1
  <2> HIDE DEF n
  <2> QED BY <1>8, <2>1, <2>2, SeqEqual
<1>12. Joined(ss, sep) = FlattenSeq(w) BY <1>1, JoinedTyped DEF w
<1>13. Alt(s, sep) = z BY <1>6, <1>11, <1>12, FlattenSingles DEF Alt, ss
<1> QED BY <1>6, <1>13 DEF z, Alternating

LEMMA AltIs ==
  ASSUME NEW T, NEW s \in Seq(T), NEW sep \in T
  PROVE  /\ Alt(s, sep) \in Seq(T)
         /\ s # <<>> => Len(Alt(s, sep)) = 2 * Len(s) - 1
<1>1. s = <<>> => Alt(s, sep) = <<>> BY AltEmpty
<1>2. <<>> \in Seq(T) BY EmptySeq
<1> QED BY <1>1, <1>2, AltElements

LEMMA AltAt ==
  ASSUME NEW T, NEW s \in Seq(T), s # <<>>, NEW sep \in T, NEW k \in 1..2 * Len(s) - 1
  PROVE  Alt(s, sep)[k] = IF k % 2 = 1 THEN s[(k + 1) \div 2] ELSE sep
<1>1. Alt(s, sep) = Alternating(s, sep) BY AltElements
<1> QED BY <1>1 DEF Alternating

(* Tokens each with a separator after it. *)
Lead(s, sep) == IF s = <<>> THEN <<>> ELSE Append(Alt(s, sep), sep)

LEMMA LeadIs ==
  ASSUME NEW T, NEW s \in Seq(T), NEW sep \in T, NEW x \in T
  PROVE  /\ Lead(s, sep) \in Seq(T)
         /\ Alt(Append(s, x), sep) = Append(Lead(s, sep), x)
         /\ Lead(Append(s, x), sep) = Append(Append(Lead(s, sep), x), sep)
<1> DEFINE ss == Singles(s)
           xx == <<x>>
<1>1. /\ ss \in Seq(Seq(T)) /\ Len(ss) = Len(s) /\ xx \in Seq(T)
      /\ Singles(Append(s, x)) = Append(ss, xx)
  BY SinglesTyped, SinglesAppend
<1>2. ss = <<>> <=> s = <<>> BY <1>1, EmptySeq
<1>3. Alt(s, sep) \in Seq(T) /\ <<>> \in Seq(T) BY AltIs, EmptySeq
<1>4. Lead(s, sep) \in Seq(T) BY <1>3, AppendProperties DEF Lead
<1>5. Append(Lead(s, sep), x) = Lead(s, sep) \o xx BY <1>4, AppendIsConcat
<1>6. <<>> \o xx = xx BY <1>1, ConcatEmptySeq
<1> HIDE DEF ss, xx
<1>7. Joined(Append(ss, xx), sep) = IF ss = <<>> THEN xx ELSE Append(Joined(ss, sep), sep) \o xx
  BY <1>1, JoinedAppend, ZenonT(40)
<1>8. Alt(Append(s, x), sep) = Append(Lead(s, sep), x)
  <2>1. Alt(Append(s, x), sep) = Joined(Append(ss, xx), sep) BY <1>1 DEF Alt
  <2>2. Alt(s, sep) = Joined(ss, sep) BY DEF Alt, ss
  <2>3. CASE s = <<>> BY <1>2, <1>5, <1>6, <1>7, <2>1, <2>3 DEF Lead
  <2>4. CASE s # <<>> BY <1>2, <1>5, <1>7, <2>1, <2>2, <2>4 DEF Lead
  <2> QED BY <2>3, <2>4
<1>9. Append(s, x) # <<>> BY AppendProperties
<1> QED BY <1>4, <1>8, <1>9 DEF Lead

-----------------------------------------------------------------------------
(* The numerals of a text.                                                 *)
LEMMA NumeralsEmpty == NumeralsOf(<<>>) = <<>>
<1>1. [k \in 1..Len(<<>>) |-> IF <<>>[k] \in Symbols THEN <<>> ELSE <<(<<>>[k])>>] = <<>>
  BY EmptySeq
<1> QED BY <1>1, FlattenEmpty DEF NumeralsOf

(* What NumeralsOf flattens. *)
Sifted(w) == [k \in 1..Len(w) |-> IF w[k] \in Symbols THEN <<>> ELSE <<w[k]>>]

LEMMA SiftedAppend ==
  ASSUME NEW T, NEW w \in Seq(T), NEW t \in T
  PROVE  /\ Sifted(w) \in Seq(Seq(T \ Symbols))
         /\ Sifted(Append(w, t)) = Append(Sifted(w), IF t \in Symbols THEN <<>> ELSE <<t>>)
<1> DEFINE S == T \ Symbols
           e(x) == IF x \in Symbols THEN <<>> ELSE <<x>>
           new == Append(w, t)
           a == Sifted(new)
           b == Append(Sifted(w), e(t))
<1>1. \A x \in T : e(x) \in Seq(S)
  <2> SUFFICES ASSUME NEW x \in T PROVE e(x) \in Seq(S) OBVIOUS
  <2>1. CASE x \in Symbols BY <2>1, EmptySeq
  <2>2. CASE x \notin Symbols
    <3>1. x \in S BY <2>2
    <3> HIDE DEF S
    <3>2. <<x>> \in Seq(S) BY <3>1
    <3> QED BY <2>2, <3>2
  <2> QED BY <2>1, <2>2
<1> HIDE DEF S
<1>2. \A v \in Seq(T) : Sifted(v) = [k \in 1..Len(v) |-> e(v[k])] BY DEF Sifted
<1> HIDE DEF e
<1>3. \A v \in Seq(T) : /\ Sifted(v) \in Seq(Seq(S)) /\ Len(Sifted(v)) = Len(v)
                        /\ \A k \in 1..Len(v) : Sifted(v)[k] = e(v[k])
  <2> SUFFICES ASSUME NEW v \in Seq(T)
               PROVE  /\ Sifted(v) \in Seq(Seq(S)) /\ Len(Sifted(v)) = Len(v)
                      /\ \A k \in 1..Len(v) : Sifted(v)[k] = e(v[k])
    OBVIOUS
  <2>1. Len(v) \in Nat BY LenProperties
  <2>2. \A k \in 1..Len(v) : e(v[k]) \in Seq(S) BY <1>1, ElementOfSeq
  <2> QED BY <1>2, <2>1, <2>2, SMTT(40)
<1>4. /\ new \in Seq(T) /\ Len(new) = Len(w) + 1 /\ new[Len(w) + 1] = t
      /\ \A k \in 1..Len(w) : new[k] = w[k]
  BY AppendProperties
<1> HIDE DEF new
<1>5. /\ b \in Seq(Seq(S)) /\ Len(b) = Len(w) + 1 /\ b[Len(w) + 1] = e(t)
      /\ \A k \in 1..Len(w) : b[k] = Sifted(w)[k]
  <2>1. Sifted(w) \in Seq(Seq(S)) /\ e(t) \in Seq(S) /\ Len(Sifted(w)) = Len(w)
    BY <1>1, <1>3
  <2> QED BY <2>1, AppendProperties, SMTT(40)
<1> HIDE DEF b
<1>6. \A k \in 1..Len(a) : a[k] = b[k]
  <2>1. Len(a) = Len(w) + 1 /\ Len(w) \in Nat BY <1>3, <1>4, LenProperties
  <2> SUFFICES ASSUME NEW k \in 1..Len(w) + 1 PROVE a[k] = b[k] BY <2>1
  <2>2. CASE k = Len(w) + 1 BY <1>3, <1>4, <1>5, <2>2
  <2>3. CASE k \in 1..Len(w) BY <1>3, <1>4, <1>5, <2>3, ZenonT(40)
  <2> QED BY <2>1, <2>2, <2>3
<1>7. a = b
  <2>1. a \in Seq(Seq(S)) /\ Len(a) = Len(b) BY <1>3, <1>4, <1>5
  <2> HIDE DEF a
  <2> QED BY <1>5, <1>6, <2>1, SeqEqual
<1> QED BY <1>3, <1>7 DEF S, a, b, e, new

LEMMA NumeralsTyped ==
  ASSUME NEW T, NEW w \in Seq(T)
  PROVE  NumeralsOf(w) \in Seq(T \ Symbols) /\ NumeralsOf(w) = FlattenSeq(Sifted(w))
<1>1. NumeralsOf(w) = FlattenSeq(Sifted(w)) BY DEF NumeralsOf, Sifted
<1>2. Sifted(w) \in Seq(Seq(T \ Symbols))
  <2>1. CASE w = <<>>
    <3>1. Sifted(w) = <<>> BY <2>1, EmptySeq DEF Sifted
    <3> QED BY <3>1, EmptySeq
  <2>2. CASE w # <<>>
    <3>1. \E t \in T : TRUE BY <2>2, EmptySeq, ElementOfSeq
    <3> QED BY <3>1, SiftedAppend
  <2> QED BY <2>1, <2>2
<1> QED BY <1>1, <1>2, FlattenTyped

LEMMA NumeralsAppend ==
  ASSUME NEW T, NEW w \in Seq(T), NEW t \in T
  PROVE  NumeralsOf(Append(w, t))
           = IF t \in Symbols THEN NumeralsOf(w) ELSE Append(NumeralsOf(w), t)
<1> DEFINE e == IF t \in Symbols THEN <<>> ELSE <<t>>
<1>1. Append(w, t) \in Seq(T) BY AppendProperties
<1>2. Sifted(w) \in Seq(Seq(T \ Symbols)) /\ Sifted(Append(w, t)) = Append(Sifted(w), e)
  BY SiftedAppend
<1>3. NumeralsOf(w) \in Seq(T \ Symbols) /\ NumeralsOf(w) = FlattenSeq(Sifted(w))
  BY NumeralsTyped
<1>4. NumeralsOf(Append(w, t)) = FlattenSeq(Append(Sifted(w), e)) BY <1>1, <1>2, NumeralsTyped
<1>5. CASE t \in Symbols
  <2>1. e = <<>> /\ e \in Seq(T \ Symbols) BY <1>5, EmptySeq
  <2>2. FlattenSeq(Append(Sifted(w), e)) = FlattenSeq(Sifted(w)) \o e
    BY <1>2, <2>1, FlattenAppends
  <2> QED BY <1>3, <1>4, <1>5, <2>1, <2>2, ConcatEmptySeq
<1>6. CASE t \notin Symbols
  <2>1. t \in T \ Symbols BY <1>6
  <2>2. e = <<t>> /\ e \in Seq(T \ Symbols) BY <1>6, <2>1
  <2>3. FlattenSeq(Append(Sifted(w), e)) = FlattenSeq(Sifted(w)) \o e
    BY <1>2, <2>2, FlattenAppends
  <2>4. NumeralsOf(w) \o <<t>> = Append(NumeralsOf(w), t) BY <1>3, <2>1, AppendIsConcat
  <2> QED BY <1>3, <1>4, <1>6, <2>2, <2>3, <2>4
<1> QED BY <1>5, <1>6
LEMMA NumeralsConcat ==
  ASSUME NEW T, NEW v \in Seq(T), NEW w \in Seq(T)
  PROVE  NumeralsOf(v \o w) = NumeralsOf(v) \o NumeralsOf(w)
<1> DEFINE Good == {x \in Seq(T) : NumeralsOf(v \o x) = NumeralsOf(v) \o NumeralsOf(x)}
<1>1. <<>> \in Good
  <2>1. v \o <<>> = v BY ConcatEmptySeq
  <2>2. NumeralsOf(v) \o <<>> = NumeralsOf(v) BY NumeralsTyped, ConcatEmptySeq
  <2> QED BY <2>1, <2>2, NumeralsEmpty, EmptySeq
<1>2. ASSUME NEW x \in Seq(T), NEW t \in T, x \in Good PROVE Append(x, t) \in Good
  <2>1. v \o Append(x, t) = Append(v \o x, t) BY AppendsOutside
  <2>2. v \o x \in Seq(T) /\ Append(x, t) \in Seq(T) BY ConcatProperties, AppendProperties
  <2>3. NumeralsOf(Append(v \o x, t))
          = IF t \in Symbols THEN NumeralsOf(v \o x) ELSE Append(NumeralsOf(v \o x), t)
    BY <2>2, NumeralsAppend
  <2>4. NumeralsOf(Append(x, t)) = IF t \in Symbols THEN NumeralsOf(x) ELSE Append(NumeralsOf(x), t)
    BY NumeralsAppend
  <2>5. NumeralsOf(v \o x) = NumeralsOf(v) \o NumeralsOf(x) BY <1>2
  <2>6. CASE t \in Symbols BY <2>1, <2>2, <2>3, <2>4, <2>5, <2>6
  <2>7. CASE t \notin Symbols
    <3>1. NumeralsOf(v) \in Seq(T \ Symbols) /\ NumeralsOf(x) \in Seq(T \ Symbols)
      BY NumeralsTyped
    <3>2. t \in T \ Symbols BY <2>7
    <3>3. NumeralsOf(v) \o Append(NumeralsOf(x), t) = Append(NumeralsOf(v) \o NumeralsOf(x), t)
      BY <3>1, <3>2, AppendsOutside
    <3> QED BY <2>1, <2>2, <2>3, <2>4, <2>5, <2>7, <3>3
  <2> QED BY <2>6, <2>7
<1> HIDE DEF Good
<1>3. Seq(T) \subseteq Good BY <1>1, <1>2, SeqInduction
<1> QED BY <1>3 DEF Good

(* The numerals that stand between separators. *)
LEMMA NumeralsOfAlt ==
  ASSUME NEW T, T \cap Symbols = {}, NEW s \in Seq(T), NEW sep \in Symbols
  PROVE  NumeralsOf(Alt(s, sep)) = s
<1> DEFINE Good == {x \in Seq(T) : NumeralsOf(Alt(x, sep)) = x}
           U == T \cup {sep}
<1>0. \A x \in Seq(T) : x \in Seq(U) BY SeqMonotonic
<1>1. <<>> \in Good
  <2> QED BY AltEmpty, NumeralsEmpty, EmptySeq
<1>2. ASSUME NEW x \in Seq(T), NEW t \in T, x \in Good PROVE Append(x, t) \in Good
  <2>1. /\ x \in Seq(U) /\ sep \in U /\ t \in U /\ t \notin Symbols
        /\ Append(x, t) \in Seq(T) /\ NumeralsOf(Alt(x, sep)) = x
    BY <1>0, <1>2, AppendProperties
  <2> HIDE DEF U
  <2>2. Lead(x, sep) \in Seq(U) /\ Alt(Append(x, t), sep) = Append(Lead(x, sep), t)
    BY <2>1, LeadIs
  <2>3. NumeralsOf(Append(Lead(x, sep), t)) = Append(NumeralsOf(Lead(x, sep)), t)
    BY <2>1, <2>2, NumeralsAppend
  <2>4. NumeralsOf(Lead(x, sep)) = x
    <3>1. CASE x = <<>> BY <3>1, NumeralsEmpty DEF Lead
    <3>2. CASE x # <<>>
      <4>1. Alt(x, sep) \in Seq(U) BY <2>1, AltIs
      <4>2. NumeralsOf(Append(Alt(x, sep), sep)) = NumeralsOf(Alt(x, sep))
        BY <2>1, <4>1, NumeralsAppend
      <4> QED BY <2>1, <3>2, <4>2 DEF Lead
    <3> QED BY <3>1, <3>2
  <2> QED BY <2>1, <2>2, <2>3, <2>4
<1> HIDE DEF Good
<1>3. Seq(T) \subseteq Good BY <1>1, <1>2, SeqInduction
<1> QED BY <1>3 DEF Good

LEMMA NumeralsOfLead ==
  ASSUME NEW T, T \cap Symbols = {}, NEW s \in Seq(T), NEW sep \in Symbols
  PROVE  NumeralsOf(Lead(s, sep)) = s
<1>1. CASE s = <<>> BY <1>1, NumeralsEmpty DEF Lead
<1>2. CASE s # <<>>
  <2> DEFINE U == T \cup {sep}
  <2>1. s \in Seq(U) /\ sep \in U BY SeqMonotonic
  <2> HIDE DEF U
  <2>2. Alt(s, sep) \in Seq(U) BY <2>1, AltIs
  <2>3. NumeralsOf(Append(Alt(s, sep), sep)) = NumeralsOf(Alt(s, sep))
    BY <2>1, <2>2, NumeralsAppend
  <2> QED BY <1>2, <2>3, NumeralsOfAlt DEF Lead
<1> QED BY <1>1, <1>2

-----------------------------------------------------------------------------
(* What has been read: the groups l before the gap, the groups r after it, *)
(* the bytes o, and the text they came in.                                 *)
(* Any numeral, of which those that TLC tries are a few. *)
Nums == Seq(0..15) \ {<<>>}
Tokens == Nums \cup Symbols
Words == {Uninitialized, 0} \cup {Value(n, 16) : n \in Nums}

Open(l) == Alt(l, Colon) \o <<Colon, Colon>>

(* The groups with what must stand before the next token. *)
Groups(l, b, r) == IF b < 0 THEN Lead(l, Colon) ELSE Open(l) \o Lead(r, Colon)

(* The groups of a text that ends there. *)
Whole(l, b, r) == IF b < 0 THEN Alt(l, Colon) ELSE Open(l) \o Alt(r, Colon)

LEMMA TokensAre ==
  /\ Nums \subseteq Tokens /\ Symbols \subseteq Tokens /\ Nums \cap Symbols = {}
  /\ Numerals \subseteq Nums /\ Octets \subseteq Nums
  /\ Colon \in Symbols /\ Dot \in Symbols /\ End \in Symbols
  /\ Colon # Dot /\ Colon # End /\ Dot # End
BY AddrAssumption DEF Nums, Tokens, Symbols

LEMMA TwoMore ==
  ASSUME NEW T, NEW s \in Seq(T), NEW x \in T, NEW y \in T
  PROVE  s \o <<x, y>> = Append(Append(s, x), y)
<1>1. <<x>> \in Seq(T) /\ <<x, y>> \in Seq(T) OBVIOUS
<1>2. <<x, y>> = Append(<<x>>, y) OBVIOUS
<1>3. s \o Append(<<x>>, y) = Append(s \o <<x>>, y) BY <1>1, AppendsOutside
<1> QED BY <1>1, <1>2, <1>3, AppendIsConcat

LEMMA LastOfAppend ==
  ASSUME NEW T, NEW s \in Seq(T), NEW x \in T
  PROVE  Last(Append(s, x)) = x
BY AppendProperties DEF Last

LEMMA OpenIs ==
  ASSUME NEW l \in Seq(Nums)
  PROVE  /\ Open(l) \in Seq(Tokens) /\ l \in Seq(Tokens)
         /\ Alt(l, Colon) \in Seq(Tokens) /\ <<Colon>> \in Seq(Tokens)
         /\ Open(l) = Append(Append(Alt(l, Colon), Colon), Colon)
         /\ l # <<>> => Open(l) = Append(Lead(l, Colon), Colon)
         /\ l = <<>> => Open(l) = Append(<<Colon>>, Colon)
<1>1. l \in Seq(Tokens) /\ Colon \in Tokens BY TokensAre, SeqMonotonic
<1>2. Alt(l, Colon) \in Seq(Tokens) BY <1>1, AltIs
<1>3. <<Colon, Colon>> \in Seq(Tokens) /\ <<Colon>> \in Seq(Tokens)
      /\ <<Colon, Colon>> = Append(<<Colon>>, Colon)
  BY <1>1
<1>4. Open(l) \in Seq(Tokens) BY <1>2, <1>3, ConcatProperties DEF Open
<1>5. Open(l) = Append(Append(Alt(l, Colon), Colon), Colon) BY <1>1, <1>2, TwoMore DEF Open
<1>6. l = <<>> => Open(l) = <<Colon, Colon>>
  <2>1. Alt(<<>>, Colon) = <<>> BY AltEmpty
  <2>2. <<>> \o <<Colon, Colon>> = <<Colon, Colon>> BY <1>3, ConcatEmptySeq
  <2> QED BY <2>1, <2>2 DEF Open
<1> QED BY <1>1, <1>2, <1>3, <1>4, <1>5, <1>6 DEF Lead

LEMMA GroupsIs ==
  ASSUME NEW l \in Seq(Nums), NEW r \in Seq(Nums), NEW b, NEW x \in Nums
  PROVE  /\ Groups(l, b, r) \in Seq(Tokens)
         /\ b < 0 =>
              /\ Append(Groups(l, b, r), x) = Whole(Append(l, x), b, r)
              /\ Append(Append(Groups(l, b, r), x), Colon) = Groups(Append(l, x), b, r)
         /\ ~(b < 0) =>
              /\ Append(Groups(l, b, r), x) = Whole(l, b, Append(r, x))
              /\ Append(Append(Groups(l, b, r), x), Colon) = Groups(l, b, Append(r, x))
<1>1. l \in Seq(Tokens) /\ r \in Seq(Tokens) /\ Colon \in Tokens /\ x \in Tokens
  BY TokensAre, SeqMonotonic
<1>2. \A s \in {l, r} : /\ Lead(s, Colon) \in Seq(Tokens)
                        /\ Alt(Append(s, x), Colon) = Append(Lead(s, Colon), x)
                        /\ Lead(Append(s, x), Colon) = Append(Append(Lead(s, Colon), x), Colon)
  <2> SUFFICES ASSUME NEW s \in {l, r}
               PROVE  /\ Lead(s, Colon) \in Seq(Tokens)
                      /\ Alt(Append(s, x), Colon) = Append(Lead(s, Colon), x)
                      /\ Lead(Append(s, x), Colon) = Append(Append(Lead(s, Colon), x), Colon)
    OBVIOUS
  <2>1. s \in Seq(Tokens) BY <1>1
  <2>2. Lead(s, Colon) \in Seq(Tokens) BY <1>1, <2>1, LeadIs
  <2>3. Alt(Append(s, x), Colon) = Append(Lead(s, Colon), x) BY <1>1, <2>1, LeadIs
  <2>4. Append(s, x) # <<>> BY <1>1, <2>1, AppendProperties
  <2> QED BY <2>2, <2>3, <2>4 DEF Lead
<1>3. CASE b < 0 BY <1>2, <1>3 DEF Groups, Whole
<1>4. CASE ~(b < 0)
  <2> DEFINE p == Open(l)
             m == Lead(r, Colon)
  <2>1. p \in Seq(Tokens) /\ m \in Seq(Tokens) BY <1>2, OpenIs
  <2>2. Append(m, x) = Alt(Append(r, x), Colon) BY <1>2
  <2>3. Append(Append(m, x), Colon) = Lead(Append(r, x), Colon) BY <1>2
  <2>4. Groups(l, b, r) = p \o m BY <1>4 DEF Groups
  <2> HIDE DEF p, m
  <2>5. p \o m \in Seq(Tokens) /\ Append(m, x) \in Seq(Tokens)
    BY <1>1, <2>1, ConcatProperties, AppendProperties
  <2>6. p \o Append(m, x) = Append(p \o m, x) BY <1>1, <2>1, AppendsOutside
  <2>7. p \o Append(Append(m, x), Colon) = Append(p \o Append(m, x), Colon)
    BY <1>1, <2>1, <2>5, AppendsOutside
  <2> QED BY <1>4, <2>2, <2>3, <2>4, <2>5, <2>6, <2>7 DEF Groups, Whole, p
<1> QED BY <1>3, <1>4

LEMMA GroupsEmpty ==
  ASSUME NEW l \in Seq(Nums), NEW b
  PROVE  /\ ~(b < 0) => Groups(l, b, <<>>) = Open(l) /\ Whole(l, b, <<>>) = Open(l)
         /\ b < 0 => Groups(<<>>, b, <<>>) = <<>>
<1>1. Open(l) \o <<>> = Open(l) BY OpenIs, ConcatEmptySeq
<1> QED BY <1>1, AltEmpty DEF Groups, Whole, Lead

-----------------------------------------------------------------------------
(* What the registers hold of the groups and the bytes. *)
Kept(l, r, o, b, g, bs) ==
  /\ \A k \in 1..Len(l) : IsGroup(l[k]) /\ g[k - 1] = Value(l[k], 16)
  /\ IF b < 0 THEN r = <<>> ELSE b = Len(l) /\ g[b] = 0
  /\ \A k \in 1..Len(r) : IsGroup(r[k]) /\ g[b + k] = Value(r[k], 16)
  /\ bs = Values(o, 10) /\ \A k \in 1..Len(o) : IsByte(o[k])

(* Where the next group goes. *)
Place(l, r, b) == Len(l) + Len(r) + IF b < 0 THEN 0 ELSE 1

LEMMA AppendIs ==
  ASSUME NEW T, NEW s \in Seq(T), NEW x \in T
  PROVE  /\ Append(s, x) \in Seq(T) /\ Len(s) \in Nat /\ Len(Append(s, x)) = Len(s) + 1
         /\ \A k \in 1..Len(s) + 1 : Append(s, x)[k] = IF k = Len(s) + 1 THEN x ELSE s[k]
<1>1. /\ Append(s, x) \in Seq(T) /\ Len(s) \in Nat /\ Len(Append(s, x)) = Len(s) + 1
      /\ \A k \in 1..Len(s) : Append(s, x)[k] = s[k]
      /\ Append(s, x)[Len(s) + 1] = x
  BY AppendProperties, LenProperties
<1>2. \A k \in 1..Len(s) + 1 : k # Len(s) + 1 => k \in 1..Len(s) BY <1>1
<1> QED BY <1>1, <1>2

LEMMA ValuesAppend ==
  ASSUME NEW o \in Seq(Nums), NEW x \in Nums, NEW base
  PROVE  /\ Values(Append(o, x), base) = Append(Values(o, base), Value(x, base))
         /\ Len(Values(o, base)) = Len(o)
<1> DEFINE V == {Value(n, base) : n \in Nums}
           a == Values(Append(o, x), base)
           b == Append(Values(o, base), Value(x, base))
<1>1. \A s \in Seq(Nums) : /\ Values(s, base) \in Seq(V) /\ Len(Values(s, base)) = Len(s)
                           /\ \A k \in 1..Len(s) : Values(s, base)[k] = Value(s[k], base)
  <2> SUFFICES ASSUME NEW s \in Seq(Nums)
               PROVE  /\ Values(s, base) \in Seq(V) /\ Len(Values(s, base)) = Len(s)
                      /\ \A k \in 1..Len(s) : Values(s, base)[k] = Value(s[k], base)
    OBVIOUS
  <2>1. Len(s) \in Nat BY LenProperties
  <2>2. \A k \in 1..Len(s) : Value(s[k], base) \in V BY ElementOfSeq
  <2> HIDE DEF V
  <2> QED BY <2>1, <2>2 DEF Values
<1>2. Value(x, base) \in V OBVIOUS
<1> HIDE DEF V
<1>3. /\ Append(o, x) \in Seq(Nums) /\ Len(o) \in Nat /\ Len(Append(o, x)) = Len(o) + 1
      /\ \A k \in 1..Len(o) + 1 : Append(o, x)[k] = IF k = Len(o) + 1 THEN x ELSE o[k]
  BY AppendIs
<1>4. /\ b \in Seq(V) /\ Len(b) = Len(o) + 1
      /\ \A k \in 1..Len(o) + 1 :
           b[k] = IF k = Len(o) + 1 THEN Value(x, base) ELSE Values(o, base)[k]
  BY <1>1, <1>2, AppendIs
<1>5. a \in Seq(V) /\ Len(a) = Len(o) + 1 BY <1>1, <1>3
<1>6. \A k \in 1..Len(a) : a[k] = b[k]
  <2> SUFFICES ASSUME NEW k \in 1..Len(o) + 1 PROVE a[k] = b[k] BY <1>5
  <2>1. a[k] = Value(Append(o, x)[k], base) BY <1>1, <1>3
  <2>2. CASE k = Len(o) + 1 BY <1>3, <1>4, <2>1, <2>2
  <2>3. CASE k # Len(o) + 1
    <3>1. k \in 1..Len(o) BY <1>3, <2>3
    <3> QED BY <1>1, <1>3, <1>4, <2>1, <2>3, <3>1
  <2> QED BY <2>2, <2>3
<1> HIDE DEF a, b
<1>7. a = b BY <1>4, <1>5, <1>6, SeqEqual
<1> QED BY <1>1, <1>7 DEF a, b

LEMMA KeptGroup ==
  ASSUME NEW l \in Seq(Nums), NEW r \in Seq(Nums), NEW o \in Seq(Nums), NEW b \in -1..7,
         NEW g \in [0..7 -> Words], NEW bs, Kept(l, r, o, b, g, bs),
         NEW x \in Nums, IsGroup(x), NEW j \in 0..7, j = Place(l, r, b),
         NEW h, h = [g EXCEPT ![j] = Value(x, 16)]
  PROVE  /\ h \in [0..7 -> Words]
         /\ Kept(l, r, o, b, h, bs)
         /\ b < 0 => Kept(Append(l, x), r, o, b, h, bs)
         /\ ~(b < 0) => Kept(l, Append(r, x), o, b, h, bs)
<1>1. Value(x, 16) \in Words BY DEF Words
<1>2. h \in [0..7 -> Words] /\ h[j] = Value(x, 16) /\ \A k \in 0..7 : k # j => h[k] = g[k]
  BY <1>1
<1>3. Len(l) \in Nat /\ Len(r) \in Nat BY LenProperties
<1>4. \A k \in 1..Len(l) : IsGroup(l[k]) /\ h[k - 1] = Value(l[k], 16)
  <2>1. \A k \in 1..Len(l) : k - 1 \in 0..7 /\ k - 1 # j BY <1>3, SMTT(40) DEF Place
  <2> QED BY <1>2, <2>1 DEF Kept
<1>5. IF b < 0 THEN r = <<>> ELSE b = Len(l) /\ h[b] = 0
  <2>1. ~(b < 0) => b = Len(l) /\ b \in 0..7 /\ b # j BY <1>3, SMTT(40) DEF Place, Kept
  <2> QED BY <1>2, <2>1 DEF Kept
<1>6. b < 0 => Len(r) = 0 BY EmptySeq DEF Kept
<1>7. \A k \in 1..Len(r) : IsGroup(r[k]) /\ h[b + k] = Value(r[k], 16)
  <2>1. \A k \in 1..Len(r) : b + k \in 0..7 /\ b + k # j
    <3>1. ~(b < 0) => b = Len(l) BY DEF Kept
    <3> QED BY <1>3, <1>6, <3>1, SMTT(40) DEF Place
  <2> QED BY <1>2, <2>1 DEF Kept
<1>8. Kept(l, r, o, b, h, bs) BY <1>4, <1>5, <1>7 DEF Kept
<1>9. ASSUME b < 0 PROVE Kept(Append(l, x), r, o, b, h, bs)
  <2>1. j = Len(l) BY <1>3, <1>6, <1>9 DEF Place
  <2>2. /\ Len(Append(l, x)) = Len(l) + 1
        /\ \A k \in 1..Len(l) + 1 : Append(l, x)[k] = IF k = Len(l) + 1 THEN x ELSE l[k]
    BY AppendIs
  <2>3. ASSUME NEW k \in 1..Len(l) + 1
        PROVE  IsGroup(Append(l, x)[k]) /\ h[k - 1] = Value(Append(l, x)[k], 16)
    <3>1. CASE k = Len(l) + 1
      <4>1. k - 1 = j /\ Append(l, x)[k] = x BY <1>3, <2>1, <2>2, <3>1
      <4> QED BY <1>2, <4>1
    <3>2. CASE k # Len(l) + 1
      <4>1. k \in 1..Len(l) /\ Append(l, x)[k] = l[k] BY <1>3, <2>2, <3>2, SMTT(40)
      <4> QED BY <1>4, <4>1
    <3> QED BY <3>1, <3>2
  <2> QED BY <1>5, <1>7, <1>9, <2>2, <2>3 DEF Kept
<1>10. ASSUME ~(b < 0) PROVE Kept(l, Append(r, x), o, b, h, bs)
  <2>1. j = b + Len(r) + 1 BY <1>3, <1>5, <1>10 DEF Place
  <2>2. /\ Len(Append(r, x)) = Len(r) + 1
        /\ \A k \in 1..Len(r) + 1 : Append(r, x)[k] = IF k = Len(r) + 1 THEN x ELSE r[k]
    BY AppendIs, SMTT(40)
  <2>3. ASSUME NEW k \in 1..Len(r) + 1
        PROVE  IsGroup(Append(r, x)[k]) /\ h[b + k] = Value(Append(r, x)[k], 16)
    <3>1. CASE k = Len(r) + 1
      <4>1. b + k = j /\ Append(r, x)[k] = x BY <1>3, <2>1, <2>2, <3>1
      <4> QED BY <1>2, <4>1
    <3>2. CASE k # Len(r) + 1
      <4>1. k \in 1..Len(r) /\ Append(r, x)[k] = r[k] BY <1>3, <2>2, <3>2
      <4> QED BY <1>7, <4>1
    <3> QED BY <3>1, <3>2
  <2> QED BY <1>4, <1>5, <1>10, <2>2, <2>3 DEF Kept
<1> QED BY <1>2, <1>8, <1>9, <1>10

LEMMA KeptGap ==
  ASSUME NEW l \in Seq(Nums), NEW r \in Seq(Nums), NEW o \in Seq(Nums),
         NEW b \in -1..7, b < 0,
         NEW g \in [0..7 -> Words], NEW bs, Kept(l, r, o, b, g, bs),
         NEW j \in 0..7, j = Place(l, r, b), NEW h, h = [g EXCEPT ![j] = 0]
  PROVE  Kept(l, r, o, j, h, bs)
<1>1. 0 \in Words BY DEF Words
<1>2. h \in [0..7 -> Words] /\ h[j] = 0 /\ \A k \in 0..7 : k # j => h[k] = g[k] BY <1>1
<1>3. Len(l) \in Nat /\ r = <<>> /\ Len(r) = 0 BY LenProperties, EmptySeq DEF Kept
<1>4. j = Len(l) /\ ~(j < 0) BY <1>3 DEF Place
<1>5. \A k \in 1..Len(l) : IsGroup(l[k]) /\ h[k - 1] = Value(l[k], 16)
  <2>1. \A k \in 1..Len(l) : k - 1 \in 0..7 /\ k - 1 # j BY <1>3, <1>4
  <2> QED BY <1>2, <2>1 DEF Kept
<1>6. \A k \in 1..Len(r) : IsGroup(r[k]) /\ h[j + k] = Value(r[k], 16) BY <1>3
<1> QED BY <1>2, <1>3, <1>4, <1>5, <1>6 DEF Kept

LEMMA KeptByte ==
  ASSUME NEW l, NEW r, NEW o \in Seq(Nums), NEW b, NEW g, NEW bs, Kept(l, r, o, b, g, bs),
         NEW x \in Nums, IsByte(x)
  PROVE  Len(bs) = Len(o) /\ Kept(l, r, Append(o, x), b, g, Append(bs, Value(x, 10)))
<1>1. bs = Values(o, 10) BY DEF Kept
<1>2. Values(Append(o, x), 10) = Append(bs, Value(x, 10)) /\ Len(bs) = Len(o)
  BY <1>1, ValuesAppend
<1>3. /\ Len(Append(o, x)) = Len(o) + 1 /\ Len(o) \in Nat
      /\ \A k \in 1..Len(o) + 1 : Append(o, x)[k] = IF k = Len(o) + 1 THEN x ELSE o[k]
  BY AppendIs
<1>4. \A k \in 1..Len(o) + 1 : k # Len(o) + 1 => k \in 1..Len(o) BY <1>3
<1>5. \A k \in 1..Len(Append(o, x)) : IsByte(Append(o, x)[k]) BY <1>3, <1>4 DEF Kept
<1> QED BY <1>2, <1>5 DEF Kept

-----------------------------------------------------------------------------
(* The inductive invariant. *)
Typed ==
  /\ family \in {"v4", "v6"}
  /\ phase \in {"start", "groups", "bytes", "done", "failed"}
  /\ text \in Seq(Tokens)
  /\ i \in 0..7 /\ brk \in -1..7
  /\ ip \in [0..7 -> Words]

(* The groups that leave room for four bytes. *)
Dotted(l, r) ==
  IF family = "v4" THEN l = <<>> /\ r = <<>> /\ brk < 0
                   ELSE i = Place(l, r, brk) + 1 /\ (brk < 0 => Len(l) = 6)

(* The text that was read, and why it was: at the first colon of a gap     *)
(* that starts the text, nothing was read before it.                       *)
Stands(l, r, o) ==
  /\ phase = "start" =>
       family = "v6" /\ l = <<>> /\ r = <<>> /\ o = <<>> /\ i = 0 /\ brk < 0
         /\ s0 \in Tokens /\ text = <<s0>>
  /\ phase = "groups" =>
       /\ family = "v6" /\ o = <<>> /\ i = Place(l, r, brk) /\ s0 \in Tokens
       /\ text = Append(IF l = <<>> /\ brk < 0 /\ s0 = Colon THEN <<Colon>>
                        ELSE Groups(l, brk, r), s0)
  /\ phase = "bytes" =>
       /\ Len(o) < 4 /\ Dotted(l, r) /\ s0 \in Tokens
       /\ text = Append(Groups(l, brk, r) \o Lead(o, Dot), s0)
  /\ phase = "done" =>
       \/ /\ family = "v6" /\ o = <<>>
          /\ IF brk < 0 THEN Len(l) = 8 ELSE i = Len(l) + Len(r)
          /\ text = Append(Whole(l, brk, r), End)
       \/ /\ Len(o) = 4 /\ Dotted(l, r)
          /\ text = Append(Groups(l, brk, r) \o Alt(o, Dot), End)

HasRead ==
  phase # "failed" =>
    \E l \in Seq(Nums), r \in Seq(Nums), o \in Seq(Nums) :
      Kept(l, r, o, brk, ip, bytes) /\ Stands(l, r, o)

ParseInv == Typed /\ HasRead

LEMMA NothingKept ==
  ASSUME NEW b, b < 0, NEW g PROVE Kept(<<>>, <<>>, <<>>, b, g, <<>>)
<1>1. Values(<<>>, 10) = <<>> BY EmptySeq DEF Values
<1>2. \A k \in 1..Len(<<>>) : FALSE BY EmptySeq
<1> QED BY <1>1, <1>2 DEF Kept

LEMMA ParseInit == Init => ParseInv
<1> SUFFICES ASSUME Init PROVE ParseInv OBVIOUS
<1>1. PICK t \in Tokens : text = <<t>> BY TokensAre DEF Init
<1>2. <<>> \in Seq(Tokens) /\ <<t>> \in Seq(Tokens) /\ Append(<<>>, t) = <<t>> /\ s0 = t
  <2>1. <<>> \in Seq(Tokens) /\ <<t>> \in Seq(Tokens) BY <1>1, EmptySeq
  <2>2. Append(<<>>, t) = <<t>> BY <1>1, <2>1, AppendIsConcat, ConcatEmptySeq
  <2>3. Last(Append(<<>>, t)) = t BY <1>1, <2>1, LastOfAppend
  <2> QED BY <1>1, <2>1, <2>2, <2>3 DEF s0
<1>3. brk = -1 /\ brk < 0 /\ i = 0 /\ bytes = <<>> BY DEF Init
<1>4. Typed BY <1>1, <1>2 DEF Init, Typed, Words
<1>5. Kept(<<>>, <<>>, <<>>, brk, ip, bytes) BY <1>3, NothingKept
<1>7. <<>> \in Seq(Nums) BY EmptySeq
<1>6. Stands(<<>>, <<>>, <<>>)
  <2>1. Groups(<<>>, brk, <<>>) = <<>> BY <1>3, <1>7, GroupsEmpty
  <2>2. Groups(<<>>, brk, <<>>) \o Lead(<<>>, Dot) = <<>> BY <2>1, EmptySeq, ConcatEmptySeq DEF Lead
  <2>3. Len(<<>>) = 0 BY EmptySeq
  <2> QED BY <1>1, <1>2, <1>3, <2>2, <2>3 DEF Init, Stands, Dotted
<1> QED BY <1>4, <1>5, <1>6, <1>7 DEF ParseInv, HasRead

LEMMA StartParses == ParseInv /\ Start => ParseInv'
<1> SUFFICES ASSUME ParseInv, Start PROVE ParseInv' OBVIOUS
<1>1. PICK l \in Seq(Nums), r \in Seq(Nums), o \in Seq(Nums) :
        Kept(l, r, o, brk, ip, bytes) /\ Stands(l, r, o)
  BY DEF ParseInv, HasRead, Start
<1>2. /\ family = "v6" /\ l = <<>> /\ r = <<>> /\ o = <<>> /\ i = 0 /\ brk < 0
      /\ s0 \in Tokens /\ text = <<s0>> /\ text \in Seq(Tokens)
  BY <1>1 DEF Stands, Start, ParseInv, Typed
<1>3. Kept(l, r, o, brk, ip, bytes)' BY <1>1 DEF Start
<1>4. i = Place(l, r, brk) BY <1>2, EmptySeq DEF Place
<1>5. CASE s0 = Colon
  <2>1. PICK t \in Tokens : text' = Append(text, t)
                            /\ phase' = IF t = Colon THEN "groups" ELSE "failed"
    BY <1>5, TokensAre DEF Start
  <2>2. text' \in Seq(Tokens) /\ s0' = t BY <1>2, <2>1, AppendProperties, LastOfAppend DEF s0
  <2>3. Typed' BY <2>1, <2>2 DEF ParseInv, Typed, Start
  <2>4. phase' # "failed" => Stands(l, r, o)'
    <3> SUFFICES ASSUME phase' # "failed" PROVE Stands(l, r, o)' OBVIOUS
    <3>1. t = Colon /\ phase' = "groups" BY <2>1
    <3>2. text' = Append(<<Colon>>, Colon) BY <1>2, <1>5, <2>1, <3>1
    <3> QED BY <1>2, <1>4, <2>1, <2>2, <3>1, <3>2 DEF Stands, Start
  <2> QED BY <1>3, <2>3, <2>4 DEF ParseInv, HasRead
<1>6. CASE s0 # Colon
  <2>1. phase' = "groups" /\ text' = text /\ s0' = s0 BY <1>6 DEF Start, s0
  <2>2. Typed' BY <2>1 DEF ParseInv, Typed, Start
  <2>3. text = Append(Groups(l, brk, r), s0)
    <3>1. Groups(l, brk, r) = <<>> BY <1>2, GroupsEmpty
    <3> QED BY <1>2, <3>1
  <2>4. Stands(l, r, o)' BY <1>2, <1>4, <1>6, <2>1, <2>3 DEF Stands, Start
  <2> QED BY <1>3, <2>2, <2>4 DEF ParseInv, HasRead
<1> QED BY <1>5, <1>6

LEMMA GapParses == ParseInv /\ Gap => ParseInv'
<1> SUFFICES ASSUME ParseInv, Gap PROVE ParseInv' OBVIOUS
<1>1. PICK l \in Seq(Nums), r \in Seq(Nums), o \in Seq(Nums) :
        Kept(l, r, o, brk, ip, bytes) /\ Stands(l, r, o)
  BY DEF ParseInv, HasRead, Gap
<1>2. PICK t \in Tokens :
        /\ text' = Append(text, t)
        /\ phase' = IF t = End THEN "done" ELSE IF i = 7 THEN "failed" ELSE "groups"
        /\ i' = IF t = End \/ i = 7 THEN i ELSE i + 1
  BY TokensAre DEF Gap
<1>3. /\ family = "v6" /\ o = <<>> /\ i = Place(l, r, brk) /\ brk < 0 /\ s0 = Colon
      /\ text = Append(IF l = <<>> /\ brk < 0 /\ s0 = Colon THEN <<Colon>>
                       ELSE Groups(l, brk, r), s0)
      /\ brk' = i /\ ip' = [ip EXCEPT ![i] = 0] /\ family' = family /\ bytes' = bytes
      /\ i \in 0..7 /\ ip \in [0..7 -> Words] /\ text \in Seq(Tokens)
  BY <1>1 DEF Stands, Gap, ParseInv, Typed
<1>4. ip' \in [0..7 -> Words] /\ r = <<>> /\ i = Len(l) /\ Kept(l, r, o, brk', ip', bytes')
  <2>1. brk < 0 /\ i \in 0..7 /\ i = Place(l, r, brk) /\ ip \in [0..7 -> Words] BY <1>3
  <2>2. ip' = [ip EXCEPT ![i] = 0] BY <1>3
  <2>3. ip' \in [0..7 -> Words] /\ r = <<>> /\ i = Len(l) /\ Kept(l, r, o, i, ip', bytes)
    <3> DEFINE h == ip'
               j == i
    <3>1. j \in 0..7 /\ j = Place(l, r, brk) /\ h = [ip EXCEPT ![j] = 0] BY <2>1, <2>2
    <3> HIDE DEF h, j
    <3>2. /\ Kept(l, r, o, brk, ip, bytes) /\ brk \in -1..7 /\ brk < 0
          /\ ip \in [0..7 -> Words]
      BY <1>1, <2>1 DEF ParseInv, Typed
    <3>3. h \in [0..7 -> Words] BY <3>1, <3>2 DEF Words
    <3>4. Kept(l, r, o, j, h, bytes) BY <3>1, <3>2, KeptGap
    <3>5. r = <<>> /\ j = Len(l) BY <3>1, <3>2, <3>4 DEF Kept
    <3> QED BY <3>3, <3>4, <3>5 DEF h, j
  <2> QED BY <1>3, <2>3
<1>5. text' \in Seq(Tokens) /\ s0' = t
  BY <1>2, <1>3, AppendProperties, LastOfAppend DEF s0
<1>6. Typed' BY <1>2, <1>3, <1>4, <1>5 DEF Typed
<1>7. text = Open(l)
  <2>1. CASE l = <<>> BY <1>3, <2>1, OpenIs
  <2>2. CASE l # <<>> BY <1>3, <2>2, OpenIs DEF Groups
  <2> QED BY <2>1, <2>2
<1>8. ~(brk' < 0) BY <1>3
<1>9. Groups(l, brk', r) = text /\ Whole(l, brk', r) = text BY <1>4, <1>7, <1>8, GroupsEmpty
<1>10. Len(r) = 0 BY <1>4, EmptySeq
<1>11. phase' # "failed" => Stands(l, r, o)'
  <2> SUFFICES ASSUME phase' # "failed" PROVE Stands(l, r, o)' OBVIOUS
  <2>1. CASE t = End
    <3>1. phase' = "done" /\ i' = i BY <1>2, <2>1
    <3> QED BY <1>2, <1>3, <1>4, <1>8, <1>9, <1>10, <2>1, <3>1, SMTT(40) DEF Stands
  <2>2. CASE t # End
    <3>1. phase' = "groups" /\ i' = i + 1 BY <1>2, <2>2
    <3>2. i' = Place(l, r, brk') BY <1>3, <1>4, <1>8, <1>10, <3>1 DEF Place
    <3> QED BY <1>2, <1>3, <1>5, <1>8, <1>9, <3>1, <3>2 DEF Stands
  <2> QED BY <2>1, <2>2
<1>12. Kept(l, r, o, brk, ip, bytes)' BY <1>4
<1> QED BY <1>6, <1>11, <1>12 DEF ParseInv, HasRead

LEMMA GroupParses == ParseInv /\ Group => ParseInv'
<1> SUFFICES ASSUME ParseInv, Group PROVE ParseInv' OBVIOUS
<1>1. PICK l \in Seq(Nums), r \in Seq(Nums), o \in Seq(Nums) :
        Kept(l, r, o, brk, ip, bytes) /\ Stands(l, r, o)
  BY DEF ParseInv, HasRead, Group
<1>2. PICK x \in Nums : x = s0 /\ IsGroup(x) /\ x # Colon
  <2>1. s0 \in Tokens BY <1>1 DEF Stands, Group
  <2> QED BY <2>1, TokensAre DEF Group, IsGroup, Tokens
<1>3. /\ family = "v6" /\ o = <<>> /\ i = Place(l, r, brk)
      /\ text = Append(Groups(l, brk, r), x)
      /\ ip' = [ip EXCEPT ![i] = Value(x, 16)]
      /\ brk' = brk /\ family' = family /\ bytes' = bytes
      /\ i \in 0..7 /\ brk \in -1..7 /\ ip \in [0..7 -> Words] /\ text \in Seq(Tokens)
  BY <1>1, <1>2 DEF Stands, Group, ParseInv, Typed
<1>3a. /\ i = Place(l, r, brk) /\ i \in 0..7 /\ brk \in -1..7 /\ text \in Seq(Tokens)
       /\ family = "v6" /\ o = <<>>
       /\ brk' = brk /\ family' = family /\ bytes' = bytes
  BY <1>3
<1>4. /\ ip' \in [0..7 -> Words] /\ Kept(l, r, o, brk, ip', bytes)
      /\ brk < 0 => Kept(Append(l, x), r, o, brk, ip', bytes)
      /\ ~(brk < 0) => Kept(l, Append(r, x), o, brk, ip', bytes)
  BY <1>1, <1>2, <1>3, KeptGroup, ZenonT(40)
<1>5. /\ brk < 0 => r = <<>> /\ Len(r) = 0
      /\ Len(l) \in Nat /\ Len(r) \in Nat
      /\ Append(l, x) \in Seq(Nums) /\ Len(Append(l, x)) = Len(l) + 1 /\ Append(l, x) # <<>>
      /\ Append(r, x) \in Seq(Nums) /\ Len(Append(r, x)) = Len(r) + 1
  BY <1>1, <1>2, EmptySeq, LenProperties, AppendProperties, SMTT(40) DEF Kept
<1>6. /\ brk < 0 => text = Whole(Append(l, x), brk, r)
                    /\ Append(text, Colon) = Groups(Append(l, x), brk, r)
      /\ ~(brk < 0) => text = Whole(l, brk, Append(r, x))
                       /\ Append(text, Colon) = Groups(l, brk, Append(r, x))
  BY <1>2, <1>3, GroupsIs, SMTT(40)
<1>7. Colon \in Tokens /\ End \in Tokens BY TokensAre
<1>8. CASE (brk >= 0 \/ i = 7) /\ text' = Append(text, End) /\ phase' = "done" /\ i' = i
  <2>1. Typed' BY <1>3, <1>4, <1>7, <1>8, AppendProperties DEF Typed
  <2>2. CASE brk < 0
    <3>1. Len(Append(l, x)) = 8
      <4>1. i = 7 BY <1>3a, <1>8, <2>2
      <4>2. Len(l) = 7 BY <1>3a, <1>5, <2>2, <4>1 DEF Place
      <4> QED BY <1>5, <4>2
    <3>2. Stands(Append(l, x), r, o)' BY <1>3, <1>6, <1>8, <2>2, <3>1 DEF Stands
    <3>3. Kept(Append(l, x), r, o, brk, ip, bytes)' BY <1>3, <1>4, <2>2
    <3> QED BY <1>5, <2>1, <3>2, <3>3 DEF ParseInv, HasRead
  <2>3. CASE ~(brk < 0)
    <3>1. i = Len(l) + Len(Append(r, x)) BY <1>3, <1>5, <2>3 DEF Place
    <3>2. Stands(l, Append(r, x), o)' BY <1>3, <1>6, <1>8, <2>3, <3>1 DEF Stands
    <3>3. Kept(l, Append(r, x), o, brk, ip, bytes)' BY <1>3, <1>4, <2>3
    <3> QED BY <1>5, <2>1, <3>2, <3>3 DEF ParseInv, HasRead
  <2> QED BY <2>2, <2>3
<1>9. ASSUME i < 7, NEW t \in Tokens, text' = text \o <<Colon, t>>, i' = i + 1, phase' = phase
      PROVE  ParseInv'
  <2>1. Append(text, Colon) \in Seq(Tokens) BY <1>3, <1>7, AppendProperties
  <2>2. text' = Append(Append(text, Colon), t) BY <1>3a, <1>7, <1>9, TwoMore, SMTT(40)
  <2>3. text' \in Seq(Tokens) /\ s0' = t
    BY <2>1, <2>2, AppendProperties, LastOfAppend DEF s0
  <2>4. phase' = "groups" BY <1>9 DEF Group
  <2>5. Typed' BY <1>3a, <1>4, <1>9, <2>3, <2>4, SMTT(40) DEF Typed
  <2>6. CASE brk < 0
    <3>1. i' = Place(Append(l, x), r, brk) BY <1>3, <1>5, <1>9, <2>6 DEF Place
    <3>2. Stands(Append(l, x), r, o)'
      BY <1>3, <1>5, <1>6, <2>2, <2>3, <2>4, <2>6, <3>1 DEF Stands
    <3>3. Kept(Append(l, x), r, o, brk, ip, bytes)' BY <1>3, <1>4, <2>6
    <3> QED BY <1>5, <2>5, <3>2, <3>3 DEF ParseInv, HasRead
  <2>7. CASE ~(brk < 0)
    <3>1. i' = Place(l, Append(r, x), brk) BY <1>3, <1>5, <1>9, <2>7 DEF Place
    <3>2. Stands(l, Append(r, x), o)'
      BY <1>3, <1>5, <1>6, <2>2, <2>3, <2>4, <2>7, <3>1 DEF Stands
    <3>3. Kept(l, Append(r, x), o, brk, ip, bytes)' BY <1>3, <1>4, <2>7
    <3> QED BY <1>5, <2>5, <3>2, <3>3 DEF ParseInv, HasRead
  <2> QED BY <2>6, <2>7
<1>10. CASE i < 7 /\ (i = 6 \/ brk >= 0) /\ phase' = "bytes" /\ i' = i + 1 /\ text' = text
  <2>1. Typed' BY <1>3a, <1>4, <1>10, SMTT(40) DEF Typed
  <2>2. s0' = s0 BY <1>10 DEF s0
  <2>3. Groups(l, brk, r) \o Lead(o, Dot) = Groups(l, brk, r)
    <3>1. Groups(l, brk, r) \in Seq(Tokens) BY <1>2, GroupsIs
    <3> QED BY <1>3, <3>1, ConcatEmptySeq DEF Lead
  <2>4. Dotted(l, r)'
    <3>1. i' = Place(l, r, brk') + 1 /\ family' # "v4" BY <1>3a, <1>10
    <3>2. brk' < 0 => Len(l) = 6 BY <1>3a, <1>5, <1>10 DEF Place
    <3> QED BY <3>1, <3>2 DEF Dotted
  <2>5. Len(o) < 4 BY <1>3, EmptySeq
  <2>6. s0 \in Tokens BY <1>2, TokensAre
  <2>7. Stands(l, r, o)' BY <1>2, <1>3, <1>3a, <1>10, <2>2, <2>3, <2>4, <2>5, <2>6 DEF Stands
  <2>8. Kept(l, r, o, brk, ip, bytes)' BY <1>3, <1>4
  <2> QED BY <2>1, <2>7, <2>8 DEF ParseInv, HasRead
<1> QED BY <1>8, <1>9, <1>10, TokensAre DEF Group

LEMMA ByteParses == ParseInv /\ Byte => ParseInv'
<1> SUFFICES ASSUME ParseInv, Byte PROVE ParseInv' OBVIOUS
<1>1. PICK l \in Seq(Nums), r \in Seq(Nums), o \in Seq(Nums) :
        Kept(l, r, o, brk, ip, bytes) /\ Stands(l, r, o)
  BY DEF ParseInv, HasRead, Byte
<1>2. PICK x \in Nums : x = s0 /\ IsByte(x)
  <2>1. s0 \in Tokens BY <1>1 DEF Stands, Byte
  <2> QED BY <2>1, TokensAre DEF Byte, IsByte, Tokens
<1> DEFINE G == Groups(l, brk, r)
           p == Append(o, x)
<1>3. /\ Len(o) < 4 /\ Dotted(l, r) /\ text = Append(G \o Lead(o, Dot), x)
      /\ bytes' = Append(bytes, Value(x, 10)) /\ UNCHANGED <<family, i, brk, ip>>
      /\ text \in Seq(Tokens)
  BY <1>1, <1>2 DEF Stands, Byte, ParseInv, Typed
<1>4. Len(bytes) = Len(o) /\ Kept(l, r, p, brk, ip, bytes')
  BY <1>1, <1>2, <1>3, KeptByte
<1>5. p \in Seq(Nums) /\ Len(p) = Len(o) + 1 /\ Len(o) \in Nat
  BY <1>2, AppendProperties, LenProperties
<1>6. Dot \in Tokens /\ End \in Tokens /\ x \in Tokens /\ o \in Seq(Tokens)
  BY <1>2, TokensAre, SeqMonotonic
<1>7. /\ G \in Seq(Tokens) /\ Lead(o, Dot) \in Seq(Tokens)
      /\ Alt(p, Dot) = Append(Lead(o, Dot), x)
  <2>1. G \in Seq(Tokens) BY <1>2, GroupsIs
  <2>2. Lead(o, Dot) \in Seq(Tokens) BY <1>6, LeadIs
  <2>3. Alt(p, Dot) = Append(Lead(o, Dot), x) BY <1>6, LeadIs
  <2> QED BY <2>1, <2>2, <2>3
<1>8. Alt(p, Dot) \in Seq(Tokens) BY <1>6, <1>7, AppendProperties
<1>9. p # <<>> BY <1>2, AppendProperties
<1>10. Lead(p, Dot) = Append(Alt(p, Dot), Dot) BY <1>9 DEF Lead
<1>11. Kept(l, r, p, brk, ip, bytes)' BY <1>3, <1>4
<1>12. Dotted(l, r)' BY <1>3 DEF Dotted
<1> HIDE DEF G, p
<1>13. text = G \o Alt(p, Dot)
  <2>1. G \o Append(Lead(o, Dot), x) = Append(G \o Lead(o, Dot), x)
    BY <1>6, <1>7, AppendsOutside
  <2> QED BY <1>3, <1>7, <2>1
<1>14. Append(text, Dot) = G \o Lead(p, Dot)
  <2>1. G \o Append(Alt(p, Dot), Dot) = Append(G \o Alt(p, Dot), Dot)
    BY <1>6, <1>7, <1>8, AppendsOutside, SMTT(40)
  <2> QED BY <1>10, <1>13, <2>1
<1>15. G' = G BY <1>3 DEF G
<1>16. CASE Len(bytes) = 3 /\ text' = Append(text, End) /\ phase' = "done"
  <2>1. Typed' BY <1>3, <1>6, <1>16, AppendProperties DEF Typed, ParseInv
  <2>2. Stands(l, r, p)'
    <3>1. Len(p) = 4 BY <1>4, <1>5, <1>16
    <3>2. text' = Append(G \o Alt(p, Dot), End) BY <1>13, <1>16
    <3> QED BY <1>3, <1>12, <1>16, <3>1, <3>2 DEF Stands, G
  <2> QED BY <1>5, <1>11, <2>1, <2>2 DEF ParseInv, HasRead
<1>17. ASSUME Len(bytes) # 3, NEW t \in Tokens, text' = text \o <<Dot, t>>, phase' = phase
       PROVE  ParseInv'
  <2>1. Append(text, Dot) \in Seq(Tokens) BY <1>3, <1>6, AppendProperties
  <2>2. text' = Append(Append(text, Dot), t) BY <1>3, <1>6, <1>17, TwoMore, SMTT(40)
  <2>3. text' \in Seq(Tokens) /\ s0' = t
    BY <2>1, <2>2, AppendProperties, LastOfAppend DEF s0
  <2>4. phase' = "bytes" BY <1>17 DEF Byte
  <2>5. Typed' BY <1>3, <2>3, <2>4 DEF Typed, ParseInv
  <2>6. Stands(l, r, p)'
    <3>1. Len(p) < 4
      <4>1. Len(o) < 4 /\ Len(o) # 3 BY <1>3, <1>4, <1>17
      <4>2. PICK n \in Nat : n = Len(o) BY <1>5
      <4>3. Len(p) = n + 1 BY <1>5, <4>2
      <4>4. n + 1 < 4 BY <4>1, <4>2
      <4> QED BY <4>3, <4>4
    <3>2. text' = Append(G \o Lead(p, Dot), s0') BY <1>14, <2>2, <2>3
    <3>3. s0' \in Tokens BY <2>3
    <3> QED BY <1>3, <1>12, <2>4, <3>1, <3>2, <3>3 DEF Stands, G
  <2> QED BY <1>5, <1>11, <2>5, <2>6 DEF ParseInv, HasRead
<1> QED BY <1>16, <1>17, TokensAre DEF Byte

LEMMA FailuresParse == ParseInv /\ (GroupFails \/ ByteFails) => ParseInv'
<1> SUFFICES ASSUME ParseInv, GroupFails \/ ByteFails PROVE ParseInv' OBVIOUS
<1>1. text \in Seq(Tokens) BY DEF ParseInv, Typed
<1>2. \/ text' = text
      \/ \E t \in Symbols : text' = Append(text, t)
  BY DEF GroupFails, ByteFails, Following, Symbols
<1>3. text' \in Seq(Tokens)
  <2>1. ASSUME NEW t \in Symbols, text' = Append(text, t) PROVE text' \in Seq(Tokens)
    <3>1. t \in Tokens BY TokensAre
    <3> QED BY <1>1, <2>1, <3>1, AppendProperties
  <2> QED BY <1>1, <1>2, <2>1
<1>4. phase' = "failed" /\ UNCHANGED <<family, i, brk, ip, bytes>>
  BY DEF GroupFails, ByteFails
<1> QED BY <1>3, <1>4 DEF ParseInv, Typed, HasRead

LEMMA NextParses == ParseInv /\ [Next]_vars => ParseInv'
<1> SUFFICES ASSUME ParseInv, [Next]_vars PROVE ParseInv' OBVIOUS
<1>1. CASE UNCHANGED vars
  <2>1. Typed' BY <1>1 DEF ParseInv, Typed, vars
  <2>2. HasRead'
    <3> SUFFICES ASSUME phase # "failed" PROVE HasRead' BY <1>1 DEF HasRead, vars
    <3>1. PICK l \in Seq(Nums), r \in Seq(Nums), o \in Seq(Nums) :
            Kept(l, r, o, brk, ip, bytes) /\ Stands(l, r, o)
      BY DEF ParseInv, HasRead
    <3>2. Kept(l, r, o, brk, ip, bytes)' BY <1>1, <3>1 DEF vars
    <3>3. Stands(l, r, o)' BY <1>1, <3>1 DEF vars, Stands, Dotted, s0
    <3> QED BY <3>2, <3>3 DEF HasRead
  <2> QED BY <2>1, <2>2 DEF ParseInv
<1> QED BY <1>1, StartParses, GapParses, GroupParses, ByteParses, FailuresParse DEF Next

LEMMA AlwaysParses == Spec => []ParseInv
BY ParseInit, NextParses, PTL DEF Spec

-----------------------------------------------------------------------------
(* What a text of groups and bytes denotes.                                *)
LEMMA ValuesTyped ==
  ASSUME NEW S, NEW base, NEW s \in Seq(Nums), \A n \in Nums : Value(n, base) \in S
  PROVE  /\ Values(s, base) \in Seq(S) /\ Len(Values(s, base)) = Len(s)
         /\ \A k \in 1..Len(s) : Values(s, base)[k] = Value(s[k], base)
<1>1. Len(s) \in Nat BY LenProperties
<1>2. \A k \in 1..Len(s) : Value(s[k], base) \in S BY ElementOfSeq
<1> QED BY <1>1, <1>2 DEF Values

LEMMA SinglesConcat ==
  ASSUME NEW T, NEW s \in Seq(T), NEW t \in Seq(T)
  PROVE  Singles(s \o t) = Singles(s) \o Singles(t)
<1> DEFINE Good == {x \in Seq(T) : Singles(s \o x) = Singles(s) \o Singles(x)}
<1>1. <<>> \in Good
  <2>1. Singles(<<>>) = <<>> BY EmptySeq DEF Singles
  <2>2. s \o <<>> = s BY ConcatEmptySeq
  <2>3. Singles(s) \o <<>> = Singles(s) BY SinglesTyped, ConcatEmptySeq
  <2> QED BY <2>1, <2>2, <2>3, EmptySeq
<1>2. ASSUME NEW x \in Seq(T), NEW t1 \in T, x \in Good PROVE Append(x, t1) \in Good
  <2>1. s \o Append(x, t1) = Append(s \o x, t1) BY AppendsOutside
  <2>2. s \o x \in Seq(T) /\ Append(x, t1) \in Seq(T) BY ConcatProperties, AppendProperties
  <2>3. Singles(Append(s \o x, t1)) = Append(Singles(s \o x), <<t1>>) BY <2>2, SinglesAppend
  <2>4. Singles(Append(x, t1)) = Append(Singles(x), <<t1>>) BY SinglesAppend
  <2>5. Singles(s \o x) = Singles(s) \o Singles(x) BY <1>2
  <2>6. Singles(s) \in Seq(Seq(T)) /\ Singles(x) \in Seq(Seq(T)) /\ <<t1>> \in Seq(T)
    BY SinglesTyped
  <2>7. Singles(s) \o Append(Singles(x), <<t1>>) = Append(Singles(s) \o Singles(x), <<t1>>)
    BY <2>6, AppendsOutside
  <2> QED BY <2>1, <2>2, <2>3, <2>4, <2>5, <2>7
<1> HIDE DEF Good
<1>3. Seq(T) \subseteq Good BY <1>1, <1>2, SeqInduction
<1> QED BY <1>3 DEF Good

LEMMA DenotesFour ==
  ASSUME NEW o \in Seq(Nums), Len(o) = 4, \A k \in 1..Len(o) : IsByte(o[k])
  PROVE  Denoted4(Alt(o, Dot)) = {Values(o, 10)}
<1>1. NumeralsOf(Alt(o, Dot)) = o BY TokensAre, NumeralsOfAlt
<1>2. Alt(o, Dot) = Joined(Singles(o), Dot) BY DEF Alt
<1> QED BY <1>1, <1>2 DEF Denoted4

(* The items of groups and bytes, and the text they make. *)
LEMMA ItemsAre ==
  ASSUME NEW s \in Seq(Nums), NEW o \in Seq(Nums)
  PROVE  /\ Items(s, o) \in Seq(Seq(Tokens))
         /\ Joined(Items(s, o), Colon)
              = IF o = <<>> THEN Alt(s, Colon) ELSE Lead(s, Colon) \o Alt(o, Dot)
<1>1. s \in Seq(Tokens) /\ o \in Seq(Tokens) /\ Colon \in Tokens /\ Dot \in Tokens
  BY TokensAre, SeqMonotonic
<1>2. Singles(s) \in Seq(Seq(Tokens)) /\ Len(Singles(s)) = Len(s) BY <1>1, SinglesTyped
<1>3. CASE o = <<>>
  <2>1. Items(s, o) = Singles(s) BY <1>2, <1>3, ConcatEmptySeq DEF Items
  <2> QED BY <1>2, <1>3, <2>1 DEF Alt
<1>4. CASE o # <<>>
  <2> DEFINE x == Alt(o, Dot)
             ss == Singles(s)
  <2>1. x \in Seq(Tokens) BY <1>1, AltIs
  <2>2. Items(s, o) = ss \o <<x>> BY <1>4 DEF Items, Alt
  <2>3. ss \in Seq(Seq(Tokens)) /\ Len(ss) = Len(s) BY <1>2
  <2>4. Joined(ss, Colon) = Alt(s, Colon) BY DEF Alt
  <2> HIDE DEF x, ss
  <2>5. ss \o <<x>> = Append(ss, x) BY <2>1, <2>3, AppendIsConcat
  <2>6. Append(ss, x) \in Seq(Seq(Tokens)) BY <2>1, <2>3, AppendProperties
  <2>7. Joined(Append(ss, x), Colon) = IF ss = <<>> THEN x ELSE Append(Joined(ss, Colon), Colon) \o x
    BY <1>1, <2>1, <2>3, JoinedAppend, ZenonT(40)
  <2>8. ss = <<>> <=> s = <<>> BY <2>3, EmptySeq
  <2>9. <<>> \o x = x BY <2>1, ConcatEmptySeq
  <2>10. Joined(Append(ss, x), Colon) = Lead(s, Colon) \o x
    <3>1. CASE s = <<>> BY <2>7, <2>8, <2>9, <3>1 DEF Lead
    <3>2. CASE s # <<>> BY <2>4, <2>7, <2>8, <3>2 DEF Lead
    <3> QED BY <3>1, <3>2
  <2> QED BY <1>4, <2>2, <2>5, <2>6, <2>10 DEF x
<1> QED BY <1>3, <1>4

LEMMA ItemsCut ==
  ASSUME NEW l \in Seq(Nums), NEW r \in Seq(Nums), NEW o \in Seq(Nums)
  PROVE  /\ SubSeq(Items(l \o r, o), 1, Len(l)) = Singles(l)
         /\ SubSeq(Items(l \o r, o), Len(l) + 1, Len(Items(l \o r, o))) = Items(r, o)
<1>1. l \in Seq(Tokens) /\ r \in Seq(Tokens) BY TokensAre, SeqMonotonic
<1>2. Singles(l) \in Seq(Seq(Tokens)) /\ Len(Singles(l)) = Len(l)
      /\ Singles(r) \in Seq(Seq(Tokens))
  BY <1>1, SinglesTyped
<1>3. Items(r, o) \in Seq(Seq(Tokens)) BY ItemsAre
<1>4. Items(l \o r, o) = Singles(l) \o Items(r, o)
  <2> DEFINE e == IF o = <<>> THEN <<>> ELSE <<Joined(Singles(o), Dot)>>
  <2>1. e \in Seq(Seq(Tokens))
    <3>1. o \in Seq(Tokens) /\ Dot \in Tokens BY TokensAre, SeqMonotonic
    <3>2. Alt(o, Dot) \in Seq(Tokens) BY <3>1, AltIs
    <3>3. <<>> \in Seq(Seq(Tokens)) BY EmptySeq
    <3>4. <<Alt(o, Dot)>> \in Seq(Seq(Tokens)) BY <3>2
    <3> QED BY <3>3, <3>4 DEF Alt
  <2>2. Items(l \o r, o) = Singles(l \o r) \o e /\ Items(r, o) = Singles(r) \o e BY DEF Items
  <2> HIDE DEF e
  <2>3. Singles(l \o r) = Singles(l) \o Singles(r) BY SinglesConcat
  <2>4. (Singles(l) \o Singles(r)) \o e = Singles(l) \o (Singles(r) \o e)
    <3> DEFINE a == Singles(l)
               b == Singles(r)
    <3>1. a \in Seq(Seq(Tokens)) /\ b \in Seq(Seq(Tokens)) BY <1>2
    <3> HIDE DEF a, b
    <3>2. (a \o b) \o e = a \o (b \o e) BY <2>1, <3>1, ConcatAssociative, SMTT(40)
    <3> QED BY <3>2 DEF a, b
  <2> QED BY <2>2, <2>3, <2>4
<1> QED BY <1>2, <1>3, <1>4, CutConcat, SMTT(40)

(* The text after l groups, a gap, r groups and the bytes. *)
LEMMA OpenItems ==
  ASSUME NEW l \in Seq(Nums), NEW r \in Seq(Nums), NEW o \in Seq(Nums)
  PROVE  LET items == Items(l \o r, o)
         IN Joined(SubSeq(items, 1, Len(l)), Colon) \o <<Colon, Colon>>
              \o Joined(SubSeq(items, Len(l) + 1, Len(items)), Colon)
              = Open(l) \o Joined(Items(r, o), Colon)
BY ItemsCut, ZenonT(40) DEF Open, Alt

(* The gap is at the first odd place that is a colon. *)
LEMMA OpenAt ==
  ASSUME NEW s \in Seq(Nums), NEW v \in Seq(Tokens)
  PROVE  /\ (Open(s) \o v)[2 * Len(s) + 1] = Colon
         /\ \A q \in 0..Len(s) - 1 : (Open(s) \o v)[2 * q + 1] # Colon
<1> DEFINE n == Len(s)
           a == Alt(s, Colon)
           c == <<Colon, Colon>>
           w == Open(s) \o v
<1>1. n \in Nat BY LenProperties
<1>2. s \in Seq(Tokens) /\ Colon \in Tokens BY TokensAre, SeqMonotonic
<1>3. a \in Seq(Tokens) /\ Len(a) = IF n = 0 THEN 0 ELSE 2 * n - 1
  <2>1. s = <<>> <=> n = 0 BY EmptySeq
  <2>2. Alt(s, Colon) \in Seq(Tokens) BY <1>2, AltIs
  <2>3. s # <<>> => Len(Alt(s, Colon)) = 2 * Len(s) - 1 BY <1>2, AltIs
  <2>4. s = <<>> => Len(Alt(s, Colon)) = 0 BY AltEmpty, EmptySeq
  <2> QED BY <2>1, <2>2, <2>3, <2>4
<1>4. \A k \in 1..2 * n - 1 : a[k] = IF k % 2 = 1 THEN s[(k + 1) \div 2] ELSE Colon
  <2>1. s # <<>> => \A k \in 1..2 * n - 1 : a[k] = IF k % 2 = 1 THEN s[(k + 1) \div 2] ELSE Colon
    <3> SUFFICES ASSUME s # <<>>, NEW k \in 1..2 * Len(s) - 1
                 PROVE  Alt(s, Colon)[k] = IF k % 2 = 1 THEN s[(k + 1) \div 2] ELSE Colon
      OBVIOUS
    <3> QED BY <1>2, AltAt
  <2>2. s = <<>> => n = 0 BY EmptySeq
  <2> QED BY <1>1, <2>1, <2>2
<1>5. c \in Seq(Tokens) /\ Len(c) = 2 /\ c[1] = Colon /\ c[2] = Colon BY <1>2
<1>6. Open(s) = a \o c BY DEF Open
<1> HIDE DEF a, c, n
<1>7. /\ Open(s) \in Seq(Tokens) /\ Len(Open(s)) = Len(a) + 2
      /\ \A k \in 1..Len(a) + 2 : Open(s)[k] = IF k <= Len(a) THEN a[k] ELSE c[k - Len(a)]
  <2>1. /\ a \o c \in Seq(Tokens) /\ Len(a \o c) = Len(a) + Len(c)
        /\ \A k \in 1..Len(a) + Len(c) : (a \o c)[k] = IF k <= Len(a) THEN a[k] ELSE c[k - Len(a)]
    BY <1>3, <1>5, ConcatProperties
  <2>2. Len(c) = 2 BY <1>5
  <2> QED BY <1>6, <2>1, <2>2
<1>8. \A k \in 1..Len(a) + 2 : w[k] = Open(s)[k]
  <2>1. \A k \in 1..Len(Open(s)) + Len(v) :
          w[k] = IF k <= Len(Open(s)) THEN Open(s)[k] ELSE v[k - Len(Open(s))]
    BY <1>7, ConcatProperties
  <2>2. Len(v) \in Nat BY LenProperties
  <2>3. \A k \in 1..Len(a) + 2 : k \in 1..Len(Open(s)) + Len(v) /\ k <= Len(Open(s))
    BY <1>1, <1>3, <1>7, <2>2
  <2> QED BY <2>1, <2>3
<1> HIDE DEF w
<1>9. w[2 * n + 1] = Colon
  <2>1. PICK j \in 1..Len(a) + 2 : j = 2 * n + 1 /\ ~(j <= Len(a)) /\ j - Len(a) \in {1, 2}
    <3>1. 2 * n + 1 \in 1..Len(a) + 2 /\ ~(2 * n + 1 <= Len(a)) /\ 2 * n + 1 - Len(a) \in {1, 2}
      BY <1>1, <1>3
    <3> QED BY <3>1
  <2>2. w[j] = Open(s)[j] BY <1>8
  <2>3. Open(s)[j] = c[j - Len(a)] BY <1>7, <2>1
  <2>4. c[j - Len(a)] = Colon BY <1>5, <2>1
  <2> QED BY <2>1, <2>2, <2>3, <2>4
<1>10. ASSUME NEW q \in 0..n - 1 PROVE w[2 * q + 1] # Colon
  <2>1. /\ 2 * q + 1 \in 1..2 * n - 1 /\ 2 * q + 1 \in 1..Len(a) + 2 /\ 2 * q + 1 <= Len(a)
        /\ (2 * q + 1) % 2 = 1 /\ (2 * q + 1 + 1) \div 2 = q + 1 /\ q + 1 \in 1..n
    BY <1>1, <1>3
  <2>2. w[2 * q + 1] = a[2 * q + 1] BY <1>7, <1>8, <2>1
  <2>3. w[2 * q + 1] = s[q + 1] BY <1>4, <2>1, <2>2
  <2>4. s[q + 1] \in Nums BY <2>1, ElementOfSeq DEF n
  <2> QED BY <2>3, <2>4, TokensAre
<1> QED BY <1>9, <1>10 DEF w, n

LEMMA OneGap ==
  ASSUME NEW s \in Seq(Nums), NEW v \in Seq(Tokens), NEW t \in Seq(Nums), NEW w \in Seq(Tokens),
         Open(s) \o v = Open(t) \o w
  PROVE  Len(s) = Len(t)
<1>1. Len(s) \in Nat /\ Len(t) \in Nat BY LenProperties
<1>2. CASE Len(s) < Len(t)
  <2>1. Len(s) \in 0..Len(t) - 1 BY <1>1, <1>2
  <2> QED BY <2>1, OpenAt
<1>3. CASE Len(t) < Len(s)
  <2>1. Len(t) \in 0..Len(s) - 1 BY <1>1, <1>3
  <2> QED BY <2>1, OpenAt
<1> QED BY <1>1, <1>2, <1>3

LEMMA RestIs ==
  ASSUME NEW s \in Seq(Nums), NEW o \in Seq(Nums), Len(o) \in {0, 4}
  PROVE  LET v == Joined(Items(s, o), Colon)
         IN /\ v \in Seq(Tokens) /\ NumeralsOf(v) = s \o o
            /\ o = <<>> => v \in Seq(Tokens \ {Dot})
            /\ o # <<>> => \E k \in 1..Len(v) : v[k] = Dot
<1> DEFINE v == Joined(Items(s, o), Colon)
<1>1. v = IF o = <<>> THEN Alt(s, Colon) ELSE Lead(s, Colon) \o Alt(o, Dot) BY ItemsAre
<1> HIDE DEF v
<1>2. /\ Nums \cap Symbols = {} /\ Colon \in Symbols /\ Dot \in Symbols
      /\ Colon \in Tokens /\ Dot \in Tokens /\ s \in Seq(Tokens) /\ o \in Seq(Tokens)
  BY TokensAre, SeqMonotonic
<1>3. CASE o = <<>>
  <2> DEFINE U == Tokens \ {Dot}
  <2>1. Nums \subseteq U /\ Colon \in U BY TokensAre
  <2>2. s \in Seq(U) BY <2>1, SeqMonotonic
  <2> HIDE DEF U
  <2>3. Alt(s, Colon) \in Seq(U) BY <2>1, <2>2, AltIs
  <2>4. v = Alt(s, Colon) BY <1>1, <1>3
  <2>5. NumeralsOf(v) = s BY <1>2, <2>4, NumeralsOfAlt
  <2>6. s \o o = s BY <1>3, ConcatEmptySeq
  <2>7. Alt(s, Colon) \in Seq(Tokens) BY <1>2, AltIs
  <2> QED BY <1>3, <2>3, <2>4, <2>5, <2>6, <2>7 DEF U, v
<1>4. CASE o # <<>>
  <2> DEFINE a == Lead(s, Colon)
             d == Alt(o, Dot)
  <2>1. a \in Seq(Tokens) BY <1>2, LeadIs
  <2>2. d \in Seq(Tokens) BY <1>2, AltIs
  <2>3. v = a \o d BY <1>1, <1>4
  <2>4. NumeralsOf(a) = s BY <1>2, NumeralsOfLead
  <2>5. NumeralsOf(d) = o BY <1>2, NumeralsOfAlt
  <2>6. Len(o) = 4 BY <1>4, EmptySeq
  <2>7. Len(d) = 7 /\ d[2] = Dot
    <3>1. Len(d) = 2 * Len(o) - 1 BY <1>2, <1>4, AltIs
    <3>2. 2 \in 1..2 * Len(o) - 1 /\ 2 % 2 # 1 BY <2>6
    <3>3. d[2] = Dot BY <1>2, <1>4, <3>2, AltAt
    <3> QED BY <2>6, <3>1, <3>3
  <2> HIDE DEF a, d
  <2>8. NumeralsOf(a \o d) = s \o o BY <2>1, <2>2, <2>4, <2>5, NumeralsConcat
  <2>9. /\ a \o d \in Seq(Tokens) /\ Len(a \o d) = Len(a) + Len(d) /\ Len(a) \in Nat
        /\ \A k \in 1..Len(a) + Len(d) : (a \o d)[k] = IF k <= Len(a) THEN a[k] ELSE d[k - Len(a)]
    BY <2>1, <2>2, ConcatProperties, LenProperties
  <2>10. (a \o d)[Len(a) + 2] = Dot /\ Len(a) + 2 \in 1..Len(a \o d)
    <3>1. /\ Len(a) + 2 \in 1..Len(a) + Len(d) /\ ~(Len(a) + 2 <= Len(a))
          /\ Len(a) + 2 - Len(a) = 2
      BY <2>7, <2>9
    <3>2. (a \o d)[Len(a) + 2] = d[Len(a) + 2 - Len(a)] BY <2>9, <3>1
    <3> QED BY <2>7, <2>9, <3>1, <3>2
  <2> QED BY <1>4, <2>3, <2>8, <2>9, <2>10 DEF v
<1> QED BY <1>3, <1>4

(* A text of the groups l and r, with a gap between them or not, and o. *)
Body(l, b, r, o) ==
  IF o = <<>> THEN Whole(l, b, r) ELSE Groups(l, b, r) \o Alt(o, Dot)

LEMMA BodyWhole ==
  ASSUME NEW l \in Seq(Nums), NEW r, NEW o \in Seq(Nums), Len(o) \in {0, 4}, NEW b, b < 0
  PROVE  /\ Body(l, b, r, o) \in Seq(Tokens)
         /\ Body(l, b, r, o) = Joined(Items(l, o), Colon)
<1>1. Body(l, b, r, o) = Joined(Items(l, o), Colon) BY ItemsAre DEF Body, Whole, Groups
<1>2. Joined(Items(l, o), Colon) \in Seq(Tokens) BY RestIs
<1> QED BY <1>1, <1>2

LEMMA BodyOpen ==
  ASSUME NEW l \in Seq(Nums), NEW r \in Seq(Nums), NEW o \in Seq(Nums), Len(o) \in {0, 4},
         NEW b, ~(b < 0)
  PROVE  /\ Body(l, b, r, o) \in Seq(Tokens)
         /\ Body(l, b, r, o) = Open(l) \o Joined(Items(r, o), Colon)
<1>1. /\ Colon \in Tokens /\ Dot \in Tokens
      /\ l \in Seq(Tokens) /\ r \in Seq(Tokens) /\ o \in Seq(Tokens)
  BY TokensAre, SeqMonotonic
<1> DEFINE p == Open(l)
           v == Joined(Items(r, o), Colon)
<1>2. p \in Seq(Tokens) BY OpenIs
<1>3. v \in Seq(Tokens) BY RestIs
<1>4. Body(l, b, r, o) = p \o v
  <2>1. CASE o = <<>>
    <3>1. v = Alt(r, Colon) BY <2>1, ItemsAre
    <3> QED BY <2>1, <3>1 DEF Body, Whole
  <2>2. CASE o # <<>>
    <3> DEFINE x == Lead(r, Colon)
               y == Alt(o, Dot)
    <3>1. v = x \o y BY <2>2, ItemsAre
    <3>2. Body(l, b, r, o) = (p \o x) \o y BY <2>2 DEF Body, Groups
    <3>3. x \in Seq(Tokens) BY <1>1, LeadIs
    <3>4. y \in Seq(Tokens) BY <1>1, AltIs
    <3> HIDE DEF p, v, x, y
    <3>5. (p \o x) \o y = p \o (x \o y) BY <1>2, <3>3, <3>4, ConcatAssociative, SMTT(40)
    <3> QED BY <3>1, <3>2, <3>5
  <2> QED BY <2>1, <2>2
<1> HIDE DEF p, v
<1>5. p \o v \in Seq(Tokens) BY <1>2, <1>3, ConcatProperties
<1> QED BY <1>4, <1>5 DEF p, v

LEMMA NumeralsOfBody ==
  ASSUME NEW l \in Seq(Nums), NEW r \in Seq(Nums), NEW o \in Seq(Nums), Len(o) \in {0, 4},
         NEW b, b < 0 => r = <<>>
  PROVE  /\ NumeralsOf(Body(l, b, r, o)) = (l \o r) \o o
         /\ Dot \in ToSet(Body(l, b, r, o)) <=> o # <<>>
<1> DEFINE w == Body(l, b, r, o)
           p == Open(l)
           v == Joined(Items(r, o), Colon)
           U == Tokens \ {Dot}
<1>1. w \in Seq(Tokens) BY BodyWhole, BodyOpen
<1>2. DOMAIN w = 1..Len(w) BY <1>1, LenProperties
<1>3. Dot \in ToSet(w) <=> \E k \in 1..Len(w) : w[k] = Dot BY <1>2 DEF ToSet
<1>4. w \in Seq(U) => Dot \notin ToSet(w) BY <1>3, ElementOfSeq
<1>5. CASE b < 0
  <2>1. l \o r = l /\ l \o r \in Seq(Nums) BY <1>5, ConcatEmptySeq
  <2>2. w = Joined(Items(l, o), Colon) BY <1>5, BodyWhole
  <2> HIDE DEF w, U
  <2>3. NumeralsOf(w) = l \o o /\ (o = <<>> => w \in Seq(Tokens \ {Dot}))
        /\ (o # <<>> => \E k \in 1..Len(w) : w[k] = Dot)
    BY <2>2, RestIs
  <2> QED BY <1>3, <1>4, <2>1, <2>3 DEF w, U
<1>6. CASE ~(b < 0)
  <2>1. w = p \o v BY <1>6, BodyOpen, SMTT(40)
  <2>2. /\ v \in Seq(Tokens) /\ NumeralsOf(v) = r \o o /\ (o = <<>> => v \in Seq(U))
        /\ (o # <<>> => \E k \in 1..Len(v) : v[k] = Dot)
    BY RestIs
  <2>3. p \in Seq(Tokens) /\ p \in Seq(U)
    <3>1. Nums \subseteq U /\ Colon \in U BY TokensAre
    <3>2. l \in Seq(U) BY <3>1, SeqMonotonic
    <3> HIDE DEF U
    <3>3. Alt(l, Colon) \in Seq(U) /\ <<Colon, Colon>> \in Seq(U) BY <3>1, <3>2, AltIs
    <3>4. p \in Seq(U) BY <3>3, ConcatProperties DEF Open
    <3> QED BY <3>4, OpenIs
  <2>4. NumeralsOf(p) = l
    <3>1. Alt(l, Colon) \in Seq(Tokens) /\ Colon \in Tokens /\ Colon \in Symbols
      BY TokensAre, OpenIs
    <3>2. Append(Alt(l, Colon), Colon) \in Seq(Tokens) BY <3>1, AppendProperties
    <3>3. NumeralsOf(Append(Alt(l, Colon), Colon)) = NumeralsOf(Alt(l, Colon))
      BY <3>1, NumeralsAppend
    <3>4. NumeralsOf(Append(Append(Alt(l, Colon), Colon), Colon))
            = NumeralsOf(Append(Alt(l, Colon), Colon))
      BY <3>1, <3>2, NumeralsAppend
    <3>5. NumeralsOf(Alt(l, Colon)) = l BY TokensAre, NumeralsOfAlt
    <3> QED BY <3>3, <3>4, <3>5, OpenIs
  <2> HIDE DEF p, v, w, U
  <2>5. NumeralsOf(p \o v) = l \o (r \o o) BY <2>2, <2>3, <2>4, NumeralsConcat, ZenonT(40)
  <2>6. l \o (r \o o) = (l \o r) \o o BY ConcatAssociative, SMTT(40)
  <2>7. o = <<>> => w \in Seq(U) BY <2>1, <2>2, <2>3, ConcatProperties
  <2>8. ASSUME o # <<>> PROVE \E k \in 1..Len(w) : w[k] = Dot
    <3>1. PICK k \in 1..Len(v) : v[k] = Dot BY <2>2, <2>8
    <3>2. /\ Len(p) \in Nat /\ Len(v) \in Nat /\ Len(w) = Len(p) + Len(v)
          /\ \A j \in 1..Len(p) + Len(v) : w[j] = IF j <= Len(p) THEN p[j] ELSE v[j - Len(p)]
      BY <2>1, <2>2, <2>3, ConcatProperties, LenProperties
    <3>3. /\ Len(p) + k \in 1..Len(p) + Len(v) /\ ~(Len(p) + k <= Len(p))
          /\ Len(p) + k - Len(p) = k
      BY <3>2
    <3>4. w[Len(p) + k] = v[Len(p) + k - Len(p)] BY <3>2, <3>3
    <3> QED BY <3>1, <3>2, <3>3, <3>4
  <2> QED BY <1>3, <1>4, <2>1, <2>5, <2>6, <2>7, <2>8 DEF w
<1> QED BY <1>5, <1>6

(* What the groups are worth. *)
Halves(o) == Words \cup {PairOf(Values(o, 10), 1), PairOf(Values(o, 10), 3)}

LEMMA WorthIs ==
  ASSUME NEW s \in Seq(Nums), NEW o
  PROVE  /\ Worth(s, o) \in Seq(Halves(o))
         /\ Len(Worth(s, o)) = Len(s) + IF o = <<>> THEN 0 ELSE 2
         /\ \A k \in 1..Len(s) : Worth(s, o)[k] = Value(s[k], 16)
         /\ o # <<>> => /\ Worth(s, o)[Len(s) + 1] = PairOf(Values(o, 10), 1)
                        /\ Worth(s, o)[Len(s) + 2] = PairOf(Values(o, 10), 3)
<1> DEFINE S == Halves(o)
           v == Values(s, 16)
           e == IF o = <<>> THEN <<>> ELSE <<PairOf(Values(o, 10), 1), PairOf(Values(o, 10), 3)>>
<1>1. \A n \in Nums : Value(n, 16) \in S BY DEF Halves, Words
<1>2. PairOf(Values(o, 10), 1) \in S /\ PairOf(Values(o, 10), 3) \in S BY DEF Halves
<1> HIDE DEF S
<1>3. v \in Seq(S) /\ Len(v) = Len(s) /\ \A k \in 1..Len(s) : v[k] = Value(s[k], 16)
  BY <1>1, ValuesTyped
<1>4. e \in Seq(S) /\ Len(e) = IF o = <<>> THEN 0 ELSE 2
  <2>1. <<>> \in Seq(S) /\ Len(<<>>) = 0 BY EmptySeq
  <2>2. <<PairOf(Values(o, 10), 1), PairOf(Values(o, 10), 3)>> \in Seq(S) BY <1>2
  <2> QED BY <2>1, <2>2
<1>5. o # <<>> => e[1] = PairOf(Values(o, 10), 1) /\ e[2] = PairOf(Values(o, 10), 3) OBVIOUS
<1>6. Worth(s, o) = v \o e BY DEF Worth
<1>7. Len(s) \in Nat BY LenProperties
<1> HIDE DEF v, e
<1>8. /\ v \o e \in Seq(S) /\ Len(v \o e) = Len(v) + Len(e)
      /\ \A k \in 1..Len(v) + Len(e) : (v \o e)[k] = IF k <= Len(v) THEN v[k] ELSE e[k - Len(v)]
  <2>1. v \in Seq(S) /\ e \in Seq(S) BY <1>3, <1>4
  <2> QED BY <2>1, ConcatProperties
<1>9. \A k \in 1..Len(s) : (v \o e)[k] = Value(s[k], 16)
  <2>1. \A k \in 1..Len(s) : k \in 1..Len(v) + Len(e) /\ k <= Len(v) BY <1>3, <1>4, <1>7
  <2> QED BY <1>3, <1>8, <2>1
<1>10. ASSUME o # <<>>, NEW j \in {1, 2} PROVE (v \o e)[Len(s) + j] = e[j]
  <2>1. /\ Len(s) + j \in 1..Len(v) + Len(e) /\ ~(Len(s) + j <= Len(v))
        /\ Len(s) + j - Len(v) = j
    BY <1>3, <1>4, <1>7, <1>10
  <2>2. (v \o e)[Len(s) + j] = e[Len(s) + j - Len(v)] BY <1>8, <2>1
  <2> QED BY <2>1, <2>2
<1>11. Len(v \o e) = Len(s) + IF o = <<>> THEN 0 ELSE 2 BY <1>3, <1>4, <1>8
<1>12. o # <<>> => /\ (v \o e)[Len(s) + 1] = PairOf(Values(o, 10), 1)
                   /\ (v \o e)[Len(s) + 2] = PairOf(Values(o, 10), 3)
  BY <1>5, <1>10
<1> QED BY <1>6, <1>8, <1>9, <1>11, <1>12 DEF S

(* The address of l groups, r groups with a gap before them or not, and o. *)
Read6(l, b, r, o) ==
  LET worth == Worth(l \o r, o)
      m == Len(worth)
  IN IF b < 0 THEN worth
     ELSE SubSeq(worth, 1, Len(l)) \o Zeros(8 - m) \o SubSeq(worth, Len(l) + 1, m)

Room(l, r, o) == Len(l) + Len(r) + IF o = <<>> THEN 0 ELSE 2

LEMMA DenotesSix ==
  ASSUME NEW l \in Seq(Nums), NEW r \in Seq(Nums), NEW o \in Seq(Nums), Len(o) \in {0, 4},
         NEW b, b < 0 => r = <<>>,
         \A k \in 1..Len(l) : IsGroup(l[k]), \A k \in 1..Len(r) : IsGroup(r[k]),
         \A k \in 1..Len(o) : IsByte(o[k]),
         IF b < 0 THEN Room(l, r, o) = 8 ELSE Room(l, r, o) < 8
  PROVE  Denoted6(Body(l, b, r, o)) = {Read6(l, b, r, o)}
<1>0. ~(b < 0) => Body(l, b, r, o) = Open(l) \o Joined(Items(r, o), Colon) BY BodyOpen, ZenonT(90)
<1> DEFINE w == Body(l, b, r, o)
           lr == l \o r
           ns == NumeralsOf(w)
           h == IF Dot \in ToSet(w) THEN Len(ns) - 4 ELSE Len(ns)
           hs == SubSeq(ns, 1, h)
           bs == SubSeq(ns, h + 1, Len(ns))
           items == Items(hs, bs)
           worth == Worth(hs, bs)
           m == Len(worth)
           At(p) == Joined(SubSeq(items, 1, p), Colon) \o <<Colon, Colon>>
                      \o Joined(SubSeq(items, p + 1, Len(items)), Colon)
           gaps == {p \in 0..h : m < 8 /\ w = At(p)}
           With(p) == SubSeq(worth, 1, p) \o Zeros(8 - m) \o SubSeq(worth, p + 1, m)
<1>1. Denoted6(w)
        = IF h < 0 \/ (\E k \in 1..Len(hs) : ~IsGroup(hs[k])) \/ (\E k \in 1..Len(bs) : ~IsByte(bs[k]))
          THEN {}
          ELSE {With(p) : p \in gaps} \cup IF m = 8 /\ w = Joined(items, Colon) THEN {worth} ELSE {}
  BY DEF Denoted6
<1>2. /\ lr \in Seq(Nums) /\ Len(lr) = Len(l) + Len(r) /\ Len(l) \in Nat /\ Len(r) \in Nat
      /\ \A k \in 1..Len(l) + Len(r) : lr[k] = IF k <= Len(l) THEN l[k] ELSE r[k - Len(l)]
  BY ConcatProperties, LenProperties
<1>3. ns = lr \o o /\ (Dot \in ToSet(w) <=> o # <<>>) BY NumeralsOfBody
<1>4. o = <<>> <=> Len(o) = 0 BY EmptySeq
<1> HIDE DEF lr, ns
<1>5. Len(lr \o o) = Len(lr) + Len(o) BY <1>2, ConcatProperties
<1>6. h = Len(lr)
  <2>1. Len(ns) = Len(lr) + Len(o) /\ Len(lr) \in Nat BY <1>2, <1>3, <1>5
  <2>2. CASE o = <<>>
    <3>1. h = Len(ns) /\ Len(o) = 0 BY <1>3, <1>4, <2>2
    <3> QED BY <2>1, <3>1
  <2>3. CASE o # <<>>
    <3>1. h = Len(ns) - 4 /\ Len(o) = 4 BY <1>3, <1>4, <2>3
    <3> QED BY <2>1, <3>1
  <2> QED BY <2>2, <2>3
<1>7. hs = lr /\ bs = o
  <2>1. SubSeq(lr \o o, 1, Len(lr)) = lr /\ SubSeq(lr \o o, Len(lr) + 1, Len(lr \o o)) = o
    BY <1>2, CutConcat
  <2> HIDE DEF h
  <2> QED BY <1>3, <1>6, <2>1
<1> HIDE DEF h, hs, bs
<1>8. items = Items(lr, o) /\ worth = Worth(lr, o) BY <1>7
<1>9. m = Room(l, r, o)
  <2>1. Len(Worth(lr, o)) = Len(lr) + IF o = <<>> THEN 0 ELSE 2 BY <1>2, WorthIs
  <2> QED BY <1>2, <1>8, <2>1 DEF Room
<1> HIDE DEF items, worth
<1>10. ~(h < 0) /\ (\A k \in 1..Len(hs) : IsGroup(hs[k])) /\ (\A k \in 1..Len(bs) : IsByte(bs[k]))
  <2>1. ASSUME NEW k \in 1..Len(lr) PROVE IsGroup(lr[k])
    <3>1. CASE k <= Len(l)
      <4>1. k \in 1..Len(l) /\ lr[k] = l[k] BY <1>2, <3>1
      <4> QED BY <4>1
    <3>2. CASE ~(k <= Len(l))
      <4>1. k - Len(l) \in 1..Len(r) /\ lr[k] = r[k - Len(l)] BY <1>2, <3>2
      <4> QED BY <4>1
    <3> QED BY <3>1, <3>2
  <2> QED BY <1>2, <1>6, <1>7, <2>1
<1>11. Denoted6(w)
         = {With(p) : p \in gaps} \cup IF m = 8 /\ w = Joined(items, Colon) THEN {worth} ELSE {}
  BY <1>1, <1>10
<1>12. CASE b < 0
  <2>1. m = 8 BY <1>9, <1>12
  <2>2. lr = l BY <1>12, ConcatEmptySeq DEF lr
  <2>3. w = Joined(Items(l, o), Colon) BY <1>12, BodyWhole
  <2>4. w = Joined(items, Colon) BY <1>8, <2>2, <2>3
  <2>5. gaps = {} BY <2>1
  <2>6. Read6(l, b, r, o) = worth BY <1>8, <1>12 DEF Read6, lr
  <2> HIDE DEF w, gaps, m, With
  <2> QED BY <1>11, <2>1, <2>4, <2>5, <2>6 DEF w
<1>13. CASE ~(b < 0)
  <2>1. m < 8 /\ m # 8 BY <1>2, <1>9, <1>13 DEF Room
  <2>2. w = Open(l) \o Joined(Items(r, o), Colon) BY <1>0, <1>13
  <2>3. At(Len(l)) = Open(l) \o Joined(Items(r, o), Colon) BY <1>8, OpenItems DEF lr
  <2>4. ASSUME NEW p \in 0..h, w = At(p) PROVE p = Len(l)
    <3> DEFINE s == SubSeq(lr, 1, p)
               t == SubSeq(lr, p + 1, Len(lr))
    <3>1. p \in 0..Len(lr) BY <1>6
    <3>2. s \in Seq(Nums) /\ Len(s) = p BY <1>2, <3>1, CutAt
    <3>3. t \in Seq(Nums) BY <1>2, <3>1, CutAt
    <3>4. s \o t = lr BY <1>2, <3>1, CutAt
    <3> HIDE DEF s, t
    <3>5. At(p) = Open(s) \o Joined(Items(t, o), Colon)
      <4>1. items = Items(s \o t, o) BY <1>8, <3>4
      <4> QED BY <3>2, <3>3, <4>1, OpenItems, ZenonT(40)
    <3>6. Joined(Items(t, o), Colon) \in Seq(Tokens) /\ Joined(Items(r, o), Colon) \in Seq(Tokens)
      BY <3>3, RestIs
    <3>7. Open(s) \o Joined(Items(t, o), Colon) = Open(l) \o Joined(Items(r, o), Colon)
      BY <2>2, <2>4, <3>5
    <3> HIDE DEF At, w
    <3> QED BY <3>2, <3>6, <3>7, OneGap
  <2>5. Len(l) \in 0..h BY <1>2, <1>6
  <2> HIDE DEF At, w, m
  <2>6. gaps = {Len(l)} BY <2>1, <2>2, <2>3, <2>4, <2>5
  <2>7. Read6(l, b, r, o) = With(Len(l)) BY <1>8, <1>13 DEF Read6, lr, m
  <2> HIDE DEF gaps, With
  <2> QED BY <1>11, <2>1, <2>6, <2>7 DEF w
<1> QED BY <1>12, <1>13

-----------------------------------------------------------------------------
(* The address inet_pton makes of what it kept. *)
Widened(W, p, m) == SubSeq(W, 1, p) \o Zeros(8 - m) \o SubSeq(W, p + 1, m)

LEMMA WidenedAt ==
  ASSUME NEW H, 0 \in H, NEW W \in Seq(H), NEW m \in 0..7, Len(W) = m, NEW p \in 0..m
  PROVE  /\ Widened(W, p, m) \in Seq(H) /\ Len(Widened(W, p, m)) = 8
         /\ \A k \in 1..8 :
              Widened(W, p, m)[k] = IF k <= p THEN W[k]
                                    ELSE IF k <= p + (8 - m) THEN 0 ELSE W[k - (8 - m)]
<1> DEFINE a == SubSeq(W, 1, p)
           n == 8 - m
           z == Zeros(n)
           c == SubSeq(W, p + 1, m)
           az == a \o z
<1>1. a \in Seq(H) /\ Len(a) = p /\ \A k \in 1..p : a[k] = W[k]
  <2>1. \A k \in 1..p : W[k] \in H BY ElementOfSeq
  <2>2. 1 \in Int /\ p \in Int OBVIOUS
  <2>3. /\ a \in Seq(H) /\ Len(a) = IF 1 <= p THEN p - 1 + 1 ELSE 0
        /\ \A k \in 1..p - 1 + 1 : a[k] = W[1 + k - 1]
    BY <2>1, <2>2, SubSeqProperties
  <2> HIDE DEF a
  <2>4. \A k \in 1..p : k \in 1..p - 1 + 1 /\ 1 + k - 1 = k OBVIOUS
  <2>5. \A k \in 1..p : a[k] = W[k] BY <2>3, <2>4
  <2> QED BY <2>3, <2>5
<1>2. z \in Seq(H) /\ Len(z) = n /\ (\A k \in 1..n : z[k] = 0) /\ n \in 1..8 BY DEF Zeros
<1>3. c \in Seq(H) /\ Len(c) = m - p /\ \A k \in 1..m - p : c[k] = W[p + k]
  <2>1. \A k \in p + 1..m : W[k] \in H BY ElementOfSeq
  <2>2. p + 1 \in Int /\ m \in Int OBVIOUS
  <2>3. /\ c \in Seq(H) /\ Len(c) = IF p + 1 <= m THEN m - (p + 1) + 1 ELSE 0
        /\ \A k \in 1..m - (p + 1) + 1 : c[k] = W[p + 1 + k - 1]
    BY <2>1, <2>2, SubSeqProperties
  <2> HIDE DEF c
  <2>4. \A k \in 1..m - p : k \in 1..m - (p + 1) + 1 /\ p + 1 + k - 1 = p + k OBVIOUS
  <2>5. \A k \in 1..m - p : c[k] = W[p + k] BY <2>3, <2>4
  <2> QED BY <2>3, <2>5
<1> HIDE DEF a, z, c
<1>4. /\ az \in Seq(H) /\ Len(az) = p + n
      /\ \A k \in 1..p + n : az[k] = IF k <= p THEN a[k] ELSE z[k - p]
  <2>1. a \in Seq(H) /\ z \in Seq(H) /\ Len(a) = p /\ Len(z) = n BY <1>1, <1>2
  <2> HIDE DEF n
  <2> QED BY <2>1, ConcatProperties
<1> HIDE DEF az
<1>5. /\ az \o c \in Seq(H) /\ Len(az \o c) = (p + n) + (m - p)
      /\ \A k \in 1..(p + n) + (m - p) :
           (az \o c)[k] = IF k <= p + n THEN az[k] ELSE c[k - (p + n)]
  <2>1. az \in Seq(H) /\ c \in Seq(H) /\ Len(az) = p + n /\ Len(c) = m - p BY <1>3, <1>4
  <2> HIDE DEF n
  <2> QED BY <2>1, ConcatProperties, SMTT(40)
<1>6. (p + n) + (m - p) = 8 OBVIOUS
<1>7. ASSUME NEW k \in 1..8
      PROVE  (az \o c)[k] = IF k <= p THEN W[k] ELSE IF k <= p + n THEN 0 ELSE W[k - n]
  <2>1. (az \o c)[k] = IF k <= p + n THEN az[k] ELSE c[k - (p + n)] BY <1>5, <1>6
  <2>2. CASE k <= p
    <3>1. k \in 1..p /\ k \in 1..p + n /\ k <= p + n BY <1>2, <2>2
    <3> QED BY <1>1, <1>4, <2>1, <2>2, <3>1
  <2>3. CASE ~(k <= p) /\ k <= p + n
    <3>1. k \in 1..p + n /\ k - p \in 1..n BY <2>3
    <3> HIDE DEF n
    <3> QED BY <1>2, <1>4, <2>1, <2>3, <3>1
  <2>4. CASE ~(k <= p + n)
    <3>1. k - (p + n) \in 1..m - p /\ p + (k - (p + n)) = k - n /\ ~(k <= p) BY <1>2, <2>4
    <3>2. c[k - (p + n)] = W[p + (k - (p + n))] BY <1>3, <3>1
    <3> QED BY <2>1, <2>4, <3>1, <3>2
  <2> QED BY <2>2, <2>3, <2>4
<1>8. Widened(W, p, m) = az \o c BY DEF Widened, a, z, c, az
<1> QED BY <1>5, <1>6, <1>7, <1>8

LEMMA KeptWorth ==
  ASSUME NEW l \in Seq(Nums), NEW r \in Seq(Nums), NEW o \in Seq(Nums), NEW b, NEW g, NEW bs,
         Kept(l, r, o, b, g, bs)
  PROVE  LET W == Worth(l \o r, o)
         IN /\ W \in Seq(Halves(o)) /\ Len(W) = Room(l, r, o)
            /\ Len(l) \in Nat /\ Len(r) \in Nat
            /\ \A k \in 1..Len(l) : W[k] = g[k - 1]
            /\ \A k \in 1..Len(r) : W[Len(l) + k] = g[b + k]
            /\ o # <<>> => /\ W[Len(l) + Len(r) + 1] = PairOf(bs, 1)
                           /\ W[Len(l) + Len(r) + 2] = PairOf(bs, 3)
<1> DEFINE W == Worth(l \o r, o)
           lr == l \o r
<1>1. /\ lr \in Seq(Nums) /\ Len(lr) = Len(l) + Len(r) /\ Len(l) \in Nat /\ Len(r) \in Nat
      /\ \A k \in 1..Len(l) + Len(r) : lr[k] = IF k <= Len(l) THEN l[k] ELSE r[k - Len(l)]
  BY ConcatProperties, LenProperties
<1> HIDE DEF lr
<1>2. W = Worth(lr, o) BY DEF lr
<1> HIDE DEF W
<1>3. /\ W \in Seq(Halves(o)) /\ Len(W) = Len(lr) + IF o = <<>> THEN 0 ELSE 2
      /\ \A k \in 1..Len(lr) : W[k] = Value(lr[k], 16)
      /\ o # <<>> => /\ W[Len(lr) + 1] = PairOf(Values(o, 10), 1)
                     /\ W[Len(lr) + 2] = PairOf(Values(o, 10), 3)
  BY <1>1, <1>2, WorthIs, ZenonT(40)
<1>4. Len(W) = Room(l, r, o) BY <1>1, <1>3 DEF Room
<1>5. ASSUME NEW k \in 1..Len(l) PROVE W[k] = g[k - 1]
  <2>1. k \in 1..Len(lr) /\ k \in 1..Len(l) + Len(r) /\ k <= Len(l) BY <1>1
  <2>2. lr[k] = l[k] BY <1>1, <2>1
  <2> QED BY <1>3, <2>1, <2>2 DEF Kept
<1>6. ASSUME NEW k \in 1..Len(r) PROVE W[Len(l) + k] = g[b + k]
  <2>1. /\ Len(l) + k \in 1..Len(l) + Len(r) /\ ~(Len(l) + k <= Len(l))
        /\ Len(l) + k - Len(l) = k
    BY <1>1
  <2>2. lr[Len(l) + k] = r[Len(l) + k - Len(l)] BY <1>1, <2>1
  <2>3. Len(l) + k \in 1..Len(lr) BY <1>1, <2>1
  <2>4. W[Len(l) + k] = Value(r[k], 16) BY <1>3, <2>1, <2>2, <2>3
  <2> QED BY <2>4 DEF Kept
<1>7. bs = Values(o, 10) BY DEF Kept
<1> QED BY <1>1, <1>3, <1>4, <1>5, <1>6, <1>7 DEF W

LEMMA SameSeq ==
  ASSUME NEW H, NEW W \in Seq(H), Len(W) = 8, NEW f, f = [k \in 1..8 |-> f[k]],
         \A k \in 1..8 : f[k] = W[k]
  PROVE  f = W
<1>1. W \in [1..8 -> H] BY LenProperties
<1> QED BY <1>1

LEMMA ResultIs ==
  ASSUME Typed, family = "v6",
         NEW l \in Seq(Nums), NEW r \in Seq(Nums), NEW o \in Seq(Nums), Len(o) \in {0, 4},
         Kept(l, r, o, brk, ip, bytes),
         IF brk < 0 THEN Room(l, r, o) = 8 ELSE Room(l, r, o) < 8 /\ i = Room(l, r, o)
  PROVE  Result = Read6(l, brk, r, o)
<1> DEFINE W == Worth(l \o r, o)
           p == Len(l)
           m == Room(l, r, o)
<1>1. /\ W \in Seq(Halves(o)) /\ Len(W) = m /\ p \in Nat /\ Len(r) \in Nat
      /\ \A k \in 1..p : W[k] = ip[k - 1]
      /\ \A k \in 1..Len(r) : W[p + k] = ip[brk + k]
      /\ o # <<>> => /\ W[p + Len(r) + 1] = PairOf(bytes, 1)
                     /\ W[p + Len(r) + 2] = PairOf(bytes, 3)
  BY KeptWorth
<1>2. bytes = <<>> <=> o = <<>>
  <2>1. bytes = Values(o, 10) BY DEF Kept
  <2>2. bytes \in Seq({Value(n, 10) : n \in Nums}) /\ Len(bytes) = Len(o) BY <2>1, ValuesTyped
  <2> QED BY <2>2, EmptySeq
<1>3. /\ Result = [k \in 1..8 |-> Result[k]]
      /\ \A k \in 1..8 : Result[k] = IF k > 6 /\ o # <<>> THEN PairOf(bytes, 2 * k - 13)
                                     ELSE Expanded[k - 1]
  <2>1. CASE o = <<>>
    <3>1. Result = [k \in 1..8 |-> Expanded[k - 1]] BY <1>2, <2>1 DEF Result
    <3> QED BY <2>1, <3>1
  <2>2. CASE o # <<>>
    <3>1. Result = [k \in 1..8 |-> IF k > 6 THEN PairOf(bytes, 2 * k - 13) ELSE Expanded[k - 1]]
      BY <1>2, <2>2 DEF Result
    <3> QED BY <2>2, <3>1
  <2> QED BY <2>1, <2>2
<1>4. \A k \in 1..8 :
        Expanded[k - 1] = IF brk < 0 \/ k - 1 < brk THEN ip[k - 1]
                          ELSE IF k - 1 < brk + 7 - i THEN 0 ELSE ip[k - 1 - (7 - i)]
  <2>1. \A k \in 1..8 : k - 1 \in 0..7 OBVIOUS
  <2> QED BY <2>1 DEF Expanded
<1>5. o # <<>> => Len(o) = 4 /\ m = p + Len(r) + 2 BY EmptySeq DEF Room
<1>6. o = <<>> => m = p + Len(r) BY <1>1 DEF Room
<1>7. i \in 0..7 /\ brk \in -1..7 BY DEF Typed
<1> HIDE DEF W, p, m
<1>8. CASE brk < 0
  <2>1. m = 8 /\ Len(r) = 0 BY <1>8, EmptySeq DEF Kept, m
  <2>2. ASSUME NEW k \in 1..8 PROVE Result[k] = W[k]
    <3>1. CASE k > 6 /\ o # <<>>
      <4>1. p = 6 BY <1>1, <1>5, <2>1, <3>1
      <4>2. k = 7 => 2 * k - 13 = 1 /\ p + Len(r) + 1 = k BY <2>1, <4>1
      <4>3. k = 8 => 2 * k - 13 = 3 /\ p + Len(r) + 2 = k BY <2>1, <4>1
      <4>4. k = 7 \/ k = 8 BY <3>1
      <4>5. Result[k] = PairOf(bytes, 2 * k - 13) BY <1>3, <3>1
      <4>6. k = 7 => Result[k] = W[k] BY <1>1, <3>1, <4>2, <4>5
      <4>7. k = 8 => Result[k] = W[k] BY <1>1, <3>1, <4>3, <4>5
      <4> QED BY <4>4, <4>6, <4>7
    <3>2. CASE ~(k > 6 /\ o # <<>>)
      <4>1. k \in 1..p BY <1>1, <1>5, <1>6, <2>1, <3>2
      <4>2. Result[k] = Expanded[k - 1] BY <1>3, <3>2
      <4>3. Result[k] = ip[k - 1] BY <1>4, <1>8, <4>2
      <4> QED BY <1>1, <4>1, <4>3
    <3> QED BY <3>1, <3>2
  <2>3. Read6(l, brk, r, o) = W BY <1>8 DEF Read6, W
  <2>4. Len(W) = 8 BY <1>1, <2>1
  <2> QED BY <1>1, <1>3, <2>2, <2>3, <2>4, SameSeq
<1>9. CASE ~(brk < 0)
  <2> DEFINE G == Widened(W, p, m)
  <2>1. brk = p /\ ip[brk] = 0 BY <1>9 DEF Kept, p
  <2>2. i = m /\ m \in 0..7 /\ p \in 0..m /\ Len(r) <= m - p
    <3>1. i = m /\ m < 8 BY <1>9 DEF m
    <3> QED BY <1>1, <1>5, <1>6, <1>7, <3>1, SMTT(40)
  <2>3. 0 \in Halves(o) BY DEF Halves, Words
  <2>4. /\ G \in Seq(Halves(o)) /\ Len(G) = 8
        /\ \A k \in 1..8 : G[k] = IF k <= p THEN W[k]
                                  ELSE IF k <= p + (8 - m) THEN 0 ELSE W[k - (8 - m)]
    <3> DEFINE H == Halves(o)
    <3>1. W \in Seq(H) /\ Len(W) = m /\ 0 \in H BY <1>1, <2>3
    <3> HIDE DEF H
    <3>2. m \in 0..7 /\ p \in 0..m BY <2>2
    <3>3. /\ G \in Seq(H) /\ Len(G) = 8
          /\ \A k \in 1..8 : G[k] = IF k <= p THEN W[k]
                                    ELSE IF k <= p + (8 - m) THEN 0 ELSE W[k - (8 - m)]
      BY <3>1, <3>2, WidenedAt, ZenonT(90)
    <3> QED BY <3>3 DEF H
  <2>5. Read6(l, brk, r, o) = G BY <1>1, <1>9 DEF Read6, Widened, W, p
  <2> HIDE DEF G
  <2>6. ASSUME NEW k \in 1..8 PROVE Result[k] = G[k]
    <3>1. CASE k <= p
      <4>0. o # <<>> => p < 6
        <5>1. p \in Nat /\ Len(r) \in Nat BY <1>1
        <5> QED BY <1>5, <2>2, <5>1
      <4>1. k \in 1..p /\ ~(k > 6 /\ o # <<>>)
        <5>1. p \in Nat BY <1>1
        <5> QED BY <3>1, <4>0, <5>1
      <4>2. Result[k] = Expanded[k - 1] BY <1>3, <4>1
      <4>3. k - 1 < brk BY <1>1, <2>1, <4>1
      <4>4. Result[k] = ip[k - 1] BY <1>4, <4>2, <4>3
      <4> QED BY <1>1, <2>4, <3>1, <4>1, <4>4
    <3>2. CASE ~(k <= p) /\ k <= p + (8 - m)
      <4>1. ~(k > 6 /\ o # <<>>) BY <1>1, <1>5, <2>2, <3>2
      <4>2. Result[k] = Expanded[k - 1] BY <1>3, <4>1
      <4>3. ~(k - 1 < brk) BY <1>1, <2>1, <3>2
      <4>4. CASE k - 1 < brk + 7 - i
        <5>1. Result[k] = 0 BY <1>4, <1>9, <4>2, <4>3, <4>4
        <5> QED BY <2>4, <3>2, <5>1
      <4>5. CASE ~(k - 1 < brk + 7 - i)
        <5>1. k - 1 - (7 - i) = brk BY <2>1, <2>2, <3>2, <4>5
        <5>2. Result[k] = ip[brk] BY <1>4, <1>9, <4>2, <4>3, <4>5, <5>1
        <5> QED BY <2>1, <2>4, <3>2, <5>2
      <4> QED BY <4>4, <4>5
    <3>3. CASE ~(k <= p + (8 - m)) /\ k > 6 /\ o # <<>>
      <4>1. Result[k] = PairOf(bytes, 2 * k - 13) BY <1>3, <3>3
      <4>2. G[k] = W[k - (8 - m)] BY <1>1, <2>2, <2>4, <3>3, SMTT(40)
      <4>3. k = 7 => 2 * k - 13 = 1 /\ k - (8 - m) = p + Len(r) + 1 BY <1>1, <1>5, <3>3, SMTT(40)
      <4>4. k = 8 => 2 * k - 13 = 3 /\ k - (8 - m) = p + Len(r) + 2 BY <1>1, <1>5, <3>3
      <4>5. k = 7 \/ k = 8 BY <3>3
      <4>6. k = 7 => Result[k] = G[k] BY <1>1, <3>3, <4>1, <4>2, <4>3
      <4>7. k = 8 => Result[k] = G[k] BY <1>1, <3>3, <4>1, <4>2, <4>4
      <4> QED BY <4>5, <4>6, <4>7
    <3>4. CASE ~(k <= p + (8 - m)) /\ ~(k > 6 /\ o # <<>>)
      <4>1. Result[k] = Expanded[k - 1] BY <1>3, <3>4
      <4>2. G[k] = W[k - (8 - m)]
        <5>1. ~(k <= p) BY <2>2, <3>4
        <5> QED BY <2>4, <3>4, <5>1
      <4>3. PICK j \in Nat : j = k - (8 - m) - p /\ j >= 1 /\ j <= Len(r)
        <5>1. k - (8 - m) - p \in Nat /\ k - (8 - m) - p >= 1 BY <1>1, <2>2, <3>4
        <5>2. k - (8 - m) - p <= Len(r) BY <1>1, <1>5, <1>6, <2>2, <3>4
        <5> QED BY <5>1, <5>2
      <4>4. j \in 1..Len(r) /\ k - (8 - m) = p + j /\ k - 1 - (7 - i) = brk + j
        BY <1>1, <2>1, <2>2, <4>3
      <4>5. ~(k - 1 < brk) /\ ~(k - 1 < brk + 7 - i) BY <1>1, <2>1, <2>2, <3>4
      <4>6. Expanded[k - 1] = ip[k - 1 - (7 - i)] BY <1>4, <1>9, <4>5
      <4>7. W[p + j] = ip[brk + j] BY <1>1, <4>4
      <4> QED BY <4>1, <4>2, <4>4, <4>6, <4>7
    <3> QED BY <3>1, <3>2, <3>3, <3>4
  <2> QED BY <1>3, <2>4, <2>5, <2>6, SameSeq
<1> QED BY <1>8, <1>9

-----------------------------------------------------------------------------
(* The end of the text.                                                    *)
LEMMA FrontOfAppend ==
  ASSUME NEW T, NEW s \in Seq(T), NEW x \in T
  PROVE  Front(Append(s, x)) = s
<1>1. Len(s) \in Nat BY LenProperties
<1>2. <<x>> \in Seq(T) /\ Append(s, x) = s \o <<x>> BY AppendIsConcat
<1>3. Len(Append(s, x)) - 1 = Len(s) BY <1>1, AppendProperties
<1>4. SubSeq(s \o <<x>>, 1, Len(s)) = s BY <1>2, CutConcat
<1> QED BY <1>2, <1>3, <1>4 DEF Front

(* The text that was read, and what was made of it. *)
ReadFour(o) ==
  /\ Len(o) = 4 /\ \A k \in 1..Len(o) : IsByte(o[k])
  /\ text = Append(Alt(o, Dot), End) /\ Result = Values(o, 10)

ReadSix(l, r, o) ==
  /\ Len(o) \in {0, 4} /\ (brk < 0 => r = <<>>)
  /\ \A k \in 1..Len(l) : IsGroup(l[k])
  /\ \A k \in 1..Len(r) : IsGroup(r[k])
  /\ \A k \in 1..Len(o) : IsByte(o[k])
  /\ IF brk < 0 THEN Room(l, r, o) = 8 ELSE Room(l, r, o) < 8
  /\ text = Append(Body(l, brk, r, o), End) /\ Result = Read6(l, brk, r, o)

LEMMA DoneStands ==
  ASSUME ParseInv, phase = "done"
  PROVE  \/ family = "v4" /\ \E o \in Seq(Nums) : ReadFour(o)
         \/ family = "v6" /\ \E l \in Seq(Nums), r \in Seq(Nums), o \in Seq(Nums) : ReadSix(l, r, o)
<1>1. PICK l \in Seq(Nums), r \in Seq(Nums), o \in Seq(Nums) :
        Kept(l, r, o, brk, ip, bytes) /\ Stands(l, r, o)
  BY DEF ParseInv, HasRead
<1>2. Typed /\ End \in Tokens BY TokensAre DEF ParseInv
<1>3. /\ \A k \in 1..Len(l) : IsGroup(l[k])
      /\ \A k \in 1..Len(r) : IsGroup(r[k])
      /\ \A k \in 1..Len(o) : IsByte(o[k])
      /\ brk < 0 => r = <<>>
  BY <1>1 DEF Kept
<1>4. Len(l) \in Nat /\ Len(r) \in Nat /\ (brk < 0 => Len(r) = 0) BY <1>3, LenProperties, EmptySeq
<1>5. CASE family = "v4"
  <2>1. Len(o) = 4 /\ Dotted(l, r) /\ text = Append(Groups(l, brk, r) \o Alt(o, Dot), End)
    BY <1>1, <1>5 DEF Stands
  <2>2. Groups(l, brk, r) = <<>>
    <3>1. l = <<>> /\ brk < 0 BY <1>5, <2>1 DEF Dotted
    <3> QED BY <3>1 DEF Groups, Lead
  <2>3. o \in Seq(Tokens) /\ Dot \in Tokens BY TokensAre, SeqMonotonic
  <2>4. Alt(o, Dot) \in Seq(Tokens) BY <2>3, AltIs
  <2>5. text = Append(Alt(o, Dot), End) BY <2>1, <2>2, <2>4, ConcatEmptySeq
  <2>6. Result = Values(o, 10) BY <1>1, <1>5 DEF Result, Kept
  <2>7. ReadFour(o) BY <1>3, <2>1, <2>5, <2>6 DEF ReadFour
  <2> QED BY <1>5, <2>7
<1>6. CASE family = "v6"
  <2>1. /\ Len(o) \in {0, 4} /\ text = Append(Body(l, brk, r, o), End)
        /\ IF brk < 0 THEN Room(l, r, o) = 8 ELSE Room(l, r, o) < 8 /\ i = Room(l, r, o)
    <3>1. CASE /\ o = <<>>
               /\ IF brk < 0 THEN Len(l) = 8 ELSE i = Len(l) + Len(r)
               /\ text = Append(Whole(l, brk, r), End)
      <4>1. Len(o) = 0 BY <3>1, EmptySeq
      <4>2. text = Append(Body(l, brk, r, o), End) BY <3>1 DEF Body
      <4>3. Room(l, r, o) = Len(l) + Len(r) BY <1>4, <3>1 DEF Room
      <4>4. i < 8 BY <1>2 DEF Typed
      <4>5. IF brk < 0 THEN Room(l, r, o) = 8 ELSE Room(l, r, o) < 8 /\ i = Room(l, r, o)
        <5>1. CASE brk < 0
          <6>1. Len(l) = 8 /\ Len(r) = 0 BY <1>4, <3>1, <5>1
          <6> QED BY <4>3, <5>1, <6>1
        <5>2. CASE ~(brk < 0) BY <3>1, <4>3, <4>4, <5>2
        <5> QED BY <5>1, <5>2
      <4> QED BY <4>1, <4>2, <4>5
    <3>2. CASE Len(o) = 4 /\ Dotted(l, r) /\ text = Append(Groups(l, brk, r) \o Alt(o, Dot), End)
      <4>0. Len(o) = 4 /\ (o = <<>> <=> Len(o) = 0) BY <3>2, EmptySeq
      <4>1. o # <<>> BY <4>0
      <4>2. text = Append(Body(l, brk, r, o), End) BY <3>2, <4>1 DEF Body
      <4>3. Room(l, r, o) = Len(l) + Len(r) + 2 BY <4>1 DEF Room
      <4>4. i = Place(l, r, brk) + 1 /\ (brk < 0 => Len(l) = 6) BY <1>6, <3>2 DEF Dotted
      <4>5. i < 8 BY <1>2 DEF Typed
      <4>6. IF brk < 0 THEN Room(l, r, o) = 8 ELSE Room(l, r, o) < 8 /\ i = Room(l, r, o)
        <5>1. CASE brk < 0
          <6>1. Len(l) = 6 /\ Len(r) = 0 BY <1>4, <4>4, <5>1
          <6> QED BY <4>3, <5>1, <6>1
        <5>2. CASE ~(brk < 0)
          <6>1. i = Len(l) + Len(r) + 1 + 1 BY <4>4, <5>2 DEF Place
          <6>2. i = Room(l, r, o) BY <1>4, <4>3, <6>1
          <6> QED BY <4>5, <5>2, <6>2
        <5> QED BY <5>1, <5>2
      <4> QED BY <3>2, <4>2, <4>6
    <3> QED BY <1>1, <1>6, <3>1, <3>2 DEF Stands
  <2>2. Result = Read6(l, brk, r, o) BY <1>1, <1>2, <1>6, <2>1, ResultIs
  <2>3. ReadSix(l, r, o) BY <1>3, <2>1, <2>2 DEF ReadSix
  <2> QED BY <1>6, <2>3
<1> QED BY <1>2, <1>5, <1>6 DEF Typed

LEMMA DoneReads == ParseInv => ReadsTheAddress
<1> SUFFICES ASSUME ParseInv, phase = "done" PROVE Denoted(Front(text)) = {Result}
  BY DEF ReadsTheAddress
<1>1. End \in Tokens BY TokensAre
<1>2. CASE family = "v4" /\ \E o \in Seq(Nums) : ReadFour(o)
  <2>1. PICK o \in Seq(Nums) : ReadFour(o) BY <1>2
  <2>2. o \in Seq(Tokens) /\ Dot \in Tokens BY TokensAre, SeqMonotonic
  <2>3. Alt(o, Dot) \in Seq(Tokens) BY <2>2, AltIs
  <2>4. Front(text) = Alt(o, Dot) BY <1>1, <2>1, <2>3, FrontOfAppend DEF ReadFour
  <2>5. Denoted4(Alt(o, Dot)) = {Values(o, 10)} BY <2>1, DenotesFour DEF ReadFour
  <2> QED BY <1>2, <2>1, <2>4, <2>5 DEF Denoted, ReadFour
<1>3. CASE family = "v6" /\ \E l \in Seq(Nums), r \in Seq(Nums), o \in Seq(Nums) : ReadSix(l, r, o)
  <2>1. PICK l \in Seq(Nums), r \in Seq(Nums), o \in Seq(Nums) : ReadSix(l, r, o) BY <1>3
  <2>2. Body(l, brk, r, o) \in Seq(Tokens)
    <3>1. Len(o) \in {0, 4} BY <2>1 DEF ReadSix
    <3> QED BY <3>1, BodyWhole, BodyOpen
  <2>3. Front(text) = Body(l, brk, r, o) BY <1>1, <2>1, <2>2, FrontOfAppend DEF ReadSix
  <2>4. Denoted6(Body(l, brk, r, o)) = {Read6(l, brk, r, o)}
    <3>1. /\ Len(o) \in {0, 4} /\ (brk < 0 => r = <<>>)
          /\ \A k \in 1..Len(l) : IsGroup(l[k])
          /\ \A k \in 1..Len(r) : IsGroup(r[k])
          /\ \A k \in 1..Len(o) : IsByte(o[k])
          /\ IF brk < 0 THEN Room(l, r, o) = 8 ELSE Room(l, r, o) < 8
      BY <2>1 DEF ReadSix
    <3> QED BY <3>1, DenotesSix, ZenonT(40)
  <2> QED BY <1>3, <2>1, <2>3, <2>4 DEF Denoted, ReadSix
<1> QED BY <1>2, <1>3, DoneStands

(* For any numerals, ports and ways to write them: what inet_pton reads is *)
(* the one address the text denotes (inet_pton.h:38-84).                   *)
THEOREM AddressesAreRead == Spec => []ReadsTheAddress
BY AlwaysParses, DoneReads, PTL

-----------------------------------------------------------------------------
(* The texts that denote an address, place by place.                       *)
Rightful(l, b, r, o) ==
  /\ Len(o) \in {0, 4} /\ (b < 0 => r = <<>>)
  /\ \A k \in 1..Len(l) : IsGroup(l[k])
  /\ \A k \in 1..Len(r) : IsGroup(r[k])
  /\ \A k \in 1..Len(o) : IsByte(o[k])
  /\ IF family = "v4" THEN b < 0 /\ l = <<>> /\ Len(o) = 4
     ELSE IF b < 0 THEN Room(l, r, o) = 8 ELSE Room(l, r, o) < 8

Ending(l, b, r, o) == Append(Body(l, b, r, o), End)

(* Where the second colon of the gap is, and the last token before the bytes. *)
GapAt(l) == IF l = <<>> THEN 2 ELSE 2 * Len(l) + 1
BytesAt(l, b, r) == IF b < 0 THEN 2 * Len(l) ELSE GapAt(l) + 2 * Len(r)

(* The tokens s and what stands after each of them, from the place d on. *)
Spaced(X, d, s, sep, e) ==
  \A q \in 1..Len(s) :
    X[d + 2 * q - 1] = s[q] /\ X[d + 2 * q] = IF q = Len(s) THEN e ELSE sep

Laid(l, b, r, o, X) ==
  /\ Spaced(X, 0, l, Colon, IF b < 0 /\ o = <<>> THEN End ELSE Colon)
  /\ ~(b < 0) =>
       /\ X[GapAt(l)] = Colon
       /\ l = <<>> => X[1] = Colon
       /\ r = <<>> /\ o = <<>> => X[GapAt(l) + 1] = End
       /\ Spaced(X, GapAt(l), r, Colon, IF o = <<>> THEN End ELSE Colon)
  /\ Spaced(X, BytesAt(l, b, r), o, Dot, End)

Continues(X, p) == \A k \in 1..Len(p) : X[k] = p[k]

Ended(s, sep, e) == Append(Alt(s, sep), e)

LEMMA EndedIs ==
  ASSUME NEW T, NEW s \in Seq(T), s # <<>>, NEW sep \in T, NEW e \in T
  PROVE  /\ Ended(s, sep, e) \in Seq(T) /\ Len(Ended(s, sep, e)) = 2 * Len(s)
         /\ Spaced(Ended(s, sep, e), 0, s, sep, e)
<1> DEFINE A == Alt(s, sep)
           E == Append(A, e)
           n == Len(s)
<1>1. n \in Nat /\ n # 0 BY EmptySeq
<1>2. A \in Seq(T) /\ Len(A) = 2 * n - 1 BY AltIs
<1>3. \A k \in 1..2 * n - 1 : A[k] = IF k % 2 = 1 THEN s[(k + 1) \div 2] ELSE sep
  BY AltAt
<1> HIDE DEF A, n
<1>4. /\ E \in Seq(T) /\ Len(E) = Len(A) + 1
      /\ \A k \in 1..Len(A) + 1 : E[k] = IF k = Len(A) + 1 THEN e ELSE A[k]
  BY <1>2, AppendIs
<1>5. Len(A) + 1 = 2 * n BY <1>1, <1>2
<1> HIDE DEF E
<1>6. ASSUME NEW q \in 1..n PROVE E[0 + 2 * q - 1] = s[q]
  <2>1. /\ 2 * q - 1 \in 1..2 * n /\ 2 * q - 1 # 2 * n /\ 2 * q - 1 \in 1..2 * n - 1
        /\ (2 * q - 1) % 2 = 1 /\ (2 * q - 1 + 1) \div 2 = q /\ 0 + 2 * q - 1 = 2 * q - 1
    BY <1>1
  <2>2. E[2 * q - 1] = A[2 * q - 1] BY <1>4, <1>5, <2>1
  <2>3. A[2 * q - 1] = s[(2 * q - 1 + 1) \div 2] BY <1>3, <2>1
  <2> QED BY <2>1, <2>2, <2>3
<1>7. ASSUME NEW q \in 1..n PROVE E[0 + 2 * q] = IF q = n THEN e ELSE sep
  <2>1. 2 * q \in 1..2 * n /\ (2 * q = 2 * n <=> q = n) /\ (2 * q) % 2 # 1 /\ 0 + 2 * q = 2 * q
    BY <1>1
  <2>2. CASE q = n BY <1>4, <1>5, <2>1, <2>2
  <2>3. CASE q # n
    <3>1. 2 * q \in 1..2 * n - 1 BY <1>1, <2>3
    <3>2. E[2 * q] = A[2 * q] BY <1>4, <1>5, <2>1, <2>3
    <3>3. A[2 * q] = sep BY <1>3, <2>1, <3>1
    <3> QED BY <2>1, <2>3, <3>2, <3>3
  <2> QED BY <2>2, <2>3
<1>8. E \in Seq(T) /\ Len(E) = 2 * n BY <1>4, <1>5
<1>9. Spaced(E, 0, s, sep, e) BY <1>6, <1>7 DEF Spaced, n
<1> QED BY <1>8, <1>9 DEF E, A, n, Ended

LEMMA LeadLaid ==
  ASSUME NEW T, NEW s \in Seq(T), NEW sep \in T
  PROVE  /\ Lead(s, sep) \in Seq(T) /\ Len(Lead(s, sep)) = 2 * Len(s)
         /\ Spaced(Lead(s, sep), 0, s, sep, sep)
<1> DEFINE E == Lead(s, sep)
<1>1. CASE s = <<>>
  <2>1. E = <<>> /\ Len(s) = 0 BY <1>1, EmptySeq DEF Lead
  <2>2. E \in Seq(T) /\ Len(E) = 0 BY <2>1, EmptySeq
  <2> HIDE DEF E
  <2>3. Len(E) = 2 * Len(s) /\ 1..Len(s) = {} BY <2>1, <2>2
  <2> QED BY <2>2, <2>3 DEF E, Spaced
<1>2. CASE s # <<>>
  <2>1. PICK e \in T : e = sep OBVIOUS
  <2>2. E = Ended(s, sep, e) BY <1>2, <2>1 DEF Lead, Ended
  <2>3. /\ Ended(s, sep, e) \in Seq(T) /\ Len(Ended(s, sep, e)) = 2 * Len(s)
        /\ Spaced(Ended(s, sep, e), 0, s, sep, e)
    BY <1>2, EndedIs
  <2> QED BY <2>1, <2>2, <2>3
<1> QED BY <1>1, <1>2

LEMMA OpenLaid ==
  ASSUME NEW l \in Seq(Nums)
  PROVE  /\ Open(l) \in Seq(Tokens) /\ Len(Open(l)) = GapAt(l)
         /\ Spaced(Open(l), 0, l, Colon, Colon)
         /\ Open(l)[GapAt(l)] = Colon
         /\ l = <<>> => Open(l)[1] = Colon
<1>1. l \in Seq(Tokens) /\ Colon \in Tokens /\ <<Colon>> \in Seq(Tokens) BY TokensAre, OpenIs
<1>2. CASE l = <<>>
  <2>1. Open(l) = Append(<<Colon>>, Colon) BY <1>2, OpenIs
  <2>2. Len(<<Colon>>) = 1 /\ <<Colon>>[1] = Colon OBVIOUS
  <2> DEFINE c == <<Colon>>
  <2>3. Len(l) = 0 /\ GapAt(l) = 2 BY <1>2, EmptySeq DEF GapAt
  <2>4. Len(Open(l)) = 2 /\ Open(l)[1] = Colon /\ Open(l)[2] = Colon
    <3>0. c \in Seq(Tokens) /\ Colon \in Tokens BY <1>1
    <3>1. Len(c) = 1 /\ c[1] = Colon BY <2>2
    <3> HIDE DEF c
    <3>2. /\ Len(Append(c, Colon)) = Len(c) + 1
          /\ \A k \in 1..Len(c) : Append(c, Colon)[k] = c[k]
          /\ Append(c, Colon)[Len(c) + 1] = Colon
      BY <3>0, AppendProperties
    <3>3. Len(Append(c, Colon)) = 2 /\ Append(c, Colon)[1] = Colon /\ Append(c, Colon)[2] = Colon
      BY <3>1, <3>2
    <3> QED BY <2>1, <3>3 DEF c
  <2>5. Spaced(Open(l), 0, l, Colon, Colon) BY <2>3 DEF Spaced
  <2> QED BY <2>3, <2>4, <2>5, OpenIs
<1>3. CASE l # <<>>
  <2> DEFINE L == Lead(l, Colon)
  <2>1. Open(l) = Append(L, Colon) BY <1>3, OpenIs
  <2>2. L \in Seq(Tokens) /\ Len(L) = 2 * Len(l) /\ Spaced(L, 0, l, Colon, Colon)
    BY <1>1, LeadLaid
  <2> HIDE DEF L
  <2>3. /\ Len(Open(l)) = Len(L) + 1
        /\ \A k \in 1..Len(L) + 1 : Open(l)[k] = IF k = Len(L) + 1 THEN Colon ELSE L[k]
    <3>1. /\ Len(Append(L, Colon)) = Len(L) + 1
          /\ \A k \in 1..Len(L) + 1 : Append(L, Colon)[k] = IF k = Len(L) + 1 THEN Colon ELSE L[k]
      BY <1>1, <2>2, AppendIs, ZenonT(40)
    <3> QED BY <2>1, <3>1
  <2>4. GapAt(l) = 2 * Len(l) + 1 /\ Len(l) \in Nat BY <1>3, LenProperties DEF GapAt
  <2>5. Open(l)[GapAt(l)] = Colon BY <2>2, <2>3, <2>4
  <2>6. ASSUME NEW q \in 1..Len(l)
        PROVE  Open(l)[0 + 2 * q - 1] = l[q] /\ Open(l)[0 + 2 * q] = Colon
    <3>1. /\ 2 * q \in 1..2 * Len(l) + 1 /\ 2 * q # 2 * Len(l) + 1
          /\ 2 * q - 1 \in 1..2 * Len(l) + 1 /\ 2 * q - 1 # 2 * Len(l) + 1
          /\ 0 + 2 * q = 2 * q /\ 0 + 2 * q - 1 = 2 * q - 1
      BY <2>4
    <3>2. Open(l)[2 * q - 1] = L[2 * q - 1] /\ Open(l)[2 * q] = L[2 * q] BY <2>2, <2>3, <3>1
    <3>3. L[0 + 2 * q - 1] = l[q] /\ L[0 + 2 * q] = Colon BY <2>2 DEF Spaced
    <3> QED BY <3>1, <3>2, <3>3
  <2>7. Spaced(Open(l), 0, l, Colon, Colon) BY <2>6 DEF Spaced
  <2> QED BY <1>3, <2>2, <2>3, <2>4, <2>5, <2>7, OpenIs
<1> QED BY <1>2, <1>3

(* One text after the other. *)
LEMMA ConcatAt ==
  ASSUME NEW T, NEW s \in Seq(T), NEW t \in Seq(T)
  PROVE  /\ Continues(s \o t, s)
         /\ \A k \in 1..Len(t) : (s \o t)[Len(s) + k] = t[k]
<1> DEFINE u == s \o t
<1>1. /\ Len(s) \in Nat /\ Len(t) \in Nat
      /\ \A k \in 1..Len(s) + Len(t) : u[k] = IF k <= Len(s) THEN s[k] ELSE t[k - Len(s)]
  BY ConcatProperties, LenProperties
<1> HIDE DEF u
<1>2. ASSUME NEW k \in 1..Len(s) PROVE u[k] = s[k]
  <2>1. k \in 1..Len(s) + Len(t) /\ k <= Len(s) BY <1>1
  <2> QED BY <1>1, <2>1
<1>3. ASSUME NEW k \in 1..Len(t) PROVE u[Len(s) + k] = t[k]
  <2>1. /\ Len(s) + k \in 1..Len(s) + Len(t) /\ ~(Len(s) + k <= Len(s))
        /\ Len(s) + k - Len(s) = k
    BY <1>1
  <2>2. u[Len(s) + k] = t[Len(s) + k - Len(s)] BY <1>1, <2>1
  <2> QED BY <2>1, <2>2
<1> QED BY <1>2, <1>3 DEF u, Continues

LEMMA SpacedAfter ==
  ASSUME NEW T, NEW p \in Seq(T), NEW t \in Seq(T), NEW s, Len(s) \in Nat,
         NEW sep, NEW e, Len(t) = 2 * Len(s), Spaced(t, 0, s, sep, e)
  PROVE  Spaced(p \o t, Len(p), s, sep, e)
<1> DEFINE X == p \o t
<1>1. Len(p) \in Nat BY LenProperties
<1>2. \A k \in 1..Len(t) : X[Len(p) + k] = t[k] BY ConcatAt
<1> HIDE DEF X
<1>3. ASSUME NEW q \in 1..Len(s)
      PROVE  X[Len(p) + 2 * q - 1] = s[q] /\ X[Len(p) + 2 * q] = IF q = Len(s) THEN e ELSE sep
  <2>1. /\ 2 * q - 1 \in 1..Len(t) /\ 2 * q \in 1..Len(t)
        /\ Len(p) + (2 * q - 1) = Len(p) + 2 * q - 1
        /\ 0 + 2 * q - 1 = 2 * q - 1 /\ 0 + 2 * q = 2 * q
    BY <1>1
  <2>2. X[Len(p) + (2 * q - 1)] = t[2 * q - 1] /\ X[Len(p) + 2 * q] = t[2 * q] BY <1>2, <2>1
  <2>3. t[0 + 2 * q - 1] = s[q] /\ t[0 + 2 * q] = IF q = Len(s) THEN e ELSE sep BY DEF Spaced
  <2> QED BY <2>1, <2>2, <2>3
<1> QED BY <1>3 DEF X, Spaced

(* What is before stays as it is. *)
LEMMA SpacedBefore ==
  ASSUME NEW X, NEW p, Continues(X, p), NEW d \in Nat, NEW s, Len(s) \in Nat,
         NEW sep, NEW e, d + 2 * Len(s) <= Len(p), Len(p) \in Nat, Spaced(p, d, s, sep, e)
  PROVE  Spaced(X, d, s, sep, e)
<1> SUFFICES ASSUME NEW q \in 1..Len(s)
             PROVE  X[d + 2 * q - 1] = s[q] /\ X[d + 2 * q] = IF q = Len(s) THEN e ELSE sep
  BY DEF Spaced
<1>1. d + 2 * q - 1 \in 1..Len(p) /\ d + 2 * q \in 1..Len(p) OBVIOUS
<1>2. X[d + 2 * q - 1] = p[d + 2 * q - 1] /\ X[d + 2 * q] = p[d + 2 * q] BY <1>1 DEF Continues
<1>3. p[d + 2 * q - 1] = s[q] /\ p[d + 2 * q] = IF q = Len(s) THEN e ELSE sep BY DEF Spaced
<1> QED BY <1>2, <1>3

LEMMA GapLaid ==
  ASSUME NEW l \in Seq(Nums), NEW X, Continues(X, Open(l))
  PROVE  /\ GapAt(l) \in Nat /\ GapAt(l) >= 2 /\ GapAt(l) >= 2 * Len(l)
         /\ Spaced(X, 0, l, Colon, Colon) /\ X[GapAt(l)] = Colon
         /\ l = <<>> => X[1] = Colon
<1> DEFINE p == Open(l)
<1>1. /\ Len(p) = GapAt(l) /\ Spaced(p, 0, l, Colon, Colon)
      /\ p[GapAt(l)] = Colon /\ (l = <<>> => p[1] = Colon)
  BY OpenLaid
<1>2. Continues(X, p) OBVIOUS
<1> HIDE DEF p
<1>3. Len(l) \in Nat /\ (l = <<>> <=> Len(l) = 0) BY LenProperties, EmptySeq
<1>4. GapAt(l) \in Nat /\ GapAt(l) >= 2 /\ GapAt(l) >= 2 * Len(l) BY <1>3 DEF GapAt
<1>5. Spaced(X, 0, l, Colon, Colon) BY <1>1, <1>2, <1>3, <1>4, SpacedBefore
<1>6. GapAt(l) \in 1..Len(p) /\ 1 \in 1..Len(p) BY <1>1, <1>4
<1>7. X[GapAt(l)] = p[GapAt(l)] /\ X[1] = p[1] BY <1>2, <1>6 DEF Continues
<1> QED BY <1>1, <1>4, <1>5, <1>7

LEMMA BodyLaid ==
  ASSUME NEW l \in Seq(Nums), NEW r \in Seq(Nums), NEW o \in Seq(Nums), NEW b,
         Rightful(l, b, r, o)
  PROVE  Ending(l, b, r, o) \in Seq(Tokens) /\ Laid(l, b, r, o, Ending(l, b, r, o))
<1> DEFINE X == Ending(l, b, r, o)
<1>1. /\ Colon \in Tokens /\ Dot \in Tokens /\ End \in Tokens
      /\ l \in Seq(Tokens) /\ r \in Seq(Tokens) /\ o \in Seq(Tokens)
  BY TokensAre, SeqMonotonic
<1>2. /\ Len(o) \in {0, 4} /\ (o = <<>> <=> Len(o) = 0) /\ (b < 0 => Len(r) = 0)
      /\ Len(l) \in Nat /\ Len(r) \in Nat
  BY EmptySeq, LenProperties DEF Rightful
<1>3. o = <<>> => \A d : Spaced(X, d, o, Dot, End) BY <1>2 DEF Spaced
<1>4. X = Append(Body(l, b, r, o), End) BY DEF Ending
<1> DEFINE E == Ended(o, Dot, End)
<1>5. ASSUME o # <<>>, NEW p \in Seq(Tokens), X = Append(p \o Alt(o, Dot), End)
      PROVE  X \in Seq(Tokens) /\ Continues(X, p) /\ Spaced(X, Len(p), o, Dot, End)
  <2>1. Alt(o, Dot) \in Seq(Tokens) BY <1>1, AltIs
  <2>2. p \o Append(Alt(o, Dot), End) = Append(p \o Alt(o, Dot), End)
    BY <1>1, <2>1, AppendsOutside, SMTT(40)
  <2>3. X = p \o E BY <1>5, <2>2 DEF Ended
  <2>4. E \in Seq(Tokens) /\ Len(E) = 2 * Len(o) /\ Spaced(E, 0, o, Dot, End)
    BY <1>1, <1>5, EndedIs
  <2> HIDE DEF X, E
  <2>5. p \o E \in Seq(Tokens) /\ Continues(p \o E, p) BY <2>4, ConcatProperties, ConcatAt
  <2>6. Spaced(p \o E, Len(p), o, Dot, End) BY <1>2, <2>4, SpacedAfter
  <2> QED BY <2>3, <2>5, <2>6
<1> HIDE DEF X, E
<1>6. CASE b < 0 /\ o = <<>>
  <2>1. l # <<>>
    <3>1. Room(l, r, o) = 8 BY <1>2, <1>6 DEF Rightful
    <3>2. Len(l) = 8 BY <1>2, <1>6, <3>1 DEF Room
    <3>3. l = <<>> => Len(l) = 0 BY EmptySeq
    <3> QED BY <3>2, <3>3
  <2>2. X = Ended(l, Colon, End) BY <1>4, <1>6 DEF Body, Whole, Ended
  <2>3. X \in Seq(Tokens) /\ Spaced(X, 0, l, Colon, End) BY <1>1, <2>1, <2>2, EndedIs
  <2> QED BY <1>3, <1>6, <2>3 DEF Laid, X
<1>7. CASE b < 0 /\ o # <<>>
  <2> DEFINE p == Lead(l, Colon)
  <2>1. p \in Seq(Tokens) /\ Len(p) = 2 * Len(l) /\ Spaced(p, 0, l, Colon, Colon)
    BY <1>1, LeadLaid
  <2>2. X = Append(p \o Alt(o, Dot), End) BY <1>4, <1>7 DEF Body, Groups
  <2> HIDE DEF p
  <2>3. X \in Seq(Tokens) /\ Continues(X, p) /\ Spaced(X, Len(p), o, Dot, End)
    BY <1>5, <1>7, <2>1, <2>2
  <2>4. Spaced(X, 0, l, Colon, Colon) BY <1>2, <2>1, <2>3, SpacedBefore
  <2>5. BytesAt(l, b, r) = Len(p) BY <1>7, <2>1 DEF BytesAt
  <2> QED BY <1>7, <2>3, <2>4, <2>5 DEF Laid, X
<1>8. CASE ~(b < 0)
  <2> DEFINE p == Open(l)
  <2>1. p \in Seq(Tokens) /\ Len(p) = GapAt(l) BY OpenLaid
  <2>2. ASSUME Continues(X, p)
        PROVE  /\ GapAt(l) \in Nat
               /\ Spaced(X, 0, l, Colon, Colon) /\ X[GapAt(l)] = Colon
               /\ l = <<>> => X[1] = Colon
    BY <2>2, GapLaid
  <2> HIDE DEF p
  <2>3. CASE o = <<>>
    <3>1. X = Append(p \o Alt(r, Colon), End) BY <1>4, <1>8, <2>3 DEF Body, Whole, p
    <3>2. CASE r = <<>>
      <4>1. p \o Alt(r, Colon) = p BY <2>1, <3>2, AltEmpty, ConcatEmptySeq
      <4>2. X = Append(p, End) BY <3>1, <4>1
      <4>3. X \in Seq(Tokens) /\ Continues(X, p) /\ X[GapAt(l) + 1] = End
        BY <1>1, <2>1, <4>2, AppendProperties DEF Continues
      <4>4. Spaced(X, GapAt(l), r, Colon, End) BY <3>2, EmptySeq DEF Spaced
      <4> QED BY <1>3, <1>8, <2>2, <2>3, <4>3, <4>4 DEF Laid, X
    <3>3. CASE r # <<>>
      <4> DEFINE t == Ended(r, Colon, End)
      <4>1. Alt(r, Colon) \in Seq(Tokens) BY <1>1, AltIs
      <4>2. p \o Append(Alt(r, Colon), End) = Append(p \o Alt(r, Colon), End)
        BY <1>1, <2>1, <4>1, AppendsOutside, SMTT(40)
      <4>3. X = p \o t BY <3>1, <4>2 DEF Ended
      <4>4. t \in Seq(Tokens) /\ Len(t) = 2 * Len(r) /\ Spaced(t, 0, r, Colon, End)
        BY <1>1, <3>3, EndedIs
      <4> HIDE DEF t
      <4>5. p \o t \in Seq(Tokens) /\ Continues(p \o t, p) BY <2>1, <4>4, ConcatProperties, ConcatAt
      <4>6. Spaced(p \o t, Len(p), r, Colon, End) BY <1>2, <2>1, <4>4, SpacedAfter
      <4> QED BY <1>3, <1>8, <2>1, <2>2, <2>3, <3>3, <4>3, <4>5, <4>6 DEF Laid, X
    <3> QED BY <3>2, <3>3
  <2>4. CASE o # <<>>
    <3> DEFINE t == Lead(r, Colon)
               m == p \o t
    <3>1. t \in Seq(Tokens) /\ Len(t) = 2 * Len(r) /\ Spaced(t, 0, r, Colon, Colon)
      BY <1>1, LeadLaid
    <3>2. X = Append(m \o Alt(o, Dot), End) BY <1>4, <1>8, <2>4 DEF Body, Groups, p
    <3> HIDE DEF t
    <3>3. /\ m \in Seq(Tokens) /\ Len(m) = GapAt(l) + 2 * Len(r)
          /\ Continues(m, p)
      BY <2>1, <3>1, ConcatProperties, ConcatAt, ZenonT(40)
    <3>4. Spaced(m, GapAt(l), r, Colon, Colon) BY <1>2, <2>1, <3>1, SpacedAfter
    <3> HIDE DEF m
    <3>5. X \in Seq(Tokens) /\ Continues(X, m) /\ Spaced(X, Len(m), o, Dot, End)
      BY <1>5, <2>4, <3>2, <3>3
    <3>6. GapAt(l) \in Nat BY <1>2 DEF GapAt
    <3>7. Continues(X, p)
      <4>1. \A k \in 1..Len(p) : k \in 1..Len(m) BY <1>2, <2>1, <3>3, <3>6
      <4> QED BY <3>3, <3>5, <4>1 DEF Continues
    <3>8. Spaced(X, GapAt(l), r, Colon, Colon)
      BY <1>2, <3>3, <3>4, <3>5, <3>6, SpacedBefore
    <3>9. BytesAt(l, b, r) = Len(m) BY <1>8, <3>3 DEF BytesAt
    <3> QED BY <1>8, <2>2, <2>4, <3>5, <3>7, <3>8, <3>9 DEF Laid, X
  <2> QED BY <2>3, <2>4
<1> QED BY <1>6, <1>7, <1>8

-----------------------------------------------------------------------------
(* As long as what was read begins the text of an address, inet_pton goes  *)
(* on; the place it has come to is the one its registers say.              *)
Precedes(w, X) == Len(w) <= Len(X) /\ \A k \in 1..Len(w) : w[k] = X[k]

(* After n tokens, at the group j, a gap seen at g or not. *)
InGroups(l, b, r, o, n, j, g) ==
  \/ /\ g < 0 /\ n = 2 * j + 1
     /\ j < Len(l) \/ (b < 0 /\ o # <<>> /\ j = Len(l))
  \/ /\ g < 0 /\ ~(b < 0)
     /\ n = GapAt(l) /\ j = Len(l)
  \/ /\ ~(g < 0) /\ ~(b < 0)
     /\ n = GapAt(l) + 2 * (j - Len(l)) - 1 /\ j > Len(l)
     /\ j - Len(l) <= Len(r) \/ (o # <<>> /\ j - Len(l) = Len(r) + 1)

(* A dotted text was expected where none is, and the next dot will tell, or *)
(* the bytes are read one by one.                                           *)
InBytes(l, b, r, o, X) ==
  \/ family = "v6" /\ bytes = <<>> /\ X[Len(text) + 1] # Dot
  \/ /\ o # <<>> /\ Len(bytes) < 4
     /\ Len(text) = BytesAt(l, b, r) + 2 * Len(bytes) + 1

Follows(l, b, r, o, X) ==
  /\ phase # "failed"
  /\ phase = "start" => family = "v6" /\ Len(text) = 1 /\ i = 0 /\ brk < 0 /\ bytes = <<>>
  /\ phase = "groups" =>
       family = "v6" /\ bytes = <<>> /\ InGroups(l, b, r, o, Len(text), i, brk)
  /\ phase = "bytes" => InBytes(l, b, r, o, X)

Agrees(l, b, r, o) ==
  Precedes(text, Ending(l, b, r, o)) => Follows(l, b, r, o, Ending(l, b, r, o))

Refuses ==
  \A l \in Seq(Nums), r \in Seq(Nums), o \in Seq(Nums), b \in {-1, 0} :
    Rightful(l, b, r, o) => Agrees(l, b, r, o)

(* One or two tokens more. *)
LEMMA OneRead ==
  ASSUME NEW T, NEW w \in Seq(T), NEW t \in T, NEW X, Precedes(Append(w, t), X),
         Len(X) \in Nat
  PROVE  /\ Precedes(w, X) /\ Len(w) \in Nat /\ Len(Append(w, t)) = Len(w) + 1
         /\ X[Len(w) + 1] = t
<1>1. /\ Append(w, t) \in Seq(T) /\ Len(w) \in Nat /\ Len(Append(w, t)) = Len(w) + 1
      /\ \A k \in 1..Len(w) : Append(w, t)[k] = w[k]
      /\ Append(w, t)[Len(w) + 1] = t
  BY AppendProperties, LenProperties
<1>2. Len(w) + 1 \in 1..Len(w) + 1 /\ \A k \in 1..Len(w) : k \in 1..Len(w) + 1 BY <1>1
<1>3. Len(w) + 1 <= Len(X) /\ \A k \in 1..Len(w) + 1 : Append(w, t)[k] = X[k]
  BY <1>1 DEF Precedes
<1>4. \A k \in 1..Len(w) : w[k] = X[k] BY <1>1, <1>2, <1>3
<1>5. X[Len(w) + 1] = t BY <1>1, <1>2, <1>3
<1>6. Len(w) <= Len(X) BY <1>1, <1>3
<1> QED BY <1>1, <1>4, <1>5, <1>6 DEF Precedes

LEMMA TwoRead ==
  ASSUME NEW T, NEW w \in Seq(T), NEW x \in T, NEW t \in T, NEW X,
         Precedes(w \o <<x, t>>, X), Len(X) \in Nat
  PROVE  /\ Precedes(w, X) /\ Len(w) \in Nat /\ Len(w \o <<x, t>>) = Len(w) + 2
         /\ X[Len(w) + 1] = x
<1>1. w \o <<x, t>> = Append(Append(w, x), t) /\ Append(w, x) \in Seq(T)
  BY TwoMore, AppendProperties
<1> DEFINE v == Append(w, x)
<1>2. /\ Precedes(v, X) /\ Len(v) \in Nat /\ Len(Append(v, t)) = Len(v) + 1
  <2>1. v \in Seq(T) /\ Precedes(Append(v, t), X) BY <1>1
  <2> HIDE DEF v
  <2> QED BY <2>1, OneRead
<1>3. /\ Precedes(w, X) /\ Len(w) \in Nat /\ Len(v) = Len(w) + 1
      /\ X[Len(w) + 1] = x
  BY <1>2, OneRead
<1> QED BY <1>1, <1>2, <1>3

LEMMA LastRead ==
  ASSUME NEW X, Precedes(text, X), NEW n \in Nat, n = Len(text), n >= 1
  PROVE  s0 = X[n]
<1>1. n \in 1..Len(text) BY SMT
<1> QED BY <1>1 DEF Precedes, s0, Last

(* What stands at such a place, and what comes next. *)
GroupNext(l, b, r, o, X, n, j, g) ==
  \/ X[n] = Colon /\ g < 0 /\ n = GapAt(l) /\ j = Len(l) /\ ~(b < 0)
  \/ /\ X[n] \in Nums /\ IsGroup(X[n])
     /\ \/ X[n + 1] = Colon /\ j < 7 /\ InGroups(l, b, r, o, n + 2, j + 1, g)
        \/ X[n + 1] = End /\ (~(g < 0) \/ j = 7)
        \/ /\ X[n + 1] = Dot /\ j < 7 /\ (j = 6 \/ ~(g < 0))
           /\ o # <<>> /\ n = BytesAt(l, b, r) + 1

LEMMA GroupAhead ==
  ASSUME NEW l \in Seq(Nums), NEW r \in Seq(Nums), NEW o \in Seq(Nums), NEW b \in {-1, 0},
         family = "v6", Rightful(l, b, r, o),
         NEW X, Laid(l, b, r, o, X), NEW n \in Nat, NEW j \in 0..7, NEW g \in -1..7,
         InGroups(l, b, r, o, n, j, g)
  PROVE  n >= 1 /\ GroupNext(l, b, r, o, X, n, j, g)
<1> SUFFICES /\ n >= 1
             /\ \/ X[n] = Colon /\ g < 0 /\ n = GapAt(l) /\ j = Len(l) /\ ~(b < 0)
                \/ /\ X[n] \in Nums /\ IsGroup(X[n])
                   /\ \/ X[n + 1] = Colon /\ j < 7 /\ InGroups(l, b, r, o, n + 2, j + 1, g)
                      \/ X[n + 1] = End /\ (~(g < 0) \/ j = 7)
                      \/ /\ X[n + 1] = Dot /\ j < 7 /\ (j = 6 \/ ~(g < 0))
                         /\ o # <<>> /\ n = BytesAt(l, b, r) + 1
  BY DEF GroupNext
<1>1. /\ Len(l) \in Nat /\ Len(r) \in Nat /\ Len(o) \in {0, 4}
      /\ o = <<>> <=> Len(o) = 0
      /\ l = <<>> <=> Len(l) = 0
      /\ b < 0 => Len(r) = 0
  BY LenProperties, EmptySeq DEF Rightful
<1>2. GapAt(l) = (IF Len(l) = 0 THEN 2 ELSE 2 * Len(l) + 1) /\ GapAt(l) \in Nat
  BY <1>1 DEF GapAt
<1>3. IF b < 0 THEN Len(l) = (IF Len(o) = 0 THEN 8 ELSE 6)
      ELSE Len(l) + Len(r) < (IF Len(o) = 0 THEN 8 ELSE 6)
  <2>1. IF b < 0 THEN Room(l, r, o) = 8 ELSE Room(l, r, o) < 8 BY DEF Rightful
  <2>2. Room(l, r, o) = Len(l) + Len(r) + IF Len(o) = 0 THEN 0 ELSE 2 BY <1>1 DEF Room
  <2>3. PICK a \in Nat, c \in Nat, u \in {0, 4} : a = Len(l) /\ c = Len(r) /\ u = Len(o)
    BY <1>1
  <2>4. b < 0 => a + c + (IF u = 0 THEN 0 ELSE 2) = 8 /\ c = 0 BY <1>1, <2>1, <2>2, <2>3
  <2>5. ~(b < 0) => a + c + (IF u = 0 THEN 0 ELSE 2) < 8 BY <2>1, <2>2, <2>3
  <2>6. IF b < 0 THEN a = (IF u = 0 THEN 8 ELSE 6) ELSE a + c < (IF u = 0 THEN 8 ELSE 6)
    BY <2>4, <2>5
  <2> QED BY <2>3, <2>6
<1>3a. /\ b < 0 => Len(l) = (IF o = <<>> THEN 8 ELSE 6)
       /\ ~(b < 0) => Len(l) + Len(r) < (IF o = <<>> THEN 8 ELSE 6)
  BY <1>1, <1>3
<1>4. BytesAt(l, b, r) = (IF b < 0 THEN 2 * Len(l) ELSE GapAt(l) + 2 * Len(r)) BY DEF BytesAt
<1>5. ASSUME NEW q \in 1..Len(l)
      PROVE  /\ X[2 * q - 1] \in Nums /\ IsGroup(X[2 * q - 1])
             /\ X[2 * q] = IF b < 0 /\ o = <<>> /\ q = Len(l) THEN End ELSE Colon
  <2>1. 0 + 2 * q - 1 = 2 * q - 1 /\ 0 + 2 * q = 2 * q OBVIOUS
  <2>2. /\ X[0 + 2 * q - 1] = l[q]
        /\ X[0 + 2 * q] = IF q = Len(l) THEN IF b < 0 /\ o = <<>> THEN End ELSE Colon ELSE Colon
    BY DEF Laid, Spaced
  <2>3. l[q] \in Nums /\ IsGroup(l[q]) BY ElementOfSeq DEF Rightful
  <2> QED BY <2>1, <2>2, <2>3
<1>6. ASSUME ~(b < 0), NEW q \in 1..Len(r)
      PROVE  /\ X[GapAt(l) + 2 * q - 1] \in Nums /\ IsGroup(X[GapAt(l) + 2 * q - 1])
             /\ X[GapAt(l) + 2 * q] = IF o = <<>> /\ q = Len(r) THEN End ELSE Colon
  <2>1. /\ X[GapAt(l) + 2 * q - 1] = r[q]
        /\ X[GapAt(l) + 2 * q] = IF q = Len(r) THEN IF o = <<>> THEN End ELSE Colon ELSE Colon
    BY <1>6 DEF Laid, Spaced
  <2>2. r[q] \in Nums /\ IsGroup(r[q]) BY ElementOfSeq DEF Rightful
  <2> QED BY <2>1, <2>2
<1>7. ASSUME o # <<>>
      PROVE  /\ X[BytesAt(l, b, r) + 1] \in Nums /\ IsGroup(X[BytesAt(l, b, r) + 1])
             /\ X[BytesAt(l, b, r) + 2] = Dot
  <2>1. Len(o) = 4 /\ 1 \in 1..Len(o) BY <1>1, <1>7
  <2>2. /\ X[BytesAt(l, b, r) + 2 * 1 - 1] = o[1]
        /\ X[BytesAt(l, b, r) + 2 * 1] = IF 1 = Len(o) THEN End ELSE Dot
    BY <2>1 DEF Laid, Spaced
  <2>3. BytesAt(l, b, r) \in Int BY <1>1, <1>2, <1>4
  <2>4. BytesAt(l, b, r) + 2 * 1 - 1 = BytesAt(l, b, r) + 1 /\ BytesAt(l, b, r) + 2 * 1 = BytesAt(l, b, r) + 2
    BY <2>3
  <2>5. o[1] \in Nums /\ IsByte(o[1]) BY <2>1, ElementOfSeq DEF Rightful
  <2>6. IsGroup(o[1])
    <3>1. o[1] \in Seq(0..15) BY <2>5 DEF Nums
    <3>2. Len(o[1]) \in Nat BY <3>1, LenProperties
    <3> QED BY <2>5, <3>2 DEF IsByte, IsGroup
  <2> QED BY <2>1, <2>2, <2>4, <2>5, <2>6
<1>8. CASE g < 0 /\ n = 2 * j + 1 /\ j < Len(l)
  <2>1. /\ j + 1 \in 1..Len(l) /\ 2 * (j + 1) - 1 = n /\ 2 * (j + 1) = n + 1
        /\ n + 2 = 2 * (j + 1) + 1
    BY <1>1, <1>8
  <2>2. /\ X[n] \in Nums /\ IsGroup(X[n])
        /\ X[n + 1] = IF b < 0 /\ o = <<>> /\ j + 1 = Len(l) THEN End ELSE Colon
    BY <1>5, <2>1
  <2>3. CASE b < 0 /\ o = <<>> /\ j + 1 = Len(l)
    <3>1. j = 7
      <4>1. Len(l) = 8 BY <1>3a, <2>3
      <4> QED BY <2>3, <4>1
    <3> QED BY <1>8, <2>2, <2>3, <3>1
  <2>4. CASE ~(b < 0 /\ o = <<>> /\ j + 1 = Len(l))
    <3>1. j < 7
      <4>1. CASE b < 0 /\ o = <<>>
        <5>1. Len(l) = 8 /\ j + 1 # Len(l) BY <1>3a, <2>4, <4>1
        <5> QED BY <1>8, <5>1
      <4>2. CASE b < 0 /\ o # <<>>
        <5>1. Len(l) = 6 BY <1>3a, <4>2
        <5> QED BY <1>8, <5>1
      <4>3. CASE ~(b < 0)
        <5>1. Len(l) + Len(r) < 8 BY <1>3a, <4>3
        <5>2. Len(l) < 8 BY <1>1, <5>1
        <5> QED BY <1>1, <1>8, <5>2
      <4> QED BY <4>1, <4>2, <4>3
    <3>2. InGroups(l, b, r, o, n + 2, j + 1, g)
      <4>1. CASE j + 1 < Len(l) BY <1>8, <2>1, <4>1 DEF InGroups
      <4>2. CASE j + 1 = Len(l)
        <5>1. n + 2 = GapAt(l) BY <1>1, <1>2, <2>1, <4>2, SMTT(40)
        <5> QED BY <1>8, <2>1, <2>4, <4>2, <5>1 DEF InGroups
      <4> QED BY <1>1, <1>8, <4>1, <4>2
    <3> QED BY <1>8, <2>2, <2>4, <3>1, <3>2
  <2> QED BY <2>3, <2>4
<1>9. CASE g < 0 /\ n = 2 * j + 1 /\ b < 0 /\ o # <<>> /\ j = Len(l)
  <2>1. j = 6 /\ n = BytesAt(l, b, r) + 1 /\ n + 1 = BytesAt(l, b, r) + 2 /\ n >= 1
    BY <1>1, <1>3, <1>4, <1>9
  <2> QED BY <1>7, <1>9, <2>1
<1>10. CASE g < 0 /\ ~(b < 0) /\ n = GapAt(l) /\ j = Len(l)
  <2>1. X[GapAt(l)] = Colon BY <1>10 DEF Laid
  <2> QED BY <1>1, <1>2, <1>10, <2>1
<1>11. CASE ~(g < 0) /\ ~(b < 0) /\ n = GapAt(l) + 2 * (j - Len(l)) - 1 /\ j > Len(l)
            /\ j - Len(l) <= Len(r)
  <2> DEFINE q == j - Len(l)
  <2>1. /\ q \in 1..Len(r) /\ n = GapAt(l) + 2 * q - 1 /\ n + 1 = GapAt(l) + 2 * q
        /\ n + 2 = GapAt(l) + 2 * (j + 1 - Len(l)) - 1 /\ n >= 1
    <3>1. PICK a \in Nat, c \in Nat, d \in Nat : a = Len(l) /\ c = Len(r) /\ d = GapAt(l)
      BY <1>1, <1>2
    <3>2. j > a /\ j - a <= c /\ n = d + 2 * (j - a) - 1 BY <1>11, <3>1
    <3>3. /\ j - a \in 1..c /\ n = d + 2 * (j - a) - 1 /\ n + 1 = d + 2 * (j - a)
          /\ n + 2 = d + 2 * (j + 1 - a) - 1 /\ n >= 1
      BY <3>2
    <3> QED BY <3>1, <3>3
  <2>2. /\ X[n] \in Nums /\ IsGroup(X[n])
        /\ X[n + 1] = IF o = <<>> /\ q = Len(r) THEN End ELSE Colon
    BY <1>6, <1>11, <2>1
  <2>3. CASE o = <<>> /\ q = Len(r) BY <1>11, <2>1, <2>2, <2>3
  <2>4. CASE ~(o = <<>> /\ q = Len(r))
    <3>1. j < 7 BY <1>1, <1>3, <1>11, <2>4
    <3>2. j + 1 > Len(l) /\ (j + 1 - Len(l) <= Len(r) \/ (o # <<>> /\ j + 1 - Len(l) = Len(r) + 1))
      BY <1>1, <1>11, <2>4
    <3>3. InGroups(l, b, r, o, n + 2, j + 1, g) BY <1>11, <2>1, <3>2 DEF InGroups
    <3> QED BY <2>1, <2>2, <2>4, <3>1, <3>3
  <2> QED BY <2>3, <2>4
<1>12. CASE ~(g < 0) /\ ~(b < 0) /\ n = GapAt(l) + 2 * (j - Len(l)) - 1 /\ j > Len(l)
            /\ o # <<>> /\ j - Len(l) = Len(r) + 1
  <2>1. j < 7 /\ n = BytesAt(l, b, r) + 1 /\ n + 1 = BytesAt(l, b, r) + 2 /\ n >= 1
    <3>1. PICK a \in Nat, c \in Nat, d \in Nat : a = Len(l) /\ c = Len(r) /\ d = GapAt(l)
      BY <1>1, <1>2
    <3>2. a + c < 6 /\ BytesAt(l, b, r) = d + 2 * c BY <1>3a, <1>4, <1>12, <3>1
    <3>3. j - a = c + 1 /\ n = d + 2 * (j - a) - 1 BY <1>12, <3>1
    <3>4. j < 7 /\ n = (d + 2 * c) + 1 /\ n + 1 = (d + 2 * c) + 2 /\ n >= 1 BY <3>2, <3>3
    <3> QED BY <3>2, <3>4
  <2> QED BY <1>7, <1>12, <2>1
<1> QED BY <1>8, <1>9, <1>10, <1>11, <1>12 DEF InGroups

ByteNext(l, b, r, o, X, n, k) ==
  \/ family = "v6" /\ bytes = <<>> /\ X[n + 1] # Dot
  \/ /\ o # <<>> /\ k < 4 /\ n = BytesAt(l, b, r) + 2 * k + 1
     /\ n >= 1 /\ X[n] \in Nums /\ IsByte(X[n])
     /\ X[n + 1] = IF k = 3 THEN End ELSE Dot

LEMMA BytesAtTyped ==
  ASSUME NEW l \in Seq(Nums), NEW r \in Seq(Nums), NEW b \in {-1, 0}
  PROVE  BytesAt(l, b, r) \in Nat
<1>1. Len(l) \in Nat /\ Len(r) \in Nat BY LenProperties
<1>2. GapAt(l) \in Nat BY <1>1 DEF GapAt
<1> QED BY <1>1, <1>2 DEF BytesAt

LEMMA ByteAhead ==
  ASSUME NEW l \in Seq(Nums), NEW r \in Seq(Nums), NEW o \in Seq(Nums), NEW b \in {-1, 0},
         Rightful(l, b, r, o), NEW X, Laid(l, b, r, o, X), InBytes(l, b, r, o, X),
         NEW n \in Nat, n = Len(text), NEW k \in Nat, k = Len(bytes)
  PROVE  ByteNext(l, b, r, o, X, n, k)
<1> SUFFICES  \/ family = "v6" /\ bytes = <<>> /\ X[n + 1] # Dot
           \/ /\ o # <<>> /\ k < 4 /\ n = BytesAt(l, b, r) + 2 * k + 1
              /\ n >= 1 /\ X[n] \in Nums /\ IsByte(X[n])
              /\ X[n + 1] = IF k = 3 THEN End ELSE Dot
  BY DEF ByteNext
<1>1. CASE family = "v6" /\ bytes = <<>> /\ X[Len(text) + 1] # Dot BY <1>1
<1>2. CASE o # <<>> /\ Len(bytes) < 4 /\ Len(text) = BytesAt(l, b, r) + 2 * Len(bytes) + 1
  <2>1. Len(o) = 4
    <3>1. Len(o) \in {0, 4} /\ Len(o) # 0 BY <1>2, EmptySeq DEF Rightful
    <3> QED BY <3>1
  <2>2. BytesAt(l, b, r) \in Nat BY BytesAtTyped
  <2>3. PICK d \in Nat : d = BytesAt(l, b, r) BY <2>2
  <2>4. k < 4 /\ n = d + 2 * k + 1 BY <1>2, <2>3
  <2>5. PICK q \in 1..4 : q = k + 1
    <3>1. k + 1 \in 1..4 BY <2>4, SMTT(40)
    <3> QED BY <3>1
  <2>6. X[d + 2 * q - 1] = o[q] /\ X[d + 2 * q] = IF q = Len(o) THEN End ELSE Dot
    BY <2>1, <2>3 DEF Laid, Spaced
  <2>7. d + 2 * q - 1 = n /\ d + 2 * q = n + 1 /\ (q = 4 <=> k = 3) /\ n >= 1
    <3>1. PICK c \in 0..3 : c = k BY <2>4
    <3>2. q = c + 1 /\ n = d + 2 * c + 1 BY <2>4, <2>5, <3>1
    <3>3. d + 2 * (c + 1) - 1 = d + 2 * c + 1 /\ d + 2 * (c + 1) = d + 2 * c + 1 + 1 OBVIOUS
    <3>4. c + 1 = 4 <=> c = 3 OBVIOUS
    <3>5. d + 2 * c + 1 >= 1 OBVIOUS
    <3> QED BY <3>1, <3>2, <3>3, <3>4, <3>5
  <2>8. o[q] \in Nums /\ IsByte(o[q])
    <3>1. q \in 1..Len(o) BY <2>1
    <3> QED BY <3>1, ElementOfSeq DEF Rightful
  <2>9. X[n] = o[q] /\ X[n + 1] = IF k = 3 THEN End ELSE Dot BY <2>1, <2>6, <2>7
  <2> QED BY <1>2, <2>3, <2>4, <2>7, <2>8, <2>9
<1> QED BY <1>1, <1>2 DEF InBytes

LEMMA AgreesInit ==
  ASSUME Init, NEW l \in Seq(Nums), NEW r \in Seq(Nums), NEW o \in Seq(Nums), NEW b \in {-1, 0},
         Rightful(l, b, r, o)
  PROVE  Agrees(l, b, r, o)
<1>1. PICK t : text = <<t>> BY DEF Init
<1>2. Len(text) = 1 /\ i = 0 /\ brk < 0 /\ bytes = <<>> /\ Len(bytes) = 0
  BY <1>1, EmptySeq DEF Init
<1>3. CASE family = "v6"
  <2>1. phase = "start" BY <1>3 DEF Init
  <2> QED BY <1>2, <1>3, <2>1 DEF Agrees, Follows
<1>4. CASE family = "v4"
  <2>1. phase = "bytes" BY <1>4 DEF Init
  <2>2. l = <<>> /\ b < 0 /\ Len(o) = 4 BY <1>4 DEF Rightful
  <2>3. BytesAt(l, b, r) = 0 /\ o # <<>>
    <3>1. Len(<<>>) = 0 BY EmptySeq
    <3> QED BY <2>2, <3>1, SMTT(40) DEF BytesAt
  <2>4. InBytes(l, b, r, o, Ending(l, b, r, o)) BY <1>2, <2>3 DEF InBytes
  <2> QED BY <2>1, <2>4 DEF Agrees, Follows
<1> QED BY <1>3, <1>4 DEF Init

(* What is known while the text of an address is read. *)
LEMMA Reading ==
  ASSUME ParseInv, NEW l \in Seq(Nums), NEW r \in Seq(Nums), NEW o \in Seq(Nums),
         NEW b \in {-1, 0}, Rightful(l, b, r, o), NEW X, X = Ending(l, b, r, o)
  PROVE  /\ Len(X) \in Nat /\ Laid(l, b, r, o, X)
         /\ text \in Seq(Tokens) /\ Len(text) \in Nat
         /\ i \in 0..7 /\ brk \in -1..7
         /\ family = "v6" => (l = <<>> => ~(b < 0))
         /\ phase # "failed" =>
              bytes \in Seq({Value(x, 10) : x \in Nums}) /\ Len(bytes) \in Nat
<1>1. X \in Seq(Tokens) /\ Laid(l, b, r, o, X) BY BodyLaid
<1>2. text \in Seq(Tokens) /\ i \in 0..7 /\ brk \in -1..7 BY DEF ParseInv, Typed
<1>3. Len(X) \in Nat /\ Len(text) \in Nat BY <1>1, <1>2, LenProperties
<1>4. ASSUME family = "v6", l = <<>>, b < 0 PROVE FALSE
  <2>1. Len(l) = 0 /\ Len(r) = 0 BY <1>4, EmptySeq DEF Rightful
  <2>2. Room(l, r, o) = 8 BY <1>4 DEF Rightful
  <2> QED BY <2>1, <2>2 DEF Room
<1>5. ASSUME phase # "failed"
      PROVE  bytes \in Seq({Value(x, 10) : x \in Nums}) /\ Len(bytes) \in Nat
  <2>1. PICK p \in Seq(Nums) : bytes = Values(p, 10) BY <1>5 DEF ParseInv, HasRead, Kept
  <2>2. bytes \in Seq({Value(x, 10) : x \in Nums}) BY <2>1, ValuesTyped
  <2> QED BY <2>2, LenProperties
<1> QED BY <1>1, <1>2, <1>3, <1>4, <1>5

LEMMA StartAgrees ==
  ASSUME ParseInv, Start,
         NEW l \in Seq(Nums), NEW r \in Seq(Nums), NEW o \in Seq(Nums), NEW b \in {-1, 0},
         Rightful(l, b, r, o), NEW X, X = Ending(l, b, r, o),
         Precedes(text, X) => Follows(l, b, r, o, X), Precedes(text', X)
  PROVE  Follows(l, b, r, o, X)'
<1>1. /\ Len(X) \in Nat /\ Laid(l, b, r, o, X) /\ text \in Seq(Tokens) /\ Len(text) \in Nat
      /\ family = "v6" => (l = <<>> => ~(b < 0))
  BY Reading
<1>2. phase = "start" /\ UNCHANGED <<family, i, brk, ip, bytes>> BY DEF Start
<1>3. l # <<>> => Len(l) > 0 /\ X[1] # Colon
  <2> SUFFICES ASSUME l # <<>> PROVE Len(l) > 0 /\ X[1] # Colon OBVIOUS
  <2>1. Len(l) > 0 /\ 1 \in 1..Len(l) BY EmptySeq
  <2>2. X[0 + 2 * 1 - 1] = l[1] /\ 0 + 2 * 1 - 1 = 1 BY <1>1, <2>1 DEF Laid, Spaced
  <2>3. l[1] \in Nums BY <2>1, ElementOfSeq
  <2> QED BY <2>1, <2>2, <2>3, TokensAre
<1>4. CASE s0 = Colon
  <2>1. PICK t \in Tokens : text' = Append(text, t)
                            /\ phase' = IF t = Colon THEN "groups" ELSE "failed"
    BY <1>4, TokensAre DEF Start
  <2>2. Precedes(text, X) /\ Len(text') = Len(text) + 1 /\ X[Len(text) + 1] = t
    BY <1>1, <2>1, OneRead
  <2>3. family = "v6" /\ Len(text) = 1 /\ i = 0 /\ brk < 0 /\ bytes = <<>>
    BY <1>2, <2>2 DEF Follows
  <2>4. X[1] = Colon BY <1>4, <2>2, <2>3, LastRead
  <2>5. l = <<>> /\ ~(b < 0) BY <1>1, <1>3, <2>3, <2>4
  <2>6. GapAt(l) = 2 /\ X[GapAt(l)] = Colon /\ Len(l) = 0
    BY <1>1, <2>5, EmptySeq DEF GapAt, Laid
  <2>7. t = Colon /\ Len(text') = 2 BY <2>2, <2>3, <2>6
  <2>8. InGroups(l, b, r, o, Len(text'), i, brk) BY <2>3, <2>5, <2>6, <2>7 DEF InGroups
  <2> QED BY <1>2, <2>1, <2>3, <2>7, <2>8 DEF Follows
<1>5. CASE s0 # Colon
  <2>1. phase' = "groups" /\ text' = text BY <1>5 DEF Start
  <2>2. family = "v6" /\ Len(text) = 1 /\ i = 0 /\ brk < 0 /\ bytes = <<>>
    BY <1>2, <2>1 DEF Follows
  <2>3. X[1] # Colon BY <1>5, <2>1, <2>2, LastRead
  <2>4. l # <<>> BY <1>1, <2>2, <2>3 DEF Laid
  <2>5. InGroups(l, b, r, o, Len(text'), i, brk) BY <1>3, <2>1, <2>2, <2>4 DEF InGroups
  <2> QED BY <1>2, <2>1, <2>2, <2>5 DEF Follows
<1> QED BY <1>4, <1>5

(* A gap and nothing more than eight groups. *)
LEMMA GapRoom ==
  ASSUME NEW l \in Seq(Nums), NEW r \in Seq(Nums), NEW o \in Seq(Nums), NEW b \in {-1, 0},
         ~(b < 0), family = "v6", Rightful(l, b, r, o)
  PROVE  /\ Len(l) \in Nat /\ Len(r) \in Nat /\ Len(l) + Len(r) < 8
         /\ r # <<>> => Len(r) >= 1
         /\ o # <<>> => Len(l) + Len(r) < 6
<1>1. PICK a \in Nat, c \in Nat : a = Len(l) /\ c = Len(r) BY LenProperties
<1>2. Room(l, r, o) < 8 BY DEF Rightful
<1>3. a + c + (IF o = <<>> THEN 0 ELSE 2) < 8 BY <1>1, <1>2 DEF Room
<1>4. a + c < 8 /\ (o # <<>> => a + c < 6) BY <1>3
<1>5. r # <<>> => c # 0 BY <1>1, EmptySeq
<1> QED BY <1>1, <1>4, <1>5

LEMMA GapAgrees ==
  ASSUME ParseInv, Gap,
         NEW l \in Seq(Nums), NEW r \in Seq(Nums), NEW o \in Seq(Nums), NEW b \in {-1, 0},
         Rightful(l, b, r, o), NEW X, X = Ending(l, b, r, o),
         Precedes(text, X) => Follows(l, b, r, o, X), Precedes(text', X)
  PROVE  Follows(l, b, r, o, X)'
<1>1. /\ Len(X) \in Nat /\ Laid(l, b, r, o, X) /\ text \in Seq(Tokens) /\ Len(text) \in Nat
      /\ i \in 0..7 /\ brk \in -1..7
  BY Reading
<1>2. PICK t \in Tokens :
        /\ text' = Append(text, t)
        /\ phase' = IF t = End THEN "done" ELSE IF i = 7 THEN "failed" ELSE "groups"
        /\ i' = IF t = End \/ i = 7 THEN i ELSE i + 1
  BY TokensAre DEF Gap
<1>3. phase = "groups" /\ s0 = Colon /\ brk < 0 /\ brk' = i /\ UNCHANGED <<family, bytes>>
  BY DEF Gap
<1>4. PICK n \in Nat : n = Len(text) BY <1>1
<1>5. Precedes(text, X) /\ Len(text') = n + 1 /\ X[n + 1] = t BY <1>1, <1>2, <1>4, OneRead
<1>6. family = "v6" /\ bytes = <<>> /\ InGroups(l, b, r, o, n, i, brk)
  BY <1>3, <1>4, <1>5 DEF Follows
<1>7. n >= 1 /\ GroupNext(l, b, r, o, X, n, i, brk) BY <1>1, <1>6, GroupAhead, ZenonT(40)
<1>8. s0 = X[n] BY <1>4, <1>5, <1>7, LastRead
<1>9. n = GapAt(l) /\ i = Len(l) /\ ~(b < 0) BY <1>3, <1>7, <1>8, TokensAre DEF GroupNext
<1>10. CASE t = End
  <2>1. phase' = "done" BY <1>2, <1>10
  <2> QED BY <2>1 DEF Follows
<1>11. CASE t # End
  <2>1. r # <<>> \/ o # <<>> BY <1>1, <1>5, <1>9, <1>11 DEF Laid
  <2>2. i # 7 /\ (1 <= Len(r) \/ (o # <<>> /\ 1 = Len(r) + 1))
    <3>1. /\ Len(l) \in Nat /\ Len(r) \in Nat /\ Len(l) + Len(r) < 8
          /\ r # <<>> => Len(r) >= 1
          /\ o # <<>> => Len(l) + Len(r) < 6
      BY <1>6, <1>9, GapRoom
    <3>2. PICK a \in Nat, c \in Nat : a = Len(l) /\ c = Len(r) BY <3>1
    <3>3. CASE r # <<>>
      <4>1. a + c < 8 /\ c >= 1 BY <3>1, <3>2, <3>3
      <4>2. a # 7 BY <4>1
      <4> QED BY <1>9, <3>2, <4>1, <4>2
    <3>4. CASE r = <<>>
      <4>1. a + c < 6 /\ o # <<>> BY <2>1, <3>1, <3>2, <3>4
      <4>2. a # 7 BY <4>1
      <4>3. c = 0 BY <3>2, <3>4, EmptySeq
      <4> QED BY <1>9, <3>2, <4>1, <4>2, <4>3
    <3> QED BY <3>3, <3>4
  <2>3. phase' = "groups" /\ i' = i + 1 BY <1>2, <1>11, <2>2
  <2>4. /\ ~(brk' < 0) /\ Len(text') = GapAt(l) + 2 * (i' - Len(l)) - 1 /\ i' > Len(l)
        /\ i' - Len(l) = 1
    <3>1. i' = i + 1 /\ i \in Int /\ n + 1 = n + 2 * 1 - 1 /\ i + 1 - i = 1 /\ i + 1 > i /\ ~(i < 0)
      BY <1>1, <2>3
    <3>2. i' - Len(l) = 1 /\ i' > Len(l) BY <1>9, <3>1
    <3> QED BY <1>3, <1>5, <1>9, <3>1, <3>2
  <2>5. InGroups(l, b, r, o, Len(text'), i', brk') BY <1>9, <2>2, <2>4 DEF InGroups
  <2> QED BY <1>3, <1>6, <2>3, <2>5 DEF Follows
<1> QED BY <1>10, <1>11

LEMMA GroupAgrees ==
  ASSUME ParseInv, Group,
         NEW l \in Seq(Nums), NEW r \in Seq(Nums), NEW o \in Seq(Nums), NEW b \in {-1, 0},
         Rightful(l, b, r, o), NEW X, X = Ending(l, b, r, o),
         Precedes(text, X) => Follows(l, b, r, o, X), Precedes(text', X)
  PROVE  Follows(l, b, r, o, X)'
<1>1. /\ Len(X) \in Nat /\ Laid(l, b, r, o, X) /\ text \in Seq(Tokens) /\ Len(text) \in Nat
      /\ i \in 0..7 /\ brk \in -1..7 /\ Colon \in Tokens
  BY Reading, TokensAre, ZenonT(40)
<1>2. phase = "groups" /\ IsGroup(s0) /\ UNCHANGED <<family, brk, bytes>> BY DEF Group
<1>3. PICK n \in Nat : n = Len(text) BY <1>1
<1>4. ASSUME Precedes(text, X)
      PROVE  /\ family = "v6" /\ bytes = <<>> /\ n >= 1
             /\ \/ X[n + 1] = Colon /\ InGroups(l, b, r, o, n + 2, i + 1, brk)
                \/ X[n + 1] = End
                \/ X[n + 1] = Dot /\ o # <<>> /\ n = BytesAt(l, b, r) + 1
  <2>1. family = "v6" /\ bytes = <<>> /\ InGroups(l, b, r, o, n, i, brk)
    BY <1>2, <1>3, <1>4 DEF Follows
  <2>2. n >= 1 /\ GroupNext(l, b, r, o, X, n, i, brk) BY <1>1, <2>1, GroupAhead, ZenonT(40)
  <2>3. s0 = X[n] BY <1>3, <1>4, <2>2, LastRead
  <2>4. X[n] # Colon BY <1>2, <2>3, TokensAre DEF IsGroup
  <2> QED BY <2>1, <2>2, <2>4 DEF GroupNext
<1>5. CASE phase' = "done" BY <1>5 DEF Follows
<1>6. ASSUME NEW t \in Tokens, text' = text \o <<Colon, t>>, i' = i + 1, phase' = phase
      PROVE  Follows(l, b, r, o, X)'
  <2>1. Precedes(text, X) /\ Len(text') = n + 2 /\ X[n + 1] = Colon
    BY <1>1, <1>3, <1>6, TwoRead
  <2>2. family = "v6" /\ bytes = <<>> /\ InGroups(l, b, r, o, n + 2, i + 1, brk)
    BY <1>4, <2>1, TokensAre
  <2>3. InGroups(l, b, r, o, Len(text'), i', brk') BY <1>2, <1>6, <2>1, <2>2
  <2> QED BY <1>2, <1>6, <2>2, <2>3 DEF Follows
<1>7. CASE phase' = "bytes" /\ text' = text
  <2>1. Precedes(text, X) BY <1>7
  <2>2. family = "v6" /\ bytes = <<>> /\ (X[n + 1] # Dot \/ (o # <<>> /\ n = BytesAt(l, b, r) + 1))
    BY <1>4, <2>1, TokensAre
  <2>3. InBytes(l, b, r, o, X)'
    <3>1. CASE X[n + 1] # Dot BY <1>2, <1>3, <1>7, <2>2, <3>1 DEF InBytes
    <3>2. CASE o # <<>> /\ n = BytesAt(l, b, r) + 1
      <4>1. Len(bytes) = 0 BY <2>2, EmptySeq
      <4>2. BytesAt(l, b, r) \in Nat BY BytesAtTyped
      <4>3. n = BytesAt(l, b, r) + 2 * 0 + 1 BY <3>2, <4>2
      <4> QED BY <1>2, <1>3, <1>7, <3>2, <4>1, <4>3 DEF InBytes
    <3> QED BY <2>2, <3>1, <3>2
  <2> QED BY <1>7, <2>3 DEF Follows
<1> QED BY <1>2, <1>5, <1>6, <1>7, TokensAre DEF Group

LEMMA GroupNeverFails ==
  ASSUME ParseInv, GroupFails,
         NEW l \in Seq(Nums), NEW r \in Seq(Nums), NEW o \in Seq(Nums), NEW b \in {-1, 0},
         Rightful(l, b, r, o), NEW X, X = Ending(l, b, r, o),
         Precedes(text, X) => Follows(l, b, r, o, X), Precedes(text', X)
  PROVE  FALSE
<1>1. /\ Len(X) \in Nat /\ Laid(l, b, r, o, X) /\ text \in Seq(Tokens) /\ Len(text) \in Nat
      /\ i \in 0..7 /\ brk \in -1..7 /\ Symbols \subseteq Tokens
  BY Reading, TokensAre, ZenonT(40)
<1>2. PICK n \in Nat : n = Len(text) BY <1>1
<1>3. ASSUME Precedes(text, X) PROVE s0 = X[n] /\ GroupNext(l, b, r, o, X, n, i, brk)
  <2>1. family = "v6" /\ InGroups(l, b, r, o, n, i, brk)
    BY <1>2, <1>3 DEF Follows, GroupFails
  <2>2. n >= 1 /\ GroupNext(l, b, r, o, X, n, i, brk) BY <1>1, <2>1, GroupAhead, ZenonT(40)
  <2>3. s0 = X[n] BY <1>2, <1>3, <2>2, LastRead
  <2> QED BY <2>2, <2>3
<1>4. CASE ~IsGroup(s0) /\ ~(s0 = Colon /\ brk < 0) /\ text' = text
  BY <1>3, <1>4 DEF GroupNext
<1>5. ASSUME IsGroup(s0), NEW t \in Symbols, text' = Append(text, t),
             t = End => brk < 0 /\ i < 7, t = Colon => i = 7, t = Dot => NoDot
      PROVE  FALSE
  <2>1. t \in Tokens BY <1>1
  <2>2. Precedes(text, X) /\ X[n + 1] = t BY <1>1, <1>2, <1>5, <2>1, OneRead
  <2>3. s0 # Colon BY <1>5, TokensAre DEF IsGroup
  <2>4. s0 = X[n] /\ GroupNext(l, b, r, o, X, n, i, brk) BY <1>3, <2>2
  <2>5. \/ t = Colon /\ i < 7
        \/ t = End /\ (~(brk < 0) \/ i = 7)
        \/ t = Dot /\ i < 7 /\ (i = 6 \/ ~(brk < 0))
    BY <2>2, <2>3, <2>4 DEF GroupNext
  <2> QED BY <1>1, <1>5, <2>5 DEF NoDot
<1> QED BY <1>4, <1>5 DEF GroupFails

LEMMA ByteAgrees ==
  ASSUME ParseInv, Byte,
         NEW l \in Seq(Nums), NEW r \in Seq(Nums), NEW o \in Seq(Nums), NEW b \in {-1, 0},
         Rightful(l, b, r, o), NEW X, X = Ending(l, b, r, o),
         Precedes(text, X) => Follows(l, b, r, o, X), Precedes(text', X)
  PROVE  Follows(l, b, r, o, X)'
<1> DEFINE V == {Value(x, 10) : x \in Nums}
<1>1. /\ Len(X) \in Nat /\ Laid(l, b, r, o, X) /\ text \in Seq(Tokens) /\ Len(text) \in Nat
      /\ bytes \in Seq(V) /\ Len(bytes) \in Nat /\ Dot \in Tokens
  BY Reading, TokensAre, ZenonT(40) DEF Byte
<1>2. phase = "bytes" /\ bytes' = Append(bytes, Value(s0, 10)) /\ family' = family BY DEF Byte
<1>3. CASE phase' = "done" BY <1>3 DEF Follows
<1>4. ASSUME NEW t \in Tokens, text' = text \o <<Dot, t>>, phase' = phase
      PROVE  Follows(l, b, r, o, X)'
  <2>1. PICK n \in Nat : n = Len(text) BY <1>1
  <2>2. PICK k \in Nat : k = Len(bytes) BY <1>1
  <2>3. Precedes(text, X) /\ Len(text') = n + 2 /\ X[n + 1] = Dot BY <1>1, <1>4, <2>1, TwoRead
  <2>4. InBytes(l, b, r, o, X) BY <1>2, <2>3 DEF Follows
  <2>5. ByteNext(l, b, r, o, X, n, k) BY <1>1, <2>1, <2>2, <2>4, ByteAhead
  <2>6. /\ o # <<>> /\ k < 4 /\ n = BytesAt(l, b, r) + 2 * k + 1
        /\ n >= 1 /\ X[n] \in Nums /\ k # 3
    BY <2>3, <2>5, TokensAre DEF ByteNext
  <2>7. s0 = X[n] BY <2>1, <2>3, <2>6, LastRead
  <2>8. Value(s0, 10) \in V BY <2>6, <2>7
  <2> HIDE DEF V
  <2>9. Len(bytes') = k + 1 BY <1>1, <1>2, <2>2, <2>8, AppendProperties
  <2>10. PICK d \in Nat : d = BytesAt(l, b, r) BY BytesAtTyped
  <2>11. k + 1 < 4 /\ n + 2 = d + 2 * (k + 1) + 1
    <3>1. n = d + 2 * k + 1 /\ k < 4 /\ k # 3 BY <2>6, <2>10
    <3> HIDE <2>1, <2>2
    <3> QED BY <3>1
  <2>12. o # <<>> /\ Len(bytes') < 4 /\ Len(text') = BytesAt(l, b, r) + 2 * Len(bytes') + 1
    BY <2>3, <2>6, <2>9, <2>10, <2>11
  <2>13. InBytes(l, b, r, o, X)' BY <2>12 DEF InBytes
  <2> QED BY <1>2, <1>4, <2>13 DEF Follows
<1> QED BY <1>3, <1>4, TokensAre DEF Byte

LEMMA ByteNeverFails ==
  ASSUME ParseInv, ByteFails,
         NEW l \in Seq(Nums), NEW r \in Seq(Nums), NEW o \in Seq(Nums), NEW b \in {-1, 0},
         Rightful(l, b, r, o), NEW X, X = Ending(l, b, r, o),
         Precedes(text, X) => Follows(l, b, r, o, X), Precedes(text', X)
  PROVE  FALSE
<1>1. /\ Len(X) \in Nat /\ Laid(l, b, r, o, X) /\ text \in Seq(Tokens) /\ Len(text) \in Nat
      /\ Len(bytes) \in Nat /\ Symbols \subseteq Tokens /\ Dot \in Tokens
  BY Reading, TokensAre, ZenonT(40) DEF ByteFails
<1>2. PICK n \in Nat : n = Len(text) BY <1>1
<1>3. PICK k \in Nat : k = Len(bytes) BY <1>1
<1>4. ASSUME Precedes(text, X), ~(family = "v6" /\ bytes = <<>>) \/ X[n + 1] = Dot
      PROVE  s0 = X[n] /\ IsByte(X[n]) /\ X[n + 1] = IF k = 3 THEN End ELSE Dot
  <2>1. InBytes(l, b, r, o, X) BY <1>4 DEF Follows, ByteFails
  <2>2. ByteNext(l, b, r, o, X, n, k) BY <1>1, <1>2, <1>3, <2>1, ByteAhead
  <2>3. n >= 1 /\ IsByte(X[n]) /\ X[n + 1] = IF k = 3 THEN End ELSE Dot
    BY <1>4, <2>2 DEF ByteNext
  <2>4. s0 = X[n] BY <1>2, <1>4, <2>3, LastRead
  <2> QED BY <2>3, <2>4
<1>5. /\ family = "v6" /\ bytes = <<>> => Following = {Dot} /\ k = 0
      /\ ~(family = "v6" /\ bytes = <<>>) => Following = Symbols /\ Following # {Dot}
  <2>1. bytes = <<>> => k = 0 BY <1>3, EmptySeq
  <2> QED BY <2>1, TokensAre DEF Following
<1>6. CASE ~IsByte(s0) /\ text' = IF Following = {Dot} THEN Append(text, Dot) ELSE text
  <2>1. CASE Following = {Dot}
    <3>1. Precedes(text, X) /\ X[n + 1] = Dot BY <1>1, <1>2, <1>6, <2>1, OneRead
    <3> QED BY <1>4, <1>6, <3>1
  <2>2. CASE Following # {Dot}
    <3>1. Precedes(text, X) BY <1>6, <2>2
    <3> QED BY <1>4, <1>5, <1>6, <2>2, <3>1
  <2> QED BY <2>1, <2>2
<1>7. ASSUME IsByte(s0), NEW t \in Following \ {IF Len(bytes) = 3 THEN End ELSE Dot},
             text' = Append(text, t)
      PROVE  FALSE
  <2>1. t \in Tokens BY <1>1, <1>5
  <2>2. Precedes(text, X) /\ X[n + 1] = t BY <1>1, <1>2, <1>7, <2>1, OneRead
  <2>3. ~(family = "v6" /\ bytes = <<>>) BY <1>3, <1>5
  <2> QED BY <1>3, <1>4, <2>2, <2>3
<1> QED BY <1>6, <1>7 DEF ByteFails

LEMMA RefusesInit == Init => Refuses
BY AgreesInit DEF Refuses

LEMMA NextRefuses == ParseInv /\ Refuses /\ [Next]_vars => Refuses'
<1> SUFFICES ASSUME ParseInv, Refuses, [Next]_vars,
                    NEW l \in Seq(Nums), NEW r \in Seq(Nums), NEW o \in Seq(Nums),
                    NEW b \in {-1, 0}, Rightful(l, b, r, o)'
             PROVE  Agrees(l, b, r, o)'
  BY DEF Refuses
<1> DEFINE X == Ending(l, b, r, o)
<1>1. family' = family
  BY DEF Next, Start, Gap, Group, GroupFails, Byte, ByteFails, vars
<1>2. Rightful(l, b, r, o) BY <1>1 DEF Rightful
<1>3. Precedes(text, X) => Follows(l, b, r, o, X) BY <1>2 DEF Refuses, Agrees
<1>4. X' = X BY DEF Ending, Body, Whole, Groups, Open, Lead, Alt
<1> HIDE DEF X
<1> SUFFICES ASSUME Precedes(text', X) PROVE Follows(l, b, r, o, X)'
  BY <1>4 DEF Agrees, X
<1>5. X = Ending(l, b, r, o) BY DEF X
<1>6. CASE UNCHANGED vars BY <1>3, <1>6 DEF vars, Follows, InBytes, Precedes
<1>7. CASE Start BY <1>2, <1>3, <1>5, <1>7, StartAgrees
<1>8. CASE Gap BY <1>2, <1>3, <1>5, <1>8, GapAgrees
<1>9. CASE Group BY <1>2, <1>3, <1>5, <1>9, GroupAgrees
<1>10. CASE Byte BY <1>2, <1>3, <1>5, <1>10, ByteAgrees
<1>11. CASE GroupFails BY <1>2, <1>3, <1>5, <1>11, GroupNeverFails
<1>12. CASE ByteFails BY <1>2, <1>3, <1>5, <1>12, ByteNeverFails
<1> QED BY <1>6, <1>7, <1>8, <1>9, <1>10, <1>11, <1>12 DEF Next

-----------------------------------------------------------------------------
(* A text that denotes anything is the text of an address.                 *)
Addressed(w) ==
  \E l \in Seq(Nums), r \in Seq(Nums), o \in Seq(Nums), b \in {-1, 0} :
    Rightful(l, b, r, o) /\ w = Body(l, b, r, o)

LEMMA Four ==
  ASSUME NEW w \in Seq(Tokens), family = "v4", Denoted4(w) # {}
  PROVE  Addressed(w)
<1> DEFINE ns == NumeralsOf(w)
<1>1. Len(ns) = 4 /\ (\A k \in 1..4 : IsByte(ns[k])) /\ w = Joined(Singles(ns), Dot)
  BY DEF Denoted4
<1>2. ns \in Seq(Nums)
  <2>1. Tokens \ Symbols = Nums BY TokensAre DEF Tokens
  <2> QED BY <2>1, NumeralsTyped
<1> HIDE DEF ns
<1>3. \A k \in 1..Len(<<>>) : FALSE BY EmptySeq
<1>4. Rightful(<<>>, -1, <<>>, ns) BY <1>1, <1>3 DEF Rightful
<1>5. w = Body(<<>>, -1, <<>>, ns)
  <2>1. ns # <<>>
    <3>1. Len(<<>>) = 0 BY EmptySeq
    <3> QED BY <1>1, <3>1
  <2>2. ns \in Seq(Tokens) /\ Dot \in Tokens BY <1>2, TokensAre, SeqMonotonic
  <2>3. Alt(ns, Dot) \in Seq(Tokens) BY <2>2, AltIs
  <2>4. Groups(<<>>, -1, <<>>) = <<>> BY DEF Groups, Lead
  <2>5. <<>> \o Alt(ns, Dot) = Alt(ns, Dot) BY <2>3, ConcatEmptySeq
  <2>6. Body(<<>>, -1, <<>>, ns) = Alt(ns, Dot) BY <2>1, <2>4, <2>5 DEF Body
  <2> QED BY <1>1, <2>6 DEF Alt
<1>6. <<>> \in Seq(Nums) BY EmptySeq
<1> QED BY <1>2, <1>4, <1>5, <1>6 DEF Addressed

LEMMA Six ==
  ASSUME NEW w \in Seq(Tokens), family = "v6", Denoted6(w) # {}
  PROVE  Addressed(w)
<1> DEFINE ns == NumeralsOf(w)
           h == IF Dot \in ToSet(w) THEN Len(ns) - 4 ELSE Len(ns)
           hs == SubSeq(ns, 1, h)
           bs == SubSeq(ns, h + 1, Len(ns))
           items == Items(hs, bs)
           worth == Worth(hs, bs)
           m == Len(worth)
           At(p) == Joined(SubSeq(items, 1, p), Colon) \o <<Colon, Colon>>
                      \o Joined(SubSeq(items, p + 1, Len(items)), Colon)
           gaps == {p \in 0..h : m < 8 /\ w = At(p)}
           With(p) == SubSeq(worth, 1, p) \o Zeros(8 - m) \o SubSeq(worth, p + 1, m)
<1>1. Denoted6(w)
        = IF h < 0 \/ (\E k \in 1..Len(hs) : ~IsGroup(hs[k])) \/ (\E k \in 1..Len(bs) : ~IsByte(bs[k]))
          THEN {}
          ELSE {With(p) : p \in gaps} \cup IF m = 8 /\ w = Joined(items, Colon) THEN {worth} ELSE {}
  BY DEF Denoted6
<1> HIDE DEF With
<1>2. /\ ~(h < 0)
      /\ \A k \in 1..Len(hs) : IsGroup(hs[k])
      /\ \A k \in 1..Len(bs) : IsByte(bs[k])
      /\ (\E p \in 0..h : m < 8 /\ w = At(p)) \/ (m = 8 /\ w = Joined(items, Colon))
  <2> HIDE DEF h, hs, bs, m, At, worth
  <2> QED BY <1>1
<1>3. ns \in Seq(Nums)
  <2>1. Tokens \ Symbols = Nums BY TokensAre DEF Tokens
  <2> QED BY <2>1, NumeralsTyped
<1> HIDE DEF ns
<1>4. Len(ns) \in Nat BY <1>3, LenProperties
<1>5. h \in 0..Len(ns) /\ Len(ns) - h \in {0, 4} BY <1>2, <1>4
<1> HIDE DEF h
<1>6. hs \in Seq(Nums) /\ bs \in Seq(Nums) /\ Len(hs) = h /\ Len(bs) \in {0, 4}
  BY <1>3, <1>5, CutAt
<1> HIDE DEF hs, bs
<1>7. m = Len(hs) + IF bs = <<>> THEN 0 ELSE 2 BY <1>6, WorthIs
<1>8. Len(hs) \in Nat BY <1>6, LenProperties
<1> HIDE DEF m
<1>9. CASE m = 8 /\ w = Joined(items, Colon)
  <2>1. Len(<<>>) = 0 /\ <<>> \in Seq(Nums) BY EmptySeq
  <2>2. w = Body(hs, -1, <<>>, bs)
    <3>1. -1 < 0 OBVIOUS
    <3>2. Body(hs, -1, <<>>, bs) = Joined(Items(hs, bs), Colon) BY <1>6, <3>1, BodyWhole
    <3> QED BY <1>9, <3>2
  <2>3. Room(hs, <<>>, bs) = 8 BY <1>7, <1>8, <1>9, <2>1 DEF Room
  <2>4. Rightful(hs, -1, <<>>, bs) BY <1>2, <1>6, <2>1, <2>3 DEF Rightful
  <2> QED BY <1>6, <2>1, <2>2, <2>4 DEF Addressed
<1>10. ASSUME NEW p \in 0..h, m < 8, w = At(p) PROVE Addressed(w)
  <2> DEFINE s == SubSeq(hs, 1, p)
             t == SubSeq(hs, p + 1, Len(hs))
  <2>1. /\ s \in Seq(Nums) /\ Len(s) = p /\ t \in Seq(Nums) /\ Len(t) = Len(hs) - p
        /\ s \o t = hs
    BY <1>6, CutAt, ZenonT(40)
  <2> HIDE DEF s, t
  <2>2. At(p) = Open(s) \o Joined(Items(t, bs), Colon)
    <3>1. items = Items(s \o t, bs) BY <2>1
    <3> QED BY <1>6, <2>1, <3>1, OpenItems, ZenonT(40)
  <2> HIDE DEF At
  <2>3. w = Body(s, 0, t, bs)
    <3>1. PICK g \in {-1, 0} : g = 0 OBVIOUS
    <3>2. ~(g < 0) BY <3>1
    <3>3. s \in Seq(Nums) /\ t \in Seq(Nums) /\ bs \in Seq(Nums) /\ Len(bs) \in {0, 4}
      BY <1>6, <2>1
    <3>4. Body(s, g, t, bs) = Open(s) \o Joined(Items(t, bs), Colon)
      BY <3>2, <3>3, BodyOpen, ZenonT(90)
    <3> QED BY <1>10, <2>2, <3>1, <3>4
  <2>4. Room(s, t, bs) < 8
    <3>1. Len(s) + Len(t) = Len(hs) BY <1>6, <1>8, <2>1
    <3> QED BY <1>7, <1>10, <3>1 DEF Room
  <2>5. /\ \A k \in 1..Len(s) : IsGroup(s[k])
        /\ \A k \in 1..Len(t) : IsGroup(t[k])
    <3>1. /\ Len(s) \in Nat /\ Len(t) \in Nat /\ Len(hs) = Len(s) + Len(t)
          /\ \A k \in 1..Len(s) + Len(t) : hs[k] = IF k <= Len(s) THEN s[k] ELSE t[k - Len(s)]
      BY <2>1, ConcatProperties, LenProperties
    <3>2. ASSUME NEW k \in 1..Len(s) PROVE IsGroup(s[k])
      <4>1. k \in 1..Len(hs) /\ hs[k] = s[k] BY <3>1
      <4> QED BY <1>2, <4>1
    <3>3. ASSUME NEW k \in 1..Len(t) PROVE IsGroup(t[k])
      <4>1. /\ Len(s) + k \in 1..Len(s) + Len(t) /\ ~(Len(s) + k <= Len(s))
            /\ Len(s) + k - Len(s) = k
        BY <3>1
      <4>2. Len(s) + k \in 1..Len(hs) /\ hs[Len(s) + k] = t[k] BY <3>1, <4>1
      <4> QED BY <1>2, <4>2
    <3> QED BY <3>2, <3>3
  <2>6. Rightful(s, 0, t, bs) BY <1>2, <1>6, <2>4, <2>5 DEF Rightful
  <2> QED BY <1>6, <2>1, <2>3, <2>6 DEF Addressed
<1> QED BY <1>2, <1>9, <1>10

LEMMA DenotesAddressed ==
  ASSUME NEW w \in Seq(Tokens), family \in {"v4", "v6"}, Denoted(w) # {}
  PROVE  Addressed(w)
BY Four, Six DEF Denoted

LEMMA CompletionsTyped == Completions \subseteq Seq(Tokens)
<1> DEFINE one == <<1>>
<1>1. one \in Tokens /\ Colon \in Tokens /\ Dot \in Tokens BY TokensAre DEF Tokens, Nums
<1> HIDE DEF one
<1>2. ASSUME NEW x \in Seq(Tokens), NEW n \in Nat PROVE Repeated(x, n) \in Seq(Tokens)
  <2>1. [k \in 1..n |-> x] \in Seq(Seq(Tokens)) BY <1>2
  <2> QED BY <2>1, FlattenTyped DEF Repeated
<1>3. /\ <<>> \in Seq(Tokens) /\ <<one>> \in Seq(Tokens) /\ <<Colon>> \in Seq(Tokens)
      /\ <<Colon, one>> \in Seq(Tokens) /\ <<Dot, one>> \in Seq(Tokens)
  BY <1>1
<1> SUFFICES ASSUME NEW c \in Completions PROVE c \in Seq(Tokens) OBVIOUS
<1> DEFINE First == {<<>>, <<one>>, <<Colon>>}
           Rest == {Repeated(<<Colon, one>>, n) : n \in 0..7}
                     \cup {Repeated(<<Dot, one>>, n) : n \in 0..3}
<1>4. Completions = {x \o y : x \in First, y \in Rest}
  BY DEF Completions, one
<1> HIDE DEF First, Rest
<1>5. PICK x \in First, y \in Rest : c = x \o y BY <1>4
<1>6. x \in Seq(Tokens) BY <1>3 DEF First
<1>7. y \in Seq(Tokens)
  <2>1. CASE \E n \in 0..7 : y = Repeated(<<Colon, one>>, n)
    <3>1. PICK n \in 0..7 : y = Repeated(<<Colon, one>>, n) BY <2>1
    <3>2. PICK p \in Seq(Tokens) : p = <<Colon, one>> BY <1>3
    <3>3. n \in Nat /\ y = Repeated(p, n) BY <3>1, <3>2
    <3> QED BY <1>2, <3>3
  <2>2. CASE \E n \in 0..3 : y = Repeated(<<Dot, one>>, n)
    <3>1. PICK n \in 0..3 : y = Repeated(<<Dot, one>>, n) BY <2>2
    <3>2. PICK p \in Seq(Tokens) : p = <<Dot, one>> BY <1>3
    <3>3. n \in Nat /\ y = Repeated(p, n) BY <3>1, <3>2
    <3> QED BY <1>2, <3>3
  <2> QED BY <2>1, <2>2 DEF Rest
<1> QED BY <1>6, <1>7, <1>5, ConcatProperties

(* Where inet_pton has given up, no text of an address begins like this. *)
LEMMA NoneBegins ==
  ASSUME ParseInv, Refuses, phase = "failed", NEW v \in Seq(Tokens),
         Precedes(text, Append(v, End))
  PROVE  Denoted(v) = {}
<1> SUFFICES ASSUME Denoted(v) # {} PROVE FALSE OBVIOUS
<1>1. family \in {"v4", "v6"} BY DEF ParseInv, Typed
<1>2. PICK l \in Seq(Nums), r \in Seq(Nums), o \in Seq(Nums), b \in {-1, 0} :
        Rightful(l, b, r, o) /\ v = Body(l, b, r, o)
  BY <1>1, DenotesAddressed DEF Addressed
<1>3. Agrees(l, b, r, o) BY <1>2 DEF Refuses
<1>4. Precedes(text, Ending(l, b, r, o)) BY <1>2 DEF Ending
<1> QED BY <1>3, <1>4 DEF Agrees, Follows

LEMMA FailedRightly == ParseInv /\ Refuses => GivesUpRightly
<1> SUFFICES ASSUME ParseInv, Refuses, phase = "failed"
             PROVE  IF s0 = End THEN Denoted(Front(text)) = {}
                    ELSE \A c \in Completions : Denoted(text \o c) = {}
  BY DEF GivesUpRightly
<1>1. text \in Seq(Tokens) /\ Len(text) \in Nat /\ End \in Tokens
  BY LenProperties, TokensAre DEF ParseInv, Typed
<1>2. ASSUME NEW v \in Seq(Tokens), Continues(v, text), Len(text) <= Len(v)
      PROVE  Precedes(text, Append(v, End))
  <2>1. /\ Len(v) \in Nat /\ Len(Append(v, End)) = Len(v) + 1
        /\ \A k \in 1..Len(v) : Append(v, End)[k] = v[k]
    BY <1>1, AppendProperties, LenProperties
  <2>2. \A k \in 1..Len(text) : k \in 1..Len(v) BY <1>1, <1>2, <2>1
  <2>3. \A k \in 1..Len(text) : text[k] = Append(v, End)[k] BY <1>2, <2>1, <2>2 DEF Continues
  <2>4. Len(text) <= Len(Append(v, End)) BY <1>1, <1>2, <2>1
  <2> QED BY <2>3, <2>4 DEF Precedes
<1>3. CASE s0 = End
  <2>1. CASE text = <<>>
    <3>1. Len(text) = 0 BY <2>1, EmptySeq
    <3>2. Front(text) \in Seq(Tokens)
      <4>1. \A k \in 1..Len(text) - 1 : text[k] \in Tokens BY <3>1
      <4> QED BY <3>1, <4>1, SubSeqProperties DEF Front
    <3>3. Len(text) <= Len(Front(text)) /\ Continues(Front(text), text)
      BY <3>1, <3>2, LenProperties DEF Continues
    <3> QED BY <1>2, <1>3, <3>2, <3>3, NoneBegins
  <2>2. CASE text # <<>>
    <3>1. PICK v \in Seq(Tokens), x \in Tokens : text = Append(v, x)
      BY <1>1, <2>2, SequenceEmptyOrAppend
    <3>2. Front(text) = v /\ x = End BY <1>3, <3>1, FrontOfAppend, LastOfAppend DEF s0
    <3>3. Precedes(text, Append(v, End)) BY <1>1, <3>1, <3>2 DEF Precedes
    <3> QED BY <1>3, <3>2, <3>3, NoneBegins
  <2> QED BY <1>3, <2>1, <2>2
<1>4. CASE s0 # End
  <2> SUFFICES ASSUME NEW c \in Completions PROVE Denoted(text \o c) = {} BY <1>4
  <2>1. c \in Seq(Tokens) BY CompletionsTyped
  <2>2. text \o c \in Seq(Tokens) /\ Len(text \o c) = Len(text) + Len(c) /\ Len(c) \in Nat
    BY <1>1, <2>1, ConcatProperties, LenProperties
  <2>3. Continues(text \o c, text) BY <1>1, <2>1, ConcatAt
  <2>4. Len(text) <= Len(text \o c) BY <1>1, <2>2
  <2> QED BY <1>2, <2>2, <2>3, <2>4, NoneBegins
<1> QED BY <1>3, <1>4

LEMMA AlwaysRefuses == Spec => [](ParseInv /\ Refuses)
<1>1. Spec => []Refuses
  BY AlwaysParses, RefusesInit, NextRefuses, PTL DEF Spec
<1> QED BY <1>1, AlwaysParses, PTL

(* For any numerals, ports and ways to write them: where inet_pton gives   *)
(* up the text denotes nothing, and none of the ways to go on would have   *)
(* been right (inet_pton.h:38-84).                                         *)
THEOREM RefusalsAreRight == Spec => []GivesUpRightly
BY AlwaysRefuses, FailedRightly, PTL

(* For any way at all to go on: when inet_pton has given up, no text that  *)
(* begins with what it read, whatever tokens follow, denotes an address    *)
(* (inet_pton.h:38-84).                                                    *)
THEOREM NoAddressRefused ==
  Spec => [](phase = "failed" =>
               \A v \in Seq(Tokens) : Precedes(text, Append(v, End)) => Denoted(v) = {})
<1>1. ParseInv /\ Refuses =>
        (phase = "failed" =>
           \A v \in Seq(Tokens) : Precedes(text, Append(v, End)) => Denoted(v) = {})
  BY NoneBegins, SMTT(40)
<1> QED BY <1>1, AlwaysRefuses, PTL

-----------------------------------------------------------------------------
(* Ports.                                                                  *)

(* A port is two bytes. *)
LEMMA BytesOfPort ==
  ASSUME NEW x \in Nat, x \div 256 < 256
  PROVE  \E h \in 0..255, l \in 0..255 : x = 256 * h + l
<1>1. x = 256 * (x \div 256) + (x % 256) BY SMT
<1>2. x % 256 \in 0..255 BY SMT
<1>3. x \div 256 \in 0..255 BY SMTT(40)
<1>4. PICK h \in 0..255 : h = x \div 256 BY <1>3
<1>5. PICK l \in 0..255 : l = x % 256 BY <1>2
<1>6. x = 256 * h + l BY <1>1, <1>4, <1>5
<1> QED BY <1>6

(* htons exchanges the two bytes. *)
LEMMA SwapIs ==
  ASSUME NEW h \in 0..255, NEW l \in 0..255
  PROVE  Bswap16(256 * h + l) = 256 * l + h
<1>1. h \in Int /\ l \in Int /\ 0 <= h /\ h <= 255 /\ 0 <= l /\ l <= 255 OBVIOUS
<1>2. (256 * h + l) * 256 = 65536 * h + 256 * l BY <1>1
<1>3. (65536 * h + 256 * l) % 65536 = 256 * l BY <1>1
<1>4. (256 * h + l) \div 256 = h BY <1>1
<1> QED BY <1>2, <1>3, <1>4 DEF Bswap16

(* A short keeps the sixteen bits. *)
LEMMA ShortIs ==
  ASSUME NEW y \in Int, 0 <= y, y < 65536
  PROVE  /\ -32768 <= AsShort(y) /\ AsShort(y) < 32768
         /\ AsShort(y) % 65536 = y
         /\ AsShort(y) = 0 <=> y = 0
<1>1. CASE y < 32768
  <2>1. AsShort(y) = y BY <1>1 DEF AsShort
  <2>2. -32768 <= y BY SMT
  <2>3. y % 65536 = y BY SMT
  <2> QED BY <1>1, <2>1, <2>2, <2>3
<1>2. CASE ~(y < 32768)
  <2>1. AsShort(y) = y - 65536 BY <1>2 DEF AsShort
  <2>2. /\ -32768 <= y - 65536 /\ y - 65536 < 32768
        /\ y - 65536 # 0 /\ y # 0
    BY <1>2, SMT
  <2>3. (y - 65536) % 65536 = y BY SMT
  <2> QED BY <2>1, <2>2, <2>3
<1> QED BY <1>1, <1>2

(* Any port goes through sin_port, a short, and is written as it was,      *)
(* modulo 2^16; only a port that is zero then is left out of the text      *)
(* (addr.h:25-41, addr.h:61-74, htons.h:20-50).                            *)
THEOREM PortsComeBack ==
  ASSUME NEW port \in Nat, NEW a
  PROVE  /\ -32768 <= StoredPort(port) /\ StoredPort(port) < 32768
         /\ TextOf(a, StoredPort(port)).port
              = IF AsUnsigned(port) = 0 THEN <<>> ELSE <<AsUnsigned(port)>>
<1>1. PICK x : x = port % 65536 /\ x = AsUnsigned(port) BY DEF AsUnsigned
<1>2. x \in Nat /\ x \div 256 < 256 BY <1>1, SMT
<1>3. PICK h \in 0..255, l \in 0..255 : x = 256 * h + l BY <1>2, BytesOfPort, ZenonT(40)
<1>4. PICK y : y = 256 * l + h OBVIOUS
<1>5. y \in Int /\ 0 <= y /\ y < 65536 BY <1>4, SMT
<1>6. y = 0 <=> x = 0 BY <1>3, <1>4, SMT
<1>7. Bswap16(x) = y BY <1>3, <1>4, SwapIs, ZenonT(40)
<1>8. Bswap16(y) = x BY <1>3, <1>4, SwapIs, ZenonT(40)
<1>9. StoredPort(port) = AsShort(y) BY <1>1, <1>7, SMT DEF StoredPort
<1>10. /\ -32768 <= AsShort(y) /\ AsShort(y) < 32768
       /\ AsShort(y) % 65536 = y
       /\ AsShort(y) = 0 <=> y = 0
  BY <1>5, ShortIs, SMT
<1>11. Bswap16(AsUnsigned(StoredPort(port))) = x BY <1>8, <1>9, <1>10, SMT DEF AsUnsigned
<1>12. StoredPort(port) # 0 <=> x # 0 BY <1>6, <1>9, <1>10, SMT
<1>13. TextOf(a, StoredPort(port)).port = IF x = 0 THEN <<>> ELSE <<x>>
  BY <1>11, <1>12, SMT DEF TextOf
<1> QED BY <1>1, <1>9, <1>10, <1>13, SMT

-----------------------------------------------------------------------------
(* The numbers that numerals stand for.                                    *)

(* The largest of some numbers up to n. *)
LEMMA MaxIs ==
  ASSUME NEW n \in Nat, NEW S \in SUBSET (0..n), S # {}
  PROVE  Max(S) \in S /\ \A y \in S : Max(S) >= y
<1> DEFINE Has(T) == \E x \in T : \A y \in T : x >= y
           N == {k \in Nat : \A T \in SUBSET (0..k) : T # {} => Has(T)}
<1>1. 0 \in N
  <2>0. 0..0 = {0} OBVIOUS
  <2>1. \A T \in SUBSET {0} : T # {} => T = {0} OBVIOUS
  <2>2. Has({0}) OBVIOUS
  <2> QED BY <2>0, <2>1, <2>2
<1>2. ASSUME NEW k \in Nat, k \in N PROVE k + 1 \in N
  <2> SUFFICES ASSUME NEW T \in SUBSET (0..k + 1), T # {} PROVE Has(T)
    BY <1>2
  <2>1. CASE k + 1 \in T
    <3>1. \A y \in T : k + 1 >= y BY <1>2
    <3> QED BY <2>1, <3>1
  <2>2. CASE k + 1 \notin T
    <3>1. T \in SUBSET (0..k) BY <1>2, <2>2
    <3> QED BY <1>2, <3>1
  <2> QED BY <2>1, <2>2
<1> HIDE DEF N
<1>3. Nat \subseteq N BY <1>1, <1>2, NatSetInduction
<1>4. \E x \in S : \A y \in S : x >= y BY <1>3 DEF N
<1> QED BY <1>4 DEF Max

(* The function that the fold of Value defines. *)
Folds(f, base, n, g) ==
  g = [s \in SUBSET (1..n) |->
         IF s = {} THEN 0 ELSE base * g[s \ {Max(s)}] + f[Max(s)]]

LEMMA FoldsExists ==
  ASSUME NEW f, NEW base, NEW n \in Nat PROVE \E g : Folds(f, base, n, g)
<1> DEFINE N == {k \in Nat : \E g : Folds(f, base, k, g)}
<1>0. ASSUME NEW k \in Nat, NEW s \in SUBSET (1..k), s # {}
      PROVE  Max(s) \in s /\ \A y \in s : Max(s) >= y
  <2>1. s \in SUBSET (0..k) OBVIOUS
  <2> QED BY <1>0, <2>1, MaxIs
<1>1. 0 \in N
  <2>1. SUBSET (1..0) = {{}} OBVIOUS
  <2>2. Folds(f, base, 0, [s \in SUBSET (1..0) |-> 0]) BY <2>1 DEF Folds
  <2> QED BY <2>2
<1>2. ASSUME NEW k \in Nat, k \in N PROVE k + 1 \in N
  <2>1. PICK g : Folds(f, base, k, g) BY <1>2
  <2> DEFINE h == [s \in SUBSET (1..k + 1) |->
                     IF s = {} THEN 0 ELSE base * g[s \ {Max(s)}] + f[Max(s)]]
  <2>2. \A s \in SUBSET (1..k) : s \in SUBSET (1..k + 1) OBVIOUS
  <2>3. \A s \in SUBSET (1..k) : h[s] = g[s] BY <2>1, <2>2 DEF Folds
  <2>4. ASSUME NEW s \in SUBSET (1..k + 1), s # {} PROVE s \ {Max(s)} \in SUBSET (1..k)
    <3>1. Max(s) \in s /\ \A y \in s : Max(s) >= y BY <1>0, <2>4
    <3> HIDE DEF h
    <3>2. ASSUME NEW y \in s \ {Max(s)} PROVE y \in 1..k
      <4>1. y \in 1..k + 1 /\ Max(s) \in 1..k + 1 /\ Max(s) >= y /\ y # Max(s) BY <3>1
      <4> QED BY <4>1
    <3> QED BY <3>2
  <2>5. \A s \in SUBSET (1..k + 1) : s # {} => g[s \ {Max(s)}] = h[s \ {Max(s)}]
    BY <2>3, <2>4
  <2>6. h = [s \in SUBSET (1..k + 1) |->
               IF s = {} THEN 0 ELSE base * h[s \ {Max(s)}] + f[Max(s)]]
    BY <2>5
  <2> HIDE DEF h
  <2> QED BY <2>6 DEF Folds
<1> HIDE DEF N
<1>3. Nat \subseteq N BY <1>1, <1>2, NatSetInduction
<1> QED BY <1>3 DEF N

LEMMA ValueFolds ==
  ASSUME NEW f \in Seq(0..15), NEW base
  PROVE  \E g : Folds(f, base, Len(f), g) /\ Value(f, base) = g[1..Len(f)]
<1>1. DOMAIN f = 1..Len(f) /\ Len(f) \in Nat BY LenProperties
<1> DEFINE h == CHOOSE g : g = [s \in SUBSET DOMAIN f |->
                   IF s = {} THEN 0 ELSE base * g[s \ {Max(s)}] + f[Max(s)]]
<1>2. Value(f, base) = h[DOMAIN f] BY DEF Value, FoldLeft, MapThenFoldSet
<1>3. \E g : g = [s \in SUBSET DOMAIN f |->
                   IF s = {} THEN 0 ELSE base * g[s \ {Max(s)}] + f[Max(s)]]
  <2>1. PICK g : Folds(f, base, Len(f), g) BY <1>1, FoldsExists
  <2>2. g = [s \in SUBSET (1..Len(f)) |->
               IF s = {} THEN 0 ELSE base * g[s \ {Max(s)}] + f[Max(s)]]
    BY <2>1 DEF Folds
  <2>3. g = [s \in SUBSET DOMAIN f |->
               IF s = {} THEN 0 ELSE base * g[s \ {Max(s)}] + f[Max(s)]]
    BY <1>1, <2>2
  <2> QED BY <2>3
<1>4. h = [s \in SUBSET DOMAIN f |->
             IF s = {} THEN 0 ELSE base * h[s \ {Max(s)}] + f[Max(s)]]
  BY <1>3
<1> HIDE DEF h
<1>5. Folds(f, base, Len(f), h) BY <1>1, <1>4 DEF Folds
<1> QED BY <1>1, <1>2, <1>5

(* What up to four digits are worth. *)
LEMMA ValueIs ==
  ASSUME NEW f \in Seq(0..15), NEW base \in {10, 16}
  PROVE  /\ Len(f) = 1 => Value(f, base) = f[1]
         /\ Len(f) = 2 => Value(f, base) = base * f[1] + f[2]
         /\ Len(f) = 3 => Value(f, base) = base * (base * f[1] + f[2]) + f[3]
         /\ Len(f) = 4 => Value(f, base) = base * (base * (base * f[1] + f[2]) + f[3]) + f[4]
<1> DEFINE n == Len(f)
<1>1. PICK g : Folds(f, base, n, g) /\ Value(f, base) = g[1..n] BY ValueFolds
<1>2. n \in Nat /\ \A k \in 1..n : f[k] \in 0..15 BY LenProperties, ElementOfSeq
<1> HIDE DEF n
<1>3. g[1..0] = 0
  <2>1. 1..0 = {} /\ {} \in SUBSET (1..n) OBVIOUS
  <2> QED BY <1>1, <2>1 DEF Folds
<1>4. ASSUME NEW k \in 1..n PROVE g[1..k] = base * g[1..k - 1] + f[k]
  <2>1. 1..k \in SUBSET (1..n) /\ 1..k # {} /\ 1..k \in SUBSET (0..n)
    <3>1. k \in 1..k BY <1>2
    <3>2. \A y \in 1..k : y \in 1..n /\ y \in 0..n BY <1>2
    <3> QED BY <3>1, <3>2
  <2>2. Max(1..k) \in 1..k /\ \A y \in 1..k : Max(1..k) >= y BY <1>2, <2>1, MaxIs
  <2>3. Max(1..k) = k
    <3>1. k \in 1..k BY <1>2
    <3>2. Max(1..k) >= k BY <2>2, <3>1
    <3> QED BY <2>2, <3>2
  <2>4. (1..k) \ {k} = 1..k - 1 BY <1>2
  <2>5. g[1..k] = base * g[(1..k) \ {Max(1..k)}] + f[Max(1..k)] BY <1>1, <2>1 DEF Folds
  <2> QED BY <2>3, <2>4, <2>5
<1>5. n >= 1 => g[1..1] = f[1]
  <2> SUFFICES ASSUME n >= 1 PROVE g[1..1] = f[1] OBVIOUS
  <2>1. 1 \in 1..n /\ 1 - 1 = 0 BY <1>2
  <2>2. g[1..1] = base * g[1..0] + f[1] BY <1>4, <2>1
  <2>3. f[1] \in 0..15 BY <1>2, <2>1
  <2> QED BY <1>3, <2>2, <2>3
<1>6. n >= 2 => g[1..2] = base * f[1] + f[2]
  <2> SUFFICES ASSUME n >= 2 PROVE g[1..2] = base * f[1] + f[2] OBVIOUS
  <2>1. 2 \in 1..n /\ 2 - 1 = 1 /\ n >= 1 BY <1>2
  <2>2. g[1..2] = base * g[1..1] + f[2] BY <1>4, <2>1
  <2> QED BY <1>5, <2>1, <2>2
<1>7. n >= 3 => g[1..3] = base * (base * f[1] + f[2]) + f[3]
  <2> SUFFICES ASSUME n >= 3 PROVE g[1..3] = base * (base * f[1] + f[2]) + f[3] OBVIOUS
  <2>1. 3 \in 1..n /\ 3 - 1 = 2 /\ n >= 2 BY <1>2
  <2>2. g[1..3] = base * g[1..2] + f[3] BY <1>4, <2>1
  <2> QED BY <1>6, <2>1, <2>2
<1>8. n >= 4 => g[1..4] = base * (base * (base * f[1] + f[2]) + f[3]) + f[4]
  <2> SUFFICES ASSUME n >= 4
               PROVE  g[1..4] = base * (base * (base * f[1] + f[2]) + f[3]) + f[4] OBVIOUS
  <2>1. 4 \in 1..n /\ 4 - 1 = 3 /\ n >= 3 BY <1>2
  <2>2. g[1..4] = base * g[1..3] + f[4] BY <1>4, <2>1
  <2> QED BY <1>7, <2>1, <2>2
<1>9. n = 1 => n >= 1 OBVIOUS
<1> QED BY <1>1, <1>5, <1>6, <1>7, <1>8 DEF n

(* Four digits without the zeros before them. *)
Trimmed(ds) ==
  SubSeq(ds, CHOOSE f \in 1..4 : (f = 4 \/ ds[f] # 0) /\ \A k \in 1..f - 1 : ds[k] = 0, 4)

LEMMA TrimmedIs ==
  ASSUME NEW ds \in Seq(0..15), Len(ds) = 4, NEW base \in {10, 16}
  PROVE  /\ Trimmed(ds) \in Nums /\ Len(Trimmed(ds)) <= 4
         /\ Value(Trimmed(ds), base) = base * (base * (base * ds[1] + ds[2]) + ds[3]) + ds[4]
         /\ Len(Trimmed(ds)) > 1 => Trimmed(ds)[1] # 0
         /\ \A k \in 1..Len(Trimmed(ds)) : Trimmed(ds)[k] \in {ds[1], ds[2], ds[3], ds[4]}
         /\ ds[1] = 0 => Len(Trimmed(ds)) <= 3
         /\ (ds[1] = 0 /\ ds[2] = 0 /\ ds[3] = 0 /\ ds[4] = 0) <=> Trimmed(ds) = << 0 >>
<1> DEFINE First(f) == (f = 4 \/ ds[f] # 0) /\ \A k \in 1..f - 1 : ds[k] = 0
<1>1. \E f \in 1..4 : First(f)
  <2>1. CASE ds[1] # 0
    <3>1. First(1) BY <2>1
    <3> QED BY <3>1
  <2>2. CASE ds[1] = 0 /\ ds[2] # 0
    <3>1. First(2) BY <2>2
    <3> QED BY <3>1
  <2>3. CASE ds[1] = 0 /\ ds[2] = 0 /\ ds[3] # 0
    <3>1. \A k \in 1..3 - 1 : k = 1 \/ k = 2 OBVIOUS
    <3>2. First(3) BY <2>3, <3>1
    <3> QED BY <3>2
  <2>4. CASE ds[1] = 0 /\ ds[2] = 0 /\ ds[3] = 0
    <3>1. \A k \in 1..4 - 1 : k = 1 \/ k = 2 \/ k = 3 OBVIOUS
    <3>2. First(4) BY <2>4, <3>1
    <3> QED BY <3>2
  <2> QED BY <2>1, <2>2, <2>3, <2>4
<1>2. PICK f \in 1..4 : First(f) /\ Trimmed(ds) = SubSeq(ds, f, 4) BY <1>1 DEF Trimmed
<1> DEFINE s == SubSeq(ds, f, 4)
<1>3. \A k \in 1..4 : ds[k] \in 0..15 BY ElementOfSeq
<1>4. s \in Seq(0..15) /\ Len(s) = 5 - f /\ \A k \in 1..5 - f : s[k] = ds[f + k - 1]
  <2>1. \A k \in f..4 : ds[k] \in 0..15 BY <1>3, SMTT(60)
  <2>2. /\ s \in Seq(0..15)
        /\ Len(s) = IF f <= 4 THEN 4 - f + 1 ELSE 0
        /\ \A k \in 1..4 - f + 1 : s[k] = ds[f + k - 1]
    BY <2>1, SubSeqProperties, SMTT(60)
  <2>3. 4 - f + 1 = 5 - f /\ f <= 4 OBVIOUS
  <2> QED BY <2>2, <2>3
<1> HIDE DEF s
<1>5. /\ Len(s) = 1 => Value(s, base) = s[1]
      /\ Len(s) = 2 => Value(s, base) = base * s[1] + s[2]
      /\ Len(s) = 3 => Value(s, base) = base * (base * s[1] + s[2]) + s[3]
      /\ Len(s) = 4 => Value(s, base) = base * (base * (base * s[1] + s[2]) + s[3]) + s[4]
  BY <1>4, ValueIs
<1> DEFINE V == base * (base * (base * ds[1] + ds[2]) + ds[3]) + ds[4]
<1>6. /\ s # <<>> /\ Len(s) <= 4 /\ Value(s, base) = V
      /\ Len(s) > 1 => s[1] # 0
      /\ ds[1] = 0 => Len(s) <= 3
      /\ \A k \in 1..Len(s) : s[k] \in {ds[1], ds[2], ds[3], ds[4]}
      /\ (ds[1] = 0 /\ ds[2] = 0 /\ ds[3] = 0 /\ ds[4] = 0) <=> s = << 0 >>
  <2>0. /\ Len(<<>>) = 0 /\ Len(<< 0 >>) = 1 /\ << 0 >>[1] = 0
        /\ Len(s) = 1 => s = <<s[1]>>
    BY <1>4
  <2>0a. s # <<>> BY <1>4, EmptySeq
  <2>1. CASE f = 1
    <3>1. Len(s) = 4 /\ s[1] = ds[1] /\ s[2] = ds[2] /\ s[3] = ds[3] /\ s[4] = ds[4] BY <1>4, <2>1
    <3>2. ds[1] # 0 BY <1>2, <2>1
    <3>3. Value(s, base) = V BY <1>5, <3>1
    <3>4. \A k \in 1..4 : k = 1 \/ k = 2 \/ k = 3 \/ k = 4 OBVIOUS
    <3> HIDE DEF V
    <3>5a. s # << 0 >> BY <2>0, <3>1
    <3>5. ~(ds[1] = 0 /\ ds[2] = 0 /\ ds[3] = 0 /\ ds[4] = 0) BY <3>2
    <3>6. \A k \in 1..Len(s) : s[k] \in {ds[1], ds[2], ds[3], ds[4]} BY <3>1, <3>4
    <3>7. Len(s) <= 4 /\ (Len(s) > 1 => s[1] # 0) /\ (ds[1] = 0 => Len(s) <= 3) BY <3>1, <3>2
    <3> QED BY <2>0a, <3>3, <3>5a, <3>5, <3>6, <3>7
  <2>2. CASE f = 2
    <3>1. Len(s) = 3 /\ s[1] = ds[2] /\ s[2] = ds[3] /\ s[3] = ds[4] BY <1>4, <2>2
    <3>2. ds[2] # 0 /\ ds[1] = 0 BY <1>2, <2>2
    <3>3. Value(s, base) = V BY <1>3, <1>5, <3>1, <3>2
    <3>4. \A k \in 1..3 : k = 1 \/ k = 2 \/ k = 3 OBVIOUS
    <3> HIDE DEF V
    <3>5a. s # << 0 >> BY <2>0, <3>1
    <3>5. ~(ds[1] = 0 /\ ds[2] = 0 /\ ds[3] = 0 /\ ds[4] = 0) BY <3>2
    <3>6. \A k \in 1..Len(s) : s[k] \in {ds[1], ds[2], ds[3], ds[4]} BY <3>1, <3>4
    <3>7. Len(s) <= 4 /\ (Len(s) > 1 => s[1] # 0) /\ (ds[1] = 0 => Len(s) <= 3) BY <3>1, <3>2
    <3> QED BY <2>0a, <3>3, <3>5a, <3>5, <3>6, <3>7
  <2>3. CASE f = 3
    <3>1. Len(s) = 2 /\ s[1] = ds[3] /\ s[2] = ds[4] BY <1>4, <2>3
    <3>2. ds[3] # 0 /\ ds[1] = 0 /\ ds[2] = 0 BY <1>2, <2>3
    <3>3. Value(s, base) = V BY <1>3, <1>5, <3>1, <3>2
    <3>4. \A k \in 1..2 : k = 1 \/ k = 2 OBVIOUS
    <3> HIDE DEF V
    <3>5a. s # << 0 >> BY <2>0, <3>1
    <3>5. ~(ds[1] = 0 /\ ds[2] = 0 /\ ds[3] = 0 /\ ds[4] = 0) BY <3>2
    <3>6. \A k \in 1..Len(s) : s[k] \in {ds[1], ds[2], ds[3], ds[4]} BY <3>1, <3>4
    <3>7. Len(s) <= 4 /\ (Len(s) > 1 => s[1] # 0) /\ (ds[1] = 0 => Len(s) <= 3) BY <3>1, <3>2
    <3> QED BY <2>0a, <3>3, <3>5a, <3>5, <3>6, <3>7
  <2>4. CASE f = 4
    <3>1. Len(s) = 1 /\ s[1] = ds[4] BY <1>4, <2>4
    <3>2. ds[1] = 0 /\ ds[2] = 0 /\ ds[3] = 0 BY <1>2, <2>4
    <3>3. Value(s, base) = V BY <1>3, <1>5, <3>1, <3>2
    <3>4. \A k \in 1..1 : k = 1 OBVIOUS
    <3> HIDE DEF V
    <3>5. (ds[1] = 0 /\ ds[2] = 0 /\ ds[3] = 0 /\ ds[4] = 0) <=> s = << 0 >> BY <2>0, <3>1, <3>2
    <3>6. \A k \in 1..Len(s) : s[k] \in {ds[1], ds[2], ds[3], ds[4]} BY <3>1, <3>4
    <3>7. Len(s) <= 4 /\ (Len(s) > 1 => s[1] # 0) /\ (ds[1] = 0 => Len(s) <= 3) BY <3>1, <3>2
    <3> QED BY <2>0a, <3>3, <3>5, <3>6, <3>7
  <2> QED BY <2>1, <2>2, <2>3, <2>4
<1>7. s \in Nums BY <1>4, <1>6 DEF Nums
<1> QED BY <1>2, <1>6, <1>7 DEF s, V

(* The digits of a number of 16 bits, and of a byte. *)
Sixteen == {v \in Nat : v < 256 * 256}

Written(v, base, x, y, c, d) ==
  /\ v = base * (base * (base * x + y) + c) + d
  /\ x = v \div (base * base * base) /\ y = (v \div (base * base)) % base
  /\ c = (v \div base) % base /\ d = v % base

LEMMA FourDigits16 ==
  ASSUME NEW v \in Sixteen
  PROVE  \E x \in 0..15, y \in 0..15, c \in 0..15, d \in 0..15 :
           Written(v, 16, x, y, c, d)
<1>1. ASSUME NEW n \in Nat
      PROVE  \E q \in Nat, r \in 0..15 : n = 16 * q + r
  <2>1. n = 16 * (n \div 16) + (n % 16) BY SMT
  <2>2. n % 16 \in 0..15 BY SMT
  <2>3. n \div 16 \in Nat BY SMTT(40)
  <2> QED BY <2>1, <2>2, <2>3
<1>00. v \in Nat BY SMT DEF Sixteen
<1>0. v \div 4096 < 16 BY SMT DEF Sixteen
<1>2. PICK a \in Nat, d \in 0..15 : v = 16 * a + d BY <1>00, <1>1
<1>3. PICK b \in Nat, c \in 0..15 : a = 16 * b + c BY <1>1
<1>4. PICK x \in Nat, y \in 0..15 : b = 16 * x + y BY <1>1
<1>6. ASSUME NEW q \in Nat, NEW r \in 0..15
      PROVE  (16 * q + r) \div 16 = q /\ (16 * q + r) % 16 = r
  <2>1. q \in Int /\ 0 <= q /\ r \in Int /\ 0 <= r /\ r < 16 OBVIOUS
  <2>2. (16 * q + r) \div 16 = q BY <2>1
  <2>3. (16 * q + r) % 16 = r BY <2>1
  <2> QED BY <2>2, <2>3
<1>7. v \div 16 = a /\ v % 16 = d BY <1>2, <1>6
<1>8. a % 16 = c BY <1>3, <1>6
<1>9. b % 16 = y BY <1>4, <1>6
<1>10. v \div (16 * 16) = b
  <2>1. v = 256 * b + (16 * c + d) /\ 0 <= 16 * c + d /\ 16 * c + d < 256
    BY <1>2, <1>3
  <2>2. v \div 256 = b BY <2>1
  <2>3. 16 * 16 = 256 OBVIOUS
  <2> QED BY <2>2, <2>3
<1>11. v \div (16 * 16 * 16) = x
  <2>1. /\ v = 4096 * x + (256 * y + 16 * c + d)
        /\ 0 <= 256 * y + 16 * c + d /\ 256 * y + 16 * c + d < 4096
    BY <1>2, <1>3, <1>4
  <2>2. v \div 4096 = x BY <2>1
  <2>3. 16 * 16 * 16 = 4096 OBVIOUS
  <2> QED BY <2>2, <2>3
<1>12. v = 16 * (16 * (16 * x + y) + c) + d BY <1>2, <1>3, <1>4
<1>5. x \in 0..15 BY <1>0, <1>11, SMT
<1>13. Written(v, 16, x, y, c, d) BY <1>7, <1>8, <1>9, <1>10, <1>11, <1>12 DEF Written
<1> QED BY <1>5, <1>13, Zenon

LEMMA FourDigits10 ==
  ASSUME NEW v \in Nat, v < 256
  PROVE  \E x \in 0..9, y \in 0..9, c \in 0..9, d \in 0..9 :
           Written(v, 10, x, y, c, d)
<1>1. ASSUME NEW n \in Nat
      PROVE  \E q \in Nat, r \in 0..9 : n = 10 * q + r
  <2>1. n = 10 * (n \div 10) + (n % 10) BY SMT
  <2>2. n % 10 \in 0..9 BY SMT
  <2>3. n \div 10 \in Nat BY SMTT(40)
  <2> QED BY <2>1, <2>2, <2>3
<1>2. PICK a \in Nat, d \in 0..9 : v = 10 * a + d BY <1>1
<1>3. PICK b \in Nat, c \in 0..9 : a = 10 * b + c BY <1>1
<1>4. PICK x \in Nat, y \in 0..9 : b = 10 * x + y BY <1>1
<1>5. x \in 0..9 BY <1>2, <1>3, <1>4
<1>6. ASSUME NEW q \in Nat, NEW r \in 0..9
      PROVE  (10 * q + r) \div 10 = q /\ (10 * q + r) % 10 = r
  <2>1. q \in Int /\ 0 <= q /\ r \in Int /\ 0 <= r /\ r < 10 OBVIOUS
  <2>2. (10 * q + r) \div 10 = q BY <2>1
  <2>3. (10 * q + r) % 10 = r BY <2>1
  <2> QED BY <2>2, <2>3
<1>7. v \div 10 = a /\ v % 10 = d BY <1>2, <1>6
<1>8. a % 10 = c BY <1>3, <1>6
<1>9. b % 10 = y BY <1>4, <1>6
<1>10. v \div (10 * 10) = b
  <2>1. v = 100 * b + (10 * c + d) /\ 0 <= 10 * c + d /\ 10 * c + d < 100
    BY <1>2, <1>3
  <2>2. v \div 100 = b BY <2>1
  <2>3. 10 * 10 = 100 OBVIOUS
  <2> QED BY <2>2, <2>3
<1>11. v \div (10 * 10 * 10) = x
  <2>1. /\ v = 1000 * x + (100 * y + 10 * c + d)
        /\ 0 <= 100 * y + 10 * c + d /\ 100 * y + 10 * c + d < 1000
    BY <1>2, <1>3, <1>4
  <2>2. v \div 1000 = x BY <2>1
  <2>3. 10 * 10 * 10 = 1000 OBVIOUS
  <2> QED BY <2>2, <2>3
<1>12. v = 10 * (10 * (10 * x + y) + c) + d BY <1>2, <1>3, <1>4
<1>13. Written(v, 10, x, y, c, d) BY <1>7, <1>8, <1>9, <1>10, <1>11, <1>12, Zenon DEF Written
<1> QED BY <1>5, <1>13, Zenon

(* A number of 16 bits is printed as a group, and read back as it was. *)
LEMMA GroupPrinted ==
  ASSUME NEW v \in Sixteen
  PROVE  /\ Digits(v, 16) \in Nums /\ IsGroup(Digits(v, 16)) /\ Value(Digits(v, 16), 16) = v
         /\ v = 0 <=> Digits(v, 16) = << 0 >>
<1> DEFINE ds == <<v \div (16 * 16 * 16), (v \div (16 * 16)) % 16, (v \div 16) % 16, v % 16>>
<1>1. Digits(v, 16) = Trimmed(ds) BY DEF Digits, Trimmed
<1>a. PICK x \in 0..15, y \in 0..15, c \in 0..15, d \in 0..15 :
        Written(v, 16, x, y, c, d)
  BY FourDigits16, Zenon
<1>2. ds = <<x, y, c, d>> BY <1>a DEF Written
<1> HIDE DEF ds
<1>3. /\ ds \in Seq(0..15) /\ Len(ds) = 4
      /\ ds[1] = x /\ ds[2] = y /\ ds[3] = c /\ ds[4] = d
  BY <1>2
<1>5. v = 16 * (16 * (16 * ds[1] + ds[2]) + ds[3]) + ds[4] BY <1>a, <1>3, Zenon DEF Written
<1>7. v = 0 <=> (ds[1] = 0 /\ ds[2] = 0 /\ ds[3] = 0 /\ ds[4] = 0) BY <1>3, <1>5
<1>8. PICK b \in {10, 16} : b = 16 OBVIOUS
<1>9. /\ Trimmed(ds) \in Nums /\ Len(Trimmed(ds)) <= 4
      /\ Value(Trimmed(ds), 16) = 16 * (16 * (16 * ds[1] + ds[2]) + ds[3]) + ds[4]
      /\ (ds[1] = 0 /\ ds[2] = 0 /\ ds[3] = 0 /\ ds[4] = 0) <=> Trimmed(ds) = << 0 >>
  <2>1. Value(Trimmed(ds), b) = b * (b * (b * ds[1] + ds[2]) + ds[3]) + ds[4]
    BY <1>3, TrimmedIs, Zenon
  <2>2. Value(Trimmed(ds), 16) = 16 * (16 * (16 * ds[1] + ds[2]) + ds[3]) + ds[4]
    BY <1>8, <2>1, Zenon
  <2>3. /\ Trimmed(ds) \in Nums /\ Len(Trimmed(ds)) <= 4
        /\ (ds[1] = 0 /\ ds[2] = 0 /\ ds[3] = 0 /\ ds[4] = 0) <=> Trimmed(ds) = << 0 >>
    BY <1>3, TrimmedIs, Zenon
  <2> QED BY <2>2, <2>3, Zenon
<1>10. IsGroup(Trimmed(ds)) BY <1>9, TokensAre DEF IsGroup
<1>11. Value(Trimmed(ds), 16) = v BY <1>5, <1>9
<1> QED BY <1>1, <1>7, <1>9, <1>10, <1>11

(* A byte is printed as one. *)
LEMMA BytePrinted ==
  ASSUME NEW v \in Nat, v < 256
  PROVE  Digits(v, 10) \in Nums /\ IsByte(Digits(v, 10)) /\ Value(Digits(v, 10), 10) = v
<1> DEFINE ds == <<v \div (10 * 10 * 10), (v \div (10 * 10)) % 10, (v \div 10) % 10, v % 10>>
<1>1. Digits(v, 10) = Trimmed(ds) BY DEF Digits, Trimmed
<1>a. PICK x \in 0..9, y \in 0..9, c \in 0..9, d \in 0..9 :
        Written(v, 10, x, y, c, d)
  BY FourDigits10, Zenon
<1>2. ds = <<x, y, c, d>> BY <1>a DEF Written
<1> HIDE DEF ds
<1>3. /\ ds \in Seq(0..15) /\ Len(ds) = 4
      /\ ds[1] = x /\ ds[2] = y /\ ds[3] = c /\ ds[4] = d
  BY <1>2
<1>5. v = 10 * (10 * (10 * ds[1] + ds[2]) + ds[3]) + ds[4] BY <1>a, <1>3, Zenon DEF Written
<1>6. ds[1] = 0 /\ ds[2] \in 0..9 /\ ds[3] \in 0..9 /\ ds[4] \in 0..9
  <2>1. x = 0 BY <1>a DEF Written
  <2> QED BY <1>3, <2>1
<1>7. 10 \in {10, 16} OBVIOUS
<1>8. /\ Trimmed(ds) \in Nums /\ Len(Trimmed(ds)) <= 3
      /\ Value(Trimmed(ds), 10) = 10 * (10 * (10 * ds[1] + ds[2]) + ds[3]) + ds[4]
      /\ Len(Trimmed(ds)) > 1 => Trimmed(ds)[1] # 0
      /\ \A k \in 1..Len(Trimmed(ds)) : Trimmed(ds)[k] \in {ds[1], ds[2], ds[3], ds[4]}
  BY <1>3, <1>6, <1>7, TrimmedIs
<1>9. \A k \in 1..Len(Trimmed(ds)) : Trimmed(ds)[k] < 10 BY <1>6, <1>8
<1>10. Value(Trimmed(ds), 10) = v /\ Value(Trimmed(ds), 10) <= 255 BY <1>5, <1>8
<1>11. IsByte(Trimmed(ds)) BY <1>8, <1>9, <1>10, TokensAre DEF IsByte
<1> QED BY <1>1, <1>8, <1>10, <1>11

(* Some tokens and then others, with separators between all of them. *)
LEMMA LeadConcat ==
  ASSUME NEW T, NEW u \in Seq(T), NEW v \in Seq(T), NEW sep \in T
  PROVE  Lead(u \o v, sep) = Lead(u, sep) \o Lead(v, sep)
<1> DEFINE Good == {x \in Seq(T) : Lead(u \o x, sep) = Lead(u, sep) \o Lead(x, sep)}
<1>1. Lead(u, sep) \in Seq(T) BY LeadIs
<1>2. <<>> \in Good
  <2>1. u \o <<>> = u BY ConcatEmptySeq
  <2>2. Lead(u, sep) \o <<>> = Lead(u, sep) BY <1>1, ConcatEmptySeq
  <2>3. Lead(<<>>, sep) = <<>> BY DEF Lead
  <2> QED BY <2>1, <2>2, <2>3, EmptySeq
<1>3. ASSUME NEW x \in Seq(T), NEW t \in T, x \in Good PROVE Append(x, t) \in Good
  <2> DEFINE m == Lead(x, sep)
  <2>1. u \o x \in Seq(T) /\ Append(x, t) \in Seq(T) BY ConcatProperties, AppendProperties
  <2>2. u \o Append(x, t) = Append(u \o x, t) BY AppendsOutside
  <2>3. Lead(Append(u \o x, t), sep) = Append(Append(Lead(u \o x, sep), t), sep) BY <2>1, LeadIs, ZenonT(40)
  <2>4. m \in Seq(T) /\ Lead(Append(x, t), sep) = Append(Append(m, t), sep) BY LeadIs, ZenonT(40)
  <2>5. Lead(u \o x, sep) = Lead(u, sep) \o m BY <1>3
  <2> HIDE DEF m
  <2>6. Append(m, t) \in Seq(T) BY <2>4, AppendProperties
  <2>7. Lead(u, sep) \o Append(m, t) = Append(Lead(u, sep) \o m, t) BY <1>1, <2>4, AppendsOutside
  <2>8. Lead(u, sep) \o Append(Append(m, t), sep) = Append(Lead(u, sep) \o Append(m, t), sep)
    BY <1>1, <2>6, AppendsOutside
  <2> QED BY <2>1, <2>2, <2>3, <2>4, <2>5, <2>7, <2>8
<1> HIDE DEF Good
<1>4. Seq(T) \subseteq Good BY <1>2, <1>3, SeqInduction
<1> QED BY <1>4 DEF Good

LEMMA AltConcat ==
  ASSUME NEW T, NEW u \in Seq(T), NEW v \in Seq(T), v # <<>>, NEW sep \in T
  PROVE  Alt(u \o v, sep) = Lead(u, sep) \o Alt(v, sep)
<1>1. PICK t \in Seq(T), x \in T : v = Append(t, x) BY SequenceEmptyOrAppend
<1> DEFINE z == u \o t
           m == Lead(t, sep)
<1>2. z \in Seq(T) /\ u \o v = Append(z, x) BY <1>1, ConcatProperties, AppendsOutside
<1>3. Alt(v, sep) = Append(m, x) BY <1>1, LeadIs
<1>4. Lead(z, sep) = Lead(u, sep) \o m BY <1>1, LeadConcat
<1>5. Lead(u, sep) \in Seq(T) /\ m \in Seq(T) BY <1>1, LeadIs
<1> HIDE DEF z, m
<1>6. Alt(Append(z, x), sep) = Append(Lead(z, sep), x) BY <1>1, <1>2, LeadIs
<1>7. Lead(u, sep) \o Append(m, x) = Append(Lead(u, sep) \o m, x) BY <1>1, <1>5, AppendsOutside
<1> QED BY <1>2, <1>3, <1>4, <1>6, <1>7

LEMMA AltCut ==
  ASSUME NEW T, NEW u \in Seq(T), NEW v \in Seq(T), NEW sep \in T
  PROVE  LET w == Alt(u \o v, sep)
         IN /\ u # <<>> => SubSeq(w, 1, 2 * Len(u) - 1) = Alt(u, sep)
            /\ v # <<>> => SubSeq(w, 2 * Len(u) + 1, Len(w)) = Alt(v, sep)
<1> DEFINE w == Alt(u \o v, sep)
           x == Alt(u, sep)
           y == Alt(v, sep)
           m == Lead(u, sep)
<1>1. x \in Seq(T) /\ y \in Seq(T) /\ m \in Seq(T) /\ Len(m) = 2 * Len(u)
  BY AltIs, LeadLaid
<1>2. u # <<>> => m = Append(x, sep) /\ Len(x) = 2 * Len(u) - 1 BY AltIs DEF Lead
<1>3. v # <<>> => w = m \o y BY AltConcat
<1>4. v = <<>> => w = x BY ConcatEmptySeq
<1> HIDE DEF w, x, y, m
<1>5. ASSUME v # <<>> PROVE SubSeq(w, 2 * Len(u) + 1, Len(w)) = y
  <2>1. SubSeq(m \o y, Len(m) + 1, Len(m \o y)) = y BY <1>1, CutConcat
  <2> QED BY <1>1, <1>3, <1>5, <2>1
<1>6. ASSUME u # <<>> PROVE SubSeq(w, 1, 2 * Len(u) - 1) = x
  <2>1. CASE v = <<>>
    <3>1. SubSeq(x, 1, Len(x)) = x BY <1>1, SubSeqFull
    <3> QED BY <1>2, <1>4, <1>6, <2>1, <3>1
  <2>2. CASE v # <<>>
    <3>1. <<sep>> \in Seq(T) /\ m = x \o <<sep>>
      <4>1. <<sep>> \in Seq(T) OBVIOUS
      <4>2. Append(x, sep) = x \o <<sep>> BY <1>1, AppendIsConcat
      <4> QED BY <1>2, <1>6, <4>1, <4>2
    <3>2. PICK c \in Seq(T) : c = <<sep>> BY <3>1
    <3>3. w = x \o (c \o y)
      <4>1. (x \o c) \o y = x \o (c \o y) BY <1>1, <3>2, ConcatAssociative
      <4> QED BY <1>3, <2>2, <3>1, <3>2, <4>1
    <3>4. c \o y \in Seq(T) BY <1>1, <3>2, ConcatProperties
    <3>5. SubSeq(x \o (c \o y), 1, Len(x)) = x BY <1>1, <3>4, CutConcat
    <3> QED BY <1>2, <1>6, <3>3, <3>5
  <2> QED BY <2>1, <2>2
<1> QED BY <1>5, <1>6 DEF w, x, y

(* The numerals of some numbers. *)
Spelled(a, base) == [k \in 1..Len(a) |-> Digits(a[k], base)]

LEMMA SpelledGroups ==
  ASSUME NEW a \in Seq(Sixteen)
  PROVE  /\ Spelled(a, 16) \in Seq(Nums) /\ Len(Spelled(a, 16)) = Len(a)
         /\ \A k \in 1..Len(a) : /\ IsGroup(Spelled(a, 16)[k])
                                 /\ Value(Spelled(a, 16)[k], 16) = a[k]
                                 /\ a[k] = 0 <=> Spelled(a, 16)[k] = << 0 >>
<1>1. Len(a) \in Nat /\ \A k \in 1..Len(a) : a[k] \in Sixteen BY LenProperties, ElementOfSeq
<1>2. \A k \in 1..Len(a) : /\ Digits(a[k], 16) \in Nums /\ IsGroup(Digits(a[k], 16))
                           /\ Value(Digits(a[k], 16), 16) = a[k]
                           /\ a[k] = 0 <=> Digits(a[k], 16) = << 0 >>
  BY <1>1, GroupPrinted
<1> QED BY <1>1, <1>2 DEF Spelled

LEMMA SpelledBytes ==
  ASSUME NEW a \in Seq(0..255)
  PROVE  /\ Spelled(a, 10) \in Seq(Nums) /\ Len(Spelled(a, 10)) = Len(a)
         /\ \A k \in 1..Len(a) : IsByte(Spelled(a, 10)[k]) /\ Value(Spelled(a, 10)[k], 10) = a[k]
         /\ Values(Spelled(a, 10), 10) = a
<1>1. Len(a) \in Nat /\ (\A k \in 1..Len(a) : a[k] \in 0..255) /\ a = [k \in 1..Len(a) |-> a[k]]
  BY LenProperties, ElementOfSeq
<1>2. ASSUME NEW k \in 1..Len(a) PROVE a[k] \in Nat /\ a[k] < 256
  <2>1. PICK x \in 0..255 : x = a[k] BY <1>1
  <2>2. x \in Nat /\ x < 256 OBVIOUS
  <2> QED BY <2>1, <2>2
<1>3. \A k \in 1..Len(a) : /\ Digits(a[k], 10) \in Nums /\ IsByte(Digits(a[k], 10))
                           /\ Value(Digits(a[k], 10), 10) = a[k]
  BY <1>2, BytePrinted
<1>4. /\ Spelled(a, 10) \in Seq(Nums) /\ Len(Spelled(a, 10)) = Len(a)
      /\ \A k \in 1..Len(a) : IsByte(Spelled(a, 10)[k]) /\ Value(Spelled(a, 10)[k], 10) = a[k]
  BY <1>1, <1>3 DEF Spelled
<1>5. Values(Spelled(a, 10), 10) = a BY <1>1, <1>4 DEF Values
<1> QED BY <1>4, <1>5

LEMMA PrintedIs ==
  ASSUME NEW a, NEW base, NEW sep, Spelled(a, base) \in Seq(Nums), Len(Spelled(a, base)) = Len(a)
  PROVE  Printed(a, base, sep) = Alt(Spelled(a, base), sep)
<1>1. Singles(Spelled(a, base)) = [k \in 1..Len(a) |-> <<Digits(a[k], base)>>]
  <2>1. Singles(Spelled(a, base)) = [k \in 1..Len(a) |-> <<Spelled(a, base)[k]>>] BY DEF Singles
  <2>2. \A k \in 1..Len(a) : Spelled(a, base)[k] = Digits(a[k], base) BY DEF Spelled
  <2> QED BY <2>1, <2>2
<1> QED BY <1>1 DEF Printed, Alt

-----------------------------------------------------------------------------
(* The runs of zeros.                                                      *)
Cleared == {Colon, << 0 >>}

(* There are n tokens from the place p on that a run may have, and no more. *)
Runs(buf, p, n) ==
  /\ \A q \in p..p + n - 1 : buf[q] \in Cleared
  /\ p + n <= Len(buf) => buf[p + n] \notin Cleared

LEMMA SpanIs ==
  ASSUME NEW T, NEW buf \in Seq(T), NEW p \in 1..Len(buf)
  PROVE  Span(buf, p) \in 0..Len(buf) - p + 1 /\ Runs(buf, p, Span(buf, p))
<1> DEFINE L == Len(buf) - p + 1
<1>1. Len(buf) \in Nat BY LenProperties
<1>2. L \in Nat BY <1>1
<1>3. \E n \in 0..L : Runs(buf, p, n)
  <2> SUFFICES ASSUME \A n \in 0..L : ~Runs(buf, p, n) PROVE FALSE
    OBVIOUS
  <2> DEFINE N == {n \in Nat : n <= L => \A q \in p..p + n - 1 : buf[q] \in Cleared}
  <2>1. 0 \in N
    <3>1. p..p + 0 - 1 = {} BY <1>1
    <3> QED BY <3>1
  <2>2. ASSUME NEW n \in Nat, n \in N PROVE n + 1 \in N
    <3> SUFFICES ASSUME n + 1 <= L, NEW q \in p..p + (n + 1) - 1 PROVE buf[q] \in Cleared
      OBVIOUS
    <3>1. n \in 0..L BY <1>2
    <3>2. \A k \in p..p + n - 1 : buf[k] \in Cleared BY <2>2, <3>1
    <3>3. buf[p + n] \in Cleared BY <3>1, <3>2 DEF Runs
    <3>4. q \in p..p + n - 1 \/ q = p + n BY <1>1
    <3> QED BY <3>2, <3>3, <3>4
  <2> HIDE DEF N
  <2>3. Nat \subseteq N BY <2>1, <2>2, NatSetInduction
  <2>4. L \in N BY <1>2, <2>3
  <2>5. \A q \in p..p + L - 1 : buf[q] \in Cleared BY <1>2, <2>4 DEF N
  <2>6. ~(p + L <= Len(buf)) BY <1>1
  <2>7. Runs(buf, p, L) BY <2>5, <2>6 DEF Runs
  <2> QED BY <1>2, <2>7
<1>4. Span(buf, p) = CHOOSE n \in 0..L : Runs(buf, p, n) BY DEF Span, Runs, Cleared
<1> QED BY <1>3, <1>4

LEMMA SpanAtLeast ==
  ASSUME NEW T, NEW buf \in Seq(T), NEW p \in 1..Len(buf), NEW m \in 0..Len(buf) - p + 1,
         \A q \in p..p + m - 1 : buf[q] \in Cleared
  PROVE  Span(buf, p) >= m
<1>1. Len(buf) \in Nat BY LenProperties
<1>2. Span(buf, p) \in 0..Len(buf) - p + 1 /\ Runs(buf, p, Span(buf, p)) BY SpanIs
<1> SUFFICES ASSUME Span(buf, p) < m PROVE FALSE
  BY <1>1, <1>2
<1>3. p + Span(buf, p) <= Len(buf) /\ p + Span(buf, p) \in p..p + m - 1 BY <1>1, <1>2
<1> QED BY <1>2, <1>3 DEF Runs

LEMMA SpanAtMost ==
  ASSUME NEW T, NEW buf \in Seq(T), NEW p \in 1..Len(buf), NEW m \in 0..Len(buf) - p,
         buf[p + m] \notin Cleared
  PROVE  Span(buf, p) <= m
<1>1. Len(buf) \in Nat BY LenProperties
<1>2. Span(buf, p) \in 0..Len(buf) - p + 1 /\ Runs(buf, p, Span(buf, p)) BY SpanIs
<1> SUFFICES ASSUME ~(Span(buf, p) <= m) PROVE FALSE
  OBVIOUS
<1>3. p + m \in p..p + Span(buf, p) - 1 BY <1>1, <1>2
<1> QED BY <1>2, <1>3 DEF Runs

(* The text with the run at p replaced. *)
Replaced(buf, p) ==
  SubSeq(buf, 1, p - 1) \o <<Colon, Colon>> \o SubSeq(buf, p + Span(buf, p), Len(buf))

(* If any run is worth it, a longest is replaced. *)
LEMMA CompressedIs ==
  ASSUME NEW T, NEW buf \in Seq(T)
  PROVE  \/ Compressed(buf) = buf /\ \A q \in Starts(buf) : Span(buf, q) <= 2
         \/ \E p \in Starts(buf) :
              /\ Span(buf, p) > 2 /\ Compressed(buf) = Replaced(buf, p)
              /\ \A q \in Starts(buf) : Span(buf, q) <= Span(buf, p)
<1> DEFINE n == Len(buf)
           runs == {p \in Starts(buf) : Span(buf, p) > 2}
           Best(p) == \A q \in runs : Span(buf, q) < Span(buf, p) + (IF p <= q THEN 1 ELSE 0)
           best == CHOOSE p \in runs : Best(p)
<1>1. n \in Nat BY LenProperties
<1>2. Starts(buf) \subseteq 1..n BY DEF Starts
<1>3. \A q \in Starts(buf) : q \in 1..n /\ Span(buf, q) \in 0..n
  <2> SUFFICES ASSUME NEW q \in Starts(buf) PROVE q \in 1..n /\ Span(buf, q) \in 0..n
    OBVIOUS
  <2>1. q \in 1..n BY <1>2
  <2>2. Span(buf, q) \in 0..Len(buf) - q + 1 BY <2>1, SpanIs
  <2> QED BY <1>1, <2>1, <2>2
<1> HIDE DEF n
<1>4. CASE runs = {}
  <2>1. Compressed(buf) = buf BY <1>4 DEF Compressed
  <2>2. \A q \in Starts(buf) : ~(Span(buf, q) > 2) BY <1>4
  <2>3. \A q \in Starts(buf) : Span(buf, q) <= 2 BY <1>1, <1>3, <2>2
  <2> QED BY <2>1, <2>3
<1>5. CASE runs # {}
  <2> DEFINE lengths == {Span(buf, q) : q \in runs}
             most == Max(lengths)
             longest == {q \in runs : Span(buf, q) = most}
             from == {n - q : q \in longest}
  <2>1. lengths \in SUBSET (0..n) /\ lengths # {} BY <1>3, <1>5
  <2>2. most \in lengths /\ \A y \in lengths : most >= y BY <1>1, <2>1, MaxIs
  <2> HIDE DEF most
  <2>3. longest # {} BY <2>2
  <2>4. \A q \in runs : Span(buf, q) <= most BY <1>1, <1>3, <2>1, <2>2
  <2>5. from \in SUBSET (0..n) /\ from # {}
    <3>1. \A q \in longest : n - q \in 0..n BY <1>1, <1>3
    <3> QED BY <2>3, <3>1
  <2> HIDE DEF lengths
  <2>6. Max(from) \in from /\ \A y \in from : Max(from) >= y BY <1>1, <2>5, MaxIs
  <2>7. PICK p \in longest : Max(from) = n - p BY <2>6
  <2>8. \A q \in longest : p <= q
    <3> SUFFICES ASSUME NEW q \in longest PROVE p <= q OBVIOUS
    <3>1. n - p >= n - q BY <2>6, <2>7
    <3> QED BY <1>1, <1>3, <3>1
  <2>9. Best(p)
    <3> SUFFICES ASSUME NEW q \in runs
                 PROVE  Span(buf, q) < Span(buf, p) + (IF p <= q THEN 1 ELSE 0)
      OBVIOUS
    <3>1. Span(buf, q) <= Span(buf, p) /\ Span(buf, q) \in Nat /\ Span(buf, p) \in Nat
      BY <1>3, <2>4
    <3>2. CASE p <= q BY <3>1, <3>2
    <3>3. CASE ~(p <= q)
      <4>1. Span(buf, q) # Span(buf, p) BY <2>8, <3>3
      <4> QED BY <3>1, <3>3, <4>1
    <3> QED BY <3>2, <3>3
  <2> HIDE DEF Best
  <2>10. best \in runs /\ Best(best) BY <2>7, <2>9
  <2> HIDE DEF best
  <2>11. \A q \in runs : Span(buf, q) <= Span(buf, best)
    <3> SUFFICES ASSUME NEW q \in runs PROVE Span(buf, q) <= Span(buf, best) OBVIOUS
    <3>1. Span(buf, q) \in Nat /\ Span(buf, best) \in Nat BY <1>3, <2>10
    <3>2. Span(buf, q) < Span(buf, best) + (IF best <= q THEN 1 ELSE 0) BY <2>10 DEF Best
    <3>3. CASE best <= q BY <3>1, <3>2, <3>3
    <3>4. CASE ~(best <= q) BY <3>1, <3>2, <3>4
    <3> QED BY <3>3, <3>4
  <2>12. \A q \in Starts(buf) : Span(buf, q) <= Span(buf, best)
    <3> SUFFICES ASSUME NEW q \in Starts(buf), q \notin runs
                 PROVE  Span(buf, q) <= Span(buf, best)
      BY <2>11
    <3>1. Span(buf, q) \in Nat /\ Span(buf, best) \in Nat BY <1>3, <2>10
    <3>2. ~(Span(buf, q) > 2) /\ Span(buf, best) > 2 BY <2>10
    <3> QED BY <3>1, <3>2
  <2>13. Compressed(buf) = Replaced(buf, best) BY <1>5 DEF Compressed, Replaced, best, Best
  <2> QED BY <2>10, <2>12, <2>13
<1> QED BY <1>4, <1>5

-----------------------------------------------------------------------------
(* Eight groups, in hexadecimal.                                           *)
LEMMA AltEight ==
  ASSUME NEW s \in Seq(Nums), Len(s) = 8
  PROVE  /\ Alt(s, Colon) \in Seq(Tokens) /\ Len(Alt(s, Colon)) = 15
         /\ \A q \in 1..8 : Alt(s, Colon)[2 * q - 1] = s[q] /\ s[q] # Colon
         /\ \A q \in 1..7 : Alt(s, Colon)[2 * q] = Colon
         /\ Starts(Alt(s, Colon)) = {1} \cup {2 * q : q \in 1..7}
<1> DEFINE w == Alt(s, Colon)
<1>1. s \in Seq(Tokens) /\ Colon \in Tokens /\ s # <<>> BY TokensAre, SeqMonotonic, EmptySeq
<1>2. w \in Seq(Tokens) /\ Len(w) = 15
  <2>1. w \in Seq(Tokens) /\ Len(w) = 2 * Len(s) - 1 BY <1>1, AltIs
  <2> HIDE DEF w
  <2> QED BY <2>1
<1>3. ASSUME NEW k \in 1..15 PROVE w[k] = IF k % 2 = 1 THEN s[(k + 1) \div 2] ELSE Colon
  <2>1. 2 * Len(s) - 1 = 15 OBVIOUS
  <2>2. k \in 1..2 * Len(s) - 1 BY <2>1
  <2> QED BY <1>1, <2>2, AltAt, ZenonT(40)
<1> HIDE DEF w
<1>4. ASSUME NEW q \in 1..8 PROVE w[2 * q - 1] = s[q] /\ s[q] # Colon
  <2>1. 2 * q - 1 \in 1..15 /\ (2 * q - 1) % 2 = 1 /\ (2 * q - 1 + 1) \div 2 = q OBVIOUS
  <2>2. w[2 * q - 1] = s[(2 * q - 1 + 1) \div 2] BY <1>3, <2>1
  <2>3. s[q] \in Nums BY ElementOfSeq
  <2> QED BY <2>1, <2>2, <2>3, TokensAre
<1>5. ASSUME NEW q \in 1..7 PROVE w[2 * q] = Colon
  <2>1. 2 * q \in 1..15 /\ (2 * q) % 2 # 1 OBVIOUS
  <2> QED BY <1>3, <2>1
<1>6. Starts(w) = {1} \cup {2 * q : q \in 1..7}
  <2>1. ASSUME NEW p \in 1..15, p # 1, w[p] = Colon PROVE \E q \in 1..7 : p = 2 * q
    <3>1. CASE \E q \in 1..8 : p = 2 * q - 1 BY <1>4, <2>1, <3>1
    <3>2. CASE \E q \in 1..7 : p = 2 * q BY <3>2
    <3>3. (\E q \in 1..8 : p = 2 * q - 1) \/ (\E q \in 1..7 : p = 2 * q)
      <4>1. p = 2 * (p \div 2) \/ p = 2 * ((p + 1) \div 2) - 1 OBVIOUS
      <4>2. p = 2 * (p \div 2) => p \div 2 \in 1..7 OBVIOUS
      <4>3. (p + 1) \div 2 \in 1..8 OBVIOUS
      <4> QED BY <4>1, <4>2, <4>3
    <3> QED BY <3>1, <3>2, <3>3
  <2>2. \A q \in 1..7 : 2 * q \in 1..15 OBVIOUS
  <2>3. 1 \in 1..15 OBVIOUS
  <2> QED BY <1>2, <1>5, <2>1, <2>2, <2>3 DEF Starts
<1> QED BY <1>2, <1>4, <1>5, <1>6 DEF w

(* A run takes some zeros out, whole groups of them. *)
LEMMA RunCuts ==
  ASSUME NEW s \in Seq(Nums), Len(s) = 8,
         NEW p \in Starts(Alt(s, Colon)), Span(Alt(s, Colon), p) > 2
  PROVE  /\ Len(Replaced(Alt(s, Colon), p)) = 17 - Span(Alt(s, Colon), p)
         /\ \E j \in 0..7, k \in 1..8 :
              /\ j < k /\ \A q \in j + 1..k : s[q] = << 0 >>
              /\ Replaced(Alt(s, Colon), p) = Open(SubSeq(s, 1, j)) \o Alt(SubSeq(s, k + 1, 8), Colon)
<1> DEFINE w == Alt(s, Colon)
           n == Span(w, p)
           e == p + n - 1
           j == p \div 2
           k == (e + 1) \div 2
<1>1. /\ w \in Seq(Tokens) /\ Len(w) = 15
      /\ \A q \in 1..8 : w[2 * q - 1] = s[q] /\ s[q] # Colon
      /\ \A q \in 1..7 : w[2 * q] = Colon
      /\ p = 1 \/ \E q \in 1..7 : p = 2 * q
  BY AltEight, SMTT(60)
<1> HIDE DEF w
<1>2. p \in 1..14 /\ p \in 1..15 BY <1>1
<1>3. n \in 0..15 - p + 1 /\ Runs(w, p, n) BY <1>1, <1>2, SpanIs
<1>4. n > 2 BY DEF w
<1> HIDE DEF n
<1>5. e \in 3..15 /\ p + n = e + 1 /\ n = e - p + 1 /\ e >= p + 2 BY <1>2, <1>3, <1>4
<1>6. \A q \in p..e : w[q] \in Cleared BY <1>3 DEF Runs
<1>7. e < 15 => w[e + 1] \notin Cleared BY <1>1, <1>3, <1>5 DEF Runs
<1>8. (p = 1 /\ j = 0) \/ (p = 2 * j /\ j \in 1..7) BY <1>1
<1> HIDE DEF e
<1>9. (e = 15 /\ k = 8) \/ (e = 2 * k /\ k \in 1..7)
  <2>1. CASE e = 15 BY <2>1
  <2>2. CASE e < 15
    <3>1. \A q \in 1..7 : e + 1 # 2 * q BY <1>1, <1>7, <2>2 DEF Cleared
    <3>2. e = 2 * ((e + 1) \div 2) \/ e + 1 = 2 * ((e + 1) \div 2) BY <1>5
    <3>3. (e + 1) \div 2 \in 1..7 BY <1>5, <2>2
    <3> QED BY <3>1, <3>2, <3>3
  <2> QED BY <1>5, <2>1, <2>2
<1> HIDE DEF j, k
<1>10. j \in 0..7 /\ k \in 1..8 /\ j < k BY <1>5, <1>8, <1>9, SMTT(60)
<1>11. ASSUME NEW q \in j + 1..k PROVE s[q] = << 0 >>
  <2>1. q \in 1..8 /\ 2 * q - 1 \in p..e BY <1>5, <1>8, <1>9, <1>10
  <2>2. s[q] \in Cleared BY <1>1, <1>6, <2>1
  <2> QED BY <1>1, <2>1, <2>2 DEF Cleared
<1> DEFINE x == SubSeq(w, 1, p - 1)
           y == SubSeq(w, e + 1, 15)
           c == <<Colon, Colon>>
<1>12. x \o c \o y = Replaced(w, p) BY <1>1, <1>5 DEF Replaced, n
<1>13. x \in Seq(Tokens) /\ Len(x) = p - 1
  <2>1. p - 1 \in 0..Len(w) BY <1>1, <1>2
  <2> QED BY <1>1, <2>1, CutAt
<1>14. y \in Seq(Tokens) /\ Len(y) = 15 - e
  <2>1. e \in 0..Len(w) BY <1>1, <1>5
  <2>2. SubSeq(w, e + 1, Len(w)) \in Seq(Tokens) /\ Len(SubSeq(w, e + 1, Len(w))) = Len(w) - e
    BY <1>1, <2>1, CutAt
  <2> QED BY <1>1, <2>2
<1>15. c \in Seq(Tokens) /\ Len(c) = 2 BY TokensAre
<1>16. x = Alt(SubSeq(s, 1, j), Colon)
  <2>1. CASE p = 1 /\ j = 0
    <3>1. x = <<>> /\ SubSeq(s, 1, j) = <<>>
      <4>1. p - 1 = 0 BY <2>1
      <4>2. SubSeq(w, 1, 0) = <<>> /\ SubSeq(s, 1, 0) = <<>> BY SubSeqEmpty
      <4> QED BY <2>1, <4>1, <4>2
    <3> QED BY <3>1, AltEmpty
  <2>2. CASE p = 2 * j /\ j \in 1..7
    <3> DEFINE u == SubSeq(s, 1, j)
               v == SubSeq(s, j + 1, Len(s))
    <3>1. j \in 0..Len(s) BY <1>10
    <3>2. u \in Seq(Nums) /\ Len(u) = j /\ v \in Seq(Nums) /\ u \o v = s BY <3>1, CutAt
    <3> HIDE DEF u, v
    <3>3. u # <<>> BY <2>2, <3>2, EmptySeq
    <3>4. u \in Seq(Tokens) /\ v \in Seq(Tokens) /\ Colon \in Tokens
      BY <3>2, TokensAre, SeqMonotonic
    <3>5. SubSeq(Alt(u \o v, Colon), 1, 2 * Len(u) - 1) = Alt(u, Colon) BY <3>3, <3>4, AltCut
    <3> QED BY <2>2, <3>2, <3>5 DEF u, w
  <2> QED BY <1>8, <2>1, <2>2
<1>17. y = Alt(SubSeq(s, k + 1, 8), Colon)
  <2>1. CASE e = 15 /\ k = 8
    <3>1. y = <<>> /\ SubSeq(s, k + 1, 8) = <<>>
      <4>1. SubSeq(w, 16, 15) = <<>> /\ SubSeq(s, 9, 8) = <<>> BY SubSeqEmpty
      <4> QED BY <2>1, <4>1
    <3> QED BY <3>1, AltEmpty
  <2>2. CASE e = 2 * k /\ k \in 1..7
    <3> DEFINE u == SubSeq(s, 1, k)
               v == SubSeq(s, k + 1, Len(s))
    <3>1. k \in 0..Len(s) BY <1>10
    <3>2. /\ u \in Seq(Nums) /\ Len(u) = k /\ v \in Seq(Nums) /\ Len(v) = Len(s) - k
          /\ u \o v = s
      BY <3>1, CutAt
    <3> HIDE DEF u, v
    <3>3. v # <<>>
      <4>1. Len(v) # 0 BY <2>2, <3>2
      <4> QED BY <4>1, EmptySeq
    <3>4. u \in Seq(Tokens) /\ v \in Seq(Tokens) /\ Colon \in Tokens
      BY <3>2, TokensAre, SeqMonotonic
    <3>5. SubSeq(Alt(u \o v, Colon), 2 * Len(u) + 1, Len(Alt(u \o v, Colon))) = Alt(v, Colon)
      BY <3>3, <3>4, AltCut
    <3>6. SubSeq(w, 2 * k + 1, Len(w)) = Alt(v, Colon) BY <3>2, <3>5 DEF w
    <3> QED BY <1>1, <2>2, <3>6 DEF v
  <2> QED BY <1>9, <2>1, <2>2
<1> HIDE DEF x, y, c
<1>18. Len(x \o c \o y) = 17 - n
  <2>1. x \o c \in Seq(Tokens) /\ Len(x \o c) = Len(x) + Len(c) BY <1>13, <1>15, ConcatProperties
  <2>2. Len((x \o c) \o y) = Len(x \o c) + Len(y) BY <1>14, <2>1, ConcatProperties
  <2>3. Len((x \o c) \o y) = (p - 1) + 2 + (15 - e) BY <1>13, <1>14, <1>15, <2>1, <2>2
  <2>4. (p - 1) + 2 + (15 - e) = 17 - n BY <1>2, <1>5
  <2> QED BY <2>3, <2>4
<1>19. x \o c \o y = Open(SubSeq(s, 1, j)) \o Alt(SubSeq(s, k + 1, 8), Colon)
  BY <1>16, <1>17 DEF Open, c
<1> QED BY <1>10, <1>11, <1>12, <1>18, <1>19 DEF w, n

(* The groups that are left say which number it was. *)
LEMMA CutDenotes ==
  ASSUME NEW a \in Seq(Sixteen), Len(a) = 8, NEW j \in 0..7, NEW k \in 1..8, j < k,
         \A q \in j + 1..k : a[q] = 0
  PROVE  LET s == Spelled(a, 16)
         IN Denoted6(Open(SubSeq(s, 1, j)) \o Alt(SubSeq(s, k + 1, 8), Colon)) = {a}
<1> DEFINE s == Spelled(a, 16)
           l == SubSeq(s, 1, j)
           r == SubSeq(s, k + 1, Len(s))
<1>1. /\ s \in Seq(Nums) /\ Len(s) = 8
      /\ \A q \in 1..8 : IsGroup(s[q]) /\ Value(s[q], 16) = a[q]
  BY SpelledGroups
<1> HIDE DEF s
<1>1a. \A q \in 1..8 : s[q] \in Nums
  <2>1. \A q \in 1..Len(s) : s[q] \in Nums BY <1>1, ElementOfSeq
  <2> QED BY <1>1, <2>1
<1>2. l \in Seq(Nums) /\ Len(l) = j
  <2>1. j \in 0..Len(s) BY <1>1
  <2> QED BY <1>1, <2>1, CutAt
<1>3. r \in Seq(Nums) /\ Len(r) = 8 - k
  <2>1. k \in 0..Len(s) BY <1>1
  <2>2. r \in Seq(Nums) /\ Len(r) = Len(s) - k BY <1>1, <2>1, CutAt
  <2> QED BY <1>1, <2>2
<1>4. \A q \in 1..j : l[q] = s[q]
  <2>1. \A q \in 1..j : s[q] \in Nums BY <1>1a
  <2>2. \A q \in 1..j - 1 + 1 : l[q] = s[1 + q - 1] BY <2>1, SubSeqProperties
  <2>3. \A q \in 1..j : q \in 1..j - 1 + 1 /\ 1 + q - 1 = q OBVIOUS
  <2> QED BY <2>2, <2>3
<1>5. \A q \in 1..8 - k : r[q] = s[k + q]
  <2>1. \A q \in k + 1..8 : s[q] \in Nums BY <1>1a
  <2>2. r = SubSeq(s, k + 1, 8) BY <1>1
  <2>3. \A q \in 1..8 - (k + 1) + 1 : SubSeq(s, k + 1, 8)[q] = s[k + 1 + q - 1]
    BY <2>1, SubSeqProperties
  <2>4. \A q \in 1..8 - k : q \in 1..8 - (k + 1) + 1 /\ k + 1 + q - 1 = k + q OBVIOUS
  <2> HIDE DEF r
  <2> QED BY <2>2, <2>3, <2>4
<1> HIDE DEF l, r
<1> DEFINE lr == l \o r
           o == <<>>
           W == Worth(lr, o)
           m == j + (8 - k)
<1>6. o \in Seq(Nums) /\ Len(o) = 0 BY EmptySeq
<1>7. /\ lr \in Seq(Nums) /\ Len(lr) = m
      /\ \A q \in 1..m : lr[q] = IF q <= j THEN l[q] ELSE r[q - j]
  <2>1. lr \in Seq(Nums) /\ Len(lr) = Len(l) + Len(r) BY <1>2, <1>3, ConcatProperties
  <2>2. \A q \in 1..Len(l) + Len(r) : lr[q] = IF q <= Len(l) THEN l[q] ELSE r[q - Len(l)]
    BY <1>2, <1>3, ConcatProperties
  <2> HIDE DEF lr
  <2> QED BY <1>2, <1>3, <2>1, <2>2
<1> HIDE DEF lr
<1>8. m \in 0..7 /\ j \in 0..m OBVIOUS
<1>9. W \in Seq(Halves(o)) /\ Len(W) = m /\ \A q \in 1..m : W[q] = Value(lr[q], 16)
  <2>1. Len(W) = Len(lr) + IF o = <<>> THEN 0 ELSE 2 BY <1>7, WorthIs
  <2>2. W \in Seq(Halves(o)) /\ \A q \in 1..Len(lr) : W[q] = Value(lr[q], 16) BY <1>7, WorthIs
  <2> HIDE DEF W, m
  <2> QED BY <1>7, <1>8, <2>1, <2>2
<1> DEFINE G == Widened(W, j, m)
           H == Halves(o)
<1>10. 0 \in H BY DEF Halves, Words
<1> HIDE DEF H, W
<1>11. /\ G \in Seq(H) /\ Len(G) = 8
       /\ \A q \in 1..8 : G[q] = IF q <= j THEN W[q]
                                 ELSE IF q <= j + (8 - m) THEN 0 ELSE W[q - (8 - m)]
  <2>1. W \in Seq(H) /\ Len(W) = m BY <1>9 DEF H
  <2> HIDE DEF m
  <2> QED BY <1>8, <1>10, <2>1, WidenedAt, ZenonT(40)
<1>12. \A q \in 1..8 : a[q] = G[q]
  <2> SUFFICES ASSUME NEW q \in 1..8 PROVE a[q] = G[q] OBVIOUS
  <2>0. j + (8 - m) = k /\ 8 - m = k - j OBVIOUS
  <2>1. CASE q <= j
    <3>1. q \in 1..j /\ q \in 1..m BY <1>8, <2>1
    <3>2. G[q] = W[q] BY <1>11, <2>1
    <3>3. W[q] = Value(lr[q], 16) BY <1>9, <3>1
    <3>4. lr[q] = l[q] BY <1>7, <2>1, <3>1
    <3>5. l[q] = s[q] BY <1>4, <3>1
    <3> QED BY <1>1, <3>2, <3>3, <3>4, <3>5
  <2>2. CASE ~(q <= j) /\ q <= k
    <3>1. q \in j + 1..k BY <2>2
    <3>2. G[q] = 0 BY <1>11, <2>0, <2>2
    <3> QED BY <3>1, <3>2
  <2>3. CASE ~(q <= k)
    <3>1. /\ q - (k - j) \in 1..m /\ ~(q - (k - j) <= j) /\ q - (k - j) - j = q - k
          /\ q - k \in 1..8 - k /\ k + (q - k) = q /\ ~(q <= j)
      BY <2>3
    <3>2. G[q] = W[q - (k - j)] BY <1>11, <2>0, <2>3, <3>1
    <3>3. W[q - (k - j)] = Value(lr[q - (k - j)], 16) BY <1>9, <3>1
    <3>4. lr[q - (k - j)] = r[q - k] BY <1>7, <3>1
    <3>5. r[q - k] = s[q] BY <1>5, <3>1
    <3> QED BY <1>1, <3>2, <3>3, <3>4, <3>5
  <2> QED BY <2>1, <2>2, <2>3
<1>13. a = G
  <2>1. a = [q \in 1..8 |-> a[q]] BY LenProperties
  <2> HIDE DEF G
  <2> QED BY <1>11, <1>12, <2>1, SameSeq
<1>14. PICK b \in {-1, 0} : b = 0 OBVIOUS
<1>15. ~(b < 0) BY <1>14
<1>16. Room(l, r, o) = m /\ Room(l, r, o) < 8
  <2>1. Room(l, r, o) = Len(l) + Len(r) + 0 BY DEF Room
  <2> QED BY <1>2, <1>3, <1>8, <2>1
<1>17. Body(l, b, r, o) = Open(l) \o Alt(r, Colon) BY <1>15 DEF Body, Whole
<1>18. Read6(l, b, r, o) = G
  <2>1. Len(W) = m /\ Len(l) = j BY <1>2, <1>9
  <2>2. Read6(l, b, r, o) = SubSeq(W, 1, Len(l)) \o Zeros(8 - Len(W)) \o SubSeq(W, Len(l) + 1, Len(W))
    BY <1>15 DEF Read6, W, lr
  <2> QED BY <2>1, <2>2 DEF Widened
<1>19. /\ \A q \in 1..Len(l) : IsGroup(l[q])
       /\ \A q \in 1..Len(r) : IsGroup(r[q])
       /\ \A q \in 1..Len(o) : IsByte(o[q])
  <2>1. ASSUME NEW q \in 1..Len(l) PROVE IsGroup(l[q])
    <3>1. q \in 1..j /\ q \in 1..8 BY <1>2
    <3> QED BY <1>1, <1>4, <3>1
  <2>2. ASSUME NEW q \in 1..Len(r) PROVE IsGroup(r[q])
    <3>1. q \in 1..8 - k /\ k + q \in 1..8 BY <1>3
    <3> QED BY <1>1, <1>5, <3>1
  <2>3. 1..Len(o) = {} BY <1>6
  <2> QED BY <2>1, <2>2, <2>3
<1> HIDE DEF o, G, m
<1>20. Denoted6(Body(l, b, r, o)) = {Read6(l, b, r, o)}
  <2>1. Len(o) \in {0, 4} /\ (b < 0 => r = <<>>) BY <1>6, <1>15
  <2>2. IF b < 0 THEN Room(l, r, o) = 8 ELSE Room(l, r, o) < 8 BY <1>15, <1>16
  <2> QED BY <1>2, <1>3, <1>6, <1>19, <2>1, <2>2, DenotesSix, ZenonT(40)
<1> QED BY <1>1, <1>13, <1>17, <1>18, <1>20 DEF s, l, r

LEMMA WholeDenotes ==
  ASSUME NEW a \in Seq(Sixteen), Len(a) = 8
  PROVE  Denoted6(Alt(Spelled(a, 16), Colon)) = {a}
<1> DEFINE s == Spelled(a, 16)
           o == <<>>
           W == Worth(s, o)
<1>1. /\ s \in Seq(Nums) /\ Len(s) = 8
      /\ \A q \in 1..8 : IsGroup(s[q]) /\ Value(s[q], 16) = a[q]
  BY SpelledGroups
<1> HIDE DEF s
<1>2. o \in Seq(Nums) /\ Len(o) = 0 /\ s \o o = s BY <1>1, EmptySeq, ConcatEmptySeq
<1>3. PICK b \in {-1, 0} : b = -1 OBVIOUS
<1>4. b < 0 BY <1>3
<1>5. Room(s, o, o) = 8
  <2>1. Room(s, o, o) = Len(s) + Len(o) + 0 BY DEF Room
  <2> QED BY <1>1, <1>2, <2>1
<1>6. Body(s, b, o, o) = Alt(s, Colon) BY <1>4 DEF Body, Whole
<1>7. Read6(s, b, o, o) = W BY <1>2, <1>4 DEF Read6
<1>8. W \in Seq(Halves(o)) /\ Len(W) = 8 /\ \A q \in 1..8 : W[q] = a[q]
  <2>1. Len(W) = Len(s) + IF o = <<>> THEN 0 ELSE 2 BY <1>1, WorthIs
  <2>2. W \in Seq(Halves(o)) /\ \A q \in 1..Len(s) : W[q] = Value(s[q], 16) BY <1>1, WorthIs
  <2> HIDE DEF W
  <2> QED BY <1>1, <2>1, <2>2
<1> HIDE DEF W
<1>9. a = W
  <2>1. a = [q \in 1..8 |-> a[q]] BY LenProperties
  <2> QED BY <1>8, <2>1, SameSeq
<1>10. \A q \in 1..Len(o) : IsGroup(o[q]) /\ IsByte(o[q])
  <2>1. 1..Len(o) = {} BY <1>2
  <2> QED BY <2>1
<1> HIDE DEF o
<1>11. PICK r \in Seq(Nums) : r = o BY <1>2
<1>12. Denoted6(Body(s, b, r, o)) = {Read6(s, b, r, o)}
  <2>1. Len(o) \in {0, 4} /\ (b < 0 => r = <<>>) BY <1>2, <1>11 DEF o
  <2>2. IF b < 0 THEN Room(s, r, o) = 8 ELSE Room(s, r, o) < 8 BY <1>4, <1>5, <1>11
  <2>3. \A q \in 1..Len(s) : IsGroup(s[q]) BY <1>1
  <2>4. \A q \in 1..Len(r) : IsGroup(r[q]) BY <1>10, <1>11
  <2>5. \A q \in 1..Len(o) : IsByte(o[q]) BY <1>10
  <2>6. s \in Seq(Nums) /\ r \in Seq(Nums) /\ o \in Seq(Nums) BY <1>1, <1>2, <1>11
  <2> QED BY <2>1, <2>2, <2>3, <2>4, <2>5, <2>6, DenotesSix, ZenonT(40)
<1> QED BY <1>6, <1>7, <1>9, <1>11, <1>12 DEF s

(* How much of the text the groups from j + 1 to k, and the colons beside  *)
(* them, take up.                                                          *)
RunFrom(j) == IF j = 0 THEN 1 ELSE 2 * j
RunTo(k) == IF k = 8 THEN 15 ELSE 2 * k
Covered(j, k) == RunTo(k) - RunFrom(j) + 1

LEMMA ZerosRun ==
  ASSUME NEW s \in Seq(Nums), Len(s) = 8, NEW j \in 0..7, NEW k \in 1..8, j < k,
         \A q \in j + 1..k : s[q] = << 0 >>
  PROVE  /\ RunFrom(j) \in Starts(Alt(s, Colon))
         /\ Span(Alt(s, Colon), RunFrom(j)) >= Covered(j, k)
<1> DEFINE w == Alt(s, Colon)
           p == RunFrom(j)
           e == RunTo(k)
           m == Covered(j, k)
<1>1. /\ w \in Seq(Tokens) /\ Len(w) = 15
      /\ \A q \in 1..8 : w[2 * q - 1] = s[q]
      /\ \A q \in 1..7 : w[2 * q] = Colon
      /\ Starts(w) = {1} \cup {2 * q : q \in 1..7}
  BY AltEight
<1> HIDE DEF w
<1>2. (j = 0 /\ p = 1) \/ (j \in 1..7 /\ p = 2 * j) BY DEF RunFrom
<1>3. (k = 8 /\ e = 15) \/ (k \in 1..7 /\ e = 2 * k) BY DEF RunTo
<1>4. m = e - p + 1 BY DEF Covered
<1> HIDE DEF p, e, m
<1>5. p \in Starts(w) BY <1>1, <1>2
<1>6. p \in 1..15 /\ e \in p..15 /\ m \in 0..15 - p + 1 /\ p + m - 1 = e BY <1>2, <1>3, <1>4, SMTT(60)
<1>7. ASSUME NEW x \in p..e PROVE w[x] \in Cleared
  <2>0. x \in 1..15 BY <1>6
  <2>1. (\E q \in 1..8 : x = 2 * q - 1) \/ (\E q \in 1..7 : x = 2 * q)
    <3>1. x = 2 * (x \div 2) \/ x = 2 * ((x + 1) \div 2) - 1 BY <2>0
    <3>2. x = 2 * (x \div 2) => x \div 2 \in 1..7 BY <2>0
    <3>3. (x + 1) \div 2 \in 1..8 BY <2>0
    <3> QED BY <3>1, <3>2, <3>3
  <2>2. CASE \E q \in 1..8 : x = 2 * q - 1
    <3>1. PICK q \in 1..8 : x = 2 * q - 1 BY <2>2
    <3>2. q \in j + 1..k
      <4>1. q >= j + 1 BY <1>2, <1>6, <3>1
      <4>2. q <= k BY <1>3, <1>6, <3>1
      <4> QED BY <4>1, <4>2
    <3> QED BY <1>1, <3>1, <3>2 DEF Cleared
  <2>3. CASE \E q \in 1..7 : x = 2 * q BY <1>1, <2>3 DEF Cleared
  <2> QED BY <2>1, <2>2, <2>3
<1>8. Span(w, p) >= m
  <2>1. p \in 1..Len(w) /\ m \in 0..Len(w) - p + 1 BY <1>1, <1>6
  <2>2. \A x \in p..p + m - 1 : w[x] \in Cleared BY <1>6, <1>7
  <2> QED BY <1>1, <2>1, <2>2, SpanAtLeast
<1> QED BY <1>5, <1>8 DEF w, p, m

(* What ToString shows of eight groups denotes them, and no run of zeros   *)
(* would have shortened it more.                                           *)
LEMMA SixShown ==
  ASSUME NEW a \in Seq(Sixteen), Len(a) = 8, ~Mapped(a)
  PROVE  /\ Denoted6(Ntop(a)) = {a}
         /\ Len(Ntop(a)) \in Int /\ Len(Ntop(a)) <= 15
         /\ \A j \in 0..7, k \in 1..8 :
              j < k /\ (\A q \in j + 1..k : a[q] = 0) /\ Covered(j, k) > 2
                => Len(Ntop(a)) <= 17 - Covered(j, k)
<1> DEFINE s == Spelled(a, 16)
           w == Alt(s, Colon)
<1>1. /\ s \in Seq(Nums) /\ Len(s) = 8
      /\ \A q \in 1..8 : a[q] = 0 <=> s[q] = << 0 >>
  BY SpelledGroups
<1>2. Plain(a) = w
  <2>1. Len(s) = Len(a) BY <1>1
  <2>2. Printed(a, 16, Colon) = w BY <1>1, <2>1, PrintedIs
  <2> QED BY <2>2 DEF Plain
<1>3. Ntop(a) = Compressed(w) BY <1>2 DEF Ntop
<1> HIDE DEF s
<1>4. w \in Seq(Tokens) /\ Len(w) = 15 /\ Starts(w) \subseteq 1..15
  <2>1. w \in Seq(Tokens) /\ Len(w) = 15 /\ Starts(w) = {1} \cup {2 * q : q \in 1..7}
    BY <1>1, AltEight
  <2> HIDE DEF w
  <2> QED BY <2>1
<1>5. ASSUME NEW j \in 0..7, NEW k \in 1..8, j < k, \A q \in j + 1..k : a[q] = 0
      PROVE  RunFrom(j) \in Starts(w) /\ Span(w, RunFrom(j)) >= Covered(j, k)
  <2>1. \A q \in j + 1..k : s[q] = << 0 >> BY <1>1, <1>5
  <2> QED BY <1>1, <1>5, <2>1, ZerosRun
<1> HIDE DEF w
<1>6. \A q \in Starts(w) : Span(w, q) \in Nat
  <2> SUFFICES ASSUME NEW q \in Starts(w) PROVE Span(w, q) \in Nat
    OBVIOUS
  <2>1. q \in 1..Len(w) BY <1>4
  <2>2. Span(w, q) \in 0..Len(w) - q + 1 BY <1>4, <2>1, SpanIs
  <2> QED BY <1>4, <2>1, <2>2
<1>7. \A j \in 0..7, k \in 1..8 : Covered(j, k) \in Int BY DEF Covered, RunFrom, RunTo
<1>8. CASE Compressed(w) = w /\ \A q \in Starts(w) : Span(w, q) <= 2
  <2>1. ASSUME NEW j \in 0..7, NEW k \in 1..8, j < k, \A q \in j + 1..k : a[q] = 0
        PROVE  ~(Covered(j, k) > 2)
    <3>1. RunFrom(j) \in Starts(w) /\ Span(w, RunFrom(j)) >= Covered(j, k) BY <1>5, <2>1
    <3>2. Span(w, RunFrom(j)) <= 2 /\ Span(w, RunFrom(j)) \in Nat BY <1>6, <1>8, <3>1
    <3> DEFINE c == Covered(j, k)
               n == Span(w, RunFrom(j))
    <3>3. c \in Int /\ n \in Nat /\ n >= c /\ n <= 2 BY <1>7, <3>1, <3>2
    <3> HIDE DEF c, n
    <3>4. ~(c > 2) BY <3>3
    <3> QED BY <3>4 DEF c
  <2>2. Denoted6(w) = {a} BY WholeDenotes DEF w, s
  <2>3. Len(Ntop(a)) \in Int /\ Len(Ntop(a)) <= 15
    <3>1. Ntop(a) = w BY <1>3, <1>8
    <3>2. Len(Ntop(a)) = 15 BY <1>4, <3>1
    <3> QED BY <3>2
  <2> QED BY <1>3, <1>8, <2>1, <2>2, <2>3
<1>9. CASE \E p \in Starts(w) :
             /\ Span(w, p) > 2 /\ Compressed(w) = Replaced(w, p)
             /\ \A q \in Starts(w) : Span(w, q) <= Span(w, p)
  <2>1. PICK p \in Starts(w) : /\ Span(w, p) > 2 /\ Compressed(w) = Replaced(w, p)
                               /\ \A q \in Starts(w) : Span(w, q) <= Span(w, p)
    BY <1>9
  <2>2. Len(Replaced(w, p)) = 17 - Span(w, p) BY <1>1, <2>1, RunCuts DEF w
  <2>3. PICK j \in 0..7, k \in 1..8 :
          /\ j < k /\ \A q \in j + 1..k : s[q] = << 0 >>
          /\ Replaced(w, p) = Open(SubSeq(s, 1, j)) \o Alt(SubSeq(s, k + 1, 8), Colon)
    BY <1>1, <2>1, RunCuts DEF w
  <2>4. \A q \in j + 1..k : a[q] = 0 BY <1>1, <2>3
  <2>5. Denoted6(Replaced(w, p)) = {a} BY <2>3, <2>4, CutDenotes DEF s
  <2>6. ASSUME NEW x \in 0..7, NEW y \in 1..8, x < y, \A q \in x + 1..y : a[q] = 0
        PROVE  Len(Replaced(w, p)) <= 17 - Covered(x, y)
    <3>1. RunFrom(x) \in Starts(w) /\ Span(w, RunFrom(x)) >= Covered(x, y) BY <1>5, <2>6
    <3>2. Span(w, RunFrom(x)) <= Span(w, p) BY <2>1, <3>1
    <3>3. Span(w, RunFrom(x)) \in Nat /\ Span(w, p) \in Nat BY <1>6, <3>1
    <3> DEFINE c == Covered(x, y)
               n == Span(w, RunFrom(x))
               m == Span(w, p)
               h == Len(Replaced(w, p))
    <3>4. c \in Int /\ n \in Nat /\ m \in Nat /\ n >= c /\ n <= m /\ h = 17 - m
      BY <1>7, <2>2, <3>1, <3>2, <3>3
    <3> HIDE DEF c, n, m, h
    <3>5. h <= 17 - c BY <3>4
    <3> QED BY <3>5 DEF c, h
  <2>7. Len(Replaced(w, p)) \in Int /\ Len(Replaced(w, p)) <= 15 BY <1>6, <2>1, <2>2
  <2> QED BY <1>3, <2>1, <2>5, <2>6, <2>7
<1>10. \/ Compressed(w) = w /\ \A q \in Starts(w) : Span(w, q) <= 2
       \/ \E p \in Starts(w) :
            /\ Span(w, p) > 2 /\ Compressed(w) = Replaced(w, p)
            /\ \A q \in Starts(w) : Span(w, q) <= Span(w, p)
  BY <1>4, CompressedIs
<1> QED BY <1>8, <1>9, <1>10

(* What is read is made of groups, or of bytes. *)
LEMMA GroupBound ==
  ASSUME NEW x \in 0..15, NEW y \in 0..15, NEW c \in 0..15, NEW d \in 0..15
  PROVE  /\ 16 * (16 * (16 * x + y) + c) + d \in Sixteen
         /\ 16 * (16 * y + c) + d \in Sixteen /\ 16 * c + d \in Sixteen /\ d \in Sixteen
BY SMT DEF Sixteen

LEMMA GroupValue ==
  ASSUME NEW n \in Nums, IsGroup(n) PROVE Value(n, 16) \in Sixteen
<1>1. n \in Seq(0..15) /\ n # <<>> BY DEF Nums
<1>2. Len(n) \in Nat /\ Len(n) <= 4 /\ Len(n) # 0 BY <1>1, LenProperties, EmptySeq DEF IsGroup
<1>3. PICK b \in {10, 16} : b = 16 OBVIOUS
<1>4. \A k \in 1..Len(n) : n[k] \in 0..15 BY <1>1, ElementOfSeq
<1>5. /\ Len(n) = 1 => Value(n, 16) = n[1]
      /\ Len(n) = 2 => Value(n, 16) = 16 * n[1] + n[2]
      /\ Len(n) = 3 => Value(n, 16) = 16 * (16 * n[1] + n[2]) + n[3]
      /\ Len(n) = 4 => Value(n, 16) = 16 * (16 * (16 * n[1] + n[2]) + n[3]) + n[4]
  <2>1. /\ Len(n) = 1 => Value(n, b) = n[1]
        /\ Len(n) = 2 => Value(n, b) = b * n[1] + n[2]
        /\ Len(n) = 3 => Value(n, b) = b * (b * n[1] + n[2]) + n[3]
        /\ Len(n) = 4 => Value(n, b) = b * (b * (b * n[1] + n[2]) + n[3]) + n[4]
    BY <1>1, ValueIs
  <2> QED BY <1>3, <2>1
<1>6. PICK len \in Nat : len = Len(n) /\ len <= 4 /\ len # 0 BY <1>2
<1>7. len = 1 \/ len = 2 \/ len = 3 \/ len = 4 BY <1>6, SMTT(60)
<1>8. 0 \in 0..15 OBVIOUS
<1>9. CASE Len(n) = 1
  <2>1. n[1] \in 0..15 BY <1>4, <1>9
  <2> QED BY <1>5, <1>8, <1>9, <2>1, GroupBound, ZenonT(40)
<1>10. CASE Len(n) = 2
  <2>1. n[1] \in 0..15 /\ n[2] \in 0..15 BY <1>4, <1>10
  <2> QED BY <1>5, <1>8, <1>10, <2>1, GroupBound, ZenonT(40)
<1>11. CASE Len(n) = 3
  <2>1. n[1] \in 0..15 /\ n[2] \in 0..15 /\ n[3] \in 0..15 BY <1>4, <1>11
  <2>2. PICK y \in 0..15, c \in 0..15, d \in 0..15 : y = n[1] /\ c = n[2] /\ d = n[3] BY <2>1
  <2>3. 16 * (16 * y + c) + d \in Sixteen BY <1>8, GroupBound, ZenonT(40)
  <2>4. Value(n, 16) = 16 * (16 * y + c) + d BY <1>5, <1>11, <2>2
  <2> QED BY <2>3, <2>4
<1>12. CASE Len(n) = 4
  <2>1. n[1] \in 0..15 /\ n[2] \in 0..15 /\ n[3] \in 0..15 /\ n[4] \in 0..15 BY <1>4, <1>12, SMTT(60)
  <2>2. PICK x \in 0..15, y \in 0..15, c \in 0..15, d \in 0..15 :
          x = n[1] /\ y = n[2] /\ c = n[3] /\ d = n[4]
    BY <2>1, ZenonT(40)
  <2>3. 16 * (16 * (16 * x + y) + c) + d \in Sixteen BY GroupBound, ZenonT(40)
  <2>4. Value(n, 16) = 16 * (16 * (16 * x + y) + c) + d BY <1>5, <1>12, <2>2
  <2> QED BY <2>3, <2>4
<1> QED BY <1>6, <1>7, <1>9, <1>10, <1>11, <1>12, Zenon

LEMMA ByteValue ==
  ASSUME NEW n \in Nums, IsByte(n) PROVE Value(n, 10) \in 0..255
<1>1. n \in Seq(0..15) /\ n # <<>> BY DEF Nums
<1>2. Len(n) \in Nat /\ Len(n) <= 3 /\ Len(n) # 0 BY <1>1, LenProperties, EmptySeq DEF IsByte
<1>3. PICK b \in {10, 16} : b = 10 OBVIOUS
<1>4. \A k \in 1..Len(n) : n[k] \in 0..15 BY <1>1, ElementOfSeq
<1>5. /\ Len(n) = 1 => Value(n, 10) = n[1]
      /\ Len(n) = 2 => Value(n, 10) = 10 * n[1] + n[2]
      /\ Len(n) = 3 => Value(n, 10) = 10 * (10 * n[1] + n[2]) + n[3]
  <2>1. /\ Len(n) = 1 => Value(n, b) = n[1]
        /\ Len(n) = 2 => Value(n, b) = b * n[1] + n[2]
        /\ Len(n) = 3 => Value(n, b) = b * (b * n[1] + n[2]) + n[3]
    BY <1>1, ValueIs
  <2> QED BY <1>3, <2>1
<1>6. Value(n, 10) \in Int /\ 0 <= Value(n, 10)
  <2>0. Len(n) = 1 \/ Len(n) = 2 \/ Len(n) = 3
    <3>1. PICK len \in Nat : len = Len(n) /\ len <= 3 /\ len # 0 BY <1>2
    <3>2. len = 1 \/ len = 2 \/ len = 3 BY <3>1
    <3> QED BY <3>1, <3>2
  <2>1. CASE Len(n) = 1
    <3>1. n[1] \in 0..15 BY <1>4, <2>1
    <3> QED BY <1>5, <2>1, <3>1
  <2>2. CASE Len(n) = 2
    <3>1. n[1] \in 0..15 /\ n[2] \in 0..15 BY <1>4, <2>2
    <3> QED BY <1>5, <2>2, <3>1
  <2>3. CASE Len(n) = 3
    <3>1. n[1] \in 0..15 /\ n[2] \in 0..15 /\ n[3] \in 0..15 BY <1>4, <2>3
    <3> QED BY <1>5, <2>3, <3>1
  <2> QED BY <2>0, <2>1, <2>2, <2>3, Zenon
<1>7. Value(n, 10) <= 255 BY DEF IsByte
<1> QED BY <1>6, <1>7

LEMMA BytesRead ==
  ASSUME NEW o \in Seq(Nums), \A k \in 1..Len(o) : IsByte(o[k])
  PROVE  Values(o, 10) \in Seq(0..255) /\ Len(Values(o, 10)) = Len(o)
<1>1. Len(o) \in Nat /\ \A k \in 1..Len(o) : o[k] \in Nums BY LenProperties, ElementOfSeq
<1>2. \A k \in 1..Len(o) : Value(o[k], 10) \in 0..255 BY <1>1, ByteValue
<1> QED BY <1>1, <1>2 DEF Values

LEMMA PairRead ==
  ASSUME NEW o \in Seq(Nums), Len(o) = 4, \A k \in 1..Len(o) : IsByte(o[k]), NEW j \in {1, 3}
  PROVE  PairOf(Values(o, 10), j) \in Sixteen
<1> DEFINE bs == Values(o, 10)
<1>1. bs \in Seq(0..255) /\ Len(bs) = 4 BY BytesRead
<1> HIDE DEF bs
<1>2. bs[j] \in 0..255 /\ bs[j + 1] \in 0..255
  <2>1. j \in 1..Len(bs) /\ j + 1 \in 1..Len(bs) BY <1>1
  <2> QED BY <1>1, <2>1, ElementOfSeq, ZenonT(40)
<1>3. PICK x \in 0..255, y \in 0..255 : x = bs[j] /\ y = bs[j + 1] BY <1>2, ZenonT(40)
<1>4. 256 * x + y \in Sixteen BY SMT DEF Sixteen
<1> QED BY <1>3, <1>4 DEF PairOf, bs

LEMMA WorthRead ==
  ASSUME NEW s \in Seq(Nums), \A k \in 1..Len(s) : IsGroup(s[k]),
         NEW o \in Seq(Nums), Len(o) \in {0, 4}, \A k \in 1..Len(o) : IsByte(o[k])
  PROVE  Worth(s, o) \in Seq(Sixteen)
<1> DEFINE W == Worth(s, o)
<1>1. W \in Seq(Halves(o)) BY WorthIs
<1>2. /\ Len(W) = Len(s) + IF o = <<>> THEN 0 ELSE 2
      /\ \A k \in 1..Len(s) : W[k] = Value(s[k], 16)
      /\ o # <<>> => /\ W[Len(s) + 1] = PairOf(Values(o, 10), 1)
                     /\ W[Len(s) + 2] = PairOf(Values(o, 10), 3)
  BY WorthIs
<1> HIDE DEF W
<1>3. Len(s) \in Nat /\ \A k \in 1..Len(s) : s[k] \in Nums BY LenProperties, ElementOfSeq
<1>4. \A k \in 1..Len(s) : W[k] \in Sixteen BY <1>2, <1>3, GroupValue
<1>5. ASSUME o # <<>> PROVE W[Len(s) + 1] \in Sixteen /\ W[Len(s) + 2] \in Sixteen
  <2>1. Len(o) = 4 BY <1>5, EmptySeq
  <2>2. PairOf(Values(o, 10), 1) \in Sixteen BY <2>1, PairRead
  <2>3. PairOf(Values(o, 10), 3) \in Sixteen BY <2>1, PairRead
  <2> QED BY <1>2, <1>5, <2>2, <2>3
<1>6. ASSUME NEW k \in 1..Len(W) PROVE W[k] \in Sixteen
  <2>1. CASE k \in 1..Len(s) BY <1>4, <2>1
  <2>2. CASE k \notin 1..Len(s)
    <3>1. o # <<>> /\ (k = Len(s) + 1 \/ k = Len(s) + 2)
      <4>1. CASE o = <<>>
        <5>1. Len(W) = Len(s) + 0 BY <1>2, <4>1
        <5> QED BY <1>3, <2>2, <5>1
      <4>2. CASE o # <<>>
        <5>1. Len(W) = Len(s) + 2 BY <1>2, <4>2
        <5> QED BY <1>3, <2>2, <4>2, <5>1
      <4> QED BY <4>1, <4>2
    <3> QED BY <1>5, <3>1
  <2> QED BY <2>1, <2>2
<1>7. Len(W) \in Nat /\ W = [k \in 1..Len(W) |-> W[k]] BY <1>1, LenProperties
<1>8. \A n \in Nat : \A f : (\A k \in 1..n : f[k] \in Sixteen) => [k \in 1..n |-> f[k]] \in Seq(Sixteen)
  OBVIOUS
<1>9. [k \in 1..Len(W) |-> W[k]] \in Seq(Sixteen) BY <1>6, <1>7, <1>8
<1> QED BY <1>7, <1>9 DEF W

LEMMA GroupsJoined ==
  ASSUME NEW l \in Seq(Nums), NEW r \in Seq(Nums),
         \A k \in 1..Len(l) : IsGroup(l[k]), \A k \in 1..Len(r) : IsGroup(r[k])
  PROVE  /\ l \o r \in Seq(Nums) /\ Len(l \o r) = Len(l) + Len(r)
         /\ \A k \in 1..Len(l \o r) : IsGroup((l \o r)[k])
<1> DEFINE u == l \o r
<1>1. /\ Len(l) \in Nat /\ Len(r) \in Nat /\ u \in Seq(Nums) /\ Len(u) = Len(l) + Len(r)
      /\ \A k \in 1..Len(l) + Len(r) : u[k] = IF k <= Len(l) THEN l[k] ELSE r[k - Len(l)]
  BY ConcatProperties, LenProperties
<1> HIDE DEF u
<1>2. ASSUME NEW k \in 1..Len(l) + Len(r) PROVE IsGroup(u[k])
  <2>1. CASE k <= Len(l)
    <3>1. u[k] = l[k] /\ k \in 1..Len(l) BY <1>1, <2>1
    <3> QED BY <3>1
  <2>2. CASE ~(k <= Len(l))
    <3>1. u[k] = r[k - Len(l)] /\ k - Len(l) \in 1..Len(r) BY <1>1, <2>2
    <3> QED BY <3>1
  <2> QED BY <2>1, <2>2
<1> QED BY <1>1, <1>2 DEF u

(* The address that is read, and the zeros in it where the gap was. *)
LEMMA ReadTyped ==
  ASSUME NEW l \in Seq(Nums), NEW r \in Seq(Nums), NEW o \in Seq(Nums), Len(o) \in {0, 4}, NEW b,
         \A k \in 1..Len(l) : IsGroup(l[k]), \A k \in 1..Len(r) : IsGroup(r[k]),
         \A k \in 1..Len(o) : IsByte(o[k]),
         IF b < 0 THEN Room(l, r, o) = 8 ELSE Room(l, r, o) < 8
  PROVE  /\ Read6(l, b, r, o) \in Seq(Sixteen) /\ Len(Read6(l, b, r, o)) = 8
         /\ ~(b < 0) => \A q \in Len(l) + 1..Len(l) + (8 - Room(l, r, o)) : Read6(l, b, r, o)[q] = 0
<1> DEFINE lr == l \o r
           W == Worth(lr, o)
           m == Room(l, r, o)
           p == Len(l)
<1>1. lr \in Seq(Nums) /\ Len(lr) = Len(l) + Len(r) /\ \A k \in 1..Len(lr) : IsGroup(lr[k])
  BY GroupsJoined
<1>2. p \in Nat /\ Len(r) \in Nat BY LenProperties
<1> HIDE DEF lr
<1>3. W \in Seq(Sixteen) BY <1>1, WorthRead
<1>4. Len(W) = Len(lr) + IF o = <<>> THEN 0 ELSE 2 BY <1>1, WorthIs
<1>5. Len(W) = m /\ m \in Nat /\ p <= m BY <1>1, <1>2, <1>4 DEF Room
<1>6. CASE b < 0
  <2>1. Read6(l, b, r, o) = W BY <1>6 DEF Read6, W, lr
  <2>2. m = 8 BY <1>6
  <2> QED BY <1>3, <1>5, <1>6, <2>1, <2>2
<1>7. CASE ~(b < 0)
  <2>1. Read6(l, b, r, o) = SubSeq(W, 1, p) \o Zeros(8 - Len(W)) \o SubSeq(W, p + 1, Len(W))
    BY <1>7 DEF Read6, W, lr
  <2>2. m < 8 BY <1>7
  <2> HIDE DEF W, m, p
  <2>3. Read6(l, b, r, o) = Widened(W, p, m) BY <1>5, <2>1 DEF Widened
  <2>4. m \in 0..7 /\ p \in 0..m BY <1>2, <1>5, <2>2
  <2>5. 0 \in Sixteen BY SMT DEF Sixteen
  <2>6. /\ Widened(W, p, m) \in Seq(Sixteen) /\ Len(Widened(W, p, m)) = 8
        /\ \A k \in 1..8 :
             Widened(W, p, m)[k] = IF k <= p THEN W[k]
                                   ELSE IF k <= p + (8 - m) THEN 0 ELSE W[k - (8 - m)]
    <3>1. W \in Seq(Sixteen) /\ Len(W) = m BY <1>3, <1>5
    <3> QED BY <2>4, <2>5, <3>1, WidenedAt, ZenonT(40)
  <2>7. \A q \in p + 1..p + (8 - m) : Widened(W, p, m)[q] = 0
    <3>1. \A q \in p + 1..p + (8 - m) : q \in 1..8 /\ ~(q <= p) /\ q <= p + (8 - m) BY <2>4
    <3> QED BY <2>6, <3>1
  <2> QED BY <1>7, <2>3, <2>6, <2>7 DEF p, m
<1> QED BY <1>6, <1>7

LEMMA RestLength ==
  ASSUME NEW s \in Seq(Nums), NEW o \in Seq(Nums), Len(o) \in {0, 4}
  PROVE  /\ o = <<>> /\ s = <<>> => Len(Joined(Items(s, o), Colon)) = 0
         /\ o = <<>> /\ s # <<>> => Len(Joined(Items(s, o), Colon)) = 2 * Len(s) - 1
         /\ o # <<>> => Len(Joined(Items(s, o), Colon)) = 2 * Len(s) + 7
<1>1. s \in Seq(Tokens) /\ o \in Seq(Tokens) /\ Colon \in Tokens /\ Dot \in Tokens
  BY TokensAre, SeqMonotonic
<1>2. CASE o = <<>>
  <2>1. Joined(Items(s, o), Colon) = Alt(s, Colon) BY <1>2, ItemsAre
  <2>2. s = <<>> => Len(Alt(s, Colon)) = 0 BY AltEmpty, EmptySeq
  <2>3. s # <<>> => Len(Alt(s, Colon)) = 2 * Len(s) - 1 BY <1>1, AltIs
  <2> QED BY <1>2, <2>1, <2>2, <2>3
<1>3. CASE o # <<>>
  <2> DEFINE u == Lead(s, Colon)
             v == Alt(o, Dot)
  <2>1. Joined(Items(s, o), Colon) = u \o v BY <1>3, ItemsAre
  <2>2. u \in Seq(Tokens) /\ Len(u) = 2 * Len(s) BY <1>1, LeadLaid
  <2>3. Len(o) = 4 BY <1>3, EmptySeq
  <2>4. v \in Seq(Tokens) /\ Len(v) = 2 * Len(o) - 1 BY <1>1, <1>3, AltIs
  <2> HIDE DEF u, v
  <2>5. Len(u \o v) = Len(u) + Len(v) BY <2>2, <2>4, ConcatProperties
  <2>6. Len(s) \in Nat BY LenProperties
  <2>7. Len(u \o v) = 2 * Len(s) + 7 BY <2>2, <2>3, <2>4, <2>5, <2>6
  <2> QED BY <1>3, <2>1, <2>7
<1> QED BY <1>2, <1>3

(* No text of the address is shorter. *)
LEMMA NoneShorter ==
  ASSUME NEW l \in Seq(Nums), NEW r \in Seq(Nums), NEW o \in Seq(Nums), Len(o) \in {0, 4}, NEW b,
         b < 0 => r = <<>>,
         \A k \in 1..Len(l) : IsGroup(l[k]), \A k \in 1..Len(r) : IsGroup(r[k]),
         \A k \in 1..Len(o) : IsByte(o[k]),
         IF b < 0 THEN Room(l, r, o) = 8 ELSE Room(l, r, o) < 8,
         ~Mapped(Read6(l, b, r, o))
  PROVE  Len(Ntop(Read6(l, b, r, o))) <= Len(Body(l, b, r, o))
<1>0. /\ Read6(l, b, r, o) \in Seq(Sixteen) /\ Len(Read6(l, b, r, o)) = 8
      /\ ~(b < 0) => \A q \in Len(l) + 1..Len(l) + (8 - Room(l, r, o)) : Read6(l, b, r, o)[q] = 0
  BY ReadTyped, SMTT(40)
<1> DEFINE a == Read6(l, b, r, o)
           w == Body(l, b, r, o)
           n == Len(Ntop(a))
           m == Room(l, r, o)
           p == Len(l)
           x == Len(r)
<1>1. /\ a \in Seq(Sixteen) /\ Len(a) = 8
      /\ ~(b < 0) => \A q \in p + 1..p + (8 - m) : a[q] = 0
  BY <1>0
<1>2. ~Mapped(a) OBVIOUS
<1>3. p \in Nat /\ x \in Nat /\ m = p + x + IF o = <<>> THEN 0 ELSE 2 BY LenProperties DEF Room
<1>4. IF b < 0 THEN m = 8 ELSE m < 8 OBVIOUS
<1> HIDE DEF a
<1>5. /\ n \in Int /\ n <= 15
      /\ \A j \in 0..7, k \in 1..8 :
           j < k /\ (\A q \in j + 1..k : a[q] = 0) /\ Covered(j, k) > 2 => n <= 17 - Covered(j, k)
  BY <1>1, <1>2, SixShown
<1> HIDE DEF n, m
<1>6. CASE b < 0
  <2>1. w = Joined(Items(l, o), Colon) BY <1>6, BodyWhole
  <2>2. x = 0 /\ (l = <<>> => p = 0) BY <1>6, EmptySeq
  <2> HIDE DEF p, x
  <2>3. CASE o = <<>>
    <3>1. p = 8
      <4>1. m = p + x + 0 /\ m = 8 BY <1>3, <1>4, <1>6, <2>3
      <4> QED BY <1>3, <2>2, <4>1
    <3>2. l # <<>> BY <2>2, <3>1
    <3>3. Len(w) = 2 * p - 1 BY <2>1, <2>3, <3>2, RestLength DEF p
    <3>4. Len(w) = 15 BY <3>1, <3>3
    <3> QED BY <1>5, <3>4 DEF n, a
  <2>4. CASE o # <<>>
    <3>1. p = 6
      <4>1. m = p + x + 2 /\ m = 8 BY <1>3, <1>4, <1>6, <2>4
      <4> QED BY <1>3, <2>2, <4>1
    <3>2. Len(w) = 2 * p + 7 BY <2>1, <2>4, RestLength DEF p
    <3>3. Len(w) = 19 BY <3>1, <3>2
    <3> QED BY <1>5, <3>3 DEF n, a
  <2> QED BY <2>3, <2>4
<1>7. CASE ~(b < 0)
  <2> DEFINE v == Joined(Items(r, o), Colon)
             k == p + (8 - m)
  <2>1. w = Open(l) \o v BY <1>7, BodyOpen, ZenonT(40)
  <2>2. Open(l) \in Seq(Tokens) /\ Len(Open(l)) = GapAt(l) BY OpenLaid
  <2>3. v \in Seq(Tokens) BY RestIs
  <2>4. /\ o = <<>> /\ r = <<>> => Len(v) = 0
        /\ o = <<>> /\ r # <<>> => Len(v) = 2 * x - 1
        /\ o # <<>> => Len(v) = 2 * x + 7
    BY RestLength
  <2> HIDE DEF v, w
  <2>5. Len(w) = GapAt(l) + Len(v)
    <3>1. Len(Open(l) \o v) = Len(Open(l)) + Len(v) BY <2>2, <2>3, ConcatProperties
    <3> QED BY <2>1, <2>2, <3>1
  <2>6. (l = <<>> <=> p = 0) /\ (r = <<>> <=> x = 0) BY EmptySeq
  <2> HIDE DEF p, x
  <2>7. /\ p = 0 => GapAt(l) = 2
        /\ p # 0 => GapAt(l) = 2 * p + 1
    BY <2>6 DEF GapAt, p
  <2>8. k \in 1..8 /\ p \in 0..7 /\ p < k BY <1>3, <1>4, <1>7
  <2>9. \A q \in p + 1..k : a[q] = 0 BY <1>1, <1>7
  <2> DEFINE c == Covered(p, k)
  <2>10. c > 2 => n <= 17 - c BY <1>5, <2>8, <2>9
  <2>11. c \in Int /\ 17 - c <= Len(w)
    <3>1. c = RunTo(k) - RunFrom(p) + 1 BY DEF Covered
    <3>2. (p = 0 /\ RunFrom(p) = 1 /\ GapAt(l) = 2)
            \/ (p # 0 /\ RunFrom(p) = 2 * p /\ GapAt(l) = 2 * p + 1)
      BY <2>7 DEF RunFrom
    <3>3. (k = 8 /\ RunTo(k) = 15) \/ (k # 8 /\ RunTo(k) = 2 * k) BY DEF RunTo
    <3>4. /\ o = <<>> /\ x = 0 => k = 8 /\ Len(v) = 0
          /\ o = <<>> /\ x # 0 => k = 8 - x /\ Len(v) = 2 * x - 1
          /\ o # <<>> => k = 6 - x /\ Len(v) = 2 * x + 7
      BY <1>3, <2>4, <2>6
    <3> DEFINE f == RunFrom(p)
               t == RunTo(k)
               g == GapAt(l)
    <3> HIDE DEF k, c, f, t, g
    <3>5. c = t - f + 1 BY <3>1 DEF f, t
    <3>6. (f = 1 /\ g = 2) \/ (p # 0 /\ f = 2 * p /\ g = 2 * p + 1) BY <3>2 DEF f, g
    <3>7. (k = 8 /\ t = 15) \/ (k # 8 /\ t = 2 * k) BY <3>3 DEF t
    <3>8. Len(w) = g + Len(v) BY <2>5 DEF g
    <3>9. p \in Nat /\ x \in Nat /\ k \in 1..8 BY <1>3, <2>8
    <3>10. CASE o = <<>> /\ x = 0
      <4>1. k = 8 /\ Len(v) = 0 BY <3>4, <3>10
      <4> QED BY <3>5, <3>6, <3>7, <3>8, <3>9, <4>1, SMTT(60)
    <3>11. CASE o = <<>> /\ x # 0
      <4>1. k = 8 - x /\ Len(v) = 2 * x - 1 BY <3>4, <3>11
      <4> QED BY <3>5, <3>6, <3>7, <3>8, <3>9, <3>11, <4>1, SMTT(60)
    <3>12. CASE o # <<>>
      <4>1. k = 6 - x /\ Len(v) = 2 * x + 7 BY <3>4, <3>12
      <4> QED BY <3>5, <3>6, <3>7, <3>8, <3>9, <4>1, SMTT(60)
    <3> QED BY <3>10, <3>11, <3>12
  <2> HIDE DEF c
  <2>12. Len(w) \in Int
    <3>1. w \in Seq(Tokens) BY <1>7, BodyOpen DEF w
    <3> QED BY <3>1, LenProperties
  <2>13. n <= Len(w) BY <1>5, <2>10, <2>11, <2>12
  <2> QED BY <2>13 DEF n, a, w
<1> QED BY <1>6, <1>7

-----------------------------------------------------------------------------
(* Four bytes, alone and after the groups of a mapped address.             *)
LEMMA FourShown ==
  ASSUME NEW a \in Seq(0..255), Len(a) = 4
  PROVE  Denoted4(Ntop(a)) = {a} /\ Dot \in ToSet(Ntop(a))
<1> DEFINE o == Spelled(a, 10)
           w == Alt(o, Dot)
<1>1. /\ o \in Seq(Nums) /\ Len(o) = 4 /\ Values(o, 10) = a
      /\ \A k \in 1..Len(o) : IsByte(o[k])
  BY SpelledBytes
<1>2. Ntop(a) = w
  <2>1. Len(o) = Len(a) BY <1>1
  <2>2. Printed(a, 10, Dot) = w BY <1>1, <2>1, PrintedIs
  <2> QED BY <2>2 DEF Ntop
<1> HIDE DEF o
<1>3. Denoted4(w) = {a} BY <1>1, DenotesFour
<1>4. o \in Seq(Tokens) /\ Dot \in Tokens /\ o # <<>>
  <2>0. Len(o) = 4 /\ o \in Seq(Nums) BY <1>1
  <2>1. o # <<>>
    <3>1. Len(<<>>) = 0 /\ 4 # 0 OBVIOUS
    <3> QED BY <2>0, <3>1, Zenon
  <2> QED BY <1>1, <2>1, TokensAre, SeqMonotonic
<1>5. w[2] = Dot
  <2>1. 2 \in 1..2 * Len(o) - 1 /\ 2 % 2 # 1 BY <1>1
  <2> QED BY <1>4, <2>1, AltAt
<1>6. w \in Seq(Tokens) /\ Len(w) = 7
  <2>1. w \in Seq(Tokens) /\ Len(w) = 2 * Len(o) - 1 BY <1>4, AltIs
  <2> HIDE DEF w
  <2> QED BY <1>1, <2>1
<1> HIDE DEF w
<1>7. DOMAIN w = 1..7 BY <1>6, LenProperties
<1>8. 2 \in 1..7 OBVIOUS
<1>9. Dot \in ToSet(w) BY <1>5, <1>7, <1>8 DEF ToSet
<1> QED BY <1>2, <1>3, <1>9

(* The four bytes of the last two groups. *)
BytesOf(a) == <<a[7] \div 256, a[7] % 256, a[8] \div 256, a[8] % 256>>

TwoBytes(v, h, l) == v = 256 * h + l /\ h = v \div 256 /\ l = v % 256

LEMMA BytesOfGroup ==
  ASSUME NEW v \in Sixteen PROVE \E h \in 0..255, l \in 0..255 : TwoBytes(v, h, l)
<1>1. v \in Nat /\ v \div 256 < 256 BY SMT DEF Sixteen
<1>2. PICK h \in 0..255, l \in 0..255 : v = 256 * h + l BY <1>1, BytesOfPort, ZenonT(40)
<1>3. h \in Int /\ l \in Int /\ 0 <= l /\ l <= 255 OBVIOUS
<1>4. (256 * h + l) \div 256 = h BY <1>3
<1>5. (256 * h + l) % 256 = l BY <1>3
<1>6. TwoBytes(256 * h + l, h, l) BY <1>4, <1>5 DEF TwoBytes
<1>7. TwoBytes(v, h, l) BY <1>2, <1>6
<1> QED BY <1>7

LEMMA BytesOfIs ==
  ASSUME NEW a \in Seq(Sixteen), Len(a) = 8
  PROVE  /\ BytesOf(a) \in Seq(0..255) /\ Len(BytesOf(a)) = 4
         /\ PairOf(BytesOf(a), 1) = a[7] /\ PairOf(BytesOf(a), 3) = a[8]
<1>1. a[7] \in Sixteen /\ a[8] \in Sixteen
  <2>1. 7 \in 1..Len(a) /\ 8 \in 1..Len(a) OBVIOUS
  <2> QED BY <2>1, ElementOfSeq, ZenonT(40)
<1>2. PICK x \in 0..255, y \in 0..255 : TwoBytes(a[7], x, y) BY <1>1, BytesOfGroup, ZenonT(40)
<1>3. PICK c \in 0..255, d \in 0..255 : TwoBytes(a[8], c, d) BY <1>1, BytesOfGroup, ZenonT(40)
<1>4. BytesOf(a) = <<x, y, c, d>> BY <1>2, <1>3 DEF BytesOf, TwoBytes
<1>5. <<x, y, c, d>> \in Seq(0..255) /\ Len(<<x, y, c, d>>) = 4 OBVIOUS
<1>6. PairOf(<<x, y, c, d>>, 1) = 256 * x + y /\ PairOf(<<x, y, c, d>>, 3) = 256 * c + d
  BY DEF PairOf
<1>7. a[7] = 256 * x + y BY <1>2 DEF TwoBytes
<1>8. a[8] = 256 * c + d BY <1>3 DEF TwoBytes
<1> QED BY <1>4, <1>5, <1>6, <1>7, <1>8

(* The numerals of the groups before them. *)
FirstSix(a) == [k \in 1..6 |-> Digits(a[k], 16)]

LEMMA FirstSixIs ==
  ASSUME NEW a \in Seq(Sixteen), Len(a) = 8
  PROVE  /\ FirstSix(a) \in Seq(Nums) /\ Len(FirstSix(a)) = 6
         /\ \A k \in 1..6 : /\ FirstSix(a)[k] \in Nums /\ IsGroup(FirstSix(a)[k])
                            /\ Value(FirstSix(a)[k], 16) = a[k]
                            /\ a[k] = 0 <=> FirstSix(a)[k] = << 0 >>
<1>1. \A k \in 1..6 : a[k] \in Sixteen
  <2>1. \A k \in 1..6 : k \in 1..Len(a) OBVIOUS
  <2> QED BY <2>1, ElementOfSeq
<1>2. \A k \in 1..6 : /\ Digits(a[k], 16) \in Nums /\ IsGroup(Digits(a[k], 16))
                      /\ Value(Digits(a[k], 16), 16) = a[k]
                      /\ a[k] = 0 <=> Digits(a[k], 16) = << 0 >>
  BY <1>1, GroupPrinted
<1>3. FirstSix(a) \in Seq(Nums) /\ Len(FirstSix(a)) = 6 BY <1>2 DEF FirstSix
<1> QED BY <1>2, <1>3 DEF FirstSix

(* What snprintf writes of a mapped address. *)
LEMMA MappedPlain ==
  ASSUME NEW a \in Seq(Sixteen), Len(a) = 8, Mapped(a)
  PROVE  /\ Spelled(BytesOf(a), 10) \in Seq(Nums) /\ Len(Spelled(BytesOf(a), 10)) = 4
         /\ Values(Spelled(BytesOf(a), 10), 10) = BytesOf(a)
         /\ \A k \in 1..4 : IsByte(Spelled(BytesOf(a), 10)[k])
         /\ Plain(a) = Lead(FirstSix(a), Colon) \o Alt(Spelled(BytesOf(a), 10), Dot)
<1> DEFINE hs == FirstSix(a)
           bs == BytesOf(a)
           o == Spelled(bs, 10)
           V == Alt(o, Dot)
           ss == Singles(hs)
           f == [k \in 1..7 |-> IF k = 7 THEN V ELSE <<Digits(a[k], 16)>>]
<1>1. bs \in Seq(0..255) /\ Len(bs) = 4 BY BytesOfIs
<1> HIDE DEF bs
<1>2. /\ o \in Seq(Nums) /\ Len(o) = 4 /\ Values(o, 10) = bs
      /\ \A k \in 1..4 : IsByte(o[k])
  BY <1>1, SpelledBytes
<1>3. Printed(bs, 10, Dot) = V
  <2>1. Len(o) = Len(bs) BY <1>1, <1>2
  <2> QED BY <1>2, <2>1, PrintedIs
<1>4. Plain(a) = Joined(f, Colon)
  <2>1. bs = <<a[7] \div 256, a[7] % 256, a[8] \div 256, a[8] % 256>> BY DEF bs, BytesOf
  <2> QED BY <1>3, <2>1, ZenonT(40) DEF Plain
<1>5. hs \in Seq(Nums) /\ Len(hs) = 6 BY FirstSixIs
<1> HIDE DEF o
<1>6. o # <<>> /\ hs \in Seq(Tokens) /\ o \in Seq(Tokens) /\ Dot \in Tokens
  <2>1. o # <<>> BY <1>2, EmptySeq
  <2> QED BY <1>2, <1>5, <2>1, TokensAre, SeqMonotonic
<1>7. V \in Seq(Tokens) BY <1>6, AltIs
<1>8. ss = [k \in 1..6 |-> <<Digits(a[k], 16)>>]
  <2>1. ss = [k \in 1..6 |-> <<hs[k]>>] BY <1>5 DEF Singles
  <2>2. \A k \in 1..6 : hs[k] = Digits(a[k], 16) BY DEF FirstSix
  <2> QED BY <2>1, <2>2
<1>9. ss \in Seq(Seq(Tokens)) /\ Len(ss) = 6 BY <1>5, <1>6, SinglesTyped
<1> HIDE DEF V, ss, hs
<1>10. /\ Append(ss, V) \in Seq(Seq(Tokens)) /\ Len(Append(ss, V)) = 7
       /\ \A k \in 1..7 : Append(ss, V)[k] = IF k = 7 THEN V ELSE ss[k]
  <2>1. /\ Append(ss, V) \in Seq(Seq(Tokens)) /\ Len(Append(ss, V)) = Len(ss) + 1
        /\ \A k \in 1..Len(ss) + 1 : Append(ss, V)[k] = IF k = Len(ss) + 1 THEN V ELSE ss[k]
    BY <1>7, <1>9, AppendIs, ZenonT(40)
  <2>2. Len(ss) + 1 = 7 BY <1>9
  <2> QED BY <2>1, <2>2
<1>11. Append(ss, V) = f
  <2> DEFINE u == Append(ss, V)
  <2>1. u = [k \in 1..7 |-> u[k]] BY <1>10, LenProperties, ZenonT(40)
  <2>2. \A k \in 1..7 : k # 7 => k \in 1..6 OBVIOUS
  <2>3. \A k \in 1..7 : u[k] = IF k = 7 THEN V ELSE <<Digits(a[k], 16)>> BY <1>8, <1>10, <2>2
  <2> HIDE DEF u
  <2>4. u = f BY <2>1, <2>3
  <2> QED BY <2>4 DEF u
<1>12. Items(hs, o) = Append(ss, V)
  <2>1. Items(hs, o) = ss \o <<V>> BY <1>6 DEF Items, ss, V, Alt
  <2> QED BY <1>7, <1>9, <2>1, AppendIsConcat
<1>13. Joined(Items(hs, o), Colon) = Lead(hs, Colon) \o V BY <1>2, <1>5, <1>6, ItemsAre DEF V
<1> HIDE DEF f
<1>14. Plain(a) = Lead(hs, Colon) \o V BY <1>4, <1>11, <1>12, <1>13
<1> QED BY <1>2, <1>14 DEF o, bs, hs, V

(* Its longest run are the first five groups and the colons after them. *)
LEMMA MappedRun ==
  ASSUME NEW hs \in Seq(Nums), Len(hs) = 6, \A k \in 1..5 : hs[k] = << 0 >>, hs[6] # << 0 >>,
         NEW o \in Seq(Nums), Len(o) = 4
  PROVE  LET w == Lead(hs, Colon) \o Alt(o, Dot)
         IN /\ w \in Seq(Tokens) /\ Len(w) = 19 /\ Compressed(w) = Replaced(w, 1) /\ Span(w, 1) = 10
<1> DEFINE L == Lead(hs, Colon)
           V == Alt(o, Dot)
           w == L \o V
<1>1. /\ hs \in Seq(Tokens) /\ o \in Seq(Tokens) /\ Colon \in Tokens /\ Dot \in Tokens
      /\ Nums \cap Symbols = {} /\ Colon \in Symbols /\ Dot \in Symbols /\ Colon # Dot
  BY TokensAre, SeqMonotonic
<1>2. << 0 >> \in Nums
  <2>1. << 0 >> \in Seq(0..15) OBVIOUS
  <2>2. << 0 >> # <<>> OBVIOUS
  <2> QED BY <2>1, <2>2 DEF Nums
<1>3. \A k \in 1..6 : hs[k] \in Nums
  <2>1. \A k \in 1..Len(hs) : hs[k] \in Nums BY ElementOfSeq
  <2> QED BY <2>1
<1>4. \A k \in 1..4 : o[k] \in Nums
  <2>1. \A k \in 1..Len(o) : o[k] \in Nums BY ElementOfSeq
  <2> QED BY <2>1
<1>5. L \in Seq(Tokens) /\ Len(L) = 12 /\ \A q \in 1..6 : L[2 * q - 1] = hs[q] /\ L[2 * q] = Colon
  <2>1. L \in Seq(Tokens) /\ Len(L) = 2 * Len(hs) /\ Spaced(L, 0, hs, Colon, Colon)
    BY <1>1, LeadLaid
  <2> HIDE DEF L
  <2>2. ASSUME NEW q \in 1..6 PROVE L[2 * q - 1] = hs[q] /\ L[2 * q] = Colon
    <3>1. q \in 1..Len(hs) /\ 0 + 2 * q - 1 = 2 * q - 1 /\ 0 + 2 * q = 2 * q OBVIOUS
    <3>2. L[0 + 2 * q - 1] = hs[q] /\ L[0 + 2 * q] = Colon BY <2>1, <3>1 DEF Spaced
    <3> QED BY <3>1, <3>2
  <2> QED BY <2>1, <2>2
<1>6. V \in Seq(Tokens) /\ Len(V) = 7 /\ V[2] = Dot /\ \A q \in 1..7 : V[q] \in Nums \cup {Dot}
  <2>0. o # <<>>
    <3>1. Len(<<>>) = 0 /\ 4 # 0 OBVIOUS
    <3> QED BY <3>1, Zenon
  <2>1. V \in Seq(Tokens) /\ Len(V) = 2 * Len(o) - 1 BY <1>1, <2>0, AltIs
  <2>2. \A q \in 1..2 * Len(o) - 1 : V[q] = IF q % 2 = 1 THEN o[(q + 1) \div 2] ELSE Dot
    <3> SUFFICES ASSUME NEW q \in 1..2 * Len(o) - 1
                 PROVE  V[q] = IF q % 2 = 1 THEN o[(q + 1) \div 2] ELSE Dot
      OBVIOUS
    <3>1. Alt(o, Dot) = Alternating(o, Dot) BY <1>1, <2>0, AltElements, ZenonT(40)
    <3> QED BY <3>1 DEF Alternating
  <2> HIDE DEF V
  <2>3. \A q \in 1..7 : q \in 1..2 * Len(o) - 1 /\ (q + 1) \div 2 \in 1..4 OBVIOUS
  <2>4. 2 \in 1..7 /\ 2 % 2 # 1 OBVIOUS
  <2> QED BY <1>4, <2>1, <2>2, <2>3, <2>4
<1> HIDE DEF L, V
<1>7. /\ w \in Seq(Tokens) /\ Len(w) = 19
      /\ \A k \in 1..12 : w[k] = L[k]
      /\ \A k \in 13..19 : w[k] = V[k - 12]
  <2>1. /\ w \in Seq(Tokens) /\ Len(w) = Len(L) + Len(V)
        /\ \A k \in 1..Len(L) + Len(V) : w[k] = IF k <= Len(L) THEN L[k] ELSE V[k - Len(L)]
    BY <1>5, <1>6, ConcatProperties, ZenonT(40)
  <2> HIDE DEF w
  <2>2. \A k \in 1..12 : k \in 1..Len(L) + Len(V) /\ k <= Len(L) BY <1>5, <1>6
  <2>3. \A k \in 13..19 : k \in 1..Len(L) + Len(V) /\ ~(k <= Len(L)) /\ k - Len(L) = k - 12
    BY <1>5, <1>6
  <2>4. Len(w) = 19 BY <1>5, <1>6, <2>1
  <2>5. \A k \in 1..12 : w[k] = L[k] BY <2>1, <2>2
  <2>6. \A k \in 13..19 : w[k] = V[k - 12] BY <2>1, <2>3
  <2> QED BY <2>1, <2>4, <2>5, <2>6
<1> HIDE DEF w
<1>8. \A q \in 1..6 : w[2 * q - 1] = hs[q] /\ w[2 * q] = Colon
  <2>1. \A q \in 1..6 : 2 * q - 1 \in 1..12 /\ 2 * q \in 1..12 OBVIOUS
  <2> QED BY <1>5, <1>7, <2>1
<1>9. \A k \in 13..19 : w[k] # Colon
  <2>1. \A k \in 13..19 : k - 12 \in 1..7 OBVIOUS
  <2>2. \A k \in 13..19 : w[k] \in Nums \cup {Dot} BY <1>6, <1>7, <2>1
  <2> QED BY <1>1, <2>2
<1>10. \A k \in 1..10 : w[k] \in Cleared
  <2> SUFFICES ASSUME NEW k \in 1..10 PROVE w[k] \in Cleared
    OBVIOUS
  <2>1. (\E q \in 1..5 : k = 2 * q - 1) \/ (\E q \in 1..5 : k = 2 * q)
    <3>1. k = 2 * (k \div 2) \/ k = 2 * ((k + 1) \div 2) - 1 OBVIOUS
    <3>2. k = 2 * (k \div 2) => k \div 2 \in 1..5 OBVIOUS
    <3>3. (k + 1) \div 2 \in 1..5 OBVIOUS
    <3> QED BY <3>1, <3>2, <3>3
  <2>2. CASE \E q \in 1..5 : k = 2 * q - 1
    <3>1. PICK q \in 1..5 : k = 2 * q - 1 BY <2>2
    <3>2. q \in 1..6 OBVIOUS
    <3>3. w[k] = << 0 >> BY <1>8, <3>1, <3>2
    <3> QED BY <3>3 DEF Cleared
  <2>3. CASE \E q \in 1..5 : k = 2 * q
    <3>1. PICK q \in 1..5 : k = 2 * q BY <2>3
    <3>2. q \in 1..6 OBVIOUS
    <3>3. w[k] = Colon BY <1>8, <3>1, <3>2
    <3> QED BY <3>3 DEF Cleared
  <2> QED BY <2>1, <2>2, <2>3
<1>11. w[11] \notin Cleared
  <2>1. w[2 * 6 - 1] = hs[6] BY <1>8
  <2>2. 2 * 6 - 1 = 11 OBVIOUS
  <2>3. hs[6] \in Nums /\ hs[6] # << 0 >> BY <1>3
  <2>4. w[11] = hs[6] BY <2>1, <2>2
  <2> QED BY <1>1, <2>3, <2>4 DEF Cleared
<1>12. w[14] \notin Cleared
  <2>1. 14 \in 13..19 /\ 14 - 12 = 2 OBVIOUS
  <2>2. w[14] = Dot BY <1>6, <1>7, <2>1
  <2> QED BY <1>1, <1>2, <2>2 DEF Cleared
<1>13. Span(w, 1) = 10
  <2>1. Span(w, 1) >= 10
    <3>1. 1 \in 1..Len(w) /\ 10 \in 0..Len(w) - 1 + 1 BY <1>7
    <3>2. \A q \in 1..1 + 10 - 1 : w[q] \in Cleared BY <1>10
    <3> QED BY <1>7, <3>1, <3>2, SpanAtLeast
  <2>2. Span(w, 1) <= 10
    <3>1. 1 \in 1..Len(w) /\ 10 \in 0..Len(w) - 1 BY <1>7
    <3>2. w[1 + 10] \notin Cleared BY <1>11
    <3> QED BY <1>7, <3>1, <3>2, SpanAtMost
  <2>3. Span(w, 1) \in 0..Len(w) - 1 + 1
    <3>1. 1 \in 1..Len(w) BY <1>7
    <3> QED BY <1>7, <3>1, SpanIs
  <2>4. PICK n \in Int : n = Span(w, 1) BY <1>7, <2>3
  <2> QED BY <2>1, <2>2, <2>4
<1>14. ASSUME NEW q \in Starts(w), q # 1 PROVE Span(w, q) < 10
  <2>1. q \in 1..19 /\ w[q] = Colon BY <1>7, <1>14 DEF Starts
  <2>2. q \in 1..12 BY <1>9, <2>1, SMTT(60)
  <2>3. q # 11
    <3>1. Colon \in Cleared BY DEF Cleared
    <3> QED BY <1>11, <2>1, <3>1
  <2>4. Span(w, q) \in 0..Len(w) - q + 1
    <3>1. q \in 1..Len(w) BY <1>7, <2>1
    <3> QED BY <1>7, <3>1, SpanIs
  <2>5. CASE q <= 10
    <3>1. q \in 1..Len(w) /\ 11 - q \in 0..Len(w) - q /\ q + (11 - q) = 11
      <4>1. q \in 1..10 BY <2>1, <2>5, SMTT(40)
      <4>2. \A x \in 1..10 : x \in 1..19 /\ 11 - x \in 0..19 - x /\ x + (11 - x) = 11 OBVIOUS
      <4> QED BY <1>7, <4>1, <4>2, ZenonT(40)
    <3>2. Span(w, q) <= 11 - q BY <1>7, <1>11, <3>1, SpanAtMost
    <3>3. PICK n \in Int : n = Span(w, q) BY <1>7, <2>1, <2>4
    <3>4. n < 10
      <4>1. n <= 11 - q /\ q > 1 BY <1>14, <2>1, <3>2, <3>3
      <4> QED BY <2>1, <4>1, SMTT(60)
    <3> QED BY <3>3, <3>4
  <2>6. CASE q = 12
    <3>1. q \in 1..Len(w) /\ 2 \in 0..Len(w) - q /\ q + 2 = 14 BY <1>7, <2>1, <2>6
    <3>2. Span(w, q) <= 2 BY <1>7, <1>12, <3>1, SpanAtMost
    <3> QED BY <1>7, <2>1, <2>4, <3>2
  <2> QED BY <2>2, <2>3, <2>5, <2>6
<1>15. 1 \in Starts(w) BY <1>7 DEF Starts
<1>16. Compressed(w) = Replaced(w, 1)
  <2>1. \/ Compressed(w) = w /\ \A q \in Starts(w) : Span(w, q) <= 2
        \/ \E p \in Starts(w) :
             /\ Span(w, p) > 2 /\ Compressed(w) = Replaced(w, p)
             /\ \A q \in Starts(w) : Span(w, q) <= Span(w, p)
    BY <1>7, CompressedIs
  <2>2. ~(\A q \in Starts(w) : Span(w, q) <= 2)
    <3>1. ~(Span(w, 1) <= 2) BY <1>13
    <3> QED BY <1>15, <3>1
  <2>3. PICK p \in Starts(w) : /\ Compressed(w) = Replaced(w, p)
                               /\ \A q \in Starts(w) : Span(w, q) <= Span(w, p)
    BY <2>1, <2>2
  <2>4. 10 <= Span(w, p) BY <1>13, <1>15, <2>3
  <2>5. p = 1
    <3> SUFFICES ASSUME p # 1 PROVE FALSE OBVIOUS
    <3>1. Span(w, p) < 10 BY <1>14
    <3>2. p \in 1..Len(w) BY <1>7 DEF Starts
    <3>3. Span(w, p) \in 0..Len(w) - p + 1 BY <1>7, <3>2, SpanIs
    <3>4. Span(w, p) \in Int BY <1>7, <3>2, <3>3
    <3> QED BY <2>4, <3>1, <3>4
  <2> QED BY <2>3, <2>5
<1> QED BY <1>7, <1>13, <1>16 DEF w, L, V

LEMMA TwoColons == Open(<<>>) = <<Colon, Colon>>
<1>1. Alt(<<>>, Colon) = <<>> BY AltEmpty
<1>2. <<Colon, Colon>> \in Seq(Tokens) BY TokensAre
<1>3. <<>> \o <<Colon, Colon>> = <<Colon, Colon>> BY <1>2, ConcatEmptySeq
<1> QED BY <1>1, <1>3 DEF Open

(* What is left of the text: the gap, one group and the bytes. *)
LEMMA MappedCut ==
  ASSUME NEW hs \in Seq(Nums), Len(hs) = 6, \A k \in 1..5 : hs[k] = << 0 >>, hs[6] # << 0 >>,
         NEW o \in Seq(Nums), Len(o) = 4, NEW b, ~(b < 0)
  PROVE  Compressed(Lead(hs, Colon) \o Alt(o, Dot)) = Body(<<>>, b, <<hs[6]>>, o)
<1> DEFINE h == SubSeq(hs, 1, 5)
           r == SubSeq(hs, 6, Len(hs))
           V == Alt(o, Dot)
           w == Lead(hs, Colon) \o V
           c == <<Colon, Colon>>
<1>1. w \in Seq(Tokens) /\ Len(w) = 19 /\ Compressed(w) = Replaced(w, 1) /\ Span(w, 1) = 10
  BY MappedRun
<1>2. h \in Seq(Nums) /\ Len(h) = 5 /\ r \in Seq(Nums) /\ Len(r) = 1 /\ h \o r = hs
  <2>1. 5 \in 0..Len(hs) /\ 5 + 1 = 6 OBVIOUS
  <2>2. SubSeq(hs, 5 + 1, Len(hs)) \in Seq(Nums) /\ Len(SubSeq(hs, 5 + 1, Len(hs))) = Len(hs) - 5
    BY <2>1, CutAt
  <2>3. h \in Seq(Nums) /\ Len(h) = 5 /\ h \o SubSeq(hs, 5 + 1, Len(hs)) = hs BY <2>1, CutAt
  <2>4. r = SubSeq(hs, 5 + 1, Len(hs)) BY <2>1
  <2> HIDE DEF h, r
  <2> QED BY <2>2, <2>3, <2>4
<1>3. r = <<hs[6]>>
  <2>1. hs[6] \in Nums
    <3>1. 6 \in 1..Len(hs) OBVIOUS
    <3> QED BY <3>1, ElementOfSeq
  <2>2. \A k \in 6..6 : hs[k] \in Nums BY <2>1
  <2>3. \A k \in 1..6 - 6 + 1 : SubSeq(hs, 6, 6)[k] = hs[6 + k - 1] BY <2>2, SubSeqProperties
  <2>4. 1 \in 1..6 - 6 + 1 /\ 6 + 1 - 1 = 6 OBVIOUS
  <2>5. SubSeq(hs, 6, 6)[1] = hs[6] BY <2>3, <2>4
  <2>6. r[1] = hs[6] BY <2>5
  <2> HIDE DEF r
  <2> QED BY <1>2, <2>6
<1> HIDE DEF h, r
<1>4. /\ h \in Seq(Tokens) /\ r \in Seq(Tokens) /\ o \in Seq(Tokens)
      /\ Colon \in Tokens /\ Dot \in Tokens
  BY <1>2, TokensAre, SeqMonotonic
<1> DEFINE x == Lead(h, Colon)
           y == Lead(r, Colon)
<1>5. x \in Seq(Tokens) /\ Len(x) = 2 * Len(h) BY <1>4, LeadLaid
<1>6. y \in Seq(Tokens) BY <1>4, LeadLaid
<1>7. V \in Seq(Tokens) BY <1>4, AltIs
<1>8. Lead(hs, Colon) = x \o y
  <2>1. Lead(h \o r, Colon) = x \o y BY <1>4, LeadConcat, SMTT(60)
  <2> QED BY <1>2, <2>1
<1>9. w = (x \o y) \o V BY <1>8
<1> HIDE DEF x, y, V, w
<1>10. y \o V \in Seq(Tokens) BY <1>6, <1>7, ConcatProperties
<1>11. w = x \o (y \o V)
  <2>1. (x \o y) \o V = x \o (y \o V)
    <3>1. x \in Seq(Tokens) BY <1>5
    <3> QED BY <1>6, <1>7, <3>1, ConcatAssociative, SMTT(40)
  <2> QED BY <1>9, <2>1
<1>12. SubSeq(w, 11, Len(w)) = y \o V
  <2>1. SubSeq(x \o (y \o V), Len(x) + 1, Len(x \o (y \o V))) = y \o V BY <1>5, <1>10, CutConcat
  <2>2. Len(x) + 1 = 11 BY <1>2, <1>5
  <2> QED BY <1>11, <2>1, <2>2
<1>13. Replaced(w, 1) = c \o (y \o V)
  <2>1. Replaced(w, 1) = SubSeq(w, 1, 1 - 1) \o c \o SubSeq(w, 1 + 10, Len(w))
    BY <1>1 DEF Replaced
  <2>2. 1 - 1 = 0 /\ 1 + 10 = 11 OBVIOUS
  <2>3. SubSeq(w, 1, 0) = <<>> BY SubSeqEmpty
  <2>4. c \in Seq(Tokens) BY <1>4
  <2>5. <<>> \o c = c BY <2>4, ConcatEmptySeq
  <2> HIDE DEF c
  <2> QED BY <1>12, <2>1, <2>2, <2>3, <2>5
<1>14. Open(<<>>) = c BY TwoColons
<1>15. Body(<<>>, b, r, o) = c \o (y \o V)
  <2>1. o # <<>>
    <3>1. Len(<<>>) = 0 /\ 4 # 0 OBVIOUS
    <3> QED BY <3>1, Zenon
  <2>2. Body(<<>>, b, r, o) = (Open(<<>>) \o y) \o V BY <2>1 DEF Body, Groups, y, V
  <2>3. c \in Seq(Tokens) BY <1>4
  <2> HIDE DEF c
  <2>4. (c \o y) \o V = c \o (y \o V) BY <1>6, <1>7, <2>3, ConcatAssociative, SMTT(40)
  <2> QED BY <1>14, <2>2, <2>4
<1> HIDE DEF c
<1> QED BY <1>1, <1>3, <1>13, <1>15 DEF w, V

(* ... which is the address again. *)
LEMMA MappedDenotes ==
  ASSUME NEW a \in Seq(Sixteen), Len(a) = 8, \A k \in 1..5 : a[k] = 0,
         NEW n \in Nums, IsGroup(n), Value(n, 16) = a[6],
         NEW o \in Seq(Nums), Len(o) = 4, \A k \in 1..Len(o) : IsByte(o[k]),
         PairOf(Values(o, 10), 1) = a[7], PairOf(Values(o, 10), 3) = a[8],
         NEW b, ~(b < 0)
  PROVE  /\ Denoted6(Body(<<>>, b, <<n>>, o)) = {a}
         /\ Dot \in ToSet(Body(<<>>, b, <<n>>, o))
<1> DEFINE l == <<>>
           r == <<n>>
           W == Worth(r, o)
<1>1. l \in Seq(Nums) /\ Len(l) = 0 /\ r \in Seq(Nums) /\ Len(r) = 1 /\ r[1] = n BY EmptySeq
<1>2. l \o r = r BY <1>1, ConcatEmptySeq
<1>3. o # <<>>
  <2>1. Len(<<>>) = 0 /\ 4 # 0 OBVIOUS
  <2> QED BY <2>1, Zenon
<1>4. W \in Seq(Halves(o)) BY <1>1, WorthIs
<1>5. /\ Len(W) = Len(r) + IF o = <<>> THEN 0 ELSE 2
      /\ \A k \in 1..Len(r) : W[k] = Value(r[k], 16)
      /\ o # <<>> => /\ W[Len(r) + 1] = PairOf(Values(o, 10), 1)
                     /\ W[Len(r) + 2] = PairOf(Values(o, 10), 3)
  BY <1>1, WorthIs, ZenonT(40)
<1> HIDE DEF W, r
<1>6. Len(W) = 3 /\ W[1] = a[6] /\ W[2] = a[7] /\ W[3] = a[8]
  <2>1. Len(W) = Len(r) + 2 BY <1>3, <1>5
  <2>2. 1 \in 1..Len(r) /\ Len(r) + 1 = 2 /\ Len(r) + 2 = 3 BY <1>1
  <2>3. W[1] = Value(n, 16) BY <1>1, <1>5, <2>2
  <2>4. W[2] = PairOf(Values(o, 10), 1) /\ W[3] = PairOf(Values(o, 10), 3) BY <1>3, <1>5, <2>2
  <2> QED BY <2>1, <2>2, <2>3, <2>4
<1>7. /\ 0 \in Halves(o)
      /\ Read6(l, b, r, o) = Widened(W, 0, 3)
  <2>1. 0 \in Halves(o) BY DEF Halves, Words
  <2>2. Read6(l, b, r, o) = SubSeq(W, 1, Len(l)) \o Zeros(8 - Len(W)) \o SubSeq(W, Len(l) + 1, Len(W))
    BY <1>2 DEF Read6, W
  <2> HIDE DEF l
  <2> QED BY <1>1, <1>6, <2>1, <2>2 DEF Widened
<1>8. /\ Widened(W, 0, 3) \in Seq(Halves(o)) /\ Len(Widened(W, 0, 3)) = 8
      /\ \A k \in 1..8 :
           Widened(W, 0, 3)[k] = IF k <= 0 THEN W[k]
                                 ELSE IF k <= 0 + (8 - 3) THEN 0 ELSE W[k - (8 - 3)]
  <2> DEFINE H == Halves(o)
  <2>1. 3 \in 0..7 /\ 0 \in 0..3 OBVIOUS
  <2>2. W \in Seq(H) /\ Len(W) = 3 /\ 0 \in H BY <1>4, <1>6, <1>7
  <2> HIDE DEF H
  <2>3. /\ Widened(W, 0, 3) \in Seq(H) /\ Len(Widened(W, 0, 3)) = 8
        /\ \A k \in 1..8 :
             Widened(W, 0, 3)[k] = IF k <= 0 THEN W[k]
                                   ELSE IF k <= 0 + (8 - 3) THEN 0 ELSE W[k - (8 - 3)]
    BY <2>1, <2>2, WidenedAt, SMTT(60)
  <2> QED BY <2>3 DEF H
<1>9. a = Widened(W, 0, 3)
  <2> DEFINE G == Widened(W, 0, 3)
             H == Halves(o)
  <2>1. a = [q \in 1..8 |-> a[q]] BY LenProperties
  <2>2. ASSUME NEW k \in 1..8 PROVE a[k] = G[k]
    <3>1. CASE k <= 5
      <4>1. k \in 1..5 /\ ~(k <= 0) /\ k <= 0 + (8 - 3) BY <3>1
      <4>2. G[k] = 0 BY <1>8, <4>1
      <4> QED BY <4>1, <4>2
    <3>2. CASE k = 6
      <4>1. ~(6 <= 0) /\ ~(6 <= 0 + (8 - 3)) /\ 6 - (8 - 3) = 1 /\ 6 \in 1..8 OBVIOUS
      <4>2. G[6] = W[1] BY <1>8, <4>1
      <4> QED BY <1>6, <3>2, <4>2
    <3>3. CASE k = 7
      <4>1. ~(7 <= 0) /\ ~(7 <= 0 + (8 - 3)) /\ 7 - (8 - 3) = 2 /\ 7 \in 1..8 OBVIOUS
      <4>2. G[7] = W[2] BY <1>8, <4>1
      <4> QED BY <1>6, <3>3, <4>2
    <3>4. CASE k = 8
      <4>1. ~(8 <= 0) /\ ~(8 <= 0 + (8 - 3)) /\ 8 - (8 - 3) = 3 /\ 8 \in 1..8 OBVIOUS
      <4>2. G[8] = W[3] BY <1>8, <4>1
      <4> QED BY <1>6, <3>4, <4>2
    <3> QED BY <3>1, <3>2, <3>3, <3>4
  <2>3. G \in Seq(H) /\ Len(G) = 8 BY <1>8
  <2> HIDE DEF G, H
  <2>4. a = G BY <2>1, <2>2, <2>3, SameSeq
  <2> QED BY <2>4 DEF G
<1>10. Len(o) \in {0, 4} /\ (b < 0 => r = <<>>) OBVIOUS
<1>11. Denoted6(Body(l, b, r, o)) = {Read6(l, b, r, o)}
  <2>1. IF b < 0 THEN Room(l, r, o) = 8 ELSE Room(l, r, o) < 8
    <3>1. Room(l, r, o) = Len(l) + Len(r) + 2 BY <1>3 DEF Room
    <3>2. Room(l, r, o) = 3 BY <1>1, <3>1
    <3> QED BY <3>2
  <2>2. \A k \in 1..Len(l) : IsGroup(l[k])
    <3>1. 1..Len(l) = {} BY <1>1
    <3> QED BY <3>1
  <2>3. \A k \in 1..Len(r) : IsGroup(r[k])
    <3>1. \A k \in 1..Len(r) : k = 1 BY <1>1
    <3> QED BY <1>1, <3>1
  <2>4. l \in Seq(Nums) /\ r \in Seq(Nums) BY <1>1
  <2> HIDE DEF l
  <2> QED BY <1>10, <2>1, <2>2, <2>3, <2>4, DenotesSix, ZenonT(40)
<1>12. Dot \in ToSet(Body(l, b, r, o))
  <2> HIDE DEF l
  <2> QED BY <1>1, <1>3, <1>10, NumeralsOfBody
<1> QED BY <1>7, <1>9, <1>11, <1>12 DEF r

LEMMA MappedIs ==
  ASSUME NEW a, Mapped(a) PROVE (\A k \in 1..5 : a[k] = 0) /\ a[6] # 0
<1>1. \A k \in 1..6 : a[k] = IF k = 6 THEN 65535 ELSE 0 BY SMT DEF Mapped
<1> QED BY <1>1, SMT

LEMMA MappedShown ==
  ASSUME NEW a \in Seq(Sixteen), Len(a) = 8, Mapped(a)
  PROVE  Denoted6(Ntop(a)) = {a} /\ Dot \in ToSet(Ntop(a))
<1> DEFINE hs == FirstSix(a)
           o == Spelled(BytesOf(a), 10)
           n == hs[6]
<1>1. (\A k \in 1..5 : a[k] = 0) /\ a[6] # 0 BY MappedIs
<1>2. /\ hs \in Seq(Nums) /\ Len(hs) = 6
      /\ \A k \in 1..6 : /\ hs[k] \in Nums /\ IsGroup(hs[k]) /\ Value(hs[k], 16) = a[k]
                         /\ a[k] = 0 <=> hs[k] = << 0 >>
  BY FirstSixIs
<1>3. /\ o \in Seq(Nums) /\ Len(o) = 4
      /\ Values(o, 10) = BytesOf(a)
      /\ \A k \in 1..4 : IsByte(o[k])
      /\ Plain(a) = Lead(hs, Colon) \o Alt(o, Dot)
  BY MappedPlain
<1>4. PairOf(Values(o, 10), 1) = a[7] /\ PairOf(Values(o, 10), 3) = a[8] BY <1>3, BytesOfIs
<1> HIDE DEF hs, o
<1>5. (\A k \in 1..5 : hs[k] = << 0 >>) /\ hs[6] # << 0 >>
  <2>1. 6 \in 1..6 /\ \A k \in 1..5 : k \in 1..6 OBVIOUS
  <2> QED BY <1>1, <1>2, <2>1
<1>6. n \in Nums /\ IsGroup(n) /\ Value(n, 16) = a[6]
  <2>1. 6 \in 1..6 OBVIOUS
  <2> QED BY <1>2, <2>1
<1>7. PICK b \in {-1, 0} : b = 0 OBVIOUS
<1>8. ~(b < 0) BY <1>7
<1>9. Compressed(Plain(a)) = Body(<<>>, b, <<n>>, o)
  <2>1. Compressed(Lead(hs, Colon) \o Alt(o, Dot)) = Body(<<>>, b, <<hs[6]>>, o)
    BY <1>2, <1>3, <1>5, <1>8, MappedCut, ZenonT(60)
  <2> QED BY <1>3, <2>1, ZenonT(40)
<1>10. Ntop(a) = Body(<<>>, b, <<n>>, o) BY <1>9 DEF Ntop
<1> HIDE DEF n
<1>11. /\ Denoted6(Body(<<>>, b, <<n>>, o)) = {a}
       /\ Dot \in ToSet(Body(<<>>, b, <<n>>, o))
  BY <1>1, <1>3, <1>4, <1>6, <1>8, MappedDenotes
<1> QED BY <1>10, <1>11

LEMMA DoneShows == ParseInv => ToStringIsTheAddress
<1> SUFFICES ASSUME ParseInv, phase = "done" PROVE ToStringIsTheAddress
  BY DEF ToStringIsTheAddress
<1> DEFINE s == [port \in Ports |-> TextOf(Result, StoredPort(port))]
           w == Ntop(Result)
           ShownIs(t) == Denoted(t) = {Result} /\ (Dot \in ToSet(t) \/ Len(t) < Len(text))
<1>1. \A port \in Ports : s[port].address = w BY DEF TextOf
<1>2. \A port \in Ports : s[port].port = IF AsUnsigned(port) = 0 THEN <<>> ELSE <<AsUnsigned(port)>>
  <2> SUFFICES ASSUME NEW port \in Ports
               PROVE  s[port].port = IF AsUnsigned(port) = 0 THEN <<>> ELSE <<AsUnsigned(port)>>
    OBVIOUS
  <2>1. port \in Nat BY AddrAssumption
  <2>2. s[port] = TextOf(Result, StoredPort(port)) OBVIOUS
  <2> QED BY <2>1, <2>2, PortsComeBack
<1>3. ASSUME family = "v4" /\ \E o \in Seq(Nums) : ReadFour(o) PROVE ShownIs(w)
  <2>1. PICK o \in Seq(Nums) : ReadFour(o) BY <1>3
  <2>2. Len(o) = 4 /\ (\A k \in 1..Len(o) : IsByte(o[k])) /\ Result = Values(o, 10)
    BY <2>1 DEF ReadFour
  <2>3. Result \in Seq(0..255) /\ Len(Result) = 4 BY <2>2, BytesRead
  <2>4. Denoted4(w) = {Result} /\ Dot \in ToSet(w) BY <2>3, FourShown
  <2> QED BY <1>3, <2>4 DEF Denoted
<1>4. ASSUME family = "v6", \E l \in Seq(Nums), r \in Seq(Nums), o \in Seq(Nums) : ReadSix(l, r, o)
      PROVE  ShownIs(w)
  <2>1. PICK l \in Seq(Nums), r \in Seq(Nums), o \in Seq(Nums) : ReadSix(l, r, o) BY <1>4
  <2> DEFINE v == Body(l, brk, r, o)
  <2>2. /\ Len(o) \in {0, 4} /\ (brk < 0 => r = <<>>)
        /\ \A k \in 1..Len(l) : IsGroup(l[k])
        /\ \A k \in 1..Len(r) : IsGroup(r[k])
        /\ \A k \in 1..Len(o) : IsByte(o[k])
        /\ IF brk < 0 THEN Room(l, r, o) = 8 ELSE Room(l, r, o) < 8
    BY <2>1 DEF ReadSix
  <2>3. Result = Read6(l, brk, r, o) /\ text = Append(v, End) BY <2>1 DEF ReadSix
  <2>4. Result \in Seq(Sixteen) /\ Len(Result) = 8
    <3>1. Read6(l, brk, r, o) \in Seq(Sixteen) /\ Len(Read6(l, brk, r, o)) = 8
      BY <2>2, ReadTyped, SMTT(40)
    <3> QED BY <2>3, <3>1
  <2>5. ASSUME Mapped(Result) PROVE ShownIs(w)
    <3>1. Denoted6(w) = {Result} /\ Dot \in ToSet(w) BY <2>4, <2>5, MappedShown
    <3> QED BY <1>4, <3>1 DEF Denoted
  <2>6. ASSUME ~Mapped(Result) PROVE ShownIs(w)
    <3>1. Denoted6(w) = {Result} /\ Len(w) \in Int BY <2>4, <2>6, SixShown
    <3>2. Len(w) <= Len(v)
      <4>1. ~Mapped(Read6(l, brk, r, o)) BY <2>3, <2>6
      <4>2. Len(Ntop(Read6(l, brk, r, o))) <= Len(v) BY <2>2, <4>1, NoneShorter, SMTT(40)
      <4> QED BY <2>3, <4>2
    <3>3. v \in Seq(Tokens) BY <2>2, BodyWhole, BodyOpen
    <3> HIDE DEF w, v
    <3>4. Len(text) = Len(v) + 1 /\ Len(v) \in Nat
      <4>1. End \in Tokens BY TokensAre
      <4> QED BY <2>3, <3>3, <4>1, AppendProperties, LenProperties
    <3>5. Len(w) < Len(text) BY <3>1, <3>2, <3>4
    <3> QED BY <1>4, <3>1, <3>5 DEF Denoted, w
  <2> QED BY <2>5, <2>6
<1>5. ShownIs(w) BY <1>3, <1>4, DoneStands
<1> QED BY <1>1, <1>2, <1>5 DEF ToStringIsTheAddress

(* For any numerals and ports: ToString of the address that was read is a  *)
(* text of that address, no text of it but a dotted one is shorter, and    *)
(* the port comes back modulo 2^16 (inet_ntop.h:26-67, addr.h:61-74,       *)
(* htons.h:20-50).                                                         *)
THEOREM TextsAreShown == Spec => []ToStringIsTheAddress
BY AlwaysParses, DoneShows, PTL

(* Of any text of an IPv6 address, read or not: ToString writes a text of  *)
(* that address and of no other, and unless the address is an IPv4 mapped  *)
(* one it is no longer than the first (inet_ntop.h:26-67).                 *)
THEOREM NoTextIsShorter ==
  ASSUME NEW w \in Seq(Tokens), family = "v6", NEW a \in Denoted6(w)
  PROVE  Denoted6(Ntop(a)) = {a} /\ (Mapped(a) \/ Len(Ntop(a)) <= Len(w))
<1>1. Addressed(w) BY Six, ZenonT(40)
<1>2. PICK l \in Seq(Nums), r \in Seq(Nums), o \in Seq(Nums), b \in {-1, 0} :
        Rightful(l, b, r, o) /\ w = Body(l, b, r, o)
  BY <1>1, ZenonT(40) DEF Addressed
<1>3. /\ Len(o) \in {0, 4} /\ (b < 0 => r = <<>>)
      /\ \A k \in 1..Len(l) : IsGroup(l[k])
      /\ \A k \in 1..Len(r) : IsGroup(r[k])
      /\ \A k \in 1..Len(o) : IsByte(o[k])
      /\ IF b < 0 THEN Room(l, r, o) = 8 ELSE Room(l, r, o) < 8
  <2>1. family # "v4" OBVIOUS
  <2> QED BY <1>2, <2>1, ZenonT(40) DEF Rightful
<1>4. a = Read6(l, b, r, o)
  <2>1. Denoted6(Body(l, b, r, o)) = {Read6(l, b, r, o)} BY <1>3, DenotesSix, ZenonT(40)
  <2> QED BY <1>2, <2>1
<1>5. a \in Seq(Sixteen) /\ Len(a) = 8
  <2>1. Read6(l, b, r, o) \in Seq(Sixteen) /\ Len(Read6(l, b, r, o)) = 8
    BY <1>3, ReadTyped, SMTT(40)
  <2> QED BY <1>4, <2>1
<1>6. CASE Mapped(a) BY <1>5, <1>6, MappedShown
<1>7. CASE ~Mapped(a)
  <2>1. Denoted6(Ntop(a)) = {a} BY <1>5, <1>7, SixShown, ZenonT(40)
  <2>2. ~Mapped(Read6(l, b, r, o)) BY <1>4, <1>7
  <2>3. Len(Ntop(Read6(l, b, r, o))) <= Len(Body(l, b, r, o))
    BY <1>3, <2>2, NoneShorter, ZenonT(60)
  <2>4. Len(Ntop(a)) <= Len(w) BY <1>2, <1>4, <2>3, Zenon
  <2> QED BY <2>1, <2>4
<1> QED BY <1>6, <1>7

=============================================================================
