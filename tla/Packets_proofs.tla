---------------------------- MODULE Packets_proofs ----------------------------
(***************************************************************************)
(* What is decoded is what was encoded, no buffer is overrun, and a packet *)
(* that comes through undisturbed is received once: for every length of a  *)
(* run, every checksum, every set of messages and any number of faults.    *)
(***************************************************************************)
EXTENDS Packets, SequenceTheorems, WellFoundedInduction, TLAPS

Coded == Bytes \ {0}

LEMMA Constants ==
    /\ ByteMax \in Nat /\ ByteMax >= 2 /\ PacketTimeout \in Nat /\ MaxFaults \in Nat
    /\ CrcSize \in Nat /\ IdSize \in Nat /\ MaxData \in Nat /\ MaxPacket \in Nat
    /\ 0 \in Bytes /\ Bytes \subseteq Nat /\ Coded \subseteq Bytes
    /\ \A n \in 1 .. ByteMax : n \in Coded
    /\ \A c \in Coded : c \in 1 .. ByteMax
    /\ -1 \notin Bytes
BY PacketsAssumption DEF Bytes, Coded, MaxPacket

\* The error is no sequence of bytes.
LEMMA FailureIsNone ==
    ASSUME NEW s \in Seq(Bytes)
    PROVE  s # Failure
<1> SUFFICES ASSUME s = Failure PROVE FALSE
    OBVIOUS
<1>1. Len(s) = 1 /\ s[1] = -1
      BY DEF Failure
<1>2. s[1] \in Bytes
      BY <1>1, ElementOfSeq
<1> QED  BY <1>1, <1>2, Constants

-----------------------------------------------------------------------------
(* Induction, for sets: the provers cannot instantiate the library's theorem *)

LEMMA Least ==
    ASSUME NEW T \in SUBSET Nat, T # {}
    PROVE  \E n \in T : \A m \in T : n <= m
<1> DEFINE R == OpToRel(<, Nat)
<1>1. IsWellFoundedOn(R, Nat)
      BY NatLessThanWellFounded
<1>2. \A x, y \in Nat : <<x, y>> \in R <=> x < y
      BY DEF OpToRel
<1> HIDE DEF R
<1>3. PICK x \in T : \A y \in T : ~ (<<y, x>> \in R)
      BY <1>1, WFMin
<1>4. \A y \in T : ~ (y < x)
      BY <1>2, <1>3
<1> QED  BY <1>4

LEMMA Induction ==
    ASSUME NEW T, 0 \in T, \A n \in Nat : n \in T => n + 1 \in T
    PROVE  \A n \in Nat : n \in T
<1> SUFFICES ASSUME Nat \ T # {}  PROVE FALSE
    OBVIOUS
<1>1. PICK n \in Nat \ T : \A m \in Nat \ T : n <= m
      BY Least
<1>2. n # 0 /\ n - 1 \in Nat
      BY <1>1
<1>3. n - 1 \in T
      BY <1>1, <1>2
<1> QED  BY <1>1, <1>2, <1>3

-----------------------------------------------------------------------------
(* Decoding: the groups from each position on                              *)

Cat(a, b) == a \o b

Groups(f, s) ==
    f = [p \in 1 .. Len(s) |-> IF More(s, p) THEN Cat(Piece(s, p), f[p + s[p]])
                                             ELSE Piece(s, p)]

\* All that is decoded from s.
Value(s) == (CHOOSE f : Groups(f, s))[1]

LEMMA DecodeIs ==
    ASSUME NEW s \in Seq(Coded), NEW n \in Nat, s # <<>>
    PROVE  cobsr_decode(s, n) = IF Len(Value(s)) <= n THEN Value(s) ELSE Failure
<1>1. ~ (\E i \in 1 .. Len(s) : s[i] = 0)
      BY ElementOfSeq DEF Coded
<1> QED  BY <1>1 DEF cobsr_decode, Value, Groups, Cat, Fits

\* The part of a group in s, from position p on.
LEMMA PieceType ==
    ASSUME NEW s \in Seq(Coded), NEW p \in 1 .. Len(s)
    PROVE  /\ s[p] \in 1 .. ByteMax
           /\ Piece(s, p) \in Seq(Bytes)
           /\ More(s, p) => p + s[p] \in p + 1 .. Len(s)
<1>1. Len(s) \in Nat /\ s[p] \in 1 .. ByteMax /\ \A i \in 1 .. Len(s) : s[i] \in Bytes
      BY LenProperties, ElementOfSeq, Constants
<1>2. More(s, p) => p + s[p] \in p + 1 .. Len(s)
      BY <1>1 DEF More
<1> DEFINE last == IF More(s, p) THEN p + s[p] - 1 ELSE Len(s)
           run  == SubSeq(s, p + 1, last)
<1>3. last \in Int /\ p + 1 \in Int /\ last <= Len(s)
      BY <1>1, <1>2
<1>4. run \in Seq(Bytes)
  <2>1. \A i \in p + 1 .. last : s[i] \in Bytes
        BY <1>1, <1>3
  <2> HIDE DEF last
  <2> QED  BY <1>3, <2>1, SubSeqProperties
<1>5. Piece(s, p) \in {run, Append(run, 0), Append(run, s[p])}
      BY DEF Piece
<1> HIDE DEF run
<1>6. Append(run, 0) \in Seq(Bytes) /\ Append(run, s[p]) \in Seq(Bytes)
      BY <1>1, <1>4, Constants, AppendProperties
<1> QED  BY <1>1, <1>2, <1>4, <1>5, <1>6

\* The function exists: a group looks only at what is behind it.
LEMMA GroupsExist ==
    ASSUME NEW s \in Seq(Coded)
    PROVE  \E f : Groups(f, s)
<1> DEFINE N == Len(s)
           At(f, p) == IF More(s, p) THEN Cat(Piece(s, p), f[p + s[p]]) ELSE Piece(s, p)
           From(f, k) == f = [p \in k .. N |-> At(f, p)]
           T == {n \in Nat : n <= N => \E f : From(f, N + 1 - n)}
<1>1. N \in Nat
      BY LenProperties
<1> HIDE DEF N
<1>2. 0 \in T
  <2>1. N + 1 .. N = {} /\ N + 1 - 0 = N + 1
        BY <1>1
  <2>2. From([p \in {} |-> 0], N + 1)
        BY <2>1
  <2> HIDE DEF From
  <2> QED  BY <2>1, <2>2
<1>3. ASSUME NEW n \in Nat, n \in T  PROVE n + 1 \in T
  <2> SUFFICES ASSUME n + 1 <= N  PROVE \E f : From(f, N + 1 - (n + 1))
      OBVIOUS
  <2> DEFINE k == N - n
  <2>1. /\ N + 1 - (n + 1) = k /\ N + 1 - n = k + 1 /\ k \in 1 .. N /\ n <= N
        BY <1>1
  <2>2. PICK f : From(f, k + 1)
        BY <1>3, <2>1
  <2> HIDE DEF k
  <2> DEFINE g == [p \in k .. N |-> IF p = k THEN At(f, k) ELSE f[p]]
  <2>3. \A p \in k + 1 .. N : g[p] = f[p] /\ f[p] = At(f, p)
        BY <1>1, <2>1, <2>2
  <2>4. ASSUME NEW p \in k .. N  PROVE g[p] = At(g, p)
    <3>1. p \in 1 .. Len(s)
          BY <1>1, <2>1 DEF N
    <3>2. More(s, p) => p + s[p] \in k + 1 .. N
          BY <1>1, <2>1, <3>1, PieceType DEF N
    <3>3. More(s, p) => g[p + s[p]] = f[p + s[p]]
          BY <2>3, <3>2
    <3>4. At(g, p) = At(f, p)
      <4> HIDE DEF g
      <4> QED  BY <3>3
    <3>5. g[p] = At(f, p)
      <4>1. CASE p = k
        <5> HIDE DEF At
        <5> QED  BY <2>1, <4>1
      <4>2. CASE p # k
        <5>1. p \in k + 1 .. N
              BY <1>1, <2>1, <4>2
        <5> QED  BY <2>3, <5>1
      <4> QED  BY <4>1, <4>2
    <3> QED  BY <3>4, <3>5
  <2>5. From(g, k)
    <3>1. g = [p \in k .. N |-> g[p]]
          OBVIOUS
    <3> HIDE DEF At, g
    <3> QED  BY <2>4, <3>1
  <2> HIDE DEF From, g
  <2> QED  BY <2>1, <2>5
<1> HIDE DEF T
<1>4. \A n \in Nat : n \in T
      BY <1>2, <1>3, Induction
<1>5. PICK f : From(f, 1)
  <2>1. N \in T /\ N + 1 - N = 1
        BY <1>1, <1>4
  <2> QED  BY <1>1, <2>1 DEF T
<1>6. Groups(f, s)
      BY <1>5 DEF Groups, N
<1> QED  BY <1>6

LEMMA GroupsAt ==
    ASSUME NEW s, NEW f, Groups(f, s), NEW p \in 1 .. Len(s)
    PROVE  f[p] = IF More(s, p) THEN Cat(Piece(s, p), f[p + s[p]]) ELSE Piece(s, p)
BY DEF Groups

\* What a group stands for does not depend on what is before it.
LEMMA PieceShift ==
    ASSUME NEW u \in Seq(Coded), NEW v \in Seq(Coded), NEW q \in 1 .. Len(v)
    PROVE  LET s == u \o v
               p == Len(u) + q
           IN  /\ p \in 1 .. Len(s) /\ s[p] = v[q]
               /\ More(s, p) = More(v, q)
               /\ Piece(s, p) = Piece(v, q)
<1> DEFINE s == u \o v
           p == Len(u) + q
<1>1. /\ Len(u) \in Nat /\ Len(v) \in Nat /\ s \in Seq(Coded) /\ Len(s) = Len(u) + Len(v)
      /\ \A i \in 1 .. Len(u) + Len(v) : s[i] = IF i <= Len(u) THEN u[i] ELSE v[i - Len(u)]
      BY LenProperties, ConcatProperties
<1>2. p \in 1 .. Len(s) /\ ~(p <= Len(u)) /\ p - Len(u) = q
      BY <1>1
<1>3. s[p] = v[q]
      BY <1>1, <1>2
<1>4. Len(s) - p = Len(v) - q
      BY <1>1
<1>5. More(s, p) = More(v, q)
      BY <1>3, <1>4 DEF More
<1>6. v[q] \in 1 .. ByteMax /\ (More(v, q) => q + v[q] \in q + 1 .. Len(v))
      BY PieceType
<1> HIDE DEF s
<1>7. ASSUME NEW e \in q .. Len(v)
      PROVE  SubSeq(s, p + 1, Len(u) + e) = SubSeq(v, q + 1, e)
  <2>1. CASE e = q
    <3>1. SubSeq(s, p + 1, Len(u) + e) = <<>> /\ SubSeq(v, q + 1, e) = <<>>
      <4>1. p + 1 \in Int /\ Len(u) + e \in Int /\ Len(u) + e < p + 1
            /\ q + 1 \in Int /\ e \in Int /\ e < q + 1
            BY <1>1, <2>1
      <4> HIDE DEF p
      <4> QED  BY <4>1, SubSeqEmpty
    <3> QED  BY <3>1
  <2>2. CASE e # q
    <3>1. /\ p + 1 \in Len(u) + 1 .. Len(u) + Len(v) /\ Len(u) + e \in Len(u) + 1 .. Len(u) + Len(v)
          /\ (p + 1) - Len(u) = q + 1 /\ (Len(u) + e) - Len(u) = e
          BY <1>1, <2>2
    <3> HIDE DEF p
    <3>2. SubSeq(u \o v, p + 1, Len(u) + e) = SubSeq(v, (p + 1) - Len(u), (Len(u) + e) - Len(u))
          BY <3>1, SubSeqOfConcat2
    <3> QED  BY <3>1, <3>2 DEF s
  <2> QED  BY <2>1, <2>2
<1>8. Piece(s, p) = Piece(v, q)
  <2>1. CASE More(v, q)
    <3>1. q + v[q] - 1 \in q .. Len(v) /\ Len(u) + (q + v[q] - 1) = p + s[p] - 1
          BY <1>1, <1>3, <1>6, <2>1
    <3>2. SubSeq(s, p + 1, p + s[p] - 1) = SubSeq(v, q + 1, q + v[q] - 1)
          BY <1>7, <3>1
    <3> HIDE DEF p
    <3> QED  BY <1>3, <1>5, <2>1, <3>2 DEF Piece
  <2>2. CASE ~More(v, q)
    <3>1. Len(v) \in q .. Len(v) /\ Len(u) + Len(v) = Len(s)
          BY <1>1
    <3>2. SubSeq(s, p + 1, Len(s)) = SubSeq(v, q + 1, Len(v))
          BY <1>7, <3>1
    <3> HIDE DEF p
    <3> QED  BY <1>3, <1>4, <1>5, <2>2, <3>2 DEF Piece
  <2> QED  BY <2>1, <2>2
<1> QED  BY <1>2, <1>3, <1>5, <1>8 DEF s

\* The groups of v are the same behind any u.
LEMMA GroupsShift ==
    ASSUME NEW u \in Seq(Coded), NEW v \in Seq(Coded), NEW f, NEW g,
           Groups(f, u \o v), Groups(g, v)
    PROVE  \A q \in 1 .. Len(v) : f[Len(u) + q] = g[q]
<1> DEFINE s == u \o v
           T == {n \in Nat : \A q \in 1 .. Len(v) : Len(v) - q < n => f[Len(u) + q] = g[q]}
<1>1. Len(u) \in Nat /\ Len(v) \in Nat
      BY LenProperties
<1>2. 0 \in T
      BY <1>1
<1>3. ASSUME NEW n \in Nat, n \in T  PROVE n + 1 \in T
  <2> SUFFICES ASSUME NEW q \in 1 .. Len(v), Len(v) - q < n + 1
               PROVE  f[Len(u) + q] = g[q]
      OBVIOUS
  <2> DEFINE p == Len(u) + q
  <2>1. /\ p \in 1 .. Len(s) /\ s[p] = v[q]
        /\ More(s, p) = More(v, q) /\ Piece(s, p) = Piece(v, q)
        BY PieceShift
  <2>2. /\ f[p] = IF More(s, p) THEN Cat(Piece(s, p), f[p + s[p]]) ELSE Piece(s, p)
        /\ g[q] = IF More(v, q) THEN Cat(Piece(v, q), g[q + v[q]]) ELSE Piece(v, q)
        BY <2>1, GroupsAt
  <2>3. More(v, q) => f[p + s[p]] = g[q + v[q]]
    <3> SUFFICES ASSUME More(v, q)  PROVE f[p + s[p]] = g[q + v[q]]
        OBVIOUS
    <3>1. q + v[q] \in q + 1 .. Len(v) /\ v[q] \in 1 .. ByteMax
          BY PieceType
    <3>2. p + v[q] = Len(u) + (q + v[q])
          BY <1>1, <3>1, Constants
    <3>3. q + v[q] \in 1 .. Len(v) /\ Len(v) - (q + v[q]) < n
          BY <1>1, <3>1
    <3> QED  BY <1>3, <2>1, <3>2, <3>3
  <2> QED  BY <2>1, <2>2, <2>3
<1> HIDE DEF T
<1>4. Len(v) \in T
      BY <1>1, <1>2, <1>3, Induction
<1> QED  BY <1>1, <1>4 DEF T

LEMMA ValueIs ==
    ASSUME NEW s \in Seq(Coded), s # <<>>, NEW f, Groups(f, s)
    PROVE  Value(s) = f[1]
<1>1. PICK g : Groups(g, s) /\ Value(s) = g[1]
      BY GroupsExist, Zenon DEF Value
<1>2. <<>> \o s = s /\ <<>> \in Seq(Coded) /\ Len(<<>>) = 0 /\ 1 \in 1 .. Len(s)
      BY ConcatEmptySeq, EmptySeq, LenProperties
<1>4. PICK u \in Seq(Coded) : u \o s = s /\ Len(u) = 0
      BY <1>2
<1>5. Groups(f, u \o s)
      BY <1>4
<1>6. \A q \in 1 .. Len(s) : f[Len(u) + q] = g[q]
  <2>1. Groups(g, s)
        BY <1>1
  <2> QED  BY <2>1, <1>5, GroupsShift
<1>7. Len(u) + 1 = 1
      BY <1>4
<1> QED  BY <1>1, <1>2, <1>6, <1>7

\* The first group and the rest.
LEMMA ValueAfter ==
    ASSUME NEW u \in Seq(Coded), NEW v \in Seq(Coded), u # <<>>, v # <<>>, u[1] = Len(u)
    PROVE  /\ More(u \o v, 1)
           /\ Value(u \o v) = Piece(u \o v, 1) \o Value(v)
<1> DEFINE s == u \o v
<1>1. /\ Len(u) \in Nat \ {0} /\ Len(v) \in Nat \ {0} /\ s \in Seq(Coded)
      /\ Len(s) = Len(u) + Len(v) /\ s[1] = Len(u)
      BY LenProperties, ConcatProperties, EmptySeq
<1>2. s # <<>> /\ 1 \in 1 .. Len(s)
      BY <1>1, EmptySeq
<1>3. More(s, 1)
      BY <1>1 DEF More
<1>4. PICK f : Groups(f, s)
      BY <1>1, GroupsExist
<1>5. PICK g : Groups(g, v)
      BY GroupsExist
<1>6. Value(s) = f[1] /\ Value(v) = g[1]
      BY <1>1, <1>2, <1>4, <1>5, ValueIs
<1>7. f[1] = Cat(Piece(s, 1), f[1 + Len(u)])
      BY <1>1, <1>2, <1>3, <1>4, GroupsAt
<1>8. f[Len(u) + 1] = g[1]
      BY <1>1, <1>4, <1>5, GroupsShift
<1>9. 1 + Len(u) = Len(u) + 1
      BY <1>1
<1> QED  BY <1>3, <1>6, <1>7, <1>8, <1>9 DEF Cat

LEMMA ValueType ==
    ASSUME NEW s \in Seq(Coded), s # <<>>
    PROVE  Value(s) \in Seq(Bytes)
<1> DEFINE T == {n \in Nat : \A v \in Seq(Coded) : v # <<>> /\ Len(v) <= n => Value(v) \in Seq(Bytes)}
<1>2. 0 \in T
      BY LenProperties, EmptySeq
<1>3. ASSUME NEW n \in Nat, n \in T  PROVE n + 1 \in T
  <2> SUFFICES ASSUME NEW v \in Seq(Coded), v # <<>>, Len(v) <= n + 1
               PROVE  Value(v) \in Seq(Bytes)
      OBVIOUS
  <2>1. Len(v) \in Nat \ {0} /\ 1 \in 1 .. Len(v)
        BY LenProperties, EmptySeq
  <2>2. v[1] \in 1 .. ByteMax /\ Piece(v, 1) \in Seq(Bytes)
        /\ (More(v, 1) => 1 + v[1] \in 2 .. Len(v))
        BY <2>1, PieceType
  <2>3. CASE More(v, 1)
    <3> DEFINE c == v[1]
               u == SubSeq(v, 1, c)
               w == SubSeq(v, c + 1, Len(v))
    <3>1. c \in 1 .. Len(v) - 1
          BY <2>1, <2>2, <2>3, Constants
    <3>2. v = u \o w /\ u \in Seq(Coded) /\ w \in Seq(Coded) /\ Len(u) = c
          /\ Len(w) = Len(v) - c /\ u[1] = c
      <4>1. \A i \in 1 .. Len(v) : v[i] \in Coded
            BY ElementOfSeq
      <4>2. u \in Seq(Coded) /\ Len(u) = c /\ u[1] = v[1]
        <5>1. 1 \in Int /\ c \in Int /\ 1 <= c /\ \A i \in 1 .. c : v[i] \in Coded
              BY <2>1, <3>1, <4>1
        <5> HIDE DEF c
        <5>2. u \in Seq(Coded) /\ Len(u) = c - 1 + 1 /\ \A i \in 1 .. c - 1 + 1 : u[i] = v[1 + i - 1]
              BY <5>1, SubSeqProperties
        <5> HIDE DEF u
        <5>3. 1 \in 1 .. c - 1 + 1 /\ c - 1 + 1 = c /\ 1 + 1 - 1 = 1
              BY <5>1
        <5> QED  BY <5>2, <5>3
      <4>3. w \in Seq(Coded) /\ Len(w) = Len(v) - c
        <5>1. /\ c + 1 \in Int /\ Len(v) \in Int /\ c + 1 <= Len(v) /\ Len(v) - (c + 1) + 1 = Len(v) - c
              /\ \A i \in c + 1 .. Len(v) : v[i] \in Coded
              BY <2>1, <3>1, <4>1
        <5> HIDE DEF c
        <5> QED  BY <5>1, SubSeqProperties
      <4>4. v = u \o w
        <5> HIDE DEF c
        <5>1. Len(v) - 1 \in Nat /\ 1 <= Len(v) + 1 /\ c \in 0 .. Len(v)
              BY <2>1, <3>1
        <5> QED  BY <2>1, <3>1, <5>1, ConcatAdjacentSubSeq, SubSeqFull
      <4> QED  BY <4>2, <4>3, <4>4
    <3> HIDE DEF u, w
    <3>3. u # <<>> /\ w # <<>> /\ Len(w) <= n /\ u[1] = Len(u)
          BY <2>1, <3>1, <3>2, EmptySeq
    <3>4. Value(u \o w) = Piece(v, 1) \o Value(w)
      <4> HIDE DEF c
      <4> QED  BY <3>2, <3>3, ValueAfter
    <3>5. Value(w) \in Seq(Bytes)
          BY <1>3, <3>2, <3>3
    <3> QED  BY <2>2, <3>2, <3>4, <3>5, ConcatProperties
  <2>4. CASE ~More(v, 1)
    <3>1. PICK f : Groups(f, v)
          BY GroupsExist
    <3>2. Value(v) = f[1] /\ f[1] = Piece(v, 1)
          BY <2>1, <2>4, <3>1, ValueIs, GroupsAt
    <3> QED  BY <2>2, <3>2
  <2> QED  BY <2>3, <2>4
<1> HIDE DEF T
<1>4. Len(s) \in Nat /\ Len(s) \in T
      BY <1>2, <1>3, Induction, LenProperties
<1> QED  BY <1>4 DEF T

-----------------------------------------------------------------------------
(* What the groups stand for that the encoder writes                       *)

\* The bytes behind the code of a group.
LEMMA Behind ==
    ASSUME NEW x \in Coded, NEW u \in Seq(Coded), NEW w \in Seq(Coded)
    PROVE  LET c == <<x>> \o u
           IN  /\ c \in Seq(Coded) /\ Len(c) = Len(u) + 1 /\ c[1] = x /\ c # <<>>
               /\ SubSeq(c \o w, 2, Len(u) + 1) = u
<1> DEFINE c == <<x>> \o u
           s == c \o w
<1>1. <<x>> \in Seq(Coded) /\ Len(<<x>>) = 1 /\ <<x>>[1] = x
      OBVIOUS
<1>2. Len(u) \in Nat /\ Len(w) \in Nat
      BY LenProperties
<1>3. /\ c \in Seq(Coded) /\ Len(c) = 1 + Len(u)
      /\ \A i \in 1 .. 1 + Len(u) : c[i] = IF i <= 1 THEN <<x>>[i] ELSE u[i - 1]
      BY <1>1, ConcatProperties
<1>4. c[1] = x /\ Len(c) = Len(u) + 1 /\ c # <<>>
      BY <1>1, <1>2, <1>3, EmptySeq
<1> HIDE DEF c
<1>5. /\ s \in Seq(Coded) /\ Len(s) = Len(c) + Len(w)
      /\ \A i \in 1 .. Len(c) + Len(w) : s[i] = IF i <= Len(c) THEN c[i] ELSE w[i - Len(c)]
      BY <1>3, ConcatProperties
<1> HIDE DEF s
<1>6. \A i \in 2 .. Len(u) + 1 : s[i] = u[i - 1] /\ s[i] \in Coded
  <2> SUFFICES ASSUME NEW i \in 2 .. Len(u) + 1  PROVE s[i] = u[i - 1] /\ s[i] \in Coded
      OBVIOUS
  <2>1. i \in 1 .. Len(c) + Len(w) /\ i <= Len(c) /\ i \in 1 .. 1 + Len(u) /\ ~(i <= 1)
        BY <1>2, <1>4
  <2>2. s[i] = u[i - 1] /\ i - 1 \in 1 .. Len(u)
        BY <1>2, <1>3, <1>5, <2>1
  <2> QED  BY <2>2, ElementOfSeq
<1> DEFINE r == SubSeq(s, 2, Len(u) + 1)
<1>7. /\ r \in Seq(Coded) /\ Len(r) = IF 2 <= Len(u) + 1 THEN Len(u) + 1 - 2 + 1 ELSE 0
      /\ \A i \in 1 .. Len(u) + 1 - 2 + 1 : r[i] = s[2 + i - 1]
  <2>1. 2 \in Int /\ Len(u) + 1 \in Int
        BY <1>2
  <2> QED  BY <1>6, <2>1, SubSeqProperties
<1> HIDE DEF r
<1>8. Len(r) = Len(u)
      BY <1>2, <1>7
<1>9. \A i \in 1 .. Len(u) : r[i] = u[i]
  <2> SUFFICES ASSUME NEW i \in 1 .. Len(u)  PROVE r[i] = u[i]
      OBVIOUS
  <2>1. i \in 1 .. Len(u) + 1 - 2 + 1 /\ 2 + i - 1 \in 2 .. Len(u) + 1 /\ (2 + i - 1) - 1 = i
        BY <1>2
  <2> QED  BY <1>6, <1>7, <2>1
<1>10. r = u
      BY <1>7, <1>8, <1>9, SeqEqual
<1> QED  BY <1>3, <1>4, <1>10 DEF r, s, c

\* What a complete group stands for.
Part(run) == IF Len(run) + 1 = ByteMax THEN run ELSE Append(run, 0)

LEMMA ValueGroup ==
    ASSUME NEW run \in Seq(Coded), Len(run) + 1 <= ByteMax
    PROVE  /\ Group(run) \in Seq(Coded) /\ Len(Group(run)) = Len(run) + 1
           /\ \A w \in Seq(Coded) :
                w # <<>> => Value(Group(run) \o w) = Part(run) \o Value(w)
<1>1. Len(run) \in Nat /\ Len(run) + 1 \in Coded
      BY LenProperties, Constants
<1> DEFINE c == Group(run)
<1>2. /\ c \in Seq(Coded) /\ Len(c) = Len(run) + 1 /\ c[1] = Len(run) + 1 /\ c # <<>>
      /\ \A w \in Seq(Coded) : SubSeq(c \o w, 2, Len(run) + 1) = run
      BY <1>1, Behind DEF Group
<1> HIDE DEF c
<1>3. ASSUME NEW w \in Seq(Coded), w # <<>>
      PROVE  Value(c \o w) = Part(run) \o Value(w)
  <2> DEFINE s == c \o w
  <2>1. More(s, 1) /\ Value(s) = Piece(s, 1) \o Value(w)
        BY <1>2, <1>3, ValueAfter
  <2>2. s[1] = Len(run) + 1
    <3>1. Len(w) \in Nat /\ Len(c) \in Nat /\ 1 \in 1 .. Len(c) + Len(w) /\ 1 <= Len(c)
          BY <1>1, <1>2, LenProperties
    <3> QED  BY <1>2, <3>1, ConcatProperties
  <2>3. SubSeq(s, 2, Len(run) + 1) = run
        BY <1>2
  <2> HIDE DEF s
  <2>4. 1 + 1 = 2 /\ 1 + s[1] - 1 = Len(run) + 1
        BY <1>1, <2>2
  <2>5. Piece(s, 1) = Part(run)
        BY <2>1, <2>2, <2>3, <2>4 DEF Piece, Part
  <2> QED  BY <2>1, <2>5 DEF s
<1> QED  BY <1>2, <1>3 DEF c

LEMMA PartType ==
    ASSUME NEW run \in Seq(Coded)
    PROVE  Part(run) \in Seq(Bytes)
BY SeqMonotonic, AppendProperties, Constants DEF Part

LEMMA ValueLast ==
    ASSUME NEW run \in Seq(Coded), Len(run) + 1 <= ByteMax
    PROVE  /\ LastGroup(run) \in Seq(Coded) /\ LastGroup(run) # <<>>
           /\ Len(LastGroup(run)) <= Len(run) + 1
           /\ Value(LastGroup(run)) = run
<1> DEFINE n == Len(run)
           s == LastGroup(run)
<1>1. n \in Nat /\ n + 1 \in Coded /\ <<>> \in Seq(Coded)
      BY LenProperties, EmptySeq, Constants
<1>2. ASSUME s \in Seq(Coded), s # <<>>, ~More(s, 1), Piece(s, 1) = run
      PROVE  Value(s) = run
  <2> HIDE DEF s
  <2>1. PICK f : Groups(f, s)
        BY <1>2, GroupsExist
  <2>2. 1 \in 1 .. Len(s)
        BY <1>2, LenProperties, EmptySeq
  <2> QED  BY <1>2, <2>1, <2>2, ValueIs, GroupsAt
<1>3. CASE run # <<>> /\ Last(run) >= n + 1
  <2> DEFINE x == Last(run)
             u == Front(run)
  <2>1. n \in Nat \ {0} /\ n \in 1 .. n
        BY <1>1, <1>3, EmptySeq
  <2>2. x \in Coded /\ x \in 1 .. ByteMax /\ x >= n + 1 /\ x = run[n]
        BY <1>3, <2>1, ElementOfSeq, Constants DEF Last
  <2>3. u \in Seq(Coded) /\ Len(u) = n - 1 /\ Append(u, x) = run
    <3>1. \A i \in 1 .. n - 1 : run[i] \in Coded
          BY <2>1, ElementOfSeq
    <3>2. /\ u \in Seq(Coded) /\ Len(u) = IF 1 <= n - 1 THEN n - 1 - 1 + 1 ELSE 0
          /\ \A i \in 1 .. n - 1 - 1 + 1 : u[i] = run[1 + i - 1]
      <4>1. 1 \in Int /\ n - 1 \in Int
            BY <2>1
      <4> HIDE DEF n
      <4> QED  BY <3>1, <4>1, SubSeqProperties DEF Front, n
    <3> HIDE DEF u
    <3>3. Len(u) = n - 1 /\ \A i \in 1 .. n - 1 : u[i] = run[i]
      <4> HIDE DEF n
      <4>1. n - 1 - 1 + 1 = n - 1 /\ (~(1 <= n - 1) => n - 1 = 0)
            BY <2>1
      <4>2. \A i \in 1 .. n - 1 : 1 + i - 1 = i
            OBVIOUS
      <4> QED  BY <3>2, <4>1, <4>2
    <3> HIDE DEF x
    <3>4. /\ Append(u, x) \in Seq(Coded) /\ Len(Append(u, x)) = Len(u) + 1
          /\ \A i \in 1 .. Len(u) : Append(u, x)[i] = u[i]
          /\ Append(u, x)[Len(u) + 1] = x
          BY <2>2, <3>2, AppendProperties
    <3>5. Len(Append(u, x)) = n /\ \A i \in 1 .. n : Append(u, x)[i] = run[i]
          BY <2>1, <2>2, <3>3, <3>4
    <3> QED  BY <3>2, <3>3, <3>4, <3>5, SeqEqual
  <2>4. s = <<x>> \o u
        BY <1>3 DEF LastGroup
  <2> HIDE DEF x, u, s
  <2>5. /\ s \in Seq(Coded) /\ Len(s) = n /\ s[1] = x /\ s # <<>>
        /\ SubSeq(s \o <<>>, 2, n) = u
    <3>1. Len(u) + 1 = n
          BY <2>1, <2>3
    <3>2. /\ s \in Seq(Coded) /\ Len(s) = Len(u) + 1 /\ s[1] = x /\ s # <<>>
          /\ SubSeq(s \o <<>>, 2, Len(u) + 1) = u
          BY <1>1, <2>2, <2>3, <2>4, Behind
    <3> QED  BY <3>1, <3>2
  <2>6. SubSeq(s, 2, Len(s)) = u
        BY <2>5, ConcatEmptySeq
  <2>7. ~More(s, 1)
        BY <2>1, <2>2, <2>5 DEF More
  <2>8. 1 + 1 = 2 /\ x - 1 > Len(s) - 1
        BY <2>1, <2>2, <2>5
  <2>9. Piece(s, 1) = run
        BY <2>3, <2>5, <2>6, <2>7, <2>8 DEF Piece
  <2>10. Len(s) <= n + 1
        BY <2>1, <2>5
  <2> QED  BY <1>2, <2>5, <2>7, <2>9, <2>10 DEF s
<1>4. CASE ~(run # <<>> /\ Last(run) >= n + 1)
  <2>1. s = <<n + 1>> \o run
        BY <1>4 DEF LastGroup, Group
  <2> HIDE DEF s
  <2>2. /\ s \in Seq(Coded) /\ Len(s) = n + 1 /\ s[1] = n + 1 /\ s # <<>>
        /\ SubSeq(s \o <<>>, 2, n + 1) = run
        BY <1>1, <2>1, Behind
  <2>3. SubSeq(s, 2, Len(s)) = run
        BY <2>2, ConcatEmptySeq
  <2>4. ~More(s, 1) /\ ~(n + 1 - 1 > Len(s) - 1) /\ 1 + 1 = 2
        BY <1>1, <2>2 DEF More
  <2>5. Piece(s, 1) = run
        BY <2>2, <2>3, <2>4 DEF Piece
  <2> QED  BY <1>1, <1>2, <2>2, <2>4, <2>5 DEF s
<1> QED  BY <1>3, <1>4

-----------------------------------------------------------------------------
(* Encoding: the states after each byte                                    *)

\* The groups in out stand for dec, whatever follows.
Decodes(out, dec) ==
    \A w \in Seq(Coded) : w # <<>> => Value(out \o w) = dec \o Value(w)

LEMMA DecodesGroup ==
    ASSUME NEW out \in Seq(Coded), NEW dec \in Seq(Bytes), Decodes(out, dec),
           NEW run \in Seq(Coded), Len(run) + 1 <= ByteMax
    PROVE  /\ out \o Group(run) \in Seq(Coded) /\ dec \o Part(run) \in Seq(Bytes)
           /\ Len(out \o Group(run)) = Len(out) + Len(run) + 1
           /\ Decodes(out \o Group(run), dec \o Part(run))
<1>1. /\ Group(run) \in Seq(Coded) /\ Len(Group(run)) = Len(run) + 1
      /\ \A w \in Seq(Coded) : w # <<>> => Value(Group(run) \o w) = Part(run) \o Value(w)
      BY ValueGroup
<1>2. Part(run) \in Seq(Bytes)
      BY PartType
<1>3. /\ out \o Group(run) \in Seq(Coded)
      /\ Len(out \o Group(run)) = Len(out) + (Len(run) + 1)
      BY <1>1, ConcatProperties
<1>6. dec \o Part(run) \in Seq(Bytes)
      BY <1>2, ConcatProperties
<1>4. ASSUME NEW w \in Seq(Coded), w # <<>>
      PROVE  Value((out \o Group(run)) \o w) = (dec \o Part(run)) \o Value(w)
  <2>1. (out \o Group(run)) \o w = out \o (Group(run) \o w)
        BY <1>1, ConcatAssociative
  <2>2. Group(run) \o w \in Seq(Coded) /\ Group(run) \o w # <<>>
        BY <1>1, <1>4, ConcatProperties, ConcatEqualIffEmpty
  <2>3. Value(out \o (Group(run) \o w)) = dec \o Value(Group(run) \o w)
        BY <2>2 DEF Decodes
  <2>4. Value(Group(run) \o w) = Part(run) \o Value(w)
        BY <1>1, <1>4
  <2>5. (dec \o Part(run)) \o Value(w) = dec \o (Part(run) \o Value(w))
        BY <1>2, <1>4, ValueType, ConcatAssociative
  <2> QED  BY <2>1, <2>3, <2>4, <2>5
<1>5. Len(out) + (Len(run) + 1) = Len(out) + Len(run) + 1
      BY LenProperties
<1> QED  BY <1>3, <1>4, <1>5, <1>6 DEF Decodes

\* A full run is the only thing that makes the code longer: there are F of them
\* in the first i bytes.
Coding(src, i, out, run) ==
    /\ out \in Seq(Coded) /\ run \in Seq(Coded) /\ Len(run) + 1 <= ByteMax
    /\ \E dec \in Seq(Bytes) : Decodes(out, dec) /\ dec \o run = SubSeq(src, 1, i)
    /\ \E F \in Nat : /\ Len(out) + Len(run) = i + F
                      /\ F * (ByteMax - 1) + Len(run) <= i

LEMMA CodingFull ==
    ASSUME NEW src, NEW i \in Nat, NEW out, NEW run,
           Coding(src, i, out, run), Len(run) + 1 = ByteMax
    PROVE  Coding(src, i, out \o Group(run), <<>>)
<1>1. /\ out \in Seq(Coded) /\ run \in Seq(Coded) /\ Len(run) \in Nat /\ Len(out) \in Nat
      /\ <<>> \in Seq(Coded) /\ Len(<<>>) = 0 /\ ByteMax - 1 = Len(run)
      BY LenProperties, EmptySeq, Constants DEF Coding
<1>2. PICK dec \in Seq(Bytes) : Decodes(out, dec) /\ dec \o run = SubSeq(src, 1, i)
      BY DEF Coding
<1>3. PICK F \in Nat : /\ Len(out) + Len(run) = i + F
                       /\ F * (ByteMax - 1) + Len(run) <= i
      BY DEF Coding
<1>4. Part(run) = run
      BY DEF Part
<1>5. /\ out \o Group(run) \in Seq(Coded) /\ dec \o run \in Seq(Bytes)
      /\ Len(out \o Group(run)) = Len(out) + Len(run) + 1
      /\ Decodes(out \o Group(run), dec \o run)
  <2>1. Len(run) + 1 <= ByteMax /\ Decodes(out, dec)
        BY <1>2 DEF Coding
  <2>2. /\ out \o Group(run) \in Seq(Coded) /\ dec \o Part(run) \in Seq(Bytes)
        /\ Len(out \o Group(run)) = Len(out) + Len(run) + 1
        /\ Decodes(out \o Group(run), dec \o Part(run))
        BY <1>1, <2>1, DecodesGroup
  <2> QED  BY <1>4, <2>2
<1>6. (dec \o run) \o <<>> = SubSeq(src, 1, i)
      BY <1>2, <1>5, ConcatEmptySeq
<1>7. /\ Len(out \o Group(run)) + Len(<<>>) = i + (F + 1)
      /\ (F + 1) * (ByteMax - 1) + Len(<<>>) <= i
  <2>1. (F + 1) * Len(run) = F * Len(run) + Len(run) /\ F * Len(run) \in Nat
        BY <1>1
  <2> QED  BY <1>1, <1>3, <1>5, <2>1
<1>8. F + 1 \in Nat /\ Len(<<>>) + 1 <= ByteMax
      BY <1>1, Constants
<1> QED  BY <1>1, <1>5, <1>6, <1>7, <1>8 DEF Coding

LEMMA AppendConcat ==
    ASSUME NEW u \in Seq(Bytes), NEW v \in Seq(Bytes), NEW b \in Bytes
    PROVE  u \o Append(v, b) = (u \o v) \o <<b>>
<1>1. <<b>> \in Seq(Bytes) /\ Append(v, b) = v \o <<b>>
      BY AppendIsConcat
<1> QED  BY <1>1, ConcatAssociative

LEMMA CodingByte ==
    ASSUME NEW src \in Seq(Bytes), NEW i \in 1 .. Len(src), NEW out, NEW run,
           Coding(src, i - 1, out, run), Len(run) + 1 < ByteMax
    PROVE  /\ src[i] = 0 => Coding(src, i, out \o Group(run), <<>>)
           /\ src[i] # 0 => Coding(src, i, out, Append(run, src[i]))
<1>1. /\ out \in Seq(Coded) /\ run \in Seq(Coded) /\ Len(run) \in Nat /\ Len(out) \in Nat
      /\ Len(src) \in Nat /\ <<>> \in Seq(Coded) /\ Len(<<>>) = 0 /\ run \in Seq(Bytes)
      BY LenProperties, EmptySeq, SeqMonotonic, Constants DEF Coding
<1>2. PICK dec \in Seq(Bytes) : Decodes(out, dec) /\ dec \o run = SubSeq(src, 1, i - 1)
      BY DEF Coding
<1>3. PICK F \in Nat : /\ Len(out) + Len(run) = i - 1 + F
                       /\ F * (ByteMax - 1) + Len(run) <= i - 1
      BY DEF Coding
<1>4. F * (ByteMax - 1) \in Nat
      BY Constants
<1>5. src[i] \in Bytes /\ SubSeq(src, 1, i) = (dec \o run) \o <<src[i]>>
  <2>1. 1 \in 1 .. Len(src) /\ i \in 1 .. Len(src)
        BY <1>1
  <2>2. SubSeq(src, 1, i) = SubSeq(src, 1, i - 1) \o <<src[i]>>
        BY <2>1, SubSeqRecursiveSecond
  <2> QED  BY <1>2, <2>2, ElementOfSeq
<1>6. dec \o Append(run, src[i]) = SubSeq(src, 1, i)
      BY <1>1, <1>5, AppendConcat
<1>7. ASSUME src[i] = 0  PROVE Coding(src, i, out \o Group(run), <<>>)
  <2>1. Part(run) = Append(run, 0)
        BY <1>1, Constants DEF Part
  <2>2. Len(run) + 1 <= ByteMax /\ Len(<<>>) + 1 <= ByteMax
        BY <1>1, Constants
  <2> DEFINE dec2 == dec \o Append(run, 0)
  <2>3. /\ out \o Group(run) \in Seq(Coded) /\ dec2 \in Seq(Bytes)
        /\ Len(out \o Group(run)) = Len(out) + Len(run) + 1
        /\ Decodes(out \o Group(run), dec2)
        BY <1>1, <1>2, <2>1, <2>2, DecodesGroup
  <2>4. dec2 = SubSeq(src, 1, i)
        BY <1>6, <1>7
  <2> HIDE DEF dec2
  <2>5. dec2 \o <<>> = SubSeq(src, 1, i)
        BY <2>3, <2>4, ConcatEmptySeq
  <2>6. /\ Len(out \o Group(run)) + Len(<<>>) = i + F
        /\ F * (ByteMax - 1) + Len(<<>>) <= i
        BY <1>1, <1>3, <1>4, <2>3
  <2> QED  BY <1>1, <2>2, <2>3, <2>5, <2>6 DEF Coding
<1>8. ASSUME src[i] # 0  PROVE Coding(src, i, out, Append(run, src[i]))
  <2>1. src[i] \in Coded
        BY <1>5, <1>8 DEF Coded
  <2>2. Append(run, src[i]) \in Seq(Coded) /\ Len(Append(run, src[i])) = Len(run) + 1
        BY <1>1, <2>1, AppendProperties
  <2>3. Len(Append(run, src[i])) + 1 <= ByteMax
        BY <1>1, <2>2, Constants
  <2>4. /\ Len(out) + Len(Append(run, src[i])) = i + F
        /\ F * (ByteMax - 1) + Len(Append(run, src[i])) <= i
        BY <1>1, <1>3, <1>4, <2>2
  <2> QED  BY <1>1, <1>2, <1>6, <2>2, <2>3, <2>4 DEF Coding
<1> QED  BY <1>7, <1>8

Start0 == [out |-> <<>>, run |-> <<>>, fits |-> TRUE]

States(f, src, n) ==
    f = [i \in 0 .. Len(src) |-> IF i = 0 THEN Start0 ELSE EncodeByte(f[i - 1], src[i], n)]

LEMMA StatesExist ==
    ASSUME NEW src \in Seq(Bytes), NEW n
    PROVE  \E f : States(f, src, n)
<1> DEFINE N == Len(src)
           At(f, i) == IF i = 0 THEN Start0 ELSE EncodeByte(f[i - 1], src[i], n)
           To(f, k) == f = [i \in 0 .. k |-> At(f, i)]
           T == {k \in Nat : \E f : To(f, k)}
<1>1. N \in Nat
      BY LenProperties
<1>2. 0 \in T
  <2> DEFINE f == [i \in 0 .. 0 |-> Start0]
  <2>1. f = [i \in 0 .. 0 |-> At(f, i)]
    <3>1. \A i \in 0 .. 0 : At(f, i) = Start0
          OBVIOUS
    <3> HIDE DEF At
    <3> QED  BY <3>1
  <2> QED  BY <2>1
<1>3. ASSUME NEW k \in Nat, k \in T  PROVE k + 1 \in T
  <2>1. PICK f : To(f, k)
        BY <1>3
  <2> DEFINE g == [i \in 0 .. k + 1 |-> IF i = k + 1 THEN At(f, k + 1) ELSE f[i]]
  <2>2. \A i \in 0 .. k : g[i] = f[i] /\ f[i] = At(f, i)
    <3>1. \A i \in 0 .. k : f[i] = At(f, i)
      <4> HIDE DEF At
      <4> QED  BY <2>1
    <3>2. \A i \in 0 .. k : g[i] = f[i]
      <4> HIDE DEF At
      <4> QED  OBVIOUS
    <3> QED  BY <3>1, <3>2
  <2>3. ASSUME NEW i \in 0 .. k + 1  PROVE g[i] = At(g, i)
    <3>1. i # 0 => i - 1 \in 0 .. k
          OBVIOUS
    <3>2. i # 0 => g[i - 1] = f[i - 1]
          BY <2>2, <3>1
    <3>3. At(g, i) = At(f, i)
      <4> HIDE DEF g
      <4> QED  BY <3>2
    <3>4. g[i] = At(f, i)
      <4>1. CASE i = k + 1
        <5> HIDE DEF At
        <5> QED  BY <4>1
      <4>2. CASE i # k + 1
        <5>1. i \in 0 .. k
              BY <4>2
        <5> HIDE DEF At, g
        <5> QED  BY <2>2, <5>1
      <4> QED  BY <4>1, <4>2
    <3> HIDE DEF At, g
    <3> QED  BY <3>3, <3>4
  <2>4. To(g, k + 1)
    <3>1. g = [i \in 0 .. k + 1 |-> g[i]]
          OBVIOUS
    <3> HIDE DEF At, g
    <3> QED  BY <2>3, <3>1
  <2> HIDE DEF To, g
  <2> QED  BY <2>4
<1> HIDE DEF T
<1>4. N \in T
      BY <1>1, <1>2, <1>3, Induction
<1>5. PICK f : To(f, N)
      BY <1>4 DEF T
<1>6. States(f, src, n)
      BY <1>5 DEF States
<1> QED  BY <1>6

LEMMA DivMod ==
    ASSUME NEW K \in Nat, K >= 1, NEW n \in Nat, NEW q, q = n \div K
    PROVE  q \in Nat /\ K * q \in Nat /\ K * q <= n /\ n < K * q + K
<1>1. q \in Nat
      BY Z3
<1> QED  BY <1>1, SMT

\* As many as fit.
LEMMA DivBound ==
    ASSUME NEW K \in Nat, K >= 1, NEW n \in Nat, NEW F \in Nat, F * K <= n
    PROVE  F <= n \div K /\ n \div K \in Nat
<1> DEFINE q == n \div K
<1>1. q \in Nat /\ K * q \in Nat /\ n < K * q + K
      BY DivMod
<1> HIDE DEF q
<1>2. ASSUME F >= q + 1  PROVE FALSE
  <2>1. F * K >= (q + 1) * K
        BY <1>1, <1>2
  <2>2. (q + 1) * K = K * q + K
        BY <1>1
  <2>3. F * K \in Nat /\ K * q \in Nat
        BY <1>1
  <2> QED  BY <1>1, <2>1, <2>2, <2>3
<1>3. F <= q
      BY <1>1, <1>2
<1> QED  BY <1>1, <1>3 DEF q

LEMMA DivMonotone ==
    ASSUME NEW n \in Nat, NEW m \in Nat, n <= m
    PROVE  /\ EncodedMax(n) \in Nat /\ EncodedMax(m) \in Nat
           /\ EncodedMax(n) <= EncodedMax(m)
           /\ n < m => EncodedMax(n) < EncodedMax(m)
<1> DEFINE K == ByteMax - 1
<1>1. K \in Nat /\ K >= 1
      BY Constants
<1> HIDE DEF K
<1>2. n \div K \in Nat /\ (n \div K) * K <= n
  <2> DEFINE q == n \div K
  <2>1. q \in Nat /\ K * q <= n
        BY <1>1, DivMod
  <2> HIDE DEF q
  <2>2. K * q = q * K /\ q * K \in Nat
        BY <1>1, <2>1
  <2>3. q \in Nat /\ q * K <= n
        BY <2>1, <2>2
  <2> QED  BY <2>3 DEF q
<1>3. (n \div K) * K <= m
  <2>1. (n \div K) * K \in Nat
        BY <1>1, <1>2
  <2> QED  BY <1>2, <2>1
<1>4. n \div K <= m \div K /\ m \div K \in Nat
      BY <1>1, <1>2, <1>3, DivBound
<1>5. EncodedMax(n) = n + n \div K + 1 /\ EncodedMax(m) = m + m \div K + 1
      BY DEF EncodedMax, K
<1> DEFINE x == n \div K
           y == m \div K
<1>6. x \in Nat /\ y \in Nat /\ x <= y
      BY <1>2, <1>4
<1> HIDE DEF x, y
<1>7. /\ n + x + 1 <= m + y + 1 /\ n + x + 1 \in Nat /\ m + y + 1 \in Nat
      /\ n < m => n + x + 1 < m + y + 1
      BY <1>6
<1> QED  BY <1>5, <1>7 DEF x, y

\* What has been written so far, and the code of the run that is being written.
LEMMA CodingLength ==
    ASSUME NEW src \in Seq(Bytes), NEW i \in 0 .. Len(src), NEW out, NEW run,
           Coding(src, i, out, run)
    PROVE  /\ Len(out) \in Nat /\ Len(run) \in Nat
           /\ EncodedMax(i) \in Nat /\ EncodedMax(Len(src)) \in Nat
           /\ i < Len(src) => EncodedMax(i) < EncodedMax(Len(src))
           /\ Len(out) + Len(run) + 1 <= EncodedMax(i)
<1>1. PICK F \in Nat : /\ Len(out) + Len(run) = i + F
                       /\ F * (ByteMax - 1) + Len(run) <= i
      BY DEF Coding
<1>2. /\ Len(out) \in Nat /\ Len(run) \in Nat /\ i \in Nat /\ Len(src) \in Nat
      /\ i <= Len(src)
      BY LenProperties DEF Coding
<1>3. ByteMax - 1 \in Nat /\ ByteMax - 1 >= 1 /\ F * (ByteMax - 1) \in Nat
      BY Constants
<1>4. F * (ByteMax - 1) <= i
      BY <1>1, <1>2, <1>3
<1> DEFINE q == i \div (ByteMax - 1)
<1>5. F <= q /\ q \in Nat
      BY <1>2, <1>3, <1>4, DivBound
<1>6. EncodedMax(i) = i + q + 1
      BY DEF EncodedMax
<1> HIDE DEF q
<1>7. Len(out) + Len(run) + 1 <= i + q + 1
      BY <1>1, <1>2, <1>5
<1> QED  BY <1>2, <1>6, <1>7, DivMonotone

LEMMA EncodeStep ==
    ASSUME NEW src \in Seq(Bytes), NEW i \in 1 .. Len(src), NEW n \in Nat, NEW st,
           Coding(src, i - 1, st.out, st.run)
    PROVE  LET e == EncodeByte(st, src[i], n)
           IN  /\ Coding(src, i, e.out, e.run)
               /\ st.fits = TRUE /\ EncodedMax(Len(src)) <= n => e.fits = TRUE
<1> DEFINE full == Len(st.run) + 1 = ByteMax
           out  == IF full THEN st.out \o Group(st.run) ELSE st.out
           run  == IF full THEN <<>> ELSE st.run
           e    == EncodeByte(st, src[i], n)
<1>1. /\ e.out = IF src[i] = 0 THEN out \o Group(run) ELSE out
      /\ e.run = IF src[i] = 0 THEN <<>> ELSE Append(run, src[i])
      /\ e.fits = (st.fits /\ Len(out) + Len(run) + 1 < n)
      BY DEF EncodeByte
<1>2. i - 1 \in Nat /\ Len(src) \in Nat /\ i - 1 \in 0 .. Len(src) /\ i - 1 < Len(src)
      BY LenProperties
<1>3. Coding(src, i - 1, out, run) /\ Len(run) + 1 < ByteMax
  <2>1. CASE full
    <3>1. out = st.out \o Group(st.run) /\ run = <<>>
          BY <2>1
    <3>3. Len(<<>>) + 1 < ByteMax
          BY Constants
    <3>2. Coding(src, i - 1, st.out \o Group(st.run), <<>>)
          BY <1>2, <2>1, CodingFull
    <3> QED  BY <3>1, <3>2, <3>3
  <2>2. CASE ~full
    <3>1. out = st.out /\ run = st.run
          BY <2>2
    <3>2. st.run \in Seq(Coded) /\ Len(st.run) + 1 <= ByteMax
          BY DEF Coding
    <3>3. Len(st.run) \in Nat
          BY <3>2, LenProperties
    <3>4. Len(st.run) + 1 < ByteMax
          BY <2>2, <3>2, <3>3, Constants
    <3> QED  BY <3>1, <3>4
  <2> QED  BY <2>1, <2>2
<1> HIDE DEF out, run, e
<1>4. Coding(src, i, e.out, e.run)
  <2>1. /\ src[i] = 0 => Coding(src, i, out \o Group(run), <<>>)
        /\ src[i] # 0 => Coding(src, i, out, Append(run, src[i]))
        BY <1>3, CodingByte
  <2> QED  BY <1>1, <2>1
<1>5. ASSUME EncodedMax(Len(src)) <= n, st.fits = TRUE  PROVE e.fits = TRUE
  <2>1. /\ Len(out) \in Nat /\ Len(run) \in Nat
        /\ EncodedMax(i - 1) \in Nat /\ EncodedMax(Len(src)) \in Nat
        /\ EncodedMax(i - 1) < EncodedMax(Len(src))
        /\ Len(out) + Len(run) + 1 <= EncodedMax(i - 1)
        BY <1>2, <1>3, CodingLength
  <2>2. Len(out) + Len(run) + 1 < n
        BY <1>5, <2>1
  <2> QED  BY <1>1, <1>5, <2>2
<1> QED  BY <1>4, <1>5 DEF e

\* Whatever the bytes are, they fit into a buffer of the size that the macro
\* COBSR_ENCODE_DST_BUF_LEN_MAX gives, no byte of the code is 0, and what is
\* decoded are those bytes.
THEOREM RoundTrip ==
    ASSUME NEW src \in Seq(Bytes), NEW n \in Nat, EncodedMax(Len(src)) <= n
    PROVE  LET code == cobsr_encode(src, n)
           IN  /\ code \in Seq(Bytes \ {0}) /\ code # <<>>
               /\ Len(code) <= EncodedMax(Len(src))
               /\ \A m \in Nat : Len(src) <= m => cobsr_decode(code, m) = src
<1> DEFINE f   == CHOOSE st : States(st, src, n)
           end == f[Len(src)]
           N   == Len(src)
<1>1. States(f, src, n)
      BY StatesExist
<1>2. cobsr_encode(src, n) = IF end.fits /\ Len(end.out) < n
                             THEN end.out \o LastGroup(end.run) ELSE Failure
      BY DEF cobsr_encode, States, Start0
<1> HIDE DEF f
<1>3. N \in Nat /\ <<>> \in Seq(Coded) /\ Len(<<>>) = 0 /\ <<>> \in Seq(Bytes)
      BY LenProperties, EmptySeq
<1> DEFINE Good(i) == Coding(src, i, f[i].out, f[i].run) /\ f[i].fits = TRUE
           T == {i \in Nat : i <= N => Good(i)}
<1>4. 0 \in T
  <2>1. f[0] = Start0
        BY <1>1, <1>3 DEF States
  <2>2. f[0].out = <<>> /\ f[0].run = <<>> /\ f[0].fits = TRUE
        BY <2>1 DEF Start0
  <2>3. Decodes(<<>>, <<>>)
        BY ConcatEmptySeq, ValueType DEF Decodes
  <2>4. <<>> \o <<>> = SubSeq(src, 1, 0)
        BY SubSeqEmpty
  <2>5. Len(<<>>) + Len(<<>>) = 0 + 0 /\ 0 * (ByteMax - 1) + Len(<<>>) <= 0 /\ Len(<<>>) + 1 <= ByteMax
        BY <1>3, Constants
  <2>6. Coding(src, 0, <<>>, <<>>)
        BY <1>3, <2>3, <2>4, <2>5 DEF Coding
  <2> QED  BY <2>2, <2>6
<1>5. ASSUME NEW i \in Nat, i \in T  PROVE i + 1 \in T
  <2> SUFFICES ASSUME i + 1 <= N  PROVE Good(i + 1)
    <3> HIDE DEF Good, N
    <3> QED  OBVIOUS
  <2>1. i + 1 \in 1 .. Len(src) /\ (i + 1) - 1 = i /\ i + 1 # 0 /\ i + 1 \in 0 .. Len(src)
        BY <1>3
  <2>2. Coding(src, (i + 1) - 1, f[i].out, f[i].run) /\ f[i].fits = TRUE
        BY <1>3, <1>5, <2>1
  <2>3. f[i + 1] = EncodeByte(f[i], src[i + 1], n)
        BY <1>1, <2>1 DEF States
  <2> HIDE DEF T
  <2> QED  BY <2>1, <2>2, <2>3, EncodeStep
<1> HIDE DEF T
<1>6. N \in T
      BY <1>3, <1>4, <1>5, Induction
<1> DEFINE out  == end.out
           run  == end.run
           code == out \o LastGroup(run)
<1>7. Coding(src, N, out, run) /\ end.fits = TRUE /\ N \in 0 .. Len(src)
      BY <1>3, <1>6 DEF T
<1>7a. cobsr_encode(src, n) = IF end.fits /\ Len(out) < n THEN code ELSE Failure
      BY <1>2
<1> HIDE DEF end, out, run
<1>8. /\ Len(out) \in Nat /\ Len(run) \in Nat /\ EncodedMax(N) \in Nat
      /\ Len(out) + Len(run) + 1 <= EncodedMax(N)
      BY <1>3, <1>7, CodingLength
<1>9. Len(out) < n
      BY <1>8
<1>10. cobsr_encode(src, n) = code
      BY <1>7, <1>9, <1>7a
<1>11. PICK dec \in Seq(Bytes) : Decodes(out, dec) /\ dec \o run = SubSeq(src, 1, N)
      BY <1>7 DEF Coding
<1>12. /\ LastGroup(run) \in Seq(Coded) /\ LastGroup(run) # <<>>
       /\ Len(LastGroup(run)) <= Len(run) + 1
       /\ Value(LastGroup(run)) = run
       /\ out \in Seq(Coded)
      BY <1>7, ValueLast DEF Coding
<1>13. /\ code \in Seq(Coded) /\ Len(code) = Len(out) + Len(LastGroup(run)) /\ code # <<>>
      BY <1>12, ConcatProperties, ConcatEqualIffEmpty
<1>14. Len(code) <= EncodedMax(N)
  <2>1. Len(LastGroup(run)) \in Nat
        BY <1>12, LenProperties
  <2> QED  BY <1>8, <1>12, <1>13, <2>1
<1>15. Value(code) = src
  <2>1. Value(code) = dec \o run
        BY <1>11, <1>12 DEF Decodes
  <2> QED  BY <1>11, <2>1, SubSeqFull
<1> HIDE DEF code
<1>16. \A m \in Nat : N <= m => cobsr_decode(code, m) = src
      BY <1>13, <1>15, DecodeIs
<1> QED  BY <1>10, <1>13, <1>14, <1>16 DEF Coded

\* Whatever the code is, what is decoded fits into the destination.
LEMMA DecodeFits ==
    ASSUME NEW code \in Seq(Coded), NEW n \in Nat
    PROVE  \/ cobsr_decode(code, n) = Failure
           \/ cobsr_decode(code, n) \in Seq(Bytes) /\ Len(cobsr_decode(code, n)) <= n
<1> DEFINE d == cobsr_decode(code, n)
<1>1. code = <<>> => d = Failure \/ d = <<>>
      BY DEF cobsr_decode
<1>2. <<>> \in Seq(Bytes) /\ Len(<<>>) <= n
      BY EmptySeq
<1>3. code # <<>> => d = Failure \/ (d \in Seq(Bytes) /\ Len(d) <= n)
      BY DecodeIs, ValueType
<1> HIDE DEF d
<1>4. d = Failure \/ (d \in Seq(Bytes) /\ Len(d) <= n)
      BY <1>1, <1>2, <1>3
<1> QED  BY <1>4 DEF d

-----------------------------------------------------------------------------
(* Packets                                                                 *)

LEMMA Parts ==
    ASSUME NEW a \in Seq(Bytes), NEW b \in Seq(Bytes)
    PROVE  /\ a \o b \in Seq(Bytes) /\ Len(a \o b) = Len(a) + Len(b)
           /\ SubSeq(a \o b, 1, Len(a)) = a
           /\ SubSeq(a \o b, Len(a) + 1, Len(a) + Len(b)) = b
<1> DEFINE s == a \o b
           k == Len(a)
           l == Len(b)
<1>1. /\ s \in Seq(Bytes) /\ Len(s) = k + l
      /\ \A i \in 1 .. k + l : s[i] = IF i <= k THEN a[i] ELSE b[i - k]
      BY ConcatProperties
<1>2. k \in Nat /\ l \in Nat
      BY LenProperties
<1> HIDE DEF s
<1>3. SubSeq(s, 1, k) = a
  <2> DEFINE r == SubSeq(s, 1, k)
  <2>1. \A i \in 1 .. k : s[i] = a[i] /\ a[i] \in Bytes
        BY <1>1, <1>2, ElementOfSeq
  <2>2. /\ r \in Seq(Bytes) /\ Len(r) = IF 1 <= k THEN k - 1 + 1 ELSE 0
        /\ \A i \in 1 .. k - 1 + 1 : r[i] = s[1 + i - 1]
    <3>1. 1 \in Int /\ k \in Int /\ \A i \in 1 .. k : s[i] \in Bytes
          BY <1>2, <2>1
    <3> HIDE DEF k
    <3> QED  BY <3>1, SubSeqProperties
  <2> HIDE DEF r
  <2>3. Len(r) = k /\ \A i \in 1 .. k : r[i] = a[i]
    <3> HIDE DEF k
    <3>1. k - 1 + 1 = k /\ (~(1 <= k) => k = 0)
          BY <1>2
    <3>2. \A i \in 1 .. k : 1 + i - 1 = i
          OBVIOUS
    <3> QED  BY <2>1, <2>2, <3>1, <3>2
  <2> QED  BY <2>2, <2>3, SeqEqual DEF r
<1>4. SubSeq(s, k + 1, k + l) = b
  <2> DEFINE r == SubSeq(s, k + 1, k + l)
  <2>1. \A i \in 1 .. l : s[k + i] = b[i] /\ b[i] \in Bytes
    <3> SUFFICES ASSUME NEW i \in 1 .. l  PROVE s[k + i] = b[i] /\ b[i] \in Bytes
        OBVIOUS
    <3>1. k + i \in 1 .. k + l /\ ~(k + i <= k) /\ k + i - k = i
          BY <1>2
    <3> QED  BY <1>1, <3>1, ElementOfSeq
  <2>2. \A j \in k + 1 .. k + l : s[j] \in Bytes
    <3> SUFFICES ASSUME NEW j \in k + 1 .. k + l  PROVE s[j] \in Bytes
        OBVIOUS
    <3>1. j - k \in 1 .. l /\ k + (j - k) = j
          BY <1>2
    <3> QED  BY <2>1, <3>1
  <2>3. /\ r \in Seq(Bytes) /\ Len(r) = IF k + 1 <= k + l THEN k + l - (k + 1) + 1 ELSE 0
        /\ \A i \in 1 .. k + l - (k + 1) + 1 : r[i] = s[k + 1 + i - 1]
    <3> DEFINE p == k + 1
               q == k + l
    <3>1. p \in Int /\ q \in Int
          BY <1>2
    <3>2. \A j \in p .. q : s[j] \in Bytes
          BY <2>2
    <3> HIDE DEF p, q
    <3>3. /\ SubSeq(s, p, q) \in Seq(Bytes)
          /\ Len(SubSeq(s, p, q)) = IF p <= q THEN q - p + 1 ELSE 0
          /\ \A i \in 1 .. q - p + 1 : SubSeq(s, p, q)[i] = s[p + i - 1]
          BY <3>1, <3>2, SubSeqProperties
    <3> QED  BY <3>3 DEF p, q
  <2> HIDE DEF r
  <2>4. Len(r) = l /\ \A i \in 1 .. l : r[i] = b[i]
    <3> HIDE DEF k, l
    <3>1. k + l - (k + 1) + 1 = l /\ (~(k + 1 <= k + l) => l = 0)
          BY <1>2
    <3>2. \A i \in 1 .. l : k + 1 + i - 1 = k + i
          BY <1>2
    <3> QED  BY <2>1, <2>3, <3>1, <3>2
  <2> QED  BY <2>3, <2>4, SeqEqual DEF r
<1> QED  BY <1>1, <1>3, <1>4 DEF s

LEMMA EncodeMessage ==
    ASSUME NEW m \in Messages, NEW s \in {"board", "host"}
    PROVE  /\ Encode(s, m) \in Seq(Coded) /\ Encode(s, m) # Failure
           /\ Len(Encode(s, m)) \in Nat /\ Len(Encode(s, m)) < MaxBufLength
           /\ Decode(Encode(s, m)) = m
<1> DEFINE packet == Crc(m) \o m
           n == IF s = "host" THEN MaxBufLength - 1 ELSE EncodedMax(Len(packet))
           code == cobsr_encode(packet, n)
<1>1. /\ m \in Seq(Bytes) /\ Len(m) \in Nat /\ Len(m) >= IdSize /\ Len(m) <= IdSize + MaxData
      /\ Crc(m) \in Seq(Bytes) /\ Len(Crc(m)) = CrcSize
  <2>1. /\ m \in Seq(Bytes) /\ Crc(m) \in [1 .. CrcSize -> Bytes]
        /\ Len(m) \in IdSize .. IdSize + MaxData
        BY PacketsAssumption
  <2>2. Len(m) \in Nat
        BY <2>1, LenProperties
  <2> QED  BY <2>1, <2>2, Constants
<1>2. /\ packet \in Seq(Bytes) /\ Len(packet) = CrcSize + Len(m)
      /\ SubSeq(packet, 1, CrcSize) = Crc(m)
      /\ SubSeq(packet, CrcSize + 1, Len(packet)) = m
  <2> DEFINE c == Crc(m)
  <2>1. /\ c \o m \in Seq(Bytes) /\ Len(c \o m) = Len(c) + Len(m)
        /\ SubSeq(c \o m, 1, Len(c)) = c
        /\ SubSeq(c \o m, Len(c) + 1, Len(c) + Len(m)) = m
        BY <1>1, Parts
  <2> QED  BY <1>1, <2>1
<1> HIDE DEF packet
<1>3. Len(packet) \in Nat /\ Len(packet) <= MaxPacket /\ ~(Len(packet) < CrcSize + IdSize)
      BY <1>1, <1>2, Constants DEF MaxPacket
<1>4. /\ EncodedMax(Len(packet)) \in Nat /\ EncodedMax(MaxPacket) \in Nat
      /\ EncodedMax(Len(packet)) <= EncodedMax(MaxPacket)
      BY <1>3, DivMonotone, Constants
<1>5. n \in Nat /\ EncodedMax(Len(packet)) <= n
      BY <1>4 DEF MaxBufLength
<1> HIDE DEF n
<1>6. /\ code \in Seq(Coded) /\ Len(code) <= EncodedMax(Len(packet))
      /\ cobsr_decode(code, MaxPacket) = packet
      BY <1>2, <1>3, <1>5, RoundTrip, Constants DEF Coded
<1>7. Encode(s, m) = code
      BY DEF Encode, packet, n
<1> HIDE DEF code
<1>8. Len(code) \in Nat /\ Len(code) < MaxBufLength
  <2>1. Len(code) \in Nat
        BY <1>6, LenProperties
  <2> QED  BY <1>4, <1>6, <2>1 DEF MaxBufLength
<1>9. code # Failure /\ packet # Failure
  <2>1. code \in Seq(Bytes)
        BY <1>6, SeqMonotonic, Constants
  <2> QED  BY <1>2, <2>1, FailureIsNone
<1>10. Decode(code) = m
      BY <1>2, <1>3, <1>6, <1>9 DEF Decode
<1> QED  BY <1>6, <1>7, <1>8, <1>9, <1>10

LEMMA DecodeMessage ==
    ASSUME NEW buf \in Seq(Coded)
    PROVE  Decode(buf) = Failure \/ (Message(Decode(buf)) /\ Decode(buf) # Failure)
<1> DEFINE packet == cobsr_decode(buf, MaxPacket)
           m      == SubSeq(packet, CrcSize + 1, Len(packet))
<1>1. packet = Failure \/ (packet \in Seq(Bytes) /\ Len(packet) <= MaxPacket)
      BY DecodeFits, Constants
<1>2. Decode(buf) = IF packet = Failure THEN Failure
                    ELSE IF Len(packet) < CrcSize + IdSize THEN Failure
                    ELSE IF Crc(m) # SubSeq(packet, 1, CrcSize) THEN Failure
                    ELSE m
      BY DEF Decode
<1> HIDE DEF packet
<1>3. ASSUME packet \in Seq(Bytes), Len(packet) <= MaxPacket, ~(Len(packet) < CrcSize + IdSize)
      PROVE  Message(m) /\ m # Failure
  <2>1. Len(packet) \in Nat /\ CrcSize + 1 \in Nat
        BY <1>3, LenProperties, Constants
  <2>2. \A i \in CrcSize + 1 .. Len(packet) : packet[i] \in Bytes
        BY <1>3, <2>1, ElementOfSeq, Constants
  <2>3. m \in Seq(Bytes) /\ Len(m) = IF CrcSize + 1 <= Len(packet)
                                     THEN Len(packet) - (CrcSize + 1) + 1 ELSE 0
        BY <2>1, <2>2, SubSeqProperties
  <2> HIDE DEF m
  <2>4. Len(m) \in IdSize .. IdSize + MaxData
        BY <1>3, <2>1, <2>3, Constants DEF MaxPacket
  <2> QED  BY <2>3, <2>4, FailureIsNone DEF Message
<1> HIDE DEF m
<1> QED  BY <1>1, <1>2, <1>3

-----------------------------------------------------------------------------
(* The types                                                               *)

Typed == TypeOK /\ received \in Seq(Seq(Bytes))

LEMMA Sizes ==
    /\ MaxBufLength \in Nat /\ MaxBufLength >= 1
    /\ <<>> \in Seq(Bytes) /\ <<>> \in Seq(Coded) /\ <<>> \in Seq(Seq(Bytes)) /\ Len(<<>>) = 0
    /\ Seq(Coded) \subseteq Seq(Bytes)
<1>1. EncodedMax(MaxPacket) \in Nat
      BY DivMonotone, Constants
<1>2. MaxBufLength \in Nat /\ MaxBufLength >= 1
      BY <1>1 DEF MaxBufLength
<1>3. Seq(Coded) \subseteq Seq(Bytes)
      BY SeqMonotonic, Constants
<1> QED  BY <1>2, <1>3, EmptySeq

\* The first byte of the line.
LEMMA WireHead ==
    ASSUME NEW w \in Seq(Bytes), w # <<>>
    PROVE  /\ Head(w) \in Bytes /\ Tail(w) \in Seq(Bytes)
           /\ Head(w) # 0 => Head(w) \in Coded
BY HeadTailProperties DEF Coded

\* Whatever msg_recv or Connection makes of the bytes that it has.
LEMMA ReturnTyped ==
    ASSUME Typed, NEW result,
           result = Failure \/ (Message(result) /\ result # Failure), Return(result)
    PROVE  /\ rx_buf' = <<>> /\ t' = 0
           /\ received' \in Seq(Seq(Bytes))
           /\ \A i \in 1 .. Len(received') : Message(received'[i])
<1>1. rx_buf' = <<>> /\ t' = 0 /\ received' = IF result = Failure THEN received ELSE Append(received, result)
      BY DEF Return
<1>2. /\ received \in Seq(Seq(Bytes)) /\ Len(received) \in Nat
      /\ \A i \in 1 .. Len(received) : Message(received[i])
      BY LenProperties DEF Typed, TypeOK
<1>3. CASE result = Failure
      BY <1>1, <1>2, <1>3
<1>4. CASE Message(result) /\ result # Failure
  <2>1. received' = Append(received, result) /\ result \in Seq(Bytes)
        BY <1>1, <1>4 DEF Message
  <2>2. /\ received' \in Seq(Seq(Bytes)) /\ Len(received') = Len(received) + 1
        /\ \A i \in 1 .. Len(received) : received'[i] = received[i]
        /\ received'[Len(received) + 1] = result
        BY <1>2, <2>1, AppendProperties
  <2>3. \A i \in 1 .. Len(received') : Message(received'[i])
    <3> SUFFICES ASSUME NEW i \in 1 .. Len(received')  PROVE Message(received'[i])
        OBVIOUS
    <3>1. i \in 1 .. Len(received) \/ i = Len(received) + 1
          BY <1>2, <2>2
    <3> QED  BY <1>2, <1>4, <2>2, <3>1
  <2> QED  BY <1>1, <2>2, <2>3
<1> QED  BY <1>3, <1>4

\* The ghost after each kind of assignment.
LEMMA DueExcept ==
    ASSUME NEW M, NEW A, NEW d \in [msg : M, clean : BOOLEAN, aligned : BOOLEAN, age : A],
           NEW m \in M, NEW c \in BOOLEAN, NEW l \in BOOLEAN, NEW a \in A
    PROVE  /\ [d EXCEPT !.msg = m, !.clean = c, !.age = a]
                  \in [msg : M, clean : BOOLEAN, aligned : BOOLEAN, age : A]
           /\ [d EXCEPT !.aligned = l, !.age = a]
                  \in [msg : M, clean : BOOLEAN, aligned : BOOLEAN, age : A]
           /\ [d EXCEPT !.age = a, !.clean = c]
                  \in [msg : M, clean : BOOLEAN, aligned : BOOLEAN, age : A]
OBVIOUS

LEMMA InitTyped == Init => Typed
BY Sizes, Constants DEF Init, Typed, TypeOK, Coded

LEMMA SendTyped == Typed /\ Send => Typed'
<1> SUFFICES ASSUME Typed, Send  PROVE Typed'
    OBVIOUS
<1>1. PICK m \in Messages :
        /\ wire' = IF Encode(side, m) = Failure THEN <<>> ELSE Append(Encode(side, m), 0)
        /\ due' = [due EXCEPT !.msg = m, !.clean = due.aligned, !.age = 0]
      BY DEF Send
<1>2. Encode(side, m) \in Seq(Bytes)
      BY EncodeMessage, Sizes DEF Typed, TypeOK
<1>3. wire' \in Seq(Bytes)
      BY <1>1, <1>2, Sizes, Constants, AppendProperties
<1>4. due' \in [msg : {Failure} \cup Messages, clean : BOOLEAN, aligned : BOOLEAN,
                age : 0 .. PacketTimeout + 1]
  <2>1. 0 \in 0 .. PacketTimeout + 1 /\ due.aligned \in BOOLEAN /\ m \in {Failure} \cup Messages
        BY Constants DEF Typed, TypeOK
  <2>2. due \in [msg : {Failure} \cup Messages, clean : BOOLEAN, aligned : BOOLEAN,
                age : 0 .. PacketTimeout + 1]
        BY DEF Typed, TypeOK
  <2> QED  BY <1>1, <2>1, <2>2, DueExcept
<1>5. received' = <<>> /\ UNCHANGED <<side, rx_buf, t, faults>>
      BY DEF Send
<1> QED  BY <1>3, <1>4, <1>5, Sizes DEF Typed, TypeOK

LEMMA DamageTyped == Typed /\ Damage => Typed'
<1> SUFFICES ASSUME Typed, Damage  PROVE Typed'
    OBVIOUS
<1>1. wire' \in Seq(Bytes)
  <2>1. wire \in Seq(Bytes) /\ wire # <<>>
        BY DEF Typed, TypeOK, Damage
  <2>2. Tail(wire) \in Seq(Bytes)
        BY <2>1, WireHead
  <2>3. \A b \in Bytes : <<b>> \o Tail(wire) \in Seq(Bytes)
    <3>1. \A b \in Bytes : <<b>> \in Seq(Bytes)
          OBVIOUS
    <3> QED  BY <2>2, <3>1, ConcatProperties
  <2> QED  BY <2>2, <2>3 DEF Damage
<1>2. due' \in [msg : {Failure} \cup Messages, clean : BOOLEAN, aligned : BOOLEAN,
                age : 0 .. PacketTimeout + 1]
      BY DEF Damage, Typed, TypeOK
<1>3. faults' \in 0 .. MaxFaults
      BY Constants DEF Damage, Typed, TypeOK
<1> QED  BY <1>1, <1>2, <1>3 DEF Damage, Typed, TypeOK

LEMMA HeardTyped ==
    ASSUME Typed, NEW c, Heard(c)
    PROVE  due' \in [msg : {Failure} \cup Messages, clean : BOOLEAN, aligned : BOOLEAN,
                     age : 0 .. PacketTimeout + 1]
<1> DEFINE a == IF due.aligned THEN 0 ELSE due.age
<1>1. due \in [msg : {Failure} \cup Messages, clean : BOOLEAN, aligned : BOOLEAN,
              age : 0 .. PacketTimeout + 1]
      BY DEF Typed, TypeOK
<1>2. a \in 0 .. PacketTimeout + 1
      BY <1>1, Constants
<1>3. due' = [due EXCEPT !.aligned = (c = 0), !.age = a]
      BY DEF Heard
<1> HIDE DEF a
<1>4. (c = 0) \in BOOLEAN
      OBVIOUS
<1> QED  BY <1>1, <1>2, <1>3, <1>4, DueExcept

LEMMA EndMarkerTyped == Typed /\ EndMarker => Typed'
<1> SUFFICES ASSUME Typed, EndMarker  PROVE Typed'
    OBVIOUS
<1>1. rx_buf \in Seq(Coded)
      BY DEF Typed, TypeOK, Coded
<1>2. /\ rx_buf' = <<>> /\ t' = 0 /\ received' \in Seq(Seq(Bytes))
      /\ \A i \in 1 .. Len(received') : Message(received'[i])
      BY <1>1, DecodeMessage, ReturnTyped DEF EndMarker
<1>3. wire' \in Seq(Bytes)
      BY WireHead DEF EndMarker, Typed, TypeOK
<1>4. due' \in [msg : {Failure} \cup Messages, clean : BOOLEAN, aligned : BOOLEAN,
                age : 0 .. PacketTimeout + 1]
      BY HeardTyped DEF EndMarker
<1>5. UNCHANGED <<side, faults>>
      BY DEF EndMarker
<1> QED  BY <1>2, <1>3, <1>4, <1>5, Sizes, Constants DEF Typed, TypeOK, Coded

LEMMA msg_recvTyped == Typed /\ msg_recv => Typed'
<1> SUFFICES ASSUME Typed, msg_recv  PROVE Typed'
    OBVIOUS
<1> DEFINE buf == Append(rx_buf, Head(wire))
<1>1. wire' \in Seq(Bytes) /\ Head(wire) \in Coded
      BY WireHead DEF msg_recv, Typed, TypeOK
<1>2. due' \in [msg : {Failure} \cup Messages, clean : BOOLEAN, aligned : BOOLEAN,
                age : 0 .. PacketTimeout + 1]
      BY HeardTyped DEF msg_recv
<1>3. buf \in Seq(Coded) /\ Len(buf) \in Nat
      BY <1>1, AppendProperties, LenProperties DEF Typed, TypeOK, Coded
<1>4. UNCHANGED <<side, faults>>
      BY DEF msg_recv
<1>5. CASE Return(Failure)
  <2>1. /\ rx_buf' = <<>> /\ t' = 0 /\ received' \in Seq(Seq(Bytes))
        /\ \A i \in 1 .. Len(received') : Message(received'[i])
        BY <1>5, ReturnTyped
  <2> QED  BY <1>1, <1>2, <1>4, <2>1, Sizes, Constants DEF Typed, TypeOK, Coded
<1>6. CASE ~TooLong(buf) /\ rx_buf' = buf /\ t' = Start(buf) /\ UNCHANGED received
  <2>1. Len(buf) < MaxBufLength
        BY <1>3, <1>6, Sizes DEF TooLong
  <2>2. t' \in 0 .. PacketTimeout + 1
        BY <1>6, Constants DEF Start, Typed, TypeOK
  <2> HIDE DEF buf
  <2> QED  BY <1>1, <1>2, <1>3, <1>4, <1>6, <2>1, <2>2 DEF Typed, TypeOK, Coded
<1> QED  BY <1>5, <1>6 DEF msg_recv

LEMMA OtherTyped == Typed /\ (msg_recv_idle \/ ioDevice_readyRead \/ Tick) => Typed'
<1> SUFFICES ASSUME Typed, msg_recv_idle \/ ioDevice_readyRead \/ Tick  PROVE Typed'
    OBVIOUS
<1>1. CASE msg_recv_idle
  <2>1. /\ rx_buf' = <<>> /\ t' = 0 /\ received' \in Seq(Seq(Bytes))
        /\ \A i \in 1 .. Len(received') : Message(received'[i])
        BY <1>1, ReturnTyped DEF msg_recv_idle
  <2>2. UNCHANGED <<side, wire, due, faults>>
        BY <1>1 DEF msg_recv_idle
  <2> QED  BY <2>1, <2>2, Sizes, Constants DEF Typed, TypeOK, Coded
<1>2. CASE ioDevice_readyRead
  <2>1. wire' \in Seq(Bytes) /\ Head(wire) \in Coded
        BY <1>2, WireHead DEF ioDevice_readyRead, Typed, TypeOK
  <2>2. due' \in [msg : {Failure} \cup Messages, clean : BOOLEAN, aligned : BOOLEAN,
                  age : 0 .. PacketTimeout + 1]
        BY <1>2, HeardTyped DEF ioDevice_readyRead
  <2>3. rx_buf' \in Seq(Coded)
        BY <1>2, <2>1, AppendProperties DEF ioDevice_readyRead, Typed, TypeOK, Coded
  <2>4. side = "host" /\ UNCHANGED <<side, t, received, faults>>
        BY <1>2 DEF ioDevice_readyRead
  <2> QED  BY <2>1, <2>2, <2>3, <2>4 DEF Typed, TypeOK, Coded
<1>3. CASE Tick
  <2>1. t' \in 0 .. PacketTimeout + 1
        BY <1>3, Constants DEF Tick, Typed, TypeOK
  <2>2. due' \in [msg : {Failure} \cup Messages, clean : BOOLEAN, aligned : BOOLEAN,
                  age : 0 .. PacketTimeout + 1]
    <3> DEFINE a == IF due.age > PacketTimeout THEN due.age ELSE due.age + 1
               c == due.clean /\ a <= PacketTimeout
    <3>1. due \in [msg : {Failure} \cup Messages, clean : BOOLEAN, aligned : BOOLEAN,
                  age : 0 .. PacketTimeout + 1]
          BY DEF Typed, TypeOK
    <3>2. due' = due \/ due' = [due EXCEPT !.age = a, !.clean = c]
          BY <1>3 DEF Tick
    <3>3. a \in 0 .. PacketTimeout + 1 /\ c \in BOOLEAN
          BY <3>1, Constants
    <3> HIDE DEF a, c
    <3>4. due.msg \in {Failure} \cup Messages /\ due.aligned \in BOOLEAN
          BY <3>1
    <3>5. [due EXCEPT !.age = a, !.clean = c]
              \in [msg : {Failure} \cup Messages, clean : BOOLEAN, aligned : BOOLEAN,
                   age : 0 .. PacketTimeout + 1]
          BY <3>1, <3>3, <3>4, DueExcept
    <3> QED  BY <3>1, <3>2, <3>5
  <2> QED  BY <1>3, <2>1, <2>2 DEF Tick, Typed, TypeOK
<1> QED  BY <1>1, <1>2, <1>3

LEMMA TypedInvariant == Spec => []Typed
<1>1. Typed /\ [Next]_vars => Typed'
  <2>1. Typed /\ UNCHANGED vars => Typed'
        BY DEF vars, Typed, TypeOK
  <2> QED  BY <2>1, SendTyped, DamageTyped, EndMarkerTyped, msg_recvTyped, OtherTyped DEF Next
<1> QED  BY <1>1, InitTyped, PTL DEF Spec

\* Neither the receive buffer of msg_recv nor the msg_generic into which a packet
\* is decoded is ever overrun, whatever comes over the line.
THEOREM TypeCorrect == Spec => []TypeOK
<1>1. Typed => TypeOK
      BY DEF Typed
<1> QED  BY <1>1, TypedInvariant, PTL

-----------------------------------------------------------------------------
(* A packet that comes through undisturbed                                 *)

\* Between two end markers nothing is kept, and the clock of msg_recv is never
\* ahead of the age of the packet.  While a packet is undisturbed, what has been
\* received and what is under way together are that packet.
Undisturbed ==
    /\ due.aligned => rx_buf = <<>>
    /\ due.clean => /\ due.msg \in Messages /\ due.age <= PacketTimeout
                    /\ side = "board" /\ ~due.aligned => t <= due.age
                    /\ wire = <<>> => received = <<due.msg>>
                    /\ wire # <<>> => /\ received = <<>>
                                      /\ rx_buf \o wire = Append(Encode(side, due.msg), 0)

LEMMA InitUndisturbed == Init => Undisturbed
BY DEF Init, Undisturbed

\* The fields of the ghost that a step sets.
LEMMA HeardFields ==
    ASSUME Typed, NEW c, Heard(c)
    PROVE  /\ due'.msg = due.msg /\ due'.clean = due.clean /\ due'.aligned = (c = 0)
           /\ due'.age = IF due.aligned THEN 0 ELSE due.age
           /\ due.age \in Nat /\ due.age <= PacketTimeout + 1
<1>1. due \in [msg : {Failure} \cup Messages, clean : BOOLEAN, aligned : BOOLEAN,
              age : 0 .. PacketTimeout + 1]
      BY DEF Typed, TypeOK
<1>2. due.age \in Nat /\ due.age <= PacketTimeout + 1
      BY <1>1, Constants
<1> QED  BY <1>1, <1>2 DEF Heard

\* The first 0 on the line ends the packet.
LEMMA EndOfCode ==
    ASSUME NEW a \in Seq(Coded), NEW code \in Seq(Coded), NEW w \in Seq(Bytes), w # <<>>,
           a \o w = Append(code, 0), Head(w) = 0
    PROVE  a = code /\ Tail(w) = <<>>
<1> DEFINE k == Len(a)
           l == Len(w)
           n == Len(code)
<1>1. k \in Nat /\ l \in Nat \ {0} /\ n \in Nat /\ a \in Seq(Bytes) /\ code \in Seq(Bytes)
      BY LenProperties, EmptySeq, Sizes
<1>2. /\ Len(a \o w) = k + l
      /\ \A i \in 1 .. k + l : (a \o w)[i] = IF i <= k THEN a[i] ELSE w[i - k]
      BY <1>1, ConcatProperties
<1>3. /\ Len(Append(code, 0)) = n + 1
      /\ \A i \in 1 .. n : Append(code, 0)[i] = code[i]
      BY <1>1, Constants, AppendProperties
<1>4. \A i \in 1 .. n : code[i] # 0
      BY ElementOfSeq DEF Coded
<1>5. w[1] = 0
      BY HeadTailProperties
<1>6. k = n
  <2>1. k + l = n + 1
        BY <1>2, <1>3
  <2>2. (a \o w)[k + 1] = 0
    <3>1. k + 1 \in 1 .. k + l /\ ~(k + 1 <= k) /\ k + 1 - k = 1
          BY <1>1
    <3> QED  BY <1>2, <1>5, <3>1
  <2>3. k + 1 \notin 1 .. n
        BY <1>3, <1>4, <2>2
  <2> HIDE DEF k, l, n
  <2> QED  BY <1>1, <2>1, <2>3
<1>7. l = 1
  <2> HIDE DEF k, l, n
  <2> QED  BY <1>1, <1>2, <1>3, <1>6
<1>8. \A i \in 1 .. k : a[i] = code[i]
  <2> SUFFICES ASSUME NEW i \in 1 .. k  PROVE a[i] = code[i]
      OBVIOUS
  <2>1. i \in 1 .. k + l /\ i <= k /\ i \in 1 .. n
        BY <1>1, <1>6
  <2> QED  BY <1>2, <1>3, <2>1
<1>9. a = code
      BY <1>6, <1>8, SeqEqual
<1>10. Tail(w) = <<>>
  <2>1. Tail(w) \in Seq(Bytes) /\ Len(Tail(w)) = 0
        BY <1>7, HeadTailProperties
  <2> QED  BY <2>1, EmptySeq
<1> QED  BY <1>9, <1>10

\* Any other byte is one of the packet, and the 0 is still to come.
LEMMA ByteOfCode ==
    ASSUME NEW a \in Seq(Coded), NEW code \in Seq(Coded), NEW w \in Seq(Bytes), w # <<>>,
           a \o w = Append(code, 0), Head(w) # 0
    PROVE  /\ Append(a, Head(w)) \o Tail(w) = Append(code, 0)
           /\ Tail(w) # <<>>
           /\ Len(Append(a, Head(w))) <= Len(code)
           /\ Len(Append(a, Head(w))) = 1 <=> a = <<>>
<1> DEFINE b == Head(w)
           v == Tail(w)
<1>1. /\ b \in Coded /\ v \in Seq(Bytes) /\ a \in Seq(Bytes) /\ code \in Seq(Bytes)
      /\ Len(a) \in Nat /\ Len(v) \in Nat /\ Len(code) \in Nat /\ b \in Bytes
      BY WireHead, Sizes, LenProperties
<1>2. <<b>> \in Seq(Bytes) /\ w = <<b>> \o v
  <2>1. <<b>> \in Seq(Bytes) /\ Len(<<b>>) = 1 /\ <<b>>[1] = b
        BY <1>1
  <2>2. /\ <<b>> \o v \in Seq(Bytes) /\ Len(<<b>> \o v) = 1 + Len(v)
        /\ \A i \in 1 .. 1 + Len(v) : (<<b>> \o v)[i] = IF i <= 1 THEN <<b>>[i] ELSE v[i - 1]
        BY <1>1, <2>1, ConcatProperties
  <2>3. /\ Len(w) \in Nat \ {0} /\ Len(v) = Len(w) - 1 /\ w[1] = b
        /\ \A i \in 1 .. Len(v) : v[i] = w[i + 1]
        BY HeadTailProperties, EmptySeq
  <2> HIDE DEF b, v
  <2>4. Len(w) = 1 + Len(v)
        BY <2>3
  <2>5. \A i \in 1 .. 1 + Len(v) : w[i] = (<<b>> \o v)[i]
    <3> SUFFICES ASSUME NEW i \in 1 .. 1 + Len(v)  PROVE w[i] = (<<b>> \o v)[i]
        OBVIOUS
    <3>1. CASE i = 1
          BY <2>1, <2>2, <2>3, <3>1
    <3>2. CASE i # 1
      <4>1. ~(i <= 1) /\ i - 1 \in 1 .. Len(v) /\ (i - 1) + 1 = i
            BY <1>1, <3>2
      <4> QED  BY <2>2, <2>3, <4>1
    <3> QED  BY <3>1, <3>2
  <2> QED  BY <2>1, <2>2, <2>4, <2>5, SeqEqual
<1> HIDE DEF b, v
<1>3. Append(a, b) = a \o <<b>>
      BY <1>1, AppendIsConcat
<1>4. Append(a, b) \o v = Append(code, 0)
  <2>1. (a \o <<b>>) \o v = a \o (<<b>> \o v)
        BY <1>1, <1>2, ConcatAssociative
  <2> QED  BY <1>2, <1>3, <2>1
<1>5. Append(a, b) \in Seq(Coded) /\ Len(Append(a, b)) = Len(a) + 1 /\ Append(a, b) \in Seq(Bytes)
      BY <1>1, AppendProperties, Sizes
<1>6. Len(Append(a, b)) + Len(v) = Len(code) + 1
  <2>1. Len(Append(a, b) \o v) = Len(Append(a, b)) + Len(v)
        BY <1>1, <1>5, ConcatProperties
  <2>2. Len(Append(code, 0)) = Len(code) + 1
        BY <1>1, Constants, AppendProperties
  <2> QED  BY <1>4, <2>1, <2>2
<1>7. v # <<>>
  <2> SUFFICES ASSUME v = <<>>  PROVE FALSE
      OBVIOUS
  <2>1. Append(a, b) = Append(code, 0)
        BY <1>4, <1>5, ConcatEmptySeq
  <2>2. b = 0
        BY <1>1, <2>1, Constants, AppendInjective
  <2> QED  BY <1>1, <2>2 DEF Coded
<1>8. Len(v) >= 1
      BY <1>1, <1>7, EmptySeq
<1>9. Len(Append(a, b)) <= Len(code)
      BY <1>1, <1>5, <1>6, <1>8
<1>10. Len(Append(a, b)) = 1 <=> a = <<>>
      BY <1>1, <1>5, EmptySeq
<1> QED  BY <1>4, <1>7, <1>9, <1>10 DEF b, v

LEMMA SendUndisturbed == Typed /\ Undisturbed /\ Send => Undisturbed'
<1> SUFFICES ASSUME Typed, Undisturbed, Send  PROVE Undisturbed'
    OBVIOUS
<1>1. PICK m \in Messages :
        /\ wire' = IF Encode(side, m) = Failure THEN <<>> ELSE Append(Encode(side, m), 0)
        /\ due' = [due EXCEPT !.msg = m, !.clean = due.aligned, !.age = 0]
      BY DEF Send
<1>2. /\ due'.msg = m /\ due'.clean = due.aligned /\ due'.aligned = due.aligned /\ due'.age = 0
      BY <1>1 DEF Typed, TypeOK
<1>3. received' = <<>> /\ rx_buf' = rx_buf /\ side' = side
      BY DEF Send
<1>4. Encode(side, m) \in Seq(Coded) /\ Encode(side, m) # Failure
      BY EncodeMessage DEF Typed, TypeOK
<1>5. wire' = Append(Encode(side, m), 0) /\ wire' \in Seq(Bytes) /\ wire' # <<>>
  <2>1. Encode(side, m) \in Seq(Bytes)
        BY <1>4, Sizes
  <2>2. Append(Encode(side, m), 0) \in Seq(Bytes) /\ Append(Encode(side, m), 0) # <<>>
        BY <2>1, Constants, AppendProperties
  <2> QED  BY <1>1, <1>4, <2>2
<1>6. due.aligned => rx_buf' \o wire' = Append(Encode(side', m), 0)
  <2>1. <<>> \o wire' = wire'
        BY <1>5, ConcatEmptySeq
  <2> QED  BY <1>3, <1>5, <2>1 DEF Undisturbed
<1> QED  BY <1>2, <1>3, <1>5, <1>6, Constants DEF Undisturbed

LEMMA DamageUndisturbed == Typed /\ Undisturbed /\ Damage => Undisturbed'
<1> SUFFICES ASSUME Typed, Undisturbed, Damage  PROVE Undisturbed'
    OBVIOUS
<1>1. due'.clean = FALSE /\ due'.aligned = due.aligned /\ rx_buf' = rx_buf
      BY DEF Damage, Typed, TypeOK
<1> QED  BY <1>1 DEF Undisturbed

LEMMA EndMarkerUndisturbed == Typed /\ Undisturbed /\ EndMarker => Undisturbed'
<1> SUFFICES ASSUME Typed, Undisturbed, EndMarker  PROVE Undisturbed'
    OBVIOUS
<1>1. /\ due'.msg = due.msg /\ due'.clean = due.clean /\ due'.aligned = TRUE
      /\ due'.age = IF due.aligned THEN 0 ELSE due.age
      BY HeardFields DEF EndMarker
<1>2. /\ wire \in Seq(Bytes) /\ wire # <<>> /\ Head(wire) = 0 /\ wire' = Tail(wire)
      /\ rx_buf' = <<>> /\ side' = side
      /\ received' = IF Decode(rx_buf) = Failure THEN received ELSE Append(received, Decode(rx_buf))
      BY DEF EndMarker, Return, Typed, TypeOK
<1>3. rx_buf \in Seq(Coded) /\ side \in {"board", "host"}
      BY DEF Typed, TypeOK, Coded
<1>4. ASSUME due.clean
      PROVE  due.msg \in Messages /\ wire' = <<>> /\ received' = <<due.msg>>
  <2>1. /\ due.msg \in Messages /\ received = <<>>
        /\ rx_buf \o wire = Append(Encode(side, due.msg), 0)
        BY <1>2, <1>4 DEF Undisturbed
  <2> DEFINE code == Encode(side, due.msg)
  <2>2. code \in Seq(Coded) /\ Decode(code) = due.msg
        BY <1>3, <2>1, EncodeMessage
  <2> HIDE DEF code
  <2>3. rx_buf = code /\ wire' = <<>>
    <3>1. rx_buf \o wire = Append(code, 0)
          BY <2>1 DEF code
    <3>2. rx_buf = code /\ Tail(wire) = <<>>
          BY <1>2, <1>3, <2>2, <3>1, EndOfCode
    <3> QED  BY <1>2, <3>2
  <2>4. due.msg # Failure
        BY <2>1, PacketsAssumption, FailureIsNone
  <2>5. received' = Append(<<>>, due.msg)
        BY <1>2, <2>1, <2>2, <2>3, <2>4
  <2> QED  BY <2>1, <2>3, <2>5
<1>5. due.clean => due'.age <= PacketTimeout
      BY <1>1, Constants DEF Undisturbed
<1> QED  BY <1>1, <1>2, <1>4, <1>5 DEF Undisturbed

\* A byte of the packet is kept: what has come and what is under way are the
\* same together.
LEMMA ByteUndisturbed ==
    ASSUME Typed, Undisturbed, wire # <<>>, Head(wire) # 0, due.clean
    PROVE  LET buf == Append(rx_buf, Head(wire))
           IN  /\ due.msg \in Messages /\ due.age <= PacketTimeout /\ received = <<>>
               /\ buf \o Tail(wire) = Append(Encode(side, due.msg), 0)
               /\ Tail(wire) # <<>>
               /\ ~TooLong(buf)
               /\ Len(buf) = 1 <=> rx_buf = <<>>
<1> DEFINE buf  == Append(rx_buf, Head(wire))
           code == Encode(side, due.msg)
<1>1. /\ due.msg \in Messages /\ due.age <= PacketTimeout /\ received = <<>>
      /\ rx_buf \o wire = Append(code, 0)
      BY DEF Undisturbed
<1>2. wire \in Seq(Bytes) /\ rx_buf \in Seq(Coded) /\ side \in {"board", "host"}
      BY DEF Typed, TypeOK, Coded
<1>3. code \in Seq(Coded) /\ Len(code) \in Nat /\ Len(code) < MaxBufLength
      BY <1>1, <1>2, EncodeMessage
<1> HIDE DEF code
<1>4. /\ buf \o Tail(wire) = Append(code, 0) /\ Tail(wire) # <<>>
      /\ Len(buf) <= Len(code) /\ (Len(buf) = 1 <=> rx_buf = <<>>)
      BY <1>1, <1>2, <1>3, ByteOfCode
<1>5. Len(buf) \in Nat
      BY <1>2, WireHead, AppendProperties, LenProperties
<1> HIDE DEF buf
<1>6. ~TooLong(buf)
      BY <1>3, <1>4, <1>5, Sizes DEF TooLong
<1> QED  BY <1>1, <1>4, <1>6 DEF buf, code

LEMMA msg_recvUndisturbed == Typed /\ Undisturbed /\ msg_recv => Undisturbed'
<1> SUFFICES ASSUME Typed, Undisturbed, msg_recv  PROVE Undisturbed'
    OBVIOUS
<1> DEFINE buf == Append(rx_buf, Head(wire))
<1>1. wire # <<>> /\ Head(wire) # 0 /\ side = "board" /\ wire' = Tail(wire) /\ side' = side
      BY DEF msg_recv
<1>2. /\ due'.msg = due.msg /\ due'.clean = due.clean /\ due'.aligned = FALSE
      /\ due'.age = IF due.aligned THEN 0 ELSE due.age
      /\ due.age \in Nat
  <2>1. Heard(Head(wire))
        BY DEF msg_recv
  <2>2. /\ due'.msg = due.msg /\ due'.clean = due.clean /\ due'.aligned = (Head(wire) = 0)
        /\ due'.age = IF due.aligned THEN 0 ELSE due.age
        /\ due.age \in Nat
        BY <2>1, HeardFields
  <2> QED  BY <1>1, <2>2
<1>3. CASE ~due.clean
      BY <1>2, <1>3 DEF Undisturbed
<1>4. CASE due.clean
  <2>1. /\ due.msg \in Messages /\ due.age <= PacketTimeout /\ received = <<>>
        /\ buf \o Tail(wire) = Append(Encode(side, due.msg), 0)
        /\ Tail(wire) # <<>> /\ ~TooLong(buf)
        /\ Len(buf) = 1 <=> rx_buf = <<>>
        BY <1>1, <1>4, ByteUndisturbed
  <2>2. Start(buf) <= due'.age /\ due'.age <= PacketTimeout
    <3>1. CASE rx_buf = <<>>
      <4>1. Start(buf) = 0
            BY <2>1, <3>1 DEF Start
      <4> HIDE DEF buf
      <4> QED  BY <1>2, <2>1, <4>1, Constants
    <3>2. CASE rx_buf # <<>>
      <4>1. ~due.aligned /\ Start(buf) = t /\ t <= due.age
            BY <1>1, <1>4, <2>1, <3>2 DEF Start, Undisturbed
      <4> HIDE DEF buf
      <4> QED  BY <1>2, <2>1, <4>1
    <3> QED  BY <3>1, <3>2
  <2>3. ~(Start(buf) > PacketTimeout)
    <3>1. Start(buf) \in Nat
          BY Constants DEF Start, Typed, TypeOK
    <3>2. due'.age \in Nat
          BY <1>2
    <3> HIDE DEF buf
    <3> QED  BY <2>2, <3>1, <3>2, Constants
  <2>4. rx_buf' = buf /\ t' = Start(buf) /\ received' = received
        BY <2>1, <2>3 DEF msg_recv
  <2> HIDE DEF buf
  <2> QED  BY <1>1, <1>2, <1>4, <2>1, <2>2, <2>4 DEF Undisturbed
<1> QED  BY <1>3, <1>4

LEMMA ioDevice_readyReadUndisturbed ==
    Typed /\ Undisturbed /\ ioDevice_readyRead => Undisturbed'
<1> SUFFICES ASSUME Typed, Undisturbed, ioDevice_readyRead  PROVE Undisturbed'
    OBVIOUS
<1>1. /\ wire # <<>> /\ Head(wire) # 0 /\ side = "host" /\ wire' = Tail(wire)
      /\ rx_buf' = Append(rx_buf, Head(wire)) /\ side' = side /\ received' = received
      BY DEF ioDevice_readyRead
<1>2. /\ due'.msg = due.msg /\ due'.clean = due.clean /\ due'.aligned = FALSE
      /\ due'.age = IF due.aligned THEN 0 ELSE due.age
  <2>1. Heard(Head(wire))
        BY DEF ioDevice_readyRead
  <2>2. /\ due'.msg = due.msg /\ due'.clean = due.clean /\ due'.aligned = (Head(wire) = 0)
        /\ due'.age = IF due.aligned THEN 0 ELSE due.age
        BY <2>1, HeardFields
  <2> QED  BY <1>1, <2>2
<1>3. CASE ~due.clean
      BY <1>2, <1>3 DEF Undisturbed
<1>4. CASE due.clean
  <2>1. /\ due.msg \in Messages /\ due.age <= PacketTimeout /\ received = <<>>
        /\ Append(rx_buf, Head(wire)) \o Tail(wire) = Append(Encode(side, due.msg), 0)
        /\ Tail(wire) # <<>>
        BY <1>1, <1>4, ByteUndisturbed
  <2>2. due'.age <= PacketTimeout
        BY <1>2, <2>1, Constants
  <2> QED  BY <1>1, <1>2, <2>1, <2>2 DEF Undisturbed
<1> QED  BY <1>3, <1>4

LEMMA msg_recv_idleUndisturbed == Typed /\ Undisturbed /\ msg_recv_idle => Undisturbed'
<1> SUFFICES ASSUME Typed, Undisturbed, msg_recv_idle  PROVE Undisturbed'
    OBVIOUS
<1>1. /\ side = "board" /\ t > PacketTimeout /\ UNCHANGED <<side, wire, due>>
      /\ rx_buf' = <<>> /\ received' = received
      BY DEF msg_recv_idle, Return
<1>2. t \in Nat /\ due.age \in Nat
      BY Constants DEF Typed, TypeOK
<1>3. due.clean => due.aligned
      BY <1>1, <1>2, Constants DEF Undisturbed
<1> QED  BY <1>1, <1>3 DEF Undisturbed

LEMMA TickUndisturbed == Typed /\ Undisturbed /\ Tick => Undisturbed'
<1> SUFFICES ASSUME Typed, Undisturbed, Tick  PROVE Undisturbed'
    OBVIOUS
<1> DEFINE older(x) == IF x > PacketTimeout THEN x ELSE x + 1
<1>1. /\ t' = older(t) /\ UNCHANGED <<side, wire, rx_buf, received>>
      /\ due' = IF due.aligned THEN due
                ELSE [due EXCEPT !.age = older(@), !.clean = @ /\ older(due.age) <= PacketTimeout]
      BY DEF Tick
<1>2. t \in Nat /\ due.age \in Nat
      BY Constants DEF Typed, TypeOK
<1>3. CASE due.aligned
      BY <1>1, <1>3 DEF Undisturbed
<1>4. CASE ~due.aligned
  <2>1. /\ due'.msg = due.msg /\ due'.aligned = due.aligned /\ due'.age = older(due.age)
        /\ due'.clean = (due.clean /\ older(due.age) <= PacketTimeout)
        BY <1>1, <1>4 DEF Typed, TypeOK
  <2>2. t <= due.age => t' <= due'.age
        BY <1>1, <1>2, <2>1, Constants
  <2> HIDE DEF older
  <2> QED  BY <1>1, <1>4, <2>1, <2>2 DEF Undisturbed
<1> QED  BY <1>3, <1>4

\* A packet of which no byte was lost or damaged and that did not take longer than
\* PACKET_TIMEOUT from its first byte on is received, once and as it was sent,
\* whatever its bytes are and however long the line had been silent before.
THEOREM CleanPacketTheorem == Spec => []CleanPacketArrives
<1>1. Typed /\ Undisturbed /\ [Next]_vars => Undisturbed'
  <2>1. Undisturbed /\ UNCHANGED vars => Undisturbed'
        BY DEF vars, Undisturbed
  <2> QED  BY <2>1, SendUndisturbed, DamageUndisturbed, EndMarkerUndisturbed, msg_recvUndisturbed,
              ioDevice_readyReadUndisturbed, msg_recv_idleUndisturbed, TickUndisturbed DEF Next
<1>2. Undisturbed => CleanPacketArrives
      BY DEF Undisturbed, CleanPacketArrives
<1> QED  BY <1>1, <1>2, InitUndisturbed, TypedInvariant, PTL DEF Spec
=============================================================================
