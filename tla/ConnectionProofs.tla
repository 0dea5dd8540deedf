--------------------------- MODULE ConnectionProofs ---------------------------
(***************************************************************************)
(* Proofs about module Connection: however recv() and send() cut packets   *)
(* up, each direction is a channel of whole packets, in order, none of     *)
(* them lost, doubled or mixed up with another thread's.                   *)
(***************************************************************************)
EXTENDS Connection, SequenceTheorems, FiniteSetTheorems, WellFoundedInduction, TLAPS

-----------------------------------------------------------------------------
(***************************************************************************)
(* Concatenation, and the stream that a sequence of packets makes.         *)
(* FlattenSeq is a recursive function: that it exists, and that it is the  *)
(* only one, is shown by the least place at which it would not be.         *)
(***************************************************************************)

\* Two ways to put three pieces together; named, it is cited as a whole.
Regroups(a, b, c) == (a \o b) \o c = a \o (b \o c)

LEMMA UnitsRegroup ==
    ASSUME NEW S, NEW a \in Seq(S), NEW b \in Seq(S), NEW c \in Seq(S)
    PROVE  Regroups(a, b, c)
BY ConcatAssociative, SMTT(60) DEF Regroups

\* A set of natural numbers has a least element.
LEMMA LeastNat ==
    ASSUME NEW S \in SUBSET Nat, NEW n \in S
    PROVE  \E m \in S : \A k \in S : m <= k
<1> DEFINE Below(k) == 0..k
           Belows == {Below(k) : k \in {j \in S : j <= n}}
<1>1. IsFiniteSet(0..n)
  BY FS_Interval
<1>2. IsWellFoundedOn(StrictSubsetOrdering(0..n), SUBSET (0..n))
  BY <1>1, FS_StrictSubsetOrderingWellFounded, FS_FiniteSubsetsOfFinite
<1>3. Belows \subseteq SUBSET (0..n) /\ Belows # {}
  OBVIOUS
<1>4. PICK X \in Belows : \A Y \in Belows : <<Y, X>> \notin StrictSubsetOrdering(0..n)
  <2> HIDE DEF Belows
  <2>1. QED
    BY <1>2, <1>3, WFMin
<1>5. PICK m \in S : m <= n /\ X = Below(m)
  OBVIOUS
<1>6. ASSUME NEW k \in S, k < m PROVE FALSE
  <2>1. Below(k) \in Belows /\ <<Below(k), X>> \in StrictSubsetOrdering(0..n)
    BY <1>5, <1>6 DEF StrictSubsetOrdering
  <2>2. QED
    BY <1>4, <2>1
<1>7. QED
  BY <1>5, <1>6

-----------------------------------------------------------------------------
\* f is the function that FlattenSeq(ss) builds, up to its n-th value.
Flattens(ss, n, f) ==
    f = [i \in 1..n |-> IF i = 1 THEN ss[i] ELSE f[i-1] \o ss[i]]

LEMMA FlattenExists ==
    ASSUME NEW S, NEW ss \in Seq(Seq(S)), NEW n \in 1..Len(ss)
    PROVE  \E f : Flattens(ss, n, f)
<1> DEFINE Bad == {k \in 1..Len(ss) : ~ \E f : Flattens(ss, k, f)}
<1>1. SUFFICES ASSUME n \in Bad PROVE FALSE
  OBVIOUS
<1>2. PICK m \in Bad : \A k \in Bad : m <= k
  <2>1. Bad \in SUBSET Nat
    OBVIOUS
  <2> HIDE DEF Bad
  <2>2. QED
    BY <1>1, <2>1, LeastNat
<1>3. CASE m = 1
  <2>1. Flattens(ss, 1, [i \in 1..1 |-> ss[i]])
    BY DEF Flattens
  <2>2. QED
    BY <1>2, <1>3, <2>1
<1>4. CASE m # 1
  <2>1. m - 1 \in 1..Len(ss) /\ m \in 1..Len(ss) /\ m - 1 \notin Bad
    <3>1. m \in 1..Len(ss)
      OBVIOUS
    <3> HIDE DEF Bad
    <3>2. QED
      BY <1>2, <1>4, <3>1
  <2>2. PICK g : Flattens(ss, m - 1, g)
    BY <2>1
  <2> DEFINE f == [i \in 1..m |-> IF i = m THEN g[m - 1] \o ss[m] ELSE g[i]]
  <2>3. Flattens(ss, m, f)
    <3>1. ASSUME NEW i \in 1..m
          PROVE  f[i] = IF i = 1 THEN ss[i] ELSE f[i-1] \o ss[i]
      <4>1. \A j \in 1..(m - 1) : g[j] = IF j = 1 THEN ss[j] ELSE g[j-1] \o ss[j]
        BY <2>2 DEF Flattens
      <4>2. CASE i = m
        <5>1. m - 1 \in 1..m /\ m \in 1..m /\ m - 1 # m /\ m # 1
          BY <1>4, <2>1
        <5>2. \A j \in 1..m : f[j] = IF j = m THEN g[m - 1] \o ss[m] ELSE g[j]
          BY Zenon
        <5>3. f[m] = g[m - 1] \o ss[m] /\ f[m - 1] = g[m - 1]
          BY <5>1, <5>2
        <5>4. QED
          BY <4>2, <5>1, <5>3
      <4>3. CASE i # m
        <5>1. i \in 1..(m - 1) /\ (i # 1 => i - 1 \in 1..(m - 1))
          BY <4>3, <2>1
        <5>2. f[i] = g[i] /\ (i # 1 => f[i - 1] = g[i - 1])
          BY <5>1, <2>1
        <5>3. QED
          BY <5>1, <5>2, <4>1
      <4>4. QED
        BY <4>2, <4>3
    <3> DEFINE h == [i \in 1..m |-> IF i = 1 THEN ss[i] ELSE f[i-1] \o ss[i]]
    <3>2. \A i \in 1..m : f[i] = h[i]
      BY <3>1
    <3>3. f = h
      BY <3>2
    <3>4. QED
      BY <3>3 DEF Flattens
  <2>4. QED
    BY <1>2, <2>3
<1>5. QED
  BY <1>3, <1>4

LEMMA FlattenStep ==
    ASSUME NEW S, NEW ss \in Seq(Seq(S)), ss # << >>
    PROVE  \E f : Flattens(ss, Len(ss), f) /\ FlattenSeq(ss) = f[Len(ss)]
<1> DEFINE n == Len(ss)
           F == CHOOSE f : f = [i \in 1..n |-> IF i = 1 THEN ss[i] ELSE f[i-1] \o ss[i]]
<1>1. n \in Nat /\ n # 0
  BY EmptySeq
<1>2. \E f : Flattens(ss, n, f)
  BY <1>1, FlattenExists
<1>3. Flattens(ss, n, F)
  BY <1>2 DEF Flattens
<1>4. FlattenSeq(ss) = F[n]
  BY <1>1 DEF FlattenSeq
<1>5. QED
  BY <1>3, <1>4

\* Two functions that flatten a sequence agree where both are defined.
LEMMA FlattenUnique ==
    ASSUME NEW S, NEW ss \in Seq(Seq(S)), NEW tt \in Seq(Seq(S)),
           NEW k \in Nat, k <= Len(ss), k <= Len(tt), \A i \in 1..k : ss[i] = tt[i],
           NEW f, NEW g, Flattens(ss, Len(ss), f), Flattens(tt, Len(tt), g)
    PROVE  \A i \in 1..k : f[i] = g[i] /\ f[i] \in Seq(S)
<1> DEFINE Bad == {i \in 1..k : ~ (f[i] = g[i] /\ f[i] \in Seq(S))}
<1>1. SUFFICES ASSUME NEW a \in Bad PROVE FALSE
  OBVIOUS
<1>2. PICK b \in Bad : \A i \in Bad : b <= i
  <2>1. Bad \in SUBSET Nat
    OBVIOUS
  <2> HIDE DEF Bad
  <2>2. QED
    BY <1>1, <2>1, LeastNat
<1>3. b \in 1..k /\ b \in 1..Len(ss) /\ b \in 1..Len(tt) /\ ss[b] \in Seq(S)
  <2>1. b \in 1..k
    OBVIOUS
  <2> HIDE DEF Bad
  <2>2. QED
    BY <2>1
<1>4. f[b] = (IF b = 1 THEN ss[b] ELSE f[b-1] \o ss[b])
  BY <1>3 DEF Flattens
<1>5. g[b] = (IF b = 1 THEN tt[b] ELSE g[b-1] \o tt[b])
  BY <1>3 DEF Flattens
<1>6. CASE b = 1
  BY <1>3, <1>4, <1>5, <1>6
<1>7. CASE b # 1
  <2>1. b - 1 \in 1..k /\ b - 1 \notin Bad
    <3> HIDE DEF Bad
    <3>1. QED
      BY <1>2, <1>3, <1>7
  <2>2. f[b - 1] = g[b - 1] /\ f[b - 1] \in Seq(S)
    BY <2>1
  <2>3. f[b] = f[b - 1] \o ss[b] /\ g[b] = f[b]
    BY <1>3, <1>4, <1>5, <1>7, <2>2
  <2>4. f[b - 1] \o ss[b] \in Seq(S)
    BY <1>3, <2>2, ConcatProperties
  <2>5. f[b] = g[b] /\ f[b] \in Seq(S)
    BY <2>3, <2>4
  <2>6. QED
    BY <2>5
<1>8. QED
  BY <1>6, <1>7

LEMMA FlattenEmpty == FlattenSeq(<< >>) = << >>
BY DEF FlattenSeq

LEMMA FlattenType ==
    ASSUME NEW S, NEW ss \in Seq(Seq(S))
    PROVE  FlattenSeq(ss) \in Seq(S)
<1>1. CASE ss = << >>
  BY <1>1, FlattenEmpty, EmptySeq
<1>2. CASE ss # << >>
  <2>1. PICK f : Flattens(ss, Len(ss), f) /\ FlattenSeq(ss) = f[Len(ss)]
    BY <1>2, FlattenStep
  <2>2. Len(ss) \in 1..Len(ss) /\ Len(ss) \in Nat
    BY <1>2, EmptySeq
  <2>3. f[Len(ss)] \in Seq(S)
    <3>1. Len(ss) <= Len(ss) /\ \A i \in 1..Len(ss) : ss[i] = ss[i]
      BY <2>2
    <3>2. \A i \in 1..Len(ss) : f[i] = f[i] /\ f[i] \in Seq(S)
      BY <2>1, <2>2, <3>1, FlattenUnique
    <3>3. QED
      BY <2>2, <3>2
  <2>4. QED
    BY <2>1, <2>3
<1>3. QED
  BY <1>1, <1>2

\* One more packet is one more piece at the end of the stream.
LEMMA FlattenAppend ==
    ASSUME NEW S, NEW ss \in Seq(Seq(S)), NEW x \in Seq(S)
    PROVE  FlattenSeq(Append(ss, x)) = FlattenSeq(ss) \o x
<1> DEFINE tt == Append(ss, x)
           n == Len(ss)
<1>1. /\ tt \in Seq(Seq(S)) /\ tt # << >> /\ Len(tt) = n + 1 /\ n \in Nat
      /\ tt[n + 1] = x /\ \A i \in 1..n : ss[i] = tt[i]
  BY AppendProperties
<1> HIDE DEF tt
<1>2. PICK g : Flattens(tt, n + 1, g) /\ FlattenSeq(tt) = g[n + 1]
  BY <1>1, FlattenStep
<1>3. g[n + 1] = IF n = 0 THEN x ELSE g[n] \o x
  <2>1. g[n + 1] = IF n + 1 = 1 THEN tt[n + 1] ELSE g[(n + 1) - 1] \o tt[n + 1]
    <3>1. n + 1 \in 1..(n + 1)
      BY <1>1
    <3> HIDE DEF n
    <3>2. QED
      BY <3>1, <1>2 DEF Flattens
  <2>2. QED
    BY <1>1, <2>1
<1>4. CASE ss = << >>
  <2>1. n = 0 /\ FlattenSeq(ss) = << >>
    BY <1>4, FlattenEmpty
  <2>2. << >> \o x = x
    BY ConcatEmptySeq
  <2>3. QED
    BY <2>1, <2>2, <1>2, <1>3 DEF tt
<1>5. CASE ss # << >>
  <2>1. PICK f : Flattens(ss, n, f) /\ FlattenSeq(ss) = f[n]
    BY <1>5, FlattenStep
  <2>2. n \in 1..n /\ n + 1 \in 1..Len(tt)
    BY <1>1, <1>5, EmptySeq
  <2>3. f[n] = g[n]
    <3>1. n \in Nat /\ n <= Len(ss) /\ n <= Len(tt) /\ \A i \in 1..n : ss[i] = tt[i]
      BY <1>1
    <3>2. Flattens(ss, Len(ss), f) /\ Flattens(tt, Len(tt), g) /\ tt \in Seq(Seq(S))
      BY <1>1, <1>2, <2>1
    <3>3. \A i \in 1..n : f[i] = g[i] /\ f[i] \in Seq(S)
      <4> SUFFICES ASSUME NEW u, u = tt PROVE \A i \in 1..n : f[i] = g[i] /\ f[i] \in Seq(S)
        OBVIOUS
      <4>1. Flattens(u, Len(u), g) /\ u \in Seq(Seq(S)) /\ n <= Len(u) /\ \A i \in 1..n : ss[i] = u[i]
        BY <3>1, <3>2
      <4>2. QED
        BY <3>1, <3>2, <4>1, FlattenUnique
    <3>4. QED
      BY <2>2, <3>3
  <2>4. QED
    BY <1>2, <1>3, <2>1, <2>2, <2>3 DEF tt
<1>6. QED
  BY <1>4, <1>5

\* A part of the packets is a prefix of the stream of all of them.
LEMMA FlattenPrefix ==
    ASSUME NEW S, NEW ss \in Seq(Seq(S)), NEW m \in 0..Len(ss)
    PROVE  \E r \in Seq(S) : FlattenSeq(ss) = FlattenSeq(SubSeq(ss, 1, m)) \o r
<1> DEFINE Upto(j) == SubSeq(ss, 1, j)
           Fits(j) == \E r \in Seq(S) : FlattenSeq(Upto(j)) = FlattenSeq(Upto(m)) \o r
           Bad == {j \in m..Len(ss) : ~ Fits(j)}
<1>1. Len(ss) \in Nat /\ m \in Nat /\ m <= Len(ss)
  OBVIOUS
<1>2. ASSUME NEW j \in m..Len(ss) PROVE Upto(j) \in Seq(Seq(S)) /\ FlattenSeq(Upto(j)) \in Seq(S)
  <2>1. \A i \in 1..j : ss[i] \in Seq(S)
    BY <1>1
  <2>2. Upto(j) \in Seq(Seq(S))
    BY <1>1, <2>1, SubSeqProperties
  <2> HIDE DEF Upto
  <2>3. QED
    BY <2>2, FlattenType
<1>3. Fits(m)
  <2>1. FlattenSeq(Upto(m)) \in Seq(S)
    BY <1>1, <1>2
  <2> HIDE DEF Upto
  <2>2. QED
    BY <2>1, ConcatEmptySeq, EmptySeq
<1>4. ASSUME NEW b \in m..Len(ss), b # m, Fits(b - 1) PROVE Fits(b)
  <2>1. b \in 1..Len(ss) /\ 1 \in 1..Len(ss) /\ b \in 1..Len(ss) /\ b - 1 \in m..Len(ss) /\ ss[b] \in Seq(S)
    BY <1>1, <1>4
  <2>2. Upto(b) = Upto(b - 1) \o <<ss[b]>>
    BY <2>1, SubSeqRecursiveSecond
  <2>3. Upto(b - 1) \in Seq(Seq(S)) /\ FlattenSeq(Upto(b - 1)) \in Seq(S) /\ FlattenSeq(Upto(m)) \in Seq(S)
    BY <1>1, <1>2, <2>1
  <2> HIDE DEF Upto
  <2>4. Upto(b) = Append(Upto(b - 1), ss[b])
    BY <2>1, <2>2, <2>3, AppendIsConcat
  <2>5. FlattenSeq(Upto(b)) = FlattenSeq(Upto(b - 1)) \o ss[b]
    BY <2>1, <2>3, <2>4, FlattenAppend
  <2>6. PICK r \in Seq(S) : FlattenSeq(Upto(b - 1)) = FlattenSeq(Upto(m)) \o r
    BY <1>4
  <2>7. FlattenSeq(Upto(b)) = FlattenSeq(Upto(m)) \o (r \o ss[b])
    <3> DEFINE c == FlattenSeq(Upto(m))
               a == FlattenSeq(Upto(b - 1))
               x == ss[b]
               y == FlattenSeq(Upto(b))
    <3>1. c \in Seq(S) /\ x \in Seq(S) /\ a = c \o r /\ y = a \o x
      BY <2>1, <2>3, <2>5, <2>6
    <3> HIDE DEF c, a, x, y
    <3>2. (c \o r) \o x = c \o (r \o x)
      <4>1. Regroups(c, r, x)
        BY <2>5, <3>1, UnitsRegroup
      <4>2. QED
        BY <4>1, Zenon DEF Regroups
    <3>4. y = c \o (r \o x)
      BY <3>1, <3>2, Zenon
    <3>3. QED
      BY <3>4 DEF c, x, y
  <2>8. r \o ss[b] \in Seq(S)
    BY <2>1, ConcatProperties
  <2>9. QED
    BY <2>7, <2>8
<1> HIDE DEF Upto, Fits
<1>5. Bad = {}
  <2> SUFFICES ASSUME NEW a \in Bad PROVE FALSE
    OBVIOUS
  <2>1. Bad \in SUBSET Nat
    BY <1>1
  <2>2. PICK b \in Bad : \A j \in Bad : b <= j
    <3> HIDE DEF Bad
    <3>1. QED
      BY <2>1, LeastNat
  <2>3. b \in m..Len(ss) /\ ~ Fits(b)
    OBVIOUS
  <2>4. b # m /\ b - 1 \in m..Len(ss)
    BY <1>1, <1>3, <2>3
  <2>5. b - 1 \notin Bad
    <3> HIDE DEF Bad
    <3>1. QED
      BY <1>1, <2>2, <2>3, <2>4
  <2>6. QED
    BY <1>4, <2>3, <2>4, <2>5
<1>6. Fits(Len(ss)) /\ Upto(Len(ss)) = ss
  <2>1. Len(ss) \in m..Len(ss)
    BY <1>1
  <2>2. QED
    BY <1>5, <2>1, SubSeqFull DEF Upto
<1>7. QED
  BY <1>6 DEF Fits, Upto

-----------------------------------------------------------------------------
Units == Packet \X Nat

LEMMA FrameType ==
    ASSUME NEW p \in Packet
    PROVE  /\ p.size \in Nat /\ Frame(p) \in Seq(Units) /\ Frame(p) # << >>
           /\ Len(Frame(p)) = HeaderUnits + p.size
           /\ \A k \in 1..Len(Frame(p)) : Frame(p)[k] = <<p, k>>
<1>1. p.size \in Nat
  BY UnitsAssumption DEF Packet, Request, Message
<1>2. HeaderUnits + p.size \in Nat \ {0}
  BY <1>1, UnitsAssumption
<1>3. \A k \in 1..(HeaderUnits + p.size) : <<p, k>> \in Units
  BY <1>2 DEF Units
<1>4. QED
  BY <1>1, <1>2, <1>3 DEF Frame

LEMMA NeedType ==
    ASSUME NEW buf \in Seq(Units)
    PROVE  Need(buf) \in Int
<1>1. Len(buf) \in Nat /\ HeaderUnits \in Nat \ {0}
  BY UnitsAssumption
<1>2. CASE Len(buf) < HeaderUnits
  BY <1>1, <1>2 DEF Need
<1>3. CASE ~ (Len(buf) < HeaderUnits)
  <2>1. buf[HeaderUnits] \in Units
    BY <1>1, <1>3
  <2>2. PICK p \in Packet, k \in Nat : buf[HeaderUnits] = <<p, k>>
    BY <2>1 DEF Units
  <2>3. buf[HeaderUnits][1].size \in Nat
    BY <2>2, FrameType
  <2>4. QED
    BY <1>1, <1>3, <2>3 DEF Need
<1>4. QED
  BY <1>2, <1>3

\* A whole buffer that begins as a frame does is that frame.
LEMMA WholeIsFrame ==
    ASSUME NEW p \in Packet, NEW buf \in Seq(Units), NEW r \in Seq(Units), NEW rest \in Seq(Units),
           Frame(p) \o r = buf \o rest, Whole(buf)
    PROVE  buf = Frame(p)
<1>1. HeaderUnits \in 1..Len(buf) /\ HeaderUnits \in 1..Len(Frame(p)) /\ Len(buf) \in Nat
  <2>1. HeaderUnits \in Nat \ {0} /\ Len(buf) \in Nat /\ Len(buf) >= HeaderUnits
    BY UnitsAssumption DEF Whole
  <2>2. Len(Frame(p)) = HeaderUnits + p.size /\ p.size \in Nat
    BY FrameType
  <2>3. QED
    BY <2>1, <2>2
<1>2. \A i \in 1..Len(buf) : (buf \o rest)[i] = buf[i]
  BY ConcatProperties
<1>3. Frame(p) \in Seq(Units) /\ Len(Frame(p)) = HeaderUnits + p.size /\ p.size \in Nat
  BY FrameType
<1>4. \A i \in 1..Len(Frame(p)) : (Frame(p) \o r)[i] = Frame(p)[i]
  <2> DEFINE f == Frame(p)
  <2>1. f \in Seq(Units)
    BY <1>3
  <2> HIDE DEF f
  <2>2. \A i \in 1..Len(f) : (f \o r)[i] = f[i]
    BY <2>1, ConcatProperties
  <2>3. QED
    BY <2>2 DEF f
<1>5. buf[HeaderUnits] = <<p, HeaderUnits>>
  BY <1>1, <1>2, <1>4, FrameType
<1>6. Len(buf) = Len(Frame(p))
  <2>1. Need(buf) = 0 /\ Len(buf) >= HeaderUnits
    BY DEF Whole
  <2>2. buf[HeaderUnits][1].size = p.size
    BY <1>5
  <2>3. HeaderUnits \in Nat /\ HeaderUnits + p.size - Len(buf) = 0
    BY <1>1, <2>1, <2>2, UnitsAssumption DEF Need
  <2>4. QED
    BY <1>1, <1>3, <2>3
<1>7. \A i \in 1..Len(buf) : buf[i] = Frame(p)[i]
  BY <1>2, <1>4, <1>6
<1>8. QED
  BY <1>3, <1>6, <1>7, SeqEqual

\* The units u begin with f, followed by r.
Starts(u, f, r) == \E rest \in Seq(Units) : u = f \o (r \o rest)

\* got are the first of the packets sent.
Leads(got, sent) == Len(got) <= Len(sent) /\ \A i \in 1..Len(got) : got[i] = sent[i]

(***************************************************************************)
(* The receiver cuts the stream where the sender did: what it takes for a  *)
(* whole packet is the next packet that was sent.                          *)
(***************************************************************************)
LEMMA NextPacket ==
    ASSUME NEW sent \in Seq(Frames), NEW got, Leads(got, sent),
           got \in Seq(Seq(Units)), sent \in Seq(Seq(Units)),
           NEW buf \in Seq(Units), Starts(FlattenSeq(sent), FlattenSeq(got), buf), Whole(buf)
    PROVE  Len(got) < Len(sent) /\ buf = sent[Len(got) + 1]
<1> DEFINE k == Len(got)
           G == FlattenSeq(got)
<1>1. k \in Nat /\ Len(sent) \in Nat /\ G \in Seq(Units)
  BY FlattenType
<1> PICK rl \in Seq(Units) : FlattenSeq(sent) = G \o (buf \o rl)
  BY DEF Starts
<1>2. FlattenSeq(sent) = G \o (buf \o rl) /\ buf \o rl \in Seq(Units)
  BY ConcatProperties
<1>3. Len(buf) # 0
  BY UnitsAssumption DEF Whole
<1>4. k < Len(sent)
  <2> SUFFICES ASSUME k = Len(sent) PROVE FALSE
    BY <1>1 DEF Leads
  <2>1. got = sent
    <3>1. \A i \in 1..Len(got) : got[i] = sent[i]
      BY DEF Leads
    <3>2. QED
      BY <3>1, SeqEqual
  <2>2. G \o (buf \o rl) = G
    BY <1>2, <2>1
  <2> HIDE DEF G
  <2>3. buf \o rl = << >>
    BY <1>1, <1>2, <2>2, ConcatEqualIffEmpty
  <2>4. buf = << >>
    BY <1>2, <2>3, ConcatEqualIffEmpty
  <2>5. QED
    BY <1>3, <2>4
<1>5. PICK p \in Packet : sent[k + 1] = Frame(p)
  <2>1. k + 1 \in 1..Len(sent)
    BY <1>1, <1>4
  <2>2. sent[k + 1] \in Frames
    BY <2>1
  <2>3. QED
    BY <2>2 DEF Frames
<1>6. PICK r \in Seq(Units) : FlattenSeq(sent) = FlattenSeq(Append(got, Frame(p))) \o r
  <2>1. k + 1 \in 0..Len(sent) /\ \A i \in 1..(k + 1) : sent[i] \in Seq(Units)
    BY <1>1, <1>4
  <2>2. PICK r \in Seq(Units) : FlattenSeq(sent) = FlattenSeq(SubSeq(sent, 1, k + 1)) \o r
    BY <2>1, FlattenPrefix
  <2>3. SubSeq(sent, 1, k + 1) = Append(got, Frame(p))
    <3> DEFINE a == SubSeq(sent, 1, k + 1)
               c == Append(got, Frame(p))
               T == Seq(Units)
    <3>1. a \in Seq(T) /\ Len(a) = k + 1 /\ \A i \in 1..(k + 1) : a[i] = sent[i]
      <4>1. 1 \in Int /\ k + 1 \in Int /\ 1 <= k + 1 /\ (k + 1) - 1 + 1 = k + 1
        BY <1>1
      <4>2. \A i \in 1..(k + 1) : sent[i] \in T
        BY <2>1
      <4>3. a \in Seq(T) /\ Len(a) = k + 1 /\ \A i \in 1..(k + 1) : a[i] = sent[1 + i - 1]
        <5> HIDE DEF k, T
        <5>1. QED
          BY <4>1, <4>2, SubSeqProperties
      <4>4. QED
        BY <1>1, <4>3
    <3>2. c \in Seq(T) /\ Len(c) = k + 1 /\ c[k + 1] = Frame(p) /\ \A i \in 1..k : c[i] = got[i]
      <4>1. Frame(p) \in T
        BY FrameType
      <4>2. QED
        BY <4>1, AppendProperties
    <3>3. \A i \in 1..(k + 1) : a[i] = c[i]
      <4> TAKE i \in 1..(k + 1)
      <4>1. i \in 1..k \/ i = k + 1
        BY <1>1
      <4> HIDE DEF a, c
      <4>2. QED
        BY <4>1, <3>1, <3>2, <1>5 DEF Leads
    <3> HIDE DEF a, c, k
    <3>4. a = c
      BY <3>1, <3>2, <3>3, SeqEqual
    <3>5. QED
      BY <3>4 DEF a, c
  <2>4. QED
    BY <2>2, <2>3
<1>7. FlattenSeq(sent) = G \o (Frame(p) \o r)
  <2>1. Frame(p) \in Seq(Units)
    BY FrameType
  <2>2. FlattenSeq(Append(got, Frame(p))) = G \o Frame(p)
    BY <2>1, FlattenAppend
  <2> DEFINE f == Frame(p)
             y == FlattenSeq(sent)
  <2>3. y = (G \o f) \o r /\ f \in Seq(Units)
    BY <1>6, <2>1, <2>2
  <2> HIDE DEF G, f, y
  <2>4. y = G \o (f \o r)
    <3>1. ASSUME NEW g1 \in Seq(Units), NEW f1 \in Seq(Units), NEW y1, y1 = (g1 \o f1) \o r
          PROVE  y1 = g1 \o (f1 \o r)
      <4>1. (g1 \o f1) \o r = g1 \o (f1 \o r)
        <5>1. Regroups(g1, f1, r)
          BY <1>2, <3>1, UnitsRegroup
        <5>2. QED
          BY <5>1, Zenon DEF Regroups
      <4>2. QED
        BY <3>1, <4>1, Zenon
    <3>2. QED
      BY <1>1, <2>3, <3>1
  <2>5. QED
    BY <2>4 DEF f, y
<1>8. Frame(p) \o r = buf \o rl
  <2> DEFINE f == Frame(p) \o r
             b == buf \o rl
  <2>1. f \in Seq(Units) /\ b \in Seq(Units)
    BY <1>2, FrameType, ConcatProperties
  <2>2. G \o f = G \o b
    BY <1>2, <1>7
  <2> HIDE DEF G, f, b
  <2>3. f = b
    BY <1>1, <2>1, <2>2, ConcatSimplifications
  <2>4. QED
    BY <2>3 DEF f, b
<1>9. buf = Frame(p)
  BY <1>2, <1>8, WholeIsFrame
<1>10. QED
  BY <1>4, <1>5, <1>9

-----------------------------------------------------------------------------
\* What goes through two buffers, and its pieces in the order of the stream.
Stream(f, r, i, l) == f \o r \o i \o l

\* Units move from the front of one piece to the end of the one before it.
Moves(a, i, t, q) == (a \o (i \o t)) \o q = (a \o i) \o (t \o q)

LEMMA UnitsMove ==
    ASSUME NEW S, NEW a \in Seq(S), NEW i \in Seq(S), NEW t \in Seq(S), NEW q \in Seq(S)
    PROVE  Moves(a, i, t, q)
<1>1. Regroups(a, i, t)
  BY UnitsRegroup
<1>2. ASSUME NEW ai, ai = a \o i
      PROVE  Regroups(ai, t, q)
  <2>1. ai \in Seq(S)
    BY <1>2, ConcatProperties
  <2>2. QED
    BY <2>1, UnitsRegroup
<1>3. QED
  BY <1>1, <1>2, Zenon DEF Moves, Regroups

LEMMA StreamType ==
    ASSUME NEW S, NEW f \in Seq(S), NEW r \in Seq(S), NEW i \in Seq(S), NEW l \in Seq(S)
    PROVE  Stream(f, r, i, l) \in Seq(S) /\ f \o r \in Seq(S) /\ f \o r \o i \in Seq(S)
BY ConcatProperties DEF Stream

LEMMA StreamRead ==
    ASSUME NEW S, NEW f \in Seq(S), NEW r \in Seq(S), NEW t \in Seq(S), NEW q \in Seq(S),
           NEW l \in Seq(S)
    PROVE  /\ Stream(f, r \o t, q, l) = Stream(f, r, t \o q, l)
           /\ Stream(f \o (r \o t), << >>, q, l) = Stream(f, r, t \o q, l)
<1>1. (f \o (r \o t)) \o q = (f \o r) \o (t \o q)
  <2>1. Moves(f, r, t, q)
    BY UnitsMove
  <2>2. QED
    BY <2>1 DEF Moves
<1>2. (f \o (r \o t)) \o << >> = f \o (r \o t)
  <2>1. r \o t \in Seq(S)
    BY ConcatProperties
  <2>2. ASSUME NEW rt \in Seq(S)
        PROVE  (f \o rt) \o << >> = f \o rt
    BY ConcatProperties, ConcatEmptySeq
  <2>3. QED
    BY <2>1, <2>2
<1>3. QED
  BY <1>1, <1>2, Zenon DEF Stream

LEMMA StreamWrite ==
    ASSUME NEW S, NEW f \in Seq(S), NEW r \in Seq(S), NEW i \in Seq(S), NEW t \in Seq(S),
           NEW q \in Seq(S)
    PROVE  Stream(f, r, i \o t, q) = Stream(f, r, i, t \o q)
<1>1. f \o r \in Seq(S)
  BY StreamType
<1>2. Moves(f \o r, i, t, q)
  BY <1>1, UnitsMove
<1>3. QED
  BY <1>2, Zenon DEF Moves, Stream

LEMMA StreamAdd ==
    ASSUME NEW S, NEW f \in Seq(S), NEW r \in Seq(S), NEW i \in Seq(S), NEW l \in Seq(S)
    PROVE  Stream(f, r, i, << >>) \o l = Stream(f, r, i, l)
<1>1. f \o r \o i \in Seq(S)
  BY StreamType
<1>2. (f \o r \o i) \o << >> = f \o r \o i
  BY <1>1, ConcatEmptySeq
<1>3. QED
  BY <1>2, Zenon DEF Stream

\* Taken and Rest cut a sequence in two.
LEMMA CutInTwo ==
    ASSUME NEW S, NEW s \in Seq(S), NEW n \in 1..Len(s)
    PROVE  /\ Taken(s, n) \in Seq(S) /\ Rest(s, n) \in Seq(S)
           /\ Len(Taken(s, n)) = n /\ Len(Rest(s, n)) = Len(s) - n
           /\ s = Taken(s, n) \o Rest(s, n)
<1>1. Len(s) \in Nat /\ n \in Nat /\ n <= Len(s) /\ \A j \in 1..Len(s) : s[j] \in S
  OBVIOUS
<1>2. Taken(s, n) \in Seq(S) /\ Len(Taken(s, n)) = n
  <2>1. \A j \in 1..n : s[j] \in S
    BY <1>1
  <2>2. QED
    BY <1>1, <2>1, SubSeqProperties DEF Taken
<1>3. Rest(s, n) \in Seq(S) /\ Len(Rest(s, n)) = Len(s) - n
  <2>1. \A j \in (n + 1)..Len(s) : s[j] \in S
    BY <1>1
  <2>2. QED
    BY <1>1, <2>1, SubSeqProperties DEF Rest
<1>4. Taken(s, n) \o Rest(s, n) = s
  <2>1. 1 \in 1..(Len(s) + 1) /\ n \in (1 - 1)..Len(s) /\ Len(s) \in n..Len(s)
    BY <1>1
  <2>2. SubSeq(s, 1, n) \o SubSeq(s, n + 1, Len(s)) = SubSeq(s, 1, Len(s))
    BY <2>1, ConcatAdjacentSubSeq
  <2>3. QED
    BY <2>2, SubSeqFull DEF Taken, Rest
<1>5. QED
  BY <1>2, <1>3, <1>4

LEMMA LeastBound ==
    ASSUME NEW a \in Int, NEW b \in Int, NEW n \in 1..Least(a, b)
    PROVE  n \in 1..a /\ n \in 1..b
BY DEF Least

\* The stream without its first piece; what is dropped at its end.
LEMMA StreamSplit ==
    ASSUME NEW f \in Seq(Units), NEW r \in Seq(Units), NEW i \in Seq(Units), NEW l \in Seq(Units),
           NEW x \in Seq(Units)
    PROVE  Starts(Stream(f, r, i, l) \o x, f, r)
<1>1. l \o x \in Seq(Units)
  BY ConcatProperties
<1>2. i \o (l \o x) \in Seq(Units)
  BY <1>1, ConcatProperties
<1>3. Regroups(f \o r \o i, l, x) /\ Regroups(f \o r, i, l \o x) /\ Regroups(f, r, i \o (l \o x))
  BY <1>1, <1>2, StreamType, UnitsRegroup
<1>4. Stream(f, r, i, l) \o x = f \o (r \o (i \o (l \o x)))
  BY <1>3, Zenon DEF Regroups, Stream
<1>5. QED
  BY <1>2, <1>4 DEF Starts

Drops(f, r, i, l, x) == Stream(f, r, i, l) \o x = Stream(f, r, i, << >>) \o (l \o x)

LEMMA StreamDrop ==
    ASSUME NEW S, NEW f \in Seq(S), NEW r \in Seq(S), NEW i \in Seq(S), NEW l \in Seq(S),
           NEW x \in Seq(S)
    PROVE  Drops(f, r, i, l, x)
<1>1. f \o r \o i \in Seq(S)
  BY StreamType
<1>2. Regroups(f \o r \o i, l, x)
  BY <1>1, UnitsRegroup
<1>3. (f \o r \o i) \o << >> = f \o r \o i
  BY <1>1, ConcatEmptySeq
<1>4. QED
  BY <1>2, <1>3, Zenon DEF Regroups, Stream, Drops

-----------------------------------------------------------------------------
\* The packets that the actions send are packets.
LEMMA PacketParts ==
    /\ Request \subseteq Packet
    /\ \A s \in AnswerSizes : [type |-> "answer", size |-> s] \in Packet
    /\ \A s \in NoteSizes : [type |-> "note", size |-> s] \in Packet
BY DEF Packet, Request, Message

LEMMA InitType == Init => TypeOK
<1> SUFFICES ASSUME Init PROVE TypeOK
  OBVIOUS
<1>1. holder = NoOne /\ \A t \in Threads : left[t] = << >> /\ t # holder
  BY ThreadsAssumption DEF Init, Threads
<1>2. left \in [Threads -> Seq(Packet \X Nat)]
  BY DEF Init
<1>3. \A t \in Threads : left[t] # << >> <=> holder = t
  BY <1>1
<1>4. Len(in) = 0 /\ Len(out) = 0 /\ holder \in Threads \cup {NoOne}
  BY <1>1, EmptySeq DEF Init
<1>5. /\ asked \in Seq(Seq(Packet \X Nat)) /\ served \in Seq(Seq(Packet \X Nat))
      /\ told \in Seq(Seq(Packet \X Nat)) /\ heard \in Seq(Seq(Packet \X Nat))
      /\ {pleft, in, rbuf, out, pbuf} \subseteq Seq(Packet \X Nat)
  BY EmptySeq DEF Init
<1>6. notes \in 0..MaxNotes /\ Len(in) <= InRoom /\ Len(out) <= OutRoom
  <2>1. InRoom \in Nat /\ OutRoom \in Nat /\ MaxNotes \in Nat /\ notes = 0
    BY UnitsAssumption DEF Init
  <2>2. QED
    BY <1>4, <2>1
<1>7. /\ {ended, gone, hup, shut} \subseteq BOOLEAN
      /\ pc \in {"recv", "handle", "answer", "cleanup", "close", "closed"}
  BY DEF Init
<1>8. QED
  BY <1>2, <1>3, <1>4, <1>5, <1>6, <1>7 DEF TypeOK

\* client_send_packet locks the mutex.
LEMMA BeginType ==
    ASSUME TypeOK, NEW t \in Threads, NEW p \in Packet, Begin(t, p)
    PROVE  /\ told' \in Seq(Seq(Packet \X Nat)) /\ left' \in [Threads -> Seq(Packet \X Nat)]
           /\ holder' \in Threads \cup {NoOne}
           /\ \A u \in Threads : left'[u] # << >> <=> holder' = u
<1>1. Frame(p) \in Seq(Packet \X Nat) /\ Frame(p) # << >>
  BY FrameType DEF Units
<1>2. told' \in Seq(Seq(Packet \X Nat))
  BY <1>1, AppendProperties DEF TypeOK, Begin
<1>3. left' \in [Threads -> Seq(Packet \X Nat)] /\ holder' \in Threads \cup {NoOne}
  BY <1>1 DEF TypeOK, Begin
<1>4. ASSUME NEW u \in Threads PROVE left'[u] # << >> <=> holder' = u
  BY <1>1, ThreadsAssumption DEF TypeOK, Begin, Threads
<1>5. QED
  BY <1>2, <1>3, <1>4

LEMMA TypeStep == TypeOK /\ [Next]_vars => TypeOK'
<1> SUFFICES ASSUME TypeOK, [Next]_vars PROVE TypeOK'
  OBVIOUS
<1> DEFINE U == Packet \X Nat
<1>a. Units = U
  BY DEF Units
<1>b. /\ asked \in Seq(Seq(U)) /\ served \in Seq(Seq(U)) /\ told \in Seq(Seq(U)) /\ heard \in Seq(Seq(U))
      /\ pleft \in Seq(U) /\ in \in Seq(U) /\ rbuf \in Seq(U) /\ out \in Seq(U) /\ pbuf \in Seq(U)
      /\ left \in [Threads -> Seq(U)] /\ Len(in) <= InRoom /\ Len(out) <= OutRoom
      /\ InRoom \in Nat /\ OutRoom \in Nat /\ MaxNotes \in Nat
  BY UnitsAssumption DEF TypeOK
<1>1. CASE UNCHANGED vars
  BY <1>1 DEF TypeOK, vars, inVars, outVars, peerIn, flags
<1>2. ASSUME NEW p \in Request, PeerAsk(p) PROVE TypeOK'
  <2>1. p \in Packet /\ Frame(p) \in Seq(U)
    BY <1>a, PacketParts, FrameType
  <2>2. asked' \in Seq(Seq(U)) /\ pleft' \in Seq(U)
    BY <1>2, <1>b, <2>1, AppendProperties DEF PeerAsk
  <2>3. QED
    BY <1>2, <2>2 DEF TypeOK, PeerAsk, outVars, peerIn, flags
<1>3. ASSUME NEW n \in 1..InRoom, PeerWrite(n) PROVE TypeOK'
  <2>1. n \in 1..Len(pleft) /\ n \in 1..(InRoom - Len(in)) /\ Len(in) \in Nat
    <3>1. Len(pleft) \in Int /\ InRoom - Len(in) \in Int /\ Len(in) \in Nat
      BY <1>b
    <3>2. n \in 1..Least(Len(pleft), InRoom - Len(in))
      BY <1>3, Zenon DEF PeerWrite
    <3>3. QED
      BY <3>1, <3>2, LeastBound
  <2>2. Taken(pleft, n) \in Seq(U) /\ Rest(pleft, n) \in Seq(U) /\ Len(Taken(pleft, n)) = n
    BY <1>b, <2>1, CutInTwo
  <2>3. in' \in Seq(U) /\ pleft' \in Seq(U) /\ Len(in') <= InRoom
    <3>1. in' = in \o Taken(pleft, n) /\ pleft' = Rest(pleft, n)
      BY <1>3 DEF PeerWrite
    <3>2. in' \in Seq(U) /\ Len(in') = Len(in) + n
      BY <1>b, <2>2, <3>1, ConcatProperties
    <3>3. QED
      BY <1>b, <2>1, <2>2, <3>1, <3>2
  <2>4. QED
    BY <1>3, <2>3 DEF TypeOK, PeerWrite, outVars, peerIn, flags
<1>4. ASSUME NEW n \in 1..OutRoom, PeerRead(n) PROVE TypeOK'
  <2> DEFINE buf == pbuf \o Taken(out, n)
  <2>1. n \in 1..Len(out) /\ Len(out) \in Nat
    <3>1. Need(pbuf) \in Int /\ Len(out) \in Nat
      BY <1>a, <1>b, NeedType
    <3>2. n \in 1..Least(Len(out), Need(pbuf))
      BY <1>4, Zenon DEF PeerRead
    <3>3. QED
      BY <3>1, <3>2, LeastBound
  <2>2. Taken(out, n) \in Seq(U) /\ Rest(out, n) \in Seq(U) /\ Len(Rest(out, n)) = Len(out) - n
    BY <1>b, <2>1, CutInTwo
  <2>3. buf \in Seq(U)
    BY <1>b, <2>2, ConcatProperties
  <2>4. out' = Rest(out, n) /\ pbuf' = (IF Whole(buf) THEN << >> ELSE buf)
        /\ heard' = (IF Whole(buf) THEN Append(heard, buf) ELSE heard)
    BY <1>4 DEF PeerRead
  <2> HIDE DEF buf
  <2>5. out' \in Seq(U) /\ Len(out') <= OutRoom /\ pbuf' \in Seq(U) /\ heard' \in Seq(Seq(U))
    <3>1. heard' \in Seq(Seq(U))
      BY <1>b, <2>3, <2>4, AppendProperties
    <3>2. QED
      BY <1>b, <2>1, <2>2, <2>3, <2>4, <3>1
  <2>6. QED
    BY <1>4, <2>5 DEF TypeOK, PeerRead, inVars, flags
<1>5. CASE PeerEnd \/ PeerLeave \/ Hangup \/ Shutdown
  BY <1>5 DEF TypeOK, PeerEnd, PeerLeave, Hangup, Shutdown, inVars, outVars, peerIn, flags
<1>6. ASSUME NEW n \in 1..InRoom, RecvSome(n) PROVE TypeOK'
  <2> DEFINE buf == rbuf \o Taken(in, n)
  <2>1. n \in 1..Len(in) /\ Len(in) \in Nat
    <3>1. Need(rbuf) \in Int /\ Len(in) \in Nat
      BY <1>a, <1>b, NeedType
    <3>2. n \in 1..Least(Len(in), Need(rbuf))
      BY <1>6, Zenon DEF RecvSome
    <3>3. QED
      BY <3>1, <3>2, LeastBound
  <2>2. Taken(in, n) \in Seq(U) /\ Rest(in, n) \in Seq(U) /\ Len(Rest(in, n)) = Len(in) - n
    BY <1>b, <2>1, CutInTwo
  <2>3. buf \in Seq(U)
    BY <1>b, <2>2, ConcatProperties
  <2>4. in' = Rest(in, n) /\ rbuf' = (IF Whole(buf) THEN << >> ELSE buf)
        /\ served' = (IF Whole(buf) THEN Append(served, buf) ELSE served)
        /\ pc' \in {"handle", "recv"}
    BY <1>6 DEF RecvSome
  <2> HIDE DEF buf
  <2>5. in' \in Seq(U) /\ Len(in') <= InRoom /\ rbuf' \in Seq(U) /\ served' \in Seq(Seq(U))
    <3>1. served' \in Seq(Seq(U))
      BY <1>b, <2>3, <2>4, AppendProperties
    <3>2. QED
      BY <1>b, <2>1, <2>2, <2>3, <2>4, <3>1
  <2>6. QED
    BY <1>6, <2>4, <2>5 DEF TypeOK, RecvSome, outVars, peerIn, flags
<1>7. CASE RecvFail
  BY <1>7, EmptySeq DEF TypeOK, RecvFail, outVars, peerIn, flags
<1>8. CASE Ignore \/ Cleanup \/ Close
  BY <1>8 DEF TypeOK, Ignore, Cleanup, Close, inVars, outVars, peerIn, flags
<1>9. ASSUME NEW t \in Threads, NEW s \in NoteSizes, Note(t, s) PROVE TypeOK'
  <2>1. /\ told' \in Seq(Seq(U)) /\ left' \in [Threads -> Seq(U)] /\ holder' \in Threads \cup {NoOne}
        /\ \A u \in Threads : left'[u] # << >> <=> holder' = u
    BY <1>9, PacketParts, BeginType DEF Note
  <2>2. notes' \in 0..MaxNotes
    BY <1>9, <1>b DEF TypeOK, Note
  <2>3. QED
    BY <1>9, <2>1, <2>2 DEF TypeOK, Note, inVars, peerIn, flags
<1>10. ASSUME NEW s \in AnswerSizes, Answer(s) PROVE TypeOK'
  <2>1. /\ told' \in Seq(Seq(U)) /\ left' \in [Threads -> Seq(U)] /\ holder' \in Threads \cup {NoOne}
        /\ \A u \in Threads : left'[u] # << >> <=> holder' = u
    BY <1>10, PacketParts, BeginType DEF Answer, Threads
  <2>2. QED
    BY <1>10, <2>1 DEF TypeOK, Answer, inVars, peerIn, flags
<1>11. ASSUME NEW t \in Threads, NEW n \in 1..OutRoom, SendSome(t, n) PROVE TypeOK'
  <2>1. n \in 1..Len(left[t]) /\ n \in 1..(OutRoom - Len(out)) /\ Len(out) \in Nat /\ left[t] \in Seq(U)
        /\ Len(left[t]) \in Nat
    <3>1. /\ left[t] \in Seq(U) /\ Len(left[t]) \in Nat
          /\ OutRoom - Len(out) \in Int /\ Len(out) \in Nat
      BY <1>b
    <3>2. n \in 1..Least(Len(left[t]), OutRoom - Len(out))
      BY <1>11, Zenon DEF SendSome
    <3>3. QED
      BY <3>1, <3>2, LeastBound
  <2>2. Taken(left[t], n) \in Seq(U) /\ Rest(left[t], n) \in Seq(U) /\ Len(Taken(left[t], n)) = n
        /\ Len(Rest(left[t], n)) = Len(left[t]) - n
    BY <2>1, CutInTwo
  <2>3. out' \in Seq(U) /\ Len(out') <= OutRoom
    <3>1. out' = out \o Taken(left[t], n)
      BY <1>11 DEF SendSome
    <3>2. out' \in Seq(U) /\ Len(out') = Len(out) + n
      BY <1>b, <2>2, <3>1, ConcatProperties
    <3>3. QED
      BY <1>b, <2>1, <3>2
  <2>4. left' \in [Threads -> Seq(U)] /\ left'[t] = Rest(left[t], n) /\ \A u \in Threads \ {t} : left'[u] = left[u]
    BY <1>11, <1>b, <2>2 DEF SendSome
  <2>5. left[t] # << >> /\ holder = t
    <3>1. Len(left[t]) # 0
      BY <2>1
    <3>2. QED
      BY <3>1 DEF TypeOK
  <2>6. left'[t] = << >> <=> n = Len(left[t])
    BY <2>1, <2>2, <2>4, EmptySeq
  <2>7. holder' = (IF n = Len(left[t]) THEN NoOne ELSE holder)
    BY <1>11 DEF SendSome, Unlock
  <2>8. \A u \in Threads : left'[u] # << >> <=> holder' = u
    <3> TAKE u \in Threads
    <3>1. u # NoOne
      BY ThreadsAssumption DEF Threads
    <3>2. left[u] # << >> <=> holder = u
      BY DEF TypeOK
    <3>3. QED
      BY <2>4, <2>5, <2>6, <2>7, <3>1, <3>2
  <2>9. holder' \in Threads \cup {NoOne} /\ pc' \in {"recv", "handle", "answer", "cleanup", "close", "closed"}
    BY <1>11 DEF TypeOK, SendSome, Unlock
  <2>10. UNCHANGED <<inVars, told, notes, peerIn, flags>>
    BY <1>11 DEF SendSome
  <2>11. QED
    BY <2>3, <2>4, <2>8, <2>9, <2>10 DEF TypeOK, inVars, peerIn, flags
<1>12. ASSUME NEW t \in Threads, SendFail(t) PROVE TypeOK'
  <2>1. holder = t /\ holder' = NoOne
    BY <1>12 DEF TypeOK, SendFail, Unlock
  <2>2. left' \in [Threads -> Seq(U)] /\ \A u \in Threads : left'[u] = IF u = t THEN << >> ELSE left[u]
    BY <1>12, <1>b, EmptySeq DEF SendFail
  <2>3. \A u \in Threads : left'[u] # << >> <=> holder' = u
    BY <2>1, <2>2, ThreadsAssumption DEF TypeOK, Threads
  <2>4. pc' \in {"recv", "handle", "answer", "cleanup", "close", "closed"}
    BY <1>12 DEF TypeOK, SendFail, Unlock
  <2>5. QED
    BY <1>12, <2>1, <2>2, <2>3, <2>4 DEF TypeOK, SendFail, inVars, peerIn, flags
<1>13. QED
  BY <1>1, <1>2, <1>3, <1>4, <1>5, <1>6, <1>7, <1>8, <1>9, <1>10, <1>11, <1>12
     DEF Next, Peer, Receiving, Answering, Sending, Notify

(***************************************************************************)
(* TypeOK: buffers keep within their room, and a thread has something left *)
(* to send exactly while it holds the client's mutex.                      *)
(***************************************************************************)
THEOREM ConnectionType == Spec => []TypeOK
BY InitType, TypeStep, PTL DEF Spec

-----------------------------------------------------------------------------
LEMMA LeadsOn ==
    ASSUME NEW S, NEW got \in Seq(S), NEW sent \in Seq(S), Leads(got, sent)
    PROVE  /\ \A x \in S : Leads(got, Append(sent, x))
           /\ Len(got) < Len(sent) => Leads(Append(got, sent[Len(got) + 1]), sent)
<1>1. Len(got) \in Nat /\ Len(sent) \in Nat /\ Len(got) <= Len(sent)
      /\ \A i \in 1..Len(got) : got[i] = sent[i]
  BY DEF Leads
<1>2. ASSUME NEW x \in S PROVE Leads(got, Append(sent, x))
  <2> DEFINE more == Append(sent, x)
  <2>1. Len(more) = Len(sent) + 1 /\ \A i \in 1..Len(sent) : more[i] = sent[i]
    BY AppendProperties
  <2> HIDE DEF more
  <2>2. QED
    BY <1>1, <2>1 DEF Leads
<1>3. ASSUME Len(got) < Len(sent) PROVE Leads(Append(got, sent[Len(got) + 1]), sent)
  <2> DEFINE x == sent[Len(got) + 1]
             more == Append(got, x)
  <2>1. x \in S
    BY <1>1, <1>3
  <2>2. /\ Len(more) = Len(got) + 1 /\ more[Len(got) + 1] = x
        /\ \A i \in 1..Len(got) : more[i] = got[i]
    BY <2>1, AppendProperties
  <2> HIDE DEF more
  <2>3. \A i \in 1..Len(more) : more[i] = sent[i]
    BY <1>1, <2>2
  <2>4. QED
    BY <1>1, <1>3, <2>2, <2>3 DEF Leads, more
<1>4. QED
  BY <1>2, <1>3

(***************************************************************************)
(* The requests: those served are the first of those asked, and while the  *)
(* thread receives, the pieces on the way are the stream of all of them.   *)
(***************************************************************************)
InInv ==
    /\ asked \in Seq(Frames) /\ Leads(served, asked)
    /\ pc \notin {"cleanup", "close", "closed"} =>
           Stream(FlattenSeq(served), rbuf, in, pleft) = FlattenSeq(asked)

RequestsMove == [Requests!Send \/ Requests!Receive]_<<asked, served>>

LEMMA InInit == Init => InInv
<1> SUFFICES ASSUME Init PROVE InInv
  OBVIOUS
<1>1. asked = << >> /\ served = << >> /\ rbuf = << >> /\ in = << >> /\ pleft = << >>
  BY DEF Init
<1>2. asked \in Seq(Frames) /\ Leads(served, asked)
  BY <1>1, EmptySeq DEF Leads
<1>3. << >> \o << >> \o << >> \o << >> = << >>
  <2>1. << >> \o << >> = << >>
    BY ConcatEmptySeq, EmptySeq
  <2>2. QED
    BY <2>1, Zenon
<1>4. QED
  BY <1>1, <1>2, <1>3, FlattenEmpty DEF InInv, Stream

LEMMA InStep ==
    ASSUME TypeOK, InInv, [Next]_vars
    PROVE  InInv' /\ RequestsMove
<1> DEFINE U == Units
           Live == pc \notin {"cleanup", "close", "closed"}
           fs == FlattenSeq(served)
<1>1. /\ asked \in Seq(Seq(U)) /\ served \in Seq(Seq(U))
      /\ pleft \in Seq(U) /\ in \in Seq(U) /\ rbuf \in Seq(U)
      /\ pc \in {"recv", "handle", "answer", "cleanup", "close", "closed"}
  BY DEF TypeOK, Units
<1>2. asked \in Seq(Frames) /\ Leads(served, asked) /\ (Live => Stream(fs, rbuf, in, pleft) = FlattenSeq(asked))
  BY DEF InInv
<1>3. fs \in Seq(U) /\ FlattenSeq(asked) \in Seq(U)
  BY <1>1, FlattenType
<1>4. ASSUME UNCHANGED inVars, Live' => Live PROVE InInv' /\ RequestsMove
  BY <1>2, <1>4 DEF InInv, RequestsMove, inVars
<1>5. ASSUME NEW p \in Request, PeerAsk(p) PROVE InInv' /\ RequestsMove
  <2> DEFINE F == Frame(p)
  <2>1. F \in Seq(U) /\ F \in Frames
    BY PacketParts, FrameType DEF Frames
  <2>2. /\ asked' = Append(asked, F) /\ pleft' = F /\ pleft = << >>
        /\ UNCHANGED <<in, rbuf, served, pc>>
    BY <1>5 DEF PeerAsk
  <2> HIDE DEF F
  <2>3. Leads(served, asked') /\ asked' \in Seq(Frames)
    BY <1>1, <1>2, <2>1, <2>2, LeadsOn, AppendProperties
  <2>4. FlattenSeq(asked') = FlattenSeq(asked) \o F
    BY <1>1, <2>1, <2>2, FlattenAppend
  <2>5. Stream(fs, rbuf, in, << >>) \o F = Stream(fs, rbuf, in, F)
    <3>1. ASSUME NEW f \in Seq(U), NEW r \in Seq(U), NEW i \in Seq(U), NEW l \in Seq(U)
          PROVE  Stream(f, r, i, << >>) \o l = Stream(f, r, i, l)
      BY StreamAdd, Zenon
    <3>2. fs \in Seq(U) /\ rbuf \in Seq(U) /\ in \in Seq(U) /\ F \in Seq(U)
      BY <1>1, <1>3, <2>1
    <3>3. QED
      BY <3>1, <3>2, Zenon
  <2>6. InInv'
    <3>1. Live => Stream(fs, rbuf, in, F) = FlattenSeq(asked')
      BY <1>2, <2>2, <2>4, <2>5
    <3>2. QED
      BY <2>2, <2>3, <3>1 DEF InInv
  <2>7. Requests!Send
    BY <2>1, <2>2 DEF Requests!Send
  <2>8. QED
    BY <2>6, <2>7 DEF RequestsMove
<1>6. ASSUME NEW n \in 1..InRoom, PeerWrite(n) PROVE InInv' /\ RequestsMove
  <2> DEFINE t == Taken(pleft, n)
             q == Rest(pleft, n)
  <2>1. in' = in \o t /\ pleft' = q /\ UNCHANGED <<asked, rbuf, served, pc>>
    BY <1>6 DEF PeerWrite
  <2>2. n \in 1..Len(pleft)
    <3>1. Len(pleft) \in Int /\ InRoom - Len(in) \in Int
      BY <1>1, UnitsAssumption
    <3>2. QED
      BY <1>6, <3>1, LeastBound DEF PeerWrite
  <2>3. t \in Seq(U) /\ q \in Seq(U) /\ pleft = t \o q
    BY <1>1, <2>2, CutInTwo
  <2> HIDE DEF t, q
  <2>4. Stream(fs, rbuf, in \o t, q) = Stream(fs, rbuf, in, t \o q)
    BY <1>1, <1>3, <2>3, StreamWrite
  <2>5. InInv' /\ UNCHANGED <<asked, served>>
    <3>1. Live => Stream(fs, rbuf, in', pleft') = FlattenSeq(asked)
      BY <1>2, <2>1, <2>3, <2>4
    <3>2. QED
      BY <1>2, <2>1, <3>1 DEF InInv
  <2>6. QED
    BY <2>5 DEF RequestsMove
<1>7. ASSUME NEW n \in 1..InRoom, RecvSome(n) PROVE InInv' /\ RequestsMove
  <2> DEFINE t == Taken(in, n)
             q == Rest(in, n)
             buf == rbuf \o t
  <2>1. /\ in' = q /\ rbuf' = (IF Whole(buf) THEN << >> ELSE buf)
        /\ served' = (IF Whole(buf) THEN Append(served, buf) ELSE served)
        /\ pc = "recv" /\ UNCHANGED <<asked, pleft>>
    BY <1>7 DEF RecvSome
  <2>2. n \in 1..Len(in)
    <3>1. Len(in) \in Int /\ Need(rbuf) \in Int
      BY <1>1, NeedType
    <3>2. QED
      BY <1>7, <3>1, LeastBound DEF RecvSome
  <2>3. t \in Seq(U) /\ q \in Seq(U) /\ in = t \o q
    BY <1>1, <2>2, CutInTwo
  <2>4. buf \in Seq(U)
    BY <1>1, <2>3, ConcatProperties
  <2> HIDE DEF t, q
  <2>5. /\ Stream(fs, buf, q, pleft) = FlattenSeq(asked)
        /\ Stream(fs \o buf, << >>, q, pleft) = FlattenSeq(asked)
    <3>1. /\ Stream(fs, rbuf \o t, q, pleft) = Stream(fs, rbuf, t \o q, pleft)
          /\ Stream(fs \o (rbuf \o t), << >>, q, pleft) = Stream(fs, rbuf, t \o q, pleft)
      BY <1>1, <1>3, <2>3, StreamRead
    <3>2. Stream(fs, rbuf, t \o q, pleft) = FlattenSeq(asked)
      BY <1>2, <2>1, <2>3
    <3>3. QED
      BY <3>1, <3>2
  <2> HIDE DEF buf
  <2>6. CASE ~ Whole(buf)
    <3>1. rbuf' = buf /\ served' = served /\ asked' = asked
      BY <2>1, <2>6
    <3>2. Stream(fs, rbuf', in', pleft') = FlattenSeq(asked)
      BY <2>1, <2>5, <3>1
    <3>3. QED
      BY <1>2, <3>1, <3>2 DEF InInv, RequestsMove
  <2>7. CASE Whole(buf)
    <3>1. rbuf' = << >> /\ served' = Append(served, buf) /\ asked' = asked
      BY <2>1, <2>7
    <3>2. FlattenSeq(served') = fs \o buf
      BY <1>1, <2>4, <3>1, FlattenAppend
    <3>3. Stream(FlattenSeq(served'), rbuf', in', pleft') = FlattenSeq(asked)
      BY <2>1, <2>5, <3>1, <3>2
    <3>4. Starts(FlattenSeq(asked), fs, buf)
      <4>1. Starts(Stream(fs, buf, q, pleft) \o << >>, fs, buf)
        BY <1>1, <1>3, <2>3, <2>4, EmptySeq, StreamSplit
      <4>2. FlattenSeq(asked) \o << >> = FlattenSeq(asked)
        BY <1>3, ConcatEmptySeq
      <4>3. QED
        BY <2>5, <4>1, <4>2
    <3>5. Len(served) < Len(asked) /\ buf = asked[Len(served) + 1]
      BY <1>1, <1>2, <2>4, <2>7, <3>4, NextPacket
    <3>6. Leads(served', asked)
      BY <1>1, <1>2, <3>1, <3>5, LeadsOn
    <3>7. InInv'
      BY <1>2, <3>1, <3>3, <3>6 DEF InInv
    <3>8. Requests!Receive
      BY <3>1, <3>5 DEF Requests!Receive
    <3>9. QED
      BY <3>7, <3>8 DEF RequestsMove
  <2>8. QED
    BY <2>6, <2>7
<1>8. CASE RecvFail
  BY <1>2, <1>8 DEF RecvFail, InInv, RequestsMove
<1>9. CASE UNCHANGED vars
  BY <1>4, <1>9 DEF vars
<1>10. CASE (\E n \in 1..OutRoom : PeerRead(n)) \/ PeerEnd \/ PeerLeave \/ Hangup \/ Shutdown
  BY <1>4, <1>10 DEF PeerRead, PeerEnd, PeerLeave, Hangup, Shutdown
<1>11. CASE Answering \/ Notify \/ Cleanup \/ Close
  BY <1>4, <1>11 DEF Answering, Ignore, Answer, Notify, Note, Cleanup, Close
<1>12. CASE \E t \in Threads : Sending(t)
  BY <1>4, <1>12 DEF Sending, SendSome, SendFail, Unlock
<1>13. QED
  BY <1>5, <1>6, <1>7, <1>8, <1>9, <1>10, <1>11, <1>12 DEF Next, Peer, Receiving

-----------------------------------------------------------------------------
\* What the thread that holds the mutex has left to send.
BeingSent == IF holder = NoOne THEN << >> ELSE left[holder]
OutStream == Stream(FlattenSeq(heard), pbuf, out, BeingSent)

(***************************************************************************)
(* The messages: those heard are the first of those told.  As long as the  *)
(* peer is there, the pieces on the way are the stream of all of them, but *)
(* for what a sender dropped after the descriptor was closed: no thread    *)
(* begins to send after that, so it is the end of the stream.              *)
(***************************************************************************)
OutInv ==
    /\ told \in Seq(Frames) /\ Leads(heard, told)
    /\ ~gone => \E lost \in Seq(Units) :
           /\ FlattenSeq(told) = OutStream \o lost
           /\ pc # "closed" => lost = << >>

MessagesMove == [Messages!Send \/ Messages!Receive]_<<told, heard>>

LEMMA OutInit == Init => OutInv
<1> SUFFICES ASSUME Init PROVE OutInv
  OBVIOUS
<1>1. told = << >> /\ heard = << >> /\ pbuf = << >> /\ out = << >> /\ BeingSent = << >>
  BY DEF Init, BeingSent
<1>2. told \in Seq(Frames) /\ Leads(heard, told)
  BY <1>1, EmptySeq DEF Leads
<1>3. << >> \o << >> = << >> /\ << >> \in Seq(Units)
  BY ConcatEmptySeq, EmptySeq
<1>4. OutStream = << >>
  BY <1>1, <1>3, FlattenEmpty, Zenon DEF OutStream, Stream
<1>5. FlattenSeq(told) = OutStream \o << >>
  BY <1>1, <1>3, <1>4, FlattenEmpty
<1>6. QED
  BY <1>2, <1>3, <1>5 DEF OutInv

\* A thread locks the mutex and begins to send.
LEMMA BeginOut ==
    ASSUME TypeOK, OutInv, NEW t \in Threads, NEW p \in Packet, Begin(t, p),
           UNCHANGED <<heard, pbuf, out, gone>>, pc' # "closed"
    PROVE  OutInv' /\ Messages!Send
<1> DEFINE U == Units
           F == Frame(p)
           fh == FlattenSeq(heard)
<1>1. /\ told \in Seq(Seq(U)) /\ heard \in Seq(Seq(U)) /\ out \in Seq(U) /\ pbuf \in Seq(U)
      /\ told \in Seq(Frames) /\ Leads(heard, told) /\ fh \in Seq(U)
  BY FlattenType DEF TypeOK, OutInv, Units
<1>2. F \in Seq(U) /\ F \in Frames
  BY FrameType DEF Frames
<1>3. /\ holder = NoOne /\ told' = Append(told, F) /\ holder' = t /\ left'[t] = F /\ pc # "closed"
  BY DEF Begin, TypeOK
<1>4. BeingSent = << >> /\ BeingSent' = F
  BY <1>3, ThreadsAssumption DEF BeingSent, Threads
<1> HIDE DEF F
<1>5. told' \in Seq(Frames) /\ Leads(heard', told')
  BY <1>1, <1>2, <1>3, LeadsOn, AppendProperties
<1>6. ASSUME ~gone' PROVE FlattenSeq(told') = OutStream' \o << >>
  <2>1. FlattenSeq(told) = OutStream
    <3>1. FlattenSeq(told) = OutStream \o << >>
      BY <1>3, <1>6 DEF OutInv
    <3>2. OutStream \in Seq(U)
      BY <1>1, <1>4, EmptySeq, StreamType DEF OutStream
    <3>3. QED
      BY <3>1, <3>2, ConcatEmptySeq
  <2>2. FlattenSeq(told') = FlattenSeq(told) \o F
    BY <1>1, <1>2, <1>3, FlattenAppend
  <2>3. OutStream = Stream(fh, pbuf, out, << >>) /\ OutStream' = Stream(fh, pbuf, out, F)
    BY <1>4 DEF OutStream
  <2>4. Stream(fh, pbuf, out, << >>) \o F = Stream(fh, pbuf, out, F)
    <3>1. ASSUME NEW f \in Seq(U), NEW r \in Seq(U), NEW i \in Seq(U), NEW l \in Seq(U)
          PROVE  Stream(f, r, i, << >>) \o l = Stream(f, r, i, l)
      BY StreamAdd, Zenon
    <3>2. QED
      BY <1>1, <1>2, <3>1
  <2>5. FlattenSeq(told') = OutStream'
    BY <2>1, <2>2, <2>3, <2>4
  <2>6. OutStream' \in Seq(U)
    BY <1>1, <1>2, <2>3, StreamType
  <2>7. QED
    BY <2>5, <2>6, ConcatEmptySeq
<1>7. OutInv'
  BY <1>5, <1>6, EmptySeq DEF OutInv
<1>8. Messages!Send
  BY <1>2, <1>3 DEF Messages!Send
<1>9. QED
  BY <1>7, <1>8

LEMMA OutStep ==
    ASSUME TypeOK, OutInv, [Next]_vars
    PROVE  OutInv' /\ MessagesMove
<1> DEFINE U == Units
           fh == FlattenSeq(heard)
<1>1. /\ told \in Seq(Seq(U)) /\ heard \in Seq(Seq(U)) /\ out \in Seq(U) /\ pbuf \in Seq(U)
      /\ left \in [Threads -> Seq(U)] /\ holder \in Threads \cup {NoOne}
      /\ \A t \in Threads : left[t] # << >> <=> holder = t
  BY DEF TypeOK, Units
<1>2. told \in Seq(Frames) /\ Leads(heard, told) /\ fh \in Seq(U) /\ BeingSent \in Seq(U)
  BY <1>1, FlattenType, EmptySeq DEF OutInv, BeingSent
<1>3. ASSUME UNCHANGED <<told, left, holder, out, pbuf, heard, gone>>, pc' # "closed" => pc # "closed"
      PROVE  OutInv' /\ MessagesMove
  <2>1. OutStream' = OutStream
    BY <1>3 DEF OutStream, BeingSent
  <2>2. ASSUME ~gone'
        PROVE  \E lost \in Seq(Units) :
                   FlattenSeq(told') = OutStream' \o lost /\ (pc' # "closed" => lost = << >>)
    BY <1>3, <2>1, <2>2 DEF OutInv
  <2>3. QED
    BY <1>2, <1>3, <2>2 DEF OutInv, MessagesMove
<1>4. ASSUME NEW n \in 1..OutRoom, PeerRead(n) PROVE OutInv' /\ MessagesMove
  <2> DEFINE t == Taken(out, n)
             q == Rest(out, n)
             buf == pbuf \o t
  <2>1. /\ out' = q /\ pbuf' = (IF Whole(buf) THEN << >> ELSE buf)
        /\ heard' = (IF Whole(buf) THEN Append(heard, buf) ELSE heard)
        /\ ~gone /\ UNCHANGED <<told, left, holder, gone, pc>>
    BY <1>4 DEF PeerRead, flags
  <2>2. n \in 1..Len(out)
    <3>1. Len(out) \in Int /\ Need(pbuf) \in Int
      BY <1>1, NeedType
    <3>2. QED
      BY <1>4, <3>1, LeastBound DEF PeerRead
  <2>3. t \in Seq(U) /\ q \in Seq(U) /\ out = t \o q
    BY <1>1, <2>2, CutInTwo
  <2>4. buf \in Seq(U)
    BY <1>1, <2>3, ConcatProperties
  <2> HIDE DEF t, q
  <2>5. PICK lost \in Seq(U) : FlattenSeq(told) = OutStream \o lost /\ (pc # "closed" => lost = << >>)
    BY <2>1 DEF OutInv
  <2>6. BeingSent' = BeingSent
    BY <2>1 DEF BeingSent
  <2>7. /\ Stream(fh, buf, q, BeingSent) = OutStream
        /\ Stream(fh \o buf, << >>, q, BeingSent) = OutStream
    BY <1>1, <1>2, <2>3, StreamRead DEF OutStream
  <2> HIDE DEF buf
  <2>8. CASE ~ Whole(buf)
    <3>1. pbuf' = buf /\ heard' = heard /\ told' = told
      BY <2>1, <2>8
    <3>2. OutStream' = OutStream
      BY <2>1, <2>6, <2>7, <3>1 DEF OutStream
    <3>3. QED
      BY <1>2, <2>1, <2>5, <3>1, <3>2 DEF OutInv, MessagesMove
  <2>9. CASE Whole(buf)
    <3>1. pbuf' = << >> /\ heard' = Append(heard, buf) /\ told' = told
      BY <2>1, <2>9
    <3>2. FlattenSeq(heard') = fh \o buf
      BY <1>1, <2>4, <3>1, FlattenAppend
    <3>3. OutStream' = OutStream
      BY <2>1, <2>6, <2>7, <3>1, <3>2 DEF OutStream
    <3>4. Starts(FlattenSeq(told), fh, buf)
      <4>1. Starts(Stream(fh, buf, q, BeingSent) \o lost, fh, buf)
        BY <1>2, <2>3, <2>4, StreamSplit
      <4>2. QED
        BY <2>5, <2>7, <4>1
    <3>5. Len(heard) < Len(told) /\ buf = told[Len(heard) + 1]
      BY <1>1, <1>2, <2>4, <2>9, <3>4, NextPacket
    <3>6. Leads(heard', told)
      BY <1>1, <1>2, <3>1, <3>5, LeadsOn
    <3>7. OutInv'
      BY <1>2, <2>1, <2>5, <3>1, <3>3, <3>6 DEF OutInv
    <3>8. Messages!Receive
      BY <3>1, <3>5 DEF Messages!Receive
    <3>9. QED
      BY <3>7, <3>8 DEF MessagesMove
  <2>10. QED
    BY <2>8, <2>9
<1>5. CASE PeerLeave
  BY <1>2, <1>5 DEF PeerLeave, OutInv, MessagesMove, outVars, peerIn
<1>6. ASSUME NEW t \in Threads, NEW s \in NoteSizes, Note(t, s) PROVE OutInv' /\ MessagesMove
  <2>1. pc' # "closed" /\ UNCHANGED <<heard, pbuf, out, gone>>
    BY <1>6 DEF Note, Begin, peerIn, flags
  <2>2. QED
    BY <1>6, <2>1, PacketParts, BeginOut DEF Note, MessagesMove
<1>7. ASSUME NEW s \in AnswerSizes, Answer(s) PROVE OutInv' /\ MessagesMove
  <2>1. pc' # "closed" /\ UNCHANGED <<heard, pbuf, out, gone>>
    BY <1>7 DEF Answer, peerIn, flags
  <2>2. QED
    BY <1>7, <2>1, PacketParts, BeginOut DEF Answer, MessagesMove, Threads
<1>8. ASSUME NEW t \in Threads, NEW n \in 1..OutRoom, SendSome(t, n) PROVE OutInv' /\ MessagesMove
  <2> DEFINE u == Taken(left[t], n)
             q == Rest(left[t], n)
  <2>1. /\ out' = out \o u /\ left'[t] = q
        /\ holder' = (IF n = Len(left[t]) THEN NoOne ELSE holder)
        /\ (pc' # "closed" => pc # "closed") /\ UNCHANGED <<told, heard, pbuf, gone>>
    BY <1>1, <1>8 DEF SendSome, Unlock, peerIn, flags
  <2>2. left[t] \in Seq(U) /\ n \in 1..Len(left[t])
    <3>1. left[t] \in Seq(U) /\ Len(left[t]) \in Int /\ OutRoom - Len(out) \in Int
      BY <1>1, UnitsAssumption
    <3>2. QED
      BY <1>8, <3>1, LeastBound DEF SendSome
  <2>3. u \in Seq(U) /\ q \in Seq(U) /\ left[t] = u \o q /\ Len(q) = Len(left[t]) - n
    BY <2>2, CutInTwo
  <2> HIDE DEF u, q
  <2>4. holder = t /\ t # NoOne
    <3>1. left[t] # << >>
      BY <2>2, EmptySeq
    <3>2. QED
      BY <1>1, <3>1, ThreadsAssumption DEF Threads
  <2>5. BeingSent = left[t] /\ BeingSent' = q
    <3>1. n = Len(left[t]) => q = << >>
      BY <2>2, <2>3, EmptySeq
    <3>2. QED
      BY <2>1, <2>4, <3>1 DEF BeingSent
  <2>6. Stream(fh, pbuf, out \o u, q) = Stream(fh, pbuf, out, u \o q)
    BY <1>1, <1>2, <2>3, StreamWrite
  <2>7. OutStream' = OutStream
    BY <2>1, <2>3, <2>5, <2>6 DEF OutStream
  <2>8. QED
    BY <1>2, <2>1, <2>7 DEF OutInv, MessagesMove
<1>9. ASSUME NEW t \in Threads, SendFail(t) PROVE OutInv' /\ MessagesMove
  <2>1. /\ left[t] # << >> /\ holder' = NoOne /\ UNCHANGED <<told, heard, pbuf, out, gone>>
        /\ (gone \/ (pc = "closed" /\ pc' = "closed"))
    BY <1>9 DEF SendFail, Unlock, peerIn, flags
  <2>2. BeingSent = left[t] /\ BeingSent' = << >>
    BY <1>1, <2>1, ThreadsAssumption DEF BeingSent, Threads
  <2>3. CASE gone
    BY <1>2, <2>1, <2>3 DEF OutInv, MessagesMove
  <2>4. CASE ~gone
    <3>1. PICK lost \in Seq(U) : FlattenSeq(told) = OutStream \o lost
      BY <2>4 DEF OutInv
    <3>2. Stream(fh, pbuf, out, BeingSent) \o lost = Stream(fh, pbuf, out, << >>) \o (BeingSent \o lost)
      <4>1. Drops(fh, pbuf, out, BeingSent, lost)
        BY <1>1, <1>2, StreamDrop
      <4>2. QED
        BY <4>1 DEF Drops
    <3>3. FlattenSeq(told') = OutStream' \o (BeingSent \o lost)
      BY <2>1, <2>2, <3>1, <3>2 DEF OutStream
    <3>4. BeingSent \o lost \in Seq(U)
      BY <1>2, ConcatProperties
    <3>5. QED
      BY <1>2, <2>1, <2>4, <3>3, <3>4 DEF OutInv, MessagesMove
  <2>5. QED
    BY <2>3, <2>4
<1>10. CASE UNCHANGED vars
  BY <1>3, <1>10 DEF vars, outVars, peerIn, flags
<1>11. CASE (\E p \in Request : PeerAsk(p)) \/ (\E n \in 1..InRoom : PeerWrite(n)) \/ PeerEnd
            \/ Hangup \/ Shutdown
  BY <1>3, <1>11 DEF PeerAsk, PeerWrite, PeerEnd, Hangup, Shutdown, outVars, peerIn, flags
<1>12. CASE Receiving \/ Ignore \/ Cleanup \/ Close
  BY <1>3, <1>12 DEF Receiving, RecvSome, RecvFail, Ignore, Cleanup, Close, outVars, peerIn, flags
<1>13. QED
  BY <1>4, <1>5, <1>6, <1>7, <1>8, <1>9, <1>10, <1>11, <1>12
     DEF Next, Peer, Answering, Notify, Sending

-----------------------------------------------------------------------------
ConnInv == TypeOK /\ InInv /\ OutInv

LEMMA ConnStep == ConnInv /\ [Next]_vars => ConnInv' /\ RequestsMove /\ MessagesMove
BY TypeStep, InStep, OutStep DEF ConnInv

LEMMA ConnInvariant == Spec => []ConnInv
<1>1. Init => ConnInv
  BY InitType, InInit, OutInit DEF ConnInv
<1>2. ConnInv /\ [Next]_vars => ConnInv'
  BY ConnStep
<1>3. QED
  BY <1>1, <1>2, PTL DEF Spec

(***************************************************************************)
(* Nothing is lost, doubled or mixed up on the way: the units under way    *)
(* are those that were sent and have not been delivered, in their order.   *)
(* (proto_send_packet and proto_recv_packet, src/src/protocol.c, under the *)
(* mutex of client_send_packet.)                                           *)
(***************************************************************************)
THEOREM ConnectionNothingLost == Spec => []NothingLost
<1>1. ConnInv => NothingLost
  <2> SUFFICES ASSUME ConnInv PROVE NothingLost
    OBVIOUS
  <2>1. ASSUME ~gone, pc # "closed" PROVE OutStream = FlattenSeq(told)
    <3>1. FlattenSeq(told) = OutStream \o << >>
      BY <2>1 DEF ConnInv, OutInv
    <3>2. OutStream \in Seq(Units)
      <4>1. FlattenSeq(heard) \in Seq(Units) /\ pbuf \in Seq(Units) /\ out \in Seq(Units)
        BY FlattenType DEF ConnInv, TypeOK, Units
      <4>2. BeingSent \in Seq(Units)
        BY EmptySeq DEF ConnInv, TypeOK, BeingSent, Units
      <4>3. QED
        BY <4>1, <4>2, StreamType DEF OutStream
    <3>3. QED
      BY <3>1, <3>2, ConcatEmptySeq
  <2>2. QED
    BY <2>1 DEF ConnInv, InInv, NothingLost, OutStream, BeingSent, Stream
<1>2. QED
  BY <1>1, ConnInvariant, PTL

\* The requests of a peer are served whole and in order, none of them twice,
\* and one that was cut off is not served (proto_recv_packet).
THEOREM ConnectionRequests == Spec => ImplementsRequests
<1>1. Init => Requests!CInit
  BY DEF Init, Requests!CInit
<1>2. ConnInv /\ [Next]_vars => RequestsMove
  BY ConnStep
<1>3. QED
  BY <1>1, <1>2, ConnInvariant, PTL DEF Spec, ImplementsRequests, Requests!CSpec, RequestsMove

\* What the threads send to a client arrives packet by packet, in the order
\* in which they got the client's mutex (client_send_packet).
THEOREM ConnectionMessages == Spec => ImplementsMessages
<1>1. Init => Messages!CInit
  BY DEF Init, Messages!CInit
<1>2. ConnInv /\ [Next]_vars => MessagesMove
  BY ConnStep
<1>3. QED
  BY <1>1, <1>2, ConnInvariant, PTL DEF Spec, ImplementsMessages, Messages!CSpec, MessagesMove
=============================================================================
