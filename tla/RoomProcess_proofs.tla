------------------------- MODULE RoomProcess_proofs --------------------------
(***************************************************************************)
(* Proofs about RoomProcess and the channel it is composed with, for every *)
(* number of connections, attempts and heartbeats.                         *)
(***************************************************************************)
EXTENDS RoomProcess, SequenceTheorems, WellFoundedInduction, TLAPS

-----------------------------------------------------------------------------
(* Induction on numbers, for a set instead of a formula.                   *)

LEMMA Least ==
  ASSUME NEW T \in SUBSET Nat, T # {}
  PROVE  \E x \in T : \A y \in T : x <= y
<1> DEFINE R == OpToRel(<, Nat)
<1>1. IsWellFoundedOn(R, Nat)
  BY NatLessThanWellFounded
<1>2. \A x \in Nat, y \in Nat : <<y, x>> \in R <=> y < x
  BY DEF OpToRel
<1> HIDE DEF R
<1>3. \E x \in T : \A y \in T : ~(<<y, x>> \in R)
  BY <1>1, WFMin
<1>4. PICK x \in T : \A y \in T : ~(<<y, x>> \in R)
  BY <1>3
<1>5. ASSUME NEW y \in T PROVE x <= y
  <2>1. x \in Nat /\ y \in Nat
    OBVIOUS
  <2>2. ~(y < x)
    BY <1>2, <1>4, <2>1
  <2>3. QED
    BY <2>1, <2>2
<1>6. QED
  BY <1>5

\* A set of numbers that holds 0 and the successor of each of its members holds all.
LEMMA SetInduction ==
  ASSUME NEW S, 0 \in S, \A n \in Nat : n \in S => n + 1 \in S
  PROVE  Nat \subseteq S
<1> SUFFICES ASSUME Nat \ S # {} PROVE FALSE
  OBVIOUS
<1>1. PICK x \in Nat \ S : \A y \in Nat \ S : x <= y
  BY Least
<1>2. x # 0 /\ x - 1 \in Nat
  BY <1>1
<1>3. x - 1 \in S
  BY <1>1, <1>2
<1>4. x - 1 + 1 \in S
  BY <1>2, <1>3
<1>5. QED
  BY <1>1, <1>4

-----------------------------------------------------------------------------
(* The messages of a chunk, one after the other.                           *)

\* The states of the server along the way.
Along(s, ms, f, k) ==
  f = [i \in 0..k |-> IF i = 0 THEN s ELSE OnMessage(f[i - 1], ms[i])]

LEMMA AlongExists ==
  ASSUME NEW s, NEW ms, NEW k \in Nat
  PROVE  \E f : Along(s, ms, f, k)
<1> DEFINE S == {n \in Nat : \E f : Along(s, ms, f, n)}
<1>1. 0 \in S
  <2> DEFINE f == [i \in 0..0 |-> s]
  <2>1. Along(s, ms, f, 0)
    BY DEF Along
  <2>2. QED
    BY <2>1
<1>2. ASSUME NEW n \in Nat, n \in S PROVE n + 1 \in S
  <2>1. PICK f : Along(s, ms, f, n)
    BY <1>2
  <2> DEFINE g == [i \in 0..(n + 1) |-> IF i = n + 1 THEN OnMessage(f[n], ms[n + 1]) ELSE f[i]]
  <2>2. \A i \in 0..n : g[i] = f[i]
    OBVIOUS
  <2>3. \A i \in 0..n : f[i] = IF i = 0 THEN s ELSE OnMessage(f[i - 1], ms[i])
    BY <2>1 DEF Along
  <2>4. ASSUME NEW i \in 0..(n + 1)
        PROVE  g[i] = IF i = 0 THEN s ELSE OnMessage(g[i - 1], ms[i])
    <3>1. CASE i = n + 1
      <4>1. g[i] = OnMessage(f[n], ms[n + 1]) /\ i # 0 /\ i - 1 = n /\ n \in 0..n
        BY <3>1
      <4>2. QED
        BY <2>2, <3>1, <4>1
    <3>2. CASE i # n + 1
      <4>1. i \in 0..n /\ (i # 0 => i - 1 \in 0..n)
        BY <3>2
      <4>2. QED
        BY <2>2, <2>3, <4>1
    <3>3. QED
      BY <3>1, <3>2
  <2>5. g = [i \in 0..(n + 1) |-> IF i = 0 THEN s ELSE OnMessage(g[i - 1], ms[i])]
    <3>1. g = [i \in 0..(n + 1) |-> g[i]]
      OBVIOUS
    <3> HIDE DEF g
    <3>2. QED
      BY <2>4, <3>1
  <2>6. Along(s, ms, g, n + 1)
    BY <2>5 DEF Along
  <2>7. QED
    BY <2>6
<1> HIDE DEF S
<1>3. Nat \subseteq S
  BY <1>1, <1>2, SetInduction
<1>4. QED
  BY <1>3 DEF S

\* What every single message preserves, all of them do.
LEMMA AfterAllKeeps ==
  ASSUME NEW X, NEW s \in X, NEW ms, Len(ms) \in Nat,
         \A x \in X : \A m : OnMessage(x, m) \in X
  PROVE  AfterAll(s, ms) \in X
<1> DEFINE f == CHOOSE f : Along(s, ms, f, Len(ms))
           S == {n \in Nat : n <= Len(ms) => f[n] \in X}
<1>1. Along(s, ms, f, Len(ms))
  BY AlongExists
<1>2. AfterAll(s, ms) = f[Len(ms)]
  BY DEF AfterAll, Along
<1> HIDE DEF f
<1>3. \A i \in 0..Len(ms) : f[i] = IF i = 0 THEN s ELSE OnMessage(f[i - 1], ms[i])
  BY <1>1 DEF Along
<1>4. 0 \in S
  BY <1>3
<1>5. ASSUME NEW n \in Nat, n \in S PROVE n + 1 \in S
  <2> SUFFICES ASSUME n + 1 <= Len(ms) PROVE f[n + 1] \in X
    OBVIOUS
  <2>1. n + 1 \in 0..Len(ms) /\ n + 1 # 0 /\ n + 1 - 1 = n /\ n <= Len(ms)
    OBVIOUS
  <2>2. f[n + 1] = OnMessage(f[n], ms[n + 1])
    BY <1>3, <2>1
  <2>3. f[n] \in X
    BY <1>5, <2>1
  <2>4. QED
    BY <2>2, <2>3
<1> HIDE DEF S
<1>6. Nat \subseteq S
  BY <1>4, <1>5, SetInduction
<1>7. QED
  BY <1>2, <1>6 DEF S

-----------------------------------------------------------------------------
(* The parser returns messages and keeps bytes, whatever it is fed.        *)

Message == {"token", "ready", "beat", "stopped"}
Byte == 1..4

\* Both kinds of sequences, with their elements named, as the provers find them best.
LEMMA MessagesAssociate ==
  \A s, t, u \in Seq(Message) : (s \o t) \o u = s \o (t \o u)
BY ConcatAssociative

LEMMA BytesAssociate ==
  \A s, t, u \in Seq(Byte) : (s \o t) \o u = s \o (t \o u)
BY ConcatAssociative

LEMMA FrameType ==
  ASSUME NEW m \in Message
  PROVE  Frame(m) \in Seq(Byte)
<1>1. Size[m] \in 1..2 /\ Code[m] \in Byte
  BY DEF Message, Size, Code, Byte
<1>2. <<Size[m], Size[m]>> \in Seq(Byte)
  BY <1>1 DEF Byte
<1>3. [i \in 1..Size[m] |-> Code[m]] \in Seq(Byte)
  BY <1>1, SeqDef
<1>4. QED
  BY <1>2, <1>3, ConcatProperties DEF Frame

\* What the loops of Frames and Rest compute from position a on, up to the end of b.
FramesFrom(b, f, a) ==
  f = [i \in a..(Len(b) + 1) |->
         IF Whole(b, i) THEN <<Alphabet[b[EndOf(b, i)]]>> \o f[EndOf(b, i) + 1] ELSE <<>>]

RestFrom(b, f, a) ==
  f = [i \in a..(Len(b) + 1) |->
         IF Whole(b, i) THEN f[EndOf(b, i) + 1] ELSE SubSeq(b, i, Len(b))]

\* The loop goes forward, and reads inside the buffer.
LEMMA LoopAdvances ==
  ASSUME NEW b \in Seq(Byte), NEW i \in 1..(Len(b) + 1), Whole(b, i)
  PROVE  /\ EndOf(b, i) \in 1..Len(b)
         /\ EndOf(b, i) + 1 \in (i + 1)..(Len(b) + 1)
         /\ b[i] \in Byte
         /\ i \in 1..Len(b)
<1>1. Len(b) \in Nat /\ i \in Nat /\ i >= 1
  OBVIOUS
<1>2. i + 1 <= Len(b)
  BY <1>1 DEF Whole, Header
<1>3. i \in 1..Len(b)
  BY <1>1, <1>2
<1>4. b[i] \in Byte
  BY <1>3, ElementOfSeq
<1>5. b[i] \in Nat /\ b[i] >= 1 /\ EndOf(b, i) = i + 1 + b[i]
  BY <1>1, <1>4 DEF Byte, EndOf, Header
<1>6. EndOf(b, i) <= Len(b)
  BY DEF Whole
<1>7. QED
  BY <1>1, <1>3, <1>4, <1>5, <1>6

LEMMA FramesExtend ==
  ASSUME NEW b \in Seq(Byte), NEW a \in 1..Len(b), NEW f, FramesFrom(b, f, a + 1)
  PROVE  \E g : FramesFrom(b, g, a)
<1> DEFINE N == Len(b) + 1
           step(h, i) == IF Whole(b, i) THEN <<Alphabet[b[EndOf(b, i)]]>> \o h[EndOf(b, i) + 1]
                         ELSE <<>>
           g == [i \in a..N |-> IF i = a THEN step(f, i) ELSE f[i]]
<1>1. Len(b) \in Nat /\ N \in Nat /\ a \in Nat /\ a >= 1 /\ a <= N
  OBVIOUS
<1>2. f = [i \in (a + 1)..N |-> step(f, i)]
  BY DEF FramesFrom
<1> HIDE DEF step, N
<1>3. \A i \in (a + 1)..N : i \in a..N /\ i # a
  BY <1>1
<1>4. \A i \in a..N : g[i] = step(f, i)
  BY <1>2, <1>1
<1>5. \A i \in (a + 1)..N : g[i] = f[i]
  BY <1>3
<1>6. ASSUME NEW i \in a..N PROVE g[i] = step(g, i)
  <2>1. g[i] = step(f, i)
    BY <1>4
  <2>2. ASSUME Whole(b, i) PROVE g[EndOf(b, i) + 1] = f[EndOf(b, i) + 1]
    <3>1. i \in 1..N
      BY <1>1
    <3>2. EndOf(b, i) + 1 \in (i + 1)..N
      BY <2>2, <3>1, LoopAdvances DEF N
    <3>3. EndOf(b, i) + 1 \in (a + 1)..N
      BY <1>1, <3>1, <3>2
    <3> HIDE DEF g
    <3>4. QED
      BY <1>5, <3>3
  <2> HIDE DEF g
  <2>3. QED
    BY <2>1, <2>2 DEF step
<1>7. g = [i \in a..N |-> g[i]]
  OBVIOUS
<1> HIDE DEF g
<1>8. g = [i \in a..N |-> step(g, i)]
  BY <1>6, <1>7
<1>9. FramesFrom(b, g, a)
  BY <1>8 DEF FramesFrom, step, N
<1>10. QED
  BY <1>9

LEMMA FramesExist ==
  ASSUME NEW b \in Seq(Byte)
  PROVE  \E f : FramesFrom(b, f, 1)
<1> DEFINE S == {k \in Nat : \A a \in 1..(Len(b) + 1) :
                                a + k = Len(b) + 1 => \E f : FramesFrom(b, f, a)}
<1>1. Len(b) \in Nat
  OBVIOUS
<1>2. 0 \in S
  <2> SUFFICES \E f : FramesFrom(b, f, Len(b) + 1)
    BY <1>1
  <2> DEFINE f == [i \in (Len(b) + 1)..(Len(b) + 1) |-> <<>>]
  <2>1. \A i \in (Len(b) + 1)..(Len(b) + 1) : ~Whole(b, i)
    BY <1>1 DEF Whole, Header
  <2>2. FramesFrom(b, f, Len(b) + 1)
    BY <2>1 DEF FramesFrom
  <2>3. QED
    BY <2>2
<1>3. ASSUME NEW k \in Nat, k \in S PROVE k + 1 \in S
  <2> SUFFICES ASSUME NEW a \in 1..(Len(b) + 1), a + (k + 1) = Len(b) + 1
               PROVE  \E g : FramesFrom(b, g, a)
    OBVIOUS
  <2>1. a \in 1..Len(b) /\ a + 1 \in 1..(Len(b) + 1) /\ (a + 1) + k = Len(b) + 1
    BY <1>1
  <2>2. PICK f : FramesFrom(b, f, a + 1)
    BY <1>3, <2>1
  <2>3. QED
    BY <2>1, <2>2, FramesExtend
<1> HIDE DEF S
<1>4. Nat \subseteq S
  BY <1>2, <1>3, SetInduction
<1>5. Len(b) \in S /\ 1 \in 1..(Len(b) + 1) /\ 1 + Len(b) = Len(b) + 1
  BY <1>1, <1>4
<1>6. QED
  BY <1>5 DEF S

LEMMA RestExtend ==
  ASSUME NEW b \in Seq(Byte), NEW a \in 1..Len(b), NEW f, RestFrom(b, f, a + 1)
  PROVE  \E g : RestFrom(b, g, a)
<1> DEFINE N == Len(b) + 1
           step(h, i) == IF Whole(b, i) THEN h[EndOf(b, i) + 1]
                         ELSE SubSeq(b, i, Len(b))
           g == [i \in a..N |-> IF i = a THEN step(f, i) ELSE f[i]]
<1>1. Len(b) \in Nat /\ N \in Nat /\ a \in Nat /\ a >= 1 /\ a <= N
  OBVIOUS
<1>2. f = [i \in (a + 1)..N |-> step(f, i)]
  BY DEF RestFrom
<1> HIDE DEF step, N
<1>3. \A i \in (a + 1)..N : i \in a..N /\ i # a
  BY <1>1
<1>4. \A i \in a..N : g[i] = step(f, i)
  BY <1>2, <1>1
<1>5. \A i \in (a + 1)..N : g[i] = f[i]
  BY <1>3
<1>6. ASSUME NEW i \in a..N PROVE g[i] = step(g, i)
  <2>1. g[i] = step(f, i)
    BY <1>4
  <2>2. ASSUME Whole(b, i) PROVE g[EndOf(b, i) + 1] = f[EndOf(b, i) + 1]
    <3>1. i \in 1..N
      BY <1>1
    <3>2. EndOf(b, i) + 1 \in (i + 1)..N
      BY <2>2, <3>1, LoopAdvances DEF N
    <3>3. EndOf(b, i) + 1 \in (a + 1)..N
      BY <1>1, <3>1, <3>2
    <3> HIDE DEF g
    <3>4. QED
      BY <1>5, <3>3
  <2> HIDE DEF g
  <2>3. QED
    BY <2>1, <2>2 DEF step
<1>7. g = [i \in a..N |-> g[i]]
  OBVIOUS
<1> HIDE DEF g
<1>8. g = [i \in a..N |-> step(g, i)]
  BY <1>6, <1>7
<1>9. RestFrom(b, g, a)
  BY <1>8 DEF RestFrom, step, N
<1>10. QED
  BY <1>9

LEMMA RestExist ==
  ASSUME NEW b \in Seq(Byte)
  PROVE  \E f : RestFrom(b, f, 1)
<1> DEFINE S == {k \in Nat : \A a \in 1..(Len(b) + 1) :
                                a + k = Len(b) + 1 => \E f : RestFrom(b, f, a)}
<1>1. Len(b) \in Nat
  OBVIOUS
<1>2. 0 \in S
  <2> SUFFICES \E f : RestFrom(b, f, Len(b) + 1)
    BY <1>1
  <2> DEFINE f == [i \in (Len(b) + 1)..(Len(b) + 1) |-> SubSeq(b, i, Len(b))]
  <2>1. \A i \in (Len(b) + 1)..(Len(b) + 1) : ~Whole(b, i)
    BY <1>1 DEF Whole, Header
  <2>2. RestFrom(b, f, Len(b) + 1)
    BY <2>1 DEF RestFrom
  <2>3. QED
    BY <2>2
<1>3. ASSUME NEW k \in Nat, k \in S PROVE k + 1 \in S
  <2> SUFFICES ASSUME NEW a \in 1..(Len(b) + 1), a + (k + 1) = Len(b) + 1
               PROVE  \E g : RestFrom(b, g, a)
    OBVIOUS
  <2>1. a \in 1..Len(b) /\ a + 1 \in 1..(Len(b) + 1) /\ (a + 1) + k = Len(b) + 1
    BY <1>1
  <2>2. PICK f : RestFrom(b, f, a + 1)
    BY <1>3, <2>1
  <2>3. QED
    BY <2>1, <2>2, RestExtend
<1> HIDE DEF S
<1>4. Nat \subseteq S
  BY <1>2, <1>3, SetInduction
<1>5. Len(b) \in S /\ 1 \in 1..(Len(b) + 1) /\ 1 + Len(b) = Len(b) + 1
  BY <1>1, <1>4
<1>6. QED
  BY <1>5 DEF S

LEMMA FramesType ==
  ASSUME NEW b \in Seq(Byte)
  PROVE  Frames(b) \in Seq(Message)
<1> DEFINE f == CHOOSE f : FramesFrom(b, f, 1)
           S == {k \in Nat : \A i \in 1..(Len(b) + 1) :
                             i + k >= Len(b) + 1 => f[i] \in Seq(Message)}
<1>1. FramesFrom(b, f, 1)
  BY FramesExist
<1>2. Frames(b) = f[1]
  BY DEF Frames, FramesFrom
<1> HIDE DEF f
<1>3. \A i \in 1..(Len(b) + 1) :
        f[i] = IF Whole(b, i) THEN <<Alphabet[b[EndOf(b, i)]]>> \o f[EndOf(b, i) + 1] ELSE <<>>
  BY <1>1 DEF FramesFrom
<1>4. Len(b) \in Nat
  OBVIOUS
<1>5. 0 \in S
  <2> SUFFICES ASSUME NEW i \in 1..(Len(b) + 1), i >= Len(b) + 1 PROVE f[i] \in Seq(Message)
    BY <1>4
  <2>1. ~Whole(b, i)
    BY <1>4, LoopAdvances
  <2>2. f[i] = <<>>
    BY <1>3, <2>1
  <2>3. QED
    BY <2>2, EmptySeq
<1>6. ASSUME NEW k \in Nat, k \in S PROVE k + 1 \in S
  <2> SUFFICES ASSUME NEW i \in 1..(Len(b) + 1), i + (k + 1) >= Len(b) + 1
               PROVE  f[i] \in Seq(Message)
    OBVIOUS
  <2>1. CASE Whole(b, i)
    <3> DEFINE j == EndOf(b, i) + 1
    <3>1. j \in (i + 1)..(Len(b) + 1) /\ EndOf(b, i) \in 1..Len(b)
      BY <2>1, LoopAdvances
    <3>2. j \in 1..(Len(b) + 1) /\ j + k >= Len(b) + 1
      BY <1>4, <3>1
    <3>3. f[j] \in Seq(Message)
      BY <1>6, <3>2
    <3>4. Alphabet[b[EndOf(b, i)]] \in Message
      <4>1. b[EndOf(b, i)] \in Byte
        BY <3>1, ElementOfSeq
      <4>2. QED
        BY <4>1 DEF Byte, Alphabet, Message
    <3>5. <<Alphabet[b[EndOf(b, i)]]>> \o f[j] \in Seq(Message)
      BY <3>3, <3>4, ConcatProperties
    <3>6. QED
      BY <1>3, <2>1, <3>5
  <2>2. CASE ~Whole(b, i)
    <3>1. f[i] = <<>>
      BY <1>3, <2>2
    <3>2. QED
      BY <3>1, EmptySeq
  <2>3. QED
    BY <2>1, <2>2
<1> HIDE DEF S
<1>7. Nat \subseteq S
  BY <1>5, <1>6, SetInduction
<1>8. Len(b) \in S /\ 1 \in 1..(Len(b) + 1) /\ 1 + Len(b) >= Len(b) + 1
  BY <1>4, <1>7
<1>9. QED
  BY <1>2, <1>8 DEF S

LEMMA RestType ==
  ASSUME NEW b \in Seq(Byte)
  PROVE  Rest(b) \in Seq(Byte)
<1> DEFINE f == CHOOSE f : RestFrom(b, f, 1)
           S == {k \in Nat : \A i \in 1..(Len(b) + 1) :
                             i + k >= Len(b) + 1 => f[i] \in Seq(Byte)}
<1>1. RestFrom(b, f, 1)
  BY RestExist
<1>2. Rest(b) = f[1]
  BY DEF Rest, RestFrom
<1> HIDE DEF f
<1>3. \A i \in 1..(Len(b) + 1) :
        f[i] = IF Whole(b, i) THEN f[EndOf(b, i) + 1] ELSE SubSeq(b, i, Len(b))
  BY <1>1 DEF RestFrom
<1>4. Len(b) \in Nat
  OBVIOUS
<1>5. \A i \in 1..(Len(b) + 1) : SubSeq(b, i, Len(b)) \in Seq(Byte)
  BY <1>4, SubSeqProperties
<1>6. 0 \in S
  <2> SUFFICES ASSUME NEW i \in 1..(Len(b) + 1), i >= Len(b) + 1 PROVE f[i] \in Seq(Byte)
    BY <1>4
  <2>1. ~Whole(b, i)
    BY <1>4, LoopAdvances
  <2>2. QED
    BY <1>3, <1>5, <2>1
<1>7. ASSUME NEW k \in Nat, k \in S PROVE k + 1 \in S
  <2> SUFFICES ASSUME NEW i \in 1..(Len(b) + 1), i + (k + 1) >= Len(b) + 1
               PROVE  f[i] \in Seq(Byte)
    OBVIOUS
  <2>1. CASE Whole(b, i)
    <3> DEFINE j == EndOf(b, i) + 1
    <3>1. j \in (i + 1)..(Len(b) + 1) /\ EndOf(b, i) \in 1..Len(b)
      BY <2>1, LoopAdvances
    <3>2. j \in 1..(Len(b) + 1) /\ j + k >= Len(b) + 1
      BY <1>4, <3>1
    <3>3. f[j] \in Seq(Byte)
      BY <1>7, <3>2
    <3>4. QED
      BY <1>3, <2>1, <3>3
  <2>2. CASE ~Whole(b, i)
    BY <1>3, <1>5, <2>2
  <2>3. QED
    BY <2>1, <2>2
<1> HIDE DEF S
<1>8. Nat \subseteq S
  BY <1>6, <1>7, SetInduction
<1>9. Len(b) \in S /\ 1 \in 1..(Len(b) + 1) /\ 1 + Len(b) >= Len(b) + 1
  BY <1>4, <1>8
<1>10. QED
  BY <1>2, <1>9 DEF S

-----------------------------------------------------------------------------
(* The channel.                                                            *)

Socket == [room: {"none", "open", "shut"}, host: {"none", "queued", "open", "shut"},
           wire: Seq(Byte), buffer: Seq(Byte), authed: BOOLEAN]

ChannelShape ==
  /\ gated \in BOOLEAN
  /\ listening \in {"no", "yes", "closed"}
  /\ active \in 0..MaxDials
  /\ sock \in [Dials -> Socket]
  /\ attempts \in 0..MaxAttempts

\* Only a connection the listener has let in holds the slot, and it has seen no other.
SlotIsOpen ==
  \A d \in Dials : d = active => sock[d].authed /\ sock[d].host = "open"
UnmadeIsUnseen ==
  \A d \in Dials : sock[d].room = "none" => sock[d].host = "none"

ChannelInv == ChannelShape /\ SlotIsOpen /\ UnmadeIsUnseen

LEMMA ChannelStarts ==
  ChannelInit => ChannelInv
<1>1. Unmade \in Socket
  BY EmptySeq DEF Unmade, Socket
<1>2. QED
  BY <1>1, ChannelAssumption DEF ChannelInit, ChannelInv, ChannelShape, SlotIsOpen, UnmadeIsUnseen,
     Dials, Unmade

LEMMA Connecting ==
  ASSUME ChannelInv, NEW d \in Dials, Connects(d)
  PROVE  ChannelInv'
<1>1. [Unmade EXCEPT !.room = "open", !.host = "queued",
                     !.wire = IF gated THEN Frame("token") ELSE <<>>] \in Socket
  <2>1. Frame("token") \in Seq(Byte) /\ <<>> \in Seq(Byte)
    BY FrameType, EmptySeq DEF Message
  <2>2. (IF gated THEN Frame("token") ELSE <<>>) \in Seq(Byte)
    BY <2>1
  <2> DEFINE w == IF gated THEN Frame("token") ELSE <<>>
  <2> HIDE DEF w
  <2>3. w \in Seq(Byte)
    BY <2>2 DEF w
  <2>4. Unmade \in Socket
    BY EmptySeq DEF Unmade, Socket
  <2>5. \A x \in Socket :
          [x EXCEPT !.room = "open", !.host = "queued", !.wire = w] \in Socket
    BY <2>3 DEF Socket
  <2>6. QED
    BY <2>4, <2>5 DEF w
<1> DEFINE u == [Unmade EXCEPT !.room = "open", !.host = "queued",
                     !.wire = IF gated THEN Frame("token") ELSE <<>>]
<1>2. u.room = "open"
  BY DEF Unmade
<1>3. sock' = [sock EXCEPT ![d] = u] /\ attempts' = 0
      /\ UNCHANGED <<gated, listening, active>>
  BY DEF Connects
<1>4. sock[d].room = "none"
  <2>1. Made = 1..(d - 1)
    BY DEF Connects, Latest
  <2>2. d \notin Made
    BY <2>1 DEF Dials
  <2>3. QED
    BY <2>2 DEF Made
<1>5. d # active
  BY <1>4 DEF ChannelInv, SlotIsOpen, UnmadeIsUnseen
<1> HIDE DEF u
<1>6. u \in Socket
  BY <1>1 DEF u
<1>7. QED
  BY <1>2, <1>3, <1>5, <1>6, ChannelAssumption
     DEF ChannelInv, ChannelShape, SlotIsOpen, UnmadeIsUnseen

\* What changes no more than what is under way on a connection, or shuts the room's end.
LEMMA RoomEnds ==
  ASSUME ChannelInv, UNCHANGED <<gated, listening, active, attempts>>,
         sock' = [d \in Dials |-> sock'[d]],
         \A d \in Dials : /\ sock'[d] \in Socket
                          /\ sock'[d].host = sock[d].host
                          /\ sock'[d].authed = sock[d].authed
                          /\ sock'[d].room = "none" <=> sock[d].room = "none"
  PROVE  ChannelInv'
<1>1. sock' \in [Dials -> Socket]
  OBVIOUS
<1>2. QED
  BY <1>1 DEF ChannelInv, ChannelShape, SlotIsOpen, UnmadeIsUnseen

LEMMA Writing ==
  ASSUME ChannelInv, NEW d \in Dials, NEW m \in Message, Writes(d, m),
         UNCHANGED <<gated, listening, active, attempts>>
  PROVE  ChannelInv'
<1>1. CASE d \in Linked
  <2>1. sock \in [Dials -> Socket] /\ sock[d] \in Socket
    BY DEF ChannelInv, ChannelShape
  <2>2. sock' = [sock EXCEPT ![d] = [sock[d] EXCEPT !.wire = sock[d].wire \o Frame(m)]]
    BY <1>1 DEF Writes
  <2>3. sock[d].wire \o Frame(m) \in Seq(Byte)
    <3>1. sock[d].wire \in Seq(Byte)
      BY <2>1 DEF Socket
    <3>2. QED
      BY <3>1, FrameType, ConcatProperties
  <2> DEFINE u == [sock[d] EXCEPT !.wire = sock[d].wire \o Frame(m)]
  <2>4. u \in Socket /\ u.host = sock[d].host /\ u.authed = sock[d].authed
        /\ u.room = sock[d].room
    BY <2>1, <2>3 DEF Socket
  <2> HIDE DEF u
  <2>5. sock' = [sock EXCEPT ![d] = u]
    BY <2>2 DEF u
  <2>6. \A e \in Dials : sock'[e] = IF e = d THEN u ELSE sock[e]
    BY <2>1, <2>5
  <2>7. sock' = [e \in Dials |-> sock'[e]]
    BY <2>1, <2>5
  <2>8. \A e \in Dials :
          /\ sock'[e] \in Socket
          /\ sock'[e].host = sock[e].host
          /\ sock'[e].authed = sock[e].authed
          /\ sock'[e].room = "none" <=> sock[e].room = "none"
    BY <2>1, <2>4, <2>6
  <2>9. QED
    BY <2>7, <2>8, RoomEnds
<1>2. CASE d \notin Linked
  BY <1>2 DEF Writes, ChannelInv, ChannelShape, SlotIsOpen, UnmadeIsUnseen
<1>3. QED
  BY <1>1, <1>2

LEMMA HangingUp ==
  ASSUME ChannelInv, NEW S \in SUBSET Linked, Hangup(S),
         UNCHANGED <<gated, listening, active, attempts>>
  PROVE  ChannelInv'
<1>1. sock \in [Dials -> Socket]
  BY DEF ChannelInv, ChannelShape
<1>2. PICK cut \in {"none", "half", "all"} :
    sock' = [d \in Dials |->
      IF d \notin S THEN sock[d]
      ELSE [sock[d] EXCEPT !.room = "shut",
              !.wire = CASE cut = "none" -> @
                         [] cut = "half" -> SubSeq(@, 1, Len(@) \div 2)
                         [] cut = "all"  -> <<>>]]
  BY DEF Hangup
<1> DEFINE w(d) == CASE cut = "none" -> sock[d].wire
                     [] cut = "half" -> SubSeq(sock[d].wire, 1, Len(sock[d].wire) \div 2)
                     [] cut = "all"  -> <<>>
<1>3. ASSUME NEW d \in Dials PROVE w(d) \in Seq(Byte)
  <2>1. sock[d].wire \in Seq(Byte)
    BY <1>1 DEF Socket
  <2> DEFINE x == sock[d].wire
  <2> HIDE DEF x
  <2>2. x \in Seq(Byte)
    BY <2>1 DEF x
  <2>3. SubSeq(x, 1, Len(x) \div 2) \in Seq(Byte)
    <3>1. Len(x) \in Nat
      BY <2>2
    <3>2. Len(x) \div 2 \in Int /\ Len(x) \div 2 <= Len(x)
      BY <3>1
    <3>3. \A i \in 1..(Len(x) \div 2) : x[i] \in Byte
      BY <2>2, <3>1, <3>2, ElementOfSeq
    <3>4. QED
      BY <3>2, <3>3, SubSeqProperties
  <2>4. CASE cut = "none"
    BY <2>1, <2>4
  <2>5. CASE cut = "half"
    BY <2>3, <2>5 DEF x
  <2>6. CASE cut = "all"
    BY <2>6, EmptySeq
  <2>7. QED
    BY <2>4, <2>5, <2>6
<1>4. \A d \in Dials : sock'[d] = IF d \notin S THEN sock[d]
                                  ELSE [sock[d] EXCEPT !.room = "shut", !.wire = w(d)]
  BY <1>2
<1>5. sock' = [d \in Dials |-> sock'[d]]
  BY <1>2
<1> HIDE DEF w
<1>6. ASSUME NEW d \in Dials
      PROVE  /\ sock'[d] \in Socket
             /\ sock'[d].host = sock[d].host
             /\ sock'[d].authed = sock[d].authed
             /\ sock'[d].room = "none" <=> sock[d].room = "none"
  <2>1. CASE d \notin S
    BY <1>1, <1>4, <2>1
  <2>2. CASE d \in S
    <3>1. sock[d].room = "open" /\ sock[d] \in Socket
      BY <1>1, <2>2 DEF Linked
    <3>2. sock'[d] = [sock[d] EXCEPT !.room = "shut", !.wire = w(d)]
      BY <1>4, <2>2
    <3>3. w(d) \in Seq(Byte) /\ "shut" \in {"none", "open", "shut"}
      BY <1>3
    <3> DEFINE y == [sock[d] EXCEPT !.room = "shut", !.wire = w(d)]
    <3>4. y \in Socket /\ y.host = sock[d].host /\ y.authed = sock[d].authed /\ y.room = "shut"
      BY <3>1, <3>3 DEF Socket
    <3> HIDE DEF y
    <3>5. QED
      BY <3>1, <3>2, <3>4 DEF y
  <2>3. QED
    BY <2>1, <2>2
<1>7. QED
  BY <1>5, <1>6, RoomEnds

-----------------------------------------------------------------------------

\* One connection becomes y; whatever holds the slot then is open and let in.
LEMMA Listening ==
  ASSUME ChannelInv, UNCHANGED <<gated, listening, attempts>>,
         NEW d \in Dials, NEW y \in Socket, sock' = [sock EXCEPT ![d] = y],
         y.room = sock[d].room, sock[d].host # "none",
         active' \in {0, d, active},
         d = active' => y.authed /\ y.host = "open"
  PROVE  ChannelInv'
<1>1. sock \in [Dials -> Socket] /\ active \in 0..MaxDials /\ d \in 1..MaxDials
  BY DEF ChannelInv, ChannelShape, Dials
<1>2. \A e \in Dials : sock'[e] = IF e = d THEN y ELSE sock[e]
  BY <1>1
<1>3. sock' \in [Dials -> Socket]
  BY <1>1
<1>4. active' \in 0..MaxDials
  BY <1>1, ChannelAssumption
<1>5. 0 \notin Dials
  BY DEF Dials
<1>6. ChannelShape'
  BY <1>3, <1>4 DEF ChannelInv, ChannelShape
<1>7. SlotIsOpen'
  BY <1>2, <1>5 DEF ChannelInv, SlotIsOpen
<1>8. UnmadeIsUnseen'
  BY <1>2 DEF ChannelInv, UnmadeIsUnseen
<1>9. QED
  BY <1>6, <1>7, <1>8 DEF ChannelInv

LEMMA Accepting ==
  ASSUME ChannelInv, NEW d \in Dials, Accepts(d)
  PROVE  ChannelInv'
<1>1. sock \in [Dials -> Socket] /\ sock[d] \in Socket /\ gated \in BOOLEAN
  BY DEF ChannelInv, ChannelShape
<1>2. sock[d].host = "queued" /\ UNCHANGED <<gated, listening, attempts>>
  BY DEF Accepts
<1>3. d # active
  BY <1>2 DEF ChannelInv, SlotIsOpen
<1>4. CASE Closed \/ (~gated /\ ~MayAdopt(d))
  <2> DEFINE y == [[sock[d] EXCEPT !.host = "shut"] EXCEPT !.wire = <<>>]
  <2>1. sock' = [sock EXCEPT ![d].host = "shut", ![d].wire = <<>>] /\ active' = active
    BY <1>4 DEF Accepts
  <2>2. sock' = [sock EXCEPT ![d] = y]
    BY <1>1, <2>1
  <2>3. <<>> \in Seq(Byte)
    BY EmptySeq
  <2>4. y \in Socket /\ y.room = sock[d].room
    BY <1>1, <2>3 DEF Socket
  <2> HIDE DEF y
  <2>5. QED
    BY <1>2, <1>3, <2>1, <2>2, <2>4, Listening
<1>5. CASE ~(Closed \/ (~gated /\ ~MayAdopt(d)))
  <2> DEFINE y == [[sock[d] EXCEPT !.host = "open"] EXCEPT !.authed = ~gated]
  <2>1. sock' = [sock EXCEPT ![d].host = "open", ![d].authed = ~gated]
        /\ active' = IF gated THEN active ELSE d
    BY <1>5 DEF Accepts
  <2>2. sock' = [sock EXCEPT ![d] = y]
    BY <1>1, <2>1
  <2>3. y \in Socket /\ y.room = sock[d].room /\ y.host = "open" /\ y.authed = ~gated
    BY <1>1 DEF Socket
  <2> HIDE DEF y
  <2>4. active' \in {0, d, active}
    BY <2>1
  <2>5. d = active' => y.authed /\ y.host = "open"
    BY <1>1, <1>3, <2>1, <2>3
  <2>6. QED
    BY <1>2, <2>2, <2>3, <2>4, <2>5, Listening
<1>6. QED
  BY <1>4, <1>5

\* The parser is fed bytes, and what it passes on is a sequence.
LEMMA ParsedType ==
  ASSUME ChannelInv, NEW d \in Dials, NEW n \in 1..Len(sock[d].wire)
  PROVE  /\ Parsed(d, n) \in Seq(Byte)
         /\ Len(Messages(d, n)) \in Nat
         /\ SubSeq(sock[d].wire, n + 1, Len(sock[d].wire)) \in Seq(Byte)
<1> DEFINE w == sock[d].wire
           b == sock[d].buffer
           F == Frames(Parsed(d, n))
<1>1. w \in Seq(Byte) /\ b \in Seq(Byte)
  BY DEF ChannelInv, ChannelShape, Socket
<1> HIDE DEF w, b
<1>2. Len(w) \in Nat /\ n \in 1..Len(w) /\ n \in Nat
  BY <1>1 DEF w
<1>3. SubSeq(w, 1, n) \in Seq(Byte)
  <2>1. \A i \in 1..n : w[i] \in Byte
    BY <1>1, <1>2, ElementOfSeq
  <2>2. QED
    BY <1>2, <2>1, SubSeqProperties
<1>4. SubSeq(w, n + 1, Len(w)) \in Seq(Byte)
  <2>1. \A i \in (n + 1)..Len(w) : w[i] \in Byte
    BY <1>1, <1>2, ElementOfSeq
  <2>2. n + 1 \in Int /\ Len(w) \in Int
    BY <1>2
  <2>3. QED
    BY <2>1, <2>2, SubSeqProperties
<1>5. Parsed(d, n) \in Seq(Byte)
  BY <1>1, <1>3, ConcatProperties DEF Parsed, Merged, w, b
<1>6. F \in Seq(Message)
  BY <1>5, FramesType
<1>7. Messages(d, n) = <<>> \/ Messages(d, n) = F \/ (F # <<>> /\ Messages(d, n) = Tail(F))
  BY DEF Messages
<1> HIDE DEF F
<1>8. Messages(d, n) \in Seq(Message)
  <2>1. CASE Messages(d, n) = <<>>
    BY <2>1, EmptySeq
  <2>2. CASE Messages(d, n) = F
    BY <1>6, <2>2
  <2>3. CASE F # <<>> /\ Messages(d, n) = Tail(F)
    BY <1>6, <2>3, HeadTailProperties
  <2>4. QED
    BY <1>7, <2>1, <2>2, <2>3
<1>9. Len(Messages(d, n)) \in Nat
  BY <1>8, LenProperties
<1>10. QED
  BY <1>4, <1>5, <1>9 DEF w

LEMMA Chunking ==
  ASSUME ChannelInv, NEW d \in Dials, NEW n \in 1..Len(sock[d].wire), Chunk(d, n)
  PROVE  ChannelInv'
<1> DEFINE F == Frames(Parsed(d, n))
<1>1. sock \in [Dials -> Socket] /\ sock[d] \in Socket
  BY DEF ChannelInv, ChannelShape
<1>2. sock[d].host = "open" /\ UNCHANGED <<gated, listening, attempts>>
  BY DEF Chunk
<1>3. d = active => sock[d].authed
  BY DEF ChannelInv, SlotIsOpen
<1>4. CASE ~Admitted(d, F)
  <2> DEFINE y == [[[sock[d] EXCEPT !.host = "shut"] EXCEPT !.wire = <<>>] EXCEPT !.buffer = <<>>]
  <2>1. sock' = [sock EXCEPT ![d].host = "shut", ![d].wire = <<>>, ![d].buffer = <<>>]
        /\ active' = active
    BY <1>4 DEF Chunk
  <2>2. sock' = [sock EXCEPT ![d] = y]
    BY <1>1, <2>1
  <2>3. <<>> \in Seq(Byte)
    BY EmptySeq
  <2>4. y \in Socket /\ y.room = sock[d].room
    BY <1>1, <2>3 DEF Socket
  <2>5. d # active
    BY <1>3, <1>4 DEF Admitted
  <2> HIDE DEF y
  <2>6. QED
    BY <1>2, <2>1, <2>2, <2>4, <2>5, Listening
<1>5. CASE Admitted(d, F)
  <2> DEFINE r == Rest(Parsed(d, n))
             w == SubSeq(sock[d].wire, n + 1, Len(sock[d].wire))
             a == sock[d].authed \/ F # <<>>
             y == [[[sock[d] EXCEPT !.buffer = r] EXCEPT !.authed = a] EXCEPT !.wire = w]
  <2>1. /\ sock' = [sock EXCEPT ![d].buffer = Rest(Parsed(d, n)),
                                ![d].authed = @ \/ F # <<>>,
                                ![d].wire = SubSeq(@, n + 1, Len(@))]
        /\ active' = IF sock[d].authed \/ F = <<>> THEN active ELSE d
    BY <1>5 DEF Chunk
  <2>2. r \in Seq(Byte) /\ w \in Seq(Byte)
    BY ParsedType, RestType
  <2>3. sock' = [sock EXCEPT ![d] = y]
    BY <1>1, <2>1
  <2> HIDE DEF r, w
  <2>4. a \in BOOLEAN /\ (sock[d].authed => a) /\ (F # <<>> => a)
    OBVIOUS
  <2> HIDE DEF a, F
  <2>5. y \in Socket /\ y.room = sock[d].room /\ y.host = "open" /\ y.authed = a
    BY <1>1, <1>2, <2>2, <2>4 DEF Socket
  <2> HIDE DEF y
  <2>6. active' \in {0, d, active}
    BY <2>1
  <2>7. d = active' => y.authed /\ y.host = "open"
    BY <1>3, <2>1, <2>4, <2>5
  <2>8. QED
    BY <1>2, <2>3, <2>5, <2>6, <2>7, Listening
<1>6. QED
  BY <1>4, <1>5

LEMMA Hanging ==
  ASSUME ChannelInv, NEW d \in Dials, Hangs(d)
  PROVE  ChannelInv'
<1> DEFINE y == [[sock[d] EXCEPT !.host = "shut"] EXCEPT !.buffer = <<>>]
<1>1. sock \in [Dials -> Socket] /\ sock[d] \in Socket
  BY DEF ChannelInv, ChannelShape
<1>2. sock[d].host = "open" /\ UNCHANGED <<gated, listening, attempts>>
      /\ sock' = [sock EXCEPT ![d].host = "shut", ![d].buffer = <<>>]
      /\ active' = IF active = d THEN 0 ELSE active
  BY DEF Hangs
<1>3. sock' = [sock EXCEPT ![d] = y]
  BY <1>1, <1>2
<1>4. <<>> \in Seq(Byte)
  BY EmptySeq
<1>5. y \in Socket /\ y.room = sock[d].room
  BY <1>1, <1>4 DEF Socket
<1>6. d # active'
  BY <1>2 DEF Dials
<1> HIDE DEF y
<1>7. active' \in {0, d, active}
  BY <1>2
<1>8. QED
  BY <1>2, <1>3, <1>5, <1>6, <1>7, Listening

LEMMA Closing ==
  ASSUME ChannelInv, Close
  PROVE  ChannelInv'
<1>1. sock \in [Dials -> Socket]
  BY DEF ChannelInv, ChannelShape
<1>2. <<>> \in Seq(Byte)
  BY EmptySeq
<1>3. \A x \in Socket : /\ [x EXCEPT !.host = "shut", !.wire = <<>>] \in Socket
                        /\ [x EXCEPT !.host = "shut", !.wire = <<>>].room = x.room
  BY <1>2 DEF Socket
<1>4. \A d \in Dials : sock'[d] = IF d = active THEN [sock[d] EXCEPT !.host = "shut", !.wire = <<>>]
                                  ELSE sock[d]
  BY DEF Close
<1>5. sock' = [d \in Dials |-> sock'[d]]
  BY DEF Close
<1>6. \A d \in Dials : sock'[d] \in Socket /\ sock'[d].room = sock[d].room
  BY <1>1, <1>3, <1>4
<1>7. sock' \in [Dials -> Socket]
  BY <1>5, <1>6
<1>8. active' = 0 /\ 0 \notin Dials /\ listening' = "closed" /\ gated' = gated
      /\ attempts' = attempts
  <2>1. 0 \notin Dials
    BY DEF Dials
  <2>2. QED
    BY <2>1 DEF Close
<1>9. ChannelShape'
  BY <1>7, <1>8, ChannelAssumption DEF ChannelInv, ChannelShape
<1>10. SlotIsOpen'
  BY <1>8 DEF SlotIsOpen
<1>11. \A d \in Dials : sock[d].room = "none" => d # active /\ sock[d].host = "none"
  BY DEF ChannelInv, SlotIsOpen, UnmadeIsUnseen
<1>12. UnmadeIsUnseen'
  BY <1>4, <1>6, <1>11 DEF UnmadeIsUnseen
<1>13. QED
  BY <1>9, <1>10, <1>12 DEF ChannelInv

LEMMA Stopping ==
  ASSUME ChannelInv, NEW d \in Dials, Stops(d)
  PROVE  ChannelInv'
<1>1. sock \in [Dials -> Socket] /\ sock[d] \in Socket
  BY DEF ChannelInv, ChannelShape
<1>2. PICK w \in {sock[d].wire \o Frame("stopped"), sock[d].wire} :
        sock' = [sock EXCEPT ![d].room = "shut", ![d].wire = w]
  BY DEF Stops
<1>3. w \in Seq(Byte)
  <2>1. sock[d].wire \in Seq(Byte) /\ Frame("stopped") \in Seq(Byte)
    BY <1>1, FrameType DEF Socket, Message
  <2>2. sock[d].wire \o Frame("stopped") \in Seq(Byte)
    BY <2>1, ConcatProperties
  <2>3. QED
    BY <1>2, <2>1, <2>2
<1> DEFINE y == [[sock[d] EXCEPT !.room = "shut"] EXCEPT !.wire = w]
<1>4. sock' = [sock EXCEPT ![d] = y]
  BY <1>1, <1>2
<1>5. sock[d].room = "open"
  BY DEF Stops, Linked
<1>6. y \in Socket /\ y.room = "shut" /\ y.host = sock[d].host /\ y.authed = sock[d].authed
  BY <1>1, <1>3 DEF Socket
<1> HIDE DEF y
<1>7. \A e \in Dials : sock'[e] = IF e = d THEN y ELSE sock[e]
  BY <1>1, <1>4
<1>8. sock' = [e \in Dials |-> sock'[e]]
  BY <1>1, <1>4
<1>9. \A e \in Dials :
        /\ sock'[e] \in Socket
        /\ sock'[e].host = sock[e].host
        /\ sock'[e].authed = sock[e].authed
        /\ sock'[e].room = "none" <=> sock[e].room = "none"
  BY <1>1, <1>5, <1>6, <1>7
<1>10. UNCHANGED <<gated, listening, active, attempts>>
  BY DEF Stops
<1>11. QED
  BY <1>8, <1>9, <1>10, RoomEnds

-----------------------------------------------------------------------------
(* The process.                                                            *)

ProcessShape ==
  /\ spawn \in {"no", "pending", "done", "rejected"}
  /\ child \in {"none", "failing", "running", "dead"}
  /\ room \in {"booting", "serving", "stopped"}
  /\ queuedKill \in BOOLEAN /\ killed \in BOOLEAN /\ reported \in BOOLEAN
  /\ timer \in BOOLEAN /\ signalled \in BOOLEAN /\ exited \in BOOLEAN

\* There is a child once the spawn is done, and nothing to kill before.
SpawnFirst ==
  /\ spawn = "done" <=> child # "none"
  /\ spawn # "done" => ~killed
  /\ timer => killed
  /\ exited => child = "dead"

ProcessInv == ProcessShape /\ SpawnFirst

-----------------------------------------------------------------------------
(* The server's entry and what it told the driver.                         *)

Entry == [in: BOOLEAN, open: {"pending", "open", "failed"}, over: BOOLEAN,
          status: {"starting", "ready", "stopped"}, wanted: BOOLEAN]
Call == {"unregisterRoom", "roomFailure"}
State == [e: Entry, t: Seq(Call)]

\* What is good for a room that has been told to die (c) or not.
Good(c) ==
  {s \in State :
     /\ Len(s.t) <= 1
     /\ s.e.in => s.t = <<>> /\ s.e.open # "failed"
     /\ s.e.open = "pending" => s.e.in
     /\ ~s.e.wanted => c
     /\ ~s.e.in /\ s.t = <<>> => c}

ServerInv ==
  /\ spawn = "no" => entry = NoEntry /\ told = <<>>
  /\ spawn # "no" => Server \in Good(killed \/ queuedKill)

LEMMA Appended ==
  ASSUME NEW x \in Call
  PROVE  /\ Append(<<>>, x) \in Seq(Call)
         /\ Len(Append(<<>>, x)) = 1
         /\ Append(<<>>, x) # <<>>
<1>1. <<>> \in Seq(Call) /\ Len(<<>>) = 0
  BY EmptySeq
<1>2. Append(<<>>, x) \in Seq(Call) /\ Len(Append(<<>>, x)) = 1
  BY <1>1, AppendProperties
<1>3. QED
  BY <1>1, <1>2

\* An entry that is let go of, with one call or, if it has been told to die, none.
LEMMA LetGo ==
  ASSUME NEW c, NEW s \in Good(c), NEW x, s.e.in,
         x \in State, ~x.e.in, x.e.open # "pending",
         x.e.wanted \/ ~s.e.wanted,
         \/ \E call \in Call : x.t = Append(s.t, call)
         \/ x.t = s.t /\ ~s.e.wanted
  PROVE  x \in Good(c)
<1>1. s.t = <<>>
  BY DEF Good
<1>2. CASE \E call \in Call : x.t = Append(s.t, call)
  <2>1. Len(x.t) = 1 /\ x.t # <<>>
    BY <1>1, <1>2, Appended
  <2>2. QED
    BY <2>1 DEF Good
<1>3. CASE x.t = s.t /\ ~s.e.wanted
  BY <1>1, <1>3 DEF Good
<1>4. QED
  BY <1>2, <1>3

LEMMA CleanupKeeps ==
  ASSUME NEW c, NEW s \in Good(c), s.e.open # "pending", NEW reason
  PROVE  CleanupRoom(s, reason) \in Good(c)
<1>1. CASE ~s.e.in
  BY <1>1 DEF CleanupRoom
<1>2. CASE s.e.in
  <2> DEFINE e == [s.e EXCEPT !.in = FALSE, !.wanted = @ \/ reason = "process-exited"]
             t == CASE reason = "self-stopped" -> Append(s.t, "unregisterRoom")
                    [] reason = "process-exited" /\ ~s.e.wanted -> s.t
                    [] OTHER -> Append(s.t, "roomFailure")
  <2>1. CleanupRoom(s, reason) = [e |-> e, t |-> t]
    BY <1>2 DEF CleanupRoom
  <2>2. s.e \in Entry /\ s.t = <<>>
    BY <1>2 DEF Good, State
  <2>3. e \in Entry /\ ~e.in /\ e.open = s.e.open /\ (e.wanted \/ ~s.e.wanted)
    <3> DEFINE p == reason = "process-exited"
    <3>1. p \in BOOLEAN
      OBVIOUS
    <3> HIDE DEF p
    <3>2. e = [s.e EXCEPT !.in = FALSE, !.wanted = @ \/ p]
      BY DEF p
    <3>3. QED
      BY <2>2, <3>1, <3>2 DEF Entry
  <2>4. \/ \E call \in Call : t = Append(s.t, call)
        \/ t = s.t /\ ~s.e.wanted
    BY DEF Call
  <2>5. t \in Seq(Call)
    BY <2>2, <2>4, Appended, EmptySeq
  <2> HIDE DEF e, t
  <2>6. [e |-> e, t |-> t] \in State
    BY <2>3, <2>5 DEF State
  <2>7. QED
    BY <1>2, <2>1, <2>3, <2>4, <2>6, LetGo
<1>3. QED
  BY <1>1, <1>2

LEMMA FailureKeeps ==
  ASSUME NEW c, NEW s \in Good(c), s.e.open = "pending"
  PROVE  StartupFailed(s) \in Good(c)
<1> DEFINE e == [s.e EXCEPT !.in = FALSE, !.open = "failed"]
           t == Append(s.t, "roomFailure")
<1>1. StartupFailed(s) = [e |-> e, t |-> t]
  BY DEF StartupFailed
<1>2. s.e \in Entry /\ s.t = <<>> /\ s.e.in
  BY DEF Good, State
<1>3. e \in Entry /\ ~e.in /\ e.open = "failed" /\ (e.wanted \/ ~s.e.wanted)
  BY <1>2 DEF Entry
<1>4. \E call \in Call : t = Append(s.t, call)
  BY DEF Call
<1>5. t \in Seq(Call)
  BY <1>2, <1>4, Appended
<1> HIDE DEF e, t
<1>6. [e |-> e, t |-> t] \in State
  BY <1>3, <1>5 DEF State
<1>7. QED
  BY <1>1, <1>2, <1>3, <1>4, <1>6, LetGo

\* What only touches the status, what is over, and the gate.
LEMMA MarkKeeps ==
  ASSUME NEW c, NEW s \in Good(c), NEW x \in State, x.t = s.t,
         x.e.in = s.e.in, x.e.wanted = s.e.wanted,
         \/ x.e.open = s.e.open
         \/ x.e.open = "open"
  PROVE  x \in Good(c)
BY DEF Good

LEMMA OnMessageKeeps ==
  ASSUME NEW c, NEW s \in Good(c), NEW m
  PROVE  OnMessage(s, m) \in Good(c)
<1>1. CASE s.e.over \/ ~s.e.in
  BY <1>1 DEF OnMessage
<1>2. CASE ~(s.e.over \/ ~s.e.in)
  <2> DEFINE st == CASE m = "ready" /\ s.e.status = "starting" -> "ready"
                     [] m = "stopped" -> "stopped"
                     [] OTHER -> s.e.status
             e == [s.e EXCEPT !.open = "open", !.status = st]
             x == [s EXCEPT !.e = e]
  <2>1. OnMessage(s, m) = IF m = "stopped" THEN CleanupRoom(x, "self-stopped") ELSE x
    BY <1>2 DEF OnMessage
  <2>2. s.e \in Entry /\ s \in State
    BY DEF Good, State
  <2>3. st \in {"starting", "ready", "stopped"}
    BY <2>2 DEF Entry
  <2> HIDE DEF st
  <2>4. e \in Entry /\ e.in = s.e.in /\ e.wanted = s.e.wanted /\ e.open = "open"
    BY <2>2, <2>3 DEF Entry
  <2> HIDE DEF e
  <2>5. x \in State /\ x.e = e /\ x.t = s.t
    BY <2>2, <2>4 DEF State
  <2> HIDE DEF x
  <2>6. x \in Good(c)
    BY <2>4, <2>5, MarkKeeps
  <2>7. CleanupRoom(x, "self-stopped") \in Good(c)
    BY <2>4, <2>5, <2>6, CleanupKeeps
  <2>8. QED
    BY <2>1, <2>6, <2>7
<1>3. QED
  BY <1>1, <1>2

LEMMA StoppedKeeps ==
  ASSUME NEW c, NEW s \in Good(c)
  PROVE  Stopped(s) \in Good(c)
<1> DEFINE e == [s.e EXCEPT !.over = TRUE, !.status = "stopped"]
           o == [s EXCEPT !.e.over = TRUE, !.e.status = "stopped"]
<1>1. s \in State /\ s.e \in Entry
  BY DEF Good, State
<1>2. e \in Entry /\ e.in = s.e.in /\ e.wanted = s.e.wanted /\ e.open = s.e.open
  BY <1>1 DEF Entry
<1>3. o = [s EXCEPT !.e = e]
  BY <1>1 DEF State
<1> HIDE DEF e
<1>4. o \in State /\ o.e = e /\ o.t = s.t
  BY <1>1, <1>2, <1>3 DEF State
<1>5. o \in Good(c)
  <2> HIDE DEF o
  <2>1. QED
    BY <1>2, <1>4, MarkKeeps
<1>6. CASE s.e.over
  <2>1. Stopped(s) = s
    BY <1>6 DEF Stopped
  <2>2. QED
    BY <2>1
<1>7. CASE ~s.e.over
  <2>1. s.e.open \in {"pending", "open", "failed"}
    BY <1>1 DEF Entry
  <2>2. CASE s.e.open = "open"
    <3>1. Stopped(s) = CleanupRoom(o, "process-exited")
      BY <1>7, <2>2 DEF Stopped
    <3> HIDE DEF o
    <3>2. QED
      BY <1>2, <1>4, <1>5, <2>2, <3>1, CleanupKeeps
  <2>3. CASE s.e.open = "pending"
    <3>1. Stopped(s) = StartupFailed(o)
      BY <1>7, <2>3 DEF Stopped
    <3> HIDE DEF o
    <3>2. QED
      BY <1>2, <1>4, <1>5, <2>3, <3>1, FailureKeeps
  <2>4. CASE s.e.open = "failed"
    <3>1. Stopped(s) = o
      BY <1>7, <2>4 DEF Stopped
    <3> HIDE DEF o
    <3>2. QED
      BY <1>5, <3>1
  <2>5. QED
    BY <2>1, <2>2, <2>3, <2>4
<1>8. QED
  BY <1>6, <1>7

-----------------------------------------------------------------------------
(* Every step keeps the three.                                             *)

IInv == ChannelInv /\ ProcessInv /\ ServerInv

LEMMA Starting ==
  Init => IInv
<1> SUFFICES ASSUME Init PROVE IInv
  OBVIOUS
<1>1. ChannelInv
  BY ChannelStarts DEF Init
<1>2. ProcessInv
  BY DEF Init, ProcessInv, ProcessShape, SpawnFirst
<1>3. ServerInv
  BY DEF Init, ServerInv
<1>4. QED
  BY <1>1, <1>2, <1>3 DEF IInv

LEMMA ChannelStays ==
  ASSUME ChannelInv, UNCHANGED <<gated, active, sock, attempts>>,
         listening' \in {"no", "yes", "closed"}
  PROVE  ChannelInv'
BY DEF ChannelInv, ChannelShape, SlotIsOpen, UnmadeIsUnseen

LEMMA ProcessStays ==
  ASSUME ProcessInv, UNCHANGED process
  PROVE  ProcessInv'
BY DEF process, ProcessInv, ProcessShape, SpawnFirst

\* A step after which the room has been told to die if it had before.
LEMMA ServerGoes ==
  ASSUME NEW s, Becomes(s), spawn' # "no",
         s \in Good(killed \/ queuedKill) \/ s \in Good((killed \/ queuedKill)'),
         killed \/ queuedKill => (killed \/ queuedKill)'
  PROVE  ServerInv'
<1>1. s \in Good((killed \/ queuedKill)')
  BY DEF Good
<1>2. s = [e |-> s.e, t |-> s.t]
  BY <1>1 DEF Good, State
<1>3. Server' = s
  BY <1>2 DEF Server, Becomes
<1>4. QED
  BY <1>1, <1>3 DEF ServerInv

LEMMA ServerStays ==
  ASSUME ServerInv, UNCHANGED <<entry, told>>,
         spawn' = "no" => spawn = "no",
         spawn' # "no" => spawn # "no",
         killed \/ queuedKill => (killed \/ queuedKill)'
  PROVE  ServerInv'
<1>1. CASE spawn = "no"
  BY <1>1 DEF ServerInv
<1>2. CASE spawn # "no"
  <2>1. Becomes(Server)
    BY DEF Becomes, Server
  <2>2. Server \in Good(killed \/ queuedKill)
    BY <1>2 DEF ServerInv
  <2>3. QED
    BY <1>2, <2>1, <2>2, ServerGoes
<1>3. QED
  BY <1>1, <1>2

LEMMA Known ==
  ASSUME ServerInv, spawn # "no"
  PROVE  Server \in Good(killed \/ queuedKill) /\ Server.e = entry /\ Server.t = told
BY DEF ServerInv, Server

-----------------------------------------------------------------------------

LEMMA CreateRoomKeeps ==
  IInv /\ CreateRoom => IInv'
<1> SUFFICES ASSUME IInv, CreateRoom PROVE IInv'
  OBVIOUS
<1>1. UNCHANGED <<gated, active, sock, attempts, listening>>
  BY DEF CreateRoom, channel
<1>2. ChannelInv'
  <2>1. listening \in {"no", "yes", "closed"}
    BY DEF IInv, ChannelInv, ChannelShape
  <2>2. QED
    BY <1>1, <2>1, ChannelStays DEF IInv
<1>3. ProcessInv'
  BY DEF IInv, CreateRoom, ProcessInv, ProcessShape, SpawnFirst
<1>4. ServerInv'
  <2> DEFINE e == [NoEntry EXCEPT !.in = TRUE]
             s == [e |-> e, t |-> <<>>]
  <2>1. entry = NoEntry /\ told = <<>>
    BY DEF IInv, CreateRoom, ServerInv
  <2>2. entry' = e /\ told' = <<>> /\ spawn' = "pending"
    BY <2>1 DEF CreateRoom
  <2>3. e \in Entry /\ e.in /\ e.wanted /\ e.open = "pending"
    BY DEF NoEntry, Entry
  <2> HIDE DEF e
  <2>4. <<>> \in Seq(Call) /\ Len(<<>>) = 0
    BY EmptySeq
  <2>5. s \in State
    BY <2>3, <2>4 DEF State
  <2>6. s \in Good((killed \/ queuedKill)')
    BY <2>3, <2>4, <2>5 DEF Good
  <2>7. Server' = s
    BY <2>2 DEF Server
  <2>8. QED
    BY <2>2, <2>6, <2>7 DEF ServerInv
<1>5. QED
  BY <1>2, <1>3, <1>4 DEF IInv

\* kill(): the process is on its way out, or will be when it is there.
LEMMA KillKeeps ==
  ASSUME ProcessInv, Kill
  PROVE  ProcessInv' /\ (killed \/ queuedKill)' /\ spawn' = spawn
<1>1. ProcessInv'
  BY DEF Kill, Destructor, ProcessInv, ProcessShape, SpawnFirst
<1>2. QED
  BY <1>1 DEF Kill, Destructor

LEMMA ChannelUntouched ==
  ASSUME ChannelInv, UNCHANGED channel
  PROVE  ChannelInv'
<1>1. listening \in {"no", "yes", "closed"}
  BY DEF ChannelInv, ChannelShape
<1>2. UNCHANGED <<gated, active, sock, attempts, listening>>
  BY DEF channel
<1>3. QED
  BY <1>1, <1>2, ChannelStays

LEMMA InMeansSpawn ==
  ASSUME ServerInv, entry.in
  PROVE  spawn # "no"
BY DEF ServerInv, NoEntry

\* Unwanted by order of the server: an end that was brought about.
LEMMA UnwantedIsGood ==
  ASSUME NEW c, NEW s \in Good(c), NEW x, x = [s EXCEPT !.e.wanted = FALSE]
  PROVE  x \in Good(TRUE) /\ x.e.open = s.e.open /\ x.e = [s.e EXCEPT !.wanted = FALSE]
         /\ x.t = s.t
<1> DEFINE e == [s.e EXCEPT !.wanted = FALSE]
<1>1. s \in State /\ s.e \in Entry
  BY DEF Good, State
<1>2. e \in Entry /\ e.in = s.e.in /\ e.open = s.e.open
  BY <1>1 DEF Entry
<1>3. x = [s EXCEPT !.e = e]
  BY <1>1 DEF State
<1>4. e = [s.e EXCEPT !.wanted = FALSE]
  OBVIOUS
<1> HIDE DEF e
<1>5. x \in State /\ x.e = e /\ x.t = s.t
  BY <1>1, <1>2, <1>3 DEF State
<1>6. x \in Good(TRUE)
  BY <1>2, <1>5 DEF Good
<1>7. QED
  BY <1>2, <1>4, <1>5, <1>6

LEMMA DestroyWorkerKeeps ==
  IInv /\ DestroyWorker => IInv'
<1> SUFFICES ASSUME IInv, DestroyWorker PROVE IInv'
  OBVIOUS
<1> USE DEF IInv
<1>1. ChannelInv'
  BY ChannelUntouched DEF DestroyWorker
<1>2. ProcessInv' /\ (killed \/ queuedKill)' /\ spawn' = spawn
  BY KillKeeps DEF DestroyWorker
<1>3. spawn # "no"
  BY InMeansSpawn DEF DestroyWorker
<1> DEFINE x == [Server EXCEPT !.e.wanted = FALSE]
<1>4. x \in Good(TRUE) /\ x.e = [entry EXCEPT !.wanted = FALSE] /\ x.t = told
  <2>1. Server \in Good(killed \/ queuedKill) /\ Server.e = entry /\ Server.t = told
    BY <1>3, Known
  <2>2. QED
    BY <2>1, UnwantedIsGood
<1> HIDE DEF x
<1>5. Becomes(x)
  BY <1>4 DEF Becomes, DestroyWorker
<1>6. x \in Good((killed \/ queuedKill)')
  BY <1>2, <1>4 DEF Good
<1>7. ServerInv'
  BY <1>2, <1>3, <1>5, <1>6, ServerGoes
<1>8. QED
  BY <1>1, <1>2, <1>7

LEMMA StallsKeeps ==
  IInv /\ Stalls => IInv'
<1> SUFFICES ASSUME IInv, Stalls PROVE IInv'
  OBVIOUS
<1> USE DEF IInv
<1>1. ChannelInv'
  BY ChannelUntouched DEF Stalls
<1>2. ProcessInv' /\ (killed \/ queuedKill)' /\ spawn' = spawn
  BY KillKeeps DEF Stalls
<1>3. spawn # "no"
  BY InMeansSpawn DEF Stalls
<1> DEFINE x == [Server EXCEPT !.e.wanted = FALSE]
<1>4. x \in Good(TRUE) /\ x.e.open = "open"
  <2>1. Server \in Good(killed \/ queuedKill) /\ Server.e = entry
    BY <1>3, Known
  <2>2. x \in Good(TRUE) /\ x.e.open = entry.open
    BY <2>1, UnwantedIsGood
  <2>3. QED
    BY <2>2 DEF Stalls
<1>5. Becomes(CleanupRoom(x, "heartbeat-timeout"))
  BY DEF Stalls
<1> HIDE DEF x
<1>6. CleanupRoom(x, "heartbeat-timeout") \in Good(TRUE)
  BY <1>4, CleanupKeeps
<1>7. CleanupRoom(x, "heartbeat-timeout") \in Good((killed \/ queuedKill)')
  BY <1>2, <1>6 DEF Good
<1>8. ServerInv'
  BY <1>2, <1>3, <1>5, <1>7, ServerGoes
<1>9. QED
  BY <1>1, <1>2, <1>8

LEMMA StartupTimesOutKeeps ==
  IInv /\ StartupTimesOut => IInv'
<1> SUFFICES ASSUME IInv, StartupTimesOut PROVE IInv'
  OBVIOUS
<1> USE DEF IInv
<1>1. ChannelInv'
  BY ChannelUntouched DEF StartupTimesOut
<1>2. ProcessInv' /\ (killed \/ queuedKill)' /\ spawn' = spawn
  BY KillKeeps DEF StartupTimesOut
<1>3. spawn # "no"
  BY InMeansSpawn DEF StartupTimesOut
<1>4. Server \in Good(killed \/ queuedKill) /\ Server.e = entry
  BY <1>3, Known
<1>5. StartupFailed(Server) \in Good(killed \/ queuedKill)
  BY <1>4, FailureKeeps DEF StartupTimesOut
<1>6. Becomes(StartupFailed(Server))
  BY DEF StartupTimesOut
<1>7. ServerInv'
  BY <1>2, <1>3, <1>5, <1>6, ServerGoes
<1>8. QED
  BY <1>1, <1>2, <1>7

-----------------------------------------------------------------------------

LEMMA SpawnCompletesKeeps ==
  IInv /\ SpawnCompletes => IInv'
<1> SUFFICES ASSUME IInv, SpawnCompletes PROVE IInv'
  OBVIOUS
<1> USE DEF IInv
<1>1. ChannelInv'
  BY ChannelStays DEF SpawnCompletes, Listens
<1>2. ProcessInv'
  BY DEF SpawnCompletes, Spawned, ProcessInv, ProcessShape, SpawnFirst
<1>3. killed \/ queuedKill => (killed \/ queuedKill)'
  BY DEF SpawnCompletes, Spawned, ProcessInv, ProcessShape, SpawnFirst
<1>4. ServerInv'
  BY <1>3, ServerStays DEF SpawnCompletes
<1>5. QED
  BY <1>1, <1>2, <1>4

LEMMA SpawnRejectsKeeps ==
  IInv /\ SpawnRejects => IInv'
<1> SUFFICES ASSUME IInv, SpawnRejects PROVE IInv'
  OBVIOUS
<1> USE DEF IInv
<1>1. ChannelInv'
  <2>1. listening' \in {"no", "yes", "closed"}
    BY DEF SpawnRejects
  <2>2. QED
    BY <2>1, ChannelStays DEF SpawnRejects
<1>2. ProcessInv'
  BY DEF SpawnRejects, ProcessInv, ProcessShape, SpawnFirst
<1>3. Server \in Good(killed \/ queuedKill)
  BY Known DEF SpawnRejects
<1>4. Stopped(OnMessage(Server, "error")) \in Good(killed \/ queuedKill)
  BY <1>3, OnMessageKeeps, StoppedKeeps
<1>5. Becomes(Stopped(OnMessage(Server, "error"))) /\ spawn' = "rejected"
      /\ killed' = killed /\ queuedKill' = queuedKill
  BY DEF SpawnRejects
<1>6. ServerInv'
  BY <1>4, <1>5, ServerGoes
<1>7. QED
  BY <1>1, <1>2, <1>6

\* report(), and what stays as it is around it.
LEMMA ReportKeeps ==
  ASSUME IInv, NEW s \in Good(killed \/ queuedKill), Report(s), spawn = "done",
         UNCHANGED <<spawn, queuedKill, killed>>
  PROVE  ChannelInv' /\ ServerInv' /\ reported' \in BOOLEAN
<1> USE DEF IInv
<1>1. reported \in BOOLEAN
  BY DEF ProcessInv, ProcessShape
<1>2. CASE reported
  <2>1. Becomes(s) /\ UNCHANGED channel /\ reported' = reported
    BY <1>2 DEF Report
  <2>2. ServerInv'
    BY <2>1, ServerGoes
  <2>3. QED
    BY <1>1, <2>1, <2>2, ChannelUntouched
<1>3. CASE ~reported
  <2>1. Close /\ reported' = TRUE /\ Becomes(Stopped(s))
    BY <1>3 DEF Report
  <2>2. Stopped(s) \in Good(killed \/ queuedKill)
    BY StoppedKeeps
  <2>3. ServerInv'
    BY <2>1, <2>2, ServerGoes
  <2>4. QED
    BY <2>1, <2>3, Closing
<1>4. QED
  BY <1>1, <1>2, <1>3

LEMMA ExitEventKeeps ==
  IInv /\ ExitEvent => IInv'
<1> SUFFICES ASSUME IInv, ExitEvent PROVE IInv'
  OBVIOUS
<1> USE DEF IInv
<1>1. spawn = "done"
  BY DEF ExitEvent, ProcessInv, ProcessShape, SpawnFirst
<1>2. Server \in Good(killed \/ queuedKill)
  BY <1>1, Known
<1>3. Report(Server) /\ exited' = FALSE
      /\ UNCHANGED <<spawn, queuedKill, killed, timer, child, signalled, room>>
  BY DEF ExitEvent
<1>4. ChannelInv' /\ ServerInv' /\ reported' \in BOOLEAN
  BY <1>1, <1>2, <1>3, ReportKeeps
<1>5. ProcessInv'
  BY <1>3, <1>4 DEF ProcessInv, ProcessShape, SpawnFirst
<1>6. QED
  BY <1>4, <1>5

LEMMA ErrorEventKeeps ==
  IInv /\ ErrorEvent => IInv'
<1> SUFFICES ASSUME IInv, ErrorEvent PROVE IInv'
  OBVIOUS
<1> USE DEF IInv
<1>1. spawn = "done"
  BY DEF ErrorEvent, ProcessInv, ProcessShape, SpawnFirst
<1>2. OnMessage(Server, "error") \in Good(killed \/ queuedKill)
  BY <1>1, Known, OnMessageKeeps
<1>3. Report(OnMessage(Server, "error")) /\ child = "failing" /\ child' = "dead"
      /\ exited' \in BOOLEAN /\ UNCHANGED <<spawn, queuedKill, killed, timer, signalled, room>>
  BY DEF ErrorEvent
<1>4. ChannelInv' /\ ServerInv' /\ reported' \in BOOLEAN
  BY <1>1, <1>2, <1>3, ReportKeeps
<1>5. ProcessInv'
  BY <1>3, <1>4 DEF ProcessInv, ProcessShape, SpawnFirst
<1>6. QED
  BY <1>4, <1>5

\* A child that is no more.
LEMMA DiesKeeps ==
  ASSUME IInv, Dies, child = "running", timer' \in BOOLEAN, timer' => timer
  PROVE  IInv'
<1> USE DEF IInv
<1>1. ChannelInv'
  <2>1. Hangup(Linked) /\ UNCHANGED <<gated, listening, active, attempts>>
    BY DEF Dies
  <2>2. QED
    BY <2>1, HangingUp
<1>2. ProcessInv'
  BY DEF Dies, ProcessInv, ProcessShape, SpawnFirst
<1>3. ServerInv'
  BY ServerStays DEF Dies
<1>4. QED
  BY <1>1, <1>2, <1>3

LEMMA ExitsKeeps ==
  IInv /\ Exits => IInv'
<1> SUFFICES ASSUME IInv, Exits PROVE IInv'
  OBVIOUS
<1>1. timer \in BOOLEAN
  BY DEF IInv, ProcessInv, ProcessShape
<1>2. QED
  BY <1>1, DiesKeeps DEF Exits

LEMMA KillTimeoutKeeps ==
  IInv /\ KillTimeout => IInv'
<1> SUFFICES ASSUME IInv, KillTimeout PROVE IInv'
  OBVIOUS
<1>1. CASE child = "running"
  BY <1>1, DiesKeeps DEF KillTimeout
<1>2. CASE child # "running"
  <2> USE DEF IInv
  <2>1. ChannelInv'
    BY <1>2, ChannelUntouched DEF KillTimeout
  <2>2. ProcessInv'
    BY <1>2 DEF KillTimeout, ProcessInv, ProcessShape, SpawnFirst
  <2>3. ServerInv'
    BY <1>2, ServerStays DEF KillTimeout
  <2>4. QED
    BY <2>1, <2>2, <2>3
<1>3. QED
  BY <1>1, <1>2

LEMMA SigTermKeeps ==
  IInv /\ SigTerm => IInv'
<1> SUFFICES ASSUME IInv, SigTerm PROVE IInv'
  OBVIOUS
<1>1. CASE room = "booting"
  <2>1. timer \in BOOLEAN
    BY DEF IInv, ProcessInv, ProcessShape
  <2>2. QED
    BY <1>1, <2>1, DiesKeeps DEF SigTerm, Runs
<1>2. CASE room # "booting"
  <2> USE DEF IInv
  <2>1. Hangup(Linked) /\ UNCHANGED <<gated, listening, active, attempts>>
    BY <1>2 DEF SigTerm
  <2>2. ChannelInv'
    BY <2>1, HangingUp
  <2>3. ProcessInv'
    BY <1>2 DEF SigTerm, ProcessInv, ProcessShape, SpawnFirst
  <2>4. ServerInv'
    BY <1>2, ServerStays DEF SigTerm
  <2>5. QED
    BY <2>2, <2>3, <2>4
<1>3. QED
  BY <1>1, <1>2

-----------------------------------------------------------------------------

\* Steps of the room and the channel that are nothing to the server.
LEMMA ChannelOnly ==
  ASSUME IInv, ChannelInv', UNCHANGED <<entry, told, process>>
  PROVE  IInv'
<1> USE DEF IInv
<1>1. ProcessInv'
  BY ProcessStays
<1>2. UNCHANGED <<entry, told, spawn, queuedKill, killed>>
  BY DEF process
<1>3. ServerInv'
  BY <1>2, ServerStays
<1>4. QED
  BY <1>1, <1>3

LEMMA RoomChanges ==
  ASSUME IInv, ChannelInv', room' \in {"serving", "stopped"},
         UNCHANGED <<entry, told, spawn, queuedKill, killed, reported, timer, child,
                     signalled, exited>>
  PROVE  IInv'
<1> USE DEF IInv
<1>1. ProcessInv'
  BY DEF ProcessInv, ProcessShape, SpawnFirst
<1>2. ServerInv'
  BY ServerStays
<1>3. QED
  BY <1>1, <1>2

LEMMA RoomStepsKeep ==
  ASSUME IInv, NEW d \in Dials,
         Dialling(d) \/ Starts(d) \/ Beats(d) \/ Stops(d) \/ Dropped(d)
  PROVE  IInv'
<1>0. ChannelInv
  BY DEF IInv
<1>1. CASE Dialling(d)
  BY <1>0, <1>1, Connecting, ChannelOnly DEF Dialling
<1>2. CASE Starts(d)
  <2>1. Writes(d, "ready") /\ "ready" \in Message
        /\ UNCHANGED <<gated, listening, active, attempts>>
    BY <1>2 DEF Starts, Message
  <2>2. ChannelInv'
    BY <1>0, <2>1, Writing
  <2>3. QED
    BY <1>2, <2>2, RoomChanges DEF Starts
<1>3. CASE Beats(d)
  <2>1. Writes(d, "beat") /\ "beat" \in Message
        /\ UNCHANGED <<gated, listening, active, attempts>>
    BY <1>3 DEF Beats, Message
  <2>2. ChannelInv'
    BY <1>0, <2>1, Writing
  <2>3. QED
    BY <1>3, <2>2, ChannelOnly DEF Beats
<1>4. CASE Stops(d)
  <2>1. ChannelInv'
    BY <1>0, <1>4, Stopping
  <2>2. QED
    BY <1>4, <2>1, RoomChanges DEF Stops
<1>5. CASE Dropped(d)
  <2>1. Hangup({d}) /\ {d} \in SUBSET Linked /\ UNCHANGED <<gated, listening, active, attempts>>
    BY <1>5 DEF Dropped, Drops, Linked
  <2>2. ChannelInv'
    BY <1>0, <2>1, HangingUp
  <2>3. QED
    BY <1>5, <2>2, ChannelOnly DEF Dropped
<1>6. QED
  BY <1>1, <1>2, <1>3, <1>4, <1>5

LEMMA DialRefusedKeeps ==
  IInv /\ DialRefused => IInv'
<1> SUFFICES ASSUME IInv, DialRefused PROVE IInv'
  OBVIOUS
<1>1. ChannelInv'
  BY ChannelAssumption DEF IInv, DialRefused, Refused, ChannelInv, ChannelShape, SlotIsOpen,
     UnmadeIsUnseen
<1>2. QED
  BY <1>1, ChannelOnly DEF DialRefused

LEMMA DataKeeps ==
  ASSUME IInv, NEW d \in Dials, NEW n \in 1..Len(sock[d].wire), Data(d, n)
  PROVE  IInv'
<1> USE DEF IInv
<1>1. ChannelInv'
  BY Chunking DEF Data
<1>2. UNCHANGED process
  BY DEF Data
<1>3. ProcessInv'
  BY <1>2, ProcessStays
<1> DEFINE ms == Messages(d, n)
<1>4. Len(ms) \in Nat
  BY ParsedType
<1>5. Becomes(AfterAll(Server, ms))
  BY DEF Data
<1>6. spawn' = spawn /\ killed' = killed /\ queuedKill' = queuedKill
  BY <1>2 DEF process
<1> HIDE DEF ms
<1>7. CASE spawn = "no"
  <2>1. Server.e = NoEntry /\ Server = [e |-> entry, t |-> told]
    BY <1>7 DEF ServerInv, Server
  <2>2. \A x \in {Server} : \A m : OnMessage(x, m) \in {Server}
    BY <2>1 DEF OnMessage, NoEntry
  <2>3. AfterAll(Server, ms) \in {Server}
    BY <1>4, <2>2, AfterAllKeeps
  <2>4. entry' = entry /\ told' = told
    BY <1>5, <2>1, <2>3 DEF Becomes
  <2>5. QED
    BY <1>1, <1>3, <1>6, <2>4, ServerStays
<1>8. CASE spawn # "no"
  <2>1. Server \in Good(killed \/ queuedKill)
    BY <1>8, Known
  <2>2. \A x \in Good(killed \/ queuedKill) : \A m : OnMessage(x, m) \in Good(killed \/ queuedKill)
    BY OnMessageKeeps
  <2>3. AfterAll(Server, ms) \in Good(killed \/ queuedKill)
    BY <1>4, <2>1, <2>2, AfterAllKeeps
  <2>4. ServerInv'
    BY <1>5, <1>6, <1>8, <2>3, ServerGoes
  <2>5. QED
    BY <1>1, <1>3, <2>4
<1>9. QED
  BY <1>7, <1>8

LEMMA ChannelStepsKeep ==
  IInv /\ ChannelSteps => IInv'
<1> SUFFICES ASSUME IInv, ChannelSteps PROVE IInv'
  OBVIOUS
<1>0. ChannelInv
  BY DEF IInv
<1>1. PICK d \in Dials : \/ Accepted(d) \/ HungUp(d)
                         \/ \E n \in 1..Len(sock[d].wire) : Data(d, n)
  BY DEF ChannelSteps
<1>2. CASE Accepted(d)
  BY <1>0, <1>2, Accepting, ChannelOnly DEF Accepted
<1>3. CASE HungUp(d)
  BY <1>0, <1>3, Hanging, ChannelOnly DEF HungUp
<1>4. CASE \E n \in 1..Len(sock[d].wire) : Data(d, n)
  BY <1>4, DataKeeps
<1>5. QED
  BY <1>1, <1>2, <1>3, <1>4

LEMMA StepsKeep ==
  IInv /\ [Next]_vars => IInv'
<1> SUFFICES ASSUME IInv, [Next]_vars PROVE IInv'
  OBVIOUS
<1>1. CASE ServerSteps
  BY <1>1, DestroyWorkerKeeps, StallsKeeps, StartupTimesOutKeeps DEF ServerSteps
<1>2. CASE SpawnSettles
  BY <1>2, SpawnCompletesKeeps, SpawnRejectsKeeps DEF SpawnSettles
<1>3. CASE ProcessSteps
  BY <1>3, ExitEventKeeps, ErrorEventKeeps, KillTimeoutKeeps, SigTermKeeps DEF ProcessSteps
<1>4. CASE RoomSteps \/ \E d \in Dials : Dropped(d)
  BY <1>4, RoomStepsKeep DEF RoomSteps
<1>5. CASE UNCHANGED vars
  <2>1. UNCHANGED <<entry, told, process>> /\ UNCHANGED channel
    BY <1>5 DEF vars
  <2>2. ChannelInv'
    BY <2>1, ChannelUntouched DEF IInv
  <2>3. QED
    BY <2>1, <2>2, ChannelOnly
<1>6. QED
  BY <1>1, <1>2, <1>3, <1>4, <1>5, CreateRoomKeeps, ExitsKeeps, DialRefusedKeeps,
     ChannelStepsKeep DEF Next

LEMMA AlwaysIInv ==
  Spec => []IInv
BY Starting, StepsKeep, PTL DEF Spec

\* Type correctness: among it that the slot of the listener is held by an open connection
\* that has been let in, and that an entry of the server is not one whose start has failed.
THEOREM Typed == Spec => []TypeOK
<1>1. IInv => TypeOK
  <2> SUFFICES ASSUME IInv PROVE TypeOK
    OBVIOUS
  <2> USE DEF IInv
  <2>1. ChannelTypeOK
    BY DEF ChannelTypeOK, ChannelInv, ChannelShape, SlotIsOpen, Socket
  <2>2. ProcessShape /\ SpawnFirst
    BY DEF ProcessInv
  <2>3. /\ entry.open \in {"pending", "open", "failed"}
        /\ entry.status \in {"starting", "ready", "stopped"}
        /\ told \in Seq(Call)
        /\ entry.in => entry.open # "failed"
    <3>1. CASE spawn = "no"
      <4>1. entry = NoEntry /\ told = <<>>
        BY <3>1 DEF ServerInv
      <4>2. QED
        BY <4>1, EmptySeq DEF NoEntry
    <3>2. CASE spawn # "no"
      <4>1. Server \in Good(killed \/ queuedKill) /\ Server.e = entry /\ Server.t = told
        BY <3>2, Known
      <4>2. QED
        BY <4>1 DEF Good, State, Entry
    <3>3. QED
      BY <3>1, <3>2
  <2>4. \A i \in DOMAIN told : told[i] \in {"unregisterRoom", "roomFailure"}
    BY <2>3 DEF Call
  <2>5. QED
    BY <2>1, <2>2, <2>3, <2>4 DEF TypeOK, ProcessShape, SpawnFirst
<1>2. QED
  BY <1>1, AlwaysIInv, PTL

\* Whatever ends a room's process - its own stop, a crash, a failed or slow start, a silence
\* that is too long, the server's order - and in whichever order the messages, the exit event
\* and the timers come, the driver is told once; not at all only of a death that the
\* server brought about.
THEOREM EndsAreToldOnce == Spec => []EachEndIsToldOnce
<1>1. IInv => EachEndIsToldOnce
  <2> SUFFICES ASSUME IInv PROVE EachEndIsToldOnce
    OBVIOUS
  <2> USE DEF IInv
  <2>1. CASE spawn = "no"
    <3>1. told = <<>> /\ Len(<<>>) = 0
      BY <2>1, EmptySeq DEF ServerInv
    <3>2. QED
      BY <2>1, <3>1 DEF EachEndIsToldOnce
  <2>2. CASE spawn # "no"
    <3>1. Server \in Good(killed \/ queuedKill) /\ Server.e = entry /\ Server.t = told
      BY <2>2, Known
    <3>2. QED
      BY <3>1 DEF Good, EachEndIsToldOnce
  <2>3. QED
    BY <2>1, <2>2
<1>2. QED
  BY <1>1, AlwaysIInv, PTL

-----------------------------------------------------------------------------
(* How a stream is cut makes no difference to the parser.                  *)

\* What the loops compute at every position, not just the first.
FramesAt(b) == CHOOSE f : FramesFrom(b, f, 1)
RestAt(b) == CHOOSE f : RestFrom(b, f, 1)

LEMMA Loops ==
  ASSUME NEW b \in Seq(Byte)
  PROVE  /\ Frames(b) = FramesAt(b)[1] /\ Rest(b) = RestAt(b)[1]
         /\ \A i \in 1..(Len(b) + 1) :
              /\ FramesAt(b)[i] = IF Whole(b, i)
                                  THEN <<Alphabet[b[EndOf(b, i)]]>> \o FramesAt(b)[EndOf(b, i) + 1]
                                  ELSE <<>>
              /\ RestAt(b)[i] = IF Whole(b, i) THEN RestAt(b)[EndOf(b, i) + 1]
                                ELSE SubSeq(b, i, Len(b))
<1>1. FramesFrom(b, FramesAt(b), 1)
  BY FramesExist DEF FramesAt
<1>2. RestFrom(b, RestAt(b), 1)
  BY RestExist DEF RestAt
<1>3. Frames(b) = FramesAt(b)[1]
  BY DEF Frames, FramesAt, FramesFrom
<1>4. Rest(b) = RestAt(b)[1]
  BY DEF Rest, RestAt, RestFrom
<1>5. \A i \in 1..(Len(b) + 1) :
        FramesAt(b)[i] = IF Whole(b, i)
                         THEN <<Alphabet[b[EndOf(b, i)]]>> \o FramesAt(b)[EndOf(b, i) + 1]
                         ELSE <<>>
  BY <1>1 DEF FramesFrom
<1>6. \A i \in 1..(Len(b) + 1) :
        RestAt(b)[i] = IF Whole(b, i) THEN RestAt(b)[EndOf(b, i) + 1]
                       ELSE SubSeq(b, i, Len(b))
  BY <1>2 DEF RestFrom
<1>7. QED
  BY <1>3, <1>4, <1>5, <1>6

LEMMA LoopTypes ==
  ASSUME NEW b \in Seq(Byte)
  PROVE  \A i \in 1..(Len(b) + 1) :
           FramesAt(b)[i] \in Seq(Message) /\ RestAt(b)[i] \in Seq(Byte)
<1> DEFINE N == Len(b) + 1
           P(i) == FramesAt(b)[i] \in Seq(Message) /\ RestAt(b)[i] \in Seq(Byte)
           S == {k \in Nat : \A i \in 1..N : i + k >= N => P(i)}
<1>1. Len(b) \in Nat /\ N \in Nat
  OBVIOUS
<1>2. ASSUME NEW i \in 1..N, ~Whole(b, i) PROVE P(i)
  <2>1. FramesAt(b)[i] = <<>> /\ RestAt(b)[i] = SubSeq(b, i, Len(b))
    BY <1>2, Loops
  <2>2. SubSeq(b, i, Len(b)) \in Seq(Byte)
    BY <1>1, SubSeqProperties
  <2>3. QED
    BY <2>1, <2>2, EmptySeq
<1>3. ASSUME NEW i \in 1..N, Whole(b, i), P(EndOf(b, i) + 1) PROVE P(i)
  <2> DEFINE j == EndOf(b, i) + 1
             x == Alphabet[b[EndOf(b, i)]]
  <2>1. FramesAt(b)[i] = <<x>> \o FramesAt(b)[j] /\ RestAt(b)[i] = RestAt(b)[j]
    BY <1>3, Loops
  <2>2. x \in Message
    <3>1. EndOf(b, i) \in 1..Len(b)
      BY <1>3, LoopAdvances
    <3>2. b[EndOf(b, i)] \in Byte
      BY <3>1, ElementOfSeq
    <3>3. QED
      BY <3>2 DEF Byte, Alphabet, Message
  <2>3. FramesAt(b)[j] \in Seq(Message) /\ RestAt(b)[j] \in Seq(Byte)
    BY <1>3
  <2> HIDE DEF x, j
  <2>4. <<x>> \o FramesAt(b)[j] \in Seq(Message)
    BY <2>2, <2>3, ConcatProperties
  <2>5. QED
    BY <2>1, <2>3, <2>4
<1> HIDE DEF P
<1>4. 0 \in S
  <2> SUFFICES ASSUME NEW i \in 1..N, i >= N PROVE P(i)
    BY <1>1
  <2>1. ~Whole(b, i)
    BY <1>1, LoopAdvances
  <2>2. QED
    BY <1>2, <2>1
<1>5. ASSUME NEW k \in Nat, k \in S PROVE k + 1 \in S
  <2> SUFFICES ASSUME NEW i \in 1..N, i + (k + 1) >= N PROVE P(i)
    OBVIOUS
  <2>1. CASE Whole(b, i)
    <3> DEFINE j == EndOf(b, i) + 1
    <3>1. j \in (i + 1)..N
      BY <2>1, LoopAdvances
    <3>2. j \in 1..N /\ j + k >= N
      BY <1>1, <3>1
    <3>3. P(j)
      BY <1>5, <3>2
    <3>4. QED
      BY <1>3, <2>1, <3>3
  <2>2. CASE ~Whole(b, i)
    BY <1>2, <2>2
  <2>3. QED
    BY <2>1, <2>2
<1> HIDE DEF S
<1>6. Nat \subseteq S
  BY <1>4, <1>5, SetInduction
<1>7. N \in S
  BY <1>1, <1>6
<1>8. \A i \in 1..N : P(i)
  BY <1>1, <1>7 DEF S
<1>9. QED
  BY <1>8 DEF P

\* The bytes s are those of c from position p + 1 on: so is what is made of them.
LEMMA Shifted ==
  ASSUME NEW c \in Seq(Byte), NEW s \in Seq(Byte), NEW p \in Nat,
         Len(c) = p + Len(s), \A k \in 1..Len(s) : s[k] = c[p + k]
  PROVE  \A k \in 1..(Len(s) + 1) :
           FramesAt(c)[p + k] = FramesAt(s)[k] /\ RestAt(c)[p + k] = RestAt(s)[k]
<1> DEFINE N == Len(s) + 1
           P(k) == FramesAt(c)[p + k] = FramesAt(s)[k] /\ RestAt(c)[p + k] = RestAt(s)[k]
           S == {n \in Nat : \A k \in 1..N : k + n >= N => P(k)}
<1>1. Len(s) \in Nat /\ N \in Nat /\ Len(c) \in Nat /\ Len(c) + 1 = p + N
  OBVIOUS
<1>2. ASSUME NEW k \in 1..N PROVE Whole(c, p + k) <=> Whole(s, k)
  <2>1. k + 1 <= Len(s) <=> p + k + 1 <= Len(c)
    BY <1>1
  <2>2. CASE k + 1 <= Len(s)
    <3>1. k \in 1..Len(s)
      BY <1>1, <2>2
    <3>2. s[k] = c[p + k] /\ s[k] \in Byte
      BY <3>1, ElementOfSeq
    <3>3. s[k] \in Nat
      BY <3>2 DEF Byte
    <3>4. QED
      BY <1>1, <2>1, <2>2, <3>2, <3>3 DEF Whole, EndOf, Header
  <2>3. CASE ~(k + 1 <= Len(s))
    BY <1>1, <2>1, <2>3 DEF Whole, Header
  <2>4. QED
    BY <2>2, <2>3
<1>3. ASSUME NEW k \in 1..N, ~Whole(s, k) PROVE P(k)
  <2>1. p + k \in 1..(Len(c) + 1) /\ ~Whole(c, p + k)
    BY <1>1, <1>2, <1>3
  <2>2. FramesAt(s)[k] = <<>> /\ RestAt(s)[k] = SubSeq(s, k, Len(s))
    BY <1>3, Loops
  <2>3. FramesAt(c)[p + k] = <<>> /\ RestAt(c)[p + k] = SubSeq(c, p + k, Len(c))
    BY <2>1, Loops
  <2>4. SubSeq(s, k, Len(s)) = SubSeq(c, p + k, Len(c))
    <3>1. \A i \in k..Len(s) : s[i] \in Byte
      BY <1>1, ElementOfSeq
    <3>2. \A i \in (p + k)..Len(c) : c[i] \in Byte
      BY <1>1, ElementOfSeq
    <3> DEFINE u == SubSeq(s, k, Len(s))
               v == SubSeq(c, p + k, Len(c))
               l == IF k <= Len(s) THEN Len(s) - k + 1 ELSE 0
    <3>3. u \in Seq(Byte) /\ Len(u) = l /\ \A i \in 1..(Len(s) - k + 1) : u[i] = s[k + i - 1]
      BY <1>1, <3>1, SubSeqProperties
    <3>4. v \in Seq(Byte) /\ Len(v) = (IF p + k <= Len(c) THEN Len(c) - (p + k) + 1 ELSE 0)
          /\ \A i \in 1..(Len(c) - (p + k) + 1) : v[i] = c[p + k + i - 1]
      <4> DEFINE q == p + k
      <4>1. q \in Int /\ Len(c) \in Int /\ \A i \in q..Len(c) : c[i] \in Byte
        BY <1>1, <3>2
      <4> HIDE DEF q
      <4>2. /\ SubSeq(c, q, Len(c)) \in Seq(Byte)
            /\ Len(SubSeq(c, q, Len(c))) = IF q <= Len(c) THEN Len(c) - q + 1 ELSE 0
            /\ \A i \in 1..(Len(c) - q + 1) : SubSeq(c, q, Len(c))[i] = c[q + i - 1]
        BY <4>1, SubSeqProperties
      <4>3. QED
        BY <4>2 DEF q
    <3>5. Len(v) = Len(u)
      BY <1>1, <3>3, <3>4
    <3>6. ASSUME NEW i \in 1..Len(u) PROVE u[i] = v[i]
      <4>1. i \in 1..(Len(s) - k + 1) /\ i \in 1..(Len(c) - (p + k) + 1)
        BY <1>1, <3>3
      <4>2. k + i - 1 \in 1..Len(s) /\ p + (k + i - 1) = p + k + i - 1
        BY <1>1, <4>1
      <4>3. s[k + i - 1] = c[p + k + i - 1]
        BY <4>2
      <4>4. QED
        BY <3>3, <3>4, <4>1, <4>3
    <3> HIDE DEF u, v
    <3>7. u = v
      BY <3>3, <3>4, <3>5, <3>6, SeqEqual
    <3>8. QED
      BY <3>7 DEF u, v
  <2>5. QED
    BY <2>2, <2>3, <2>4
<1>4. ASSUME NEW k \in 1..N, Whole(s, k), P(EndOf(s, k) + 1) PROVE P(k)
  <2> DEFINE j == EndOf(s, k)
  <2>1. p + k \in 1..(Len(c) + 1) /\ Whole(c, p + k)
    BY <1>1, <1>2, <1>4
  <2>2. j \in 1..Len(s) /\ k \in 1..Len(s) /\ s[k] \in Byte
    BY <1>4, LoopAdvances
  <2>3. EndOf(c, p + k) = p + j
    <3>1. s[k] = c[p + k] /\ s[k] \in Nat
      BY <2>2 DEF Byte
    <3>2. k \in Nat
      BY <1>1
    <3>3. EndOf(c, p + k) = p + k + 2 - 1 + s[k] /\ EndOf(s, k) = k + 2 - 1 + s[k]
      BY <3>1 DEF EndOf, Header
    <3> DEFINE x == s[k]
    <3> HIDE DEF x
    <3>4. x \in Nat /\ EndOf(c, p + k) = p + k + 2 - 1 + x /\ EndOf(s, k) = k + 2 - 1 + x
      BY <3>1, <3>3 DEF x
    <3>5. QED
      BY <3>2, <3>4
  <2> HIDE DEF j
  <2>4. c[p + j] = s[j] /\ p + j + 1 = p + (j + 1)
    BY <2>2
  <2>5. FramesAt(s)[k] = <<Alphabet[s[j]]>> \o FramesAt(s)[j + 1] /\ RestAt(s)[k] = RestAt(s)[j + 1]
    BY <1>4, Loops DEF j
  <2>6. /\ FramesAt(c)[p + k] = <<Alphabet[c[p + j]]>> \o FramesAt(c)[p + j + 1]
        /\ RestAt(c)[p + k] = RestAt(c)[p + j + 1]
    BY <2>1, <2>3, Loops
  <2>7. FramesAt(c)[p + (j + 1)] = FramesAt(s)[j + 1] /\ RestAt(c)[p + (j + 1)] = RestAt(s)[j + 1]
    BY <1>4 DEF j
  <2>8. QED
    BY <2>4, <2>5, <2>6, <2>7
<1> HIDE DEF P
<1>5. 0 \in S
  <2> SUFFICES ASSUME NEW k \in 1..N, k >= N PROVE P(k)
    BY <1>1
  <2>1. ~Whole(s, k)
    BY <1>1, LoopAdvances
  <2>2. QED
    BY <1>3, <2>1
<1>6. ASSUME NEW n \in Nat, n \in S PROVE n + 1 \in S
  <2> SUFFICES ASSUME NEW k \in 1..N, k + (n + 1) >= N PROVE P(k)
    OBVIOUS
  <2>1. CASE Whole(s, k)
    <3> DEFINE j == EndOf(s, k) + 1
    <3>1. j \in (k + 1)..N
      BY <2>1, LoopAdvances
    <3>2. j \in 1..N /\ j + n >= N
      BY <1>1, <3>1
    <3>3. P(j)
      BY <1>6, <3>2
    <3>4. QED
      BY <1>4, <2>1, <3>3
  <2>2. CASE ~Whole(s, k)
    BY <1>3, <2>2
  <2>3. QED
    BY <2>1, <2>2
<1> HIDE DEF S
<1>7. Nat \subseteq S
  BY <1>5, <1>6, SetInduction
<1>8. N \in S
  BY <1>1, <1>7
<1>9. \A k \in 1..N : P(k)
  BY <1>1, <1>8 DEF S
<1>10. QED
  BY <1>9 DEF P

-----------------------------------------------------------------------------

\* A chunk boundary anywhere: what was parsed before it, and what is left with what comes
\* after it, are parsed as the whole is.
LEMMA CutAnywhere ==
  ASSUME NEW a \in Seq(Byte), NEW b \in Seq(Byte)
  PROVE  /\ Frames(a \o b) = Frames(a) \o Frames(Rest(a) \o b)
         /\ Rest(a \o b) = Rest(Rest(a) \o b)
<1> DEFINE c == a \o b
           N == Len(a) + 1
           P(i) == /\ FramesAt(c)[i] = FramesAt(a)[i] \o Frames(RestAt(a)[i] \o b)
                   /\ RestAt(c)[i] = Rest(RestAt(a)[i] \o b)
           S == {n \in Nat : \A i \in 1..N : i + n >= N => P(i)}
<1>1. /\ c \in Seq(Byte) /\ Len(c) = Len(a) + Len(b)
      /\ \A i \in 1..(Len(a) + Len(b)) : c[i] = IF i <= Len(a) THEN a[i] ELSE b[i - Len(a)]
  BY ConcatProperties
<1>2. Len(a) \in Nat /\ Len(b) \in Nat /\ N \in Nat
  OBVIOUS
<1> HIDE DEF c
<1>3. \A i \in 1..N : FramesAt(a)[i] \in Seq(Message) /\ RestAt(a)[i] \in Seq(Byte)
  BY LoopTypes
<1>4. ASSUME NEW i \in 1..N, ~Whole(a, i) PROVE P(i)
  <2> DEFINE r == SubSeq(a, i, Len(a))
             s == r \o b
  <2>1. FramesAt(a)[i] = <<>> /\ RestAt(a)[i] = r
    BY <1>4, Loops
  <2>2. /\ r \in Seq(Byte) /\ Len(r) = Len(a) - i + 1
        /\ \A k \in 1..(Len(a) - i + 1) : r[k] = a[i + k - 1]
    <3>1. i \in Int /\ Len(a) \in Int /\ \A k \in i..Len(a) : a[k] \in Byte
      BY <1>2, ElementOfSeq
    <3>2. /\ r \in Seq(Byte) /\ Len(r) = (IF i <= Len(a) THEN Len(a) - i + 1 ELSE 0)
          /\ \A k \in 1..(Len(a) - i + 1) : r[k] = a[i + k - 1]
      BY <3>1, SubSeqProperties
    <3>3. QED
      BY <1>2, <3>2
  <2> HIDE DEF r
  <2>3. /\ s \in Seq(Byte) /\ Len(s) = Len(r) + Len(b)
        /\ \A k \in 1..(Len(r) + Len(b)) : s[k] = IF k <= Len(r) THEN r[k] ELSE b[k - Len(r)]
    BY <2>2, ConcatProperties
  <2> HIDE DEF s
  <2>4. i - 1 \in Nat /\ Len(c) = (i - 1) + Len(s)
    BY <1>1, <1>2, <2>2, <2>3
  <2>5. ASSUME NEW k \in 1..Len(s) PROVE s[k] = c[(i - 1) + k]
    <3>1. k \in 1..(Len(r) + Len(b)) /\ Len(r) \in Nat /\ k \in Nat /\ i \in Nat
      BY <1>2, <2>2, <2>3
    <3>2. (i - 1) + k \in 1..(Len(a) + Len(b))
      BY <1>2, <2>2, <3>1
    <3>3. CASE k <= Len(r)
      <4>1. s[k] = a[i + k - 1] /\ (i - 1) + k <= Len(a) /\ i + k - 1 = (i - 1) + k
        BY <1>2, <2>2, <2>3, <3>1, <3>3
      <4>2. c[(i - 1) + k] = a[(i - 1) + k]
        BY <1>1, <3>2, <4>1
      <4>3. QED
        BY <4>1, <4>2
    <3>4. CASE ~(k <= Len(r))
      <4>1. s[k] = b[k - Len(r)] /\ ~((i - 1) + k <= Len(a))
            /\ k - Len(r) = (i - 1) + k - Len(a)
        BY <1>2, <2>2, <2>3, <3>1, <3>4
      <4>2. c[(i - 1) + k] = b[(i - 1) + k - Len(a)]
        BY <1>1, <3>2, <4>1, SMTT(20)
      <4>3. QED
        BY <4>1, <4>2
    <3>5. QED
      BY <3>3, <3>4
  <2>6. FramesAt(c)[(i - 1) + 1] = FramesAt(s)[1] /\ RestAt(c)[(i - 1) + 1] = RestAt(s)[1]
    <3>1. 1 \in 1..(Len(s) + 1)
      BY <2>3
    <3> DEFINE p == i - 1
    <3>2. p \in Nat /\ Len(c) = p + Len(s) /\ \A k \in 1..Len(s) : s[k] = c[p + k]
      BY <2>4, <2>5
    <3> HIDE DEF p
    <3>3. FramesAt(c)[p + 1] = FramesAt(s)[1] /\ RestAt(c)[p + 1] = RestAt(s)[1]
      BY <1>1, <2>3, <3>1, <3>2, Shifted
    <3>4. QED
      BY <3>3 DEF p
  <2>7. (i - 1) + 1 = i
    BY <1>2
  <2>8. Frames(s) \in Seq(Message) /\ Frames(s) = FramesAt(s)[1] /\ Rest(s) = RestAt(s)[1]
    BY <2>3, Loops, FramesType
  <2>9. <<>> \o Frames(s) = Frames(s)
    BY <2>8, ConcatEmptySeq
  <2>10. QED
    BY <2>1, <2>6, <2>7, <2>8, <2>9 DEF s
<1>5. ASSUME NEW i \in 1..N, Whole(a, i), P(EndOf(a, i) + 1) PROVE P(i)
  <2> DEFINE j == EndOf(a, i)
  <2>1. j \in 1..Len(a) /\ j + 1 \in 1..N /\ i \in 1..Len(a) /\ a[i] \in Byte
    <3>1. j + 1 \in (i + 1)..N /\ j \in 1..Len(a) /\ i \in 1..Len(a) /\ a[i] \in Byte
      BY <1>5, LoopAdvances
    <3>2. QED
      BY <1>2, <3>1
  <2>2. c[i] = a[i] /\ c[j] = a[j]
    BY <1>1, <1>2, <2>1
  <2>3. EndOf(c, i) = j
    BY <2>2 DEF EndOf
  <2>4. Whole(c, i) /\ i \in 1..(Len(c) + 1)
    BY <1>1, <1>2, <1>5, <2>1, <2>3 DEF Whole, Header
  <2> DEFINE x == Alphabet[a[j]]
             f == FramesAt(a)[j + 1]
             r == RestAt(a)[j + 1]
  <2>5. FramesAt(a)[i] = <<x>> \o f /\ RestAt(a)[i] = r
    BY <1>5, Loops
  <2>6. FramesAt(c)[i] = <<x>> \o FramesAt(c)[j + 1] /\ RestAt(c)[i] = RestAt(c)[j + 1]
    BY <1>1, <2>2, <2>3, <2>4, Loops
  <2>7. FramesAt(c)[j + 1] = f \o Frames(r \o b) /\ RestAt(c)[j + 1] = Rest(r \o b)
    BY <1>5
  <2>8. x \in Message
    <3>1. a[j] \in Byte
      BY <2>1, ElementOfSeq
    <3>2. QED
      BY <3>1 DEF Byte, Alphabet, Message
  <2>9. f \in Seq(Message) /\ r \in Seq(Byte)
    BY <1>3, <2>1
  <2> HIDE DEF f, r, x, j
  <2>10. r \o b \in Seq(Byte) /\ <<x>> \in Seq(Message)
    BY <2>8, <2>9, ConcatProperties
  <2>11. Frames(r \o b) \in Seq(Message)
    BY <2>10, FramesType
  <2>12. (<<x>> \o f) \o Frames(r \o b) = <<x>> \o (f \o Frames(r \o b))
    BY <2>9, <2>10, <2>11, MessagesAssociate
  <2>13. QED
    BY <2>5, <2>6, <2>7, <2>12
<1> HIDE DEF P
<1>6. 0 \in S
  <2> SUFFICES ASSUME NEW i \in 1..N, i >= N PROVE P(i)
    BY <1>2
  <2>1. ~Whole(a, i)
    BY <1>2, LoopAdvances
  <2>2. QED
    BY <1>4, <2>1
<1>7. ASSUME NEW n \in Nat, n \in S PROVE n + 1 \in S
  <2> SUFFICES ASSUME NEW i \in 1..N, i + (n + 1) >= N PROVE P(i)
    OBVIOUS
  <2>1. CASE Whole(a, i)
    <3> DEFINE j == EndOf(a, i) + 1
    <3>1. j \in (i + 1)..N
      BY <2>1, LoopAdvances
    <3>2. j \in 1..N /\ j + n >= N
      BY <1>2, <3>1
    <3>3. P(j)
      BY <1>7, <3>2
    <3>4. QED
      BY <1>5, <2>1, <3>3
  <2>2. CASE ~Whole(a, i)
    BY <1>4, <2>2
  <2>3. QED
    BY <2>1, <2>2
<1> HIDE DEF S
<1>8. Nat \subseteq S
  BY <1>6, <1>7, SetInduction
<1>9. N \in S
  BY <1>2, <1>8
<1>10. 1 \in 1..N /\ 1 + N >= N
  BY <1>2
<1>11. P(1)
  BY <1>9, <1>10 DEF S
<1>12. Frames(a) = FramesAt(a)[1] /\ Rest(a) = RestAt(a)[1]
  BY Loops
<1>13. Frames(c) = FramesAt(c)[1] /\ Rest(c) = RestAt(c)[1]
  BY <1>1, Loops
<1>14. QED
  BY <1>11, <1>12, <1>13 DEF P, c

\* What is encoded is decoded.
LEMMA OneFrame ==
  ASSUME NEW m \in Message
  PROVE  Frames(Frame(m)) = <<m>> /\ Rest(Frame(m)) = <<>>
<1> DEFINE b == Frame(m)
           n == Size[m]
           u == [i \in 1..n |-> Code[m]]
<1>1. n \in 1..2 /\ Code[m] \in Byte /\ Alphabet[Code[m]] = m
  BY DEF Message, Size, Code, Byte, Alphabet
<1>2. b \in Seq(Byte)
  BY FrameType
<1> HIDE DEF n
<1>3. u \in Seq(Byte) /\ Len(u) = n /\ \A i \in 1..n : u[i] = Code[m]
  <2>1. u \in [1..n -> Byte] /\ n \in Nat
    BY <1>1
  <2>2. u \in Seq(Byte)
    BY <2>1, SeqDef
  <2>3. QED
    BY <1>1, <2>1, <2>2, LenProperties
<1> HIDE DEF u
<1>4. <<n, n>> \in Seq(Byte) /\ Len(<<n, n>>) = 2 /\ <<n, n>>[1] = n
  BY <1>1 DEF Byte
<1>5. b = <<n, n>> \o u
  BY DEF Frame, n, u
<1>6. Len(b) = 2 + n /\ b[1] = n /\ b[2 + n] = Code[m]
  <2> DEFINE h == <<n, n>>
  <2>1. h \in Seq(Byte) /\ Len(h) = 2 /\ h[1] = n
    BY <1>4
  <2> HIDE DEF h
  <2>2. /\ Len(h \o u) = Len(h) + Len(u)
        /\ \A i \in 1..(Len(h) + Len(u)) :
             (h \o u)[i] = IF i <= Len(h) THEN h[i] ELSE u[i - Len(h)]
    BY <1>3, <2>1, ConcatProperties
  <2>3. Len(h \o u) = 2 + n /\ (h \o u)[1] = n /\ (h \o u)[2 + n] = u[n]
    BY <1>1, <1>3, <2>1, <2>2
  <2>4. QED
    BY <1>1, <1>3, <1>5, <2>3 DEF h
<1> HIDE DEF b
<1>7. EndOf(b, 1) = 2 + n /\ Whole(b, 1)
  BY <1>1, <1>6 DEF Whole, EndOf, Header
<1>8. 1 \in 1..(Len(b) + 1) /\ 3 + n \in 1..(Len(b) + 1) /\ EndOf(b, 1) + 1 = 3 + n
  BY <1>1, <1>6, <1>7
<1>9. ~Whole(b, 3 + n)
  BY <1>1, <1>6 DEF Whole, Header
<1>10. FramesAt(b)[1] = <<Alphabet[b[2 + n]]>> \o FramesAt(b)[3 + n]
       /\ RestAt(b)[1] = RestAt(b)[3 + n]
  BY <1>2, <1>7, <1>8, Loops
<1>11. FramesAt(b)[3 + n] = <<>> /\ RestAt(b)[3 + n] = SubSeq(b, 3 + n, Len(b))
  BY <1>2, <1>8, <1>9, Loops
<1>12. SubSeq(b, 3 + n, Len(b)) = <<>>
  BY <1>1, <1>6, SubSeqEmpty
<1>13. <<m>> \o <<>> = <<m>>
  <2>1. <<m>> \in Seq(Message)
    OBVIOUS
  <2>2. QED
    BY <2>1, ConcatEmptySeq
<1>14. Frames(b) = <<m>> /\ Rest(b) = <<>>
  BY <1>1, <1>2, <1>6, <1>10, <1>11, <1>12, <1>13, Loops
<1>15. QED
  BY <1>14 DEF b

LEMMA NoBytes ==
  Frames(<<>>) = <<>> /\ Rest(<<>>) = <<>>
<1> DEFINE b == <<>>
<1>1. b \in Seq(Byte) /\ Len(b) = 0
  BY EmptySeq
<1>2. SubSeq(b, 1, Len(b)) = <<>>
  BY <1>1, SubSeqEmpty
<1> HIDE DEF b
<1>3. ~Whole(b, 1) /\ 1 \in 1..(Len(b) + 1)
  BY <1>1 DEF Whole, Header
<1>4. Frames(b) = <<>> /\ Rest(b) = <<>>
  BY <1>1, <1>2, <1>3, Loops
<1>5. QED
  BY <1>4 DEF b

\* A frame that is appended to whole frames is one more.
LEMMA OneMore ==
  ASSUME NEW a \in Seq(Byte), Rest(a) = <<>>, NEW m \in Message
  PROVE  Frames(a \o Frame(m)) = Append(Frames(a), m) /\ Rest(a \o Frame(m)) = <<>>
<1>1. Frame(m) \in Seq(Byte)
  BY FrameType
<1>2. <<>> \o Frame(m) = Frame(m)
  BY <1>1, ConcatEmptySeq
<1>3. Frames(a \o Frame(m)) = Frames(a) \o <<m>> /\ Rest(a \o Frame(m)) = <<>>
  <2>1. /\ Frames(a \o Frame(m)) = Frames(a) \o Frames(Rest(a) \o Frame(m))
        /\ Rest(a \o Frame(m)) = Rest(Rest(a) \o Frame(m))
    BY <1>1, CutAnywhere
  <2>2. Rest(a) \o Frame(m) = Frame(m)
    BY <1>2
  <2>3. Frames(Frame(m)) = <<m>> /\ Rest(Frame(m)) = <<>>
    BY OneFrame
  <2>4. QED
    BY <2>1, <2>2, <2>3
<1>4. Frames(a) \o <<m>> = Append(Frames(a), m)
  <2>1. Frames(a) \in Seq(Message)
    BY FramesType
  <2>2. QED
    BY <2>1, AppendIsConcat
<1>5. QED
  BY <1>3, <1>4

-----------------------------------------------------------------------------
(* Beginnings of what was said.                                            *)

Begins(s, t) == \E r \in Seq(Message) : t = s \o r

LEMMA BeginsItself ==
  ASSUME NEW s \in Seq(Message)
  PROVE  Begins(s, s)
BY EmptySeq, ConcatEmptySeq DEF Begins

LEMMA BeginsEarlier ==
  ASSUME NEW s \in Seq(Message), NEW t \in Seq(Message), NEW u, Begins(s \o t, u)
  PROVE  Begins(s, u)
<1>1. PICK r \in Seq(Message) : u = (s \o t) \o r
  BY DEF Begins
<1>2. u = s \o (t \o r)
  BY <1>1, MessagesAssociate
<1>3. t \o r \in Seq(Message)
  BY ConcatProperties
<1>4. QED
  BY <1>2, <1>3 DEF Begins

LEMMA BeginsLonger ==
  ASSUME NEW s \in Seq(Message), NEW t \in Seq(Message), Begins(s, t), NEW m \in Message
  PROVE  Begins(s, Append(t, m))
<1>1. PICK r \in Seq(Message) : t = s \o r
  BY DEF Begins
<1>2. <<m>> \in Seq(Message)
  OBVIOUS
<1>3. Append(t, m) = (s \o r) \o <<m>>
  BY <1>1, AppendIsConcat
<1>4. Append(t, m) = s \o (r \o <<m>>)
  BY <1>2, <1>3, MessagesAssociate
<1>5. r \o <<m>> \in Seq(Message)
  BY <1>2, ConcatProperties
<1>6. QED
  BY <1>4, <1>5 DEF Begins

LEMMA BeginsIsPrefix ==
  ASSUME NEW s \in Seq(Message), NEW t \in Seq(Message), Begins(s, t)
  PROVE  IsPrefix(s, t)
<1>1. PICK r \in Seq(Message) : t = s \o r
  BY DEF Begins
<1>2. /\ Len(t) = Len(s) + Len(r)
      /\ \A i \in 1..(Len(s) + Len(r)) : t[i] = IF i <= Len(s) THEN s[i] ELSE r[i - Len(s)]
  BY <1>1, ConcatProperties
<1>3. Len(s) \in Nat /\ Len(r) \in Nat /\ Len(t) \in Nat /\ Len(s) <= Len(t)
  BY <1>2, LenProperties
<1> DEFINE n == Len(s)
           u == SubSeq(s, 1, n)
           v == SubSeq(t, 1, n)
<1>4. \A i \in 1..n : s[i] \in Message /\ t[i] \in Message /\ t[i] = s[i]
  BY <1>2, <1>3, ElementOfSeq
<1>5. /\ u \in Seq(Message) /\ Len(u) = (IF 1 <= n THEN n - 1 + 1 ELSE 0)
      /\ \A i \in 1..(n - 1 + 1) : u[i] = s[1 + i - 1]
  BY <1>3, <1>4, SubSeqProperties
<1>6. /\ v \in Seq(Message) /\ Len(v) = (IF 1 <= n THEN n - 1 + 1 ELSE 0)
      /\ \A i \in 1..(n - 1 + 1) : v[i] = t[1 + i - 1]
  BY <1>3, <1>4, SubSeqProperties
<1>7. Len(u) = n /\ Len(v) = n /\ \A i \in 1..n : u[i] = s[i] /\ v[i] = t[i]
  BY <1>3, <1>5, <1>6
<1> HIDE DEF u, v
<1>8. u = v
  BY <1>4, <1>5, <1>6, <1>7, SeqEqual
<1>9. QED
  BY <1>3, <1>8 DEF IsPrefix, u, v

\* Two sequences that agree and of which each is one longer than the rest of it.
LEMMA SameRest ==
  ASSUME NEW x \in Message, NEW y \in Message, NEW s \in Seq(Message), NEW t \in Seq(Message),
         <<x>> \o s = <<y>> \o t
  PROVE  s = t
<1>1. <<x>> \in Seq(Message) /\ <<y>> \in Seq(Message)
  OBVIOUS
<1>2. (<<x>> \o s)[1] = x /\ (<<y>> \o t)[1] = y
  BY <1>1, ConcatProperties
<1>3. <<y>> \o s = <<y>> \o t
  BY <1>2
<1>4. QED
  BY <1>1, <1>3, ConcatSimplifications

\* The token is not a message: what follows the one is what follows the other.
LEMMA AfterToken ==
  ASSUME NEW F \in Seq(Message), F # <<>>, NEW G \in Seq(Message), NEW s \in Seq(Message)
  PROVE  /\ F \o G = <<"token">> \o s => Tail(F) \o G = s
         /\ Begins(F \o G, <<"token">> \o s) => Begins(Tail(F) \o G, s)
<1> DEFINE x == Head(F)
           R == Tail(F)
<1>1. x \in Message /\ R \in Seq(Message) /\ F = <<x>> \o R
  <2>1. x \in Message /\ R \in Seq(Message)
    BY HeadTailProperties
  <2>2. F = <<F[1]>> \o SubSeq(F, 2, Len(F)) /\ SubSeq(F, 2, Len(F)) = R
    <3>1. Len(F) \in Nat \ {0}
      BY EmptySeq
    <3>2. 1 \in 1..Len(F) /\ Len(F) \in 1..Len(F)
      BY <3>1
    <3>3. SubSeq(F, 1, Len(F)) = <<F[1]>> \o SubSeq(F, 1 + 1, Len(F))
      BY <3>2, SubSeqRecursiveFirst
    <3>4. SubSeq(F, 1, Len(F)) = F
      BY SubSeqFull
    <3>5. R = SubSeq(F, 2, Len(F))
      BY TailIsSubSeq
    <3>6. QED
      BY <3>3, <3>4, <3>5
  <2>3. QED
    BY <2>1, <2>2
<1> HIDE DEF x, R
<1>2. "token" \in Message /\ <<x>> \in Seq(Message) /\ <<"token">> \in Seq(Message)
  BY <1>1 DEF Message
<1>3. F \o G = <<x>> \o (R \o G)
  BY <1>1, <1>2, MessagesAssociate
<1>4. R \o G \in Seq(Message)
  BY <1>1, ConcatProperties
<1>5. ASSUME F \o G = <<"token">> \o s PROVE R \o G = s
  BY <1>1, <1>2, <1>3, <1>4, <1>5, SameRest
<1>6. ASSUME Begins(F \o G, <<"token">> \o s) PROVE Begins(R \o G, s)
  <2>1. PICK r \in Seq(Message) : <<"token">> \o s = (F \o G) \o r
    BY <1>6 DEF Begins
  <2>2. (F \o G) \o r = <<x>> \o ((R \o G) \o r)
    <3> DEFINE p == R \o G
               h == <<x>>
    <3>1. p \in Seq(Message) /\ h \in Seq(Message) /\ F \o G = h \o p
      BY <1>2, <1>3, <1>4
    <3> HIDE DEF p, h
    <3>2. (h \o p) \o r = h \o (p \o r)
      BY <3>1, MessagesAssociate
    <3>3. QED
      BY <3>1, <3>2 DEF p, h
  <2>3. (R \o G) \o r \in Seq(Message)
    BY <1>4, ConcatProperties
  <2> DEFINE q == (R \o G) \o r
  <2> HIDE DEF q
  <2>4. q \in Seq(Message) /\ <<x>> \o q = <<"token">> \o s
    BY <2>1, <2>2, <2>3 DEF q
  <2>5. q = s
    BY <1>1, <1>2, <2>4, SameRest
  <2>6. QED
    BY <2>5 DEF Begins, q
<1>7. QED
  BY <1>5, <1>6 DEF R

-----------------------------------------------------------------------------
(* What is heard on a connection.                                          *)

HeardUpTo(e, h, f, k) ==
  f = [i \in 0..k |-> IF i = 0 THEN <<>>
                      ELSE IF h[i][1] = e THEN Append(f[i - 1], h[i][2]) ELSE f[i - 1]]

LEMMA HeardUpToExists ==
  ASSUME NEW e, NEW h, NEW k \in Nat
  PROVE  \E f : HeardUpTo(e, h, f, k)
<1> DEFINE S == {n \in Nat : \E f : HeardUpTo(e, h, f, n)}
           step(f, i) == IF i = 0 THEN <<>>
                         ELSE IF h[i][1] = e THEN Append(f[i - 1], h[i][2]) ELSE f[i - 1]
<1>1. 0 \in S
  <2> DEFINE f == [i \in 0..0 |-> <<>>]
  <2>1. HeardUpTo(e, h, f, 0)
    BY DEF HeardUpTo
  <2>2. QED
    BY <2>1
<1>2. ASSUME NEW n \in Nat, n \in S PROVE n + 1 \in S
  <2>1. PICK f : HeardUpTo(e, h, f, n)
    BY <1>2
  <2> DEFINE g == [i \in 0..(n + 1) |-> IF i = n + 1 THEN step(f, n + 1) ELSE f[i]]
  <2>2. \A i \in 0..n : g[i] = f[i]
    OBVIOUS
  <2>3. g[n + 1] = step(f, n + 1)
    OBVIOUS
  <2>4. \A i \in 0..n : f[i] = step(f, i)
    BY <2>1 DEF HeardUpTo
  <2>5. g = [i \in 0..(n + 1) |-> g[i]]
    OBVIOUS
  <2> HIDE DEF g
  <2>6. ASSUME NEW i \in 0..(n + 1) PROVE g[i] = step(g, i)
    <3>1. i # 0 => i - 1 \in 0..n
      OBVIOUS
    <3>2. i # 0 => g[i - 1] = f[i - 1]
      BY <2>2, <3>1
    <3>3. step(g, i) = step(f, i)
      BY <3>2
    <3> HIDE DEF step
    <3>4. CASE i = n + 1
      BY <2>3, <3>3, <3>4
    <3>5. CASE i # n + 1
      <4>1. i \in 0..n
        BY <3>5
      <4>2. QED
        BY <2>2, <2>4, <3>3, <4>1
    <3>6. QED
      BY <3>4, <3>5
  <2>7. g = [i \in 0..(n + 1) |-> step(g, i)]
    <3> HIDE DEF step
    <3>1. QED
      BY <2>5, <2>6
  <2>8. HeardUpTo(e, h, g, n + 1)
    BY <2>7 DEF HeardUpTo
  <2>9. QED
    BY <2>8
<1> HIDE DEF S
<1>3. Nat \subseteq S
  BY <1>1, <1>2, SetInduction
<1>4. QED
  BY <1>3 DEF S

HeardAt(e, h) == CHOOSE f : HeardUpTo(e, h, f, Len(h))

LEMMA Hears ==
  ASSUME NEW e, NEW h, Len(h) \in Nat
  PROVE  /\ HeardOn(e, h) = HeardAt(e, h)[Len(h)]
         /\ HeardAt(e, h)[0] = <<>>
         /\ \A i \in 1..Len(h) :
              HeardAt(e, h)[i] = IF h[i][1] = e THEN Append(HeardAt(e, h)[i - 1], h[i][2])
                                 ELSE HeardAt(e, h)[i - 1]
<1>1. HeardUpTo(e, h, HeardAt(e, h), Len(h))
  BY HeardUpToExists DEF HeardAt
<1>2. HeardOn(e, h) = HeardAt(e, h)[Len(h)]
  BY DEF HeardOn, HeardAt, HeardUpTo
<1>3. \A i \in 0..Len(h) :
        HeardAt(e, h)[i] = IF i = 0 THEN <<>>
                           ELSE IF h[i][1] = e THEN Append(HeardAt(e, h)[i - 1], h[i][2])
                           ELSE HeardAt(e, h)[i - 1]
  BY <1>1 DEF HeardUpTo
<1>4. 0 \in 0..Len(h) /\ \A i \in 1..Len(h) : i \in 0..Len(h) /\ i # 0
  OBVIOUS
<1>5. QED
  BY <1>2, <1>3, <1>4

-----------------------------------------------------------------------------

History == Seq(Dials \X Message)

LEMMA HeardType ==
  ASSUME NEW e, NEW h \in History
  PROVE  HeardOn(e, h) \in Seq(Message)
<1> DEFINE f == HeardAt(e, h)
           S == {n \in Nat : n <= Len(h) => f[n] \in Seq(Message)}
<1>1. Len(h) \in Nat /\ \A i \in 1..Len(h) : h[i][2] \in Message
  <2>1. ASSUME NEW i \in 1..Len(h) PROVE h[i][2] \in Message
    <3>1. h[i] \in Dials \X Message
      BY ElementOfSeq DEF History
    <3>2. QED
      BY <3>1
  <2>2. QED
    BY <2>1, LenProperties DEF History
<1>2. f[0] = <<>> /\ HeardOn(e, h) = f[Len(h)]
      /\ \A i \in 1..Len(h) : f[i] = IF h[i][1] = e THEN Append(f[i - 1], h[i][2]) ELSE f[i - 1]
  BY <1>1, Hears
<1> HIDE DEF f
<1>3. 0 \in S
  BY <1>2, EmptySeq
<1>4. ASSUME NEW n \in Nat, n \in S PROVE n + 1 \in S
  <2> SUFFICES ASSUME n + 1 <= Len(h) PROVE f[n + 1] \in Seq(Message)
    OBVIOUS
  <2>1. n + 1 \in 1..Len(h) /\ n + 1 - 1 = n /\ n <= Len(h)
    BY <1>1
  <2>2. f[n] \in Seq(Message) /\ h[n + 1][2] \in Message
    BY <1>1, <1>4, <2>1
  <2>3. Append(f[n], h[n + 1][2]) \in Seq(Message)
    BY <2>2, AppendProperties
  <2>4. f[n + 1] = IF h[n + 1][1] = e THEN Append(f[n], h[n + 1][2]) ELSE f[n]
    BY <1>2, <2>1
  <2>5. QED
    BY <2>2, <2>3, <2>4
<1> HIDE DEF S
<1>5. Nat \subseteq S
  BY <1>3, <1>4, SetInduction
<1>6. QED
  BY <1>1, <1>2, <1>5 DEF S

Marked(d, ms) == [i \in DOMAIN ms |-> <<d, ms[i]>>]

LEMMA MarkedType ==
  ASSUME NEW d \in Dials, NEW h \in History, NEW ms \in Seq(Message)
  PROVE  /\ h \o Marked(d, ms) \in History
         /\ Len(h \o Marked(d, ms)) = Len(h) + Len(ms)
         /\ \A i \in 1..Len(h) : (h \o Marked(d, ms))[i] = h[i]
         /\ \A k \in 1..Len(ms) : (h \o Marked(d, ms))[Len(h) + k] = <<d, ms[k]>>
<1> DEFINE u == Marked(d, ms)
<1>1. Len(ms) \in Nat /\ DOMAIN ms = 1..Len(ms) /\ \A k \in 1..Len(ms) : ms[k] \in Message
  BY LenProperties, ElementOfSeq
<1>2. u = [i \in 1..Len(ms) |-> <<d, ms[i]>>]
  BY <1>1 DEF Marked
<1>3. u \in [1..Len(ms) -> Dials \X Message]
  BY <1>1, <1>2
<1>4. u \in Seq(Dials \X Message) /\ Len(u) = Len(ms) /\ \A k \in 1..Len(ms) : u[k] = <<d, ms[k]>>
  <2>1. u \in Seq(Dials \X Message)
    <3> DEFINE X == Dials \X Message
               l == Len(ms)
    <3>1. u \in [1..l -> X] /\ l \in Nat
      BY <1>1, <1>3
    <3> HIDE DEF X, l
    <3>2. u \in Seq(X)
      BY <3>1, SeqDef
    <3>3. QED
      BY <3>2 DEF X
  <2>2. DOMAIN u = 1..Len(u) /\ Len(u) \in Nat
    BY <2>1, LenProperties
  <2>3. DOMAIN u = 1..Len(ms)
    BY <1>2
  <2>4. Len(u) = Len(ms)
    <3> DEFINE a == Len(u)
               b == Len(ms)
    <3>1. a \in Nat /\ b \in Nat /\ 1..a = 1..b
      BY <1>1, <2>2, <2>3
    <3> HIDE DEF a, b
    <3>2. (a \in 1..a <=> a # 0) /\ (b \in 1..b <=> b # 0)
      BY <3>1
    <3>3. (a # 0 => a <= b /\ 1 \in 1..b) /\ (b # 0 => b <= a)
      BY <3>1, <3>2
    <3>4. a = b
      BY <3>1, <3>3
    <3>5. QED
      BY <3>4 DEF a, b
  <2>5. QED
    BY <1>2, <2>1, <2>4
<1> HIDE DEF u
<1>5. h \in Seq(Dials \X Message) /\ Len(h) \in Nat
  BY LenProperties DEF History
<1>6. /\ h \o u \in Seq(Dials \X Message)
      /\ Len(h \o u) = Len(h) + Len(u)
      /\ \A i \in 1..(Len(h) + Len(u)) : (h \o u)[i] = IF i <= Len(h) THEN h[i] ELSE u[i - Len(h)]
  BY <1>4, <1>5, ConcatProperties
<1>7. \A i \in 1..Len(h) : (h \o u)[i] = h[i]
  BY <1>1, <1>4, <1>5, <1>6
<1>8. ASSUME NEW k \in 1..Len(ms) PROVE (h \o u)[Len(h) + k] = <<d, ms[k]>>
  <2>1. Len(h) + k \in 1..(Len(h) + Len(u)) /\ ~(Len(h) + k <= Len(h)) /\ Len(h) + k - Len(h) = k
    BY <1>1, <1>4, <1>5
  <2>2. (h \o u)[Len(h) + k] = u[k]
    BY <1>6, <2>1
  <2>3. QED
    BY <1>4, <2>2
<1>9. QED
  BY <1>4, <1>6, <1>7, <1>8 DEF u, History

LEMMA HeardGrows ==
  ASSUME NEW d \in Dials, NEW h \in History, NEW ms \in Seq(Message), NEW e \in Dials
  PROVE  HeardOn(e, h \o Marked(d, ms)) = IF e = d THEN HeardOn(e, h) \o ms ELSE HeardOn(e, h)
<1> DEFINE g == h \o Marked(d, ms)
           n == Len(h)
           m == Len(ms)
           f == HeardAt(e, h)
           k(i) == SubSeq(ms, 1, i)
           F == HeardAt(e, g)
           S == {i \in Nat : i <= n => F[i] = f[i]}
           T == {i \in Nat : i <= m => F[n + i] = IF e = d THEN f[n] \o k(i) ELSE f[n]}
<1>1. /\ n \in Nat /\ m \in Nat /\ g \in History /\ Len(g) = n + m
      /\ \A i \in 1..n : g[i] = h[i]
      /\ \A i \in 1..m : g[n + i] = <<d, ms[i]>> /\ ms[i] \in Message
  <2>1. n \in Nat /\ m \in Nat
    BY LenProperties DEF History
  <2>2. \A i \in 1..m : ms[i] \in Message
    BY ElementOfSeq
  <2>3. QED
    BY <2>1, <2>2, MarkedType
<1> HIDE DEF g
<1>2. f[0] = <<>> /\ HeardOn(e, h) = f[n]
      /\ \A i \in 1..n : f[i] = IF h[i][1] = e THEN Append(f[i - 1], h[i][2]) ELSE f[i - 1]
  BY <1>1, Hears
<1>3. F[0] = <<>> /\ HeardOn(e, g) = F[n + m]
      /\ \A i \in 1..(n + m) : F[i] = IF g[i][1] = e THEN Append(F[i - 1], g[i][2]) ELSE F[i - 1]
  <2>1. Len(g) \in Nat
    BY <1>1
  <2>2. F[0] = <<>> /\ HeardOn(e, g) = F[Len(g)]
        /\ \A i \in 1..Len(g) :
             F[i] = IF g[i][1] = e THEN Append(F[i - 1], g[i][2]) ELSE F[i - 1]
    BY <2>1, Hears
  <2>3. QED
    BY <1>1, <2>2
<1> HIDE DEF f, F
<1>4. n \in S
  <2>1. 0 \in S
    BY <1>2, <1>3
  <2>2. ASSUME NEW i \in Nat, i \in S PROVE i + 1 \in S
    <3> SUFFICES ASSUME i + 1 <= n PROVE F[i + 1] = f[i + 1]
      OBVIOUS
    <3>1. i + 1 \in 1..n /\ i + 1 \in 1..(n + m) /\ i + 1 - 1 = i /\ i <= n
      BY <1>1
    <3>2. F[i] = f[i] /\ g[i + 1] = h[i + 1]
      BY <1>1, <2>2, <3>1
    <3>3. f[i + 1] = IF h[i + 1][1] = e THEN Append(f[i], h[i + 1][2]) ELSE f[i]
      BY <1>2, <3>1
    <3>4. F[i + 1] = IF g[i + 1][1] = e THEN Append(F[i], g[i + 1][2]) ELSE F[i]
      BY <1>3, <3>1
    <3>5. QED
      BY <3>2, <3>3, <3>4
  <2> HIDE DEF S
  <2>3. Nat \subseteq S
    BY <2>1, <2>2, SetInduction
  <2>4. QED
    BY <1>1, <2>3
<1>5. F[n] = f[n]
  BY <1>1, <1>4
<1>6. f[n] \in Seq(Message)
  BY <1>2, HeardType
<1>7. m \in T
  <2>1. 0 \in T
    <3>1. k(0) = <<>>
      BY SubSeqEmpty
    <3>2. f[n] \o <<>> = f[n]
      BY <1>6, ConcatEmptySeq
    <3>3. n + 0 = n
      BY <1>1
    <3>4. QED
      BY <1>5, <3>1, <3>2, <3>3
  <2>2. ASSUME NEW i \in Nat, i \in T PROVE i + 1 \in T
    <3> SUFFICES ASSUME i + 1 <= m
                 PROVE  F[n + (i + 1)] = IF e = d THEN f[n] \o k(i + 1) ELSE f[n]
      OBVIOUS
    <3>1. /\ i + 1 \in 1..m /\ n + (i + 1) \in 1..(n + m) /\ n + (i + 1) - 1 = n + i /\ i <= m
      BY <1>1
    <3>2. F[n + i] = IF e = d THEN f[n] \o k(i) ELSE f[n]
      BY <2>2, <3>1
    <3>3. g[n + (i + 1)] = <<d, ms[i + 1]>> /\ ms[i + 1] \in Message
      BY <1>1, <3>1
    <3>4. F[n + (i + 1)] = IF d = e THEN Append(F[n + i], ms[i + 1]) ELSE F[n + i]
      <4>1. g[n + (i + 1)][1] = d /\ g[n + (i + 1)][2] = ms[i + 1]
        BY <3>3
      <4>2. F[n + (i + 1)] = IF g[n + (i + 1)][1] = e
                             THEN Append(F[n + (i + 1) - 1], g[n + (i + 1)][2])
                             ELSE F[n + (i + 1) - 1]
        BY <1>3, <3>1
      <4>3. QED
        BY <3>1, <4>1, <4>2
    <3>5. k(i) \in Seq(Message) /\ k(i + 1) = k(i) \o <<ms[i + 1]>>
      <4>1. \A j \in 1..i : ms[j] \in Message
        BY <1>1, <3>1
      <4>2. k(i) \in Seq(Message)
        BY <4>1, SubSeqProperties
      <4>3. 1 \in 1..m /\ i + 1 \in 1..m /\ i + 1 - 1 = i
        BY <1>1, <3>1
      <4>4. k(i + 1) = SubSeq(ms, 1, i + 1 - 1) \o <<ms[i + 1]>>
        BY <4>3, SubSeqRecursiveSecond
      <4>5. QED
        BY <4>2, <4>3, <4>4
    <3>6. CASE e = d
      <4> DEFINE x == ms[i + 1]
                 s == f[n]
                 t == k(i)
      <4>1. F[n + (i + 1)] = Append(s \o t, x) /\ x \in Message /\ s \in Seq(Message)
            /\ t \in Seq(Message)
        BY <1>6, <3>2, <3>3, <3>4, <3>5, <3>6
      <4>2. k(i + 1) = t \o <<x>>
        BY <3>5
      <4> HIDE DEF x, s, t
      <4>3. <<x>> \in Seq(Message) /\ s \o t \in Seq(Message)
        BY <4>1, ConcatProperties
      <4>4. Append(s \o t, x) = (s \o t) \o <<x>>
        BY <4>1, <4>3, AppendIsConcat
      <4>5. (s \o t) \o <<x>> = s \o (t \o <<x>>)
        BY <4>1, <4>3, MessagesAssociate
      <4>6. F[n + (i + 1)] = s \o k(i + 1)
        BY <4>1, <4>2, <4>4, <4>5
      <4>7. QED
        BY <3>6, <4>6 DEF s
    <3>7. CASE e # d
      BY <3>2, <3>4, <3>7
    <3>8. QED
      BY <3>6, <3>7
  <2> HIDE DEF T
  <2>3. Nat \subseteq T
    BY <2>1, <2>2, SetInduction
  <2>4. QED
    BY <1>1, <2>3
<1>8. k(m) = ms
  BY SubSeqFull
<1>9. F[n + m] = IF e = d THEN f[n] \o ms ELSE f[n]
  <2>1. m \in Nat /\ m <= m
    BY <1>1
  <2> HIDE DEF k, m, n
  <2>2. F[n + m] = IF e = d THEN f[n] \o k(m) ELSE f[n]
    BY <1>7, <2>1
  <2>3. QED
    BY <1>8, <2>2
<1>10. QED
  BY <1>2, <1>3, <1>9 DEF g

-----------------------------------------------------------------------------
(* Who is heard.                                                           *)

Spoken(d) == \E i \in 1..Len(heard) : heard[i][1] = d

\* The listener has let nothing of it in so far.
Silent(d) ==
  \/ sock[d].host \in {"none", "queued"}
  \/ sock[d].host = "open" /\ ~sock[d].authed

VoiceShape ==
  /\ sent \in [Dials -> Seq(Message)]
  /\ heard \in History

OneSlot ==
  /\ \A d \in Dials : sock[d].host = "open" /\ sock[d].authed => d = active
  /\ \A d \in Dials : sock[d].host = "queued" => ~sock[d].authed
  /\ \A d \in Dials : sock[d].host = "open" => sock[d].authed \/ gated
  /\ Closed => active = 0

NotYetHeard ==
  \A d \in Dials : Silent(d) => ~Spoken(d) /\ HeardOn(d, heard) = <<>>

\* The connection that holds the slot is the one that spoke last, if it spoke.
SpeaksLast ==
  \A d \in Dials : Spoken(d) /\ d = active => heard[Len(heard)][1] = d

Unmixed ==
  \A i, k \in 1..Len(heard) :
    heard[i][1] = heard[k][1] => \A j \in i..k : heard[j][1] = heard[i][1]

VoiceInv == VoiceShape /\ OneSlot /\ NotYetHeard /\ SpeaksLast /\ Unmixed

-----------------------------------------------------------------------------
(* What was said, heard and is still under way.                            *)

Live(d) == sock[d].host \in {"queued", "open"}
Pending(d) == sock[d].buffer \o sock[d].wire
Said(d) == IF gated /\ ~sock[d].authed THEN <<"token">> \o sent[d] ELSE sent[d]
Heard(d) == HeardOn(d, heard)
ToHear(d) == Frames(Pending(d))

\* What is heard and what is under way is what was said: all of it as long as the room's
\* end is open, a beginning when it is not.
Stream(d) ==
  /\ sock[d].room = "none" => sent[d] = <<>>
  /\ Begins(Heard(d), sent[d])
  /\ Live(d) => Begins(Heard(d) \o ToHear(d), Said(d))
  /\ Live(d) /\ sock[d].room = "open" =>
       /\ Heard(d) \o ToHear(d) = Said(d)
       /\ Rest(Pending(d)) = <<>>

StreamInv == \A d \in Dials : Stream(d)

HearInv == ChannelInv /\ VoiceInv /\ StreamInv

LEMMA StreamTypes ==
  ASSUME ChannelInv, VoiceShape, NEW d \in Dials
  PROVE  /\ sock[d] \in Socket /\ sent[d] \in Seq(Message)
         /\ sock[d].buffer \in Seq(Byte) /\ sock[d].wire \in Seq(Byte)
         /\ Pending(d) \in Seq(Byte)
         /\ Heard(d) \in Seq(Message) /\ ToHear(d) \in Seq(Message)
         /\ Said(d) \in Seq(Message)
<1>1. sock[d] \in Socket /\ sent[d] \in Seq(Message)
  BY DEF ChannelInv, ChannelShape, VoiceShape
<1>2. sock[d].buffer \in Seq(Byte) /\ sock[d].wire \in Seq(Byte)
  BY <1>1 DEF Socket
<1>3. Pending(d) \in Seq(Byte)
  BY <1>2, ConcatProperties DEF Pending
<1>4. ToHear(d) \in Seq(Message)
  BY <1>3, FramesType DEF ToHear
<1>5. Heard(d) \in Seq(Message)
  BY HeardType DEF Heard, VoiceShape
<1>6. Said(d) \in Seq(Message)
  <2>1. <<"token">> \in Seq(Message)
    BY DEF Message
  <2>2. <<"token">> \o sent[d] \in Seq(Message)
    BY <1>1, <2>1, ConcatProperties
  <2>3. QED
    BY <1>1, <2>2 DEF Said
<1>7. QED
  BY <1>1, <1>2, <1>3, <1>4, <1>5, <1>6

LEMMA HearingStarts ==
  ChannelInit => HearInv
<1> SUFFICES ASSUME ChannelInit PROVE HearInv
  OBVIOUS
<1>1. ChannelInv
  BY ChannelStarts
<1>2. heard = <<>> /\ heard \in History /\ Len(heard) = 0
  BY EmptySeq DEF ChannelInit, History
<1>3. sent \in [Dials -> Seq(Message)] /\ \A d \in Dials : sent[d] = <<>>
  BY EmptySeq DEF ChannelInit
<1>4. \A d \in Dials : sock[d].room = "none" /\ sock[d].host = "none"
  BY DEF ChannelInit, Unmade
<1>5. ASSUME NEW d \in Dials PROVE Heard(d) = <<>>
  <2>1. Heard(d) = HeardAt(d, heard)[Len(heard)] /\ HeardAt(d, heard)[0] = <<>>
    BY <1>2, Hears DEF Heard
  <2>2. QED
    BY <1>2, <2>1
<1>6. VoiceInv
  <2>1. VoiceShape
    BY <1>2, <1>3 DEF VoiceShape
  <2>2. OneSlot
    BY <1>4 DEF OneSlot, Closed, ChannelInit
  <2>3. NotYetHeard
    BY <1>2, <1>5 DEF NotYetHeard, Spoken, Heard
  <2>4. SpeaksLast /\ Unmixed
    BY <1>2 DEF SpeaksLast, Spoken, Unmixed
  <2>5. QED
    BY <2>1, <2>2, <2>3, <2>4 DEF VoiceInv
<1>7. ASSUME NEW d \in Dials PROVE Stream(d)
  <2>1. ~Live(d) /\ sock[d].room = "none" /\ sent[d] = <<>> /\ Heard(d) = <<>>
    BY <1>3, <1>4, <1>5 DEF Live
  <2>2. Begins(<<>>, <<>>)
    BY EmptySeq, BeginsItself
  <2>3. QED
    BY <2>1, <2>2 DEF Stream
<1>8. QED
  BY <1>1, <1>6, <1>7 DEF HearInv, StreamInv

-----------------------------------------------------------------------------

\* A step in which nothing is heard.
LEMMA NothingHeard ==
  ASSUME VoiceInv, heard' = heard, sent' \in [Dials -> Seq(Message)], OneSlot',
         \A d \in Dials : Silent(d)' => Silent(d),
         \A d \in Dials : d = active' => d = active \/ Silent(d)
  PROVE  VoiceInv'
<1>1. \A d \in Dials : Spoken(d)' <=> Spoken(d)
  BY DEF Spoken
<1>2. VoiceShape'
  BY DEF VoiceInv, VoiceShape
<1>3. NotYetHeard'
  <2>1. ASSUME NEW d \in Dials, Silent(d)' PROVE ~Spoken(d)' /\ HeardOn(d, heard)' = <<>>
    <3>1. ~Spoken(d) /\ HeardOn(d, heard) = <<>>
      BY <2>1 DEF VoiceInv, NotYetHeard
    <3>2. QED
      BY <1>1, <3>1
  <2>2. QED
    BY <2>1 DEF NotYetHeard
<1>4. SpeaksLast'
  <2>1. ASSUME NEW d \in Dials, Spoken(d)', d = active' PROVE heard'[Len(heard')][1] = d
    <3>1. Spoken(d)
      BY <1>1, <2>1
    <3>2. d = active
      BY <2>1, <3>1 DEF VoiceInv, NotYetHeard
    <3>3. heard[Len(heard)][1] = d
      BY <3>1, <3>2 DEF VoiceInv, SpeaksLast
    <3>4. QED
      BY <3>3
  <2>2. QED
    BY <2>1 DEF SpeaksLast
<1>5. Unmixed'
  BY DEF VoiceInv, Unmixed
<1>6. QED
  BY <1>2, <1>3, <1>4, <1>5 DEF VoiceInv

\* A connection of which nothing is said, heard or lost.
LEMMA StreamStays ==
  ASSUME NEW d \in Dials, Stream(d), Heard(d)' = Heard(d), sent'[d] = sent[d],
         sock'[d].room = sock[d].room,
         Live(d)' => Live(d) /\ Pending(d)' = Pending(d) /\ Said(d)' = Said(d)
  PROVE  Stream(d)'
<1>1. sock'[d].room = "none" => sent'[d] = <<>>
  BY DEF Stream
<1>2. Begins(Heard(d)', sent'[d])
  BY DEF Stream
<1>3. ASSUME Live(d)'
      PROVE  /\ Begins(Heard(d)' \o ToHear(d)', Said(d)')
             /\ sock'[d].room = "open" =>
                  Heard(d)' \o ToHear(d)' = Said(d)' /\ Rest(Pending(d)') = <<>>
  <2>1. ToHear(d)' = ToHear(d)
    BY <1>3 DEF ToHear
  <2>2. QED
    BY <1>3, <2>1 DEF Stream
<1>4. QED
  BY <1>1, <1>2, <1>3 DEF Stream

-----------------------------------------------------------------------------
(* Steps of the room.                                                      *)

LEMMA SameHosts ==
  ASSUME VoiceInv, UNCHANGED <<gated, active, heard>>, sent' \in [Dials -> Seq(Message)],
         Closed' => Closed,
         \A d \in Dials : sock'[d].host = sock[d].host /\ sock'[d].authed = sock[d].authed
  PROVE  VoiceInv'
<1>1. OneSlot'
  BY DEF VoiceInv, OneSlot
<1>2. \A d \in Dials : Silent(d)' => Silent(d)
  BY DEF Silent
<1>3. QED
  BY <1>1, <1>2, NothingHeard

LEMMA SameHeard ==
  ASSUME heard' = heard, NEW d \in Dials
  PROVE  Heard(d)' = Heard(d)
BY DEF Heard

\* The room writes m on an open connection; if it shuts it, the frame may be lost.
LEMMA StreamSpeaks ==
  ASSUME HearInv, NEW d \in Dials, NEW m \in Message, sock[d].room = "open",
         UNCHANGED <<gated, heard>>, sent'[d] = Append(sent[d], m),
         sock'[d].host = sock[d].host, sock'[d].authed = sock[d].authed,
         sock'[d].buffer = sock[d].buffer,
         \/ sock'[d].room \in {"open", "shut"} /\ sock'[d].wire = sock[d].wire \o Frame(m)
         \/ sock'[d].room = "shut" /\ sock'[d].wire = sock[d].wire
  PROVE  Stream(d)'
<1> DEFINE b == sock[d].buffer
           w == sock[d].wire
           H == Heard(d)
           T == ToHear(d)
           Z == Said(d)
           p == Pending(d)
<1>1. /\ b \in Seq(Byte) /\ w \in Seq(Byte) /\ p \in Seq(Byte) /\ H \in Seq(Message)
      /\ T \in Seq(Message) /\ Z \in Seq(Message) /\ sent[d] \in Seq(Message)
  BY StreamTypes DEF HearInv, VoiceInv
<1>2. Stream(d)
  BY DEF HearInv, StreamInv
<1>3. Heard(d)' = H
  BY SameHeard
<1>4. Begins(Heard(d)', sent'[d])
  BY <1>1, <1>2, <1>3, BeginsLonger DEF Stream
<1>5. Live(d)' <=> Live(d)
  BY DEF Live
<1>6. Said(d)' = Append(Z, m)
  <2>1. CASE gated /\ ~sock[d].authed
    <3> DEFINE t == <<"token">>
               u == <<m>>
               x == sent[d]
    <3>1. Z = t \o x /\ Said(d)' = t \o Append(x, m)
      BY <2>1 DEF Said
    <3>2. t \in Seq(Message) /\ u \in Seq(Message) /\ x \in Seq(Message)
      BY <1>1 DEF Message
    <3>3. Append(x, m) = x \o u
      BY <3>2, AppendIsConcat
    <3>4. t \o x \in Seq(Message)
      BY <3>2, ConcatProperties
    <3>5. Append(t \o x, m) = (t \o x) \o u
      BY <3>4, AppendIsConcat
    <3> HIDE DEF t, u, x
    <3>6. t \o (x \o u) = (t \o x) \o u
      BY <3>2, MessagesAssociate
    <3>7. QED
      BY <3>1, <3>3, <3>5, <3>6
  <2>2. CASE ~(gated /\ ~sock[d].authed)
    BY <2>2 DEF Said
  <2>3. QED
    BY <2>1, <2>2
<1>7. ASSUME Live(d)
      PROVE  /\ Begins(Heard(d)' \o ToHear(d)', Said(d)')
             /\ sock'[d].room = "open" =>
                  Heard(d)' \o ToHear(d)' = Said(d)' /\ Rest(Pending(d)') = <<>>
  <2>1. H \o T = Z /\ Rest(p) = <<>>
    BY <1>2, <1>7 DEF Stream
  <2>2. CASE sock'[d].wire = w \o Frame(m)
    <3>1. Pending(d)' = p \o Frame(m)
      <4>1. Frame(m) \in Seq(Byte)
        BY FrameType
      <4>2. Pending(d)' = b \o (w \o Frame(m)) /\ p = b \o w
        BY <2>2 DEF Pending
      <4>3. b \o (w \o Frame(m)) = (b \o w) \o Frame(m)
        BY <1>1, <4>1, BytesAssociate
      <4>4. QED
        BY <4>2, <4>3
    <3>2. Frames(p \o Frame(m)) = Append(Frames(p), m) /\ Rest(p \o Frame(m)) = <<>>
      BY <1>1, <2>1, OneMore
    <3>3. ToHear(d)' = Append(T, m) /\ Rest(Pending(d)') = <<>>
      BY <3>1, <3>2 DEF ToHear
    <3>4. H \o Append(T, m) = Append(Z, m)
      <4> HIDE DEF H, T, Z
      <4>1. <<m>> \in Seq(Message)
        OBVIOUS
      <4>2. Append(T, m) = T \o <<m>> /\ Append(Z, m) = Z \o <<m>>
        BY <1>1, AppendIsConcat
      <4>3. H \o (T \o <<m>>) = (H \o T) \o <<m>>
        BY <1>1, <4>1, MessagesAssociate
      <4>4. QED
        BY <2>1, <4>2, <4>3
    <3>5. Heard(d)' \o ToHear(d)' = Said(d)'
      BY <1>3, <1>6, <3>3, <3>4
    <3>6. Append(Z, m) \in Seq(Message)
      BY <1>1, AppendProperties
    <3>7. Begins(Heard(d)' \o ToHear(d)', Said(d)')
      BY <1>6, <3>5, <3>6, BeginsItself
    <3>8. QED
      BY <3>3, <3>5, <3>7
  <2>3. CASE sock'[d].wire = w /\ sock'[d].room = "shut"
    <3>1. ToHear(d)' = T
      BY <2>3 DEF ToHear, Pending
    <3>2. Begins(Z, Append(Z, m))
      BY <1>1, BeginsItself, BeginsLonger
    <3>3. QED
      BY <1>3, <1>6, <2>1, <2>3, <3>1, <3>2
  <2>4. QED
    BY <2>2, <2>3
<1>8. sock'[d].room # "none"
  OBVIOUS
<1>9. QED
  BY <1>4, <1>5, <1>7, <1>8 DEF Stream

\* The room's end is shut, and of what is under way a beginning is left.
LEMMA StreamIsCut ==
  ASSUME HearInv, NEW d \in Dials, sock[d].room = "open",
         UNCHANGED <<gated, heard>>, sent'[d] = sent[d],
         sock'[d].host = sock[d].host, sock'[d].authed = sock[d].authed,
         sock'[d].buffer = sock[d].buffer, sock'[d].room = "shut",
         NEW v \in Seq(Byte), sock[d].wire = sock'[d].wire \o v, sock'[d].wire \in Seq(Byte)
  PROVE  Stream(d)'
<1> DEFINE b == sock[d].buffer
           w == sock'[d].wire
           H == Heard(d)
<1>1. /\ b \in Seq(Byte) /\ H \in Seq(Message)
      /\ ToHear(d) \in Seq(Message) /\ Said(d) \in Seq(Message)
  BY StreamTypes DEF HearInv, VoiceInv
<1>2. Stream(d)
  BY DEF HearInv, StreamInv
<1>3. Heard(d)' = H
  BY SameHeard
<1>4. Begins(Heard(d)', sent'[d])
  BY <1>2, <1>3 DEF Stream
<1>5. (Live(d)' <=> Live(d)) /\ Said(d)' = Said(d)
  BY DEF Live, Said
<1>6. Pending(d)' = b \o w /\ Pending(d) = b \o (w \o v)
  BY DEF Pending
<1>7. ASSUME Live(d) PROVE Begins(Heard(d)' \o ToHear(d)', Said(d)')
  <2> DEFINE q == b \o w
  <2>0. w \in Seq(Byte)
    OBVIOUS
  <2> HIDE DEF b, w, H
  <2>1. q \in Seq(Byte) /\ b \o (w \o v) = q \o v
    BY <1>1, <2>0, ConcatProperties, BytesAssociate
  <2> HIDE DEF q
  <2> DEFINE r == Rest(q) \o v
  <2>2. r \in Seq(Byte)
    BY <2>1, RestType, ConcatProperties
  <2>3. Frames(q \o v) = Frames(q) \o Frames(r)
    BY <2>1, CutAnywhere
  <2>4. Frames(q) \in Seq(Message) /\ Frames(r) \in Seq(Message)
    BY <2>1, <2>2, FramesType
  <2> HIDE DEF r
  <2>5. Begins(H \o (Frames(q) \o Frames(r)), Said(d))
    BY <1>2, <1>6, <1>7, <2>1, <2>3 DEF Stream, ToHear, H
  <2>6. H \o (Frames(q) \o Frames(r)) = (H \o Frames(q)) \o Frames(r)
    BY <1>1, <2>4, MessagesAssociate
  <2>7. H \o Frames(q) \in Seq(Message)
    BY <1>1, <2>4, ConcatProperties
  <2>8. Begins(H \o Frames(q), Said(d))
    BY <2>4, <2>5, <2>6, <2>7, BeginsEarlier
  <2>9. ToHear(d)' = Frames(q)
    BY <1>6 DEF ToHear, q
  <2>10. QED
    BY <1>3, <1>5, <2>8, <2>9 DEF H
<1>8. QED
  BY <1>4, <1>5, <1>7 DEF Stream

-----------------------------------------------------------------------------

LEMMA ConnectsHeard ==
  ASSUME HearInv, NEW d \in Dials, Connects(d)
  PROVE  HearInv'
<1> DEFINE w == IF gated THEN Frame("token") ELSE <<>>
           u == [Unmade EXCEPT !.room = "open", !.host = "queued", !.wire = w]
<1>1. ChannelInv /\ VoiceInv /\ sock \in [Dials -> Socket]
  BY DEF HearInv, ChannelInv, ChannelShape
<1>2. ChannelInv'
  BY <1>1, Connecting
<1>3. sock' = [sock EXCEPT ![d] = u] /\ UNCHANGED <<gated, listening, active, sent, heard>>
  BY DEF Connects
<1>4. /\ u.room = "open" /\ u.host = "queued" /\ u.wire = w /\ u.buffer = <<>>
      /\ u.authed = FALSE
  BY DEF Unmade
<1> HIDE DEF u
<1>5. \A e \in Dials : sock'[e] = IF e = d THEN u ELSE sock[e]
  BY <1>1, <1>3
<1>6. sock[d].room = "none"
  <2>1. Made = 1..(d - 1)
    BY DEF Connects, Latest
  <2>2. d \notin Made
    BY <2>1 DEF Dials
  <2>3. QED
    BY <2>2 DEF Made
<1>7. sock[d].host = "none" /\ sent[d] = <<>> /\ Heard(d) = <<>> /\ Silent(d)
  <2>1. sock[d].host = "none"
    BY <1>1, <1>6 DEF ChannelInv, UnmadeIsUnseen
  <2>2. Silent(d)
    BY <2>1 DEF Silent
  <2>3. Heard(d) = <<>>
    BY <1>1, <2>2 DEF VoiceInv, NotYetHeard, Heard
  <2>4. sent[d] = <<>>
    BY <1>6 DEF HearInv, StreamInv, Stream
  <2>5. QED
    BY <2>1, <2>2, <2>3, <2>4
<1>8. VoiceInv'
  <2>1. OneSlot'
    BY <1>1, <1>3, <1>4, <1>5 DEF VoiceInv, OneSlot, Closed
  <2>2. \A e \in Dials : Silent(e)' => Silent(e)
    BY <1>5, <1>7 DEF Silent
  <2>3. sent' \in [Dials -> Seq(Message)]
    BY <1>1, <1>3 DEF VoiceInv, VoiceShape
  <2>4. QED
    BY <1>1, <1>3, <2>1, <2>2, <2>3, NothingHeard
<1>9. Stream(d)'
  <2>1. w \in Seq(Byte) /\ Frame("token") \in Seq(Byte) /\ "token" \in Message
    BY FrameType, EmptySeq DEF Message
  <2>2. Heard(d)' = <<>> /\ sent'[d] = <<>> /\ sock'[d].room = "open"
    BY <1>3, <1>4, <1>5, <1>7, SameHeard
  <2>3. Pending(d)' = w
    <3>1. Pending(d)' = <<>> \o w
      BY <1>4, <1>5 DEF Pending
    <3> HIDE DEF w
    <3>2. QED
      BY <2>1, <3>1, ConcatEmptySeq
  <2>4. ToHear(d)' = Said(d)' /\ Rest(Pending(d)') = <<>> /\ Said(d)' \in Seq(Message)
    <3>1. CASE gated
      <4>1. ToHear(d)' = <<"token">> /\ Rest(Pending(d)') = <<>>
        BY <2>1, <2>3, <3>1, OneFrame DEF ToHear
      <4>2. Said(d)' = <<"token">> \o <<>>
        BY <1>3, <1>4, <1>5, <2>2, <3>1 DEF Said
      <4>3. <<"token">> \in Seq(Message)
        BY <2>1
      <4>4. QED
        BY <4>1, <4>2, <4>3, ConcatEmptySeq
    <3>2. CASE ~gated
      <4>1. ToHear(d)' = <<>> /\ Rest(Pending(d)') = <<>>
        BY <2>3, <3>2, NoBytes DEF ToHear
      <4>2. Said(d)' = <<>>
        BY <1>3, <1>4, <1>5, <2>2, <3>2 DEF Said
      <4>3. QED
        BY <4>1, <4>2, EmptySeq
    <3>3. QED
      BY <3>1, <3>2
  <2>5. Heard(d)' \o ToHear(d)' = Said(d)'
    <3> DEFINE z == Said(d)'
    <3>1. z \in Seq(Message) /\ ToHear(d)' = z
      BY <2>4
    <3> HIDE DEF z
    <3>2. <<>> \o z = z
      BY <3>1, ConcatEmptySeq
    <3>3. QED
      BY <2>2, <3>1, <3>2 DEF z
  <2>6. Begins(Heard(d)' \o ToHear(d)', Said(d)')
    BY <2>4, <2>5, BeginsItself
  <2>7. Begins(Heard(d)', sent'[d])
    BY <2>2, EmptySeq, BeginsItself
  <2>8. QED
    BY <2>2, <2>4, <2>5, <2>6, <2>7 DEF Stream
<1>10. ASSUME NEW e \in Dials, e # d PROVE Stream(e)'
  <2>1. sock'[e] = sock[e] /\ sent'[e] = sent[e] /\ Heard(e)' = Heard(e) /\ Stream(e)
    BY <1>3, <1>5, <1>10, SameHeard DEF HearInv, StreamInv
  <2>2. Live(e)' => Live(e) /\ Pending(e)' = Pending(e) /\ Said(e)' = Said(e)
    BY <1>3, <2>1 DEF Live, Pending, Said
  <2>3. QED
    BY <2>1, <2>2, StreamStays
<1>11. QED
  BY <1>2, <1>8, <1>9, <1>10 DEF HearInv, StreamInv

\* One connection moves on as said; the others stay.
LEMMA OneSpeaks ==
  ASSUME HearInv, ChannelInv', NEW d \in Dials, Stream(d)',
         UNCHANGED <<gated, active, heard>>, Closed' => Closed,
         sent' \in [Dials -> Seq(Message)],
         sock'[d].host = sock[d].host, sock'[d].authed = sock[d].authed,
         \A e \in Dials \ {d} : sock'[e] = sock[e] /\ sent'[e] = sent[e]
  PROVE  HearInv'
<1>1. VoiceInv'
  <2>1. \A e \in Dials : sock'[e].host = sock[e].host /\ sock'[e].authed = sock[e].authed
    OBVIOUS
  <2>2. QED
    BY <2>1, SameHosts DEF HearInv
<1>2. ASSUME NEW e \in Dials, e # d PROVE Stream(e)'
  <2>1. sock'[e] = sock[e] /\ sent'[e] = sent[e] /\ Heard(e)' = Heard(e) /\ Stream(e)
    BY <1>2, SameHeard DEF HearInv, StreamInv
  <2>2. Live(e)' => Live(e) /\ Pending(e)' = Pending(e) /\ Said(e)' = Said(e)
    BY <2>1 DEF Live, Pending, Said
  <2>3. QED
    BY <2>1, <2>2, StreamStays
<1>3. QED
  BY <1>1, <1>2 DEF HearInv, StreamInv

\* A step that is nothing to the connections.
LEMMA NoneSpeaks ==
  ASSUME HearInv, ChannelInv', UNCHANGED <<gated, active, sock, sent, heard>>, Closed' => Closed
  PROVE  HearInv'
<1>1. sent' \in [Dials -> Seq(Message)]
  BY DEF HearInv, VoiceInv, VoiceShape
<1>2. VoiceInv'
  BY <1>1, SameHosts DEF HearInv
<1>3. ASSUME NEW e \in Dials PROVE Stream(e)'
  <2>1. sock'[e] = sock[e] /\ sent'[e] = sent[e] /\ Heard(e)' = Heard(e) /\ Stream(e)
    BY <1>3, SameHeard DEF HearInv, StreamInv
  <2>2. Live(e)' => Live(e) /\ Pending(e)' = Pending(e) /\ Said(e)' = Said(e)
    BY <2>1 DEF Live, Pending, Said
  <2>3. QED
    BY <2>1, <2>2, StreamStays
<1>4. QED
  BY <1>2, <1>3 DEF HearInv, StreamInv

LEMMA WritesHeard ==
  ASSUME HearInv, NEW d \in Dials, NEW m \in Message, Writes(d, m),
         UNCHANGED <<gated, listening, active, attempts, heard>>
  PROVE  HearInv'
<1>1. ChannelInv'
  BY Writing DEF HearInv
<1>2. Closed' => Closed
  BY DEF Closed
<1>3. CASE d \in Linked
  <2>1. /\ sock \in [Dials -> Socket] /\ sock[d] \in Socket /\ sent \in [Dials -> Seq(Message)]
        /\ sock[d].room = "open"
    BY <1>3 DEF HearInv, ChannelInv, ChannelShape, VoiceInv, VoiceShape, Linked
  <2> DEFINE w == sock[d].wire \o Frame(m)
             y == [sock[d] EXCEPT !.wire = w]
             s == Append(sent[d], m)
  <2>2. sock' = [sock EXCEPT ![d] = y] /\ sent' = [sent EXCEPT ![d] = s]
    BY <1>3 DEF Writes
  <2> HIDE DEF w
  <2>3. /\ y.room = "open" /\ y.host = sock[d].host /\ y.authed = sock[d].authed
        /\ y.buffer = sock[d].buffer /\ y.wire = w
    BY <2>1 DEF Socket
  <2> HIDE DEF y
  <2>4. s \in Seq(Message)
    BY <2>1, AppendProperties
  <2> HIDE DEF s
  <2>5. /\ sock'[d] = y /\ sent'[d] = s /\ sent' \in [Dials -> Seq(Message)]
        /\ \A e \in Dials \ {d} : sock'[e] = sock[e] /\ sent'[e] = sent[e]
    BY <2>1, <2>2, <2>4
  <2>6. Stream(d)'
    BY <2>1, <2>3, <2>5, StreamSpeaks DEF s, w
  <2>7. QED
    BY <1>1, <1>2, <2>3, <2>5, <2>6, OneSpeaks
<1>4. CASE d \notin Linked
  BY <1>1, <1>2, <1>4, NoneSpeaks DEF Writes
<1>5. QED
  BY <1>3, <1>4

LEMMA StopsHeard ==
  ASSUME HearInv, NEW d \in Dials, Stops(d)
  PROVE  HearInv'
<1>1. ChannelInv'
  BY Stopping DEF HearInv
<1>2. (Closed' => Closed) /\ UNCHANGED <<gated, active, heard>>
  BY DEF Closed, Stops
<1>3. /\ sock \in [Dials -> Socket] /\ sock[d] \in Socket /\ sent \in [Dials -> Seq(Message)]
      /\ sock[d].room = "open"
  BY DEF HearInv, ChannelInv, ChannelShape, VoiceInv, VoiceShape, Linked, Stops
<1>4. PICK w \in {sock[d].wire \o Frame("stopped"), sock[d].wire} :
        sock' = [sock EXCEPT ![d].room = "shut", ![d].wire = w]
  BY DEF Stops
<1> DEFINE y == [[sock[d] EXCEPT !.room = "shut"] EXCEPT !.wire = w]
           s == Append(sent[d], "stopped")
<1>5. sock' = [sock EXCEPT ![d] = y] /\ sent' = [sent EXCEPT ![d] = s]
  BY <1>3, <1>4 DEF Stops
<1>6. /\ y.room = "shut" /\ y.host = sock[d].host /\ y.authed = sock[d].authed
      /\ y.buffer = sock[d].buffer /\ y.wire = w
  BY <1>3 DEF Socket
<1> HIDE DEF y
<1>7. "stopped" \in Message
  BY DEF Message
<1>8. s \in Seq(Message)
  BY <1>3, <1>7, AppendProperties
<1> HIDE DEF s
<1>9. /\ sock'[d] = y /\ sent'[d] = s /\ sent' \in [Dials -> Seq(Message)]
      /\ \A e \in Dials \ {d} : sock'[e] = sock[e] /\ sent'[e] = sent[e]
  BY <1>3, <1>5, <1>8
<1>10. Stream(d)'
  <2> DEFINE m == "stopped"
  <2>1. m \in Message /\ sent'[d] = Append(sent[d], m)
    BY <1>7, <1>9 DEF s
  <2>2. sock'[d].wire = sock[d].wire \o Frame(m) \/ sock'[d].wire = sock[d].wire
    BY <1>4, <1>6, <1>9
  <2> HIDE DEF m
  <2>3. /\ sock'[d].room = "shut" /\ sock'[d].host = sock[d].host
        /\ sock'[d].authed = sock[d].authed /\ sock'[d].buffer = sock[d].buffer
    BY <1>6, <1>9
  <2>4. QED
    BY <1>2, <1>3, <2>1, <2>2, <2>3, StreamSpeaks
<1>11. QED
  BY <1>1, <1>2, <1>6, <1>9, <1>10, OneSpeaks

LEMMA HangupHeard ==
  ASSUME HearInv, NEW S \in SUBSET Linked, Hangup(S),
         UNCHANGED <<gated, listening, active, attempts, sent, heard>>
  PROVE  HearInv'
<1>1. ChannelInv' /\ sock \in [Dials -> Socket] /\ sent \in [Dials -> Seq(Message)]
  BY HangingUp DEF HearInv, ChannelInv, ChannelShape, VoiceInv, VoiceShape
<1>2. PICK cut \in {"none", "half", "all"} :
    sock' = [d \in Dials |->
      IF d \notin S THEN sock[d]
      ELSE [sock[d] EXCEPT !.room = "shut",
              !.wire = CASE cut = "none" -> @
                         [] cut = "half" -> SubSeq(@, 1, Len(@) \div 2)
                         [] cut = "all"  -> <<>>]]
  BY DEF Hangup
<1> DEFINE w(d) == CASE cut = "none" -> sock[d].wire
                     [] cut = "half" -> SubSeq(sock[d].wire, 1, Len(sock[d].wire) \div 2)
                     [] cut = "all"  -> <<>>
<1>3. ASSUME NEW d \in Dials
      PROVE  w(d) \in Seq(Byte) /\ \E v \in Seq(Byte) : sock[d].wire = w(d) \o v
  <2> DEFINE x == sock[d].wire
             h == Len(x) \div 2
  <2>1. x \in Seq(Byte)
    BY <1>1 DEF Socket
  <2> HIDE DEF x
  <2>2. CASE cut = "none"
    <3>1. w(d) = x
      BY <2>2 DEF x
    <3>2. x = x \o <<>> /\ <<>> \in Seq(Byte)
      BY <2>1, EmptySeq, ConcatEmptySeq
    <3>3. QED
      BY <2>1, <3>1, <3>2 DEF x
  <2>3. CASE cut = "half"
    <3>1. w(d) = SubSeq(x, 1, h)
      BY <2>3 DEF x
    <3>2. Len(x) \in Nat
      BY <2>1, LenProperties
    <3>3. h \in 0..Len(x) /\ 0 = 1 - 1
      BY <3>2
    <3> HIDE DEF h
    <3>4. SubSeq(x, 1, h) \o SubSeq(x, h + 1, Len(x)) = SubSeq(x, 1, Len(x))
      <4>1. 1 \in 1..(Len(x) + 1) /\ h \in (1 - 1)..Len(x) /\ Len(x) \in h..Len(x)
        BY <3>2, <3>3
      <4>2. QED
        BY <2>1, <4>1, ConcatAdjacentSubSeq
    <3>5. SubSeq(x, 1, Len(x)) = x
      BY <2>1, SubSeqFull
    <3>6. SubSeq(x, 1, h) \in Seq(Byte)
      <4>1. \A i \in 1..h : x[i] \in Byte
        BY <2>1, <3>2, <3>3, ElementOfSeq
      <4>2. QED
        BY <3>3, <4>1, SubSeqProperties
    <3>7. SubSeq(x, h + 1, Len(x)) \in Seq(Byte)
      <4>1. h + 1 \in Int /\ Len(x) \in Int /\ \A i \in (h + 1)..Len(x) : x[i] \in Byte
        BY <2>1, <3>2, <3>3, ElementOfSeq
      <4>2. QED
        BY <4>1, SubSeqProperties
    <3>8. QED
      BY <3>1, <3>4, <3>5, <3>6, <3>7 DEF x
  <2>4. CASE cut = "all"
    <3>1. w(d) = <<>>
      BY <2>4
    <3>2. <<>> \o x = x /\ <<>> \in Seq(Byte)
      BY <2>1, EmptySeq, ConcatEmptySeq
    <3>3. QED
      BY <2>1, <3>1, <3>2 DEF x
  <2>5. QED
    BY <2>2, <2>3, <2>4
<1>4. \A d \in Dials : sock'[d] = IF d \notin S THEN sock[d]
                                  ELSE [sock[d] EXCEPT !.room = "shut", !.wire = w(d)]
  BY <1>2
<1> HIDE DEF w
<1>5. ASSUME NEW d \in Dials
      PROVE  sock'[d].host = sock[d].host /\ sock'[d].authed = sock[d].authed
  BY <1>1, <1>4, ZenonT(30) DEF Socket
<1>6. ASSUME NEW d \in Dials PROVE Stream(d)'
  <2>1. CASE d \in S
    <3>1. sock[d].room = "open" /\ sock[d] \in Socket
      BY <1>1, <2>1 DEF Linked
    <3>2. PICK v \in Seq(Byte) : sock[d].wire = w(d) \o v
      BY <1>3
    <3>3. /\ sock'[d].room = "shut" /\ sock'[d].wire = w(d) /\ sock'[d].buffer = sock[d].buffer
      BY <1>4, <2>1, <3>1 DEF Socket
    <3>4. sock'[d].wire \in Seq(Byte) /\ sock[d].wire = sock'[d].wire \o v
      BY <1>3, <3>2, <3>3
    <3>5. QED
      BY <1>5, <3>1, <3>3, <3>4, StreamIsCut
  <2>2. CASE d \notin S
    <3>1. sock'[d] = sock[d] /\ sent'[d] = sent[d] /\ Heard(d)' = Heard(d) /\ Stream(d)
      BY <1>4, <2>2, SameHeard DEF HearInv, StreamInv
    <3>2. Live(d)' => Live(d) /\ Pending(d)' = Pending(d) /\ Said(d)' = Said(d)
      BY <3>1 DEF Live, Pending, Said
    <3>3. QED
      BY <3>1, <3>2, StreamStays
  <2>3. QED
    BY <2>1, <2>2
<1>7. VoiceInv'
  <2>1. Closed' => Closed
    BY DEF Closed
  <2>2. sent' \in [Dials -> Seq(Message)]
    BY <1>1
  <2>3. QED
    BY <1>5, <2>1, <2>2, SameHosts DEF HearInv
<1>8. QED
  BY <1>1, <1>6, <1>7 DEF HearInv, StreamInv

-----------------------------------------------------------------------------
(* Steps of the listener.                                                  *)

\* The listener lets in or lets go, and hears nothing.
LEMMA Listens_Nothing ==
  ASSUME HearInv, ChannelInv', UNCHANGED <<gated, sent, heard>>, OneSlot',
         \A d \in Dials : Silent(d)' => Silent(d),
         \A d \in Dials : d = active' => d = active \/ Silent(d),
         \A d \in Dials : sock'[d].room = sock[d].room,
         \A d \in Dials : Live(d)' => Live(d) /\ Pending(d)' = Pending(d) /\ Said(d)' = Said(d)
  PROVE  HearInv'
<1>1. sent' \in [Dials -> Seq(Message)]
  BY DEF HearInv, VoiceInv, VoiceShape
<1>2. VoiceInv'
  BY <1>1, NothingHeard DEF HearInv
<1>3. ASSUME NEW d \in Dials PROVE Stream(d)'
  <2>1. sent'[d] = sent[d] /\ Heard(d)' = Heard(d) /\ Stream(d)
    BY <1>3, SameHeard DEF HearInv, StreamInv
  <2>2. QED
    BY <2>1, StreamStays
<1>4. QED
  BY <1>2, <1>3 DEF HearInv, StreamInv

LEMMA AcceptsHeard ==
  ASSUME HearInv, NEW d \in Dials, Accepts(d)
  PROVE  HearInv'
<1>1. sock \in [Dials -> Socket] /\ sock[d] \in Socket /\ gated \in BOOLEAN /\ OneSlot
  BY DEF HearInv, ChannelInv, ChannelShape, VoiceInv
<1>2. sock[d].host = "queued" /\ UNCHANGED <<gated, listening, attempts, sent, heard>>
  BY DEF Accepts
<1>3. ChannelInv'
  BY Accepting DEF HearInv
<1>4. ~sock[d].authed /\ d # active /\ Silent(d) /\ Live(d)
  BY <1>1, <1>2 DEF OneSlot, Silent, Live, HearInv, ChannelInv, SlotIsOpen
<1>5. CASE Closed \/ (~gated /\ ~MayAdopt(d))
  <2> DEFINE y == [[sock[d] EXCEPT !.host = "shut"] EXCEPT !.wire = <<>>]
  <2>1. sock' = [sock EXCEPT ![d].host = "shut", ![d].wire = <<>>] /\ active' = active
    BY <1>5 DEF Accepts
  <2>2. sock' = [sock EXCEPT ![d] = y]
    BY <1>1, <2>1
  <2>3. y.host = "shut" /\ y.room = sock[d].room
    BY <1>1 DEF Socket
  <2> HIDE DEF y
  <2>4. \A e \in Dials : sock'[e] = IF e = d THEN y ELSE sock[e]
    BY <1>1, <2>2
  <2>5. OneSlot'
    BY <1>1, <1>2, <2>1, <2>3, <2>4 DEF OneSlot, Closed
  <2>6. \A e \in Dials : Silent(e)' => Silent(e)
    BY <2>3, <2>4 DEF Silent
  <2>7. \A e \in Dials : sock'[e].room = sock[e].room
    BY <2>3, <2>4
  <2>8. ASSUME NEW e \in Dials, Live(e)'
        PROVE  Live(e) /\ Pending(e)' = Pending(e) /\ Said(e)' = Said(e)
    <3>1. sock'[e] = sock[e]
      BY <2>3, <2>4, <2>8 DEF Live
    <3>2. QED
      BY <1>2, <2>8, <3>1 DEF Live, Pending, Said
  <2>9. QED
    BY <1>2, <1>3, <2>1, <2>5, <2>6, <2>7, <2>8, Listens_Nothing
<1>6. CASE ~(Closed \/ (~gated /\ ~MayAdopt(d)))
  <2> DEFINE y == [[sock[d] EXCEPT !.host = "open"] EXCEPT !.authed = ~gated]
  <2>1. sock' = [sock EXCEPT ![d].host = "open", ![d].authed = ~gated]
        /\ active' = IF gated THEN active ELSE d
    BY <1>6 DEF Accepts
  <2>2. sock' = [sock EXCEPT ![d] = y]
    BY <1>1, <2>1
  <2>3. /\ y.host = "open" /\ y.room = sock[d].room /\ y.authed = ~gated
        /\ y.buffer = sock[d].buffer /\ y.wire = sock[d].wire
    BY <1>1 DEF Socket
  <2> HIDE DEF y
  <2>4. \A e \in Dials : sock'[e] = IF e = d THEN y ELSE sock[e]
    BY <1>1, <2>2
  <2>5. OneSlot'
    <3>1. ~gated => active = 0
      BY <1>6 DEF MayAdopt
    <3>2. 0 \notin Dials
      BY DEF Dials
    <3>3. ~Closed /\ listening' = listening
      BY <1>2, <1>6
    <3>4. \A e \in Dials : sock'[e].host = "open" /\ sock'[e].authed => e = active'
      BY <1>1, <2>1, <2>3, <2>4, <3>1, <3>2 DEF OneSlot
    <3>5. QED
      BY <1>1, <1>2, <2>3, <2>4, <3>3, <3>4 DEF OneSlot, Closed
  <2>6. \A e \in Dials : Silent(e)' => Silent(e)
    BY <1>4, <2>4 DEF Silent
  <2>7. \A e \in Dials : sock'[e].room = sock[e].room
    BY <2>3, <2>4
  <2>8. ASSUME NEW e \in Dials, Live(e)'
        PROVE  Live(e) /\ Pending(e)' = Pending(e) /\ Said(e)' = Said(e)
    <3>1. CASE e = d
      <4>1. Pending(e)' = Pending(e)
        BY <2>3, <2>4, <3>1 DEF Pending
      <4>2. Said(e)' = Said(e)
        BY <1>1, <1>2, <1>4, <2>3, <2>4, <3>1 DEF Said
      <4>3. QED
        BY <1>4, <3>1, <4>1, <4>2
    <3>2. CASE e # d
      <4>1. sock'[e] = sock[e]
        BY <2>4, <3>2
      <4>2. QED
        BY <1>2, <2>8, <4>1 DEF Live, Pending, Said
    <3>3. QED
      BY <3>1, <3>2
  <2>9. \A e \in Dials : e = active' => e = active \/ Silent(e)
    BY <1>1, <1>4, <2>1
  <2>10. QED
    BY <1>2, <1>3, <2>5, <2>6, <2>7, <2>8, <2>9, Listens_Nothing
<1>7. QED
  BY <1>5, <1>6

LEMMA HangsHeard ==
  ASSUME HearInv, NEW d \in Dials, Hangs(d)
  PROVE  HearInv'
<1> DEFINE y == [[sock[d] EXCEPT !.host = "shut"] EXCEPT !.buffer = <<>>]
<1>1. sock \in [Dials -> Socket] /\ sock[d] \in Socket /\ OneSlot
  BY DEF HearInv, ChannelInv, ChannelShape, VoiceInv
<1>2. sock[d].host = "open" /\ UNCHANGED <<gated, listening, attempts, sent, heard>>
      /\ sock' = [sock EXCEPT ![d].host = "shut", ![d].buffer = <<>>]
      /\ active' = IF active = d THEN 0 ELSE active
  BY DEF Hangs
<1>3. sock' = [sock EXCEPT ![d] = y]
  BY <1>1, <1>2
<1>4. y.host = "shut" /\ y.room = sock[d].room
  BY <1>1 DEF Socket
<1> HIDE DEF y
<1>5. \A e \in Dials : sock'[e] = IF e = d THEN y ELSE sock[e]
  BY <1>1, <1>3
<1>6. ChannelInv'
  BY Hanging DEF HearInv
<1>7. OneSlot'
  BY <1>1, <1>2, <1>4, <1>5 DEF OneSlot, Closed
<1>8. \A e \in Dials : Silent(e)' => Silent(e)
  BY <1>4, <1>5 DEF Silent
<1>9. \A e \in Dials : e = active' => e = active \/ Silent(e)
  <2>1. 0 \notin Dials
    BY DEF Dials
  <2>2. QED
    BY <1>2, <2>1
<1>10. \A e \in Dials : sock'[e].room = sock[e].room
  BY <1>4, <1>5
<1>11. ASSUME NEW e \in Dials, Live(e)'
       PROVE  Live(e) /\ Pending(e)' = Pending(e) /\ Said(e)' = Said(e)
  <2>1. sock'[e] = sock[e]
    BY <1>4, <1>5, <1>11 DEF Live
  <2>2. QED
    BY <1>2, <1>11, <2>1 DEF Live, Pending, Said
<1>12. QED
  BY <1>2, <1>6, <1>7, <1>8, <1>9, <1>10, <1>11, Listens_Nothing

LEMMA CloseHeard ==
  ASSUME HearInv, Close
  PROVE  HearInv'
<1>1. sock \in [Dials -> Socket] /\ OneSlot
  BY DEF HearInv, ChannelInv, ChannelShape, VoiceInv
<1>2. active' = 0 /\ UNCHANGED <<gated, attempts, sent, heard>>
  BY DEF Close
<1>3. \A x \in Socket : /\ [x EXCEPT !.host = "shut", !.wire = <<>>].host = "shut"
                        /\ [x EXCEPT !.host = "shut", !.wire = <<>>].room = x.room
  BY DEF Socket
<1>4. \A e \in Dials : sock'[e] = IF e = active THEN [sock[e] EXCEPT !.host = "shut", !.wire = <<>>]
                                  ELSE sock[e]
  BY DEF Close
<1>5. \A e \in Dials : /\ e # active => sock'[e] = sock[e]
                       /\ e = active => sock'[e].host = "shut"
                       /\ sock'[e].room = sock[e].room
  <2>1. ASSUME NEW e \in Dials, e # active PROVE sock'[e] = sock[e]
    BY <1>4, <2>1
  <2>2. ASSUME NEW e \in Dials, e = active
        PROVE  sock'[e].host = "shut" /\ sock'[e].room = sock[e].room
    <3>1. sock'[e] = [sock[e] EXCEPT !.host = "shut", !.wire = <<>>] /\ sock[e] \in Socket
      BY <1>1, <1>4, <2>2
    <3>2. QED
      BY <1>3, <3>1
  <2>3. QED
    BY <2>1, <2>2
<1>6. ChannelInv'
  BY Closing DEF HearInv
<1>7. OneSlot'
  BY <1>1, <1>2, <1>5 DEF OneSlot
<1>8. \A e \in Dials : Silent(e)' => Silent(e)
  BY <1>5 DEF Silent
<1>9. \A e \in Dials : e = active' => e = active \/ Silent(e)
  BY <1>2 DEF Dials
<1>10. \A e \in Dials : sock'[e].room = sock[e].room
  BY <1>5
<1>11. ASSUME NEW e \in Dials, Live(e)'
       PROVE  Live(e) /\ Pending(e)' = Pending(e) /\ Said(e)' = Said(e)
  <2>1. sock'[e] = sock[e]
    BY <1>5, <1>11 DEF Live
  <2>2. QED
    BY <1>2, <1>11, <2>1 DEF Live, Pending, Said
<1>12. QED
  BY <1>2, <1>6, <1>7, <1>8, <1>9, <1>10, <1>11, Listens_Nothing

\* A connection is heard: it holds the slot, or has had nothing to say but the token.
LEMMA SomeHeard ==
  ASSUME VoiceInv, NEW d \in Dials, NEW ms \in Seq(Message), heard' = heard \o Marked(d, ms),
         sent' \in [Dials -> Seq(Message)], OneSlot',
         \A e \in Dials : Silent(e)' => Silent(e),
         Silent(d)' => ms = <<>>,
         ms # <<>> => d = active',
         Spoken(d) => d = active,
         \A e \in Dials : e = active' => e = active \/ Silent(e)
  PROVE  VoiceInv'
<1> DEFINE n == Len(heard)
           m == Len(ms)
<1>1. heard \in History /\ n \in Nat /\ m \in Nat
  BY LenProperties DEF VoiceInv, VoiceShape, History
<1>2. /\ heard' \in History /\ Len(heard') = n + m
      /\ \A i \in 1..n : heard'[i] = heard[i]
      /\ \A k \in 1..m : heard'[n + k] = <<d, ms[k]>>
  BY <1>1, MarkedType
<1>3. m = 0 <=> ms = <<>>
  BY EmptySeq
<1> HIDE DEF n, m
<1>4. \A i \in 1..(n + m) : i \notin 1..n => i - n \in 1..m /\ n + (i - n) = i
  BY <1>1
<1>5. \A i \in 1..(n + m) : heard'[i][1] = IF i \in 1..n THEN heard[i][1] ELSE d
  <2>1. ASSUME NEW i \in 1..(n + m), i \notin 1..n PROVE heard'[i][1] = d
    <3> DEFINE k == i - n
    <3>1. k \in 1..m /\ n + k = i
      BY <1>4, <2>1
    <3> HIDE DEF k
    <3>2. heard'[n + k] = <<d, ms[k]>>
      BY <1>2, <3>1
    <3>3. heard'[i] = <<d, ms[k]>>
      BY <3>1, <3>2, Zenon
    <3>4. <<d, ms[k]>>[1] = d
      OBVIOUS
    <3>5. QED
      BY <3>3, <3>4
  <2>2. ASSUME NEW i \in 1..n PROVE heard'[i][1] = heard[i][1]
    BY <1>2
  <2>3. QED
    BY <2>1, <2>2
<1>6. \A e \in Dials : Spoken(e)' => Spoken(e) \/ (e = d /\ ms # <<>>)
  <2>1. ASSUME NEW e \in Dials, Spoken(e)' PROVE Spoken(e) \/ (e = d /\ ms # <<>>)
    <3>1. PICK i \in 1..(n + m) : heard'[i][1] = e
      BY <1>2, <2>1 DEF Spoken
    <3>2. CASE i \in 1..n
      BY <1>5, <3>1, <3>2 DEF Spoken, n
    <3>3. CASE i \notin 1..n
      <4>1. e = d /\ i - n \in 1..m
        BY <1>4, <1>5, <3>1, <3>3
      <4>2. m # 0
        BY <1>1, <4>1
      <4>3. QED
        BY <1>3, <4>1, <4>2
    <3>4. QED
      BY <3>2, <3>3
  <2>2. QED
    BY <2>1
<1>7. VoiceShape'
  BY <1>2 DEF VoiceShape
<1>8. NotYetHeard'
  <2>1. ASSUME NEW e \in Dials, Silent(e)' PROVE ~Spoken(e)' /\ HeardOn(e, heard') = <<>>
    <3>1. ~Spoken(e) /\ HeardOn(e, heard) = <<>>
      BY <2>1 DEF VoiceInv, NotYetHeard
    <3>2. HeardOn(e, heard') = IF e = d THEN HeardOn(e, heard) \o ms ELSE HeardOn(e, heard)
      BY <1>1, HeardGrows
    <3>3. e = d => ms = <<>>
      BY <2>1
    <3>4. <<>> \o <<>> = <<>>
      BY EmptySeq, ConcatEmptySeq
    <3>5. QED
      BY <1>6, <3>1, <3>2, <3>3, <3>4
  <2>2. QED
    BY <2>1 DEF NotYetHeard
<1>9. SpeaksLast'
  <2>1. ASSUME NEW e \in Dials, Spoken(e)', e = active' PROVE heard'[Len(heard')][1] = e
    <3>1. CASE ms = <<>>
      <4>1. Spoken(e) /\ e = active
        BY <1>6, <2>1, <3>1 DEF VoiceInv, NotYetHeard
      <4>2. heard[n][1] = e /\ n # 0
        BY <1>1, <4>1 DEF VoiceInv, SpeaksLast, Spoken, n
      <4>3. n + m = n /\ n \in 1..n /\ n \in 1..(n + m)
        BY <1>1, <1>3, <3>1, <4>2
      <4>4. QED
        BY <1>2, <1>5, <4>2, <4>3
    <3>2. CASE ms # <<>>
      <4>1. n + m \in 1..(n + m) /\ n + m \notin 1..n
        BY <1>1, <1>3, <3>2
      <4>2. QED
        BY <1>2, <1>5, <2>1, <3>2, <4>1
    <3>3. QED
      BY <3>1, <3>2
  <2>2. QED
    BY <2>1 DEF SpeaksLast
<1>10. Unmixed'
  <2>1. ASSUME NEW i \in 1..(n + m), NEW k \in 1..(n + m), heard'[i][1] = heard'[k][1],
               NEW j \in i..k
        PROVE  heard'[j][1] = heard'[i][1]
    <3>1. j \in 1..(n + m)
      BY <1>1
    <3>2. CASE k \in 1..n
      <4>1. i \in 1..n /\ j \in 1..n
        BY <1>1, <3>2
      <4>2. heard[i][1] = heard[k][1]
        BY <1>5, <2>1, <3>2, <4>1
      <4>3. heard[j][1] = heard[i][1]
        BY <3>2, <4>1, <4>2 DEF VoiceInv, Unmixed, n
      <4>4. QED
        BY <1>5, <3>1, <4>1, <4>3
    <3>3. CASE k \notin 1..n /\ i \notin 1..n
      <4>1. j \notin 1..n
        BY <1>1, <3>3
      <4>2. QED
        BY <1>5, <3>1, <3>3, <4>1
    <3>4. CASE k \notin 1..n /\ i \in 1..n
      <4>1. heard[i][1] = d /\ heard'[i][1] = d
        BY <1>5, <2>1, <3>4
      <4>2. Spoken(d)
        BY <3>4, <4>1 DEF Spoken, n
      <4>3. heard[n][1] = d
        BY <4>2 DEF VoiceInv, SpeaksLast, n
      <4>4. CASE j \in 1..n
        <5>1. n \in 1..n /\ j \in i..n
          BY <1>1, <4>4
        <5>2. heard[i][1] = heard[n][1]
          BY <4>1, <4>3
        <5>3. heard[j][1] = heard[i][1]
          BY <3>4, <5>1, <5>2 DEF VoiceInv, Unmixed, n
        <5>4. QED
          BY <1>5, <3>1, <4>1, <4>4, <5>3
      <4>5. CASE j \notin 1..n
        BY <1>5, <3>1, <4>1, <4>5
      <4>6. QED
        BY <4>4, <4>5
    <3>5. QED
      BY <3>2, <3>3, <3>4
  <2> DEFINE l == n + m
  <2>2. \A i, k \in 1..l : heard'[i][1] = heard'[k][1]
                             => \A j \in i..k : heard'[j][1] = heard'[i][1]
    BY <2>1
  <2>3. Len(heard') = l
    BY <1>2
  <2> HIDE DEF l
  <2>4. QED
    BY <2>2, <2>3 DEF Unmixed
<1>11. QED
  BY <1>7, <1>8, <1>9, <1>10 DEF VoiceInv

-----------------------------------------------------------------------------
(* A chunk arrives.                                                        *)

\* What a chunk takes and what it leaves make up what was under way.
LEMMA ChunkParts ==
  ASSUME ChannelInv, NEW d \in Dials, NEW n \in 1..Len(sock[d].wire)
  PROVE  /\ Parsed(d, n) \in Seq(Byte)
         /\ SubSeq(sock[d].wire, n + 1, Len(sock[d].wire)) \in Seq(Byte)
         /\ Pending(d) = Parsed(d, n) \o SubSeq(sock[d].wire, n + 1, Len(sock[d].wire))
<1> DEFINE w == sock[d].wire
           b == sock[d].buffer
           u == SubSeq(w, 1, n)
           v == SubSeq(w, n + 1, Len(w))
<1>1. w \in Seq(Byte) /\ b \in Seq(Byte)
  BY DEF ChannelInv, ChannelShape, Socket
<1>2. Parsed(d, n) \in Seq(Byte) /\ v \in Seq(Byte)
  BY ParsedType
<1>3. n \in 1..Len(w)
  OBVIOUS
<1>4. Parsed(d, n) = b \o u /\ Pending(d) = b \o w
  BY DEF Parsed, Merged, Pending
<1> HIDE DEF w, b
<1>5. Len(w) \in Nat
  BY <1>1, LenProperties
<1>6. u \o v = w
  <2>1. 1 \in 1..(Len(w) + 1) /\ n \in (1 - 1)..Len(w) /\ Len(w) \in n..Len(w)
    BY <1>3, <1>5
  <2>2. u \o v = SubSeq(w, 1, Len(w))
    BY <1>1, <2>1, ConcatAdjacentSubSeq
  <2>3. QED
    BY <1>1, <2>2, SubSeqFull
<1>7. u \in Seq(Byte)
  <2>1. \A i \in 1..n : w[i] \in Byte
    BY <1>1, <1>3, <1>5, ElementOfSeq
  <2>2. QED
    BY <1>3, <1>5, <2>1, SubSeqProperties
<1> HIDE DEF u, v
<1>8. b \o (u \o v) = (b \o u) \o v
  BY <1>1, <1>2, <1>7, BytesAssociate
<1>9. QED
  BY <1>2, <1>4, <1>6, <1>8 DEF v, w

\* The messages of the whole frames the parser has once the chunk is in.
Parsing(d, n) == Frames(Parsed(d, n))

\* What becomes of the connection whose chunk is admitted.
LEMMA ChunkAdmitted ==
  ASSUME HearInv, NEW d \in Dials, NEW n \in 1..Len(sock[d].wire), Chunk(d, n),
         Admitted(d, Parsing(d, n))
  PROVE  /\ sock[d].host = "open" /\ sock'[d].host = "open"
         /\ sock'[d].room = sock[d].room
         /\ sock'[d].buffer = Rest(Parsed(d, n))
         /\ sock'[d].wire = SubSeq(sock[d].wire, n + 1, Len(sock[d].wire))
         /\ sock'[d].authed = (sock[d].authed \/ Parsing(d, n) # <<>>)
         /\ sock[d].authed \in BOOLEAN
         /\ \A e \in Dials \ {d} : sock'[e] = sock[e]
         /\ active' = IF sock[d].authed \/ Parsing(d, n) = <<>> THEN active ELSE d
         /\ heard' = heard \o Marked(d, Messages(d, n))
         /\ Parsing(d, n) \in Seq(Message) /\ Messages(d, n) \in Seq(Message)
         /\ Messages(d, n) = IF Parsing(d, n) = <<>> THEN <<>>
                              ELSE IF sock[d].authed THEN Parsing(d, n)
                              ELSE Tail(Parsing(d, n))
         /\ UNCHANGED <<gated, listening, attempts, sent>>
<1>1. ChannelInv /\ sock \in [Dials -> Socket] /\ sock[d] \in Socket
  BY DEF HearInv, ChannelInv, ChannelShape
<1> DEFINE F == Parsing(d, n)
           ms == Messages(d, n)
           r == Rest(Parsed(d, n))
           w == SubSeq(sock[d].wire, n + 1, Len(sock[d].wire))
           a == sock[d].authed \/ F # <<>>
           y == [[[sock[d] EXCEPT !.buffer = r] EXCEPT !.authed = a] EXCEPT !.wire = w]
<1>2. /\ sock' = [sock EXCEPT ![d].buffer = Rest(Parsed(d, n)),
                              ![d].authed = @ \/ F # <<>>,
                              ![d].wire = SubSeq(@, n + 1, Len(@))]
      /\ active' = IF sock[d].authed \/ F = <<>> THEN active ELSE d
  BY DEF Chunk, Parsing
<1>3. /\ sock[d].host = "open" /\ UNCHANGED <<gated, listening, attempts, sent>>
      /\ heard' = heard \o Marked(d, ms)
  BY DEF Chunk, Marked
<1>4. sock' = [sock EXCEPT ![d] = y]
  BY <1>1, <1>2
<1> HIDE DEF r, w
<1>5. a \in BOOLEAN
  OBVIOUS
<1>6. /\ y.host = sock[d].host /\ y.room = sock[d].room /\ y.buffer = r /\ y.wire = w
      /\ y.authed = a
  BY <1>1 DEF Socket
<1> HIDE DEF y
<1>7. sock'[d] = y /\ \A e \in Dials \ {d} : sock'[e] = sock[e]
  BY <1>1, <1>4
<1>8. F \in Seq(Message)
  BY <1>1, ChunkParts, FramesType DEF Parsing
<1>9. ms = IF F = <<>> THEN <<>> ELSE IF sock[d].authed THEN F ELSE Tail(F)
  BY DEF Messages, Parsing
<1> HIDE DEF F, ms
<1>10. ms \in Seq(Message)
  <2>1. CASE F = <<>>
    BY <1>9, <2>1, EmptySeq
  <2>2. CASE F # <<>>
    <3>1. Tail(F) \in Seq(Message)
      BY <1>8, <2>2, HeadTailProperties
    <3>2. QED
      BY <1>8, <1>9, <2>2, <3>1
  <2>3. QED
    BY <2>1, <2>2
<1>11. sock[d].authed \in BOOLEAN
  BY <1>1 DEF Socket
<1>12. QED
  BY <1>2, <1>3, <1>6, <1>7, <1>8, <1>9, <1>10, <1>11 DEF a, r, w, F, ms

\* What has been heard moves on by the messages of the chunk, and what is under way loses
\* just these.
LEMMA ChunkStream ==
  ASSUME HearInv, NEW d \in Dials, NEW n \in 1..Len(sock[d].wire), Chunk(d, n),
         Admitted(d, Parsing(d, n))
  PROVE  Stream(d)'
<1> DEFINE F == Parsing(d, n)
           G == ToHear(d)'
           H == Heard(d)
           I == Heard(d)'
           T == ToHear(d)
           Y == Said(d)'
           Z == Said(d)
           ms == Messages(d, n)
           p == Parsed(d, n)
           v == SubSeq(sock[d].wire, n + 1, Len(sock[d].wire))
<1>1. /\ ChannelInv /\ VoiceInv /\ VoiceShape /\ Stream(d) /\ heard \in History
  BY DEF HearInv, StreamInv, VoiceInv, VoiceShape
<1>2. /\ sock[d].host = "open" /\ sock'[d].host = "open" /\ sock'[d].room = sock[d].room
      /\ sock'[d].buffer = Rest(p) /\ sock'[d].wire = v
      /\ sock'[d].authed = (sock[d].authed \/ F # <<>>) /\ sock[d].authed \in BOOLEAN
      /\ heard' = heard \o Marked(d, ms)
      /\ F \in Seq(Message) /\ ms \in Seq(Message)
      /\ ms = IF F = <<>> THEN <<>> ELSE IF sock[d].authed THEN F ELSE Tail(F)
      /\ gated' = gated /\ sent' = sent
  BY ChunkAdmitted
<1>3. H \in Seq(Message) /\ T \in Seq(Message) /\ Z \in Seq(Message) /\ sent[d] \in Seq(Message)
  BY <1>1, StreamTypes
<1>4. p \in Seq(Byte) /\ v \in Seq(Byte) /\ Pending(d) = p \o v
  BY <1>1, ChunkParts
<1>5. Pending(d)' = Rest(p) \o v
  BY <1>2 DEF Pending
<1> HIDE DEF p, v
<1>6. T = F \o G /\ Rest(Pending(d)) = Rest(Pending(d)') /\ G \in Seq(Message)
  <2>1. Rest(p) \o v \in Seq(Byte)
    BY <1>4, RestType, ConcatProperties
  <2>2. /\ Frames(p \o v) = Frames(p) \o Frames(Rest(p) \o v)
        /\ Rest(p \o v) = Rest(Rest(p) \o v)
    BY <1>4, CutAnywhere
  <2>3. Frames(Rest(p) \o v) \in Seq(Message)
    BY <2>1, FramesType
  <2>4. QED
    BY <1>4, <1>5, <2>2, <2>3 DEF ToHear, p, Parsing
<1>7. I = H \o ms
  BY <1>1, <1>2, HeardGrows DEF Heard
<1>8. Live(d) /\ Live(d)'
  BY <1>2 DEF Live
<1>9. Begins(H, sent[d]) /\ Begins(H \o T, Z)
  BY <1>1, <1>8 DEF Stream
<1>10. sock[d].room = "open" => H \o T = Z /\ Rest(Pending(d)) = <<>>
  BY <1>1, <1>8 DEF Stream
<1>11. Y = IF gated /\ ~sock'[d].authed THEN <<"token">> \o sent[d] ELSE sent[d]
  BY <1>2 DEF Said
<1>12. Z = IF gated /\ ~sock[d].authed THEN <<"token">> \o sent[d] ELSE sent[d]
  BY DEF Said
<1>13. ~sock[d].authed => gated /\ H = <<>>
  <2>1. ASSUME ~sock[d].authed PROVE gated /\ Silent(d)
    BY <1>1, <1>2, <2>1 DEF VoiceInv, OneSlot, Silent
  <2>2. QED
    BY <1>1, <2>1 DEF VoiceInv, NotYetHeard, Heard
<1> DEFINE s == sent[d]
<1> HIDE DEF F, G, H, I, T, Y, Z, s, ms
<1>14. /\ Begins(I, s)
       /\ Begins(I \o G, Y)
       /\ H \o T = Z => I \o G = Y
  <2>1. CASE sock[d].authed
    <3>1. Y = s /\ Z = s /\ ms = F
      BY <1>2, <1>11, <1>12, <2>1 DEF s
    <3>2. H \o (F \o G) = (H \o F) \o G
      <4>1. H \in Seq(Message) /\ F \in Seq(Message) /\ G \in Seq(Message)
        BY <1>2, <1>3, <1>6
      <4>2. QED
        BY <4>1, MessagesAssociate
    <3>3. H \o T = I \o G
      BY <1>6, <1>7, <3>1, <3>2
    <3>4. I \in Seq(Message)
      BY <1>2, <1>3, <1>7, ConcatProperties
    <3>5. Begins(I \o G, s)
      BY <1>9, <3>1, <3>3
    <3>6. Begins(I, s)
      BY <1>6, <3>4, <3>5, BeginsEarlier
    <3>7. QED
      BY <3>1, <3>3, <3>5, <3>6
  <2>2. CASE ~sock[d].authed /\ F = <<>>
    <3>1. Y = Z /\ ms = <<>>
      BY <1>2, <1>11, <1>12, <2>2
    <3>2. I = H /\ T = G
      BY <1>3, <1>6, <1>7, <2>2, <3>1, ConcatEmptySeq
    <3>3. QED
      BY <1>9, <3>1, <3>2 DEF s
  <2>3. CASE ~sock[d].authed /\ F # <<>>
    <3>1. H = <<>> /\ Y = s /\ Z = <<"token">> \o s /\ ms = Tail(F)
      BY <1>2, <1>11, <1>12, <1>13, <2>3 DEF s
    <3>2. I = ms
      BY <1>2, <1>7, <3>1, ConcatEmptySeq
    <3>3. H \o T = T
      BY <1>3, <3>1, ConcatEmptySeq
    <3>4. /\ T = <<"token">> \o s => ms \o G = s
          /\ Begins(T, <<"token">> \o s) => Begins(ms \o G, s)
      <4>1. F \in Seq(Message) /\ F # <<>> /\ G \in Seq(Message) /\ s \in Seq(Message)
        BY <1>2, <1>3, <1>6, <2>3 DEF s
      <4>2. /\ F \o G = <<"token">> \o s => Tail(F) \o G = s
            /\ Begins(F \o G, <<"token">> \o s) => Begins(Tail(F) \o G, s)
        BY <4>1, AfterToken
      <4>3. QED
        BY <1>6, <3>1, <4>2
    <3>5. Begins(I \o G, s)
      BY <1>9, <3>1, <3>2, <3>3, <3>4
    <3>6. Begins(I, s)
      BY <1>2, <1>6, <3>2, <3>5, BeginsEarlier
    <3>7. QED
      BY <3>1, <3>2, <3>3, <3>4, <3>5, <3>6
  <2>4. QED
    BY <2>1, <2>2, <2>3
<1>15. sock'[d].room = "none" => s = <<>>
  BY <1>1, <1>2 DEF Stream, s
<1>16. sent'[d] = s
  BY <1>2 DEF s
<1>17. sock'[d].room = "open" => I \o G = Y /\ Rest(Pending(d)') = <<>>
  BY <1>2, <1>6, <1>10, <1>14
<1>18. QED
  BY <1>14, <1>15, <1>16, <1>17 DEF Stream, I, G, Y

-----------------------------------------------------------------------------

LEMMA ChunkVoice ==
  ASSUME HearInv, NEW d \in Dials, NEW n \in 1..Len(sock[d].wire), Chunk(d, n),
         Admitted(d, Parsing(d, n))
  PROVE  VoiceInv'
<1> DEFINE F == Parsing(d, n)
           ms == Messages(d, n)
<1>1. /\ VoiceInv /\ OneSlot /\ sock \in [Dials -> Socket]
      /\ sent \in [Dials -> Seq(Message)]
  BY DEF HearInv, ChannelInv, ChannelShape, VoiceInv, VoiceShape
<1>2. /\ sock[d].host = "open" /\ sock'[d].host = "open"
      /\ sock'[d].authed = (sock[d].authed \/ F # <<>>) /\ sock[d].authed \in BOOLEAN
      /\ \A e \in Dials \ {d} : sock'[e] = sock[e]
      /\ active' = IF sock[d].authed \/ F = <<>> THEN active ELSE d
      /\ heard' = heard \o Marked(d, ms) /\ ms \in Seq(Message)
      /\ ms = IF F = <<>> THEN <<>> ELSE IF sock[d].authed THEN F ELSE Tail(F)
      /\ gated' = gated /\ listening' = listening /\ sent' = sent
  BY ChunkAdmitted
<1>3. ~sock[d].authed /\ F # <<>> => active = 0 /\ ~Closed
  BY DEF Admitted, MayAdopt
<1> HIDE DEF F, ms
<1>4. Silent(d) <=> ~sock[d].authed
  BY <1>2 DEF Silent
<1>5. sock[d].authed => d = active
  BY <1>1, <1>2 DEF OneSlot
<1>6. 0 \notin Dials
  BY DEF Dials
<1>7. OneSlot'
  <2>1. \A e \in Dials : sock'[e].host = "open" /\ sock'[e].authed => e = active'
    <3>1. ASSUME NEW e \in Dials, e # d, sock'[e].host = "open", sock'[e].authed
          PROVE  e = active'
      <4>1. sock'[e] = sock[e]
        BY <1>2, <3>1
      <4>2. e = active
        BY <1>1, <3>1, <4>1 DEF OneSlot
      <4>3. QED
        BY <1>2, <1>3, <1>6, <4>2
    <3>2. ASSUME sock'[d].authed PROVE d = active'
      BY <1>2, <1>5, <3>2
    <3>3. QED
      BY <3>1, <3>2
  <2>2. \A e \in Dials : sock'[e].host = "queued" => ~sock'[e].authed
    <3>1. ASSUME NEW e \in Dials, sock'[e].host = "queued" PROVE ~sock'[e].authed
      <4>1. e # d
        BY <1>2, <3>1
      <4>2. sock'[e] = sock[e]
        BY <1>2, <4>1
      <4>3. QED
        BY <1>1, <3>1, <4>2 DEF OneSlot
    <3>2. QED
      BY <3>1
  <2>3. \A e \in Dials : sock'[e].host = "open" => sock'[e].authed \/ gated'
    <3>1. ASSUME NEW e \in Dials, e # d, sock'[e].host = "open" PROVE sock'[e].authed \/ gated'
      <4>1. sock'[e] = sock[e]
        BY <1>2, <3>1
      <4>2. QED
        BY <1>1, <1>2, <3>1, <4>1 DEF OneSlot
    <3>2. sock'[d].authed \/ gated'
      BY <1>1, <1>2 DEF OneSlot
    <3>3. QED
      BY <3>1, <3>2
  <2>4. Closed' => active' = 0
    <3>1. Closed' <=> Closed
      BY <1>2 DEF Closed
    <3>2. Closed => active = 0
      BY <1>1 DEF OneSlot
    <3>3. QED
      BY <1>2, <1>3, <3>1, <3>2
  <2>5. QED
    BY <2>1, <2>2, <2>3, <2>4 DEF OneSlot
<1>8. \A e \in Dials : Silent(e)' => Silent(e)
  <2>1. ASSUME NEW e \in Dials, e # d, Silent(e)' PROVE Silent(e)
    BY <1>2, <2>1 DEF Silent
  <2>2. ASSUME Silent(d)' PROVE Silent(d)
    BY <1>2, <1>4, <2>2 DEF Silent
  <2>3. QED
    BY <2>1, <2>2
<1>9. Silent(d)' => ms = <<>>
  BY <1>2 DEF Silent
<1>10. ms # <<>> => d = active'
  BY <1>2, <1>5
<1>11. Spoken(d) => d = active
  <2>1. Silent(d) => ~Spoken(d)
    BY <1>1 DEF VoiceInv, NotYetHeard
  <2>2. QED
    BY <1>4, <1>5, <2>1
<1>12. \A e \in Dials : e = active' => e = active \/ Silent(e)
  BY <1>2, <1>4
<1>13. sent' \in [Dials -> Seq(Message)]
  BY <1>1, <1>2
<1>14. QED
  BY <1>1, <1>2, <1>7, <1>8, <1>9, <1>10, <1>11, <1>12, <1>13, SomeHeard

\* A chunk of a connection that is not admitted: the listener destroys it.
LEMMA ChunkRefused ==
  ASSUME HearInv, NEW d \in Dials, NEW n \in 1..Len(sock[d].wire), Chunk(d, n),
         ~Admitted(d, Parsing(d, n))
  PROVE  HearInv' /\ heard' = heard
<1> DEFINE y == [[[sock[d] EXCEPT !.host = "shut"] EXCEPT !.wire = <<>>] EXCEPT !.buffer = <<>>]
<1>1. sock \in [Dials -> Socket] /\ sock[d] \in Socket /\ OneSlot
  BY DEF HearInv, ChannelInv, ChannelShape, VoiceInv
<1>2. /\ sock[d].host = "open" /\ UNCHANGED <<gated, listening, attempts, sent, active>>
      /\ sock' = [sock EXCEPT ![d].host = "shut", ![d].wire = <<>>, ![d].buffer = <<>>]
  BY DEF Chunk, Parsing
<1>3. heard' = heard
  <2>1. Messages(d, n) = <<>>
    BY DEF Messages, Parsing
  <2>2. heard \in Seq(Dials \X Message)
    BY DEF HearInv, VoiceInv, VoiceShape, History
  <2>3. heard' = heard \o [i \in DOMAIN <<>> |-> <<d, <<>>[i]>>]
    BY <2>1 DEF Chunk
  <2>4. [i \in DOMAIN <<>> |-> <<d, <<>>[i]>>] = <<>>
    OBVIOUS
  <2>5. QED
    BY <2>2, <2>3, <2>4, ConcatEmptySeq
<1>4. sock' = [sock EXCEPT ![d] = y]
  BY <1>1, <1>2
<1>5. y.host = "shut" /\ y.room = sock[d].room
  BY <1>1 DEF Socket
<1> HIDE DEF y
<1>6. \A e \in Dials : sock'[e] = IF e = d THEN y ELSE sock[e]
  BY <1>1, <1>4
<1>7. ChannelInv'
  BY Chunking DEF HearInv
<1>8. OneSlot'
  BY <1>1, <1>2, <1>5, <1>6 DEF OneSlot, Closed
<1>9. \A e \in Dials : Silent(e)' => Silent(e)
  BY <1>5, <1>6 DEF Silent
<1>10. \A e \in Dials : e = active' => e = active \/ Silent(e)
  BY <1>2
<1>11. \A e \in Dials : sock'[e].room = sock[e].room
  BY <1>5, <1>6
<1>12. ASSUME NEW e \in Dials, Live(e)'
       PROVE  Live(e) /\ Pending(e)' = Pending(e) /\ Said(e)' = Said(e)
  <2>1. sock'[e] = sock[e]
    BY <1>5, <1>6, <1>12 DEF Live
  <2>2. QED
    BY <1>2, <1>12, <2>1 DEF Live, Pending, Said
<1>13. HearInv'
  BY <1>2, <1>3, <1>7, <1>8, <1>9, <1>10, <1>11, <1>12, Listens_Nothing
<1>14. QED
  BY <1>3, <1>13

LEMMA ChunkHeard ==
  ASSUME HearInv, NEW d \in Dials, NEW n \in 1..Len(sock[d].wire), Chunk(d, n)
  PROVE  HearInv'
<1>1. CASE ~Admitted(d, Parsing(d, n))
  BY <1>1, ChunkRefused
<1>2. CASE Admitted(d, Parsing(d, n))
  <2>1. ChannelInv'
    BY Chunking DEF HearInv
  <2>2. VoiceInv' /\ Stream(d)'
    BY <1>2, ChunkVoice, ChunkStream
  <2>3. ASSUME NEW e \in Dials, e # d PROVE Stream(e)'
    <3>1. /\ sock'[e] = sock[e] /\ sent'[e] = sent[e] /\ gated' = gated
          /\ heard' = heard \o Marked(d, Messages(d, n)) /\ Messages(d, n) \in Seq(Message)
      BY <1>2, <2>3, ChunkAdmitted
    <3>2. heard \in History /\ Stream(e)
      BY DEF HearInv, VoiceInv, VoiceShape, StreamInv
    <3>3. Heard(e)' = Heard(e)
      BY <2>3, <3>1, <3>2, HeardGrows DEF Heard
    <3>4. Live(e)' => Live(e) /\ Pending(e)' = Pending(e) /\ Said(e)' = Said(e)
      BY <3>1 DEF Live, Pending, Said
    <3>5. QED
      BY <3>1, <3>2, <3>3, <3>4, StreamStays
  <2>4. QED
    BY <2>1, <2>2, <2>3 DEF HearInv, StreamInv
<1>3. QED
  BY <1>1, <1>2

\* A closed channel has let go of its connection, and lets in no other.
LEMMA ClosedIsDeaf ==
  ASSUME HearInv, Closed, NEW d \in Dials, NEW n \in 1..Len(sock[d].wire), Chunk(d, n)
  PROVE  heard' = heard
<1>1. active = 0 /\ sock[d].host = "open" /\ ~sock[d].authed
  BY DEF HearInv, VoiceInv, OneSlot, Chunk, Dials
<1>2. CASE ~Admitted(d, Parsing(d, n))
  BY <1>2, ChunkRefused
<1>3. CASE Admitted(d, Parsing(d, n))
  <2>1. Parsing(d, n) = <<>>
    BY <1>1, <1>3 DEF Admitted, MayAdopt
  <2>2. heard' = heard \o Marked(d, <<>>)
    <3>1. heard' = heard \o Marked(d, Messages(d, n))
      BY <1>3, ChunkAdmitted
    <3>2. Messages(d, n) = <<>>
      BY <2>1 DEF Messages, Parsing
    <3>3. QED
      BY <3>1, <3>2
  <2>3. Marked(d, <<>>) = <<>>
    BY DEF Marked
  <2>4. heard \in Seq(Dials \X Message)
    BY DEF HearInv, VoiceInv, VoiceShape, History
  <2>5. QED
    BY <2>2, <2>3, <2>4, ConcatEmptySeq
<1>4. QED
  BY <1>2, <1>3

-----------------------------------------------------------------------------
(* What the server hears of the room.                                      *)

LEMMA ChannelQuiet ==
  ASSUME HearInv, UNCHANGED channel
  PROVE  HearInv' /\ heard' = heard
<1>1. UNCHANGED <<gated, active, sock, sent, heard, listening>>
  BY DEF channel
<1>2. ChannelInv'
  BY ChannelUntouched DEF HearInv
<1>3. QED
  BY <1>1, <1>2, NoneSpeaks DEF Closed

\* The listener is bound, at last.
LEMMA ListensHeard ==
  ASSUME HearInv, UNCHANGED <<gated, active, sock, attempts, sent, heard>>,
         listening' \in {"no", "yes"}
  PROVE  HearInv' /\ heard' = heard
<1>1. ChannelInv'
  BY ChannelStays DEF HearInv
<1>2. QED
  BY <1>1, NoneSpeaks DEF Closed

LEMMA DiesHeard ==
  ASSUME HearInv, Dies
  PROVE  HearInv' /\ heard' = heard
<1>1. Hangup(Linked) /\ UNCHANGED <<gated, listening, active, attempts, sent, heard>>
  BY DEF Dies
<1>2. QED
  BY <1>1, HangupHeard

LEMMA ReportHeard ==
  ASSUME HearInv, NEW s, Report(s)
  PROVE  HearInv' /\ heard' = heard
<1>1. CASE reported
  BY <1>1, ChannelQuiet DEF Report
<1>2. CASE ~reported
  <2>1. Close
    BY <1>2 DEF Report
  <2>2. QED
    BY <2>1, CloseHeard DEF Close
<1>3. QED
  BY <1>1, <1>2

LEMMA ProcessHeard ==
  ASSUME HearInv,
         CreateRoom \/ ServerSteps \/ SpawnSettles \/ ProcessSteps \/ Exits
  PROVE  HearInv' /\ heard' = heard
<1>1. CASE CreateRoom \/ ServerSteps
  <2>1. UNCHANGED channel
    BY <1>1 DEF CreateRoom, ServerSteps, DestroyWorker, Stalls, StartupTimesOut
  <2>2. QED
    BY <2>1, ChannelQuiet
<1>2. CASE SpawnSettles
  <2>1. UNCHANGED <<gated, active, sock, attempts, sent, heard>> /\ listening' \in {"no", "yes"}
    BY <1>2 DEF SpawnSettles, SpawnCompletes, SpawnRejects, Listens
  <2>2. QED
    BY <2>1, ListensHeard
<1>3. CASE ExitEvent
  BY <1>3, ReportHeard DEF ExitEvent
<1>4. CASE ErrorEvent
  BY <1>4, ReportHeard DEF ErrorEvent
<1>5. CASE KillTimeout
  BY <1>5, DiesHeard, ChannelQuiet DEF KillTimeout
<1>6. CASE SigTerm
  <2>1. CASE room = "booting"
    BY <1>6, <2>1, DiesHeard DEF SigTerm
  <2>2. CASE room # "booting"
    <3>1. Hangup(Linked) /\ UNCHANGED <<gated, listening, active, attempts, sent, heard>>
      BY <1>6, <2>2 DEF SigTerm
    <3>2. QED
      BY <3>1, HangupHeard
  <2>3. QED
    BY <2>1, <2>2
<1>7. CASE Exits
  BY <1>7, DiesHeard DEF Exits
<1>8. QED
  BY <1>1, <1>2, <1>3, <1>4, <1>5, <1>6, <1>7 DEF ProcessSteps

LEMMA RoomHeard ==
  ASSUME HearInv, NEW d \in Dials,
         Dialling(d) \/ Starts(d) \/ Beats(d) \/ Stops(d) \/ Dropped(d)
  PROVE  HearInv' /\ heard' = heard
<1>1. CASE Dialling(d)
  <2>1. Connects(d) /\ heard' = heard
    BY <1>1 DEF Dialling, Connects
  <2>2. QED
    BY <2>1, ConnectsHeard
<1>2. CASE Starts(d)
  <2>1. Writes(d, "ready") /\ "ready" \in Message
        /\ UNCHANGED <<gated, listening, active, attempts, heard>>
    BY <1>2 DEF Starts, Message
  <2>2. QED
    BY <2>1, WritesHeard
<1>3. CASE Beats(d)
  <2>1. Writes(d, "beat") /\ "beat" \in Message
        /\ UNCHANGED <<gated, listening, active, attempts, heard>>
    BY <1>3 DEF Beats, Message
  <2>2. QED
    BY <2>1, WritesHeard
<1>4. CASE Stops(d)
  <2>1. heard' = heard
    BY <1>4 DEF Stops
  <2>2. QED
    BY <1>4, <2>1, StopsHeard
<1>5. CASE Dropped(d)
  <2>1. Hangup({d}) /\ {d} \in SUBSET Linked
        /\ UNCHANGED <<gated, listening, active, attempts, sent, heard>>
    BY <1>5 DEF Dropped, Drops, Linked
  <2>2. QED
    BY <2>1, HangupHeard
<1>6. QED
  BY <1>1, <1>2, <1>3, <1>4, <1>5

LEMMA DialRefusedHeard ==
  ASSUME HearInv, DialRefused
  PROVE  HearInv' /\ heard' = heard
<1>1. UNCHANGED <<gated, listening, active, sock, sent, heard>>
      /\ attempts < MaxAttempts /\ attempts' = attempts + 1
  BY DEF DialRefused, Refused
<1>2. ChannelInv'
  BY <1>1, ChannelAssumption
     DEF HearInv, ChannelInv, ChannelShape, SlotIsOpen, UnmadeIsUnseen
<1>3. QED
  BY <1>1, <1>2, NoneSpeaks DEF Closed

LEMMA ChannelHeard ==
  ASSUME HearInv, ChannelSteps
  PROVE  HearInv' /\ (Closed => heard' = heard)
<1>1. PICK d \in Dials : \/ Accepted(d) \/ HungUp(d)
                         \/ \E n \in 1..Len(sock[d].wire) : Data(d, n)
  BY DEF ChannelSteps
<1>2. CASE Accepted(d)
  <2>1. Accepts(d) /\ heard' = heard
    BY <1>2 DEF Accepted, Accepts
  <2>2. QED
    BY <2>1, AcceptsHeard
<1>3. CASE HungUp(d)
  <2>1. Hangs(d) /\ heard' = heard
    BY <1>3 DEF HungUp, Hangs
  <2>2. QED
    BY <2>1, HangsHeard
<1>4. CASE \E n \in 1..Len(sock[d].wire) : Data(d, n)
  <2>1. PICK n \in 1..Len(sock[d].wire) : Chunk(d, n)
    BY <1>4 DEF Data
  <2>2. HearInv'
    BY <2>1, ChunkHeard
  <2>3. Closed => heard' = heard
    BY <2>1, ClosedIsDeaf
  <2>4. QED
    BY <2>2, <2>3
<1>5. QED
  BY <1>1, <1>2, <1>3, <1>4

LEMMA StepsHeard ==
  HearInv /\ [Next]_vars => HearInv' /\ (Closed => heard' = heard)
<1> SUFFICES ASSUME HearInv, [Next]_vars PROVE HearInv' /\ (Closed => heard' = heard)
  OBVIOUS
<1>1. CASE CreateRoom \/ ServerSteps \/ SpawnSettles \/ ProcessSteps \/ Exits
  BY <1>1, ProcessHeard
<1>2. CASE RoomSteps \/ \E d \in Dials : Dropped(d)
  BY <1>2, RoomHeard DEF RoomSteps
<1>3. CASE DialRefused
  BY <1>3, DialRefusedHeard
<1>4. CASE ChannelSteps
  BY <1>4, ChannelHeard
<1>5. CASE UNCHANGED vars
  <2>1. UNCHANGED channel
    BY <1>5 DEF vars
  <2>2. QED
    BY <2>1, ChannelQuiet
<1>6. QED
  BY <1>1, <1>2, <1>3, <1>4, <1>5 DEF Next

LEMMA HeardIsInOrder ==
  HearInv => HeardInOrder
<1> SUFFICES ASSUME HearInv PROVE HeardInOrder
  OBVIOUS
<1>1. VoiceInv /\ heard \in Seq(Dials \X Message)
  BY DEF HearInv, VoiceInv, VoiceShape, History
<1>2. ASSUME NEW d \in Dials PROVE IsPrefix(HeardOn(d, heard), sent[d])
  <2>1. Begins(Heard(d), sent[d])
    BY DEF HearInv, StreamInv, Stream
  <2>2. Heard(d) \in Seq(Message) /\ sent[d] \in Seq(Message)
    BY <1>1, StreamTypes DEF HearInv, VoiceInv
  <2>3. QED
    BY <2>1, <2>2, BeginsIsPrefix DEF Heard
<1>3. DOMAIN heard = 1..Len(heard)
  BY <1>1, LenProperties
<1>4. QED
  BY <1>1, <1>2, <1>3 DEF HeardInOrder, VoiceInv, Unmixed

\* However the stream is cut into chunks and whatever of it is lost, and however often the
\* room dials again, the server hears of each connection a beginning of what the room wrote
\* on it, in order, nothing twice, and nothing of one connection amid another; and once the
\* channel is closed it hears nothing any more.
THEOREM TheRoomIsHeard == Spec => ServerHearsTheRoom
<1>1. Init => HearInv
  BY HearingStarts DEF Init
<1>2. HearInv /\ [Next]_vars => HearInv'
  BY StepsHeard
<1>3. HearInv /\ [Next]_vars => [Closed => heard' = heard]_channel
  BY StepsHeard
<1>4. HearInv => HeardInOrder
  BY HeardIsInOrder
<1>5. QED
  BY <1>1, <1>2, <1>3, <1>4, PTL DEF Spec, ServerHearsTheRoom

=============================================================================
