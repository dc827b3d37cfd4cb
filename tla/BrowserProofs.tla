---------------------------- MODULE BrowserProofs ----------------------------
(***************************************************************************)
(* Proofs about the passive observers of a browser.                         *)
(*                                                                         *)
(* First, the frames of a streamed response are kept as they were sent: a   *)
(* stream has decoded the chunks before some chunk, and the observations    *)
(* that wait in the queue are the chunks from there on, unless one of them  *)
(* was dropped.  What the chunks join to is a fold; its laws are proved by  *)
(* an induction over the naturals, stated for sets of them.                 *)
(*                                                                         *)
(* Second, in the session with a browser every response of the page is in   *)
(* one place, once: the queue, the batch that is worked off, the list of    *)
(* those that wait for their end, or it has ended; and a body whose         *)
(* response the observer hears of before the page is not retained twice:    *)
(* the observer is drained before the queue is, so its stream is there when *)
(* the reader of finite bodies asks who owns the URL.                       *)
(*                                                                         *)
(* Third, every script a page announced is accounted for.                   *)
(***************************************************************************)
EXTENDS MCBrowser, FiniteSetTheorems, SequenceTheorems, WellFoundedInduction, TLAPS

(* Induction over the naturals, for a set of them. *)
Smaller == {ss \in Nat \X Nat : ss[1] < ss[2]}

LEMMA SmallerWellFounded == IsWellFoundedOn(Smaller, Nat)
BY NatLessThanWellFounded DEF OpToRel, Smaller

LEMMA NaturalInduction ==
    ASSUME NEW T, 0 \in T, \A n \in Nat : n \in T => n + 1 \in T
    PROVE  Nat \subseteq T
<1>1. SUFFICES ASSUME Nat \ T # {} PROVE FALSE
    OBVIOUS
<1>2. PICK n \in Nat \ T : \A m \in Nat \ T : ~ (<<m, n>> \in Smaller)
    BY <1>1, SmallerWellFounded, WFMin
<1>3. n # 0 /\ n - 1 \in Nat /\ n - 1 < n
    OBVIOUS
<1>4. n - 1 \in T
    BY <1>2, <1>3 DEF Smaller
<1> QED
    BY <1>3, <1>4

(* The running concatenation by which FlattenSeq is defined. *)
Concatenates(f, s, n) == \A i \in 1..n : f[i] = IF i = 1 THEN s[1] ELSE f[i - 1] \o s[i]

LEMMA ConcatenationIsDefined ==
    ASSUME NEW s, Len(s) \in Nat
    PROVE  \E f : f = [i \in 1..Len(s) |-> f[i]] /\ Concatenates(f, s, Len(s))
<1> DEFINE T == {n \in Nat : \E f : Concatenates(f, s, n)}
<1>1. 0 \in T
    BY DEF Concatenates
<1>2. ASSUME NEW n \in Nat, n \in T PROVE n + 1 \in T
  <2>1. PICK f : Concatenates(f, s, n)
    BY <1>2
  <2> DEFINE g == [i \in 1..(n + 1) |-> IF i = 1 THEN s[1] ELSE f[i - 1] \o s[i]]
  <2>2. ASSUME NEW i \in 1..n PROVE i \in 1..(n + 1) /\ g[i] = f[i]
    BY <2>1 DEF Concatenates
  <2>3. ASSUME NEW i \in 1..(n + 1), i # 1 PROVE g[i] = g[i - 1] \o s[i]
    <3>1. i - 1 \in 1..n
      BY <2>3
    <3>2. g[i - 1] = f[i - 1]
      BY <3>1, <2>2
    <3> QED
      BY <3>2, <2>3
  <2>4. g[1] = s[1]
    OBVIOUS
  <2> HIDE DEF g
  <2>5. Concatenates(g, s, n + 1)
    BY <2>3, <2>4 DEF Concatenates
  <2> QED
    BY <2>5
<1>3. Len(s) \in T
  <2> HIDE DEF T
  <2> QED
    BY <1>1, <1>2, NaturalInduction
<1>4. PICK f : Concatenates(f, s, Len(s))
    BY <1>3
<1> DEFINE g == [i \in 1..Len(s) |-> f[i]]
<1>5. ASSUME NEW i \in 1..Len(s) PROVE g[i] = IF i = 1 THEN s[1] ELSE g[i - 1] \o s[i]
  <2>1. CASE i = 1
    BY <2>1, <1>4 DEF Concatenates
  <2>2. CASE i # 1
    <3>1. i - 1 \in 1..Len(s)
      BY <2>2
    <3> QED
      BY <2>2, <3>1, <1>4 DEF Concatenates
  <2> QED
    BY <2>1, <2>2
<1>6. g = [i \in 1..Len(s) |-> g[i]]
    OBVIOUS
<1> HIDE DEF g
<1>7. Concatenates(g, s, Len(s))
    BY <1>5 DEF Concatenates
<1> QED
    BY <1>6, <1>7

LEMMA FlattenConcatenates ==
    ASSUME NEW s, Len(s) \in Nat \ {0}
    PROVE  \E f : FlattenSeq(s) = f[Len(s)] /\ Concatenates(f, s, Len(s))
<1> DEFINE f == CHOOSE g : g = [i \in 1..Len(s) |-> IF i = 1 THEN s[i] ELSE g[i - 1] \o s[i]]
<1>1. FlattenSeq(s) = f[Len(s)]
    BY DEF FlattenSeq
<1>2. PICK g : g = [i \in 1..Len(s) |-> g[i]] /\ Concatenates(g, s, Len(s))
    BY ConcatenationIsDefined
<1>3. g = [i \in 1..Len(s) |-> IF i = 1 THEN s[i] ELSE g[i - 1] \o s[i]]
    BY <1>2 DEF Concatenates
<1>4. f = [i \in 1..Len(s) |-> IF i = 1 THEN s[i] ELSE f[i - 1] \o s[i]]
    BY <1>3
<1> HIDE DEF f
<1>5. Concatenates(f, s, Len(s))
    BY <1>4 DEF Concatenates
<1> QED
    BY <1>1, <1>5

LEMMA FlattenOne ==
    ASSUME NEW s, Len(s) = 1
    PROVE  FlattenSeq(s) = s[1]
BY FlattenConcatenates DEF Concatenates

LEMMA ConcatenationsAgree ==
    ASSUME NEW s, NEW t, NEW f, NEW g, NEW n \in Nat,
           \A i \in 1..n : s[i] = t[i], Concatenates(f, s, n), Concatenates(g, t, n)
    PROVE  \A i \in 1..n : f[i] = g[i]
<1> DEFINE T == {k \in Nat : \A i \in 1..n : i <= k => f[i] = g[i]}
<1>1. 0 \in T
    OBVIOUS
<1>2. ASSUME NEW k \in Nat, k \in T PROVE k + 1 \in T
  <2> SUFFICES ASSUME NEW i \in 1..n, i <= k + 1 PROVE f[i] = g[i]
    OBVIOUS
  <2>1. CASE i = 1
    BY <2>1 DEF Concatenates
  <2>2. CASE i # 1
    <3>1. i - 1 \in 1..n /\ i - 1 <= k
      BY <2>2
    <3>2. f[i - 1] = g[i - 1]
      BY <3>1, <1>2
    <3> QED
      BY <2>2, <3>2 DEF Concatenates
  <2> QED
    BY <2>1, <2>2
<1>3. n \in T
  <2> HIDE DEF T
  <2> QED
    BY <1>1, <1>2, NaturalInduction
<1> QED
    BY <1>3

(* One chunk more. *)
LEMMA FlattenGrows ==
    ASSUME NEW B, NEW s \in Seq(Seq(B)), NEW k \in 1..(Len(s) - 1)
    PROVE  FlattenSeq(SubSeq(s, 1, k + 1)) = FlattenSeq(SubSeq(s, 1, k)) \o s[k + 1]
<1> DEFINE t == SubSeq(s, 1, k)
           u == SubSeq(s, 1, k + 1)
<1>1. Len(t) = k /\ Len(u) = k + 1 /\ k \in Nat \ {0} /\ k + 1 \in Nat \ {0}
    OBVIOUS
<1>2. \A i \in 1..k : t[i] = u[i]
    OBVIOUS
<1>3. u[k + 1] = s[k + 1]
    OBVIOUS
<1> HIDE DEF t, u
<1>4. PICK f : FlattenSeq(t) = f[k] /\ Concatenates(f, t, k)
    BY <1>1, FlattenConcatenates
<1>5. PICK g : FlattenSeq(u) = g[k + 1] /\ Concatenates(g, u, k + 1)
    BY <1>1, FlattenConcatenates
<1>6. Concatenates(g, u, k)
    BY <1>5, <1>1 DEF Concatenates
<1>7. f[k] = g[k]
    BY <1>1, <1>2, <1>4, <1>6, ConcatenationsAgree
<1>8. g[k + 1] = g[k] \o u[k + 1]
  <2>1. k + 1 \in 1..(k + 1) /\ k + 1 # 1 /\ (k + 1) - 1 = k
    OBVIOUS
  <2> QED
    BY <2>1, <1>5 DEF Concatenates
<1> QED
    BY <1>3, <1>4, <1>5, <1>7, <1>8 DEF t, u

-----------------------------------------------------------------------------
(* What a server sends of a response, chunk by chunk. *)

(* StreamsAssumption in two parts. *)
FiniteRequests ==
    /\ IsFiniteSet(Requests)
    /\ MaximumResponses \in Nat /\ MaximumStreamingBytes \in Nat
ChunksOfBytes == Bodies \in [Requests -> Seq(Seq(Byte))]

LEMMA NothingSent ==
    ASSUME ChunksOfBytes, NEW r \in Requests
    PROVE  Sent(r, 0) = <<>>
<1>1. SubSeq(Bodies[r], 1, 0) = <<>> /\ Len(<<>>) = 0
    BY DEF ChunksOfBytes
<1> QED
    BY <1>1 DEF Sent, FlattenSeq

LEMMA OneChunkMore ==
    ASSUME ChunksOfBytes, NEW r \in Requests, NEW k \in 0..(Len(Bodies[r]) - 1),
           Sent(r, k) \in Seq(Byte)
    PROVE  /\ Sent(r, k + 1) = Sent(r, k) \o Bodies[r][k + 1]
           /\ Bodies[r][k + 1] \in Seq(Byte)
<1>1. Bodies[r] \in Seq(Seq(Byte)) /\ Len(Bodies[r]) \in Nat
    BY DEF ChunksOfBytes
<1>2. k + 1 \in 1..Len(Bodies[r])
    BY <1>1
<1>3. Bodies[r][k + 1] \in Seq(Byte)
    BY <1>1, <1>2
<1>4. CASE k = 0
  <2> DEFINE t == SubSeq(Bodies[r], 1, 1)
  <2>1. Len(t) = 1 /\ t[1] = Bodies[r][1]
    BY <1>1, <1>2, <1>4
  <2>2. FlattenSeq(t) = Bodies[r][1]
    <3> HIDE DEF t
    <3> QED
      BY <2>1, FlattenOne
  <2>3. Sent(r, 1) = Bodies[r][1]
    BY <2>2 DEF Sent
  <2>4. <<>> \o Bodies[r][1] = Bodies[r][1]
    BY <1>3, <1>4
  <2> QED
    BY <1>3, <1>4, <2>3, <2>4, NothingSent
<1>5. CASE k # 0
  <2>1. k \in 1..(Len(Bodies[r]) - 1)
    BY <1>1, <1>5
  <2> QED
    BY <1>1, <1>3, <2>1, FlattenGrows DEF Sent
<1> QED
    BY <1>4, <1>5

LEMMA BytesAreSent ==
    ASSUME ChunksOfBytes, NEW r \in Requests
    PROVE  \A k \in 0..Len(Bodies[r]) : Sent(r, k) \in Seq(Byte)
<1> DEFINE T == {n \in Nat : n <= Len(Bodies[r]) => Sent(r, n) \in Seq(Byte)}
<1>1. 0 \in T
  <2>1. Sent(r, 0) \in Seq(Byte)
    <3>1. <<>> \in Seq(Byte)
      OBVIOUS
    <3> QED
      BY <3>1, NothingSent
  <2> QED
    BY <2>1
<1>2. ASSUME NEW n \in Nat, n \in T PROVE n + 1 \in T
  <2> SUFFICES ASSUME n + 1 <= Len(Bodies[r]) PROVE Sent(r, n + 1) \in Seq(Byte)
    OBVIOUS
  <2>1. Len(Bodies[r]) \in Nat
    BY DEF ChunksOfBytes
  <2>2. n \in 0..(Len(Bodies[r]) - 1) /\ Sent(r, n) \in Seq(Byte)
    BY <1>2, <2>1
  <2>3. Sent(r, n + 1) = Sent(r, n) \o Bodies[r][n + 1] /\ Bodies[r][n + 1] \in Seq(Byte)
    BY <2>2, OneChunkMore
  <2>4. PICK b \in Seq(Byte), d \in Seq(Byte) : b = Sent(r, n) /\ d = Bodies[r][n + 1]
    BY <2>2, <2>3
  <2>5. b \o d \in Seq(Byte)
    OBVIOUS
  <2> QED
    BY <2>3, <2>4, <2>5
<1> HIDE DEF T
<1>3. Nat \subseteq T
    BY <1>1, <1>2, NaturalInduction
<1>4. Len(Bodies[r]) \in Nat
    BY DEF ChunksOfBytes
<1> QED
    BY <1>3, <1>4 DEF T

(* What was sent so far is the beginning of the response. *)
Begins(b, whole) == \E e \in Seq(Byte) : whole = b \o e

LEMMA SentBegins ==
    ASSUME ChunksOfBytes, NEW r \in Requests, NEW k \in 0..Len(Bodies[r])
    PROVE  Begins(Sent(r, k), FlattenSeq(Bodies[r]))
<1>1. Len(Bodies[r]) \in Nat /\ Bodies[r] \in Seq(Seq(Byte))
    BY DEF ChunksOfBytes
<1> DEFINE T == {n \in Nat : k + n <= Len(Bodies[r]) => Begins(Sent(r, k), Sent(r, k + n))}
<1>2. Sent(r, k) \in Seq(Byte)
    BY BytesAreSent
<1>3. 0 \in T
  <2>1. Sent(r, k) = Sent(r, k) \o <<>> /\ <<>> \in Seq(Byte)
    BY <1>2
  <2>2. k + 0 = k
    BY <1>1
  <2> QED
    BY <2>1, <2>2 DEF Begins
<1>4. ASSUME NEW n \in Nat, n \in T PROVE n + 1 \in T
  <2> SUFFICES ASSUME k + (n + 1) <= Len(Bodies[r]) PROVE Begins(Sent(r, k), Sent(r, k + (n + 1)))
    OBVIOUS
  <2>1. k + n \in 0..(Len(Bodies[r]) - 1) /\ (k + n) + 1 = k + (n + 1)
    BY <1>1
  <2>2. PICK e \in Seq(Byte) : Sent(r, k + n) = Sent(r, k) \o e
    <3>1. Begins(Sent(r, k), Sent(r, k + n))
      BY <1>1, <1>4, <2>1
    <3> QED
      BY <3>1 DEF Begins
  <2>3. Sent(r, k + n) \in Seq(Byte)
    BY <1>1, <2>1, BytesAreSent
  <2>4. /\ Sent(r, (k + n) + 1) = Sent(r, k + n) \o Bodies[r][(k + n) + 1]
        /\ Bodies[r][(k + n) + 1] \in Seq(Byte)
    BY <2>1, <2>3, OneChunkMore
  <2>5. PICK d \in Seq(Byte) : d = Bodies[r][(k + n) + 1]
    BY <2>4
  <2>6. PICK b \in Seq(Byte) : b = Sent(r, k)
    BY <1>2
  <2>7. (b \o e) \o d = b \o (e \o d) /\ e \o d \in Seq(Byte)
    <3>1. (b \o e) \o d = b \o (e \o d)
      BY ConcatAssociative
    <3>2. e \o d \in Seq(Byte)
      BY ConcatProperties
    <3> QED
      BY <3>1, <3>2
  <2>8. Sent(r, k + (n + 1)) = (b \o e) \o d
    BY <2>1, <2>2, <2>4, <2>5, <2>6
  <2> QED
    BY <2>6, <2>7, <2>8 DEF Begins
<1> HIDE DEF T
<1>5. Len(Bodies[r]) - k \in T
  <2>1. Nat \subseteq T
    BY <1>3, <1>4, NaturalInduction
  <2> QED
    BY <1>1, <2>1
<1>6. k + (Len(Bodies[r]) - k) = Len(Bodies[r])
    BY <1>1
<1>7. Begins(Sent(r, k), Sent(r, Len(Bodies[r])))
    BY <1>1, <1>5, <1>6 DEF T
<1>8. SubSeq(Bodies[r], 1, Len(Bodies[r])) = Bodies[r]
    BY <1>1
<1> QED
    BY <1>7, <1>8 DEF Sent

-----------------------------------------------------------------------------
(* Whole frames of some bytes, and the bytes of a frame that is not whole. *)

FramesIn(b) == [i \in 1..(Len(b) \div 2) |-> SubSeq(b, 2 * (i - 1) + 1, 2 * i)]
RestOf(b) == SubSeq(b, 2 * (Len(b) \div 2) + 1, Len(b))

LEMMA FeedFrames ==
    ASSUME NEW s, NEW raw
    PROVE  /\ Feed(s, raw).frames = s.frames \o FramesIn(s.buffer \o raw)
           /\ Feed(s, raw).rest = RestOf(s.buffer \o raw)
BY DEF Feed, FramesIn, RestOf, FrameLength

LEMMA HalfIsNat ==
    ASSUME NEW n \in Nat
    PROVE  \E h \in Nat : n \div 2 = h /\ (n = 2 * h \/ n = 2 * h + 1)
OBVIOUS

LEMMA FrameBytes ==
    ASSUME NEW b \in Seq(Byte), NEW i \in Nat, i >= 1, 2 * i <= Len(b)
    PROVE  /\ i \in 1..Len(FramesIn(b))
           /\ FramesIn(b)[i] = <<b[2 * i - 1], b[2 * i]>>
           /\ FramesIn(b)[i] \in Seq(Byte)
<1>1. PICK h \in Nat : Len(b) \div 2 = h /\ (Len(b) = 2 * h \/ Len(b) = 2 * h + 1)
    BY HalfIsNat
<1>2. FramesIn(b) = [k \in 1..h |-> SubSeq(b, 2 * (k - 1) + 1, 2 * k)]
    BY <1>1 DEF FramesIn
<1>3. i \in 1..h /\ Len(FramesIn(b)) = h
    BY <1>1, <1>2
<1>4. PICK m \in Nat, n \in Nat : m = 2 * (i - 1) + 1 /\ n = 2 * i /\ n = m + 1 /\ m = 2 * i - 1 /\ m >= 1 /\ n <= Len(b)
    OBVIOUS
<1>5. FramesIn(b)[i] = SubSeq(b, m, n)
    BY <1>2, <1>3, <1>4
<1>6. \A k \in m..n : b[k] \in Byte
    BY <1>4
<1>7. /\ SubSeq(b, m, n) \in Seq(Byte) /\ Len(SubSeq(b, m, n)) = 2
      /\ \A k \in 1..2 : SubSeq(b, m, n)[k] = b[m + k - 1]
  <2>1. m \in Int /\ n \in Int /\ m <= n /\ n - m + 1 = 2
    BY <1>4
  <2> QED
    BY <2>1, <1>6, SubSeqProperties
<1>8. PICK t \in Seq(Byte) : t = SubSeq(b, m, n)
    BY <1>7
<1>9. Len(t) = 2 /\ t[1] = b[m] /\ t[2] = b[n]
  <2>1. m + 1 - 1 = m /\ m + 2 - 1 = n
    BY <1>4
  <2>2. t[1] = b[m + 1 - 1] /\ t[2] = b[m + 2 - 1]
    <3>1. 1 \in 1..2 /\ 2 \in 1..2
      OBVIOUS
    <3> QED
      BY <3>1, <1>7, <1>8
  <2> QED
    BY <1>7, <1>8, <2>1, <2>2
<1>10. t = <<b[m], b[n]>>
    BY <1>9
<1> QED
    BY <1>3, <1>4, <1>5, <1>8, <1>10

LEMMA FramesAreSequences ==
    ASSUME NEW b \in Seq(Byte)
    PROVE  /\ FramesIn(b) \in Seq(Seq(Byte)) /\ Len(FramesIn(b)) = Len(b) \div 2
           /\ RestOf(b) \in Seq(Byte)
<1>1. PICK h \in Nat : Len(b) \div 2 = h /\ (Len(b) = 2 * h \/ Len(b) = 2 * h + 1)
    BY HalfIsNat
<1>2. FramesIn(b) = [k \in 1..h |-> SubSeq(b, 2 * (k - 1) + 1, 2 * k)]
    BY <1>1 DEF FramesIn
<1>3. Len(FramesIn(b)) = h /\ DOMAIN FramesIn(b) = 1..h
    BY <1>2
<1>4. ASSUME NEW i \in 1..h PROVE FramesIn(b)[i] \in Seq(Byte)
  <2>1. i \in Nat /\ i >= 1 /\ 2 * i <= Len(b)
    BY <1>1
  <2> QED
    BY <2>1, FrameBytes
<1>5. FramesIn(b) \in [1..h -> Seq(Byte)]
    BY <1>2, <1>4
<1>6. FramesIn(b) \in Seq(Seq(Byte))
    BY <1>5
<1>7. RestOf(b) \in Seq(Byte)
    BY <1>1 DEF RestOf
<1> QED
    BY <1>1, <1>3, <1>6, <1>7

LEMMA RestBytes ==
    ASSUME NEW b \in Seq(Byte), NEW h \in Nat, Len(b) = 2 * h \/ Len(b) = 2 * h + 1
    PROVE  RestOf(b) = IF Len(b) = 2 * h THEN <<>> ELSE <<b[Len(b)]>>
<1>1. Len(b) \div 2 = h
    OBVIOUS
<1>2. RestOf(b) = SubSeq(b, 2 * h + 1, Len(b))
    BY <1>1 DEF RestOf
<1> QED
    BY <1>2

LEMMA FramesOfTail ==
    ASSUME NEW w \in Seq(Byte), NEW c \in Seq(Byte), NEW h \in Nat,
           Len(w) = 2 * h + Len(c), \A j \in 1..Len(c) : c[j] = w[2 * h + j]
    PROVE  /\ Len(FramesIn(w)) = h + Len(FramesIn(c))
           /\ \A i \in 1..Len(FramesIn(c)) : FramesIn(w)[h + i] = FramesIn(c)[i]
           /\ RestOf(w) = RestOf(c)
<1>1. PICK k \in Nat : Len(c) \div 2 = k /\ (Len(c) = 2 * k \/ Len(c) = 2 * k + 1)
    BY HalfIsNat
<1>2. PICK l \in Nat : Len(w) \div 2 = l /\ (Len(w) = 2 * l \/ Len(w) = 2 * l + 1)
  <2>1. Len(w) \in Nat
    OBVIOUS
  <2> QED
    BY <2>1, HalfIsNat
<1>3. l = h + k
    BY <1>1, <1>2
<1>4. Len(FramesIn(w)) = l /\ Len(FramesIn(c)) = k
    BY <1>1, <1>2, FramesAreSequences
<1>5. ASSUME NEW i \in 1..k PROVE FramesIn(w)[h + i] = FramesIn(c)[i]
  <2>1. /\ h + i \in Nat /\ h + i >= 1 /\ 2 * (h + i) <= Len(w)
        /\ i \in Nat /\ i >= 1 /\ 2 * i <= Len(c)
    BY <1>1, <1>2, <1>3
  <2>2. FramesIn(w)[h + i] = <<w[2 * (h + i) - 1], w[2 * (h + i)]>>
    BY <2>1, FrameBytes
  <2>3. FramesIn(c)[i] = <<c[2 * i - 1], c[2 * i]>>
    BY <2>1, FrameBytes
  <2>4. /\ 2 * i \in 1..Len(c) /\ 2 * i - 1 \in 1..Len(c)
        /\ 2 * (h + i) = 2 * h + 2 * i /\ 2 * (h + i) - 1 = 2 * h + (2 * i - 1)
    BY <2>1
  <2>5. c[2 * i] = w[2 * (h + i)] /\ c[2 * i - 1] = w[2 * (h + i) - 1]
    BY <2>4
  <2> QED
    BY <2>2, <2>3, <2>5
<1>6. RestOf(w) = RestOf(c)
  <2>1. RestOf(w) = IF Len(w) = 2 * l THEN <<>> ELSE <<w[Len(w)]>>
    BY <1>2, RestBytes
  <2>2. RestOf(c) = IF Len(c) = 2 * k THEN <<>> ELSE <<c[Len(c)]>>
    BY <1>1, RestBytes
  <2>3. Len(w) = 2 * l <=> Len(c) = 2 * k
    <3>1. PICK m \in Nat, n \in Nat : m = Len(w) /\ n = Len(c)
      OBVIOUS
    <3>2. m = 2 * h + n /\ l = h + k
      BY <3>1, <1>3
    <3>3. m = 2 * l <=> n = 2 * k
      BY <3>2
    <3> QED
      BY <3>1, <3>3
  <2>4. Len(c) # 2 * k => Len(c) \in 1..Len(c)
    BY <1>1
  <2> QED
    BY <2>1, <2>2, <2>3, <2>4
<1> QED
    BY <1>3, <1>4, <1>5, <1>6

(* Feeding the bytes in pieces gives the frames of the whole. *)
LEMMA FramesAdd ==
    ASSUME NEW b \in Seq(Byte), NEW raw \in Seq(Byte)
    PROVE  /\ FramesIn(b) \o FramesIn(RestOf(b) \o raw) = FramesIn(b \o raw)
           /\ RestOf(RestOf(b) \o raw) = RestOf(b \o raw)
<1>1. PICK h \in Nat : Len(b) \div 2 = h /\ (Len(b) = 2 * h \/ Len(b) = 2 * h + 1)
    BY HalfIsNat
<1>2. PICK o \in Seq(Byte) : o = RestOf(b)
    BY FramesAreSequences
<1>3. Len(o) = Len(b) - 2 * h /\ \A j \in 1..Len(o) : o[j] = b[2 * h + j]
  <2>1. o = IF Len(b) = 2 * h THEN <<>> ELSE <<b[Len(b)]>>
    BY <1>1, <1>2, RestBytes
  <2>2. CASE Len(b) = 2 * h
    BY <2>1, <2>2
  <2>3. CASE Len(b) = 2 * h + 1
    BY <2>1, <2>3
  <2> QED
    BY <1>1, <2>2, <2>3
<1>4. PICK c \in Seq(Byte) : c = o \o raw
  <2>1. o \o raw \in Seq(Byte)
    OBVIOUS
  <2> QED
    BY <2>1
<1>5. PICK w \in Seq(Byte) : w = b \o raw
  <2>1. b \o raw \in Seq(Byte)
    OBVIOUS
  <2> QED
    BY <2>1
<1>6. Len(c) = Len(o) + Len(raw) /\ Len(w) = Len(b) + Len(raw)
    BY <1>4, <1>5
<1>7. ASSUME NEW j \in 1..Len(c) PROVE c[j] = w[2 * h + j]
  <2>1. CASE j <= Len(o)
    <3>1. c[j] = o[j] /\ 2 * h + j <= Len(b) /\ 2 * h + j \in 1..Len(b)
      BY <1>3, <1>4, <1>6, <2>1
    <3>2. w[2 * h + j] = b[2 * h + j]
      BY <1>5, <3>1
    <3>3. o[j] = b[2 * h + j]
      BY <1>3, <2>1
    <3> QED
      BY <3>1, <3>2, <3>3
  <2>2. CASE j > Len(o)
    <3>1. PICK k \in 1..Len(raw) : j = Len(o) + k
      <4>1. j - Len(o) \in 1..Len(raw) /\ j = Len(o) + (j - Len(o))
        BY <1>6, <2>2
      <4> QED
        BY <4>1
    <3>2. c[j] = raw[k]
      BY <1>4, <3>1
    <3>3. 2 * h + j = Len(b) + k
      BY <1>1, <1>3, <3>1
    <3>4. w[Len(b) + k] = raw[k]
      BY <1>5
    <3> QED
      BY <3>2, <3>3, <3>4
  <2> QED
    BY <2>1, <2>2
<1>8. Len(w) = 2 * h + Len(c)
  <2>1. PICK m \in Nat, n \in Nat, k \in Nat : m = Len(b) /\ n = Len(raw) /\ k = Len(o)
    OBVIOUS
  <2>2. k = m - 2 * h
    BY <1>3, <2>1
  <2>3. m + n = 2 * h + (k + n)
    BY <2>2
  <2>4. Len(w) = m + n /\ Len(c) = k + n
    BY <1>6, <2>1
  <2> QED
    BY <2>3, <2>4
<1>9. /\ Len(FramesIn(w)) = h + Len(FramesIn(c))
      /\ \A i \in 1..Len(FramesIn(c)) : FramesIn(w)[h + i] = FramesIn(c)[i]
      /\ RestOf(w) = RestOf(c)
    BY <1>7, <1>8, FramesOfTail
<1>10. ASSUME NEW i \in 1..h PROVE FramesIn(w)[i] = FramesIn(b)[i]
  <2>1. /\ i \in Nat /\ i >= 1 /\ 2 * i <= Len(b) /\ 2 * i <= Len(w)
        /\ 2 * i \in 1..Len(b) /\ 2 * i - 1 \in 1..Len(b)
    BY <1>1, <1>6
  <2>2. FramesIn(b)[i] = <<b[2 * i - 1], b[2 * i]>>
    BY <2>1, FrameBytes
  <2>3. FramesIn(w)[i] = <<w[2 * i - 1], w[2 * i]>>
    BY <2>1, FrameBytes
  <2>4. w[2 * i] = b[2 * i] /\ w[2 * i - 1] = b[2 * i - 1]
    BY <1>5, <2>1
  <2> QED
    BY <2>2, <2>3, <2>4
<1>11. PICK f \in Seq(Seq(Byte)) : f = FramesIn(b)
    BY FramesAreSequences
<1>12. PICK g \in Seq(Seq(Byte)) : g = FramesIn(c)
    BY FramesAreSequences
<1>13. PICK v \in Seq(Seq(Byte)) : v = FramesIn(w)
    BY FramesAreSequences
<1>14. Len(f) = h
    BY <1>1, <1>11, FramesAreSequences
<1>15. Len(v) = h + Len(g) /\ (\A i \in 1..Len(g) : v[h + i] = g[i]) /\ (\A i \in 1..h : v[i] = f[i])
    BY <1>9, <1>10, <1>11, <1>12, <1>13
<1>16. f \o g = v
  <2>1. PICK t \in Seq(Seq(Byte)) : t = f \o g
    BY ConcatProperties
  <2>2. /\ Len(t) = h + Len(g)
        /\ \A i \in 1..(h + Len(g)) : t[i] = IF i <= h THEN f[i] ELSE g[i - h]
    BY <1>14, <2>1, ConcatProperties
  <2>3. ASSUME NEW i \in 1..Len(t) PROVE t[i] = v[i]
    <3>1. CASE i <= h
      <4>1. i \in 1..h /\ i \in 1..(h + Len(g))
        BY <2>2, <3>1
      <4> QED
        BY <1>15, <2>2, <3>1, <4>1
    <3>2. CASE i > h
      <4>1. i - h \in 1..Len(g) /\ h + (i - h) = i
        BY <2>2, <2>3, <3>2
      <4>2. t[i] = g[i - h]
        BY <2>2, <3>2
      <4>3. v[h + (i - h)] = g[i - h]
        BY <1>15, <4>1
      <4> QED
        BY <4>1, <4>2, <4>3
    <3> QED
      BY <3>1, <3>2
  <2>4. t = v
    BY <1>15, <2>2, <2>3, SeqEqual
  <2> QED
    BY <2>1, <2>4
<1> QED
    BY <1>2, <1>4, <1>5, <1>9, <1>11, <1>12, <1>13, <1>16

LEMMA FramesBegin ==
    ASSUME NEW b \in Seq(Byte), NEW whole, Begins(b, whole)
    PROVE  whole \in Seq(Byte) /\ IsPrefix(FramesIn(b), FramesIn(whole))
<1>1. PICK e \in Seq(Byte) : whole = b \o e
    BY DEF Begins
<1>2. PICK f \in Seq(Seq(Byte)) : f = FramesIn(b)
    BY FramesAreSequences
<1>3. RestOf(b) \in Seq(Byte)
    BY FramesAreSequences
<1>4. RestOf(b) \o e \in Seq(Byte)
    BY <1>3, ConcatProperties
<1>5. PICK g \in Seq(Seq(Byte)) : g = FramesIn(RestOf(b) \o e)
    BY <1>4, FramesAreSequences
<1>6. FramesIn(whole) = f \o g
    BY <1>1, <1>2, <1>5, FramesAdd
<1>7. IsPrefix(f, f \o g)
    BY DEF IsPrefix
<1> QED
    BY <1>1, <1>2, <1>6, <1>7

-----------------------------------------------------------------------------
(* The queue, as far as the streams depend on it.                          *)

Observations ==
    [kind : {"request", "response", "missing", "reuse", "unapproved", "navigation"},
     request : Requests \cup {"none"}]
    \cup [kind : {"data"}, request : Requests, chunk : Nat]
    \cup [kind : {"loading"}, request : Requests, failed : BOOLEAN]

IsData(o, r) == o.kind = "data" /\ o.request = r
IsResponse(o, r) == o.kind = "response" /\ o.request = r

Ascending(q) == \A i, j \in 1..Len(q) :
    i < j /\ q[i].kind = "data" /\ IsData(q[j], q[i].request) => q[i].chunk < q[j].chunk

OneResponse(q) == \A i, j \in 1..Len(q) :
    q[i].kind = "response" /\ IsResponse(q[j], q[i].request) => i = j

(* Of the n chunks reported, the first c are consumed and the rest queued.  *)
Pending(q, r, c, n) ==
    /\ \A i \in 1..Len(q) : IsData(q[i], r) => q[i].chunk > c
    /\ \A k \in (c + 1)..n : \E i \in 1..Len(q) : IsData(q[i], r) /\ q[i].chunk = k

(* What an observation tells of its request.                               *)
Faithful(o) ==
    /\ o.kind \notin {"unapproved", "navigation"} => o.request \in Requests
    /\ o.kind = "data" => net[o.request].streaming /\ o.chunk \in 1..net[o.request].chunks
    /\ o.kind = "response" => /\ net[o.request].stage \in {"receiving", "ended"}
                              /\ ~net[o.request].streaming /\ ~streams[o.request].active

QueueInv ==
    /\ Ascending(queue) /\ OneResponse(queue)
    /\ \A i \in 1..Len(queue) : Faithful(queue[i])
    /\ \A r \in Requests : net[r].stage \in {"new", "sent"} => ~net[r].streaming /\ ~streams[r].active

Ends == {"rejected", "timeout", "transport_error", "unsupported", "limit", "truncated", "complete", "open"}

StreamRecords ==
    [active : {TRUE}, buffer : Seq(Byte), frames : Seq(Seq(Byte)), buffered : Seq(Byte),
     first : BOOLEAN, missing : Nat]

StreamOutcomes == [request : Requests, state : Ends, frames : Seq(Seq(Byte))]

StreamTypes ==
    /\ net \in [Requests -> [stage : {"new", "sent", "receiving", "ended"}, chunks : Nat, streaming : BOOLEAN]]
    /\ \A r \in Requests : net[r].chunks <= Len(Bodies[r])
    /\ queue \in Seq(Observations)
    /\ consumer \in [stage : {"waiting", "draining", "sending", "closed"},
                     request : Requests \cup {"none"}, buffered : Int]
    /\ streams \in [Requests -> {NoStream} \cup StreamRecords]
    /\ outcomes \in Seq(StreamOutcomes)
    /\ bytes \in Nat /\ bytes <= MaximumStreamingBytes

(* The browser keeps telling of the data of a stream.                      *)
Live(r) == net[r].streaming \/ net[r].stage = "ended"

Sending(r) == consumer.stage = "sending" /\ consumer.request = r

SendingInv == consumer.stage = "sending" =>
    LET r == consumer.request
    IN  /\ r \in Requests /\ streams[r] = Opened
        /\ consumer.buffered < 0 => ~net[r].streaming
        /\ consumer.buffered >= 0 =>
              /\ Live(r) /\ consumer.buffered \in 0..net[r].chunks
              /\ r \notin dropped => Pending(queue, r, consumer.buffered, net[r].chunks)

(* The decoder of a stream was fed the first c chunks, and until the first *)
(* event of data it knows what was buffered.                               *)
Fed(s, r, c) ==
    /\ s.frames = FramesIn(Sent(r, c)) /\ s.buffer = RestOf(Sent(r, c))
    /\ s.first => s.buffered \in {<<>>, Sent(r, c)}

InStep(r) ==
    /\ Live(r)
    /\ r \notin dropped =>
          \E c \in 0..net[r].chunks : Fed(streams[r], r, c) /\ Pending(queue, r, c, net[r].chunks)

FedInv == \A r \in Requests : streams[r].active /\ ~Sending(r) => InStep(r)

(* What an outcome may say, whatever is consumed after it.                 *)
AsSent(o) ==
    /\ IsPrefix(o.frames, FramesOf(o.request))
    /\ o.state = "complete" => o.frames = FramesOf(o.request)

OutcomesInv == \A i \in 1..Len(outcomes) : outcomes[i].request \notin dropped => AsSent(outcomes[i])

CountInv == Cardinality(ActiveStreams) + Len(outcomes) <= MaximumResponses + (IF LimitTold THEN 1 ELSE 0)

StreamsInv == StreamTypes /\ QueueInv /\ SendingInv /\ FedInv /\ OutcomesInv /\ CountInv

-----------------------------------------------------------------------------
(* The queue loses its head or gains an observation.                       *)

LEMMA QueueTail ==
    ASSUME NEW q \in Seq(Observations), q # <<>>
    PROVE  /\ Tail(q) \in Seq(Observations) /\ Head(q) = q[1] /\ 1 \in 1..Len(q) /\ Head(q) \in Observations
           /\ \A i \in 1..Len(Tail(q)) : i + 1 \in 1..Len(q) /\ Tail(q)[i] = q[i + 1]
           /\ \A i \in 1..Len(q) : i # 1 => i - 1 \in 1..Len(Tail(q)) /\ Tail(q)[i - 1] = q[i]
<1>1. Len(q) \in Nat /\ Len(q) >= 1
    OBVIOUS
<1>2. Tail(q) \in Seq(Observations) /\ Len(Tail(q)) = Len(q) - 1
    OBVIOUS
<1>3. \A i \in 1..Len(Tail(q)) : i + 1 \in 1..Len(q) /\ Tail(q)[i] = q[i + 1]
    BY <1>1, <1>2
<1>4. ASSUME NEW i \in 1..Len(q), i # 1 PROVE i - 1 \in 1..Len(Tail(q)) /\ Tail(q)[i - 1] = q[i]
  <2>1. i - 1 \in 1..Len(Tail(q)) /\ (i - 1) + 1 = i
    BY <1>1, <1>2, <1>4
  <2> QED
    BY <2>1, <1>3
<1>5. Head(q) = q[1] /\ 1 \in 1..Len(q) /\ Head(q) \in Observations
    BY <1>1
<1> QED
    BY <1>2, <1>3, <1>4, <1>5

LEMMA QueueAppend ==
    ASSUME NEW q \in Seq(Observations), NEW o \in Observations
    PROVE  /\ Append(q, o) \in Seq(Observations) /\ Len(Append(q, o)) = Len(q) + 1 /\ Append(q, o)[Len(q) + 1] = o
           /\ Len(q) + 1 \in 1..Len(Append(q, o))
           /\ \A i \in 1..Len(q) : i \in 1..Len(Append(q, o)) /\ Append(q, o)[i] = q[i]
           /\ \A i \in 1..Len(Append(q, o)) : i \in 1..Len(q) \/ i = Len(q) + 1
<1>1. Len(q) \in Nat
    OBVIOUS
<1>2. Append(q, o) \in Seq(Observations) /\ Len(Append(q, o)) = Len(q) + 1
    OBVIOUS
<1>3. Append(q, o)[Len(q) + 1] = o
    OBVIOUS
<1>4. \A i \in 1..Len(q) : Append(q, o)[i] = q[i]
    OBVIOUS
<1> QED
    BY <1>1, <1>2, <1>3, <1>4

LEMMA OrderAfterTail ==
    ASSUME NEW q \in Seq(Observations), q # <<>>, Ascending(q), OneResponse(q)
    PROVE  Ascending(Tail(q)) /\ OneResponse(Tail(q))
<1> DEFINE t == Tail(q)
<1>1. \A i \in 1..Len(t) : i + 1 \in 1..Len(q) /\ t[i] = q[i + 1]
    BY QueueTail
<1> HIDE DEF t
<1>2. Ascending(t)
  <2> SUFFICES ASSUME NEW i \in 1..Len(t), NEW j \in 1..Len(t), i < j,
                      t[i].kind = "data", IsData(t[j], t[i].request)
               PROVE  t[i].chunk < t[j].chunk
    BY DEF Ascending
  <2>1. i + 1 < j + 1
    OBVIOUS
  <2> QED
    BY <1>1, <2>1 DEF Ascending
<1>3. OneResponse(t)
  <2> SUFFICES ASSUME NEW i \in 1..Len(t), NEW j \in 1..Len(t),
                      t[i].kind = "response", IsResponse(t[j], t[i].request)
               PROVE  i = j
    BY DEF OneResponse
  <2>1. i + 1 = j + 1
    BY <1>1 DEF OneResponse
  <2> QED
    BY <2>1
<1> QED
    BY <1>2, <1>3 DEF t

LEMMA AscendingAfterAppend ==
    ASSUME NEW q \in Seq(Observations), NEW o \in Observations, Ascending(q),
           o.kind = "data" => \A i \in 1..Len(q) : IsData(q[i], o.request) => q[i].chunk < o.chunk
    PROVE  Ascending(Append(q, o))
<1> DEFINE t == Append(q, o)
<1>1. /\ \A i \in 1..Len(q) : i \in 1..Len(t) /\ t[i] = q[i]
      /\ t[Len(q) + 1] = o
      /\ \A i \in 1..Len(t) : i \in 1..Len(q) \/ i = Len(q) + 1
      /\ Len(q) \in Nat
    BY QueueAppend
<1> HIDE DEF t
<1>2. SUFFICES ASSUME NEW i \in 1..Len(t), NEW j \in 1..Len(t), i < j,
                      t[i].kind = "data", IsData(t[j], t[i].request)
               PROVE  t[i].chunk < t[j].chunk
    BY DEF Ascending, t
<1>3. i \in 1..Len(q) /\ t[i] = q[i]
    BY <1>1, <1>2
<1>4. CASE j \in 1..Len(q)
  <2>1. t[j] = q[j]
    BY <1>1, <1>4
  <2> QED
    BY <1>2, <1>3, <1>4, <2>1 DEF Ascending
<1>5. CASE j = Len(q) + 1
  <2>1. t[j] = o
    BY <1>1, <1>5
  <2> QED
    BY <1>2, <1>3, <2>1 DEF IsData
<1> QED
    BY <1>1, <1>4, <1>5

LEMMA OneResponseAfterAppend ==
    ASSUME NEW q \in Seq(Observations), NEW o \in Observations, OneResponse(q),
           o.kind = "response" => \A i \in 1..Len(q) : ~IsResponse(q[i], o.request)
    PROVE  OneResponse(Append(q, o))
<1> DEFINE t == Append(q, o)
<1>1. /\ \A i \in 1..Len(q) : i \in 1..Len(t) /\ t[i] = q[i]
      /\ t[Len(q) + 1] = o
      /\ \A i \in 1..Len(t) : i \in 1..Len(q) \/ i = Len(q) + 1
    BY QueueAppend
<1> HIDE DEF t
<1>2. SUFFICES ASSUME NEW i \in 1..Len(t), NEW j \in 1..Len(t),
                      t[i].kind = "response", IsResponse(t[j], t[i].request)
               PROVE  i = j
    BY DEF OneResponse, t
<1>3. CASE i \in 1..Len(q) /\ j \in 1..Len(q)
    BY <1>1, <1>2, <1>3 DEF OneResponse
<1>4. CASE i = Len(q) + 1 /\ j \in 1..Len(q)
    BY <1>1, <1>2, <1>4 DEF IsResponse
<1>5. CASE i \in 1..Len(q) /\ j = Len(q) + 1
    BY <1>1, <1>2, <1>5 DEF IsResponse
<1> QED
    BY <1>1, <1>3, <1>4, <1>5

LEMMA PendingTail ==
    ASSUME NEW q \in Seq(Observations), q # <<>>, NEW r, NEW c \in Nat, NEW n \in Nat,
           Pending(q, r, c, n), ~IsData(Head(q), r)
    PROVE  Pending(Tail(q), r, c, n)
<1> DEFINE t == Tail(q)
<1>1. /\ Head(q) = q[1]
      /\ \A i \in 1..Len(t) : i + 1 \in 1..Len(q) /\ t[i] = q[i + 1]
      /\ \A i \in 1..Len(q) : i # 1 => i - 1 \in 1..Len(t) /\ t[i - 1] = q[i]
    BY QueueTail
<1> HIDE DEF t
<1>2. \A i \in 1..Len(t) : IsData(t[i], r) => t[i].chunk > c
    BY <1>1 DEF Pending
<1>3. ASSUME NEW k \in (c + 1)..n PROVE \E i \in 1..Len(t) : IsData(t[i], r) /\ t[i].chunk = k
  <2>1. PICK i \in 1..Len(q) : IsData(q[i], r) /\ q[i].chunk = k
    BY DEF Pending
  <2>2. i # 1
    BY <1>1, <2>1
  <2> QED
    BY <1>1, <2>1, <2>2
<1> QED
    BY <1>2, <1>3 DEF Pending, t

(* The next data of a stream is the chunk that follows.                    *)
LEMMA PendingHead ==
    ASSUME NEW q \in Seq(Observations), q # <<>>, NEW r, NEW c \in Nat, NEW n \in Nat,
           Ascending(q), Pending(q, r, c, n), IsData(Head(q), r), Head(q).chunk \in 1..n
    PROVE  Head(q).chunk = c + 1 /\ c + 1 \in 1..n /\ Pending(Tail(q), r, c + 1, n)
<1> DEFINE t == Tail(q)
<1>1. /\ Head(q) = q[1] /\ 1 \in 1..Len(q)
      /\ \A i \in 1..Len(t) : i + 1 \in 1..Len(q) /\ t[i] = q[i + 1]
      /\ \A i \in 1..Len(q) : i # 1 => i - 1 \in 1..Len(t) /\ t[i - 1] = q[i]
    BY QueueTail
<1> HIDE DEF t
<1>2. ASSUME NEW i \in 1..Len(q), i # 1, IsData(q[i], r) PROVE Head(q).chunk < q[i].chunk
  <2>1. 1 < i /\ q[1].kind = "data" /\ q[1].request = r
    BY <1>1, <1>2 DEF IsData
  <2> QED
    BY <1>1, <1>2, <2>1 DEF Ascending
<1>3. PICK k \in 1..n : k = Head(q).chunk
    OBVIOUS
<1>4. k > c
    BY <1>1, <1>3 DEF Pending
<1>5. k = c + 1
  <2> SUFFICES ASSUME k # c + 1 PROVE FALSE
    OBVIOUS
  <2>1. c + 1 \in (c + 1)..n /\ c + 1 < k
    BY <1>4
  <2>2. PICK i \in 1..Len(q) : IsData(q[i], r) /\ q[i].chunk = c + 1
    BY <2>1 DEF Pending
  <2>3. i = 1 \/ k < c + 1
    BY <1>2, <1>3, <2>2
  <2> QED
    BY <1>1, <1>3, <2>1, <2>2, <2>3
<1>6. \A i \in 1..Len(t) : IsData(t[i], r) => t[i].chunk > c + 1
  <2> SUFFICES ASSUME NEW i \in 1..Len(t), IsData(t[i], r) PROVE t[i].chunk > c + 1
    OBVIOUS
  <2>1. i + 1 \in 1..Len(q) /\ i + 1 # 1 /\ t[i] = q[i + 1]
    BY <1>1
  <2>2. Head(q).chunk < q[i + 1].chunk
    BY <1>2, <2>1
  <2> QED
    BY <1>3, <1>5, <2>1, <2>2
<1>7. ASSUME NEW m \in (c + 2)..n PROVE \E i \in 1..Len(t) : IsData(t[i], r) /\ t[i].chunk = m
  <2>1. PICK i \in 1..Len(q) : IsData(q[i], r) /\ q[i].chunk = m
    BY DEF Pending
  <2>2. i # 1
    BY <1>1, <1>3, <1>5, <2>1
  <2> QED
    BY <1>1, <2>1, <2>2
<1>8. (c + 1) + 1 = c + 2
    OBVIOUS
<1> QED
    BY <1>3, <1>5, <1>6, <1>7, <1>8 DEF Pending, t

LEMMA PendingAppend ==
    ASSUME NEW q \in Seq(Observations), NEW o \in Observations, NEW r, NEW c \in Nat, NEW n \in Nat,
           Pending(q, r, c, n), ~IsData(o, r)
    PROVE  Pending(Append(q, o), r, c, n)
<1> DEFINE t == Append(q, o)
<1>1. /\ \A i \in 1..Len(q) : i \in 1..Len(t) /\ t[i] = q[i]
      /\ t[Len(q) + 1] = o
      /\ \A i \in 1..Len(t) : i \in 1..Len(q) \/ i = Len(q) + 1
    BY QueueAppend
<1> HIDE DEF t
<1>2. \A i \in 1..Len(t) : IsData(t[i], r) => t[i].chunk > c
    BY <1>1 DEF Pending
<1>3. \A k \in (c + 1)..n : \E i \in 1..Len(t) : IsData(t[i], r) /\ t[i].chunk = k
    BY <1>1 DEF Pending
<1> QED
    BY <1>2, <1>3 DEF Pending, t

LEMMA PendingData ==
    ASSUME NEW q \in Seq(Observations), NEW o \in Observations, NEW r, NEW c \in Nat, NEW n \in Nat, c <= n,
           Pending(q, r, c, n), IsData(o, r), o.chunk = n + 1
    PROVE  Pending(Append(q, o), r, c, n + 1)
<1> DEFINE t == Append(q, o)
<1>1. /\ \A i \in 1..Len(q) : i \in 1..Len(t) /\ t[i] = q[i]
      /\ t[Len(q) + 1] = o /\ Len(q) + 1 \in 1..Len(t)
      /\ \A i \in 1..Len(t) : i \in 1..Len(q) \/ i = Len(q) + 1
    BY QueueAppend
<1> HIDE DEF t
<1>2. \A i \in 1..Len(t) : IsData(t[i], r) => t[i].chunk > c
  <2> SUFFICES ASSUME NEW i \in 1..Len(t), IsData(t[i], r) PROVE t[i].chunk > c
    OBVIOUS
  <2>1. CASE i \in 1..Len(q)
    BY <1>1, <2>1 DEF Pending
  <2>2. CASE i = Len(q) + 1
    <3>1. t[i].chunk = n + 1
      BY <1>1, <2>2
    <3> QED
      BY <3>1
  <2> QED
    BY <1>1, <2>1, <2>2
<1>3. ASSUME NEW k \in (c + 1)..(n + 1) PROVE \E i \in 1..Len(t) : IsData(t[i], r) /\ t[i].chunk = k
  <2>1. CASE k = n + 1
    BY <1>1, <2>1
  <2>2. CASE k # n + 1
    <3>1. k \in (c + 1)..n
      BY <2>2
    <3> QED
      BY <1>1, <3>1 DEF Pending
  <2> QED
    BY <2>1, <2>2
<1> QED
    BY <1>2, <1>3 DEF Pending, t

LEMMA NothingPending ==
    ASSUME NEW q, NEW r, NEW n \in Nat, \A i \in 1..Len(q) : ~IsData(q[i], r)
    PROVE  Pending(q, r, n, n)
BY DEF Pending

-----------------------------------------------------------------------------
(* Callbacks: what the browser reports, and what is queued of it.          *)

Onward == \A r \in Requests :
    /\ net'[r].streaming = net[r].streaming
    /\ net[r].stage \in {"receiving", "ended"} => net'[r].stage \in {"receiving", "ended"}
    /\ net[r].stage = "ended" => net'[r].stage = "ended"
    /\ net'[r].stage \in {"new", "sent"} => net[r].stage \in {"new", "sent"}

(* One more chunk of a response is told as data once the browser streams it. *)
Telling(o) == \A r \in Requests :
    \/ net'[r].chunks = net[r].chunks /\ ~IsData(o, r)
    \/ /\ net'[r].chunks = net[r].chunks + 1 /\ o.request = r /\ net[r].stage = "receiving"
       /\ net[r].streaming => IsData(o, r)
       /\ IsData(o, r) => o.chunk = net[r].chunks + 1

NetTypes ==
    /\ net \in [Requests -> [stage : {"new", "sent", "receiving", "ended"}, chunks : Nat, streaming : BOOLEAN]]
    /\ \A r \in Requests : net[r].chunks <= Len(Bodies[r])

LEMMA ChunksGrow ==
    ASSUME NetTypes, NetTypes', NEW o, Telling(o), NEW r \in Requests
    PROVE  net[r].chunks \in Nat /\ net'[r].chunks \in Nat /\ net[r].chunks <= net'[r].chunks
BY DEF NetTypes, Telling

LEMMA StillFaithful ==
    ASSUME NetTypes, NetTypes', Onward, NEW o, Telling(o), UNCHANGED Others,
           NEW p \in Observations, Faithful(p)
    PROVE  Faithful(p)'
<1>1. streams' = streams
    BY DEF Others
<1>2. p.kind \notin {"unapproved", "navigation"} => p.request \in Requests
    BY DEF Faithful
<1>3. ASSUME p.kind = "data" PROVE net'[p.request].streaming /\ p.chunk \in 1..net'[p.request].chunks
  <2>1. p.request \in Requests /\ net[p.request].streaming /\ p.chunk \in 1..net[p.request].chunks
    BY <1>3, <1>2 DEF Faithful
  <2>2. net[p.request].chunks \in Nat /\ net'[p.request].chunks \in Nat /\ net[p.request].chunks <= net'[p.request].chunks
    BY <2>1, ChunksGrow
  <2> QED
    BY <2>1, <2>2 DEF Onward
<1>4. ASSUME p.kind = "response"
      PROVE  net'[p.request].stage \in {"receiving", "ended"} /\ ~net'[p.request].streaming /\ ~streams'[p.request].active
    BY <1>1, <1>2, <1>4 DEF Faithful, Onward
<1> QED
    BY <1>2, <1>3, <1>4 DEF Faithful

LEMMA QueueAfterEnqueue ==
    ASSUME NetTypes, NetTypes', QueueInv, queue \in Seq(Observations), Onward, NEW o \in Observations,
           Telling(o), Enqueue(o), UNCHANGED Others, Faithful(o)',
           o.kind = "response" => net[o.request].stage \in {"new", "sent"}
    PROVE  QueueInv' /\ (queue \in Seq(Observations))'
<1>1. \A i \in 1..Len(queue) : queue[i] \in Observations /\ Faithful(queue[i])
    BY DEF QueueInv
<1>2. ASSUME NEW i \in 1..Len(queue), NEW p \in Observations, queue[i] = p PROVE Faithful(p)'
    BY <1>1, <1>2, StillFaithful
<1>3. \A r \in Requests : net'[r].stage \in {"new", "sent"} => ~net'[r].streaming /\ ~streams'[r].active
    BY DEF QueueInv, Onward, Others
<1>4. CASE queue' = queue
  <2>1. ASSUME NEW i \in 1..Len(queue') PROVE Faithful(queue[i])'
    <3>1. PICK p \in Observations : p = queue[i]
      BY <1>1, <1>4
    <3> QED
      BY <1>2, <1>4, <3>1
  <2> QED
    BY <1>3, <1>4, <2>1 DEF QueueInv
<1>5. CASE queue' = Append(queue, o)
  <2> DEFINE t == Append(queue, o)
  <2>1. /\ t \in Seq(Observations)
        /\ \A i \in 1..Len(queue) : i \in 1..Len(t) /\ t[i] = queue[i]
        /\ t[Len(queue) + 1] = o
        /\ \A i \in 1..Len(t) : i \in 1..Len(queue) \/ i = Len(queue) + 1
    BY QueueAppend
  <2>2. ASSUME o.kind = "data" PROVE \A i \in 1..Len(queue) : IsData(queue[i], o.request) => queue[i].chunk < o.chunk
    <3>1. o.request \in Requests
      BY <2>2 DEF Faithful
    <3>2. o.chunk = net[o.request].chunks + 1 /\ net[o.request].chunks \in Nat
      BY <2>2, <3>1 DEF Telling, IsData, NetTypes
    <3>3. ASSUME NEW i \in 1..Len(queue), IsData(queue[i], o.request) PROVE queue[i].chunk \in 1..net[o.request].chunks
      BY <1>1, <3>3 DEF IsData, Faithful
    <3> QED
      BY <3>2, <3>3
  <2>3. ASSUME o.kind = "response", NEW i \in 1..Len(queue) PROVE ~IsResponse(queue[i], o.request)
    BY <1>1, <2>3 DEF IsResponse, Faithful
  <2>4. Ascending(t) /\ OneResponse(t)
    BY <2>2, <2>3, AscendingAfterAppend, OneResponseAfterAppend DEF QueueInv
  <2>5. ASSUME NEW i \in 1..Len(queue') PROVE Faithful(queue[i])'
    <3>1. CASE i \in 1..Len(queue)
      <4>1. PICK p \in Observations : p = queue[i]
        BY <1>1, <3>1
      <4>2. queue'[i] = p
        BY <1>5, <2>1, <3>1, <4>1
      <4> QED
        BY <1>2, <3>1, <4>1, <4>2
    <3>2. CASE i = Len(queue) + 1
      <4>1. queue'[i] = o
        BY <1>5, <2>1, <3>2
      <4> QED
        BY <4>1
    <3> QED
      BY <1>5, <2>1, <2>5, <3>1, <3>2
  <2> HIDE DEF t
  <2>6. Ascending(queue') /\ OneResponse(queue') /\ queue' \in Seq(Observations)
    BY <1>5, <2>1, <2>4 DEF t
  <2> QED
    BY <1>3, <2>5, <2>6 DEF QueueInv
<1> QED
    BY <1>4, <1>5 DEF Enqueue

LEMMA PendingAfterEnqueue ==
    ASSUME NetTypes, NetTypes', queue \in Seq(Observations), NEW o \in Observations,
           Telling(o), Enqueue(o), NEW r \in Requests, r \notin dropped', Live(r),
           NEW c \in 0..net[r].chunks, Pending(queue, r, c, net[r].chunks)
    PROVE  Pending(queue', r, c, net'[r].chunks)
<1>1. net[r].chunks \in Nat /\ net'[r].chunks \in Nat /\ c \in Nat /\ c <= net[r].chunks
    BY DEF NetTypes
<1>2. CASE net'[r].chunks = net[r].chunks /\ ~IsData(o, r)
  <2>1. Pending(Append(queue, o), r, c, net[r].chunks)
    BY <1>1, <1>2, PendingAppend
  <2> QED
    BY <1>2, <2>1 DEF Enqueue
<1>3. CASE net'[r].chunks = net[r].chunks + 1 /\ o.request = r /\ IsData(o, r) /\ o.chunk = net[r].chunks + 1
  <2>1. queue' = Append(queue, o)
    BY <1>3 DEF Enqueue
  <2>2. Pending(Append(queue, o), r, c, net[r].chunks + 1)
    BY <1>1, <1>3, PendingData
  <2> QED
    BY <1>3, <2>1, <2>2
<1> QED
    BY <1>2, <1>3 DEF Telling, Live

LEMMA EnqueueStep ==
    ASSUME StreamsInv, NetTypes', Onward, NEW o \in Observations,
           Telling(o), Enqueue(o), UNCHANGED Others, Faithful(o)',
           o.kind = "response" => net[o.request].stage \in {"new", "sent"}
    PROVE  StreamsInv'
<1>1. NetTypes /\ queue \in Seq(Observations)
    BY DEF StreamsInv, StreamTypes, NetTypes
<1>2. QueueInv' /\ (queue \in Seq(Observations))'
    BY <1>1, QueueAfterEnqueue DEF StreamsInv
<1>3. /\ consumer' = consumer /\ streams' = streams /\ outcomes' = outcomes /\ bytes' = bytes
    BY DEF Others
<1>4. StreamTypes'
    BY <1>2, <1>3 DEF StreamsInv, StreamTypes, NetTypes
<1>5. dropped \subseteq dropped'
    BY DEF Enqueue
<1>6. ASSUME NEW r \in Requests, Live(r) PROVE Live(r)'
    BY <1>6 DEF Live, Onward
<1>7. SendingInv'
  <2> SUFFICES ASSUME consumer.stage = "sending"
               PROVE  LET r == consumer.request
                      IN  /\ r \in Requests /\ streams[r] = Opened
                          /\ consumer.buffered < 0 => ~net'[r].streaming
                          /\ consumer.buffered >= 0 =>
                                /\ net'[r].streaming \/ net'[r].stage = "ended"
                                /\ consumer.buffered \in 0..net'[r].chunks
                                /\ r \notin dropped' => Pending(queue', r, consumer.buffered, net'[r].chunks)
    BY <1>3 DEF SendingInv, Live
  <2>1. PICK r \in Requests : r = consumer.request
    BY DEF StreamsInv, SendingInv
  <2>2. /\ streams[r] = Opened
        /\ consumer.buffered < 0 => ~net[r].streaming
        /\ consumer.buffered >= 0 =>
              /\ Live(r) /\ consumer.buffered \in 0..net[r].chunks
              /\ r \notin dropped => Pending(queue, r, consumer.buffered, net[r].chunks)
    BY <2>1 DEF StreamsInv, SendingInv
  <2>3. consumer.buffered < 0 => ~net'[r].streaming
    BY <2>2 DEF Onward
  <2>4. ASSUME consumer.buffered >= 0
        PROVE  /\ Live(r)' /\ consumer.buffered \in 0..net'[r].chunks
               /\ r \notin dropped' => Pending(queue', r, consumer.buffered, net'[r].chunks)
    <3>1. Live(r)'
      BY <1>6, <2>2, <2>4
    <3>2. consumer.buffered \in 0..net'[r].chunks
      BY <1>1, <2>2, <2>4, ChunksGrow
    <3>3. ASSUME r \notin dropped' PROVE Pending(queue', r, consumer.buffered, net'[r].chunks)
      <4>1. PICK c \in 0..net[r].chunks : c = consumer.buffered
        BY <2>2, <2>4
      <4>2. Pending(queue, r, c, net[r].chunks) /\ Live(r)
        BY <1>5, <2>2, <2>4, <3>3, <4>1
      <4>3. Pending(queue', r, c, net'[r].chunks)
        BY <1>1, <3>3, <4>2, PendingAfterEnqueue
      <4> QED
        BY <4>1, <4>3
    <3> QED
      BY <3>1, <3>2, <3>3
  <2> QED
    BY <2>1, <2>2, <2>3, <2>4 DEF Live
<1>8. FedInv'
  <2> SUFFICES ASSUME NEW r \in Requests, streams[r].active, ~Sending(r)
               PROVE  /\ Live(r)'
                      /\ r \notin dropped' =>
                            \E c \in 0..net'[r].chunks :
                                Fed(streams[r], r, c) /\ Pending(queue', r, c, net'[r].chunks)
    BY <1>3 DEF FedInv, InStep, Sending, Fed
  <2>1. Live(r)
    BY DEF StreamsInv, FedInv, InStep
  <2>2. ASSUME r \notin dropped'
        PROVE  \E c \in 0..net'[r].chunks : Fed(streams[r], r, c) /\ Pending(queue', r, c, net'[r].chunks)
    <3>1. PICK c \in 0..net[r].chunks : Fed(streams[r], r, c) /\ Pending(queue, r, c, net[r].chunks)
      BY <1>5, <2>2 DEF StreamsInv, FedInv, InStep
    <3>2. Pending(queue', r, c, net'[r].chunks)
      BY <1>1, <2>1, <2>2, <3>1, PendingAfterEnqueue
    <3>3. c \in 0..net'[r].chunks
      BY <1>1, ChunksGrow
    <3> QED
      BY <3>1, <3>2, <3>3
  <2> QED
    BY <1>6, <2>1, <2>2
<1>9. OutcomesInv'
    BY <1>3, <1>5 DEF StreamsInv, OutcomesInv, AsSent, FramesOf
<1>10. CountInv'
    BY <1>3 DEF StreamsInv, CountInv, ActiveStreams, LimitTold
<1> QED
    BY <1>2, <1>4, <1>7, <1>8, <1>9, <1>10 DEF StreamsInv

LEMMA RequestWillBeSentStep ==
    ASSUME StreamsInv, NEW r \in Requests, RequestWillBeSent(r)
    PROVE  StreamsInv'
<1> DEFINE o == [kind |-> "request", request |-> r]
<1>1. net[r].stage = "new" /\ net' = [net EXCEPT ![r].stage = "sent"] /\ Enqueue(o) /\ UNCHANGED Others
    BY DEF RequestWillBeSent
<1>2. NetTypes
    BY DEF StreamsInv, StreamTypes, NetTypes
<1>3. /\ o \in Observations /\ o.kind = "request" /\ o.request = r
      /\ o.kind \notin {"unapproved", "navigation"}
    BY DEF Observations
<1> HIDE DEF o
<1>4. NetTypes' /\ Onward
    BY <1>1, <1>2 DEF NetTypes, Onward
<1>5. Telling(o)
    BY <1>1, <1>2, <1>3 DEF NetTypes, Telling, IsData
<1>6. Faithful(o)'
    BY <1>3 DEF Faithful
<1> QED
    BY <1>1, <1>3, <1>4, <1>5, <1>6, EnqueueStep

LEMMA ResponseReceivedStep ==
    ASSUME StreamsInv, NEW r \in Requests, ResponseReceived(r)
    PROVE  StreamsInv'
<1> DEFINE o == [kind |-> "response", request |-> r]
<1>1. net[r].stage = "sent" /\ net' = [net EXCEPT ![r].stage = "receiving"] /\ Enqueue(o) /\ UNCHANGED Others
    BY DEF ResponseReceived
<1>2. NetTypes
    BY DEF StreamsInv, StreamTypes, NetTypes
<1>3. o \in Observations /\ o.kind = "response" /\ o.request = r
    BY DEF Observations
<1> HIDE DEF o
<1>4. NetTypes' /\ Onward
    BY <1>1, <1>2 DEF NetTypes, Onward
<1>5. Telling(o)
    BY <1>1, <1>2, <1>3 DEF NetTypes, Telling, IsData
<1>6. /\ net'[r].stage = "receiving" /\ net'[r].streaming = net[r].streaming
      /\ streams' = streams
    BY <1>1, <1>2 DEF NetTypes, Others
<1>7. ~net[r].streaming /\ ~streams[r].active
    BY <1>1 DEF StreamsInv, QueueInv
<1>8. Faithful(o)'
    BY <1>3, <1>6, <1>7 DEF Faithful
<1> QED
    BY <1>1, <1>3, <1>4, <1>5, <1>8, EnqueueStep

LEMMA DataReceivedStep ==
    ASSUME StreamsInv, ChunksOfBytes, NEW r \in Requests, DataReceived(r)
    PROVE  StreamsInv'
<1> DEFINE data == [kind |-> "data", request |-> r, chunk |-> net[r].chunks + 1]
           missing == [kind |-> "missing", request |-> r]
<1>1. /\ net[r].stage = "receiving" /\ net[r].chunks < Len(Bodies[r])
      /\ net' = [net EXCEPT ![r].chunks = @ + 1]
      /\ Enqueue(IF net[r].streaming THEN data ELSE missing)
      /\ UNCHANGED Others
    BY DEF DataReceived
<1>2. NetTypes
    BY DEF StreamsInv, StreamTypes, NetTypes
<1>3. PICK n \in Nat : n = net[r].chunks
    BY <1>2 DEF NetTypes
<1>4. /\ data \in Observations /\ data.kind = "data" /\ data.request = r /\ data.chunk = n + 1
      /\ missing \in Observations /\ missing.kind = "missing" /\ missing.request = r
      /\ n + 1 \in Nat
  <2>1. net[r].chunks + 1 \in Nat
    BY <1>3
  <2> QED
    BY <1>3, <2>1 DEF Observations
<1> HIDE DEF data, missing
<1>5. PICK o \in Observations :
          /\ Enqueue(o) /\ o.request = r
          /\ net[r].streaming => o.kind = "data" /\ o.chunk = n + 1
          /\ ~net[r].streaming => o.kind = "missing"
    BY <1>1, <1>4
<1>6. /\ net'[r] = [net[r] EXCEPT !.chunks = @ + 1]
      /\ \A x \in Requests : x # r => net'[x] = net[x]
      /\ net'[r].chunks = n + 1 /\ net'[r].stage = net[r].stage /\ net'[r].streaming = net[r].streaming
    BY <1>1, <1>2, <1>3 DEF NetTypes
<1>7. NetTypes' /\ Onward
  <2>1. net' \in [Requests -> [stage : {"new", "sent", "receiving", "ended"}, chunks : Nat, streaming : BOOLEAN]]
    BY <1>1, <1>2, <1>3 DEF NetTypes
  <2>2. n + 1 <= Len(Bodies[r])
    <3>1. Len(Bodies[r]) \in Nat
      BY DEF ChunksOfBytes
    <3> QED
      BY <1>1, <1>3, <3>1
  <2>3. \A x \in Requests : net'[x].chunks <= Len(Bodies[x])
    BY <1>2, <1>6, <2>2 DEF NetTypes
  <2>4. Onward
    BY <1>6 DEF Onward
  <2> QED
    BY <2>1, <2>3, <2>4 DEF NetTypes
<1>8. Telling(o)
    BY <1>1, <1>3, <1>5, <1>6 DEF Telling, IsData
<1>9. Faithful(o)'
    BY <1>4, <1>5, <1>6 DEF Faithful
<1>10. o.kind # "response"
    BY <1>5
<1> QED
    BY <1>1, <1>5, <1>7, <1>8, <1>9, <1>10, EnqueueStep

LEMMA LoadingEndsStep ==
    ASSUME StreamsInv, NEW r \in Requests, LoadingEnds(r)
    PROVE  StreamsInv'
<1>1. PICK failed \in BOOLEAN : Enqueue([kind |-> "loading", request |-> r, failed |-> failed])
    BY DEF LoadingEnds
<1> DEFINE o == [kind |-> "loading", request |-> r, failed |-> failed]
<1>2. net[r].stage = "receiving" /\ net' = [net EXCEPT ![r].stage = "ended"] /\ Enqueue(o) /\ UNCHANGED Others
    BY <1>1 DEF LoadingEnds
<1>3. NetTypes
    BY DEF StreamsInv, StreamTypes, NetTypes
<1>4. o \in Observations /\ o.kind = "loading" /\ o.request = r
    BY DEF Observations
<1> HIDE DEF o
<1>5. NetTypes' /\ Onward
    BY <1>2, <1>3 DEF NetTypes, Onward
<1>6. Telling(o)
    BY <1>2, <1>3, <1>4 DEF NetTypes, Telling, IsData
<1>7. Faithful(o)'
    BY <1>4 DEF Faithful
<1> QED
    BY <1>2, <1>4, <1>5, <1>6, <1>7, EnqueueStep

LEMMA OtherEventStep ==
    ASSUME StreamsInv, NEW kind \in {"unapproved", "navigation"}, OtherEvent(kind)
    PROVE  StreamsInv'
<1> DEFINE o == [kind |-> kind, request |-> "none"]
<1>1. net' = net /\ Enqueue(o) /\ UNCHANGED Others
    BY DEF OtherEvent
<1>2. NetTypes
    BY DEF StreamsInv, StreamTypes, NetTypes
<1>3. o \in Observations /\ o.kind \in {"unapproved", "navigation"}
    BY DEF Observations
<1> HIDE DEF o
<1>4. NetTypes' /\ Onward
    BY <1>1, <1>2 DEF NetTypes, Onward
<1>5. Telling(o)
    BY <1>1, <1>2, <1>3 DEF NetTypes, Telling, IsData
<1>6. Faithful(o)'
    BY <1>3 DEF Faithful
<1>7. o.kind # "response"
    BY <1>3
<1> QED
    BY <1>1, <1>3, <1>4, <1>5, <1>6, <1>7, EnqueueStep

LEMMA RequestRedirectedStep ==
    ASSUME StreamsInv, NEW r \in Requests, RequestRedirected(r)
    PROVE  StreamsInv'
<1> DEFINE o == [kind |-> "reuse", request |-> r]
<1>1. net' = net /\ Enqueue(o) /\ UNCHANGED Others
    BY DEF RequestRedirected
<1>2. NetTypes
    BY DEF StreamsInv, StreamTypes, NetTypes
<1>3. o \in Observations /\ o.kind = "reuse" /\ o.request = r
    BY DEF Observations
<1> HIDE DEF o
<1>4. NetTypes' /\ Onward
    BY <1>1, <1>2 DEF NetTypes, Onward
<1>5. Telling(o)
    BY <1>1, <1>2, <1>3 DEF NetTypes, Telling, IsData
<1>6. Faithful(o)'
    BY <1>3 DEF Faithful
<1>7. o.kind # "response"
    BY <1>3
<1> QED
    BY <1>1, <1>3, <1>4, <1>5, <1>6, <1>7, EnqueueStep

-----------------------------------------------------------------------------
(* Streams end: each of some active streams leaves an outcome.             *)

LEMMA SetToSeqElements ==
    ASSUME NEW S, IsFiniteSet(S)
    PROVE  Cardinality(S) \in Nat /\ \A i \in 1..Cardinality(S) : SetToSeq(S)[i] \in S
<1>1. Cardinality(S) \in Nat /\ Bijection(1..Cardinality(S), S) # {}
    BY FS_CardinalityType DEF ExistsBijection
<1>2. PICK f : f \in Bijection(1..Cardinality(S), S)
    BY <1>1
<1>3. f \in [1..Cardinality(S) -> S] /\ IsInjective(f)
    BY <1>2 DEF Bijection, Injection
<1> DEFINE g == CHOOSE h \in [1..Cardinality(S) -> S] : IsInjective(h)
<1>4. g \in [1..Cardinality(S) -> S]
    BY <1>3
<1>5. SetToSeq(S) = g
    BY DEF SetToSeq
<1> HIDE DEF g
<1> QED
    BY <1>1, <1>4, <1>5

(* The outcome of an active stream.                                        *)
EndOf(e, r) ==
    /\ e.request = r /\ e.state \in Ends
    /\ \/ e.frames = streams[r].frames
       \/ e.state # "complete" /\ (r \notin dropped => IsPrefix(e.frames, FramesOf(r)))
    /\ e.state = "complete" => StateAtEnd(streams[r]) = "complete"

LEMMA WholeFrames ==
    ASSUME ChunksOfBytes, NEW r \in Requests
    PROVE  /\ FlattenSeq(Bodies[r]) \in Seq(Byte)
           /\ FramesOf(r) = FramesIn(FlattenSeq(Bodies[r]))
<1>1. Bodies[r] \in Seq(Seq(Byte)) /\ Len(Bodies[r]) \in Nat
    BY DEF ChunksOfBytes
<1>2. Sent(r, Len(Bodies[r])) = FlattenSeq(Bodies[r])
  <2>1. SubSeq(Bodies[r], 1, Len(Bodies[r])) = Bodies[r]
    BY <1>1
  <2> QED
    BY <2>1 DEF Sent
<1>3. PICK b \in Seq(Byte) : b = FlattenSeq(Bodies[r])
    BY <1>1, <1>2, BytesAreSent
<1>4. FramesOf(r) = Opened.frames \o FramesIn(Opened.buffer \o b)
    BY <1>3, FeedFrames DEF FramesOf
<1>5. Opened.frames = <<>> /\ Opened.buffer = <<>>
    BY DEF Opened
<1>6. <<>> \o b = b
    OBVIOUS
<1>7. PICK f \in Seq(Seq(Byte)) : f = FramesIn(b)
    BY FramesAreSequences
<1>8. <<>> \o f = f
    OBVIOUS
<1> QED
    BY <1>3, <1>4, <1>5, <1>6, <1>7, <1>8

(* Whole frames that end with a trailer are the whole response.            *)
LEMMA TrailerIsLast ==
    ASSUME ChunksOfBytes, TrailersLast, NEW r \in Requests, NEW b \in Seq(Byte),
           Begins(b, FlattenSeq(Bodies[r])), RestOf(b) = <<>>, Trailed(FramesIn(b))
    PROVE  b = FlattenSeq(Bodies[r])
<1>1. PICK w \in Seq(Byte) : w = FlattenSeq(Bodies[r])
    BY WholeFrames
<1>2. PICK e \in Seq(Byte) : w = b \o e
    BY <1>1 DEF Begins
<1>3. PICK h \in Nat : Len(b) \div 2 = h /\ (Len(b) = 2 * h \/ Len(b) = 2 * h + 1)
    BY HalfIsNat
<1>4. Len(b) = 2 * h
  <2>1. RestOf(b) = IF Len(b) = 2 * h THEN <<>> ELSE <<b[Len(b)]>>
    BY <1>3, RestBytes
  <2>2. <<b[Len(b)]>> # <<>>
    OBVIOUS
  <2> QED
    BY <2>1, <2>2
<1>5. PICK f \in Seq(Seq(Byte)) : f = FramesIn(b)
    BY FramesAreSequences
<1>6. Len(f) = h /\ h >= 1
  <2>1. Len(f) = h
    BY <1>3, <1>5, FramesAreSequences
  <2>2. f # <<>>
    BY <1>5 DEF Trailed
  <2> QED
    BY <2>1, <2>2
<1>7. f[h][1] = "T"
    BY <1>5, <1>6 DEF Trailed, Last
<1>8. f[h] = <<b[2 * h - 1], b[2 * h]>>
  <2>1. 2 * h <= Len(b)
    BY <1>4
  <2> QED
    BY <1>5, <1>6, <2>1, FrameBytes
<1>9. b[2 * h - 1] = "T"
    BY <1>7, <1>8
<1>10. PICK i \in Nat : i = 2 * h - 1 /\ i % FrameLength = 1 /\ i \in 1..Len(b)
  <2>1. (2 * h - 1) % 2 = 1 /\ 2 * h - 1 \in Nat /\ 2 * h - 1 \in 1..Len(b)
    BY <1>4, <1>6
  <2> QED
    BY <2>1 DEF FrameLength
<1>11. Len(w) = Len(b) + Len(e) /\ i \in 1..Len(w) /\ w[i] = "T"
    BY <1>2, <1>9, <1>10
<1>12. Len(w) <= i + 1
    BY <1>1, <1>10, <1>11 DEF TrailersLast
<1>13. Len(e) = 0
  <2>1. Len(b) + Len(e) <= Len(b)
    BY <1>4, <1>10, <1>11, <1>12
  <2> QED
    BY <2>1
<1>14. e = <<>>
    BY <1>13
<1>15. b \o <<>> = b
    OBVIOUS
<1> QED
    BY <1>1, <1>2, <1>14, <1>15

LEMMA NothingIsPrefix ==
    ASSUME ChunksOfBytes, NEW r \in Requests
    PROVE  IsPrefix(<<>>, FramesOf(r))
<1>1. PICK f \in Seq(Seq(Byte)) : f = FramesOf(r)
    BY WholeFrames, FramesAreSequences
<1>2. IsPrefix(<<>>, f)
    BY DEF IsPrefix
<1> QED
    BY <1>1, <1>2

LEMMA EndIsAsSent ==
    ASSUME StreamsInv, ChunksOfBytes, TrailersLast, NEW r \in Requests, r \notin dropped,
           streams[r].active, NEW e, EndOf(e, r)
    PROVE  AsSent(e)
<1>1. CASE e.frames = streams[r].frames /\ Sending(r)
  <2>1. streams[r] = Opened
    BY <1>1 DEF StreamsInv, SendingInv, Sending
  <2>2. e.frames = <<>> /\ e.state # "complete" /\ e.request = r
    BY <1>1, <2>1 DEF EndOf, Opened, StateAtEnd, Trailed
  <2> QED
    BY <2>2, NothingIsPrefix DEF AsSent
<1>2. CASE e.frames = streams[r].frames /\ ~Sending(r)
  <2>1. PICK c \in 0..net[r].chunks : Fed(streams[r], r, c)
    BY <1>2 DEF StreamsInv, FedInv, InStep
  <2>2. c \in 0..Len(Bodies[r])
    <3>1. net[r].chunks \in Nat /\ net[r].chunks <= Len(Bodies[r]) /\ Len(Bodies[r]) \in Nat
      BY DEF StreamsInv, StreamTypes, ChunksOfBytes
    <3> QED
      BY <3>1
  <2>3. PICK b \in Seq(Byte) : b = Sent(r, c)
    BY <2>2, BytesAreSent
  <2>4. Begins(b, FlattenSeq(Bodies[r]))
    BY <2>2, <2>3, SentBegins
  <2>5. e.request = r /\ e.frames = FramesIn(b)
    BY <1>2, <2>1, <2>3 DEF EndOf, Fed
  <2>6. IsPrefix(FramesIn(b), FramesOf(r))
    BY <2>4, FramesBegin, WholeFrames
  <2>7. ASSUME e.state = "complete" PROVE e.frames = FramesOf(r)
    <3>1. streams[r].buffer = <<>> /\ Trailed(streams[r].frames)
      BY <2>7 DEF EndOf, StateAtEnd
    <3>2. RestOf(b) = <<>> /\ Trailed(FramesIn(b))
      BY <2>1, <2>3, <3>1 DEF Fed
    <3>3. b = FlattenSeq(Bodies[r])
      BY <2>4, <3>2, TrailerIsLast
    <3> QED
      BY <2>5, <3>3, WholeFrames
  <2> QED
    BY <2>5, <2>6, <2>7 DEF AsSent
<1>3. CASE e.frames # streams[r].frames
    BY <1>3 DEF EndOf, AsSent
<1> QED
    BY <1>1, <1>2, <1>3

LEMMA ActiveIsFinite ==
    ASSUME FiniteRequests
    PROVE  /\ IsFiniteSet(ActiveStreams) /\ Cardinality(ActiveStreams) \in Nat
           /\ IsFiniteSet(ActiveStreams') /\ Cardinality(ActiveStreams') \in Nat
<1>1. ActiveStreams \in SUBSET Requests /\ ActiveStreams' \in SUBSET Requests
    BY DEF ActiveStreams
<1> QED
    BY <1>1, FS_Subset, FS_CardinalityType DEF FiniteRequests

LEMMA CardinalityLeft ==
    ASSUME NEW S, IsFiniteSet(S), NEW T \in SUBSET S
    PROVE  Cardinality(S \ T) = Cardinality(S) - Cardinality(T)
<1>1. Cardinality(S \ T) = Cardinality(S) - Cardinality(S \cap T)
    BY FS_Difference
<1>2. S \cap T = T
    OBVIOUS
<1> QED
    BY <1>1, <1>2

(* The outcomes of some streams take the place of the streams.             *)
LEMMA ClosingStep ==
    ASSUME StreamsInv, FiniteRequests, ChunksOfBytes, TrailersLast,
           NEW lost \in SUBSET ActiveStreams, NEW ends, dropped' = dropped,
           streams' = [r \in Requests |-> IF r \in lost THEN NoStream ELSE streams[r]],
           outcomes' = outcomes \o ends, ends \in Seq(StreamOutcomes), Len(ends) = Cardinality(lost),
           \A i \in 1..Len(ends) : \E r \in lost : EndOf(ends[i], r)
    PROVE  /\ streams' \in [Requests -> {NoStream} \cup StreamRecords]
           /\ outcomes' \in Seq(StreamOutcomes)
           /\ OutcomesInv' /\ CountInv'
           /\ \A r \in Requests : streams'[r].active => streams[r].active /\ streams'[r] = streams[r] /\ r \notin lost
<1>1. /\ streams \in [Requests -> {NoStream} \cup StreamRecords]
      /\ outcomes \in Seq(StreamOutcomes)
    BY DEF StreamsInv, StreamTypes
<1>2. streams' \in [Requests -> {NoStream} \cup StreamRecords]
    BY <1>1
<1>3. ~NoStream.active
    BY DEF NoStream
<1>4. \A r \in Requests : streams'[r].active => streams[r].active /\ streams'[r] = streams[r] /\ r \notin lost
    BY <1>3
<1>5. PICK s \in Seq(StreamOutcomes), e \in Seq(StreamOutcomes) : s = outcomes /\ e = ends
    BY <1>1
<1>6. /\ s \o e \in Seq(StreamOutcomes) /\ Len(s \o e) = Len(s) + Len(e)
      /\ Len(s) \in Nat /\ Len(e) \in Nat
      /\ \A i \in 1..Len(s) : (s \o e)[i] = s[i]
    OBVIOUS
<1>7. \A i \in 1..(Len(s) + Len(e)) : i \in 1..Len(s) \/ (i - Len(s) \in 1..Len(e) /\ (s \o e)[i] = e[i - Len(s)])
    BY <1>6
<1>8. outcomes' = s \o e
    BY <1>5
<1>9. OutcomesInv'
  <2> SUFFICES ASSUME NEW i \in 1..Len(s \o e), (s \o e)[i].request \notin dropped
               PROVE  AsSent((s \o e)[i])
    BY <1>8 DEF OutcomesInv, AsSent, FramesOf
  <2>1. CASE i \in 1..Len(s)
    BY <1>5, <1>6, <2>1 DEF StreamsInv, OutcomesInv
  <2>2. CASE i - Len(s) \in 1..Len(e) /\ (s \o e)[i] = e[i - Len(s)]
    <3>1. PICK r \in lost : EndOf((s \o e)[i], r)
      BY <1>5, <2>2
    <3>2. r \in Requests /\ streams[r].active
      BY DEF ActiveStreams
    <3>3. r \notin dropped
      BY <3>1 DEF EndOf
    <3> QED
      BY <3>1, <3>2, <3>3, EndIsAsSent
  <2> QED
    BY <1>6, <1>7, <2>1, <2>2
<1>10. CountInv'
  <2>1. ActiveStreams' = ActiveStreams \ lost
    BY <1>3, <1>1 DEF ActiveStreams
  <2>2. IsFiniteSet(ActiveStreams) /\ IsFiniteSet(lost) /\ Cardinality(ActiveStreams) \in Nat /\ Cardinality(lost) \in Nat
    BY ActiveIsFinite, FS_Subset, FS_CardinalityType
  <2>3. Cardinality(ActiveStreams \ lost) = Cardinality(ActiveStreams) - Cardinality(lost)
    <3>1. PICK S : S = ActiveStreams
      OBVIOUS
    <3>2. Cardinality(S \ lost) = Cardinality(S) - Cardinality(lost)
      BY <2>2, <3>1, CardinalityLeft
    <3> QED
      BY <3>1, <3>2
  <2>4. Cardinality(ActiveStreams') + Len(outcomes') = Cardinality(ActiveStreams) + Len(outcomes)
    <3>1. Len(e) = Cardinality(lost)
      BY <1>5
    <3>2. Len(outcomes') = Len(s) + Len(e) /\ Len(s) = Len(outcomes)
      BY <1>5, <1>6, <1>8
    <3> QED
      BY <1>6, <2>1, <2>2, <2>3, <3>1, <3>2
  <2>5. LimitTold => LimitTold'
    <3> SUFFICES ASSUME LimitTold PROVE LimitTold'
      OBVIOUS
    <3>1. PICK i \in 1..Len(s) : s[i].state = "limit"
      BY <1>5 DEF LimitTold
    <3>2. i \in 1..Len(s \o e) /\ (s \o e)[i].state = "limit"
      BY <1>6, <3>1
    <3> QED
      BY <1>8, <3>2 DEF LimitTold
  <2>6. Cardinality(ActiveStreams) + Len(outcomes) \in Nat
    BY <1>1, <2>2
  <2> QED
    BY <2>4, <2>5, <2>6 DEF StreamsInv, CountInv, FiniteRequests
<1> QED
    BY <1>1, <1>2, <1>4, <1>5, <1>6, <1>8, <1>9, <1>10

LEMMA StreamIsTyped ==
    ASSUME StreamTypes, NEW r \in Requests
    PROVE  /\ streams[r].active \in BOOLEAN
           /\ streams[r].active => streams[r] \in StreamRecords /\ streams[r].frames \in Seq(Seq(Byte))
           /\ ~streams[r].active => streams[r] = NoStream
<1>1. CASE streams[r] = NoStream
  <2>1. streams[r].active = FALSE
    BY <1>1 DEF NoStream
  <2> QED
    BY <1>1, <2>1
<1>2. CASE streams[r] \in StreamRecords
  <2>1. streams[r].active = TRUE /\ streams[r].frames \in Seq(Seq(Byte))
    BY <1>2 DEF StreamRecords
  <2> QED
    BY <1>2, <2>1
<1> QED
    BY <1>1, <1>2 DEF StreamTypes

(* One outcome takes the place of one stream.                               *)
LEMMA OneEndsStep ==
    ASSUME StreamsInv, FiniteRequests, ChunksOfBytes, TrailersLast, NEW r \in Requests, streams[r].active,
           NEW e \in StreamOutcomes, EndOf(e, r), dropped' = dropped,
           streams' = [streams EXCEPT ![r] = NoStream], outcomes' = Append(outcomes, e)
    PROVE  /\ streams' \in [Requests -> {NoStream} \cup StreamRecords]
           /\ outcomes' \in Seq(StreamOutcomes)
           /\ OutcomesInv' /\ CountInv'
           /\ \A x \in Requests : streams'[x].active => streams[x].active /\ streams'[x] = streams[x] /\ x # r
<1>1. outcomes \in Seq(StreamOutcomes) /\ streams \in [Requests -> {NoStream} \cup StreamRecords]
    BY DEF StreamsInv, StreamTypes
<1>2. {r} \in SUBSET ActiveStreams /\ Cardinality({r}) = 1
    BY FS_Singleton DEF ActiveStreams
<1>3. PICK lost \in SUBSET ActiveStreams : lost = {r} /\ Cardinality(lost) = 1
    BY <1>2
<1>4. <<e>> \in Seq(StreamOutcomes) /\ Len(<<e>>) = 1 /\ <<e>>[1] = e
    OBVIOUS
<1>5. PICK ends \in Seq(StreamOutcomes) : ends = <<e>>
    BY <1>4
<1>6. Len(ends) = Cardinality(lost)
    BY <1>3, <1>4, <1>5
<1>7. outcomes' = outcomes \o ends
    BY <1>1, <1>5
<1>8. streams' = [x \in Requests |-> IF x \in lost THEN NoStream ELSE streams[x]]
    BY <1>1, <1>3
<1>9. \A i \in 1..Len(ends) : \E x \in lost : EndOf(ends[i], x)
    BY <1>3, <1>4, <1>5
<1>10. /\ streams' \in [Requests -> {NoStream} \cup StreamRecords]
       /\ outcomes' \in Seq(StreamOutcomes)
       /\ OutcomesInv' /\ CountInv'
       /\ \A x \in Requests : streams'[x].active => streams[x].active /\ streams'[x] = streams[x] /\ x \notin lost
    BY <1>6, <1>7, <1>8, <1>9, ClosingStep
<1> QED
    BY <1>3, <1>10

LEMMA FinishStep ==
    ASSUME StreamsInv, FiniteRequests, ChunksOfBytes, TrailersLast, NEW r \in Requests, NEW state \in Ends,
           streams' = [streams EXCEPT ![r] = NoStream], dropped' = dropped,
           outcomes' = IF streams[r].active THEN Append(outcomes, Finished(r, state, streams[r].frames)) ELSE outcomes,
           streams[r].active /\ state = "complete" => StateAtEnd(streams[r]) = "complete"
    PROVE  /\ streams' \in [Requests -> {NoStream} \cup StreamRecords]
           /\ outcomes' \in Seq(StreamOutcomes)
           /\ OutcomesInv' /\ CountInv'
           /\ \A x \in Requests : streams'[x].active => streams[x].active /\ streams'[x] = streams[x] /\ x # r
<1>1. StreamTypes
    BY DEF StreamsInv
<1>2. outcomes \in Seq(StreamOutcomes) /\ streams \in [Requests -> {NoStream} \cup StreamRecords]
    BY <1>1 DEF StreamTypes
<1>3. CASE streams[r].active
  <2> DEFINE e == Finished(r, state, streams[r].frames)
  <2>1. e \in StreamOutcomes
    BY <1>1, <1>3, StreamIsTyped DEF Finished, StreamOutcomes
  <2>2. EndOf(e, r)
    BY <1>3 DEF EndOf, Finished
  <2>3. outcomes' = Append(outcomes, e)
    BY <1>3
  <2> HIDE DEF e
  <2> QED
    BY <1>3, <2>1, <2>2, <2>3, OneEndsStep
<1>4. CASE ~streams[r].active
  <2>1. streams[r] = NoStream
    BY <1>1, <1>4, StreamIsTyped
  <2>2. streams' = streams /\ outcomes' = outcomes
    BY <1>2, <1>4, <2>1
  <2>3. OutcomesInv' /\ CountInv'
    BY <2>2 DEF StreamsInv, OutcomesInv, AsSent, FramesOf, CountInv, LimitTold, ActiveStreams
  <2> QED
    BY <1>2, <1>4, <2>2, <2>3
<1> QED
    BY <1>3, <1>4

-----------------------------------------------------------------------------
(* What a step of the consumer leaves alone.                               *)

LEMMA ConsumedQueue ==
    ASSUME StreamsInv, queue # <<>>, Consumed,
           \A r \in Requests : streams'[r].active => streams[r].active \/ IsResponse(Head(queue), r)
    PROVE  QueueInv' /\ queue' \in Seq(Observations)
<1>1. queue \in Seq(Observations) /\ QueueInv
    BY DEF StreamsInv, StreamTypes
<1>2. queue' = Tail(queue) /\ net' = net
    BY DEF Consumed
<1>3. /\ Tail(queue) \in Seq(Observations) /\ Head(queue) = queue[1] /\ 1 \in 1..Len(queue)
      /\ \A i \in 1..Len(Tail(queue)) : i + 1 \in 1..Len(queue) /\ Tail(queue)[i] = queue[i + 1]
    BY <1>1, QueueTail
<1>4. Ascending(queue') /\ OneResponse(queue')
    BY <1>1, <1>2, OrderAfterTail DEF QueueInv
<1>5. ASSUME NEW i \in 1..Len(queue') PROVE Faithful(queue[i])'
  <2>1. i + 1 \in 1..Len(queue) /\ queue'[i] = queue[i + 1]
    BY <1>2, <1>3
  <2>2. PICK p : p = queue[i + 1]
    OBVIOUS
  <2>3. Faithful(p)
    BY <1>1, <2>1, <2>2 DEF QueueInv
  <2>4. ASSUME p.kind = "response" PROVE ~streams'[p.request].active
    <3>1. p.request \in Requests /\ ~streams[p.request].active
      BY <2>3, <2>4 DEF Faithful
    <3>2. ASSUME IsResponse(Head(queue), p.request) PROVE FALSE
      <4>1. i + 1 = 1
        BY <1>1, <1>3, <2>1, <2>2, <2>4, <3>2 DEF QueueInv, OneResponse, IsResponse
      <4> QED
        BY <4>1
    <3> QED
      BY <3>1, <3>2
  <2>5. Faithful(p)'
    BY <1>2, <2>3, <2>4 DEF Faithful
  <2> QED
    BY <2>1, <2>2, <2>5
<1>6. ASSUME NEW r \in Requests, net'[r].stage \in {"new", "sent"} PROVE ~net'[r].streaming /\ ~streams'[r].active
  <2>1. ~net[r].streaming /\ ~streams[r].active
    BY <1>1, <1>2, <1>6 DEF QueueInv
  <2>2. ~IsResponse(Head(queue), r)
    BY <1>1, <1>2, <1>3, <1>6 DEF QueueInv, Faithful, IsResponse
  <2> QED
    BY <1>2, <2>1, <2>2
<1> QED
    BY <1>2, <1>3, <1>4, <1>5, <1>6 DEF QueueInv

LEMMA KeptQueue ==
    ASSUME StreamsInv, queue' = queue, net' = net,
           \A r \in Requests : streams'[r].active => streams[r].active
    PROVE  QueueInv' /\ queue' \in Seq(Observations)
<1>1. queue \in Seq(Observations) /\ QueueInv
    BY DEF StreamsInv, StreamTypes
<1>2. ASSUME NEW i \in 1..Len(queue) PROVE Faithful(queue[i])'
  <2>1. PICK p : p = queue[i]
    OBVIOUS
  <2>2. Faithful(p)
    BY <1>1, <2>1 DEF QueueInv
  <2>3. Faithful(p)'
    BY <2>2 DEF Faithful
  <2> QED
    BY <2>1, <2>3
<1> QED
    BY <1>1, <1>2 DEF QueueInv

LEMMA InStepKept ==
    ASSUME NEW r \in Requests, InStep(r), queue' = queue, net' = net, dropped' = dropped, streams'[r] = streams[r]
    PROVE  InStep(r)'
BY DEF InStep, Live, Fed

LEMMA InStepAfterHead ==
    ASSUME StreamsInv, NEW r \in Requests, InStep(r), queue # <<>>, Consumed, streams'[r] = streams[r],
           ~IsData(Head(queue), r)
    PROVE  InStep(r)'
<1>1. queue \in Seq(Observations) /\ net[r].chunks \in Nat
    BY DEF StreamsInv, StreamTypes
<1>2. queue' = Tail(queue) /\ net' = net /\ dropped' = dropped
    BY DEF Consumed
<1>3. ASSUME r \notin dropped
      PROVE  \E c \in 0..net[r].chunks : Fed(streams[r], r, c) /\ Pending(queue', r, c, net[r].chunks)
  <2>1. PICK c \in 0..net[r].chunks : Fed(streams[r], r, c) /\ Pending(queue, r, c, net[r].chunks)
    BY <1>3 DEF InStep
  <2>2. c \in Nat
    OBVIOUS
  <2>3. Pending(Tail(queue), r, c, net[r].chunks)
    BY <1>1, <2>1, <2>2, PendingTail
  <2> QED
    BY <1>2, <2>1, <2>3
<1> QED
    BY <1>2, <1>3 DEF InStep, Live, Fed

(* The effect of feeding raw bytes to a stream. *)
RawDataFed(r, stream, raw) ==
    /\ streams' \in [Requests -> {NoStream} \cup StreamRecords]
    /\ outcomes' \in Seq(StreamOutcomes)
    /\ bytes' \in Nat /\ bytes' <= MaximumStreamingBytes
    /\ OutcomesInv' /\ CountInv'
    /\ \A x \in Requests \ {r} : streams'[x].active => streams[x].active /\ streams'[x] = streams[x]
    /\ streams'[r].active =>
          /\ streams'[r].first = stream.first /\ streams'[r].buffered = stream.buffered
          /\ streams'[r].buffer = RestOf(stream.buffer \o raw)
          /\ streams'[r].frames = stream.frames \o FramesIn(stream.buffer \o raw)

LEMMA FramesSent ==
    ASSUME ChunksOfBytes, NEW r \in Requests, NEW k \in 0..Len(Bodies[r])
    PROVE  IsPrefix(FramesIn(Sent(r, k)), FramesOf(r))
<1>1. PICK b \in Seq(Byte) : b = Sent(r, k)
    BY BytesAreSent
<1>2. Begins(b, FlattenSeq(Bodies[r]))
    BY <1>1, SentBegins
<1> QED
    BY <1>1, <1>2, FramesBegin, WholeFrames

LEMMA ShorterPrefix ==
    ASSUME NEW f \in Seq(Seq(Byte)), NEW n \in 0..Len(f)
    PROVE  /\ SubSeq(f, 1, n) \in Seq(Seq(Byte))
           /\ \A g \in Seq(Seq(Byte)) : IsPrefix(f, g) => IsPrefix(SubSeq(f, 1, n), g)
<1>1. n \in Nat /\ Len(f) \in Nat /\ n <= Len(f)
    OBVIOUS
<1>2. PICK p \in Seq(Seq(Byte)) : p = SubSeq(f, 1, n)
  <2>1. SubSeq(f, 1, n) \in Seq(Seq(Byte))
    BY <1>1, SubSeqProperties
  <2> QED
    BY <2>1
<1>3. Len(p) = n /\ \A i \in 1..n : p[i] = f[i]
    BY <1>1, <1>2
<1>4. ASSUME NEW g \in Seq(Seq(Byte)), IsPrefix(f, g) PROVE IsPrefix(p, g)
  <2>1. Len(f) <= Len(g) /\ \A i \in 1..Len(f) : f[i] = g[i]
    BY <1>4 DEF IsPrefix
  <2> QED
    BY <1>1, <1>2, <1>3, <2>1 DEF IsPrefix
<1> QED
    BY <1>2, <1>4

(* The decoder takes raw bytes, or the stream is rejected.                 *)
LEMMA FeedRawDataStep ==
    ASSUME StreamsInv, FiniteRequests, ChunksOfBytes, TrailersLast,
           NEW r \in Requests, streams[r].active,
           NEW stream \in StreamRecords, NEW raw \in Seq(Byte), FeedRawData(r, stream, raw), dropped' = dropped,
           r \notin dropped => IsPrefix(stream.frames \o FramesIn(stream.buffer \o raw), FramesOf(r))
    PROVE  RawDataFed(r, stream, raw)
<1> USE DEF RawDataFed
<1>1. /\ StreamTypes /\ Len(raw) \in Nat /\ bytes \in Nat /\ bytes <= MaximumStreamingBytes
      /\ streams \in [Requests -> {NoStream} \cup StreamRecords] /\ outcomes \in Seq(StreamOutcomes)
    BY DEF StreamsInv, StreamTypes
<1> DEFINE fed == Feed(stream, raw)
<1>2. CASE /\ bytes + Len(raw) <= MaximumStreamingBytes
           /\ bytes' = bytes + Len(raw)
           /\ streams' = [streams EXCEPT ![r] = [stream EXCEPT !.buffer = fed.rest, !.frames = fed.frames]]
           /\ UNCHANGED outcomes
  <2>1. PICK b \in Seq(Byte), f \in Seq(Seq(Byte)) : b = stream.buffer /\ f = stream.frames
    BY DEF StreamRecords
  <2>2. b \o raw \in Seq(Byte)
    OBVIOUS
  <2>3. RestOf(b \o raw) \in Seq(Byte) /\ FramesIn(b \o raw) \in Seq(Seq(Byte))
    BY <2>2, FramesAreSequences
  <2>4. f \o FramesIn(b \o raw) \in Seq(Seq(Byte))
    BY <2>3, ConcatProperties
  <2>5. fed.rest = RestOf(b \o raw) /\ fed.frames = f \o FramesIn(b \o raw)
    BY <2>1, FeedFrames
  <2>6. PICK rest \in Seq(Byte), frames \in Seq(Seq(Byte)) : rest = fed.rest /\ frames = fed.frames
    BY <2>3, <2>4, <2>5
  <2> HIDE DEF fed
  <2> DEFINE new == [stream EXCEPT !.buffer = rest, !.frames = frames]
  <2>7. /\ new \in StreamRecords /\ new.active /\ new.buffer = rest /\ new.frames = frames
        /\ new.first = stream.first /\ new.buffered = stream.buffered
    BY DEF StreamRecords
  <2>8. streams' = [streams EXCEPT ![r] = new]
    BY <1>2, <2>6
  <2> HIDE DEF new
  <2>9. streams'[r] = new /\ \A x \in Requests \ {r} : streams'[x] = streams[x]
    BY <1>1, <2>8
  <2>10. streams' \in [Requests -> {NoStream} \cup StreamRecords]
    BY <1>1, <2>7, <2>8
  <2>11. ActiveStreams' = ActiveStreams
    BY <2>7, <2>9 DEF ActiveStreams
  <2>12. OutcomesInv' /\ CountInv'
    BY <1>2, <2>11 DEF StreamsInv, OutcomesInv, AsSent, FramesOf, CountInv, LimitTold
  <2>13. /\ streams'[r].first = stream.first /\ streams'[r].buffered = stream.buffered
         /\ streams'[r].buffer = RestOf(stream.buffer \o raw)
         /\ streams'[r].frames = stream.frames \o FramesIn(stream.buffer \o raw)
    <3>1. rest = RestOf(b \o raw) /\ frames = f \o FramesIn(b \o raw)
      BY <2>5, <2>6
    <3>2. streams'[r].buffer = rest /\ streams'[r].frames = frames
      BY <2>7, <2>9
    <3> QED
      BY <2>1, <2>7, <2>9, <3>1, <3>2
  <2>14. bytes' \in Nat /\ bytes' <= MaximumStreamingBytes
    BY <1>1, <1>2
  <2>15. \A x \in Requests \ {r} : streams'[x].active => streams[x].active /\ streams'[x] = streams[x]
    BY <2>9
  <2>16. outcomes' \in Seq(StreamOutcomes)
    BY <1>1, <1>2
  <2> QED
    BY <2>10, <2>12, <2>13, <2>14, <2>15, <2>16
<1>3. CASE /\ bytes' = bytes \/ (bytes + Len(raw) <= MaximumStreamingBytes /\ bytes' = bytes + Len(raw))
           /\ Finish(r, "rejected")
  <2>1. bytes' \in Nat /\ bytes' <= MaximumStreamingBytes
    BY <1>1, <1>3
  <2>2. "rejected" \in Ends
    BY DEF Ends
  <2>3. /\ streams' \in [Requests -> {NoStream} \cup StreamRecords]
        /\ outcomes' \in Seq(StreamOutcomes)
        /\ OutcomesInv' /\ CountInv'
        /\ \A x \in Requests : streams'[x].active => streams[x].active /\ streams'[x] = streams[x] /\ x # r
    BY <1>3, <2>2, FinishStep DEF Finish
  <2> QED
    BY <2>1, <2>3
<1>4. CASE /\ bytes + Len(raw) <= MaximumStreamingBytes /\ bytes' = bytes + Len(raw)
           /\ streams' = [streams EXCEPT ![r] = NoStream]
           /\ \E stored \in Len(stream.frames)..(Len(fed.frames) - 1) :
                 outcomes' = Append(outcomes, Finished(r, "rejected", SubSeq(fed.frames, 1, stored)))
  <2>1. fed.frames = stream.frames \o FramesIn(stream.buffer \o raw)
    BY FeedFrames
  <2>2. PICK all \in Seq(Seq(Byte)) : all = fed.frames
    <3>1. stream.buffer \in Seq(Byte) /\ stream.frames \in Seq(Seq(Byte))
      BY DEF StreamRecords
    <3>2. stream.buffer \o raw \in Seq(Byte)
      BY <3>1
    <3>3. FramesIn(stream.buffer \o raw) \in Seq(Seq(Byte))
      BY <3>2, FramesAreSequences
    <3> QED
      BY <2>1, <3>1, <3>3, ConcatProperties
  <2> HIDE DEF fed
  <2>3. PICK stored \in Len(stream.frames)..(Len(all) - 1) :
            outcomes' = Append(outcomes, Finished(r, "rejected", SubSeq(all, 1, stored)))
    BY <1>4, <2>2
  <2>4. stored \in 0..Len(all)
    <3>1. Len(stream.frames) \in Nat /\ Len(all) \in Nat
      BY DEF StreamRecords
    <3> QED
      BY <3>1
  <2>5. SubSeq(all, 1, stored) \in Seq(Seq(Byte))
    BY <2>4, ShorterPrefix
  <2>6. r \notin dropped => IsPrefix(SubSeq(all, 1, stored), FramesOf(r))
    <3>1. FramesOf(r) \in Seq(Seq(Byte))
      BY WholeFrames, FramesAreSequences
    <3> QED
      BY <2>1, <2>2, <2>4, <3>1, ShorterPrefix
  <2> DEFINE e == Finished(r, "rejected", SubSeq(all, 1, stored))
  <2>7. e \in StreamOutcomes /\ EndOf(e, r)
    BY <2>5, <2>6 DEF Finished, StreamOutcomes, Ends, EndOf
  <2>8. outcomes' = Append(outcomes, e)
    BY <2>3
  <2> HIDE DEF e
  <2>9. /\ streams' \in [Requests -> {NoStream} \cup StreamRecords]
        /\ outcomes' \in Seq(StreamOutcomes)
        /\ OutcomesInv' /\ CountInv'
        /\ \A x \in Requests : streams'[x].active => streams[x].active /\ streams'[x] = streams[x] /\ x # r
    BY <1>4, <2>7, <2>8, OneEndsStep
  <2>10. bytes' \in Nat /\ bytes' <= MaximumStreamingBytes
    BY <1>1, <1>4
  <2> QED
    BY <2>9, <2>10
<1> QED
    BY <1>2, <1>3, <1>4 DEF FeedRawData

-----------------------------------------------------------------------------
(* The steps of the consumer.                                              *)

LEMMA NotSendingInv ==
    ASSUME consumer.stage # "sending"
    PROVE  SendingInv /\ \A r \in Requests : ~Sending(r)
BY DEF SendingInv, Sending

LEMMA HeadIsFaithful ==
    ASSUME StreamsInv, queue # <<>>
    PROVE  queue \in Seq(Observations) /\ Head(queue) \in Observations /\ Faithful(Head(queue))
BY QueueTail DEF StreamsInv, StreamTypes, QueueInv

(* Every stream that stays open is as it was and not the one consumed for.  *)
LEMMA ConsumingStep ==
    ASSUME StreamsInv, consumer.stage = "draining", consumer' = consumer, queue # <<>>, Consumed,
           streams' \in [Requests -> {NoStream} \cup StreamRecords], outcomes' \in Seq(StreamOutcomes),
           bytes' \in Nat, bytes' <= MaximumStreamingBytes, OutcomesInv', CountInv',
           \A r \in Requests : streams'[r].active => streams[r].active,
           \A r \in Requests : streams'[r].active => InStep(r)'
    PROVE  StreamsInv'
<1>1. QueueInv' /\ queue' \in Seq(Observations)
    BY ConsumedQueue
<1>2. StreamTypes'
    BY <1>1 DEF StreamsInv, StreamTypes, Consumed
<1>3. SendingInv'
    BY DEF SendingInv
<1>4. FedInv'
    BY DEF FedInv
<1> QED
    BY <1>1, <1>2, <1>3, <1>4 DEF StreamsInv

LEMMA OthersInStep ==
    ASSUME StreamsInv, consumer.stage = "draining", queue # <<>>, Consumed,
           NEW r \in Requests, streams[r].active, streams'[r] = streams[r], ~IsData(Head(queue), r)
    PROVE  InStep(r)'
<1>1. InStep(r)
    BY NotSendingInv DEF StreamsInv, FedInv
<1> QED
    BY <1>1, InStepAfterHead

LEMMA ConsumeRequestStep ==
    ASSUME StreamsInv, ConsumeRequest
    PROVE  StreamsInv'
<1>1. /\ consumer.stage = "draining" /\ consumer' = consumer /\ queue # <<>> /\ Consumed
      /\ Head(queue).kind = "request"
      /\ streams' = streams /\ outcomes' = outcomes /\ bytes' = bytes
    BY DEF ConsumeRequest, Consuming
<1>2. \A r \in Requests : ~IsData(Head(queue), r)
    BY <1>1 DEF IsData
<1>3. \A r \in Requests : streams'[r].active => InStep(r)'
    BY <1>1, <1>2, OthersInStep
<1>4. /\ streams' \in [Requests -> {NoStream} \cup StreamRecords] /\ outcomes' \in Seq(StreamOutcomes)
      /\ bytes' \in Nat /\ bytes' <= MaximumStreamingBytes
    BY <1>1 DEF StreamsInv, StreamTypes
<1>5. OutcomesInv' /\ CountInv'
    BY <1>1 DEF StreamsInv, OutcomesInv, AsSent, FramesOf, CountInv, ActiveStreams, LimitTold, Consumed
<1> QED
    BY <1>1, <1>3, <1>4, <1>5, ConsumingStep

LEMMA ConsumeOtherStep ==
    ASSUME StreamsInv, ConsumeOther
    PROVE  StreamsInv'
<1>1. /\ consumer.stage = "draining" /\ consumer' = consumer /\ queue # <<>> /\ Consumed
      /\ Head(queue).kind = "unapproved"
      /\ streams' = streams /\ outcomes' = outcomes /\ bytes' = bytes
    BY DEF ConsumeOther, Consuming
<1>2. \A r \in Requests : ~IsData(Head(queue), r)
    BY <1>1 DEF IsData
<1>3. \A r \in Requests : streams'[r].active => InStep(r)'
    BY <1>1, <1>2, OthersInStep
<1>4. /\ streams' \in [Requests -> {NoStream} \cup StreamRecords] /\ outcomes' \in Seq(StreamOutcomes)
      /\ bytes' \in Nat /\ bytes' <= MaximumStreamingBytes
    BY <1>1 DEF StreamsInv, StreamTypes
<1>5. OutcomesInv' /\ CountInv'
    BY <1>1 DEF StreamsInv, OutcomesInv, AsSent, FramesOf, CountInv, ActiveStreams, LimitTold, Consumed
<1> QED
    BY <1>1, <1>3, <1>4, <1>5, ConsumingStep

LEMMA ConsumeMissingStep ==
    ASSUME StreamsInv, ConsumeMissing
    PROVE  StreamsInv'
<1>1. /\ consumer.stage = "draining" /\ consumer' = consumer /\ queue # <<>> /\ Consumed
      /\ Head(queue).kind = "missing" /\ outcomes' = outcomes /\ bytes' = bytes
    BY DEF ConsumeMissing, Consuming
<1>2. PICK r \in Requests : r = Subject
    BY <1>1, HeadIsFaithful DEF Subject, Faithful
<1>3. streams' = IF streams[r].active THEN [streams EXCEPT ![r].missing = @ + 1] ELSE streams
    BY <1>2 DEF ConsumeMissing
<1>4. streams \in [Requests -> {NoStream} \cup StreamRecords] /\ outcomes \in Seq(StreamOutcomes)
    BY DEF StreamsInv, StreamTypes
<1>5. \A x \in Requests \ {r} : streams'[x] = streams[x]
    BY <1>3, <1>4
<1>6. CASE streams[r].active
  <2>1. PICK s \in StreamRecords : s = streams[r]
    BY <1>6, StreamIsTyped DEF StreamsInv
  <2>2. PICK m \in Nat : m = s.missing + 1
    BY DEF StreamRecords
  <2> DEFINE new == [s EXCEPT !.missing = m]
  <2>3. new \in StreamRecords /\ new.active /\ s.active
    BY DEF StreamRecords
  <2>4. new.buffer = s.buffer /\ new.frames = s.frames /\ new.first = s.first /\ new.buffered = s.buffered
    BY DEF StreamRecords
  <2>5. streams' = [streams EXCEPT ![r] = new]
    BY <1>3, <1>4, <1>6, <2>1, <2>2
  <2> HIDE DEF new
  <2>6. streams'[r] = new /\ streams' \in [Requests -> {NoStream} \cup StreamRecords]
    BY <1>4, <2>3, <2>5
  <2>7. ActiveStreams' = ActiveStreams
    BY <1>5, <2>1, <2>3, <2>6 DEF ActiveStreams
  <2>8. InStep(r)
    BY <1>1, <1>6, NotSendingInv DEF StreamsInv, FedInv
  <2>9. PICK n \in Nat, keep \in BOOLEAN : n = net[r].chunks /\ keep = (r \notin dropped)
    BY DEF StreamsInv, StreamTypes
  <2>10. queue' = Tail(queue) /\ net' = net /\ dropped' = dropped
    BY <1>1 DEF Consumed
  <2>11. ASSUME r \notin dropped
         PROVE  \E c \in 0..net[r].chunks : Fed(new, r, c) /\ Pending(Tail(queue), r, c, net[r].chunks)
    <3>1. PICK c \in 0..n : Fed(s, r, c) /\ Pending(queue, r, c, n)
      BY <2>1, <2>8, <2>9, <2>11 DEF InStep
    <3>2. Pending(Tail(queue), r, c, n)
      BY <1>1, <3>1, PendingTail, HeadIsFaithful DEF IsData
    <3> QED
      BY <2>4, <2>9, <3>1, <3>2 DEF Fed
  <2>12. InStep(r)'
    BY <2>6, <2>8, <2>10, <2>11 DEF InStep, Live, Fed
  <2>13. \A x \in Requests : streams'[x].active => streams[x].active /\ InStep(x)'
    <3> SUFFICES ASSUME NEW x \in Requests, x # r, streams'[x].active PROVE streams[x].active /\ InStep(x)'
      BY <1>6, <2>12
    <3> QED
      BY <1>1, <1>5, OthersInStep DEF IsData
  <2>14. OutcomesInv' /\ CountInv'
    BY <1>1, <2>7, <2>10 DEF StreamsInv, OutcomesInv, AsSent, FramesOf, CountInv, LimitTold
  <2>15. outcomes' \in Seq(StreamOutcomes) /\ bytes' \in Nat /\ bytes' <= MaximumStreamingBytes
    BY <1>1, <1>4 DEF StreamsInv, StreamTypes
  <2> QED
    BY <1>1, <2>6, <2>13, <2>14, <2>15, ConsumingStep
<1>7. CASE ~streams[r].active
  <2>1. streams' = streams
    BY <1>3, <1>7
  <2>2. \A x \in Requests : streams'[x].active => streams[x].active /\ InStep(x)'
    BY <1>1, <2>1, OthersInStep DEF IsData
  <2>3. OutcomesInv' /\ CountInv'
    BY <1>1, <2>1 DEF StreamsInv, OutcomesInv, AsSent, FramesOf, CountInv, ActiveStreams, LimitTold, Consumed
  <2>4. outcomes' \in Seq(StreamOutcomes) /\ bytes' \in Nat /\ bytes' <= MaximumStreamingBytes
    BY <1>1, <1>4 DEF StreamsInv, StreamTypes
  <2> QED
    BY <1>1, <1>4, <2>1, <2>2, <2>3, <2>4, ConsumingStep
<1> QED
    BY <1>6, <1>7

LEMMA ConsumeReuseStep ==
    ASSUME StreamsInv, FiniteRequests, ChunksOfBytes, TrailersLast, ConsumeReuse
    PROVE  StreamsInv'
<1>1. /\ consumer.stage = "draining" /\ consumer' = consumer /\ queue # <<>> /\ Consumed
      /\ Head(queue).kind = "reuse" /\ bytes' = bytes
    BY DEF ConsumeReuse, Consuming
<1>2. PICK r \in Requests : r = Subject
    BY <1>1, HeadIsFaithful DEF Subject, Faithful
<1>3. /\ streams' = [streams EXCEPT ![r] = NoStream] /\ dropped' = dropped
      /\ outcomes' = IF streams[r].active THEN Append(outcomes, Finished(r, "transport_error", streams[r].frames))
                     ELSE outcomes
    BY <1>1, <1>2 DEF ConsumeReuse, Consumed
<1>4. "transport_error" \in Ends /\ "transport_error" # "complete"
    BY DEF Ends
<1>5. /\ streams' \in [Requests -> {NoStream} \cup StreamRecords]
      /\ outcomes' \in Seq(StreamOutcomes)
      /\ OutcomesInv' /\ CountInv'
      /\ \A x \in Requests : streams'[x].active => streams[x].active /\ streams'[x] = streams[x] /\ x # r
    BY <1>3, <1>4, FinishStep
<1>6. \A x \in Requests : streams'[x].active => streams[x].active /\ InStep(x)'
    BY <1>1, <1>5, OthersInStep DEF IsData
<1>7. bytes' \in Nat /\ bytes' <= MaximumStreamingBytes
    BY <1>1 DEF StreamsInv, StreamTypes
<1> QED
    BY <1>1, <1>5, <1>6, <1>7, ConsumingStep

LEMMA ConsumeLoadingStep ==
    ASSUME StreamsInv, FiniteRequests, ChunksOfBytes, TrailersLast, ConsumeLoading
    PROVE  StreamsInv'
<1>1. /\ consumer.stage = "draining" /\ consumer' = consumer /\ queue # <<>> /\ Consumed
      /\ Head(queue).kind = "loading" /\ bytes' = bytes
    BY DEF ConsumeLoading, Consuming
<1>2. PICK r \in Requests : r = Subject
    BY <1>1, HeadIsFaithful DEF Subject, Faithful
<1>3. bytes' \in Nat /\ bytes' <= MaximumStreamingBytes
    BY <1>1 DEF StreamsInv, StreamTypes
<1>4. CASE ~streams[r].active
  <2>1. streams' = streams /\ outcomes' = outcomes
    BY <1>2, <1>4 DEF ConsumeLoading
  <2>2. \A x \in Requests : streams'[x].active => streams[x].active /\ InStep(x)'
    BY <1>1, <2>1, OthersInStep DEF IsData
  <2>3. OutcomesInv' /\ CountInv'
    BY <1>1, <2>1 DEF StreamsInv, OutcomesInv, AsSent, FramesOf, CountInv, ActiveStreams, LimitTold, Consumed
  <2>4. streams' \in [Requests -> {NoStream} \cup StreamRecords] /\ outcomes' \in Seq(StreamOutcomes)
    BY <2>1 DEF StreamsInv, StreamTypes
  <2> QED
    BY <1>1, <1>3, <2>2, <2>3, <2>4, ConsumingStep
<1>5. CASE streams[r].active
  <2>1. PICK state : /\ state = IF Head(queue).failed THEN "transport_error" ELSE StateAtEnd(streams[r])
    OBVIOUS
  <2>2. Finish(r, state) /\ dropped' = dropped
    BY <1>1, <1>2, <1>5, <2>1 DEF ConsumeLoading, Consumed
  <2>3. state \in Ends /\ (state = "complete" => StateAtEnd(streams[r]) = "complete")
    BY <2>1 DEF Ends, StateAtEnd
  <2>4. /\ streams' \in [Requests -> {NoStream} \cup StreamRecords]
        /\ outcomes' \in Seq(StreamOutcomes)
        /\ OutcomesInv' /\ CountInv'
        /\ \A x \in Requests : streams'[x].active => streams[x].active /\ streams'[x] = streams[x] /\ x # r
    BY <2>2, <2>3, FinishStep DEF Finish
  <2>5. \A x \in Requests : streams'[x].active => streams[x].active /\ InStep(x)'
    BY <1>1, <2>4, OthersInStep DEF IsData
  <2> QED
    BY <1>1, <1>3, <2>4, <2>5, ConsumingStep
<1> QED
    BY <1>4, <1>5

(* All of some active streams end, each with an outcome of its own.        *)
Leaves(e, r) == \E state \in Ends :
    /\ e = Finished(r, state, streams[r].frames)
    /\ state = "complete" => StateAtEnd(streams[r]) = "complete"

LEMMA EndsOfSet ==
    ASSUME StreamsInv, FiniteRequests, NEW lost \in SUBSET ActiveStreams, NEW ends,
           ends = [i \in 1..Cardinality(lost) |-> ends[i]],
           \A i \in 1..Cardinality(lost) : Leaves(ends[i], SetToSeq(lost)[i])
    PROVE  /\ ends \in Seq(StreamOutcomes) /\ Len(ends) = Cardinality(lost)
           /\ \A i \in 1..Len(ends) : \E r \in lost : EndOf(ends[i], r)
<1>1. IsFiniteSet(lost)
    BY ActiveIsFinite, FS_Subset
<1>2. Cardinality(lost) \in Nat /\ \A i \in 1..Cardinality(lost) : SetToSeq(lost)[i] \in lost
    BY <1>1, SetToSeqElements
<1>3. PICK n \in Nat : n = Cardinality(lost)
    BY <1>2
<1>4. ASSUME NEW e, NEW r \in lost, Leaves(e, r) PROVE e \in StreamOutcomes /\ EndOf(e, r)
  <2>1. r \in Requests /\ streams[r].frames \in Seq(Seq(Byte))
    BY StreamIsTyped DEF ActiveStreams, StreamsInv
  <2>2. PICK state \in Ends : /\ e = [request |-> r, state |-> state, frames |-> streams[r].frames]
                              /\ state = "complete" => StateAtEnd(streams[r]) = "complete"
    BY <1>4 DEF Leaves, Finished
  <2> QED
    BY <2>1, <2>2 DEF StreamOutcomes, EndOf
<1>5. \A i \in 1..n : ends[i] \in StreamOutcomes /\ \E r \in lost : EndOf(ends[i], r)
    BY <1>2, <1>3, <1>4
<1>6. ends = [i \in 1..n |-> ends[i]]
    BY <1>3
<1>7. ends \in [1..n -> StreamOutcomes]
    BY <1>5, <1>6
<1>8. ends \in Seq(StreamOutcomes) /\ Len(ends) = n
  <2>1. ends \in Seq(StreamOutcomes) /\ DOMAIN ends = 1..n
    <3>1. ends \in Seq(StreamOutcomes)
      BY <1>3, <1>7
    <3> QED
      BY <1>7, <3>1
  <2>2. Len(ends) \in Nat /\ DOMAIN ends = 1..Len(ends)
    BY <2>1, LenProperties
  <2>3. PICK l \in Nat : l = Len(ends)
    BY <2>2
  <2>4. 1..l = 1..n
    BY <2>1, <2>2, <2>3
  <2>5. l = n
    BY <2>4
  <2> QED
    BY <2>1, <2>3, <2>5
<1> QED
    BY <1>3, <1>5, <1>8

LEMMA ConsumeNavigationStep ==
    ASSUME StreamsInv, FiniteRequests, ChunksOfBytes, TrailersLast, ConsumeNavigation
    PROVE  StreamsInv'
<1>1. /\ consumer.stage = "draining" /\ consumer' = consumer /\ queue # <<>> /\ Consumed
      /\ Head(queue).kind = "navigation" /\ bytes' = bytes /\ dropped' = dropped
      /\ streams' = [r \in Requests |-> NoStream]
    BY DEF ConsumeNavigation, Consuming, Consumed
<1>2. PICK lost \in SUBSET ActiveStreams : lost = ActiveStreams
    OBVIOUS
<1> DEFINE e == [i \in 1..Cardinality(lost) |->
                    Finished(SetToSeq(lost)[i], "transport_error", streams[SetToSeq(lost)[i]].frames)]
<1>3. outcomes' = outcomes \o e
    BY <1>2 DEF ConsumeNavigation
<1>4. e = [i \in 1..Cardinality(lost) |-> e[i]]
    OBVIOUS
<1>5. ASSUME NEW i \in 1..Cardinality(lost) PROVE Leaves(e[i], SetToSeq(lost)[i])
  <2>1. e[i] = Finished(SetToSeq(lost)[i], "transport_error", streams[SetToSeq(lost)[i]].frames)
    OBVIOUS
  <2>2. "transport_error" \in Ends /\ "transport_error" # "complete"
    BY DEF Ends
  <2> HIDE DEF e
  <2> QED
    BY <2>1, <2>2 DEF Leaves
<1>6. PICK ends : ends = e
    OBVIOUS
<1> HIDE DEF e
<1>7. /\ ends \in Seq(StreamOutcomes) /\ Len(ends) = Cardinality(lost)
      /\ \A i \in 1..Len(ends) : \E r \in lost : EndOf(ends[i], r)
    BY <1>4, <1>5, <1>6, EndsOfSet
<1>8. streams' = [r \in Requests |-> IF r \in lost THEN NoStream ELSE streams[r]]
  <2>1. \A r \in Requests : r \in lost \/ streams[r] = NoStream
    BY <1>2, StreamIsTyped DEF ActiveStreams, StreamsInv
  <2> QED
    BY <1>1, <2>1
<1>9. /\ streams' \in [Requests -> {NoStream} \cup StreamRecords]
      /\ outcomes' \in Seq(StreamOutcomes)
      /\ OutcomesInv' /\ CountInv'
    BY <1>1, <1>3, <1>6, <1>7, <1>8, ClosingStep
<1>10. \A r \in Requests : ~streams'[r].active
    BY <1>1 DEF NoStream
<1>11. bytes' \in Nat /\ bytes' <= MaximumStreamingBytes
    BY <1>1 DEF StreamsInv, StreamTypes
<1> QED
    BY <1>1, <1>9, <1>10, <1>11, ConsumingStep

(* Between drains, some streams end and the others stay as they are.       *)
LEMMA GivingUpStep ==
    ASSUME StreamsInv, FiniteRequests, ChunksOfBytes, TrailersLast,
           consumer.stage # "sending", consumer' \in [stage : {"waiting", "draining", "closed"},
                                                      request : Requests \cup {"none"}, buffered : Int],
           queue' = queue, net' = net, dropped' = dropped, bytes' = bytes,
           NEW lost \in SUBSET ActiveStreams, NEW ends,
           ends = [i \in 1..Cardinality(lost) |-> ends[i]],
           \A i \in 1..Cardinality(lost) : Leaves(ends[i], SetToSeq(lost)[i]),
           streams' = [r \in Requests |-> IF r \in lost THEN NoStream ELSE streams[r]],
           outcomes' = outcomes \o ends
    PROVE  StreamsInv'
<1>1. /\ ends \in Seq(StreamOutcomes) /\ Len(ends) = Cardinality(lost)
      /\ \A i \in 1..Len(ends) : \E r \in lost : EndOf(ends[i], r)
    BY EndsOfSet
<1>2. /\ streams' \in [Requests -> {NoStream} \cup StreamRecords]
      /\ outcomes' \in Seq(StreamOutcomes)
      /\ OutcomesInv' /\ CountInv'
      /\ \A r \in Requests : streams'[r].active => streams[r].active /\ streams'[r] = streams[r] /\ r \notin lost
    BY <1>1, ClosingStep
<1>3. QueueInv' /\ queue' \in Seq(Observations)
    BY <1>2, KeptQueue
<1>4. consumer'.stage # "sending" /\ consumer' \in [stage : {"waiting", "draining", "sending", "closed"},
                                                      request : Requests \cup {"none"}, buffered : Int]
    OBVIOUS
<1>5. StreamTypes'
    BY <1>2, <1>3, <1>4 DEF StreamsInv, StreamTypes
<1>6. SendingInv'
    BY <1>4 DEF SendingInv
<1>7. FedInv'
  <2> SUFFICES ASSUME NEW r \in Requests, streams'[r].active PROVE InStep(r)'
    BY DEF FedInv
  <2>1. streams[r].active /\ streams'[r] = streams[r]
    BY <1>2
  <2>2. InStep(r)
    BY <2>1, NotSendingInv DEF StreamsInv, FedInv
  <2> QED
    BY <2>1, <2>2, InStepKept
<1> QED
    BY <1>2, <1>3, <1>5, <1>6, <1>7 DEF StreamsInv

LEMMA StartDrainStep ==
    ASSUME StreamsInv, FiniteRequests, ChunksOfBytes, TrailersLast, StartDrain
    PROVE  StreamsInv'
<1>1. PICK lost \in SUBSET ActiveStreams : lost = IF overflowed THEN {r \in Requests : streams[r].active} ELSE {}
    BY DEF ActiveStreams
<1> DEFINE e == [i \in 1..Cardinality(lost) |->
                    Finished(SetToSeq(lost)[i], "rejected", streams[SetToSeq(lost)[i]].frames)]
<1>2. /\ outcomes' = outcomes \o e
      /\ streams' = [r \in Requests |-> IF r \in lost THEN NoStream ELSE streams[r]]
    BY <1>1 DEF StartDrain
<1>3. e = [i \in 1..Cardinality(lost) |-> e[i]]
    OBVIOUS
<1>4. ASSUME NEW i \in 1..Cardinality(lost) PROVE Leaves(e[i], SetToSeq(lost)[i])
  <2>1. e[i] = Finished(SetToSeq(lost)[i], "rejected", streams[SetToSeq(lost)[i]].frames)
    OBVIOUS
  <2>2. "rejected" \in Ends /\ "rejected" # "complete"
    BY DEF Ends
  <2> HIDE DEF e
  <2> QED
    BY <2>1, <2>2 DEF Leaves
<1>5. PICK ends : ends = e
    OBVIOUS
<1> HIDE DEF e
<1>6. /\ consumer.stage = "waiting" /\ consumer' = [consumer EXCEPT !.stage = "draining"]
      /\ queue' = queue /\ net' = net /\ dropped' = dropped /\ bytes' = bytes
    BY DEF StartDrain, Reported
<1>7. consumer' \in [stage : {"waiting", "draining", "closed"}, request : Requests \cup {"none"}, buffered : Int]
    BY <1>6 DEF StreamsInv, StreamTypes
<1> QED
    BY <1>2, <1>3, <1>4, <1>5, <1>6, <1>7, GivingUpStep

LEMMA EndDrainStep ==
    ASSUME StreamsInv, FiniteRequests, ChunksOfBytes, TrailersLast, EndDrain
    PROVE  StreamsInv'
<1>1. PICK lost \in SUBSET ActiveStreams :
          /\ streams' = [r \in Requests |-> IF r \in lost THEN NoStream ELSE streams[r]]
          /\ outcomes' = outcomes \o [i \in 1..Cardinality(lost) |->
                 Finished(SetToSeq(lost)[i], "timeout", streams[SetToSeq(lost)[i]].frames)]
    BY DEF EndDrain
<1> DEFINE e == [i \in 1..Cardinality(lost) |->
                    Finished(SetToSeq(lost)[i], "timeout", streams[SetToSeq(lost)[i]].frames)]
<1>2. /\ outcomes' = outcomes \o e
      /\ streams' = [r \in Requests |-> IF r \in lost THEN NoStream ELSE streams[r]]
    BY <1>1
<1>3. e = [i \in 1..Cardinality(lost) |-> e[i]]
    OBVIOUS
<1>4. ASSUME NEW i \in 1..Cardinality(lost) PROVE Leaves(e[i], SetToSeq(lost)[i])
  <2>1. e[i] = Finished(SetToSeq(lost)[i], "timeout", streams[SetToSeq(lost)[i]].frames)
    OBVIOUS
  <2>2. "timeout" \in Ends /\ "timeout" # "complete"
    BY DEF Ends
  <2> HIDE DEF e
  <2> QED
    BY <2>1, <2>2 DEF Leaves
<1>5. PICK ends : ends = e
    OBVIOUS
<1> HIDE DEF e
<1>6. /\ consumer.stage = "draining" /\ consumer' = [consumer EXCEPT !.stage = "waiting"]
      /\ queue' = queue /\ net' = net /\ dropped' = dropped /\ bytes' = bytes
    BY DEF EndDrain, Reported
<1>7. consumer' \in [stage : {"waiting", "draining", "closed"}, request : Requests \cup {"none"}, buffered : Int]
    BY <1>6 DEF StreamsInv, StreamTypes
<1> QED
    BY <1>2, <1>3, <1>4, <1>5, <1>6, <1>7, GivingUpStep

LEMMA CloseStep ==
    ASSUME StreamsInv, FiniteRequests, ChunksOfBytes, TrailersLast, Close
    PROVE  StreamsInv'
<1>1. PICK lost \in SUBSET ActiveStreams : lost = ActiveStreams
    OBVIOUS
<1> DEFINE e == [i \in 1..Cardinality(lost) |->
                    Finished(SetToSeq(lost)[i], StateAtEnd(streams[SetToSeq(lost)[i]]),
                             streams[SetToSeq(lost)[i]].frames)]
<1>2. outcomes' = outcomes \o e /\ streams' = [r \in Requests |-> NoStream]
    BY <1>1 DEF Close
<1>3. e = [i \in 1..Cardinality(lost) |-> e[i]]
    OBVIOUS
<1>4. ASSUME NEW i \in 1..Cardinality(lost) PROVE Leaves(e[i], SetToSeq(lost)[i])
  <2>1. e[i] = Finished(SetToSeq(lost)[i], StateAtEnd(streams[SetToSeq(lost)[i]]), streams[SetToSeq(lost)[i]].frames)
    OBVIOUS
  <2>2. StateAtEnd(streams[SetToSeq(lost)[i]]) \in Ends
    BY DEF Ends, StateAtEnd
  <2> HIDE DEF e
  <2> QED
    BY <2>1, <2>2 DEF Leaves
<1>5. PICK ends : ends = e
    OBVIOUS
<1> HIDE DEF e
<1>6. /\ consumer.stage = "waiting" /\ consumer' = [consumer EXCEPT !.stage = "closed"]
      /\ queue' = queue /\ net' = net /\ dropped' = dropped /\ bytes' = bytes
    BY DEF Close, Reported
<1>7. consumer' \in [stage : {"waiting", "draining", "closed"}, request : Requests \cup {"none"}, buffered : Int]
    BY <1>6 DEF StreamsInv, StreamTypes
<1>8. streams' = [r \in Requests |-> IF r \in lost THEN NoStream ELSE streams[r]]
  <2>1. \A r \in Requests : r \in lost \/ streams[r] = NoStream
    BY <1>1, StreamIsTyped DEF ActiveStreams, StreamsInv
  <2> QED
    BY <1>2, <2>1
<1> QED
    BY <1>2, <1>3, <1>4, <1>5, <1>6, <1>7, <1>8, GivingUpStep

-----------------------------------------------------------------------------
(* A response opens a stream, and the browser is asked to stream it.       *)

LEMMA OpenedFacts ==
    /\ Opened \in StreamRecords /\ Opened.active
    /\ Opened.buffer = <<>> /\ Opened.frames = <<>> /\ Opened.buffered = <<>> /\ Opened.first
BY DEF Opened, StreamRecords

LEMMA ConsumeResponseStep ==
    ASSUME StreamsInv, FiniteRequests, ChunksOfBytes, ConsumeResponse
    PROVE  StreamsInv'
<1>1. /\ consumer.stage = "draining" /\ queue # <<>> /\ Consumed /\ Head(queue).kind = "response"
      /\ bytes' = bytes /\ queue' = Tail(queue) /\ net' = net /\ dropped' = dropped
    BY DEF ConsumeResponse, Consuming, Consumed
<1>2. PICK r \in Requests : r = Subject /\ r = Head(queue).request
    BY <1>1, HeadIsFaithful DEF Subject, Faithful
<1>3. /\ streams \in [Requests -> {NoStream} \cup StreamRecords] /\ outcomes \in Seq(StreamOutcomes)
      /\ bytes' \in Nat /\ bytes' <= MaximumStreamingBytes
    BY <1>1 DEF StreamsInv, StreamTypes
<1>4. ~net[r].streaming /\ ~streams[r].active
    BY <1>1, <1>2, HeadIsFaithful DEF Faithful
<1>5. ASSUME NEW x \in Requests, streams[x].active, streams'[x] = streams[x] PROVE InStep(x)'
    BY <1>1, <1>5, OthersInStep DEF IsData
<1>6. CASE streams' = streams /\ outcomes' = outcomes /\ consumer' = consumer
  <2>1. OutcomesInv' /\ CountInv'
    BY <1>1, <1>6 DEF StreamsInv, OutcomesInv, AsSent, FramesOf, CountInv, ActiveStreams, LimitTold
  <2> QED
    BY <1>1, <1>3, <1>5, <1>6, <2>1, ConsumingStep
<1>7. CASE /\ Cardinality(ActiveStreams) + Len(outcomes) >= MaximumResponses
           /\ outcomes' = IF LimitTold THEN outcomes ELSE Append(outcomes, Finished(r, "limit", <<>>))
           /\ streams' = streams /\ consumer' = consumer
  <2>1. CASE LimitTold
    BY <1>6, <1>7, <2>1
  <2>2. CASE ~LimitTold
    <3>1. PICK o \in StreamOutcomes : o = Finished(r, "limit", <<>>)
      <4>1. <<>> \in Seq(Seq(Byte))
        OBVIOUS
      <4> QED
        BY <4>1 DEF StreamOutcomes, Finished, Ends
    <3>2. PICK s \in Seq(StreamOutcomes) : s = outcomes
      BY <1>3
    <3>3. /\ Append(s, o) \in Seq(StreamOutcomes) /\ Len(Append(s, o)) = Len(s) + 1 /\ Len(s) \in Nat
          /\ Append(s, o)[Len(s) + 1] = o /\ \A i \in 1..Len(s) : Append(s, o)[i] = s[i]
      OBVIOUS
    <3>4. outcomes' = Append(s, o)
      BY <1>7, <2>2, <3>1, <3>2
    <3>5. AsSent(o)
      BY <3>1, NothingIsPrefix DEF AsSent, Finished
    <3>6. OutcomesInv'
      <4> SUFFICES ASSUME NEW i \in 1..Len(Append(s, o)), Append(s, o)[i].request \notin dropped
                   PROVE  AsSent(Append(s, o)[i])
        BY <1>1, <3>4 DEF OutcomesInv, AsSent, FramesOf
      <4>1. CASE i \in 1..Len(s)
        BY <3>2, <3>3, <4>1 DEF StreamsInv, OutcomesInv
      <4>2. CASE i = Len(s) + 1
        BY <3>3, <3>5, <4>2
      <4> QED
        BY <3>3, <4>1, <4>2
    <3>7. CountInv'
      <4>1. LimitTold'
        <5>1. Len(s) + 1 \in 1..Len(Append(s, o)) /\ o.state = "limit"
          BY <3>1, <3>3 DEF Finished
        <5> QED
          BY <3>3, <3>4, <5>1 DEF LimitTold
      <4>2. ActiveStreams' = ActiveStreams
        BY <1>7 DEF ActiveStreams
      <4>3. Cardinality(ActiveStreams) + Len(s) <= MaximumResponses
        BY <2>2, <3>2 DEF StreamsInv, CountInv, FiniteRequests
      <4>4. Len(outcomes') = Len(s) + 1
        BY <3>3, <3>4
      <4>5. Cardinality(ActiveStreams) \in Nat
        BY ActiveIsFinite
      <4> QED
        BY <3>3, <4>1, <4>2, <4>3, <4>4, <4>5 DEF CountInv, FiniteRequests
    <3>8. outcomes' \in Seq(StreamOutcomes)
      BY <3>3, <3>4
    <3>9. streams' \in [Requests -> {NoStream} \cup StreamRecords]
      BY <1>3, <1>7
    <3>10. \A x \in Requests : streams'[x].active => streams[x].active /\ InStep(x)'
      BY <1>5, <1>7
    <3> QED
      BY <1>1, <1>3, <1>7, <3>6, <3>7, <3>8, <3>9, <3>10, ConsumingStep
  <2> QED
    BY <2>1, <2>2
<1>8. CASE /\ Cardinality(ActiveStreams) + Len(outcomes) < MaximumResponses
           /\ streams' = [streams EXCEPT ![r] = Opened]
           /\ consumer' = [stage |-> "sending", request |-> r, buffered |-> -1]
           /\ outcomes' = outcomes
  <2>1. /\ streams'[r] = Opened /\ \A x \in Requests \ {r} : streams'[x] = streams[x]
        /\ streams' \in [Requests -> {NoStream} \cup StreamRecords]
    BY <1>3, <1>8, OpenedFacts
  <2>2. /\ consumer'.stage = "sending" /\ consumer'.request = r /\ consumer'.buffered = -1
        /\ consumer' \in [stage : {"waiting", "draining", "sending", "closed"},
                          request : Requests \cup {"none"}, buffered : Int]
    BY <1>8
  <2>3. QueueInv' /\ queue' \in Seq(Observations)
    <3>1. \A x \in Requests : streams'[x].active => streams[x].active \/ IsResponse(Head(queue), x)
      BY <1>1, <1>2, <2>1 DEF IsResponse
    <3> QED
      BY <1>1, <3>1, ConsumedQueue
  <2>4. StreamTypes'
    BY <1>1, <1>3, <1>8, <2>1, <2>2, <2>3 DEF StreamsInv, StreamTypes
  <2>5. SendingInv'
    BY <1>1, <1>4, <2>1, <2>2 DEF SendingInv
  <2>6. FedInv'
    <3> SUFFICES ASSUME NEW x \in Requests, streams'[x].active, ~Sending(x)' PROVE InStep(x)'
      BY DEF FedInv
    <3>1. x # r
      BY <2>2 DEF Sending
    <3> QED
      BY <1>5, <2>1, <3>1
  <2>7. OutcomesInv'
    BY <1>1, <1>8 DEF StreamsInv, OutcomesInv, AsSent, FramesOf
  <2>8. CountInv'
    <3>1. PICK S : S = ActiveStreams
      OBVIOUS
    <3>2. ActiveStreams' = S \cup {r} /\ r \notin S
      BY <1>4, <2>1, <3>1, OpenedFacts DEF ActiveStreams
    <3>3. IsFiniteSet(S) /\ Cardinality(S) \in Nat
      BY <3>1, ActiveIsFinite
    <3>4. Cardinality(S \cup {r}) = Cardinality(S) + 1
      BY <3>2, <3>3, FS_AddElement
    <3>5. Len(outcomes) \in Nat
      BY <1>3
    <3>6. Cardinality(ActiveStreams') + Len(outcomes') <= MaximumResponses
      BY <1>8, <3>1, <3>2, <3>3, <3>4, <3>5 DEF FiniteRequests
    <3>7. Cardinality(ActiveStreams') + Len(outcomes') \in Nat
      BY <1>8, <3>2, <3>3, <3>4, <3>5
    <3> QED
      BY <3>6, <3>7 DEF CountInv, FiniteRequests
  <2> QED
    BY <2>3, <2>4, <2>5, <2>6, <2>7, <2>8 DEF StreamsInv
<1> QED
    BY <1>2, <1>6, <1>7, <1>8 DEF ConsumeResponse

LEMMA StreamResourceContentStep ==
    ASSUME StreamsInv, StreamResourceContent
    PROVE  StreamsInv'
<1>1. PICK r \in Requests : r = consumer.request
    BY DEF StreamsInv, SendingInv, StreamResourceContent
<1>2. PICK n \in Nat : n = net[r].chunks
    BY DEF StreamsInv, StreamTypes
<1>3. /\ consumer.stage = "sending" /\ consumer.buffered < 0
      /\ net' = [net EXCEPT ![r].streaming = net[r].stage # "ended"]
      /\ consumer' = [consumer EXCEPT !.buffered = n]
      /\ queue' = queue /\ streams' = streams /\ outcomes' = outcomes /\ bytes' = bytes /\ dropped' = dropped
    BY <1>1, <1>2 DEF StreamResourceContent
<1>4. /\ net \in [Requests -> [stage : {"new", "sent", "receiving", "ended"}, chunks : Nat, streaming : BOOLEAN]]
      /\ queue \in Seq(Observations)
      /\ consumer \in [stage : {"waiting", "draining", "sending", "closed"},
                       request : Requests \cup {"none"}, buffered : Int]
    BY DEF StreamsInv, StreamTypes
<1>5. streams[r] = Opened /\ streams[r].active /\ ~net[r].streaming
    BY <1>1, <1>3, OpenedFacts DEF StreamsInv, SendingInv
<1>6. /\ net'[r].stage = net[r].stage /\ net'[r].chunks = n
      /\ net'[r].streaming = (net[r].stage # "ended")
      /\ \A x \in Requests \ {r} : net'[x] = net[x]
    BY <1>2, <1>3, <1>4
<1>7. /\ consumer'.stage = "sending" /\ consumer'.request = r /\ consumer'.buffered = n
      /\ consumer' \in [stage : {"waiting", "draining", "sending", "closed"},
                        request : Requests \cup {"none"}, buffered : Int]
    BY <1>1, <1>3, <1>4
<1>8. \A i \in 1..Len(queue) : ~IsData(queue[i], r)
    BY <1>5 DEF StreamsInv, QueueInv, Faithful, IsData
<1>9. QueueInv'
  <2>1. ASSUME NEW i \in 1..Len(queue) PROVE Faithful(queue[i])'
    <3>1. PICK p : p = queue[i]
      OBVIOUS
    <3>2. Faithful(p) /\ ~IsData(p, r)
      BY <1>8, <3>1 DEF StreamsInv, QueueInv
    <3>3. p.kind \in {"data", "response"} => p.request \in Requests \ {r}
      BY <1>5, <3>2 DEF Faithful, IsData
    <3>4. Faithful(p)'
      BY <1>3, <1>6, <3>2, <3>3 DEF Faithful
    <3> QED
      BY <1>3, <3>1, <3>4
  <2>2. ASSUME NEW x \in Requests, net'[x].stage \in {"new", "sent"} PROVE ~net'[x].streaming /\ ~streams'[x].active
    BY <1>3, <1>5, <1>6, <2>2 DEF StreamsInv, QueueInv
  <2> QED
    BY <1>3, <2>1, <2>2 DEF StreamsInv, QueueInv
<1>10. StreamTypes'
  <2>1. net' \in [Requests -> [stage : {"new", "sent", "receiving", "ended"}, chunks : Nat, streaming : BOOLEAN]]
    BY <1>3, <1>4
  <2>2. \A x \in Requests : net'[x].chunks <= Len(Bodies[x])
    BY <1>2, <1>6 DEF StreamsInv, StreamTypes
  <2> QED
    BY <1>3, <1>7, <2>1, <2>2 DEF StreamsInv, StreamTypes
<1>11. SendingInv'
  <2>1. Pending(queue, r, n, n)
    BY <1>8, NothingPending
  <2>2. net'[r].streaming \/ net'[r].stage = "ended"
    BY <1>6
  <2>3. n \in 0..n /\ ~(n < 0)
    OBVIOUS
  <2> QED
    BY <1>3, <1>5, <1>6, <1>7, <2>1, <2>2, <2>3 DEF SendingInv, Live
<1>12. FedInv'
  <2> SUFFICES ASSUME NEW x \in Requests, streams'[x].active, ~Sending(x)' PROVE InStep(x)'
    BY DEF FedInv
  <2>1. x # r
    BY <1>7 DEF Sending
  <2>2. net'[x] = net[x] /\ ~Sending(x)
    BY <1>1, <1>6, <2>1 DEF Sending
  <2>3. InStep(x)
    BY <1>3, <2>2 DEF StreamsInv, FedInv
  <2> QED
    BY <1>3, <2>2, <2>3 DEF InStep, Live, Fed
<1>13. OutcomesInv' /\ CountInv'
    BY <1>3 DEF StreamsInv, OutcomesInv, AsSent, FramesOf, CountInv, ActiveStreams, LimitTold
<1> QED
    BY <1>9, <1>10, <1>11, <1>12, <1>13 DEF StreamsInv

(* The request that the consumer waited for is answered, or failed.        *)
LEMMA SendingEnds ==
    ASSUME StreamsInv, consumer.stage = "sending", NEW r \in Requests, r = consumer.request,
           consumer' = [stage |-> "draining", request |-> "none", buffered |-> 0],
           queue' = queue, net' = net, dropped' = dropped,
           streams' \in [Requests -> {NoStream} \cup StreamRecords], outcomes' \in Seq(StreamOutcomes),
           bytes' \in Nat, bytes' <= MaximumStreamingBytes, OutcomesInv', CountInv',
           \A x \in Requests \ {r} : streams'[x].active => streams[x].active /\ streams'[x] = streams[x],
           streams'[r].active => InStep(r)'
    PROVE  StreamsInv'
<1>1. consumer'.stage = "draining"
    OBVIOUS
<1>2. SendingInv'
    BY <1>1 DEF SendingInv
<1>3. streams[r].active
    BY OpenedFacts DEF StreamsInv, SendingInv
<1>4. QueueInv' /\ queue' \in Seq(Observations)
    BY <1>3, KeptQueue
<1>5. StreamTypes'
  <2>1. consumer' \in [stage : {"waiting", "draining", "sending", "closed"},
                       request : Requests \cup {"none"}, buffered : Int]
    OBVIOUS
  <2> QED
    BY <1>4, <2>1 DEF StreamsInv, StreamTypes
<1>6. FedInv'
  <2> SUFFICES ASSUME NEW x \in Requests \ {r}, streams'[x].active PROVE InStep(x)'
    BY DEF FedInv
  <2>1. streams[x].active /\ streams'[x] = streams[x] /\ ~Sending(x)
    BY DEF Sending
  <2>2. InStep(x)
    BY <2>1 DEF StreamsInv, FedInv
  <2> QED
    BY <2>1, <2>2, InStepKept
<1> QED
    BY <1>2, <1>4, <1>5, <1>6 DEF StreamsInv

LEMMA SendFailsStep ==
    ASSUME StreamsInv, FiniteRequests, ChunksOfBytes, TrailersLast, SendFails
    PROVE  StreamsInv'
<1>1. PICK r \in Requests : r = consumer.request
    BY DEF StreamsInv, SendingInv, SendFails
<1>2. /\ consumer.stage = "sending" /\ Finish(r, "unsupported")
      /\ consumer' = [stage |-> "draining", request |-> "none", buffered |-> 0]
      /\ queue' = queue /\ net' = net /\ dropped' = dropped /\ bytes' = bytes
    BY <1>1 DEF SendFails
<1>3. "unsupported" \in Ends /\ "unsupported" # "complete"
    BY DEF Ends
<1>4. /\ streams' \in [Requests -> {NoStream} \cup StreamRecords]
      /\ outcomes' \in Seq(StreamOutcomes)
      /\ OutcomesInv' /\ CountInv'
      /\ \A x \in Requests : streams'[x].active => streams[x].active /\ streams'[x] = streams[x] /\ x # r
    BY <1>2, <1>3, FinishStep DEF Finish
<1>5. bytes' \in Nat /\ bytes' <= MaximumStreamingBytes
    BY <1>2 DEF StreamsInv, StreamTypes
<1> QED
    BY <1>1, <1>2, <1>4, <1>5, SendingEnds

LEMMA NoFrames == FramesIn(<<>>) = <<>> /\ RestOf(<<>>) = <<>>
<1>1. <<>> \in Seq(Byte) /\ Len(<<>>) = 0 /\ 0 \div 2 = 0
    OBVIOUS
<1>2. PICK f \in Seq(Seq(Byte)) : f = FramesIn(<<>>)
    BY <1>1, FramesAreSequences
<1>3. Len(f) = 0
    BY <1>1, <1>2, FramesAreSequences
<1>4. f = <<>>
    BY <1>3
<1>5. RestOf(<<>>) = <<>>
  <2>1. PICK b \in Seq(Byte) : b = <<>>
    BY <1>1
  <2>2. Len(b) = 2 * 0
    BY <2>1
  <2> QED
    BY <2>1, <2>2, RestBytes
<1> QED
    BY <1>2, <1>4, <1>5

LEMMA SendReturnsStep ==
    ASSUME StreamsInv, FiniteRequests, ChunksOfBytes, TrailersLast, SendReturns
    PROVE  StreamsInv'
<1>1. PICK r \in Requests : r = consumer.request
    BY DEF StreamsInv, SendingInv, SendReturns
<1>2. /\ consumer.stage = "sending" /\ consumer.buffered >= 0
      /\ consumer' = [stage |-> "draining", request |-> "none", buffered |-> 0]
      /\ queue' = queue /\ net' = net /\ dropped' = dropped
    BY DEF SendReturns
<1>3. PICK c \in 0..net[r].chunks : c = consumer.buffered
    BY <1>1, <1>2 DEF StreamsInv, SendingInv
<1>4. /\ streams[r] = Opened /\ Live(r)
      /\ r \notin dropped => Pending(queue, r, c, net[r].chunks)
    BY <1>1, <1>2, <1>3 DEF StreamsInv, SendingInv
<1>5. c \in 0..Len(Bodies[r])
  <2>1. net[r].chunks \in Nat /\ net[r].chunks <= Len(Bodies[r]) /\ Len(Bodies[r]) \in Nat
    BY DEF StreamsInv, StreamTypes, ChunksOfBytes
  <2> QED
    BY <2>1
<1>6. PICK raw \in Seq(Byte) : raw = Sent(r, c)
    BY <1>5, BytesAreSent
<1>7. IF raw = <<>> THEN UNCHANGED <<streams, outcomes, known, bytes>>
      ELSE FeedRawData(r, [streams[r] EXCEPT !.buffered = raw], raw)
    BY <1>1, <1>3, <1>6 DEF SendReturns, Sent
<1>8. ASSUME streams'[r].active => Fed(streams'[r], r, c) PROVE streams'[r].active => InStep(r)'
  <2> SUFFICES ASSUME streams'[r].active PROVE InStep(r)'
    OBVIOUS
  <2>1. Fed(streams'[r], r, c)
    BY <1>8
  <2> QED
    BY <1>2, <1>4, <2>1 DEF InStep, Live, Fed
<1>9. CASE raw = <<>>
  <2>1. streams' = streams /\ outcomes' = outcomes /\ bytes' = bytes
    BY <1>7, <1>9
  <2>2. Fed(Opened, r, c)
    BY <1>6, <1>9, OpenedFacts, NoFrames DEF Fed
  <2>3. streams'[r].active => InStep(r)'
    BY <1>4, <1>8, <2>1, <2>2
  <2>4. OutcomesInv' /\ CountInv'
    BY <1>2, <2>1 DEF StreamsInv, OutcomesInv, AsSent, FramesOf, CountInv, ActiveStreams, LimitTold
  <2>5. /\ streams' \in [Requests -> {NoStream} \cup StreamRecords] /\ outcomes' \in Seq(StreamOutcomes)
        /\ bytes' \in Nat /\ bytes' <= MaximumStreamingBytes
    BY <2>1 DEF StreamsInv, StreamTypes
  <2> QED
    BY <1>1, <1>2, <2>1, <2>3, <2>4, <2>5, SendingEnds
<1>10. CASE raw # <<>>
  <2>1. PICK o \in StreamRecords : o = Opened
    BY OpenedFacts
  <2> DEFINE new == [o EXCEPT !.buffered = raw]
  <2>2. /\ new \in StreamRecords /\ new.buffer = o.buffer /\ new.frames = o.frames
        /\ new.first = o.first /\ new.buffered = raw
    BY DEF StreamRecords
  <2>3. PICK stream \in StreamRecords : stream = new
    BY <2>2
  <2>4. /\ stream.buffer = <<>> /\ stream.frames = <<>> /\ stream.first /\ stream.buffered = raw
    BY <2>1, <2>2, <2>3, OpenedFacts
  <2>5. FeedRawData(r, stream, raw)
    BY <1>4, <1>7, <1>10, <2>1, <2>3, OpenedFacts
  <2>6. streams[r].active
    BY <1>4, OpenedFacts
  <2>7. dropped' = dropped
    BY <1>2
  <2> HIDE DEF new
  <2>8. <<>> \o raw = raw
    OBVIOUS
  <2>9. <<>> \o FramesIn(raw) = FramesIn(raw)
    BY FramesAreSequences, ConcatEmptySeq
  <2>10. /\ streams' \in [Requests -> {NoStream} \cup StreamRecords]
         /\ outcomes' \in Seq(StreamOutcomes)
         /\ bytes' \in Nat /\ bytes' <= MaximumStreamingBytes
         /\ OutcomesInv' /\ CountInv'
         /\ \A x \in Requests \ {r} : streams'[x].active => streams[x].active /\ streams'[x] = streams[x]
         /\ streams'[r].active =>
               /\ streams'[r].first = stream.first /\ streams'[r].buffered = stream.buffered
               /\ streams'[r].buffer = RestOf(stream.buffer \o raw)
               /\ streams'[r].frames = stream.frames \o FramesIn(stream.buffer \o raw)
    <3>1. IsPrefix(stream.frames \o FramesIn(stream.buffer \o raw), FramesOf(r))
      BY <1>5, <1>6, <2>4, <2>8, <2>9, FramesSent
    <3>2. RawDataFed(r, stream, raw)
      BY <2>6, <2>5, <2>7, <3>1, FeedRawDataStep
    <3> QED
      BY <3>2 DEF RawDataFed
  <2>11. streams'[r].active => Fed(streams'[r], r, c)
    BY <1>6, <2>4, <2>10, <2>8, <2>9 DEF Fed
  <2>12. streams'[r].active => InStep(r)'
    BY <1>8, <2>11
  <2> QED
    BY <1>1, <1>2, <2>10, <2>12, SendingEnds
<1> QED
    BY <1>9, <1>10

(* Data of a stream: the chunk that follows what was fed, and no repetition *)
(* of what was buffered.                                                    *)
LEMMA NoOverlap ==
    ASSUME ChunksOfBytes, NoChunkRepeats, NEW r \in Requests, NEW c \in 0..(Len(Bodies[r]) - 1),
           NEW s, Fed(s, r, c)
    PROVE  WithoutOverlap(s, Bodies[r][c + 1]) = Bodies[r][c + 1]
<1>1. CASE ~s.first \/ s.buffered = <<>>
    BY <1>1 DEF WithoutOverlap
<1>2. CASE s.first /\ s.buffered # <<>>
  <2>1. s.buffered = Sent(r, c) /\ Sent(r, c) # <<>>
    BY <1>2 DEF Fed
  <2>2. c # 0
    BY <2>1, NothingSent
  <2>3. c \in 1..(Len(Bodies[r]) - 1)
    BY <2>2
  <2>4. ~IsPrefix(s.buffered, Bodies[r][c + 1])
    BY <2>1, <2>3 DEF NoChunkRepeats
  <2> QED
    BY <2>4 DEF WithoutOverlap
<1> QED
    BY <1>1, <1>2

LEMMA ConsumeDataStep ==
    ASSUME StreamsInv, FiniteRequests, ChunksOfBytes, TrailersLast, NoChunkRepeats, ConsumeData
    PROVE  StreamsInv'
<1>1. /\ consumer.stage = "draining" /\ consumer' = consumer /\ queue # <<>> /\ Consumed
      /\ Head(queue).kind = "data"
      /\ queue' = Tail(queue) /\ net' = net /\ dropped' = dropped
    BY DEF ConsumeData, Consuming, Consumed
<1>2. PICK r \in Requests : r = Subject /\ r = Head(queue).request
    BY <1>1, HeadIsFaithful DEF Subject, Faithful
<1>3. PICK n \in Nat : n = net[r].chunks /\ n <= Len(Bodies[r])
    BY DEF StreamsInv, StreamTypes
<1>4. PICK k \in 1..n : k = Head(queue).chunk
    BY <1>1, <1>2, <1>3, HeadIsFaithful DEF Faithful
<1>5. IsData(Head(queue), r) /\ Head(queue).chunk = k
    BY <1>1, <1>2, <1>4 DEF IsData
<1>6. \A x \in Requests \ {r} : ~IsData(Head(queue), x)
    BY <1>2 DEF IsData
<1>7. PICK chunk \in Seq(Byte) : chunk = Bodies[r][k]
  <2>1. Bodies[r] \in Seq(Seq(Byte)) /\ Len(Bodies[r]) \in Nat
    BY DEF ChunksOfBytes
  <2>2. k \in 1..Len(Bodies[r])
    BY <1>3, <1>4, <2>1
  <2>3. Bodies[r][k] \in Seq(Byte)
    BY <2>1, <2>2
  <2> QED
    BY <2>3
<1>8. IF ~streams[r].active THEN UNCHANGED <<streams, outcomes, known, bytes>>
      ELSE FeedRawData(r, [streams[r] EXCEPT !.first = FALSE, !.buffered = <<>>], WithoutOverlap(streams[r], chunk))
    BY <1>2, <1>4, <1>7 DEF ConsumeData
<1>9. CASE ~streams[r].active
  <2>1. streams' = streams /\ outcomes' = outcomes /\ bytes' = bytes
    BY <1>8, <1>9
  <2>2. \A x \in Requests : streams'[x].active => streams[x].active /\ InStep(x)'
    BY <1>1, <1>6, <1>9, <2>1, OthersInStep
  <2>3. OutcomesInv' /\ CountInv'
    BY <1>1, <2>1 DEF StreamsInv, OutcomesInv, AsSent, FramesOf, CountInv, ActiveStreams, LimitTold
  <2>4. /\ streams' \in [Requests -> {NoStream} \cup StreamRecords] /\ outcomes' \in Seq(StreamOutcomes)
        /\ bytes' \in Nat /\ bytes' <= MaximumStreamingBytes
    BY <2>1 DEF StreamsInv, StreamTypes
  <2> QED
    BY <1>1, <2>2, <2>3, <2>4, ConsumingStep
<1>10. CASE streams[r].active
  <2>1. PICK s \in StreamRecords : s = streams[r]
    BY <1>10, StreamIsTyped DEF StreamsInv
  <2>2. PICK raw \in Seq(Byte) : raw = WithoutOverlap(s, chunk)
    <3>1. SubSeq(chunk, Len(s.buffered) + 1, Len(chunk)) \in Seq(Byte)
      <4>1. Len(s.buffered) \in Nat
        BY DEF StreamRecords
      <4>2. PICK m \in Nat : m = Len(s.buffered) + 1 /\ m >= 1
        BY <4>1
      <4>3. SubSeq(chunk, m, Len(chunk)) \in Seq(Byte)
        BY <4>2
      <4> QED
        BY <4>2, <4>3
    <3>2. WithoutOverlap(s, chunk) \in Seq(Byte)
      BY <3>1 DEF WithoutOverlap
    <3> QED
      BY <3>2
  <2>3. PICK none \in Seq(Byte) : none = <<>>
    <3>1. <<>> \in Seq(Byte)
      OBVIOUS
    <3> QED
      BY <3>1
  <2> DEFINE new == [s EXCEPT !.first = FALSE, !.buffered = none]
  <2>4. /\ new \in StreamRecords /\ new.buffer = s.buffer /\ new.frames = s.frames
         /\ new.first = FALSE /\ new.buffered = none
    BY DEF StreamRecords
  <2>5. /\ new \in StreamRecords /\ new.buffer = s.buffer /\ new.frames = s.frames
        /\ new.first = FALSE /\ new.buffered = <<>>
    BY <2>3, <2>4
  <2>6. FeedRawData(r, new, raw)
    BY <1>8, <1>10, <2>1, <2>2, <2>3
  <2> HIDE DEF new
  <2>7. InStep(r)
    BY <1>1, <1>10, NotSendingInv DEF StreamsInv, FedInv
  <2>8. ASSUME r \notin dropped
         PROVE  \E c \in 0..n : /\ k = c + 1 /\ c + 1 \in 1..n /\ Pending(queue', r, c + 1, n)
                                 /\ new.frames \o FramesIn(new.buffer \o raw) = FramesIn(Sent(r, c + 1))
                                 /\ RestOf(new.buffer \o raw) = RestOf(Sent(r, c + 1))
                                 /\ c + 1 \in 0..Len(Bodies[r])
    <3>1. PICK c \in 0..n : Fed(s, r, c) /\ Pending(queue, r, c, n)
      BY <1>3, <2>1, <2>7, <2>8 DEF InStep
    <3>2. k = c + 1 /\ c + 1 \in 1..n /\ Pending(Tail(queue), r, c + 1, n)
      BY <1>1, <1>4, <1>5, <3>1, PendingHead, HeadIsFaithful DEF StreamsInv, QueueInv
    <3>3. Len(Bodies[r]) \in Nat /\ c \in 0..(Len(Bodies[r]) - 1)
      <4>1. Len(Bodies[r]) \in Nat
        BY DEF ChunksOfBytes
      <4> QED
        BY <1>3, <3>2, <4>1
    <3>4. raw = chunk
      BY <1>7, <2>2, <3>1, <3>2, <3>3, NoOverlap
    <3>5. PICK b \in Seq(Byte) : b = Sent(r, c)
      <4>1. c \in 0..Len(Bodies[r])
        BY <3>3
      <4> QED
        BY <4>1, BytesAreSent
    <3>6. Sent(r, c + 1) = b \o raw
      BY <1>7, <3>2, <3>3, <3>4, <3>5, OneChunkMore
    <3>7. s.frames = FramesIn(b) /\ s.buffer = RestOf(b)
      BY <3>1, <3>5 DEF Fed
    <3>8. /\ FramesIn(b) \o FramesIn(RestOf(b) \o raw) = FramesIn(b \o raw)
          /\ RestOf(RestOf(b) \o raw) = RestOf(b \o raw)
      BY FramesAdd
    <3>9. /\ new.frames \o FramesIn(new.buffer \o raw) = FramesIn(Sent(r, c + 1))
          /\ RestOf(new.buffer \o raw) = RestOf(Sent(r, c + 1))
      BY <2>5, <3>6, <3>7, <3>8
    <3>10. Pending(queue', r, c + 1, n)
      BY <1>1, <3>2
    <3> QED
      BY <3>2, <3>3, <3>9, <3>10
  <2>9. r \notin dropped => IsPrefix(new.frames \o FramesIn(new.buffer \o raw), FramesOf(r))
    BY <2>8, FramesSent
  <2>10. /\ streams' \in [Requests -> {NoStream} \cup StreamRecords]
         /\ outcomes' \in Seq(StreamOutcomes)
         /\ bytes' \in Nat /\ bytes' <= MaximumStreamingBytes
         /\ OutcomesInv' /\ CountInv'
         /\ \A x \in Requests \ {r} : streams'[x].active => streams[x].active /\ streams'[x] = streams[x]
         /\ streams'[r].active =>
               /\ streams'[r].first = new.first /\ streams'[r].buffered = new.buffered
               /\ streams'[r].buffer = RestOf(new.buffer \o raw)
               /\ streams'[r].frames = new.frames \o FramesIn(new.buffer \o raw)
    <3>1. RawDataFed(r, new, raw)
      BY <1>1, <1>10, <2>5, <2>6, <2>9, FeedRawDataStep
    <3> QED
      BY <3>1 DEF RawDataFed
  <2>11. ASSUME r \notin dropped, streams'[r].active
        PROVE  \E c \in 0..n : Fed(streams'[r], r, c) /\ Pending(queue', r, c, n)
    <3>1. PICK c \in 0..n : /\ c + 1 \in 1..n /\ Pending(queue', r, c + 1, n)
                             /\ new.frames \o FramesIn(new.buffer \o raw) = FramesIn(Sent(r, c + 1))
                             /\ RestOf(new.buffer \o raw) = RestOf(Sent(r, c + 1))
      BY <2>11, <2>8
    <3>2. Fed(streams'[r], r, c + 1)
      BY <2>5, <2>10, <2>11, <3>1 DEF Fed
    <3> QED
      BY <3>1, <3>2
  <2>12. streams'[r].active => InStep(r)'
    BY <1>1, <1>3, <2>7, <2>11 DEF InStep, Live, Fed
  <2>13. \A x \in Requests : streams'[x].active => streams[x].active /\ InStep(x)'
    <3> SUFFICES ASSUME NEW x \in Requests, streams'[x].active, x # r PROVE streams[x].active /\ InStep(x)'
      BY <1>10, <2>12
    <3> QED
      BY <1>1, <1>6, <2>10, OthersInStep
  <2> QED
    BY <1>1, <2>10, <2>13, ConsumingStep
<1> QED
    BY <1>9, <1>10

LEMMA StreamsStart ==
    ASSUME FiniteRequests, ChunksOfBytes, StreamsInit
    PROVE  StreamsInv
<1>1. /\ \A r \in Requests : net[r] = Idle /\ streams[r] = NoStream
      /\ queue = <<>> /\ outcomes = <<>> /\ consumer = [stage |-> "waiting", request |-> "none", buffered |-> 0]
      /\ bytes = 0 /\ Len(<<>>) = 0
    BY DEF StreamsInit
<1>2. StreamTypes
  <2>1. net \in [Requests -> [stage : {"new", "sent", "receiving", "ended"}, chunks : Nat, streaming : BOOLEAN]]
    BY DEF StreamsInit, Idle
  <2>2. \A r \in Requests : net[r].chunks <= Len(Bodies[r])
    <3> SUFFICES ASSUME NEW r \in Requests PROVE net[r].chunks <= Len(Bodies[r])
      OBVIOUS
    <3>1. net[r].chunks = 0 /\ Len(Bodies[r]) \in Nat
      BY <1>1 DEF Idle, ChunksOfBytes
    <3> QED
      BY <3>1
  <2>3. queue \in Seq(Observations) /\ outcomes \in Seq(StreamOutcomes)
    BY <1>1
  <2>4. streams \in [Requests -> {NoStream} \cup StreamRecords]
    BY DEF StreamsInit
  <2>5. consumer \in [stage : {"waiting", "draining", "sending", "closed"},
                      request : Requests \cup {"none"}, buffered : Int]
    BY <1>1
  <2> QED
    BY <1>1, <2>1, <2>2, <2>3, <2>4, <2>5 DEF StreamTypes, FiniteRequests
<1>3. QueueInv
    BY <1>1 DEF QueueInv, Ascending, OneResponse, Idle, NoStream
<1>4. SendingInv /\ FedInv /\ OutcomesInv
    BY <1>1 DEF SendingInv, FedInv, OutcomesInv, NoStream
<1>5. CountInv
  <2>1. ActiveStreams = {}
    BY <1>1 DEF ActiveStreams, NoStream
  <2> QED
    BY <1>1, <2>1, FS_EmptySet DEF CountInv, FiniteRequests
<1> QED
    BY <1>2, <1>3, <1>4, <1>5 DEF StreamsInv

LEMMA StreamsStep ==
    ASSUME FiniteRequests, ChunksOfBytes, TrailersLast, NoChunkRepeats, StreamsInv, [StreamsNext]_streamVars
    PROVE  StreamsInv'
<1>1. CASE UNCHANGED streamVars
  <2>1. /\ net' = net /\ queue' = queue /\ consumer' = consumer /\ streams' = streams /\ outcomes' = outcomes
        /\ bytes' = bytes /\ dropped' = dropped
    BY <1>1 DEF streamVars
  <2> QED
    BY <2>1 DEF StreamsInv, StreamTypes, QueueInv, Faithful, SendingInv, Live, FedInv, Sending, InStep, Fed,
                OutcomesInv, AsSent, FramesOf, CountInv, ActiveStreams, LimitTold
<1>2. CASE \E r \in Requests :
               RequestWillBeSent(r) \/ ResponseReceived(r) \/ DataReceived(r) \/ LoadingEnds(r) \/ RequestRedirected(r)
    BY <1>2, RequestWillBeSentStep, ResponseReceivedStep, DataReceivedStep, LoadingEndsStep, RequestRedirectedStep
<1>3. CASE \E kind \in {"unapproved", "navigation"} : OtherEvent(kind)
    BY <1>3, OtherEventStep
<1>4. CASE StartDrain
    BY <1>4, StartDrainStep
<1>5. CASE ConsumeRequest
    BY <1>5, ConsumeRequestStep
<1>6. CASE ConsumeReuse
    BY <1>6, ConsumeReuseStep
<1>7. CASE ConsumeResponse
    BY <1>7, ConsumeResponseStep
<1>8. CASE StreamResourceContent
    BY <1>8, StreamResourceContentStep
<1>9. CASE SendReturns
    BY <1>9, SendReturnsStep
<1>10. CASE SendFails
    BY <1>10, SendFailsStep
<1>11. CASE ConsumeData
    BY <1>11, ConsumeDataStep
<1>12. CASE ConsumeMissing
    BY <1>12, ConsumeMissingStep
<1>13. CASE ConsumeLoading
    BY <1>13, ConsumeLoadingStep
<1>14. CASE ConsumeOther
    BY <1>14, ConsumeOtherStep
<1>15. CASE ConsumeNavigation
    BY <1>15, ConsumeNavigationStep
<1>16. CASE EndDrain
    BY <1>16, EndDrainStep
<1>17. CASE Close
    BY <1>17, CloseStep
<1> QED
    BY <1>1, <1>2, <1>3, <1>4, <1>5, <1>6, <1>7, <1>8, <1>9, <1>10, <1>11, <1>12, <1>13, <1>14, <1>15, <1>16, <1>17
    DEF StreamsNext

LEMMA StreamsAreAsSent ==
    ASSUME FiniteRequests, StreamsInv
    PROVE  RetainedAsSent
<1>1. \A i \in 1..Len(outcomes) : outcomes[i].request \notin dropped =>
           /\ IsPrefix(outcomes[i].frames, FramesOf(outcomes[i].request))
           /\ outcomes[i].state = "complete" => outcomes[i].frames = FramesOf(outcomes[i].request)
    BY DEF StreamsInv, OutcomesInv, AsSent
<1>2. bytes <= MaximumStreamingBytes
    BY DEF StreamsInv, StreamTypes
<1>3. Cardinality(ActiveStreams) + Len(outcomes) <= MaximumResponses + 1
  <2>1. Cardinality(ActiveStreams) \in Nat
    BY ActiveIsFinite
  <2>2. Len(outcomes) \in Nat
    BY DEF StreamsInv, StreamTypes
  <2> QED
    BY <2>1, <2>2 DEF StreamsInv, CountInv, FiniteRequests
<1> QED
    BY <1>1, <1>2, <1>3 DEF RetainedAsSent

-----------------------------------------------------------------------------
(* Frames are retained as the server sent them, in every interleaving of the *)
(* browser's events with the drains and with the answer of the command that  *)
(* streams a body, whatever is dropped from a full queue, for every queue     *)
(* size, byte limit and number of frames, and every server whose trailers end *)
(* the response and that repeats no beginning.                                *)
THEOREM FramesStayAsSent ==
    ASSUME TrailersLast, NoChunkRepeats
    PROVE  StreamsSpec => []RetainedAsSent
<1>1. FiniteRequests /\ ChunksOfBytes
    BY StreamsAssumption DEF FiniteRequests, ChunksOfBytes
<1>2. StreamsInit => StreamsInv
    BY <1>1, StreamsStart
<1>3. StreamsInv /\ [StreamsNext]_streamVars => StreamsInv'
    BY <1>1, StreamsStep
<1>4. StreamsInv => RetainedAsSent
    BY <1>1, StreamsAreAsSent
<1> QED
    BY <1>2, <1>3, <1>4, PTL DEF StreamsSpec

-----------------------------------------------------------------------------
(* The browser session: every response is in one place between the browser  *)
(* and the result, and what a stream owns is not read again.                 *)
Stages == {"opening", "goto", "consent", "deadline", "ready", "observe", "settled", "finally",
           "observer", "responses", "finished", "cleanup", "flush", "last flush", "leaving",
           "looking", "closing"}
Following == {"consent", "deadline", "observe", "settled", "finally", "cleanup"}
Flushes == {"flush", "last flush"}
Endings == {"recorded", "incomplete", "streamed", "overflow", "dropped"}
OneEnding == {<<>>} \cup {<<how>> : how \in Endings}
Owners == {"no", "open", "done", "unsupported"}

Sessions == [stage : Stages, provider : Providers, route : Nat, batch : Seq(Traffic),
             next : Following \cup Flushes \cup {"none"}, polls : Nat, observing : BOOLEAN,
             result : {"none", "retryable", "blocked", "complete"}, warned : BOOLEAN]

SessionTypes ==
    /\ browser \in [Traffic -> {"none", "responded", "finished"}]
    /\ heard \in [Traffic -> {"no", "first", "late", "carried"}]
    /\ responses \in Seq(Traffic) /\ finished \in Seq(Traffic) /\ pending \in Seq(Traffic)
    /\ observable \subseteq Traffic /\ recorded \subseteq Traffic
    /\ owned \in [Traffic -> Owners] /\ ended \in [Traffic -> OneEnding]
    /\ kept \in [Traffic -> [finite : Nat, stream : 0..1]] /\ total \in Nat
    /\ session \in Sessions /\ late \in BOOLEAN

InQueue(r) == Contains(responses, r)
InBatch(r) == session.stage = "responses" /\ Contains(session.batch, r)
InWait(r) == Contains(pending, r)
HasEnded(r) == ended[r] # <<>>

PlaceInv == \A r \in Traffic :
    /\ browser[r] # "none" <=> InQueue(r) \/ InBatch(r) \/ InWait(r) \/ HasEnded(r)
    /\ InQueue(r) => ~InBatch(r) /\ ~InWait(r) /\ ~HasEnded(r)
    /\ InBatch(r) => ~InWait(r) /\ ~HasEnded(r)
    /\ InWait(r) => ~HasEnded(r)

OnceInv ==
    /\ IsInjective(responses) /\ IsInjective(pending)
    /\ session.stage = "responses" => IsInjective(session.batch)

(* What the finite reader retains has ended; what the observer was told of   *)
(* before the page is drained by the observer before the finite reader gets  *)
(* it, and what it streamed is owned until it has ended.                     *)
InTurn(r) ==
    /\ owned[r] \in {"open", "done"} \/ kept[r].stream > 0 => kept[r].finite = 0
    /\ session.observing /\ r \in observable => kept[r].finite = 0 /\ ~InBatch(r) /\ ~InWait(r)
    /\ kept[r].stream > 0 => owned[r] = "done" \/ HasEnded(r)

KeptInv == \A r \in Traffic :
    /\ kept[r].finite > 0 => HasEnded(r)
    /\ owned[r] # "no" \/ r \in observable \/ kept[r].stream > 0 => heard[r] # "no"
    /\ heard[r] # "no" => Grpc(r) /\ Provider = "betclic-pt"
    /\ heard[r] \notin {"late", "carried"} => InTurn(r)

(* The observer of the page is closed, or its cleanup has failed.            *)
Closed ==
    \/ session.stage \in Flushes \cup {"leaving", "looking", "opening", "closing"}
    \/ session.stage \in {"responses", "finished"} /\ session.next \in Flushes

StageInv ==
    /\ session.observing => Provider = "betclic-pt"
    /\ session.stage = "observer" => session.next \in Following
    /\ session.stage \in {"responses", "finished"} => session.next # "none"
    /\ Closed => ~session.observing /\ (session.warned \/ \A o \in Traffic : owned[o] # "no" => o \in recorded)
    /\ ~Closed /\ ~session.observing => \A o \in Traffic : owned[o] = "no"
    /\ session.stage \in {"looking", "opening"} => pending = <<>>
    /\ session.stage \in {"leaving", "closing"} => session.warned \/ pending = <<>>

(* A response left to a stream has a stream that owns its URL.               *)
StreamedInv == session.warned \/ \A r \in Traffic : ended[r] = <<"streamed">> =>
    \E o \in Traffic : Describe[o].url = Describe[r].url /\ (o \in recorded \/ owned[o] \in {"open", "done"})

BudgetInv ==
    /\ IsFiniteSet(BytesOf(kept))
    /\ Cardinality(BytesOf(kept)) <= total /\ Cardinality(BytesOf(kept)) <= Limits.total

SessionInv ==
    SessionTypes /\ PlaceInv /\ OnceInv /\ KeptInv /\ StageInv /\ StreamedInv /\ BudgetInv

LEMMA EmptyHolds == (\A r : ~Contains(<<>>, r)) /\ IsInjective(<<>>)
BY DEF Contains, IsInjective

LEMMA EndsOnce ==
    ASSUME NEW how \in Endings
    PROVE  /\ Append(<<>>, how) = <<how>> /\ <<how>> \in OneEnding /\ <<how>> # <<>> /\ <<>> \in OneEnding
           /\ Len(<<how>>) = 1
BY DEF OneEnding

LEMMA ArrivalHolds ==
    ASSUME NEW s \in Seq(Traffic), NEW x \in Traffic
    PROVE  /\ Append(s, x) \in Seq(Traffic)
           /\ \A r : Contains(Append(s, x), r) <=> Contains(s, r) \/ r = x
           /\ IsInjective(s) /\ ~Contains(s, x) => IsInjective(Append(s, x))
<1>1. Append(s, x) \in Seq(Traffic) /\ Len(s) \in Nat
  OBVIOUS
<1>2. /\ Len(Append(s, x)) = Len(s) + 1 /\ Append(s, x)[Len(s) + 1] = x
      /\ \A i \in 1..Len(s) : Append(s, x)[i] = s[i]
  OBVIOUS
<1>3. /\ 1..Len(Append(s, x)) = 1..Len(s) \cup {Len(s) + 1}
      /\ DOMAIN s = 1..Len(s) /\ DOMAIN Append(s, x) = 1..Len(Append(s, x))
  BY <1>1, <1>2
<1>4. IsInjective(s) /\ ~Contains(s, x) => IsInjective(Append(s, x))
  <2> SUFFICES ASSUME IsInjective(s), ~Contains(s, x), NEW a \in 1..Len(s) \cup {Len(s) + 1},
                      NEW b \in 1..Len(s) \cup {Len(s) + 1}, Append(s, x)[a] = Append(s, x)[b]
               PROVE  a = b
    BY <1>3 DEF IsInjective
  <2>1. CASE a \in 1..Len(s) /\ b \in 1..Len(s)
    BY <1>2, <1>3, <2>1 DEF IsInjective
  <2>2. CASE a = Len(s) + 1 /\ b \in 1..Len(s)
    BY <1>2, <2>2 DEF Contains
  <2>3. CASE b = Len(s) + 1 /\ a \in 1..Len(s)
    BY <1>2, <2>3 DEF Contains
  <2> QED
    BY <2>1, <2>2, <2>3
<1>5. \A r : Contains(Append(s, x), r) <=> Contains(s, r) \/ r = x
  BY <1>1, <1>2, <1>3 DEF Contains
<1> QED
  BY <1>1, <1>4, <1>5

LEMMA TailHolds ==
    ASSUME NEW s \in Seq(Traffic), s # <<>>
    PROVE  /\ Head(s) \in Traffic /\ Tail(s) \in Seq(Traffic)
           /\ Contains(s, Head(s))
           /\ \A r : Contains(s, r) => r = Head(s) \/ Contains(Tail(s), r)
           /\ \A r : Contains(Tail(s), r) => Contains(s, r)
           /\ IsInjective(s) => IsInjective(Tail(s)) /\ ~Contains(Tail(s), Head(s))
<1>1. Len(s) \in Nat /\ Len(s) > 0 /\ Len(Tail(s)) = Len(s) - 1
    OBVIOUS
<1>2. \A i \in 1..Len(Tail(s)) : Tail(s)[i] = s[i + 1]
    OBVIOUS
<1>3. /\ Head(s) = s[1] /\ Head(s) \in Traffic /\ Tail(s) \in Seq(Traffic)
      /\ DOMAIN s = 1..Len(s) /\ DOMAIN Tail(s) = 1..Len(Tail(s))
    OBVIOUS
<1>4. Contains(s, Head(s))
    BY <1>1, <1>3 DEF Contains
<1>5. ASSUME NEW r, Contains(s, r) PROVE r = Head(s) \/ Contains(Tail(s), r)
  <2>1. PICK i \in 1..Len(s) : s[i] = r
    BY <1>5 DEF Contains
  <2>2. CASE i = 1
    BY <2>1, <2>2, <1>3
  <2>3. CASE i # 1
    <3>1. i - 1 \in 1..Len(Tail(s)) /\ Tail(s)[i - 1] = s[i]
      BY <1>1, <1>2, <2>3
    <3> QED
      BY <2>1, <3>1 DEF Contains
  <2> QED
    BY <2>2, <2>3
<1>6. ASSUME NEW r, Contains(Tail(s), r) PROVE Contains(s, r)
  <2>1. PICK i \in 1..Len(Tail(s)) : Tail(s)[i] = r
    BY <1>6 DEF Contains
  <2>2. i + 1 \in 1..Len(s) /\ s[i + 1] = r
    BY <1>1, <1>2, <2>1
  <2> QED
    BY <2>2 DEF Contains
<1>7. ASSUME IsInjective(s) PROVE IsInjective(Tail(s)) /\ ~Contains(Tail(s), Head(s))
  <2>1. \A i, j \in 1..Len(s) : s[i] = s[j] => i = j
    BY <1>3, <1>7 DEF IsInjective
  <2>2. ASSUME NEW i \in 1..Len(Tail(s)), NEW j \in 1..Len(Tail(s)), Tail(s)[i] = Tail(s)[j]
        PROVE  i = j
    <3>1. i + 1 \in 1..Len(s) /\ j + 1 \in 1..Len(s) /\ s[i + 1] = s[j + 1]
      BY <1>1, <1>2, <2>2
    <3> QED
      BY <1>1, <2>1, <3>1
  <2>3. ASSUME NEW i \in 1..Len(Tail(s)) PROVE Tail(s)[i] # Head(s)
    <3>1. i + 1 \in 1..Len(s) /\ 1 \in 1..Len(s) /\ Tail(s)[i] = s[i + 1] /\ i + 1 # 1
      BY <1>1, <1>2
    <3> QED
      BY <1>3, <2>1, <3>1
  <2> QED
    BY <1>3, <2>2, <2>3 DEF IsInjective, Contains
<1> QED
    BY <1>3, <1>4, <1>5, <1>6, <1>7

(* Taking one response out of the list leaves the others.                    *)
LEMMA RemoveHolds ==
    ASSUME NEW s \in Seq(Traffic), NEW at \in 1..Len(s), IsInjective(s)
    PROVE  /\ RemoveAt(s, at) \in Seq(Traffic) /\ IsInjective(RemoveAt(s, at))
           /\ \A r : Contains(RemoveAt(s, at), r) <=> Contains(s, r) /\ r # s[at]
<1> DEFINE a == SubSeq(s, 1, at - 1)
           b == SubSeq(s, at + 1, Len(s))
           From(i) == IF i < at THEN i ELSE i + 1
<1>1. /\ Len(s) \in Nat /\ at \in Nat /\ at > 0 /\ at <= Len(s) /\ DOMAIN s = 1..Len(s)
      /\ \A i \in 1..Len(s) : s[i] \in Traffic
    OBVIOUS
<1>2. \A i, j \in 1..Len(s) : s[i] = s[j] => i = j
    BY <1>1 DEF IsInjective
<1>3. /\ a \in Seq(Traffic) /\ Len(a) = at - 1 /\ \A i \in 1..at - 1 : a[i] = s[i]
  <2>1. \A i \in 1..(at - 1) : s[i] \in Traffic
    BY <1>1
  <2> QED
    BY <1>1, <2>1, SubSeqProperties
<1>4. /\ b \in Seq(Traffic) /\ Len(b) = Len(s) - at /\ \A i \in 1..Len(s) - at : b[i] = s[i + at]
  <2>1. \A i \in (at + 1)..Len(s) : s[i] \in Traffic
    BY <1>1
  <2>2. /\ at + 1 \in Int /\ Len(s) \in Int /\ at + 1 <= Len(s) + 1
        /\ (Len(s) - (at + 1)) + 1 = Len(s) - at
    BY <1>1
  <2>3. /\ b \in Seq(Traffic)
        /\ Len(b) = IF at + 1 <= Len(s) THEN (Len(s) - (at + 1)) + 1 ELSE 0
        /\ \A i \in 1..((Len(s) - (at + 1)) + 1) : b[i] = s[(at + 1) + i - 1]
    BY <2>1, <2>2, SubSeqProperties
  <2> HIDE DEF b
  <2>4. Len(b) = Len(s) - at
    <3> DEFINE n == Len(s)
               m == Len(b)
    <3>1. /\ n \in Nat /\ at \in Nat /\ at <= n
          /\ m = IF at + 1 <= n THEN (n - (at + 1)) + 1 ELSE 0
      BY <1>1, <2>3
    <3> HIDE DEF n, m
    <3>2. m = n - at
      BY <3>1
    <3> QED
      BY <3>2 DEF n, m
  <2>5. ASSUME NEW i \in 1..Len(s) - at PROVE b[i] = s[i + at]
    <3>1. i \in 1..((Len(s) - (at + 1)) + 1) /\ (at + 1) + i - 1 = i + at
      BY <1>1, <2>2
    <3> QED
      BY <2>3, <3>1
  <2> QED
    BY <2>3, <2>4, <2>5
<1>5. RemoveAt(s, at) = a \o b
    BY DEF RemoveAt
<1> HIDE DEF a, b
<1>6. /\ a \o b \in Seq(Traffic) /\ Len(a \o b) = Len(s) - 1 /\ DOMAIN (a \o b) = 1..Len(a \o b)
      /\ \A i \in 1..Len(s) - 1 : (a \o b)[i] = IF i <= at - 1 THEN a[i] ELSE b[i - (at - 1)]
  <2>1. /\ a \o b \in Seq(Traffic) /\ Len(a \o b) = Len(a) + Len(b)
        /\ \A i \in 1..Len(a) + Len(b) : (a \o b)[i] = IF i <= Len(a) THEN a[i] ELSE b[i - Len(a)]
    BY <1>3, <1>4, ConcatProperties
  <2>2. Len(a) = at - 1 /\ Len(a) + Len(b) = Len(s) - 1
    BY <1>1, <1>3, <1>4
  <2> QED
    BY <2>1, <2>2
<1>7. ASSUME NEW i \in 1..Len(s) - 1
      PROVE  From(i) \in 1..Len(s) /\ From(i) # at /\ (a \o b)[i] = s[From(i)]
  <2>1. CASE i < at
    <3>1. i \in 1..at - 1 /\ i <= at - 1 /\ i \in 1..Len(s) /\ From(i) = i
      BY <1>1, <2>1
    <3>2. (a \o b)[i] = a[i] /\ a[i] = s[i]
      BY <1>3, <1>6, <3>1
    <3> QED
      BY <1>1, <2>1, <3>1, <3>2
  <2>2. CASE ~(i < at)
    <3>1. ~(i <= at - 1) /\ i - (at - 1) \in 1..Len(s) - at /\ (i - (at - 1)) + at = i + 1
      BY <1>1, <2>2
    <3>2. (a \o b)[i] = s[i + 1]
      BY <1>4, <1>6, <3>1
    <3> QED
      BY <1>1, <2>2, <3>2
  <2> QED
    BY <2>1, <2>2
<1>8. ASSUME NEW k \in 1..Len(s), k # at PROVE \E i \in 1..Len(s) - 1 : From(i) = k
  <2>1. CASE k < at
    BY <1>1, <2>1
  <2>2. CASE ~(k < at)
    <3>1. k - 1 \in 1..Len(s) - 1 /\ From(k - 1) = k
      BY <1>1, <1>8, <2>2
    <3> QED
      BY <3>1
  <2> QED
    BY <2>1, <2>2
<1>9. \A i, j \in 1..Len(s) - 1 : From(i) = From(j) => i = j
    BY <1>1
<1> HIDE DEF From
<1>10. IsInjective(a \o b)
  <2> SUFFICES ASSUME NEW i \in 1..Len(s) - 1, NEW j \in 1..Len(s) - 1, (a \o b)[i] = (a \o b)[j]
               PROVE  i = j
    BY <1>6 DEF IsInjective
  <2>1. From(i) = From(j)
    BY <1>2, <1>7
  <2> QED
    BY <1>9, <2>1
<1>11. ASSUME NEW r PROVE Contains(a \o b, r) <=> Contains(s, r) /\ r # s[at]
  <2>1. ASSUME Contains(a \o b, r) PROVE Contains(s, r) /\ r # s[at]
    <3>1. PICK i \in 1..Len(s) - 1 : (a \o b)[i] = r
      BY <1>6, <2>1 DEF Contains
    <3>2. From(i) \in 1..Len(s) /\ From(i) # at /\ s[From(i)] = r
      BY <1>7, <3>1
    <3> QED
      BY <1>2, <3>2 DEF Contains
  <2>2. ASSUME Contains(s, r), r # s[at] PROVE Contains(a \o b, r)
    <3>1. PICK k \in 1..Len(s) : s[k] = r
      BY <2>2 DEF Contains
    <3>2. PICK i \in 1..Len(s) - 1 : From(i) = k
      BY <1>8, <2>2, <3>1
    <3> QED
      BY <1>6, <1>7, <3>1, <3>2 DEF Contains
  <2> QED
    BY <2>1, <2>2
<1> QED
    BY <1>5, <1>6, <1>10, <1>11

(* What a body adds to the retained bytes.                                   *)
LEMMA BytesGrow ==
    ASSUME NEW old \in [Traffic -> [finite : Nat, stream : 0..1]],
           NEW r \in Traffic, NEW n \in Nat, IsFiniteSet(BytesOf(old))
    PROVE  LET new == [old EXCEPT ![r].finite = n]
           IN  /\ IsFiniteSet(BytesOf(new))
               /\ Cardinality(BytesOf(new)) <= Cardinality(BytesOf(old)) + n
<1> DEFINE new == [old EXCEPT ![r].finite = n]
           more == {r} \X (1..n)
<1>1. IsFiniteSet(more) /\ Cardinality(more) = n
  <2>1. IsFiniteSet({r}) /\ Cardinality({r}) = 1
    BY FS_Singleton
  <2>2. IsFiniteSet(1..n) /\ Cardinality(1..n) = n
    BY FS_Interval
  <2>3. IsFiniteSet({r} \X (1..n)) /\ Cardinality({r} \X (1..n)) = 1 * n
    BY <2>1, <2>2, FS_Product
  <2> QED
    BY <2>3
<1>2. BytesOf(new) \subseteq BytesOf(old) \cup more
  <2> SUFFICES ASSUME NEW o \in Traffic, NEW x \in {o} \X (1..new[o].finite)
               PROVE  x \in BytesOf(old) \cup more
    BY DEF BytesOf
  <2>1. CASE o = r
    BY <2>1
  <2>2. CASE o # r
    BY <2>2 DEF BytesOf
  <2> QED
    BY <2>1, <2>2
<1> HIDE DEF new, more
<1>3. /\ IsFiniteSet(BytesOf(old) \cup more)
      /\ Cardinality(BytesOf(old) \cup more) =
            Cardinality(BytesOf(old)) + Cardinality(more) - Cardinality(BytesOf(old) \cap more)
    BY <1>1, FS_Union
<1>4. IsFiniteSet(BytesOf(old) \cap more)
    BY FS_Intersection
<1>5. /\ Cardinality(BytesOf(old) \cap more) \in Nat /\ Cardinality(BytesOf(old)) \in Nat
    BY <1>4, FS_CardinalityType
<1>6. /\ IsFiniteSet(BytesOf(new))
      /\ Cardinality(BytesOf(new)) <= Cardinality(BytesOf(old) \cup more)
    BY <1>2, <1>3, FS_Subset
<1>7. Cardinality(BytesOf(new)) \in Nat
    BY <1>6, FS_CardinalityType
<1>8. Cardinality(BytesOf(new)) <= Cardinality(BytesOf(old)) + n
    BY <1>1, <1>3, <1>5, <1>6, <1>7
<1> QED
    BY <1>6, <1>8 DEF new

LEMMA SessionStarts == SessionInit => SessionInv
<1> SUFFICES ASSUME SessionInit PROVE SessionInv
    OBVIOUS
<1>1. \A r \in Traffic : kept[r] = [finite |-> 0, stream |-> 0]
    BY DEF SessionInit
<1>2. BytesOf(kept) = {}
    BY <1>1 DEF BytesOf
<1>3. BudgetInv
  <2>1. IsFiniteSet(BytesOf(kept)) /\ Cardinality(BytesOf(kept)) = 0
    BY <1>2, FS_EmptySet
  <2>2. total = 0 /\ Limits.total >= 0
    BY SessionAssumption DEF SessionInit
  <2> QED
    BY <2>1, <2>2 DEF BudgetInv
<1>4. SessionTypes
  <2>1. <<>> \in Seq(Traffic) /\ <<>> \in OneEnding
    BY DEF OneEnding
  <2>2. kept \in [Traffic -> [finite : Nat, stream : 0..1]]
    BY DEF SessionInit
  <2>3. session \in Sessions
    <3>1. session \in [stage : {"opening"}, provider : Providers, route : {1}, batch : {<<>>}, next : {"none"},
                       polls : {0}, observing : {FALSE}, result : {"none"}, warned : {FALSE}]
      BY DEF SessionInit
    <3>2. /\ session.stage = "opening" /\ session.provider \in Providers /\ session.route = 1
          /\ session.batch = <<>> /\ session.next = "none" /\ session.polls = 0
          /\ session.observing \in BOOLEAN /\ session.result = "none" /\ session.warned \in BOOLEAN
          /\ session = [stage |-> session.stage, provider |-> session.provider, route |-> session.route,
                        batch |-> session.batch, next |-> session.next, polls |-> session.polls,
                        observing |-> session.observing, result |-> session.result, warned |-> session.warned]
      BY <3>1
    <3>3. "opening" \in Stages
      BY DEF Stages
    <3>4. session.route \in Nat /\ session.polls \in Nat
      BY <3>2
    <3> QED
      BY <2>1, <3>2, <3>3, <3>4 DEF Sessions
  <2>4. owned \in [Traffic -> Owners] /\ ended \in [Traffic -> OneEnding]
    BY <2>1 DEF SessionInit, Owners
  <2> QED
    BY <2>1, <2>2, <2>3, <2>4 DEF SessionInit, SessionTypes
<1>5. /\ session.stage = "opening" /\ session.next = "none" /\ ~session.observing
    BY DEF SessionInit
<1>6. PlaceInv /\ OnceInv
    BY <1>5, EmptyHolds DEF SessionInit, PlaceInv, OnceInv, InQueue, InBatch, InWait, HasEnded
<1>7. KeptInv /\ StreamedInv
    BY <1>1, <1>5 DEF SessionInit, KeptInv, InTurn, StreamedInv
<1>8. StageInv
    BY <1>5 DEF SessionInit, StageInv, Closed
<1> QED
    BY <1>3, <1>4, <1>6, <1>7, <1>8 DEF SessionInv

(* What a body retained by a reader needs, when nothing is read.             *)
LEMMA KeptSame ==
    ASSUME SessionInv, UNCHANGED <<heard, observable, owned, kept>>,
           session'.provider = session.provider, session'.observing => session.observing,
           \A o \in Traffic : HasEnded(o) => HasEnded(o)',
           \A o \in Traffic : session'.observing /\ ~InBatch(o) /\ ~InWait(o) => ~InBatch(o)' /\ ~InWait(o)'
    PROVE  KeptInv'
<1> SUFFICES ASSUME NEW o \in Traffic PROVE KeptInv!(o)'
    BY DEF KeptInv
<1>1. KeptInv!(o)
    BY DEF SessionInv, KeptInv
<1>2. (Grpc(o)' <=> Grpc(o)) /\ Provider' = Provider
    BY DEF Grpc, Provider
<1>3. InTurn(o) => InTurn(o)'
    BY DEF InTurn
<1> QED
    BY <1>1, <1>2, <1>3

(* A body is read by the finite reader when no stream owns it.               *)
LEMMA KeptRead ==
    ASSUME SessionInv, NEW r \in Traffic, UNCHANGED <<heard, observable, owned>>,
           \A o \in Traffic \ {r} : kept'[o] = kept[o],
           kept'[r].stream = kept[r].stream,
           owned[r] \notin {"open", "done"}, InBatch(r) \/ InWait(r), HasEnded(r)',
           session'.provider = session.provider, session'.observing => session.observing,
           \A o \in Traffic : HasEnded(o) => HasEnded(o)',
           \A o \in Traffic : session'.observing /\ ~InBatch(o) /\ ~InWait(o) => ~InBatch(o)' /\ ~InWait(o)'
    PROVE  KeptInv'
<1> SUFFICES ASSUME NEW o \in Traffic PROVE KeptInv!(o)'
    BY DEF KeptInv
<1>1. KeptInv!(o)
    BY DEF SessionInv, KeptInv
<1>2. (Grpc(o)' <=> Grpc(o)) /\ Provider' = Provider
    BY DEF Grpc, Provider
<1>3. CASE o # r
  <2>1. kept'[o] = kept[o]
    BY <1>3
  <2>2. InTurn(o) => InTurn(o)'
    BY <2>1 DEF InTurn
  <2> QED
    BY <1>1, <1>2, <2>1, <2>2
<1>4. CASE o = r
  <2>1. ~HasEnded(o)
    BY <1>4 DEF SessionInv, PlaceInv
  <2>2. InTurn(o) => InTurn(o)'
    BY <1>4, <2>1 DEF InTurn
  <2> QED
    BY <1>1, <1>2, <1>4, <2>2
<1> QED
    BY <1>3, <1>4

(* The streams that stand for responses stay what they are.                  *)
LEMMA StreamedSame ==
    ASSUME SessionInv, session.warned => session'.warned, recorded \subseteq recorded',
           \A o \in Traffic : ended'[o] = <<"streamed">> => ended[o] = <<"streamed">>,
           \A o \in Traffic : owned[o] \in {"open", "done"} =>
                                 owned'[o] \in {"open", "done"} \/ o \in recorded' \/ session.warned
    PROVE  StreamedInv'
<1> SUFFICES ASSUME ~session'.warned, NEW r \in Traffic, ended'[r] = <<"streamed">>
             PROVE  \E o \in Traffic : /\ Describe[o].url = Describe[r].url
                                       /\ o \in recorded' \/ owned'[o] \in {"open", "done"}
    BY DEF StreamedInv
<1>1. PICK o \in Traffic : /\ Describe[o].url = Describe[r].url
                           /\ o \in recorded \/ owned[o] \in {"open", "done"}
    BY DEF SessionInv, StreamedInv
<1> QED
    BY <1>1

LEMMA EndMarks ==
    ASSUME SessionTypes, NEW r \in Traffic, NEW how \in Endings, ~HasEnded(r), End(r, how)
    PROVE  /\ ended' \in [Traffic -> OneEnding] /\ ended'[r] = <<how>> /\ HasEnded(r)'
           /\ \A o \in Traffic \ {r} : ended'[o] = ended[o]
           /\ \A o \in Traffic : HasEnded(o) => HasEnded(o)'
           /\ how # "streamed" =>
                 \A o \in Traffic : ended'[o] = <<"streamed">> => ended[o] = <<"streamed">>
<1>1. ended \in [Traffic -> OneEnding] /\ ended[r] = <<>>
    BY DEF SessionTypes, HasEnded
<1>2. ended' = [ended EXCEPT ![r] = <<how>>] /\ <<how>> \in OneEnding /\ <<how>> # <<>>
    BY <1>1, EndsOnce DEF End
<1>3. how # "streamed" => <<how>> # <<"streamed">>
    OBVIOUS
<1> QED
    BY <1>1, <1>2, <1>3 DEF HasEnded

-----------------------------------------------------------------------------
(* Callbacks *)

LEMMA OnResponseStep ==
    ASSUME SessionInv, NEW r \in Traffic, OnResponse(r)
    PROVE  SessionInv'
<1> USE DEF SessionInv
<1>1. /\ UNCHANGED <<heard, finished, observable, pending, owned, recorded, kept, total, session, late>>
      /\ browser[r] = "none" /\ browser' = [browser EXCEPT ![r] = "responded"]
    BY DEF OnResponse
<1>2. /\ browser' \in [Traffic -> {"none", "responded", "finished"}] /\ browser'[r] # "none"
      /\ \A o \in Traffic \ {r} : browser'[o] = browser[o]
    BY <1>1 DEF SessionTypes
<1>3. ~InQueue(r) /\ ~InBatch(r) /\ ~InWait(r) /\ ~HasEnded(r)
    BY <1>1 DEF PlaceInv
<1>4. /\ responses' \in Seq(Traffic) /\ IsInjective(responses') /\ ended' \in [Traffic -> OneEnding]
      /\ \A o \in Traffic \ {r} : (InQueue(o)' <=> InQueue(o)) /\ (HasEnded(o)' <=> HasEnded(o))
      /\ InQueue(r)' <=> ~HasEnded(r)'
      /\ \A o \in Traffic : HasEnded(o) => HasEnded(o)'
      /\ \A o \in Traffic : ended'[o] = <<"streamed">> => ended[o] = <<"streamed">>
  <2>1. CASE Len(responses) < QueueLimit
    <3>1. responses' = Append(responses, r) /\ ended' = ended
      BY <2>1 DEF OnResponse
    <3> QED
      BY <1>3, <3>1, ArrivalHolds DEF SessionTypes, OnceInv, InQueue, HasEnded
  <2>2. CASE ~(Len(responses) < QueueLimit)
    <3>1. End(r, "overflow") /\ responses' = responses
      BY <2>2 DEF OnResponse
    <3>2. "overflow" \in Endings /\ "overflow" # "streamed"
      BY DEF Endings
    <3>3. /\ ended' \in [Traffic -> OneEnding] /\ HasEnded(r)'
          /\ \A o \in Traffic \ {r} : ended'[o] = ended[o]
          /\ \A o \in Traffic : HasEnded(o) => HasEnded(o)'
          /\ \A o \in Traffic : ended'[o] = <<"streamed">> => ended[o] = <<"streamed">>
      BY <1>3, <3>1, <3>2, EndMarks
    <3> QED
      BY <1>3, <3>1, <3>3 DEF SessionTypes, OnceInv, InQueue, HasEnded
  <2> QED
    BY <2>1, <2>2
<1>5. SessionTypes' /\ OnceInv'
    BY <1>1, <1>2, <1>4 DEF SessionTypes, OnceInv
<1>6. \A o : (InBatch(o)' <=> InBatch(o)) /\ (InWait(o)' <=> InWait(o))
    BY <1>1 DEF InBatch, InWait
<1>7. PlaceInv'
  <2> SUFFICES ASSUME NEW o \in Traffic PROVE PlaceInv!(o)'
    BY DEF PlaceInv
  <2>1. PlaceInv!(o)
    BY DEF PlaceInv
  <2>2. CASE o = r
    BY <1>2, <1>3, <1>4, <1>6, <2>2
  <2>3. CASE o # r
    BY <1>2, <1>4, <1>6, <2>1, <2>3
  <2> QED
    BY <2>2, <2>3
<1>8. KeptInv'
    BY <1>1, <1>4, <1>6, KeptSame
<1>9. StreamedInv'
    BY <1>1, <1>4, StreamedSame
<1>10. StageInv' /\ BudgetInv'
    BY <1>1 DEF StageInv, Closed, Provider, BudgetInv, BytesOf
<1> QED
    BY <1>5, <1>7, <1>8, <1>9, <1>10

LEMMA OnRequestFinishedStep ==
    ASSUME SessionInv, NEW r \in Traffic, OnRequestFinished(r)
    PROVE  SessionInv'
<1> USE DEF SessionInv
<1>1. /\ UNCHANGED <<heard, responses, observable, pending, owned, recorded, ended, kept, total, session, late>>
      /\ browser[r] = "responded" /\ browser' = [browser EXCEPT ![r] = "finished"]
      /\ finished' = IF Len(finished) < QueueLimit THEN Append(finished, r) ELSE finished
    BY DEF OnRequestFinished
<1>2. finished' \in Seq(Traffic)
    BY <1>1, ArrivalHolds DEF SessionTypes
<1>3. /\ browser' \in [Traffic -> {"none", "responded", "finished"}]
      /\ \A o \in Traffic : browser'[o] = "none" <=> browser[o] = "none"
    BY <1>1 DEF SessionTypes
<1>4. SessionTypes'
    BY <1>1, <1>2, <1>3 DEF SessionTypes
<1>5. \A o : /\ InQueue(o)' <=> InQueue(o)
             /\ InBatch(o)' <=> InBatch(o)
             /\ InWait(o)' <=> InWait(o)
             /\ HasEnded(o)' <=> HasEnded(o)
    BY <1>1 DEF InQueue, InBatch, InWait, HasEnded
<1>6. PlaceInv' /\ OnceInv'
    BY <1>1, <1>3, <1>5 DEF PlaceInv, OnceInv
<1>7. KeptInv' /\ StreamedInv'
    BY <1>1, <1>5, KeptSame, StreamedSame
<1>8. StageInv' /\ BudgetInv'
    BY <1>1 DEF StageInv, Closed, Provider, BudgetInv, BytesOf
<1> QED
    BY <1>4, <1>6, <1>7, <1>8

(* What the observer hears of first, the page has not reported.              *)
LEMMA OnStreamingResponseStep ==
    ASSUME SessionInv, NEW r \in Traffic, OnStreamingResponse(r)
    PROVE  SessionInv'
<1> USE DEF SessionInv
<1>1. /\ UNCHANGED <<browser, responses, finished, pending, owned, recorded, ended, kept, total, session, late>>
      /\ session.observing /\ heard[r] = "no" /\ Grpc(r)
      /\ heard' = [heard EXCEPT ![r] = IF browser[r] = "none" THEN "first" ELSE "late"]
      /\ observable' \in {observable, observable \cup {r}}
    BY DEF OnStreamingResponse, Streamable
<1>2. /\ heard' \in [Traffic -> {"no", "first", "late", "carried"}] /\ heard'[r] # "no"
      /\ heard'[r] = "late" \/ browser[r] = "none"
      /\ \A o \in Traffic \ {r} : heard'[o] = heard[o]
    BY <1>1 DEF SessionTypes
<1>3. SessionTypes'
    BY <1>1, <1>2 DEF SessionTypes
<1>4. \A o : /\ InQueue(o)' <=> InQueue(o)
             /\ InBatch(o)' <=> InBatch(o)
             /\ InWait(o)' <=> InWait(o)
             /\ HasEnded(o)' <=> HasEnded(o)
    BY <1>1 DEF InQueue, InBatch, InWait, HasEnded
<1>5. PlaceInv' /\ OnceInv'
    BY <1>1, <1>4 DEF PlaceInv, OnceInv
<1>6. KeptInv'
  <2> SUFFICES ASSUME NEW o \in Traffic PROVE KeptInv!(o)'
    BY DEF KeptInv
  <2>1. KeptInv!(o)
    BY DEF KeptInv
  <2>2. (Grpc(o)' <=> Grpc(o)) /\ Provider' = Provider /\ Provider = "betclic-pt"
    BY <1>1 DEF Grpc, Provider, StageInv
  <2>3. CASE o # r
    <3>1. (o \in observable' <=> o \in observable) /\ heard'[o] = heard[o]
      BY <1>1, <1>2, <2>3
    <3>2. InTurn(o) => InTurn(o)'
      BY <1>1, <1>4, <3>1 DEF InTurn
    <3> QED
      BY <1>1, <1>4, <2>1, <2>2, <3>1, <3>2
  <2>4. CASE o = r
    <3>1. browser[r] = "none" => ~InBatch(r) /\ ~InWait(r) /\ ~HasEnded(r)
      BY DEF PlaceInv
    <3>2. kept[r].finite \in Nat /\ kept[r].stream \in 0..1
      BY DEF SessionTypes
    <3>3. browser[r] = "none" => InTurn(r)'
      BY <1>1, <1>4, <2>1, <2>4, <3>1, <3>2 DEF InTurn
    <3> QED
      BY <1>1, <1>2, <1>4, <2>1, <2>2, <2>4, <3>3
  <2> QED
    BY <2>3, <2>4
<1>7. StreamedInv'
    BY <1>1, StreamedSame
<1>8. StageInv' /\ BudgetInv'
    BY <1>1 DEF StageInv, Closed, Provider, BudgetInv, BytesOf
<1> QED
    BY <1>3, <1>5, <1>6, <1>7, <1>8

LEMMA DeadlinePassesStep ==
    ASSUME SessionInv, DeadlinePasses
    PROVE  SessionInv'
<1> USE DEF SessionInv
<1>1. /\ UNCHANGED <<browser, heard, responses, finished, observable, pending, owned, recorded, ended, kept, total,
                     session>>
      /\ late' = TRUE
    BY DEF DeadlinePasses
<1>2. SessionTypes' /\ OnceInv' /\ StageInv' /\ BudgetInv'
    BY <1>1 DEF SessionTypes, OnceInv, StageInv, Closed, Provider, BudgetInv, BytesOf
<1>3. PlaceInv' /\ KeptInv' /\ StreamedInv'
    BY <1>1 DEF PlaceInv, InQueue, InBatch, InWait, HasEnded, KeptInv, InTurn, Grpc, Provider, StreamedInv
<1> QED
    BY <1>2, <1>3

-----------------------------------------------------------------------------
(* Steps between the waits *)

(* What holds when the program moves on and reads nothing.                   *)
LEMMA SessionMoves ==
    ASSUME SessionInv,
           UNCHANGED <<browser, heard, responses, finished, observable, pending, owned, recorded, ended, kept, total,
                       late>>,
           session' \in Sessions, session'.provider = session.provider,
           session'.observing => session.observing, session.warned => session'.warned,
           session.stage # "responses", session'.stage # "responses", StageInv'
    PROVE  SessionInv'
<1> USE DEF SessionInv
<1>1. SessionTypes'
    BY DEF SessionTypes
<1>2. \A o : /\ InQueue(o)' <=> InQueue(o)
             /\ ~InBatch(o)' /\ ~InBatch(o)
             /\ InWait(o)' <=> InWait(o)
             /\ HasEnded(o)' <=> HasEnded(o)
    BY DEF InQueue, InBatch, InWait, HasEnded
<1>3. PlaceInv' /\ OnceInv'
    BY <1>2 DEF PlaceInv, OnceInv
<1>4. KeptInv' /\ StreamedInv'
    BY <1>2, KeptSame, StreamedSame
<1> QED
    BY <1>1, <1>3, <1>4 DEF BudgetInv, BytesOf

LEMMA EndWaitStep ==
    ASSUME SessionInv, NEW stage \in {"goto", "consent", "ready", "observe", "settled", "finally"},
           NEW next \in Following, EndWait(stage, next)
    PROVE  SessionInv'
<1> USE DEF SessionInv
<1>1. session \in Sessions /\ session.polls \in Nat
    BY DEF SessionTypes, Sessions
<1>2. PICK polls \in Nat : session' = [session EXCEPT !.stage = "observer", !.next = next, !.polls = polls]
  <2>1. /\ 0 \in Nat /\ session.polls + 1 \in Nat
        /\ session' = [session EXCEPT !.stage = "observer", !.next = next,
                                      !.polls = IF next = stage THEN session.polls + 1 ELSE 0]
    BY <1>1 DEF EndWait, SessionGoesTo
  <2> DEFINE n == IF next = stage THEN session.polls + 1 ELSE 0
  <2>2. n \in Nat
    BY <2>1
  <2>3. session' = [session EXCEPT !.stage = "observer", !.next = next, !.polls = n]
    BY <2>1
  <2> HIDE DEF n
  <2> QED
    BY <2>2, <2>3
<1>3. /\ session.stage = stage
      /\ UNCHANGED <<browser, heard, responses, finished, observable, pending, owned, recorded, ended, kept, total,
                     late>>
    BY DEF EndWait, SessionGoesTo
<1>4. /\ session' \in Sessions /\ session'.provider = session.provider /\ session'.observing = session.observing
      /\ session'.warned = session.warned /\ session'.stage = "observer" /\ session'.next = next
    BY <1>1, <1>2 DEF Sessions, Stages
<1>5. StageInv'
    BY <1>3, <1>4 DEF StageInv, Closed, Provider, Flushes
<1> QED
    BY <1>3, <1>4, <1>5, SessionMoves

LEMMA MovingStep ==
    ASSUME SessionInv,
           Return \/ DeadlineHolds \/ VisitFails \/ DrainEnds \/ CleanupFails \/ LeavingFails \/ JudgePage
    PROVE  SessionInv'
<1> USE DEF SessionInv
<1> DEFINE Same == UNCHANGED <<browser, heard, responses, finished, observable, pending, owned, recorded, ended, kept,
                               total, late>>
<1>1. session \in Sessions /\ session.warned \in BOOLEAN
    BY DEF SessionTypes, Sessions
<1>2. CASE Return
  <2>1. PICK result \in {"retryable", "complete"} :
            /\ session.stage = "opening" /\ Same
            /\ session' = [session EXCEPT !.stage = "closing", !.result = result]
    <3>1. session' = [session EXCEPT !.stage = "closing",
                         !.result = IF session.route <= RouteCount THEN "retryable" ELSE "complete"]
      BY <1>2 DEF Return, SessionGoesTo
    <3> QED
      BY <1>2, <3>1 DEF Return, SessionGoesTo
  <2>2. /\ session' \in Sessions /\ session'.provider = session.provider /\ session'.observing = session.observing
        /\ session'.warned = session.warned /\ session'.stage = "closing"
    BY <1>1, <2>1 DEF Sessions, Stages
  <2>3. StageInv'
    BY <2>1, <2>2 DEF StageInv, Closed, Provider
  <2> QED
    BY <2>1, <2>2, <2>3, SessionMoves
<1>3. CASE DeadlineHolds
  <2>1. session.stage = "deadline" /\ Same /\ session' = [session EXCEPT !.stage = "ready"]
    BY <1>3 DEF DeadlineHolds, SessionGoesTo
  <2>2. /\ session' \in Sessions /\ session'.provider = session.provider /\ session'.observing = session.observing
        /\ session'.warned = session.warned /\ session'.stage = "ready"
    BY <1>1, <2>1 DEF Sessions, Stages
  <2>3. StageInv'
    BY <2>1, <2>2 DEF StageInv, Closed, Provider, Flushes
  <2> QED
    BY <2>1, <2>2, <2>3, SessionMoves
<1>4. CASE VisitFails
  <2>1. PICK result \in {"retryable", "blocked"} :
            /\ session.stage \in {"goto", "ready", "observe", "deadline", "observer"} /\ Same
            /\ session' = [session EXCEPT !.stage = "finally", !.result = result]
    BY <1>4 DEF VisitFails, SessionGoesTo
  <2>2. /\ session' \in Sessions /\ session'.provider = session.provider /\ session'.observing = session.observing
        /\ session'.warned = session.warned /\ session'.stage = "finally"
    BY <1>1, <2>1 DEF Sessions, Stages
  <2>3. StageInv'
    BY <2>1, <2>2 DEF StageInv, Closed, Provider, Flushes
  <2> QED
    BY <2>1, <2>2, <2>3, SessionMoves
<1>5. CASE DrainEnds
  <2>1. session.stage = "finished" /\ Same /\ session' = [session EXCEPT !.stage = session.next]
    BY <1>5 DEF DrainEnds, SessionGoesTo
  <2>2. session.next \in Following \cup Flushes
    BY <1>1, <2>1 DEF StageInv, Sessions
  <2>3. /\ session' \in Sessions /\ session'.provider = session.provider /\ session'.observing = session.observing
        /\ session'.warned = session.warned /\ session'.stage = session.next
    BY <1>1, <2>1, <2>2 DEF Sessions, Stages, Following, Flushes
  <2>4. StageInv' /\ session'.stage # "responses"
    BY <2>1, <2>2, <2>3 DEF StageInv, Closed, Provider, Following, Flushes
  <2> QED
    BY <2>1, <2>3, <2>4, SessionMoves
<1>6. CASE CleanupFails
  <2>1. PICK stage \in {"leaving", "closing"} :
            /\ session.stage \in {"cleanup", "observer"} /\ Same
            /\ session' = [session EXCEPT !.stage = stage, !.observing = FALSE, !.warned = TRUE]
    <3>1. AfterCleanup \in {"leaving", "closing"}
      BY DEF AfterCleanup
    <3> QED
      BY <1>6, <3>1 DEF CleanupFails, SessionGoesTo
  <2>2. /\ session' \in Sessions /\ session'.provider = session.provider /\ ~session'.observing
        /\ session'.warned /\ session'.stage = stage
    BY <1>1, <2>1 DEF Sessions, Stages
  <2>3. StageInv'
    BY <2>1, <2>2 DEF StageInv, Closed, Provider
  <2> QED
    BY <2>1, <2>2, <2>3, SessionMoves
<1>7. CASE LeavingFails
  <2>1. /\ session.stage = "leaving" /\ Same
        /\ session' = [session EXCEPT !.stage = "closing", !.result = "retryable"]
    BY <1>7 DEF LeavingFails, SessionGoesTo
  <2>2. /\ session' \in Sessions /\ session'.provider = session.provider /\ session'.observing = session.observing
        /\ session'.warned = session.warned /\ session'.stage = "closing"
    BY <1>1, <2>1 DEF Sessions, Stages
  <2>3. StageInv'
    BY <2>1, <2>2 DEF StageInv, Closed, Provider
  <2> QED
    BY <2>1, <2>2, <2>3, SessionMoves
<1>8. CASE JudgePage
  <2>1. /\ session.stage = "looking" /\ Same
        /\ \/ session' = [session EXCEPT !.stage = "closing", !.result = "blocked"]
           \/ session' = [session EXCEPT !.stage = "opening", !.route = @ + 1]
    BY <1>8 DEF JudgePage, SessionGoesTo
  <2>2. /\ session' \in Sessions /\ session'.provider = session.provider /\ session'.observing = session.observing
        /\ session'.warned = session.warned /\ session'.stage \in {"closing", "opening"}
    <3>1. CASE session' = [session EXCEPT !.stage = "closing", !.result = "blocked"]
      BY <1>1, <3>1 DEF Sessions, Stages
    <3>2. CASE session' = [session EXCEPT !.stage = "opening", !.route = @ + 1]
      <4>1. session.route + 1 \in Nat
        BY <1>1 DEF Sessions
      <4>2. PICK route \in Nat : session' = [session EXCEPT !.stage = "opening", !.route = route]
        BY <3>2, <4>1, Zenon
      <4> QED
        BY <1>1, <4>2 DEF Sessions, Stages
    <3> QED
      BY <2>1, <3>1, <3>2
  <2>3. StageInv'
    BY <2>1, <2>2 DEF StageInv, Closed, Provider
  <2> QED
    BY <2>1, <2>2, <2>3, SessionMoves
<1> QED
    BY <1>2, <1>3, <1>4, <1>5, <1>6, <1>7, <1>8

(* A new route replaces the observer: what the old one owned is recorded, and *)
(* what it heard of first has ended or is carried over.                       *)
LEMMA OpenRouteStep ==
    ASSUME SessionInv, OpenRoute
    PROVE  SessionInv'
<1> USE DEF SessionInv
<1>1. PICK observing \in BOOLEAN :
         /\ session.stage = "opening" /\ (observing => Provider = "betclic-pt")
         /\ session' = [session EXCEPT !.stage = "goto", !.observing = observing]
  <2>1. PICK supported \in BOOLEAN :
         session' = [session EXCEPT !.stage = "goto", !.observing = supported /\ Provider = "betclic-pt"]
    BY DEF OpenRoute
  <2>2. (supported /\ Provider = "betclic-pt") \in BOOLEAN
    OBVIOUS
  <2> QED
    BY <2>1, <2>2, Zenon DEF OpenRoute
<1>2. /\ session' \in Sessions /\ session'.provider = session.provider /\ session'.observing = observing
      /\ session'.warned = session.warned /\ session'.stage = "goto"
  <2>1. session \in Sessions
    BY DEF SessionTypes
  <2> QED
    BY <1>1, <2>1 DEF Sessions, Stages
<1>3. /\ UNCHANGED <<browser, responses, finished, pending, recorded, ended, kept, total, late>>
      /\ owned' = [r \in Traffic |-> "no"] /\ observable' = {}
      /\ heard' = [r \in Traffic |-> IF heard[r] = "first" /\ (browser[r] = "none" \/ Contains(responses, r))
                                     THEN "carried" ELSE heard[r]]
    BY DEF OpenRoute
<1>4. /\ heard' \in [Traffic -> {"no", "first", "late", "carried"}]
      /\ \A r \in Traffic : /\ heard'[r] = "no" <=> heard[r] = "no"
                            /\ heard'[r] \notin {"late", "carried"} =>
                                  \/ heard[r] = "no"
                                  \/ heard[r] \notin {"late", "carried"} /\ browser[r] # "none" /\ ~InQueue(r)
    BY <1>3 DEF SessionTypes, InQueue
<1>5. SessionTypes'
    BY <1>2, <1>3, <1>4 DEF SessionTypes, Owners
<1>6. \A o : /\ InQueue(o)' <=> InQueue(o)
             /\ ~InBatch(o)' /\ ~InBatch(o)
             /\ ~InWait(o)' /\ ~InWait(o)
             /\ HasEnded(o)' <=> HasEnded(o)
    BY <1>1, <1>2, <1>3, EmptyHolds DEF InQueue, InBatch, InWait, HasEnded, StageInv
<1>7. PlaceInv' /\ OnceInv'
    BY <1>2, <1>3, <1>6 DEF PlaceInv, OnceInv
<1>8. KeptInv'
  <2> SUFFICES ASSUME NEW o \in Traffic PROVE KeptInv!(o)'
    BY DEF KeptInv
  <2>1. KeptInv!(o)
    BY DEF KeptInv
  <2>2. (Grpc(o)' <=> Grpc(o)) /\ Provider' = Provider
    BY <1>2 DEF Grpc, Provider
  <2>3. owned'[o] = "no" /\ o \notin observable' /\ kept'[o] = kept[o]
    BY <1>3
  <2>4. ASSUME heard'[o] \notin {"late", "carried"} PROVE InTurn(o)'
    <3>1. CASE heard[o] = "no"
      BY <2>1, <2>3, <3>1 DEF InTurn
    <3>2. CASE heard[o] \notin {"late", "carried"} /\ browser[o] # "none" /\ ~InQueue(o)
      <4>1. HasEnded(o)'
        BY <1>6, <3>2 DEF PlaceInv
      <4>2. kept[o].stream > 0 => kept[o].finite = 0
        BY <2>1, <3>2 DEF InTurn
      <4> QED
        BY <2>3, <4>1, <4>2 DEF InTurn
    <3> QED
      BY <1>4, <2>4, <3>1, <3>2
  <2> QED
    BY <1>4, <1>6, <2>1, <2>2, <2>3, <2>4
<1>9. StageInv'
    BY <1>1, <1>2, <1>3 DEF StageInv, Closed, Provider, Flushes
<1>10. StreamedInv'
  <2>1. \A o \in Traffic : owned[o] \in {"open", "done"} => o \in recorded' \/ session.warned
    BY <1>1, <1>3 DEF StageInv, Closed
  <2> QED
    BY <1>2, <1>3, <2>1, StreamedSame
<1>11. BudgetInv'
    BY <1>3 DEF BudgetInv, BytesOf
<1> QED
    BY <1>5, <1>7, <1>8, <1>9, <1>10, <1>11

(* A drain takes the whole queue of responses.                               *)
LEMMA QueueTaken ==
    ASSUME SessionInv, session.stage # "responses", NEW next \in Following \cup Flushes,
           TakeResponses(next), UNCHANGED <<browser, finished, pending, ended>>
    PROVE  /\ session' \in Sessions /\ session'.provider = session.provider
           /\ session'.observing <=> session.observing /\ next # "flush"
           /\ session'.stage = "responses" /\ session'.next = next /\ session'.warned = session.warned
           /\ responses' \in Seq(Traffic)
           /\ PlaceInv' /\ OnceInv'
<1> USE DEF SessionInv
<1>1. PICK observing \in BOOLEAN :
          /\ observing <=> session.observing /\ next # "flush"
          /\ session' = [session EXCEPT !.stage = "responses", !.batch = responses, !.next = next,
                                        !.observing = observing]
  <2>1. (session.observing /\ next # "flush") \in BOOLEAN
    OBVIOUS
  <2>2. session' = [session EXCEPT !.stage = "responses", !.batch = responses, !.next = next,
                                   !.observing = session.observing /\ next # "flush"]
    BY DEF TakeResponses
  <2> QED
    BY <2>1, <2>2, Zenon
<1>2. /\ session' \in Sessions /\ session'.provider = session.provider /\ session'.batch = responses
      /\ session'.observing = observing /\ session'.warned = session.warned
      /\ session'.stage = "responses" /\ session'.next = next
  <2>1. session \in Sessions /\ responses \in Seq(Traffic)
    BY DEF SessionTypes
  <2> QED
    BY <1>1, <2>1 DEF Sessions, Stages
<1>3. responses' = <<>> /\ responses' \in Seq(Traffic)
    BY DEF TakeResponses
<1>4. \A o : /\ ~InQueue(o)' /\ ~InBatch(o)
             /\ InBatch(o)' <=> InQueue(o)
             /\ InWait(o)' <=> InWait(o)
             /\ HasEnded(o)' <=> HasEnded(o)
    BY <1>2, <1>3, EmptyHolds DEF InQueue, InBatch, InWait, HasEnded
<1>5. PlaceInv'
    BY <1>4 DEF PlaceInv
<1>6. OnceInv'
    BY <1>2, <1>3, EmptyHolds DEF OnceInv
<1> QED
    BY <1>1, <1>2, <1>3, <1>5, <1>6

LEMMA DrainObserverStep ==
    ASSUME SessionInv, DrainObserver
    PROVE  SessionInv'
<1> USE DEF SessionInv
<1>1. /\ session.stage = "observer" /\ TakeResponses(session.next)
      /\ IF session.observing THEN owned' \in DrainedStreams /\ observable' = {} ELSE UNCHANGED <<owned, observable>>
      /\ UNCHANGED <<browser, heard, finished, pending, recorded, ended, kept, total, late>>
    BY DEF DrainObserver
<1>2. session.next \in Following /\ session.next # "flush"
    BY <1>1 DEF StageInv, Following
<1>3. /\ session' \in Sessions /\ session'.provider = session.provider
      /\ session'.observing <=> session.observing
      /\ session'.stage = "responses" /\ session'.next = session.next /\ session'.warned = session.warned
      /\ responses' \in Seq(Traffic)
      /\ PlaceInv' /\ OnceInv'
    BY <1>1, <1>2, QueueTaken
<1>4. /\ owned' \in [Traffic -> Owners] /\ observable' \subseteq Traffic
      /\ \A r \in Traffic : \/ owned'[r] = owned[r]
                            \/ session.observing /\ owned[r] = "open" /\ owned'[r] = "done"
                            \/ session.observing /\ owned[r] = "no" /\ r \in observable
    BY <1>1 DEF DrainedStreams, SessionTypes, Owners
<1>5. SessionTypes'
    BY <1>1, <1>3, <1>4 DEF SessionTypes
<1>6. KeptInv'
  <2> SUFFICES ASSUME NEW o \in Traffic PROVE KeptInv!(o)'
    BY DEF KeptInv
  <2>1. KeptInv!(o)
    BY DEF KeptInv
  <2>2. /\ Grpc(o)' <=> Grpc(o)
        /\ HasEnded(o)' <=> HasEnded(o)
        /\ Provider' = Provider /\ kept'[o] = kept[o] /\ heard'[o] = heard[o]
    BY <1>1, <1>3 DEF Grpc, Provider, HasEnded
  <2>3. ASSUME InTurn(o) PROVE InTurn(o)'
    <3>1. ~(session'.observing /\ o \in observable')
      BY <1>1, <1>3
    <3>2. owned'[o] \in {"open", "done"} => kept[o].finite = 0
      BY <1>4, <2>3 DEF InTurn
    <3>3. owned[o] = "done" => owned'[o] = "done"
      BY <1>4
    <3> QED
      BY <2>2, <2>3, <3>1, <3>2, <3>3 DEF InTurn
  <2>4. owned'[o] # "no" \/ o \in observable' => owned[o] # "no" \/ o \in observable
    BY <1>1, <1>4
  <2> QED
    BY <2>1, <2>2, <2>3, <2>4
<1>7. StageInv'
    BY <1>1, <1>2, <1>3 DEF StageInv, Closed, Provider, Following, Flushes
<1>8. StreamedInv'
    BY <1>1, <1>3, <1>4, StreamedSame
<1>9. BudgetInv'
    BY <1>1 DEF BudgetInv, BytesOf
<1> QED
    BY <1>3, <1>5, <1>6, <1>7, <1>8, <1>9

LEMMA ResponsesDrainedStep ==
    ASSUME SessionInv, ResponsesDrained
    PROVE  SessionInv'
<1> USE DEF SessionInv
<1>1. /\ session.stage = "responses" /\ session.batch = <<>> /\ finished' = <<>>
      /\ session' = [session EXCEPT !.stage = "finished", !.batch = finished]
      /\ UNCHANGED <<browser, heard, responses, observable, pending, owned, recorded, ended, kept, total, late>>
    BY DEF ResponsesDrained
<1>2. /\ session' \in Sessions /\ session'.provider = session.provider /\ session'.observing = session.observing
      /\ session'.stage = "finished" /\ session'.next = session.next /\ session'.warned = session.warned
  <2>1. session \in Sessions /\ finished \in Seq(Traffic)
    BY DEF SessionTypes
  <2> QED
    BY <1>1, <2>1 DEF Sessions, Stages
<1>3. SessionTypes'
  <2>1. <<>> \in Seq(Traffic)
    OBVIOUS
  <2> QED
    BY <1>1, <1>2, <2>1 DEF SessionTypes
<1>4. \A o : /\ InQueue(o)' <=> InQueue(o)
             /\ ~InBatch(o)' /\ ~InBatch(o)
             /\ InWait(o)' <=> InWait(o)
             /\ HasEnded(o)' <=> HasEnded(o)
    BY <1>1, <1>2, EmptyHolds DEF InQueue, InBatch, InWait, HasEnded
<1>5. PlaceInv' /\ OnceInv'
    BY <1>1, <1>2, <1>4 DEF PlaceInv, OnceInv
<1>6. KeptInv' /\ StreamedInv'
    BY <1>1, <1>2, <1>4, KeptSame, StreamedSame
<1>7. StageInv' /\ BudgetInv'
    BY <1>1, <1>2 DEF StageInv, Closed, Provider, Flushes, BudgetInv, BytesOf
<1> QED
    BY <1>3, <1>5, <1>6, <1>7

LEMMA LeavePageStep ==
    ASSUME SessionInv, LeavePage
    PROVE  SessionInv'
<1> USE DEF SessionInv
<1>1. /\ session.stage = "leaving" /\ TakeResponses("last flush")
      /\ UNCHANGED <<browser, heard, finished, observable, pending, owned, recorded, ended, kept, total, late>>
    BY DEF LeavePage
<1>2. "last flush" \in Flushes
    BY DEF Flushes
<1>3. /\ session' \in Sessions /\ session'.provider = session.provider
      /\ session'.observing <=> session.observing /\ "last flush" # "flush"
      /\ session'.stage = "responses" /\ session'.next = "last flush" /\ session'.warned = session.warned
      /\ responses' \in Seq(Traffic)
      /\ PlaceInv' /\ OnceInv'
    BY <1>1, <1>2, QueueTaken
<1>4. ~session'.observing
    BY <1>1, <1>3 DEF StageInv, Closed
<1>5. SessionTypes'
    BY <1>1, <1>3 DEF SessionTypes
<1>6. \A o : HasEnded(o)' <=> HasEnded(o)
    BY <1>1 DEF HasEnded
<1>7. KeptInv' /\ StreamedInv'
    BY <1>1, <1>3, <1>4, <1>6, KeptSame, StreamedSame
<1>8. StageInv' /\ BudgetInv'
    BY <1>1, <1>2, <1>3, <1>4 DEF StageInv, Closed, Provider, BudgetInv, BytesOf
<1> QED
    BY <1>3, <1>5, <1>7, <1>8

(* The observer drains once more when it is closed; what it owned is recorded. *)
LEMMA CloseObserverStep ==
    ASSUME SessionInv, CloseObserver
    PROVE  SessionInv'
<1> USE DEF SessionInv
<1>1. /\ session.stage = "cleanup" /\ TakeResponses("flush")
      /\ UNCHANGED <<browser, heard, finished, pending, ended, late>>
    BY DEF CloseObserver
<1>2. "flush" \in Flushes
    BY DEF Flushes
<1>3. /\ session' \in Sessions /\ session'.provider = session.provider
      /\ ~session'.observing
      /\ session'.stage = "responses" /\ session'.next = "flush" /\ session'.warned = session.warned
      /\ responses' \in Seq(Traffic)
      /\ PlaceInv' /\ OnceInv'
    BY <1>1, <1>2, QueueTaken
<1>4. \A o : HasEnded(o)' <=> HasEnded(o)
    BY <1>1 DEF HasEnded
<1>5. CASE ~session.observing
  <2>1. UNCHANGED <<owned, observable, recorded, kept, total>>
    BY <1>5 DEF CloseObserver
  <2>2. SessionTypes'
    BY <1>1, <1>3, <2>1 DEF SessionTypes
  <2>3. KeptInv' /\ StreamedInv'
    BY <1>1, <1>3, <1>4, <2>1, KeptSame, StreamedSame
  <2>4. \A o \in Traffic : owned[o] = "no"
    BY <1>1, <1>5 DEF StageInv, Closed, Flushes
  <2>5. StageInv' /\ BudgetInv'
    BY <1>1, <1>2, <1>3, <2>1, <2>4 DEF StageInv, Closed, Provider, BudgetInv, BytesOf
  <2> QED
    BY <1>3, <2>2, <2>3, <2>5
<1>6. CASE session.observing
  <2>1. PICK ending \in DrainedStreams :
            owned' = [r \in Traffic |-> IF ending[r] = "open" THEN "done" ELSE ending[r]]
    BY <1>6 DEF CloseObserver
  <2>2. PICK retained \in SUBSET {r \in Traffic : owned'[r] = "done"} :
            /\ kept' = [r \in Traffic |-> IF r \in retained THEN [kept[r] EXCEPT !.stream = 1] ELSE kept[r]]
            /\ total' = total + Cardinality(retained)
    BY <1>6 DEF CloseObserver
  <2>3. recorded' = recorded \cup {r \in Traffic : owned'[r] # "no"} /\ observable' = {}
    BY <1>6 DEF CloseObserver
  <2>4. /\ owned' \in [Traffic -> Owners]
        /\ \A r \in Traffic : /\ owned'[r] # "no" => owned[r] # "no" \/ r \in observable
                              /\ owned'[r] \in {"open", "done"} => owned[r] \in {"open", "done"} \/ r \in observable
                              /\ owned[r] \in {"open", "done"} => owned'[r] = "done"
    <3>1. \A r \in Traffic : /\ ending[r] \in Owners
                             /\ \/ ending[r] = owned[r]
                                \/ owned[r] = "open" /\ ending[r] = "done"
                                \/ owned[r] = "no" /\ r \in observable
      BY DEF DrainedStreams, Owners
    <3> QED
      BY <2>1, <3>1 DEF Owners
  <2>5. \A r \in Traffic : /\ kept'[r] \in [finite : Nat, stream : 0..1]
                           /\ kept'[r].finite = kept[r].finite
                           /\ kept'[r].stream > 0 => kept[r].stream > 0 \/ owned'[r] = "done"
    <3> SUFFICES ASSUME NEW r \in Traffic
                 PROVE  /\ kept'[r] \in [finite : Nat, stream : 0..1]
                        /\ kept'[r].finite = kept[r].finite
                        /\ kept'[r].stream > 0 => kept[r].stream > 0 \/ owned'[r] = "done"
      OBVIOUS
    <3>1. kept[r] \in [finite : Nat, stream : 0..1]
      BY DEF SessionTypes
    <3>2. CASE r \in retained
      <4>1. kept'[r] = [kept[r] EXCEPT !.stream = 1] /\ owned'[r] = "done"
        BY <2>2, <3>2
      <4> QED
        BY <3>1, <4>1
    <3>3. CASE r \notin retained
      BY <2>2, <3>1, <3>3
    <3> QED
      BY <3>2, <3>3
  <2>6. Cardinality(retained) \in Nat
    <3>1. IsFiniteSet(Traffic) /\ retained \in SUBSET Traffic
      BY SessionAssumption
    <3> QED
      BY <3>1, FS_Subset, FS_CardinalityType
  <2>7. SessionTypes'
    <3>1. kept' \in [Traffic -> [finite : Nat, stream : 0..1]] /\ total' \in Nat
      BY <2>2, <2>5, <2>6 DEF SessionTypes
    <3> QED
      BY <1>1, <1>3, <2>3, <2>4, <3>1 DEF SessionTypes
  <2>8. KeptInv'
    <3> SUFFICES ASSUME NEW o \in Traffic PROVE KeptInv!(o)'
      BY DEF KeptInv
    <3>1. KeptInv!(o)
      BY DEF KeptInv
    <3>2. /\ Grpc(o)' <=> Grpc(o)
          /\ Provider' = Provider /\ heard'[o] = heard[o] /\ o \notin observable'
      BY <1>1, <1>3, <2>3 DEF Grpc, Provider
    <3>3. ASSUME InTurn(o) PROVE InTurn(o)'
      <4>1. owned'[o] \in {"open", "done"} => kept[o].finite = 0
        BY <1>6, <2>4, <3>3 DEF InTurn
      <4>2. kept'[o].stream > 0 => kept[o].finite = 0 /\ (owned'[o] = "done" \/ HasEnded(o))
        BY <2>4, <2>5, <3>3, <4>1 DEF InTurn
      <4> QED
        BY <1>4, <2>5, <3>2, <4>1, <4>2 DEF InTurn
    <3> QED
      BY <1>4, <2>4, <2>5, <3>1, <3>2, <3>3
  <2>9. StageInv'
    BY <1>1, <1>2, <1>3, <2>3 DEF StageInv, Closed, Provider
  <2>10. StreamedInv'
    BY <1>1, <1>3, <2>3, <2>4, StreamedSame
  <2>11. BudgetInv'
    <3>1. BytesOf(kept') = BytesOf(kept)
      BY <2>5 DEF BytesOf
    <3>2. Cardinality(BytesOf(kept)) \in Nat
      BY FS_CardinalityType DEF BudgetInv
    <3> QED
      BY <2>2, <2>6, <3>1, <3>2 DEF BudgetInv, SessionTypes
  <2> QED
    BY <1>3, <2>7, <2>8, <2>9, <2>10, <2>11
<1> QED
    BY <1>5, <1>6

-----------------------------------------------------------------------------
(* Steps on the responses of a batch *)

(* The next item of a batch is worked off.                                   *)
LEMMA BatchMoves ==
    ASSUME SessionInv, NEW stage \in {"responses", "finished"}, Works(stage)
    PROVE  /\ session' \in Sessions /\ session'.provider = session.provider
           /\ session'.observing = session.observing /\ session'.warned = session.warned
           /\ session.stage = stage /\ session'.stage = stage
           /\ Item \in Traffic
           /\ stage = "responses" => InBatch(Item)
           /\ \A r : InBatch(r)' <=> InBatch(r) /\ r # Item
           /\ session'.stage = "responses" => IsInjective(session'.batch)
           /\ UNCHANGED <<owned, recorded>> => StageInv'
<1> USE DEF SessionInv
<1>1. session \in Sessions /\ session.batch \in Seq(Traffic) /\ session.stage = stage /\ session.batch # <<>>
    BY DEF SessionTypes, Sessions, Works
<1>2. session' = [session EXCEPT !.batch = Tail(session.batch)] /\ Tail(session.batch) \in Seq(Traffic)
    BY <1>1, TailHolds DEF Works
<1>3. /\ session' \in Sessions /\ session'.provider = session.provider
      /\ session'.observing = session.observing /\ session'.batch = Tail(session.batch)
      /\ session'.stage = stage /\ session'.next = session.next /\ session'.warned = session.warned
    BY <1>1, <1>2 DEF Sessions
<1>4. /\ Item \in Traffic /\ Contains(session.batch, Item)
      /\ \A r : Contains(session.batch, r) => r = Item \/ Contains(session'.batch, r)
      /\ \A r : Contains(session'.batch, r) => Contains(session.batch, r)
      /\ IsInjective(session.batch) => IsInjective(session'.batch) /\ ~Contains(session'.batch, Item)
    BY <1>1, <1>3, TailHolds DEF Item
<1>5. stage = "responses" => IsInjective(session.batch)
    BY <1>1 DEF OnceInv
<1>6. \A r : InBatch(r)' <=> InBatch(r) /\ r # Item
    BY <1>1, <1>3, <1>4, <1>5 DEF InBatch
<1>7. UNCHANGED <<owned, recorded>> => StageInv'
    BY <1>1, <1>3 DEF StageInv, Closed, Provider, Flushes
<1> QED
    BY <1>1, <1>3, <1>4, <1>5, <1>6, <1>7 DEF InBatch

(* A body that is retained counts in the total and fits the budget.          *)
LEMMA BudgetKept ==
    ASSUME SessionInv, NEW r \in Traffic, NEW n \in Nat,
           kept' = [kept EXCEPT ![r].finite = n], total' \in Nat, total' >= total,
           n > 0 => total' = total + n /\ total' <= Limits.total
    PROVE  /\ BudgetInv'
           /\ kept' \in [Traffic -> [finite : Nat, stream : 0..1]]
           /\ kept'[r].stream = kept[r].stream /\ \A o \in Traffic \ {r} : kept'[o] = kept[o]
<1>1. kept \in [Traffic -> [finite : Nat, stream : 0..1]] /\ total \in Nat /\ Limits.total \in Nat
    BY SessionAssumption DEF SessionInv, SessionTypes
<1>2. /\ IsFiniteSet(BytesOf(kept)) /\ Cardinality(BytesOf(kept)) <= total
      /\ Cardinality(BytesOf(kept)) <= Limits.total
    BY DEF SessionInv, BudgetInv
<1>3. /\ IsFiniteSet(BytesOf(kept'))
      /\ Cardinality(BytesOf(kept')) <= Cardinality(BytesOf(kept)) + n
    BY <1>1, <1>2, BytesGrow
<1>4. Cardinality(BytesOf(kept)) \in Nat /\ Cardinality(BytesOf(kept')) \in Nat
    BY <1>2, <1>3, FS_CardinalityType
<1>5. Cardinality(BytesOf(kept')) <= total' /\ Cardinality(BytesOf(kept')) <= Limits.total
  <2>1. CASE n > 0
    BY <1>1, <1>2, <1>3, <1>4, <2>1
  <2>2. CASE n = 0
    BY <1>1, <1>2, <1>3, <1>4, <2>2
  <2> QED
    BY <2>1, <2>2
<1>6. BytesOf(kept)' = BytesOf(kept')
    BY DEF BytesOf
<1>7. /\ kept' \in [Traffic -> [finite : Nat, stream : 0..1]]
      /\ kept'[r].stream = kept[r].stream /\ \A o \in Traffic \ {r} : kept'[o] = kept[o]
    BY <1>1
<1> QED
    BY <1>3, <1>5, <1>6, <1>7 DEF BudgetInv

LEMMA NothingRetained ==
    ASSUME SessionInv, NEW r \in Traffic, ~HasEnded(r)
    PROVE  kept = [kept EXCEPT ![r].finite = 0] /\ kept[r].finite = 0
<1>1. kept \in [Traffic -> [finite : Nat, stream : 0..1]]
    BY DEF SessionInv, SessionTypes
<1>2. kept[r].finite = 0
    BY <1>1 DEF SessionInv, KeptInv
<1> QED
    BY <1>1, <1>2

LEMMA JsonBytesFacts ==
    ASSUME NEW r \in Traffic, total \in Nat
    PROVE  /\ JsonBytes(r) \in Nat
           /\ JsonBytes(r) > 0 => total + JsonBytes(r) <= Limits.total /\ ~Grpc(r)
<1>1. Describe[r].size \in Nat /\ Limits.total \in Nat
    BY SessionAssumption
<1>2. JsonState(Provider, Describe[r], Limits, total) = "captured" =>
          ~(total + Describe[r].size > Limits.total) /\ Describe[r].media = "json"
    BY DEF JsonState
<1> QED
    BY <1>1, <1>2 DEF JsonBytes, Grpc

(* A response that leaves the batch is placed where it ended.                *)
LEMMA BatchEnds ==
    ASSUME SessionInv, Works("responses"), NEW how \in {"recorded", "dropped"}, End(Item, how),
           UNCHANGED pending, NEW n \in {0, JsonBytes(Item)}, Retain(Item, n)
    PROVE  SessionInv'
<1> USE DEF SessionInv
<1>1. /\ session' \in Sessions /\ session'.provider = session.provider
      /\ session'.observing = session.observing /\ session'.warned = session.warned
      /\ Item \in Traffic /\ InBatch(Item)
      /\ \A r : InBatch(r)' <=> InBatch(r) /\ r # Item
      /\ session'.stage = "responses" => IsInjective(session'.batch)
      /\ UNCHANGED <<owned, recorded>> => StageInv'
    BY BatchMoves
<1>2. PICK r \in Traffic : r = Item
    BY <1>1
<1>3. UNCHANGED <<browser, heard, responses, finished, observable, pending, owned, recorded, late>>
    BY DEF Works
<1>4. ~InQueue(r) /\ ~InWait(r) /\ ~HasEnded(r) /\ browser[r] # "none"
    BY <1>1, <1>2 DEF PlaceInv
<1>5. how \in Endings /\ how # "streamed"
    BY DEF Endings
<1>6. /\ ended' \in [Traffic -> OneEnding] /\ HasEnded(r)'
      /\ \A o \in Traffic \ {r} : ended'[o] = ended[o]
      /\ \A o \in Traffic : HasEnded(o) => HasEnded(o)'
      /\ \A o \in Traffic : ended'[o] = <<"streamed">> => ended[o] = <<"streamed">>
    BY <1>2, <1>4, <1>5, EndMarks
<1>7. total \in Nat /\ n \in Nat /\ (n > 0 => total + n <= Limits.total /\ ~Grpc(r))
  <2>1. total \in Nat
    BY DEF SessionTypes
  <2>2. PICK b \in Nat : b = JsonBytes(r) /\ (b > 0 => total + b <= Limits.total /\ ~Grpc(r))
    BY <2>1, JsonBytesFacts
  <2>3. n = 0 \/ n = b
    BY <1>2, <2>2
  <2> QED
    BY <2>1, <2>2, <2>3
<1>8. kept' = [kept EXCEPT ![r].finite = n] /\ total' = total + n
    BY <1>2 DEF Retain
<1>9. /\ BudgetInv' /\ kept' \in [Traffic -> [finite : Nat, stream : 0..1]]
      /\ kept'[r].stream = kept[r].stream /\ \A o \in Traffic \ {r} : kept'[o] = kept[o]
      /\ total' \in Nat
  <2>1. total' \in Nat /\ total' >= total
    BY <1>7, <1>8
  <2>2. /\ BudgetInv' /\ kept' \in [Traffic -> [finite : Nat, stream : 0..1]]
        /\ kept'[r].stream = kept[r].stream /\ \A o \in Traffic \ {r} : kept'[o] = kept[o]
    BY <1>7, <1>8, <2>1, BudgetKept
  <2> QED
    BY <2>1, <2>2
<1>10. SessionTypes'
    BY <1>1, <1>3, <1>6, <1>9 DEF SessionTypes
<1>11. \A o : /\ InQueue(o)' <=> InQueue(o)
              /\ InWait(o)' <=> InWait(o)
    BY <1>3 DEF InQueue, InWait
<1>12. OnceInv'
    BY <1>1, <1>3 DEF OnceInv
<1>13. PlaceInv'
  <2> SUFFICES ASSUME NEW o \in Traffic PROVE PlaceInv!(o)'
    BY DEF PlaceInv
  <2>1. PlaceInv!(o) /\ browser'[o] = browser[o]
    BY <1>3 DEF PlaceInv
  <2>2. CASE o = r
    BY <1>1, <1>2, <1>4, <1>6, <1>11, <2>1, <2>2
  <2>3. CASE o # r
    <3>1. HasEnded(o)' <=> HasEnded(o)
      BY <1>6, <2>3 DEF HasEnded
    <3> QED
      BY <1>1, <1>2, <1>11, <2>1, <2>3, <3>1
  <2> QED
    BY <2>2, <2>3
<1>14. KeptInv'
  <2>1. CASE n = 0
    <3>1. kept' = kept
      BY <1>4, <1>8, <2>1, NothingRetained
    <3> QED
      BY <1>1, <1>3, <1>6, <1>11, <3>1, KeptSame
  <2>2. CASE n > 0
    <3>1. owned[r] \notin {"open", "done"}
      BY <1>7, <2>2 DEF KeptInv
    <3> QED
      BY <1>1, <1>2, <1>3, <1>6, <1>9, <1>11, <3>1, KeptRead
  <2> QED
    BY <1>7, <2>1, <2>2
<1>15. StreamedInv'
    BY <1>1, <1>3, <1>6, StreamedSame
<1> QED
    BY <1>1, <1>3, <1>9, <1>10, <1>12, <1>13, <1>14, <1>15

LEMMA ProcessResponseStep ==
    ASSUME SessionInv, ProcessResponse
    PROVE  SessionInv'
<1> USE DEF SessionInv
<1>1. Works("responses")
    BY DEF ProcessResponse
<1>2. /\ session' \in Sessions /\ session'.provider = session.provider
      /\ session'.observing = session.observing /\ session'.warned = session.warned
      /\ Item \in Traffic /\ InBatch(Item)
      /\ \A r : InBatch(r)' <=> InBatch(r) /\ r # Item
      /\ session'.stage = "responses" => IsInjective(session'.batch)
      /\ UNCHANGED <<owned, recorded>> => StageInv'
    BY <1>1, BatchMoves
<1>3. PICK r \in Traffic : r = Item
    BY <1>2
<1>4. ~InQueue(r) /\ ~InWait(r) /\ ~HasEnded(r) /\ browser[r] # "none"
    BY <1>2, <1>3 DEF PlaceInv
<1>5. CASE late \/ ~Describe[Item].public
  <2>1. End(Item, "dropped") /\ UNCHANGED <<pending, kept, total>>
    BY <1>5 DEF ProcessResponse
  <2>2. Retain(Item, 0)
    BY <1>3, <1>4, <2>1, NothingRetained DEF Retain, SessionTypes
  <2> QED
    BY <1>1, <2>1, <2>2, BatchEnds
<1>6. CASE ~(late \/ ~Describe[Item].public) /\ Provider = "betclic-pt" /\ Grpc(Item)
  <2>1. pending' = Append(pending, r) /\ UNCHANGED <<ended, kept, total>>
    BY <1>3, <1>6 DEF ProcessResponse
  <2>2. UNCHANGED <<browser, heard, responses, finished, observable, owned, recorded, late>>
    BY <1>1 DEF Works
  <2>3. /\ pending' \in Seq(Traffic) /\ IsInjective(pending')
        /\ \A o : InWait(o)' <=> InWait(o) \/ o = r
    BY <1>4, <2>1, ArrivalHolds DEF SessionTypes, OnceInv, InWait
  <2>4. \A o : /\ InQueue(o)' <=> InQueue(o)
               /\ HasEnded(o)' <=> HasEnded(o)
    BY <2>1, <2>2 DEF InQueue, HasEnded
  <2>5. SessionTypes' /\ OnceInv'
    BY <1>2, <2>1, <2>2, <2>3 DEF SessionTypes, OnceInv
  <2>6. PlaceInv'
    <3> SUFFICES ASSUME NEW o \in Traffic PROVE PlaceInv!(o)'
      BY DEF PlaceInv
    <3>1. PlaceInv!(o) /\ browser'[o] = browser[o]
      BY <2>2 DEF PlaceInv
    <3> QED
      BY <1>2, <1>3, <1>4, <2>3, <2>4, <3>1
  <2>7. KeptInv' /\ StreamedInv'
    BY <1>2, <1>3, <2>1, <2>2, <2>3, <2>4, KeptSame, StreamedSame
  <2>8. StageInv' /\ BudgetInv'
    BY <1>2, <2>1, <2>2 DEF BudgetInv, BytesOf
  <2> QED
    BY <2>5, <2>6, <2>7, <2>8
<1>7. CASE ~(late \/ ~Describe[Item].public) /\ ~(Provider = "betclic-pt" /\ Grpc(Item))
  <2>1. End(Item, "recorded") /\ Retain(Item, JsonBytes(Item)) /\ UNCHANGED pending
    BY <1>7 DEF ProcessResponse
  <2> QED
    BY <1>1, <2>1, BatchEnds
<1> QED
    BY <1>5, <1>6, <1>7

LEMMA ObservationFailsStep ==
    ASSUME SessionInv, ObservationFails
    PROVE  SessionInv'
BY BatchEnds DEF ObservationFails

LEMMA ObserveGrpcFacts ==
    ASSUME NEW response, response.size \in Nat, NEW maximum \in Int, NEW directory \in BOOLEAN
    PROVE  ObserveGrpc(response, maximum, directory).stored =>
               ObserveGrpc(response, maximum, directory).read /\ response.size <= maximum
BY DEF ObserveGrpc, NoOutcome

LEMMA ProcessFinishedStep ==
    ASSUME SessionInv, ProcessFinished
    PROVE  SessionInv'
<1> USE DEF SessionInv
<1>1. Works("finished")
    BY DEF ProcessFinished
<1>2. /\ session' \in Sessions /\ session'.provider = session.provider
      /\ session'.observing = session.observing /\ session'.warned = session.warned
      /\ session.stage = "finished" /\ session'.stage = "finished"
      /\ Item \in Traffic
      /\ UNCHANGED <<owned, recorded>> => StageInv'
    BY <1>1, BatchMoves
<1>3. PICK r \in Traffic : r = Item
    BY <1>2
<1>4. UNCHANGED <<browser, heard, responses, finished, observable, owned, recorded, late>>
    BY <1>1 DEF Works
<1>5. \A o : /\ InQueue(o)' <=> InQueue(o)
             /\ ~InBatch(o)' /\ ~InBatch(o)
    BY <1>2, <1>4 DEF InQueue, InBatch
<1>6. CASE ~Contains(pending, Item)
  <2>1. UNCHANGED <<pending, ended, kept, total>>
    BY <1>6 DEF ProcessFinished
  <2>2. SessionTypes' /\ OnceInv' /\ StageInv' /\ BudgetInv'
    BY <1>2, <1>4, <2>1 DEF SessionTypes, OnceInv, BudgetInv, BytesOf
  <2>3. \A o : /\ InWait(o)' <=> InWait(o)
               /\ HasEnded(o)' <=> HasEnded(o)
    BY <2>1 DEF InWait, HasEnded
  <2>4. PlaceInv'
    BY <1>4, <1>5, <2>3 DEF PlaceInv
  <2>5. KeptInv' /\ StreamedInv'
    BY <1>2, <1>4, <1>5, <2>1, <2>3, KeptSame, StreamedSame
  <2> QED
    BY <2>2, <2>4, <2>5
<1>7. CASE Contains(pending, Item)
  <2> DEFINE at == CHOOSE i \in 1..Len(pending) : pending[i] = Item
  <2>1. pending' = RemoveAt(pending, at)
    BY <1>7 DEF ProcessFinished
  <2>2. at \in 1..Len(pending) /\ pending[at] = r
    BY <1>3, <1>7 DEF Contains
  <2> HIDE DEF at
  <2>3. /\ pending' \in Seq(Traffic) /\ IsInjective(pending')
        /\ \A o : InWait(o)' <=> InWait(o) /\ o # r
    BY <2>1, <2>2, RemoveHolds DEF SessionTypes, OnceInv, InWait
  <2>4. InWait(r) /\ ~InQueue(r) /\ ~HasEnded(r) /\ browser[r] # "none"
    BY <1>3, <1>7 DEF PlaceInv, InWait
  <2>5. OnceInv' /\ StageInv'
    BY <1>2, <1>4, <2>3 DEF OnceInv
  <2>6. ASSUME NEW how \in {"streamed", "recorded"}, End(r, how)
        PROVE  /\ ended' \in [Traffic -> OneEnding] /\ HasEnded(r)'
               /\ \A o \in Traffic \ {r} : ended'[o] = ended[o]
               /\ \A o \in Traffic : HasEnded(o) => HasEnded(o)'
               /\ how # "streamed" =>
                     \A o \in Traffic : ended'[o] = <<"streamed">> => ended[o] = <<"streamed">>
               /\ PlaceInv'
    <3>1. how \in Endings
      BY <2>6 DEF Endings
    <3>2. /\ ended' \in [Traffic -> OneEnding] /\ HasEnded(r)'
          /\ \A o \in Traffic \ {r} : ended'[o] = ended[o]
          /\ \A o \in Traffic : HasEnded(o) => HasEnded(o)'
          /\ how # "streamed" =>
                \A o \in Traffic : ended'[o] = <<"streamed">> => ended[o] = <<"streamed">>
      BY <2>4, <2>6, <3>1, EndMarks
    <3>3. PlaceInv'
      <4> SUFFICES ASSUME NEW o \in Traffic PROVE PlaceInv!(o)'
        BY DEF PlaceInv
      <4>1. PlaceInv!(o) /\ browser'[o] = browser[o]
        BY <1>4 DEF PlaceInv
      <4>2. CASE o = r
        BY <1>5, <2>3, <2>4, <3>2, <4>1, <4>2
      <4>3. CASE o # r
        <5>1. HasEnded(o)' <=> HasEnded(o)
          BY <3>2, <4>3 DEF HasEnded
        <5> QED
          BY <1>5, <2>3, <4>1, <4>3, <5>1
      <4> QED
        BY <4>2, <4>3
    <3> QED
      BY <3>2, <3>3
  <2>7. CASE OwnedByStream(Item)
    <3>1. End(r, "streamed") /\ UNCHANGED <<kept, total>>
      BY <1>3, <1>7, <2>7 DEF ProcessFinished
    <3>2. /\ ended' \in [Traffic -> OneEnding] /\ PlaceInv'
          /\ \A o \in Traffic \ {r} : ended'[o] = ended[o]
          /\ \A o \in Traffic : HasEnded(o) => HasEnded(o)'
      BY <2>6, <3>1
    <3>3. SessionTypes' /\ BudgetInv'
      BY <1>2, <1>4, <2>3, <3>1, <3>2 DEF SessionTypes, BudgetInv, BytesOf
    <3>4. KeptInv'
      BY <1>2, <1>4, <1>5, <2>3, <3>1, <3>2, KeptSame
    <3>5. StreamedInv'
      <4> SUFFICES ASSUME ~session'.warned, NEW o \in Traffic, ended'[o] = <<"streamed">>
                   PROVE  \E s \in Traffic : /\ Describe[s].url = Describe[o].url
                                             /\ s \in recorded' \/ owned'[s] \in {"open", "done"}
        BY DEF StreamedInv
      <4>1. CASE o = r
        BY <1>3, <1>4, <2>7, <4>1 DEF OwnedByStream
      <4>2. CASE o # r
        BY <1>2, <1>4, <3>2, <4>2 DEF StreamedInv
      <4> QED
        BY <4>1, <4>2
    <3> QED
      BY <2>5, <3>2, <3>3, <3>4, <3>5
  <2>8. CASE ~OwnedByStream(Item)
    <3>1. owned[r] \notin {"open", "done"}
      BY <1>3, <2>8 DEF OwnedByStream
    <3>2. End(r, "recorded")
      BY <1>3, <1>7, <2>8 DEF ProcessFinished
    <3>3. /\ ended' \in [Traffic -> OneEnding] /\ HasEnded(r)' /\ PlaceInv'
          /\ \A o \in Traffic : HasEnded(o) => HasEnded(o)'
          /\ \A o \in Traffic : ended'[o] = <<"streamed">> => ended[o] = <<"streamed">>
      BY <2>6, <3>2
    <3>4. StreamedInv'
      BY <1>2, <1>4, <3>3, StreamedSame
    <3>5. total \in Nat /\ Limits.total \in Nat /\ Limits.response \in Nat /\ Describe[r].size \in Nat
      BY SessionAssumption DEF SessionTypes
    <3>6. Left \in Int
      BY <3>5 DEF Left
    <3>7. CASE Left <= 0
      <4>1. UNCHANGED <<kept, total>>
        BY <1>7, <2>8, <3>7 DEF ProcessFinished
      <4>2. SessionTypes' /\ BudgetInv'
        BY <1>2, <1>4, <2>3, <3>3, <4>1 DEF SessionTypes, BudgetInv, BytesOf
      <4>3. KeptInv'
        BY <1>2, <1>4, <1>5, <2>3, <3>3, <4>1, KeptSame
      <4> QED
        BY <2>5, <3>3, <3>4, <4>2, <4>3
    <3>8. CASE ~(Left <= 0)
      <4> DEFINE n == IF Outcome(r).stored THEN Describe[r].size ELSE 0
                 most == IF Left < Limits.response THEN Left ELSE Limits.response
      <4>1. /\ kept' = [kept EXCEPT ![r].finite = n]
            /\ total' = IF Outcome(r).read /\ Describe[r].size <= Left THEN total + Describe[r].size ELSE total
        BY <1>3, <1>7, <2>8, <3>8 DEF ProcessFinished
      <4>2. Outcome(r).stored => Outcome(r).read /\ Describe[r].size <= Left
        <5>1. most \in Int /\ most <= Left
          BY <3>5, <3>6
        <5>2. Outcome(r) = ObserveGrpc(Describe[r], most, TRUE)
          BY DEF Outcome
        <5> HIDE DEF most
        <5>3. Outcome(r).stored => Outcome(r).read /\ Describe[r].size <= most
          BY <3>5, <5>1, <5>2, ObserveGrpcFacts
        <5> QED
          BY <3>5, <3>6, <5>1, <5>3
      <4>3. n \in Nat
        BY <3>5
      <4>4. total' \in Nat /\ total' >= total
        BY <3>5, <4>1
      <4>5. n > 0 => total' = total + n /\ total' <= Limits.total
        <5> SUFFICES ASSUME n > 0 PROVE total' = total + n /\ total' <= Limits.total
          OBVIOUS
        <5>1. n = Describe[r].size /\ Describe[r].size <= Left /\ total' = total + Describe[r].size
          BY <4>1, <4>2
        <5> QED
          BY <3>5, <5>1 DEF Left
      <4> HIDE DEF n
      <4>6. /\ BudgetInv' /\ kept' \in [Traffic -> [finite : Nat, stream : 0..1]]
            /\ kept'[r].stream = kept[r].stream /\ \A o \in Traffic \ {r} : kept'[o] = kept[o]
        BY <4>1, <4>3, <4>4, <4>5, BudgetKept
      <4>7. SessionTypes'
        BY <1>2, <1>4, <2>3, <3>3, <4>4, <4>6 DEF SessionTypes
      <4>8. KeptInv'
        BY <1>2, <1>4, <1>5, <2>3, <2>4, <3>1, <3>3, <4>6, KeptRead
      <4> QED
        BY <2>5, <3>3, <3>4, <4>6, <4>7, <4>8
    <3> QED
      BY <3>7, <3>8
  <2> QED
    BY <2>7, <2>8
<1> QED
    BY <1>6, <1>7

(* What still waits for its end when the observer is closed is recorded so.  *)
LEMMA FlushStep ==
    ASSUME SessionInv, Flush
    PROVE  SessionInv'
<1> USE DEF SessionInv
<1>1. PICK stage \in {"leaving", "looking", "closing"} :
          session.stage \in Flushes /\ session' = [session EXCEPT !.stage = stage]
  <2> DEFINE stage == IF session.stage = "flush" THEN AfterCleanup ELSE "looking"
  <2>1. stage \in {"leaving", "looking", "closing"}
    BY DEF AfterCleanup
  <2>2. session.stage \in Flushes /\ session' = [session EXCEPT !.stage = stage]
    BY DEF Flush, Flushes
  <2> HIDE DEF stage
  <2> QED
    BY <2>1, <2>2
<1>2. /\ pending' = <<>>
      /\ ended' = [r \in Traffic |-> IF Contains(pending, r) THEN Append(ended[r], "incomplete") ELSE ended[r]]
      /\ UNCHANGED <<browser, heard, responses, finished, observable, owned, recorded, kept, total, late>>
    BY DEF Flush
<1>3. /\ session' \in Sessions /\ session'.provider = session.provider /\ session'.observing = session.observing
      /\ session'.warned = session.warned /\ session'.stage = stage
  <2>1. session \in Sessions
    BY DEF SessionTypes
  <2> QED
    BY <1>1, <2>1 DEF Sessions, Stages
<1>4. \A o \in Traffic : /\ ended'[o] \in OneEnding
                         /\ ended'[o] = IF InWait(o) THEN <<"incomplete">> ELSE ended[o]
  <2> SUFFICES ASSUME NEW o \in Traffic
               PROVE  /\ ended'[o] \in OneEnding
                      /\ ended'[o] = IF InWait(o) THEN <<"incomplete">> ELSE ended[o]
    OBVIOUS
  <2>1. ended[o] \in OneEnding /\ (InWait(o) => ended[o] = <<>>)
    BY DEF SessionTypes, PlaceInv, HasEnded
  <2>2. "incomplete" \in Endings
    BY DEF Endings
  <2> QED
    BY <1>2, <2>1, <2>2, EndsOnce DEF InWait
<1>5. \A o \in Traffic : /\ InQueue(o)' <=> InQueue(o)
                         /\ ~InBatch(o)' /\ ~InBatch(o) /\ ~InWait(o)'
                         /\ HasEnded(o)' <=> HasEnded(o) \/ InWait(o)
  <2>1. <<"incomplete">> # <<>>
    OBVIOUS
  <2> QED
    BY <1>1, <1>2, <1>3, <1>4, <2>1, EmptyHolds DEF InQueue, InBatch, InWait, HasEnded, Flushes
<1>6. SessionTypes'
  <2>1. ended' \in [Traffic -> OneEnding] /\ <<>> \in Seq(Traffic)
    BY <1>2, <1>4
  <2> QED
    BY <1>2, <1>3, <2>1 DEF SessionTypes
<1>7. PlaceInv' /\ OnceInv'
    BY <1>2, <1>3, <1>5, EmptyHolds DEF PlaceInv, OnceInv
<1>8. KeptInv'
    BY <1>2, <1>3, <1>5, KeptSame
<1>9. StreamedInv'
  <2>1. <<"incomplete">> # <<"streamed">>
    OBVIOUS
  <2> QED
    BY <1>2, <1>3, <1>4, <2>1, StreamedSame
<1>10. StageInv' /\ BudgetInv'
    BY <1>1, <1>2, <1>3 DEF StageInv, Closed, Provider, BudgetInv, BytesOf
<1> QED
    BY <1>6, <1>7, <1>8, <1>9, <1>10

LEMMA WaitsEnd ==
    ASSUME PageLoaded \/ ConsentGiven \/ PageReady \/ Observed \/ WindowEnds \/ Settled \/ Finally
    PROVE  \E stage \in {"goto", "consent", "ready", "observe", "settled", "finally"}, next \in Following :
               EndWait(stage, next)
BY DEF PageLoaded, ConsentGiven, PageReady, Observed, WindowEnds, Settled, Finally, Following

LEMMA SessionStep == SessionInv /\ [SessionNext]_sessionVars => SessionInv'
<1> SUFFICES ASSUME SessionInv, [SessionNext]_sessionVars PROVE SessionInv'
    OBVIOUS
<1>1. CASE \E r \in Traffic : OnResponse(r) \/ OnRequestFinished(r) \/ OnStreamingResponse(r)
    BY <1>1, OnResponseStep, OnRequestFinishedStep, OnStreamingResponseStep
<1>2. CASE DeadlinePasses \/ OpenRoute
    BY <1>2, DeadlinePassesStep, OpenRouteStep
<1>3. CASE PageLoaded \/ ConsentGiven \/ PageReady \/ Observed \/ WindowEnds \/ Settled \/ Finally
    BY <1>3, WaitsEnd, EndWaitStep
<1>4. CASE Return \/ DeadlineHolds \/ VisitFails \/ DrainEnds \/ CleanupFails \/ LeavingFails \/ JudgePage
    BY <1>4, MovingStep
<1>5. CASE DrainObserver \/ ResponsesDrained \/ CloseObserver \/ Flush \/ LeavePage
    BY <1>5, DrainObserverStep, ResponsesDrainedStep, CloseObserverStep, FlushStep, LeavePageStep
<1>6. CASE ProcessResponse \/ ObservationFails \/ ProcessFinished
    BY <1>6, ProcessResponseStep, ObservationFailsStep, ProcessFinishedStep
<1>7. CASE UNCHANGED sessionVars
  <2>1. /\ UNCHANGED <<browser, heard, responses, finished, observable, pending, owned, recorded, ended, kept, total>>
        /\ UNCHANGED <<session, late>>
    BY <1>7 DEF sessionVars
  <2>2. SessionTypes' /\ PlaceInv' /\ OnceInv'
    BY <2>1 DEF SessionInv, SessionTypes, PlaceInv, OnceInv, InQueue, InBatch, InWait, HasEnded
  <2>3. KeptInv' /\ StageInv'
    BY <2>1 DEF SessionInv, KeptInv, InTurn, InBatch, InWait, HasEnded, Grpc, Provider, StageInv, Closed
  <2>4. StreamedInv' /\ BudgetInv'
    BY <2>1 DEF SessionInv, StreamedInv, BudgetInv, BytesOf
  <2> QED
    BY <2>2, <2>3, <2>4 DEF SessionInv
<1> QED
    BY <1>1, <1>2, <1>3, <1>4, <1>5, <1>6, <1>7 DEF SessionNext

(* playwright_runtime.py retains no body twice whose response the observer's  *)
(* session reported before the page's and in one visit, and no sequence of    *)
(* reads, failures and callbacks takes the bodies of the finite readers past   *)
(* the budget of the cycle, for every traffic and every limit.                *)
THEOREM BodiesStayRetained == SessionSpec => []BodiesRetained
<1>1. SessionInv => BodiesRetained
  <2> SUFFICES ASSUME SessionInv PROVE BodiesRetained
    OBVIOUS
  <2>1. RetainedOnce
    <3> SUFFICES ASSUME NEW r \in Traffic, heard[r] \notin {"late", "carried"}
                 PROVE  kept[r].finite = 0 \/ kept[r].stream = 0
      BY DEF RetainedOnce
    <3>1. kept[r].stream \in 0..1
      BY DEF SessionInv, SessionTypes
    <3>2. kept[r].stream > 0 => kept[r].finite = 0
      BY DEF SessionInv, KeptInv, InTurn
    <3> QED
      BY <3>1, <3>2
  <2>2. FiniteWithinBudget
    BY DEF SessionInv, BudgetInv, FiniteWithinBudget
  <2> QED
    BY <2>1, <2>2 DEF BodiesRetained
<1> QED
    BY <1>1, SessionStarts, SessionStep, PTL DEF SessionSpec

(* Every response the page reported is, at every moment, in exactly one place *)
(* of the queues of playwright_runtime.py or has ended, once; and a result    *)
(* without a warning leaves none waiting and none to a stream without outcome. *)
THEOREM ResponsesStayAccounted == SessionSpec => []EveryResponseAccounted
<1>1. SessionInv => PlacedOnce
  <2> SUFFICES ASSUME SessionInv PROVE PlacedOnce
    OBVIOUS
  <2>1. ASSUME NEW r \in Traffic
        PROVE  /\ Len(ended[r]) <= 1
               /\ IF browser[r] = "none" THEN \A i \in 1..4 : ~Places(r)[i]
                  ELSE \E i \in 1..4 : \A j \in 1..4 : Places(r)[j] = (i = j)
    <3>1. Len(ended[r]) <= 1
      <4>1. ended[r] \in OneEnding
        BY DEF SessionInv, SessionTypes
      <4>2. \A how \in Endings : Len(<<how>>) = 1
        BY EndsOnce
      <4>3. Len(<<>>) = 0
        OBVIOUS
      <4>4. CASE ended[r] = <<>>
        <5>1. Len(ended[r]) = 0
          BY <4>3, <4>4
        <5> QED
          BY <5>1
      <4>5. CASE ended[r] # <<>>
        <5>1. PICK how \in Endings : ended[r] = <<how>>
          BY <4>1, <4>5 DEF OneEnding
        <5>2. Len(ended[r]) = 1
          BY <4>2, <5>1
        <5> QED
          BY <5>2
      <4> QED
        BY <4>4, <4>5
    <3>2. /\ browser[r] # "none" <=> InQueue(r) \/ InBatch(r) \/ InWait(r) \/ HasEnded(r)
          /\ InQueue(r) => ~InBatch(r) /\ ~InWait(r) /\ ~HasEnded(r)
          /\ InBatch(r) => ~InWait(r) /\ ~HasEnded(r)
          /\ InWait(r) => ~HasEnded(r)
      BY DEF SessionInv, PlaceInv
    <3>3. Places(r) = <<InQueue(r), InBatch(r), InWait(r), HasEnded(r)>>
      BY DEF Places, InQueue, InBatch, InWait, HasEnded
    <3>4. /\ Places(r)[1] = InQueue(r) /\ Places(r)[2] = InBatch(r)
          /\ Places(r)[3] = InWait(r) /\ Places(r)[4] = HasEnded(r)
      BY <3>3
    <3>5. 1..4 = {1, 2, 3, 4}
      OBVIOUS
    <3>6. browser[r] = "none" => \A i \in 1..4 : ~Places(r)[i]
      BY <3>2, <3>4, <3>5
    <3>7. browser[r] # "none" => \E i \in 1..4 : \A j \in 1..4 : Places(r)[j] = (i = j)
      <4> SUFFICES ASSUME browser[r] # "none" PROVE \E i \in 1..4 : \A j \in 1..4 : Places(r)[j] = (i = j)
        OBVIOUS
      <4> DEFINE Only(i) == \A j \in {1, 2, 3, 4} : Places(r)[j] = (i = j)
      <4>1. CASE InQueue(r)
        <5>1. Places(r)[1] = TRUE /\ Places(r)[2] = FALSE /\ Places(r)[3] = FALSE /\ Places(r)[4] = FALSE
          BY <3>2, <3>4, <4>1 DEF InQueue, InBatch, InWait, HasEnded, Contains
        <5>2. Only(1)
          BY <5>1
        <5> QED
          BY <3>5, <5>2
      <4>2. CASE InBatch(r)
        <5>1. Places(r)[1] = FALSE /\ Places(r)[2] = TRUE /\ Places(r)[3] = FALSE /\ Places(r)[4] = FALSE
          BY <3>2, <3>4, <4>2 DEF InQueue, InBatch, InWait, HasEnded, Contains
        <5>2. Only(2)
          BY <5>1
        <5> QED
          BY <3>5, <5>2
      <4>3. CASE InWait(r)
        <5>1. Places(r)[1] = FALSE /\ Places(r)[2] = FALSE /\ Places(r)[3] = TRUE /\ Places(r)[4] = FALSE
          BY <3>2, <3>4, <4>3 DEF InQueue, InBatch, InWait, HasEnded, Contains
        <5>2. Only(3)
          BY <5>1
        <5> QED
          BY <3>5, <5>2
      <4>4. CASE HasEnded(r)
        <5>1. Places(r)[1] = FALSE /\ Places(r)[2] = FALSE /\ Places(r)[3] = FALSE /\ Places(r)[4] = TRUE
          BY <3>2, <3>4, <4>4 DEF InQueue, InBatch, InWait, HasEnded, Contains
        <5>2. Only(4)
          BY <5>1
        <5> QED
          BY <3>5, <5>2
      <4> QED
        BY <3>2, <4>1, <4>2, <4>3, <4>4
    <3> QED
      BY <3>1, <3>6, <3>7
  <2> QED
    BY <2>1 DEF PlacedOnce, SessionInv, OnceInv
<1>2. SessionInv => ResultAccounts
  <2> SUFFICES ASSUME SessionInv, session.stage = "closing", ~session.warned
               PROVE  /\ pending = <<>>
                      /\ \A r \in Traffic : ended[r] = <<"streamed">> =>
                             \E o \in recorded : Describe[o].url = Describe[r].url
    BY DEF ResultAccounts
  <2>1. pending = <<>> /\ \A o \in Traffic : owned[o] # "no" => o \in recorded
    BY DEF SessionInv, StageInv, Closed
  <2> QED
    BY <2>1 DEF SessionInv, StreamedInv
<1> QED
    BY <1>1, <1>2, SessionStarts, SessionStep, PTL DEF SessionSpec, EveryResponseAccounted
-----------------------------------------------------------------------------
(* The inspection of scripts.                                                *)
ScriptsInv ==
    /\ scripts \in Seq(Scripts) /\ inspections \in Seq({s.id : s \in Scripts})
    /\ rejections \in Nat /\ seen \in Nat /\ chars \in Nat
    /\ ScriptsAccounted

LEMMA ScriptsStart == ScriptsInit => ScriptsInv
BY ScriptsAssumption DEF ScriptsInit, ScriptsInv, ScriptsAccounted

LEMMA ScriptsStep == ScriptsInv /\ [ScriptsNext]_scriptVars => ScriptsInv'
<1> SUFFICES ASSUME ScriptsInv, [ScriptsNext]_scriptVars PROVE ScriptsInv'
    OBVIOUS
<1> USE DEF ScriptsInv, ScriptsAccounted
<1>1. ASSUME NEW s \in Scripts, OnScriptParsed(s) PROVE ScriptsInv'
  <2>1. seen' = seen + 1 /\ UNCHANGED <<inspections, chars>>
    BY <1>1 DEF OnScriptParsed
  <2>2. CASE rejections' = rejections + 1 /\ UNCHANGED scripts
    BY <2>1, <2>2
  <2>3. CASE scripts' = Append(scripts, s) /\ UNCHANGED rejections
    <3>1. scripts' \in Seq(Scripts) /\ Len(scripts') = Len(scripts) + 1
      BY <2>3, AppendProperties
    <3> QED
      BY <2>1, <2>3, <3>1
  <2> QED
    BY <1>1, <2>2, <2>3 DEF OnScriptParsed
<1>2. CASE InspectNext
  <2>1. PICK s \in Scripts : s = Head(scripts)
    BY <1>2 DEF InspectNext
  <2>2. PICK source \in 0..MaximumChars + 1 :
            IF Inspectable(s) /\ SourceAccepted(s, source)
            THEN inspections' = Append(inspections, s.id) /\ chars' = chars + source /\ UNCHANGED rejections
            ELSE rejections' = rejections + 1 /\ UNCHANGED <<inspections, chars>>
    BY <1>2, <2>1 DEF InspectNext
  <2>3. scripts' \in Seq(Scripts) /\ Len(scripts') = Len(scripts) - 1 /\ seen' = seen
    BY <1>2 DEF InspectNext
  <2>4. CASE Inspectable(s) /\ SourceAccepted(s, source)
    <3>1. /\ source = s.length /\ source \in Nat /\ chars + source <= MaximumTotalChars
          /\ Len(inspections) < MaximumScripts
      BY <2>4, ScriptsAssumption DEF Inspectable, SourceAccepted
    <3>2. inspections' = Append(inspections, s.id) /\ chars' = chars + source /\ rejections' = rejections
      BY <2>2, <2>4
    <3>3. inspections' \in Seq({x.id : x \in Scripts}) /\ Len(inspections') = Len(inspections) + 1
      BY <3>2, AppendProperties
    <3>4. seen' = Len(inspections') + rejections' + Len(scripts')
      <4>1. Len(inspections) \in Nat /\ Len(scripts) \in Nat
        OBVIOUS
      <4> QED
        BY <2>3, <3>2, <3>3, <4>1
    <3>5. chars' \in Nat /\ chars' <= MaximumTotalChars
      BY <3>1, <3>2
    <3>6. Len(inspections') <= MaximumScripts
      BY <3>1, <3>3, ScriptsAssumption
    <3> QED
      BY <2>3, <3>2, <3>3, <3>4, <3>5, <3>6
  <2>5. CASE ~(Inspectable(s) /\ SourceAccepted(s, source))
    <3>1. rejections' = rejections + 1 /\ inspections' = inspections /\ chars' = chars
      BY <2>2, <2>5
    <3> QED
      BY <2>3, <3>1
  <2> QED
    BY <2>4, <2>5
<1>3. CASE WallTimePasses
    BY <1>3 DEF WallTimePasses
<1>4. CASE CloseInspector
    BY <1>4 DEF CloseInspector
<1>5. CASE UNCHANGED scriptVars
    BY <1>5 DEF scriptVars
<1> QED
    BY <1>1, <1>2, <1>3, <1>4, <1>5 DEF ScriptsNext

(* Every script client_schema.py has seen is inspected, rejected or queued,   *)
(* and the sources it retains stay within the limits of the page.             *)
THEOREM ScriptsStayAccounted == ScriptsSpec => []ScriptsAccounted
<1>1. ScriptsInv => ScriptsAccounted
    BY DEF ScriptsInv
<1> QED
    BY <1>1, ScriptsStart, ScriptsStep, PTL DEF ScriptsSpec

(* The two passive observers, each with any behaviour of the browser: frames *)
(* are kept as they were sent and every script is accounted for.             *)
THEOREM ObservedPassively ==
    ASSUME TrailersLast, NoChunkRepeats
    PROVE  BrowserSpec => []PassivelyObserved
<1>1. FiniteRequests /\ ChunksOfBytes
    BY StreamsAssumption DEF FiniteRequests, ChunksOfBytes
<1>2. BrowserInit => StreamsInv /\ ScriptsInv
    BY <1>1, StreamsStart, ScriptsStart DEF BrowserInit
<1>3. [BrowserNext]_allVars => [StreamsNext]_streamVars /\ [ScriptsNext]_scriptVars
    BY DEF BrowserNext, allVars
<1>4. StreamsInv /\ [StreamsNext]_streamVars => StreamsInv'
    BY <1>1, StreamsStep
<1>5. ScriptsInv /\ [ScriptsNext]_scriptVars => ScriptsInv'
    BY ScriptsStep
<1>6. StreamsInv /\ ScriptsInv => PassivelyObserved
  <2>1. ScriptsInv => ScriptsAccounted
    BY DEF ScriptsInv
  <2>2. StreamsInv => RetainedAsSent
    BY <1>1, StreamsAreAsSent
  <2> QED
    BY <2>1, <2>2 DEF PassivelyObserved
<1> QED
    BY <1>2, <1>3, <1>4, <1>5, <1>6, PTL DEF BrowserSpec
=============================================================================
