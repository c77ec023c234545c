------------------------- MODULE MultiplexerProofs -------------------------
(* Theorems about Multiplexer: the multiplexers of a connection are         *)
(* channels, whatever the sizes of messages, buffers and pipes are.         *)
EXTENDS Multiplexer, SequenceTheorems, FiniteSetTheorems, TLAPS

-----------------------------------------------------------------------------
(* The k-th number of a finite set.                                         *)

(* A number of a set has a rank in it.                                      *)
LEMMA RankType ==
    ASSUME NEW P \in SUBSET Nat, IsFiniteSet(P), NEW i \in P
    PROVE  Rank(P, i) \in 1 .. Cardinality(P)
<1> DEFINE S == {j \in P : j <= i}
<1>1. IsFiniteSet(S) /\ Cardinality(S) <= Cardinality(P)
    BY FS_Subset
<1>2. Cardinality(S) \in Nat /\ Cardinality(P) \in Nat
    BY <1>1, FS_CardinalityType
<1>3. i \in S
    OBVIOUS
<1>4. Cardinality(S) # 0
    BY <1>1, <1>3, FS_EmptySet
<1> QED
    BY <1>1, <1>2, <1>4 DEF Rank

(* The greater of two numbers has the greater rank.                         *)
LEMMA RankGrows ==
    ASSUME NEW P \in SUBSET Nat, IsFiniteSet(P), NEW i \in P, NEW j \in P, i < j
    PROVE  Rank(P, i) < Rank(P, j)
<1> DEFINE S == {x \in P : x <= i}
           T == {x \in P : x <= j}
<1>1. S \in SUBSET T /\ j \in T /\ j \notin S
    <2>1. i \in Nat /\ j \in Nat /\ \A x \in P : x \in Nat
        OBVIOUS
    <2>2. \A x \in P : x <= i => x <= j
        BY <2>1
    <2>3. S \subseteq T
        BY <2>2
    <2>4. j \in T
        BY <2>1
    <2>5. j \notin S
        BY <2>1
    <2> QED
        BY <2>3, <2>4, <2>5
<1>2. IsFiniteSet(T)
    BY FS_Subset
<1>3. IsFiniteSet(S) /\ Cardinality(S) <= Cardinality(T) /\ Cardinality(S) # Cardinality(T)
    <2> HIDE DEF S, T
    <2> QED
        BY <1>1, <1>2, FS_Subset
<1>4. Cardinality(S) \in Nat /\ Cardinality(T) \in Nat
    BY <1>2, <1>3, FS_CardinalityType
<1> QED
    BY <1>3, <1>4 DEF Rank

(* Every rank up to the size of the set is that of one of its numbers.      *)
LEMMA KthFacts ==
    ASSUME NEW P \in SUBSET Nat, IsFiniteSet(P), NEW k \in 1 .. Cardinality(P)
    PROVE  Kth(P, k) \in P /\ Rank(P, Kth(P, k)) = k
<1> DEFINE n == Cardinality(P)
           f == [i \in P |-> Rank(P, i)]
<1>0. n \in Nat
    BY FS_CardinalityType
<1>1. f \in [P -> 1 .. n]
    BY RankType
<1>2. ASSUME NEW i \in P, NEW j \in P, f[i] = f[j] PROVE i = j
    <2>1. Rank(P, i) \in Nat /\ Rank(P, j) \in Nat /\ Rank(P, i) = Rank(P, j)
        BY <1>0, <1>2, RankType
    <2>2. ~(i < j) /\ ~(j < i)
        BY <2>1, RankGrows
    <2> QED
        BY <2>2
<1>3. f \in Injection(P, 1 .. n)
    <2> HIDE DEF f, n
    <2> QED
        BY <1>1, <1>2 DEF Injection, IsInjective
<1>4. IsFiniteSet(1 .. n) /\ Cardinality(1 .. n) = n
    <2> HIDE DEF n
    <2> QED
        BY <1>0, FS_Interval
<1>5. f \in Surjection(P, 1 .. n)
    <2> HIDE DEF f
    <2> QED
        BY <1>3, <1>4, FS_Injection
<1>6. \E i \in P : Rank(P, i) = k
    <2>1. PICK i \in P : f[i] = k
        <3> HIDE DEF f
        <3> QED
            BY <1>5 DEF Surjection
    <2> QED
        BY <2>1
<1> QED
    BY <1>6, Zenon DEF Kth

(* There is only one.                                                       *)
LEMMA KthIs ==
    ASSUME NEW P \in SUBSET Nat, IsFiniteSet(P), NEW i \in P, NEW k, Rank(P, i) = k
    PROVE  Kth(P, k) = i
<1> DEFINE j == Kth(P, k)
<1>1. k \in 1 .. Cardinality(P)
    BY RankType
<1>2. j \in P /\ Rank(P, j) = k
    BY <1>1, KthFacts
<1>3. Cardinality(P) \in Nat
    BY FS_CardinalityType
<1> HIDE DEF j
<1>4. ~(i < j) /\ ~(j < i)
    BY <1>1, <1>2, <1>3, RankGrows
<1>5. j = i
    BY <1>2, <1>4
<1> QED
    BY <1>5 DEF j

(* A number greater than all others comes last.                             *)
LEMMA KthAdd ==
    ASSUME NEW P \in SUBSET Nat, IsFiniteSet(P), NEW m \in Nat, \A i \in P : i < m
    PROVE  /\ IsFiniteSet(P \cup {m}) /\ Cardinality(P \cup {m}) = Cardinality(P) + 1
           /\ \A k \in 1 .. Cardinality(P) : Kth(P \cup {m}, k) = Kth(P, k)
           /\ Kth(P \cup {m}, Cardinality(P) + 1) = m
<1> DEFINE Q == P \cup {m}
<1>1. Q \in SUBSET Nat /\ m \notin P
    OBVIOUS
<1>2. IsFiniteSet(Q) /\ Cardinality(Q) = Cardinality(P) + 1 /\ Cardinality(P) \in Nat
    BY <1>1, FS_AddElement, FS_CardinalityType
<1>3. ASSUME NEW i \in P PROVE Rank(Q, i) = Rank(P, i)
    <2>1. {j \in Q : j <= i} = {j \in P : j <= i}
        OBVIOUS
    <2> QED
        BY <2>1 DEF Rank
<1>4. Rank(Q, m) = Cardinality(Q)
    <2>0. \A j \in Q : j <= m
        OBVIOUS
    <2>1. {j \in Q : j <= m} = Q
        BY <2>0
    <2> QED
        BY <2>1 DEF Rank
<1> HIDE DEF Q
<1>5. ASSUME NEW k \in 1 .. Cardinality(P) PROVE Kth(Q, k) = Kth(P, k)
    <2>1. Kth(P, k) \in P /\ Rank(P, Kth(P, k)) = k
        BY KthFacts
    <2>2. Kth(P, k) \in Q /\ Rank(Q, Kth(P, k)) = k
        BY <1>3, <2>1 DEF Q
    <2> QED
        BY <1>1, <1>2, <2>2, KthIs
<1>6. Kth(Q, Cardinality(P) + 1) = m
    BY <1>1, <1>2, <1>4, KthIs DEF Q
<1> QED
    BY <1>2, <1>5, <1>6 DEF Q

(* Counting does not depend on where one begins.                            *)
LEMMA ShiftedCount ==
    ASSUME NEW R \in SUBSET Nat, IsFiniteSet(R), NEW c \in Nat, NEW T,
           \A r \in R : r + c \in T, \A t \in T : \E r \in R : t = r + c
    PROVE  IsFiniteSet(T) /\ Cardinality(T) = Cardinality(R)
<1> DEFINE f == [r \in R |-> r + c]
<1>1. f \in [R -> T] /\ \A r \in R : f[r] = r + c
    OBVIOUS
<1>2. \A t \in T : \E r \in R : f[r] = t
    OBVIOUS
<1>3. \A x, y \in R : f[x] = f[y] => x = y
    OBVIOUS
<1> HIDE DEF f
<1>4. f \in Injection(R, T) /\ f \in Surjection(R, T)
    BY <1>1, <1>2, <1>3 DEF Injection, IsInjective, Surjection
<1>5. ExistsBijection(R, T)
    BY <1>4 DEF ExistsBijection, Bijection
<1> QED
    BY <1>5, FS_Bijection

(* The numbers of P up to c, and those beyond, counted from there.          *)
SplitAt(P, c, low, Q) ==
    /\ \A i : i \in low <=> i \in P /\ i <= c
    /\ \A i : i \in Q <=> i \in Nat \ {0} /\ i + c \in P

(* The numbers of P beyond c, counted from c.                               *)
LEMMA KthShift ==
    ASSUME NEW P \in SUBSET (Nat \ {0}), IsFiniteSet(P), NEW c \in Nat, NEW Q, NEW low,
           SplitAt(P, c, low, Q)
    PROVE  /\ IsFiniteSet(Q) /\ IsFiniteSet(low) /\ Cardinality(P) = Cardinality(low) + Cardinality(Q)
           /\ \A k \in 1 .. Cardinality(Q) : Kth(P, Cardinality(low) + k) = Kth(Q, k) + c
<1> DEFINE high == P \ low
<1>a. /\ \A i \in low : i \in P /\ i <= c
      /\ \A i \in P : i \in Nat \ {0} /\ (i \in low <=> i <= c)
      /\ \A q \in Q : q \in Nat \ {0} /\ q + c \in P
      /\ \A q \in Nat \ {0} : q + c \in P => q \in Q
    BY DEF SplitAt
<1>0. IsFiniteSet(low) /\ IsFiniteSet(high) /\ low \cap high = {} /\ P = low \cup high
    <2>1. low \in SUBSET P /\ high \in SUBSET P
        BY <1>a
    <2>2. IsFiniteSet(low) /\ IsFiniteSet(high)
        BY <2>1, FS_Subset
    <2> QED
        BY <2>1, <2>2
<1>1. IsFiniteSet(Q) /\ Cardinality(high) = Cardinality(Q)
    <2> DEFINE f == [i \in high |-> i - c]
    <2>0. \A i \in high : i - c \in Q /\ i \in Nat
        <3> SUFFICES ASSUME NEW i \in high PROVE i - c \in Q /\ i \in Nat
            OBVIOUS
        <3>1. i \in P /\ i \in Nat /\ ~(i <= c)
            BY <1>a
        <3>2. i - c \in Nat \ {0} /\ (i - c) + c = i
            BY <3>1
        <3> QED
            BY <1>a, <3>1, <3>2
    <2>1. f \in [high -> Q] /\ \A i \in high : f[i] = i - c
        BY <2>0
    <2>2. \A q \in Q : q + c \in high /\ f[q + c] = q
        <3> SUFFICES ASSUME NEW q \in Q PROVE q + c \in high /\ f[q + c] = q
            OBVIOUS
        <3>1. q \in Nat \ {0} /\ q + c \in P /\ ~(q + c <= c) /\ (q + c) - c = q
            BY <1>a
        <3>2. q + c \in high
            BY <1>a, <3>1
        <3> QED
            BY <2>1, <3>1, <3>2
    <2>3. \A x, y \in high : f[x] = f[y] => x = y
        BY <2>0, <2>1
    <2> HIDE DEF f, high
    <2>4. f \in Injection(high, Q) /\ f \in Surjection(high, Q)
        BY <2>1, <2>2, <2>3 DEF Injection, IsInjective, Surjection
    <2>5. ExistsBijection(high, Q)
        BY <2>4 DEF ExistsBijection, Bijection
    <2> QED
        BY <1>0, <2>5, FS_Bijection
<1>2. Cardinality(P) = Cardinality(low) + Cardinality(Q)
    <2>1. Cardinality(low \cup high) = Cardinality(low) + Cardinality(high) - Cardinality(low \cap high)
        <3> HIDE DEF high
        <3> QED
            BY <1>0, FS_Union
    <2>2. Cardinality(low) \in Nat /\ Cardinality(high) \in Nat
        BY <1>0, FS_CardinalityType
    <2> HIDE DEF high
    <2>3. Cardinality(low \cap high) = 0
        BY <1>0, FS_EmptySet
    <2>4. Cardinality(P) = Cardinality(low \cup high)
        BY <1>0
    <2> QED
        BY <1>1, <2>1, <2>2, <2>3, <2>4
<1>3. ASSUME NEW q \in Q PROVE Rank(P, q + c) = Cardinality(low) + Rank(Q, q)
    <2> DEFINE R == {j \in Q : j <= q}
               T == {r + c : r \in R}
    <2>0. q \in Nat /\ \A r \in R : r \in Nat /\ r <= q /\ r # 0 /\ r + c \in P
        BY <1>a
    <2>1. R \in SUBSET Nat /\ IsFiniteSet(R)
        BY <1>1, <2>0, FS_Subset
    <2>2. IsFiniteSet(T) /\ Cardinality(T) = Cardinality(R)
        <3>1. /\ \A r \in R : r + c \in T
              /\ \A t \in T : \E r \in R : t = r + c
            OBVIOUS
        <3> HIDE DEF R, T
        <3> QED
            BY <2>1, <3>1, ShiftedCount
    <2>3. {j \in P : j <= q + c} = low \cup T
        <3>1. ASSUME NEW j \in P, j <= q + c, j \notin low PROVE j \in T
            <4>1. j \in Nat /\ ~(j <= c)
                BY <1>a, <3>1
            <4>2. j - c \in Nat \ {0} /\ j - c <= q /\ j = (j - c) + c
                BY <2>0, <3>1, <4>1
            <4>3. j - c \in R
                BY <1>a, <4>2
            <4> QED
                BY <4>2, <4>3
        <3>2. ASSUME NEW j \in T PROVE j \in P /\ j <= q + c
            BY <2>0
        <3>3. ASSUME NEW j \in low PROVE j \in P /\ j <= q + c
            <4>1. j \in P /\ j \in Nat /\ j <= c
                BY <1>a
            <4> QED
                BY <2>0, <4>1
        <3> HIDE DEF T
        <3> QED
            BY <3>1, <3>2, <3>3
    <2>4. low \cap T = {}
        <3> SUFFICES ASSUME NEW r \in R, r + c \in low PROVE FALSE
            OBVIOUS
        <3>1. r + c <= c
            BY <1>a
        <3> QED
            BY <2>0, <3>1
    <2>5. Cardinality(low) \in Nat /\ Cardinality(T) \in Nat
        BY <1>0, <2>2, FS_CardinalityType
    <2>6. Cardinality(low \cup T) = Cardinality(low) + Cardinality(T)
        <3> HIDE DEF T
        <3>1. Cardinality(low \cup T) = Cardinality(low) + Cardinality(T) - Cardinality(low \cap T)
            BY <1>0, <2>2, FS_Union
        <3>2. Cardinality(low \cap T) = 0
            BY <2>4, FS_EmptySet
        <3> QED
            BY <2>5, <3>1, <3>2
    <2> HIDE DEF T
    <2> QED
        BY <2>2, <2>3, <2>6 DEF Rank
<1>4. ASSUME NEW k \in 1 .. Cardinality(Q) PROVE Kth(P, Cardinality(low) + k) = Kth(Q, k) + c
    <2>1. Q \in SUBSET Nat /\ P \in SUBSET Nat
        BY <1>a
    <2>2. Kth(Q, k) \in Q /\ Rank(Q, Kth(Q, k)) = k
        BY <1>1, <2>1, KthFacts
    <2>3. Kth(Q, k) + c \in P /\ Rank(P, Kth(Q, k) + c) = Cardinality(low) + k
        BY <1>a, <1>3, <2>2
    <2> QED
        BY <2>1, <2>3, KthIs
<1> QED
    BY <1>0, <1>1, <1>2, <1>4

-----------------------------------------------------------------------------
(* Units and frames.                                                        *)

Unit == ({"stream"} \X Stream) \cup ({"length"} \X Nat) \cup ({"body"} \X Numbers)
AllSizes == UNION {Sizes[e] : e \in End}

(* The units from i on are the header and the body of a message; what       *)
(* follows is another frame.                                                *)
FrameIs(u, i, l, n) ==
    /\ i + 1 + l <= Len(u)
    /\ u[i + 1] = <<"length", l>>
    /\ \A j \in 1 .. l : u[i + 1 + j] = <<"body", n>>
    /\ i + 1 + l < Len(u) => u[i + 2 + l][1] = "stream"

(* A sequence of frames, none of which is cut.                              *)
Framed(u) ==
    /\ u # <<>> => u[1][1] = "stream"
    /\ \A i \in DOMAIN u : u[i][1] = "stream" =>
        \E l \in AllSizes, n \in Numbers : FrameIs(u, i, l, n)

(* Messages have a size, and one at least.                                  *)
LEMMA SizesFacts ==
    AllSizes \subseteq Nat \ {0} /\ Numbers \subseteq Nat \ {0} /\ MaxExchanges \in Nat
    BY MultiplexerAssumption DEF AllSizes, Numbers

(* The units of a message.                                                  *)
LEMMA BodyFacts ==
    ASSUME NEW n \in Numbers, NEW l \in AllSizes
    PROVE  /\ BodyOf(n, l) \in Message /\ BodyOf(n, l) \in Seq(Unit)
           /\ Len(BodyOf(n, l)) = l
           /\ \A i \in 1 .. l : BodyOf(n, l)[i] = <<"body", n>>
           /\ NumberOf(BodyOf(n, l)) = n
<1> DEFINE m == BodyOf(n, l)
<1>1. l \in Nat \ {0}
    BY SizesFacts
<1>2. <<"body", n>> \in Unit
    BY DEF Unit
<1>3. m \in [1 .. l -> Unit]
    BY <1>2 DEF BodyOf
<1>4. m \in Seq(Unit)
    <2> HIDE DEF m
    <2> QED
        BY <1>1, <1>3, SeqDef
<1>5. Len(m) = l
    <2>1. DOMAIN m = 1 .. l
        BY DEF BodyOf
    <2>2. DOMAIN m = 1 .. Len(m) /\ Len(m) \in Nat
        <3> HIDE DEF m
        <3> QED
            BY <1>4, LenProperties
    <2> HIDE DEF m
    <2> QED
        BY <1>1, <2>1, <2>2
<1>6. \A i \in 1 .. l : m[i] = <<"body", n>>
    BY DEF BodyOf
<1>7. NumberOf(m) = n
    BY <1>1, <1>6 DEF NumberOf
<1>8. m \in Message
    BY DEF Message, AllSizes
<1> QED
    BY <1>4, <1>5, <1>6, <1>7, <1>8

(* Every message is one of these.                                           *)
LEMMA MessageFacts ==
    ASSUME NEW m \in Message
    PROVE  /\ m = BodyOf(NumberOf(m), Len(m))
           /\ m \in Seq(Unit) /\ Len(m) \in AllSizes /\ NumberOf(m) \in Numbers
           /\ \A i \in 1 .. Len(m) : m[i] = <<"body", NumberOf(m)>>
<1>1. PICK n \in Numbers, l \in AllSizes : m = BodyOf(n, l)
    BY DEF Message, AllSizes
<1> QED
    BY <1>1, BodyFacts

(* The units of a frame.                                                    *)
LEMMA FrameFacts ==
    ASSUME NEW s \in Stream, NEW m \in Message
    PROVE  /\ Frame(s, m) \in Seq(Unit) /\ Len(Frame(s, m)) = Len(m) + 2
           /\ Frame(s, m)[1] = <<"stream", s>> /\ Frame(s, m)[2] = <<"length", Len(m)>>
           /\ \A j \in 1 .. Len(m) : Frame(s, m)[2 + j] = <<"body", NumberOf(m)>>
<1> DEFINE h == Header(s, Len(m))
<1>1. m \in Seq(Unit) /\ Len(m) \in Nat
    BY MessageFacts, SizesFacts
<1>2. <<"stream", s>> \in Unit /\ <<"length", Len(m)>> \in Unit
    BY <1>1 DEF Unit
<1>3. h \in Seq(Unit) /\ Len(h) = 2 /\ h[1] = <<"stream", s>> /\ h[2] = <<"length", Len(m)>>
    BY <1>2 DEF Header
<1>4. /\ h \o m \in Seq(Unit) /\ Len(h \o m) = 2 + Len(m)
      /\ \A i \in 1 .. 2 + Len(m) : (h \o m)[i] = IF i <= 2 THEN h[i] ELSE m[i - 2]
    <2> HIDE DEF h
    <2>1. /\ h \o m \in Seq(Unit) /\ Len(h \o m) = Len(h) + Len(m)
          /\ \A i \in 1 .. Len(h) + Len(m) : (h \o m)[i] = IF i <= Len(h) THEN h[i] ELSE m[i - Len(h)]
        BY <1>1, <1>3, ConcatProperties
    <2>2. Len(h) = 2
        BY <1>3
    <2> QED
        BY <2>1, <2>2
<1>5. ASSUME NEW j \in 1 .. Len(m) PROVE (h \o m)[2 + j] = <<"body", NumberOf(m)>>
    <2>1. 2 + j \in 1 .. 2 + Len(m) /\ ~(2 + j <= 2) /\ (2 + j) - 2 = j
        BY <1>1
    <2>2. (h \o m)[2 + j] = m[j]
        <3> HIDE DEF h
        <3> QED
            BY <1>4, <2>1
    <2> QED
        BY <2>2, MessageFacts
<1>6. (h \o m)[1] = h[1] /\ (h \o m)[2] = h[2]
    <2> HIDE DEF h
    <2> QED
        BY <1>1, <1>4
<1> DEFINE f == h \o m
<1>7. f \in Seq(Unit) /\ Len(f) = Len(m) + 2
    <2> HIDE DEF h
    <2> QED
        BY <1>1, <1>4
<1>8. f[1] = <<"stream", s>> /\ f[2] = <<"length", Len(m)>>
    <2> HIDE DEF h
    <2> QED
        BY <1>3, <1>6
<1>9. Frame(s, m) = f
    BY DEF Frame
<1> HIDE DEF f
<1> QED
    BY <1>5, <1>7, <1>8, <1>9 DEF f

(* What a frame adds to the units before it, and where those after it are.  *)
Appended(u, s, m, w) ==
    /\ w \in Seq(Unit) /\ Len(w) = Len(u) + 2 + Len(m) /\ Len(u) \in Nat
    /\ Len(m) \in AllSizes /\ Len(m) \in Nat \ {0} /\ NumberOf(m) \in Numbers
    /\ \A i \in 1 .. Len(u) : w[i] = u[i]
    /\ w[Len(u) + 1] = <<"stream", s>> /\ w[Len(u) + 2] = <<"length", Len(m)>>
    /\ \A j \in 1 .. Len(m) : w[Len(u) + 2 + j] = <<"body", NumberOf(m)>>
Prepended(v, s, m, u) ==
    /\ u \in Seq(Unit) /\ Len(u) = Len(v) + 2 + Len(m) /\ Len(v) \in Nat
    /\ Len(m) \in AllSizes /\ Len(m) \in Nat \ {0} /\ NumberOf(m) \in Numbers
    /\ \A i \in 1 .. Len(v) : u[i + 2 + Len(m)] = v[i]
    /\ u[1] = <<"stream", s>> /\ u[2] = <<"length", Len(m)>>
    /\ \A j \in 1 .. Len(m) : u[2 + j] = <<"body", NumberOf(m)>>

(* The frame last.                                                          *)
LEMMA AppendedUnits ==
    ASSUME NEW u \in Seq(Unit), NEW s \in Stream, NEW m \in Message, NEW w, w = u \o Frame(s, m)
    PROVE  Appended(u, s, m, w)
<1> DEFINE f == Frame(s, m)
<1>1. /\ f \in Seq(Unit) /\ Len(f) = Len(m) + 2
      /\ f[1] = <<"stream", s>> /\ f[2] = <<"length", Len(m)>>
      /\ \A j \in 1 .. Len(m) : f[2 + j] = <<"body", NumberOf(m)>>
    BY FrameFacts
<1>2. /\ Len(m) \in AllSizes /\ Len(m) \in Nat \ {0} /\ NumberOf(m) \in Numbers
      /\ Len(u) \in Nat
    BY MessageFacts, SizesFacts
<1> HIDE DEF f
<1>3. /\ w \in Seq(Unit) /\ Len(w) = Len(u) + Len(f)
      /\ \A i \in 1 .. Len(u) + Len(f) : w[i] = IF i <= Len(u) THEN u[i] ELSE f[i - Len(u)]
    BY <1>1, ConcatProperties DEF f
<1>4. ASSUME NEW k \in 1 .. Len(f) PROVE w[Len(u) + k] = f[k]
    <2>1. Len(u) + k \in 1 .. Len(u) + Len(f) /\ ~(Len(u) + k <= Len(u)) /\ (Len(u) + k) - Len(u) = k
        BY <1>1, <1>2
    <2> QED
        BY <1>3, <2>1
<1>5. ASSUME NEW i \in 1 .. Len(u) PROVE w[i] = u[i]
    BY <1>1, <1>2, <1>3
<1>6. w[Len(u) + 1] = f[1] /\ w[Len(u) + 2] = f[2]
    <2>1. 1 \in 1 .. Len(f) /\ 2 \in 1 .. Len(f)
        BY <1>1, <1>2
    <2> QED
        BY <1>4, <2>1
<1>7. ASSUME NEW j \in 1 .. Len(m) PROVE w[Len(u) + 2 + j] = f[2 + j]
    <2>1. 2 + j \in 1 .. Len(f) /\ Len(u) + (2 + j) = Len(u) + 2 + j
        BY <1>1, <1>2
    <2> QED
        BY <1>4, <2>1
<1>8. Len(w) = Len(u) + 2 + Len(m)
    BY <1>1, <1>2, <1>3
<1>9. /\ w[Len(u) + 1] = <<"stream", s>> /\ w[Len(u) + 2] = <<"length", Len(m)>>
      /\ \A j \in 1 .. Len(m) : w[Len(u) + 2 + j] = <<"body", NumberOf(m)>>
    BY <1>1, <1>6, <1>7
<1> QED
    BY <1>2, <1>3, <1>5, <1>8, <1>9 DEF Appended

(* The frame first.                                                         *)
LEMMA PrependedUnits ==
    ASSUME NEW v \in Seq(Unit), NEW s \in Stream, NEW m \in Message, NEW u, u = Frame(s, m) \o v
    PROVE  Prepended(v, s, m, u)
<1> DEFINE f == Frame(s, m)
<1>1. /\ f \in Seq(Unit) /\ Len(f) = Len(m) + 2
      /\ f[1] = <<"stream", s>> /\ f[2] = <<"length", Len(m)>>
      /\ \A j \in 1 .. Len(m) : f[2 + j] = <<"body", NumberOf(m)>>
    BY FrameFacts
<1>2. /\ Len(m) \in AllSizes /\ Len(m) \in Nat \ {0} /\ NumberOf(m) \in Numbers
      /\ Len(v) \in Nat
    BY MessageFacts, SizesFacts
<1> HIDE DEF f
<1>3. /\ u \in Seq(Unit) /\ Len(u) = Len(f) + Len(v)
      /\ \A i \in 1 .. Len(f) + Len(v) : u[i] = IF i <= Len(f) THEN f[i] ELSE v[i - Len(f)]
    BY <1>1, ConcatProperties DEF f
<1>4. ASSUME NEW k \in 1 .. Len(f) PROVE u[k] = f[k]
    BY <1>1, <1>2, <1>3
<1>5. ASSUME NEW i \in 1 .. Len(v) PROVE u[i + 2 + Len(m)] = v[i]
    <2>1. /\ i + 2 + Len(m) \in 1 .. Len(f) + Len(v) /\ ~(i + 2 + Len(m) <= Len(f))
          /\ (i + 2 + Len(m)) - Len(f) = i
        BY <1>1, <1>2
    <2> QED
        BY <1>3, <2>1
<1>6. u[1] = f[1] /\ u[2] = f[2]
    <2>1. 1 \in 1 .. Len(f) /\ 2 \in 1 .. Len(f)
        BY <1>1, <1>2
    <2> QED
        BY <1>4, <2>1
<1>7. ASSUME NEW j \in 1 .. Len(m) PROVE u[2 + j] = f[2 + j]
    <2>1. 2 + j \in 1 .. Len(f)
        BY <1>1, <1>2
    <2> QED
        BY <1>4, <2>1
<1>8. Len(u) = Len(v) + 2 + Len(m)
    BY <1>1, <1>2, <1>3
<1>9. /\ u[1] = <<"stream", s>> /\ u[2] = <<"length", Len(m)>>
      /\ \A j \in 1 .. Len(m) : u[2 + j] = <<"body", NumberOf(m)>>
    BY <1>1, <1>6, <1>7
<1> QED
    BY <1>2, <1>3, <1>5, <1>8, <1>9 DEF Prepended

(* A frame stays one when units follow the last.                            *)
LEMMA FrameKept ==
    ASSUME NEW u \in Seq(Unit), NEW s \in Stream, NEW m \in Message, NEW w, Appended(u, s, m, w),
           NEW i \in 1 .. Len(u), NEW l \in Nat, NEW n, FrameIs(u, i, l, n)
    PROVE  FrameIs(w, i, l, n)
<1>1. /\ Len(u) \in Nat /\ Len(w) = Len(u) + 2 + Len(m) /\ Len(m) \in Nat
      /\ \A k \in 1 .. Len(u) : w[k] = u[k]
      /\ w[Len(u) + 1] = <<"stream", s>>
    BY DEF Appended
<1>i. i \in Nat /\ Len(u) \in Nat
    BY <1>1
<1>2. i + 1 + l <= Len(w) /\ w[i + 1] = <<"length", l>>
    <2>0. i + 1 + l <= Len(u) /\ u[i + 1] = <<"length", l>>
        BY DEF FrameIs
    <2>1. i + 1 \in 1 .. Len(u)
        BY <1>i, <2>0
    <2>2. w[i + 1] = u[i + 1]
        BY <1>1, <2>1
    <2>3. i + 1 + l <= Len(w)
        BY <1>1, <1>i, <2>0
    <2> QED
        BY <2>0, <2>2, <2>3
<1>3. ASSUME NEW j \in 1 .. l PROVE w[i + 1 + j] = <<"body", n>>
    <2>1. i + 1 + j \in 1 .. Len(u)
        BY <1>1 DEF FrameIs
    <2> QED
        BY <1>1, <2>1 DEF FrameIs
<1>4. w[i + 2 + l][1] = "stream"
    <2>1. CASE i + 1 + l = Len(u)
        <3>1. i + 2 + l = Len(u) + 1
            BY <1>i, <2>1
        <3>2. <<"stream", s>>[1] = "stream"
            OBVIOUS
        <3> QED
            BY <1>1, <3>1, <3>2
    <2>2. CASE i + 1 + l < Len(u)
        <3>1. i + 2 + l \in 1 .. Len(u)
            BY <1>1, <2>2
        <3>2. u[i + 2 + l][1] = "stream"
            BY <2>2 DEF FrameIs
        <3> QED
            BY <1>1, <3>1, <3>2
    <2> QED
        BY <1>1, <2>1, <2>2 DEF FrameIs
<1> QED
    BY <1>2, <1>3, <1>4 DEF FrameIs

(* A frame behind another is found where that ends.                         *)
LEMMA FrameMoved ==
    ASSUME NEW v \in Seq(Unit), NEW s \in Stream, NEW m \in Message, NEW u, Prepended(v, s, m, u),
           NEW i \in 1 .. Len(v), NEW l \in Nat, NEW n, FrameIs(u, i + 2 + Len(m), l, n)
    PROVE  FrameIs(v, i, l, n)
<1>1. /\ Len(v) \in Nat /\ Len(u) = Len(v) + 2 + Len(m) /\ Len(m) \in Nat
      /\ \A k \in 1 .. Len(v) : u[k + 2 + Len(m)] = v[k]
    BY DEF Prepended
<1>2. i + 1 + l <= Len(v)
    BY <1>1 DEF FrameIs
<1>3. v[i + 1] = <<"length", l>>
    <2>1. i + 1 \in 1 .. Len(v) /\ (i + 1) + 2 + Len(m) = (i + 2 + Len(m)) + 1
        BY <1>1, <1>2
    <2> QED
        BY <1>1, <2>1 DEF FrameIs
<1>4. ASSUME NEW j \in 1 .. l PROVE v[i + 1 + j] = <<"body", n>>
    <2>1. i + 1 + j \in 1 .. Len(v) /\ (i + 1 + j) + 2 + Len(m) = (i + 2 + Len(m)) + 1 + j
        BY <1>1, <1>2
    <2> QED
        BY <1>1, <2>1 DEF FrameIs
<1>5. ASSUME i + 1 + l < Len(v) PROVE v[i + 2 + l][1] = "stream"
    <2>1. i + 2 + l \in 1 .. Len(v) /\ (i + 2 + l) + 2 + Len(m) = (i + 2 + Len(m)) + 2 + l
        BY <1>1, <1>5
    <2>2. (i + 2 + Len(m)) + 1 + l < Len(u)
        BY <1>1, <1>5
    <2> QED
        BY <1>1, <2>1, <2>2 DEF FrameIs
<1> QED
    BY <1>2, <1>3, <1>4, <1>5 DEF FrameIs

(* The multiplexer writes a whole frame after whole frames.                 *)
LEMMA FramedAppend ==
    ASSUME NEW u \in Seq(Unit), Framed(u), NEW s \in Stream, NEW m \in Message, NEW w, Appended(u, s, m, w)
    PROVE  Framed(w)
<1>1. /\ w \in Seq(Unit) /\ Len(u) \in Nat /\ Len(w) = Len(u) + 2 + Len(m) /\ Len(m) \in AllSizes
      /\ Len(m) \in Nat \ {0} /\ NumberOf(m) \in Numbers
      /\ \A k \in 1 .. Len(u) : w[k] = u[k]
      /\ w[Len(u) + 1] = <<"stream", s>> /\ w[Len(u) + 2] = <<"length", Len(m)>>
      /\ \A j \in 1 .. Len(m) : w[Len(u) + 2 + j] = <<"body", NumberOf(m)>>
    BY DEF Appended
<1>2. w[1][1] = "stream"
    <2>1. CASE u = <<>>
        <3>1. Len(u) + 1 = 1 /\ <<"stream", s>>[1] = "stream"
            BY <2>1
        <3> QED
            BY <1>1, <3>1
    <2>2. CASE u # <<>>
        <3>1. 1 \in 1 .. Len(u)
            BY <1>1, <2>2, EmptySeq
        <3> QED
            BY <1>1, <2>2, <3>1 DEF Framed
    <2> QED
        BY <2>1, <2>2
<1>3. ASSUME NEW i \in DOMAIN w, w[i][1] = "stream"
      PROVE  \E l \in AllSizes, n \in Numbers : FrameIs(w, i, l, n)
    <2>0. i \in 1 .. Len(w) /\ DOMAIN u = 1 .. Len(u)
        BY <1>1, LenProperties
    <2>1. CASE i \in 1 .. Len(u)
        <3>1. u[i][1] = "stream"
            BY <1>1, <1>3, <2>1
        <3>2. PICK l \in AllSizes, n \in Numbers : FrameIs(u, i, l, n)
            BY <2>0, <2>1, <3>1 DEF Framed
        <3>3. l \in Nat
            BY SizesFacts
        <3>4. FrameIs(w, i, l, n)
            BY <2>1, <3>2, <3>3, FrameKept
        <3> QED
            BY <3>4
    <2>2. CASE i = Len(u) + 1
        <3>1. /\ i + 1 + Len(m) = Len(w) /\ i + 1 = Len(u) + 2
              /\ \A j \in 1 .. Len(m) : i + 1 + j = Len(u) + 2 + j
            BY <1>1, <2>2
        <3>2. /\ i + 1 + Len(m) <= Len(w) /\ ~(i + 1 + Len(m) < Len(w))
              /\ w[i + 1] = <<"length", Len(m)>>
            BY <1>1, <3>1
        <3>3. ASSUME NEW j \in 1 .. Len(m) PROVE w[i + 1 + j] = <<"body", NumberOf(m)>>
            BY <1>1, <3>1
        <3>4. FrameIs(w, i, Len(m), NumberOf(m))
            BY <3>2, <3>3 DEF FrameIs
        <3> QED
            BY <1>1, <3>4
    <2>3. CASE i = Len(u) + 2
        <3>1. <<"length", Len(m)>>[1] = "length"
            OBVIOUS
        <3> QED
            BY <1>1, <1>3, <2>3, <3>1
    <2>4. CASE i > Len(u) + 2
        <3>1. i - (Len(u) + 2) \in 1 .. Len(m) /\ Len(u) + 2 + (i - (Len(u) + 2)) = i
            BY <1>1, <2>0, <2>4
        <3>2. w[i] = <<"body", NumberOf(m)>> /\ <<"body", NumberOf(m)>>[1] = "body"
            BY <1>1, <3>1
        <3> QED
            BY <1>3, <3>2
    <2>5. i \in Nat \ {0} /\ Len(u) \in Nat
        BY <1>1, <2>0
    <2>6. i \in 1 .. Len(u) \/ i = Len(u) + 1 \/ i = Len(u) + 2 \/ i > Len(u) + 2
        BY <2>5
    <2> QED
        BY <2>1, <2>2, <2>3, <2>4, <2>6
<1> QED
    BY <1>2, <1>3 DEF Framed

(* What is left of whole frames without the first are whole frames.         *)
LEMMA FramedDrop ==
    ASSUME NEW v \in Seq(Unit), NEW s \in Stream, NEW m \in Message, NEW u, Prepended(v, s, m, u), Framed(u)
    PROVE  Framed(v)
<1>1. /\ u \in Seq(Unit) /\ Len(v) \in Nat /\ Len(u) = Len(v) + 2 + Len(m) /\ Len(m) \in Nat
      /\ \A k \in 1 .. Len(v) : u[k + 2 + Len(m)] = v[k]
      /\ u[1] = <<"stream", s>> /\ u[2] = <<"length", Len(m)>>
    BY DEF Prepended
<1>2. DOMAIN u = 1 .. Len(u) /\ DOMAIN v = 1 .. Len(v)
    BY <1>1, LenProperties
<1>3. ASSUME NEW i \in DOMAIN v, v[i][1] = "stream"
      PROVE  \E l \in AllSizes, n \in Numbers : FrameIs(v, i, l, n)
    <2>0. i \in 1 .. Len(v) /\ i \in Nat
        BY <1>1, <1>2
    <2>1. i + 2 + Len(m) \in DOMAIN u /\ u[i + 2 + Len(m)][1] = "stream" /\ i \in 1 .. Len(v)
        <3>1. i + 2 + Len(m) \in 1 .. Len(u)
            BY <1>1, <2>0
        <3>2. u[i + 2 + Len(m)] = v[i]
            BY <1>1, <2>0
        <3> QED
            BY <1>2, <1>3, <2>0, <3>1, <3>2
    <2>2. PICK l \in AllSizes, n \in Numbers : FrameIs(u, i + 2 + Len(m), l, n)
        BY <2>1 DEF Framed
    <2>3. l \in Nat
        BY SizesFacts
    <2>4. FrameIs(v, i, l, n)
        BY <2>1, <2>2, <2>3, FrameMoved
    <2> QED
        BY <2>4
<1>4. ASSUME v # <<>> PROVE v[1][1] = "stream"
    <2>1. 1 \in DOMAIN u /\ u[1][1] = "stream"
        BY <1>1, <1>2
    <2>2. PICK l \in AllSizes, n \in Numbers : FrameIs(u, 1, l, n)
        BY <2>1 DEF Framed
    <2>3. <<"length", l>> = <<"length", Len(m)>>
        BY <1>1, <2>2 DEF FrameIs
    <2>4. l = Len(m)
        BY <2>3
    <2>5. 1 \in 1 .. Len(v) /\ 1 + 1 + Len(m) < Len(u)
        BY <1>1, <1>4, EmptySeq
    <2>6. u[1 + 2 + Len(m)][1] = "stream"
        BY <2>2, <2>4, <2>5 DEF FrameIs
    <2> QED
        BY <1>1, <2>5, <2>6
<1> QED
    BY <1>3, <1>4 DEF Framed
-----------------------------------------------------------------------------
(* The messages in a sequence of frames.                                    *)

(* The body of a frame is a message.                                        *)
LEMMA MessageAtFrame ==
    ASSUME NEW u \in Seq(Unit), NEW i \in 1 .. Len(u), NEW l \in AllSizes, NEW n \in Numbers,
           FrameIs(u, i, l, n)
    PROVE  MessageAt(u, i) = BodyOf(n, l)
<1> DEFINE a == i + HEADER_LENGTH
           b == i + 1 + l
           m == BodyOf(n, l)
<1>1. l \in Nat /\ Len(u) \in Nat /\ i \in Nat \ {0} /\ \A k \in 1 .. Len(u) : u[k] \in Unit
    BY SizesFacts, ElementOfSeq
<1>2. b <= Len(u) /\ u[i + 1] = <<"length", l>> /\ \A j \in 1 .. l : u[i + 1 + j] = <<"body", n>>
    BY DEF FrameIs
<1>3. MessageAt(u, i) = SubSeq(u, a, b)
    <2>1. u[i + 1][2] = l
        BY <1>2
    <2>2. Lesser(Len(u), i + 1 + u[i + 1][2]) = b
        BY <1>1, <1>2, <2>1 DEF Lesser
    <2> QED
        BY <2>2 DEF MessageAt
<1>4. a \in Int /\ b \in Int /\ a = i + 2 /\ b - a + 1 = l /\ (a <= b <=> l # 0)
    BY <1>1 DEF HEADER_LENGTH
<1>5. \A k \in a .. b : u[k] \in Unit
    <2> SUFFICES ASSUME NEW k \in a .. b PROVE u[k] \in Unit
        OBVIOUS
    <2>1. k \in 1 .. Len(u)
        BY <1>1, <1>2, <1>4
    <2> QED
        BY <1>1, <2>1
<1>6. /\ SubSeq(u, a, b) \in Seq(Unit) /\ Len(SubSeq(u, a, b)) = IF a <= b THEN b - a + 1 ELSE 0
      /\ \A k \in 1 .. b - a + 1 : SubSeq(u, a, b)[k] = u[a + k - 1]
    <2> HIDE DEF a, b
    <2> QED
        BY <1>4, <1>5, SubSeqProperties
<1>7. m \in Seq(Unit) /\ Len(m) = l /\ \A k \in 1 .. l : m[k] = <<"body", n>>
    BY BodyFacts
<1>8. Len(SubSeq(u, a, b)) = l
    BY <1>1, <1>4, <1>6
<1>9. ASSUME NEW k \in 1 .. l PROVE SubSeq(u, a, b)[k] = m[k]
    <2>0. k \in Nat /\ i \in Nat /\ a = i + 2
        BY <1>1, <1>4
    <2>a. a + k - 1 = i + 1 + k
        <3> HIDE DEF a
        <3> QED
            BY <2>0
    <2>b. k \in 1 .. b - a + 1
        <3> HIDE DEF a, b
        <3> QED
            BY <1>4
    <2>1. k \in 1 .. b - a + 1 /\ a + k - 1 = i + 1 + k
        BY <2>a, <2>b
    <2>2. SubSeq(u, a, b)[k] = u[i + 1 + k]
        <3> HIDE DEF a, b
        <3> QED
            BY <1>6, <2>1
    <2>3. u[i + 1 + k] = <<"body", n>>
        BY <1>2
    <2> QED
        BY <1>7, <2>2, <2>3
<1>10. SubSeq(u, a, b) = m
    <2> HIDE DEF a, b, m
    <2> QED
        BY <1>6, <1>7, <1>8, <1>9, SeqEqual
<1> QED
    BY <1>3, <1>10

(* The messages at the positions of a set, in their order.                  *)
Lists(q, P, at) ==
    /\ P \in SUBSET (Nat \ {0}) /\ IsFiniteSet(P) /\ Cardinality(P) \in Nat
    /\ q \in Seq(Message) /\ Len(q) = Cardinality(P)
    /\ \A k \in 1 .. Cardinality(P) : Kth(P, k) \in P /\ q[k] = at[Kth(P, k)]

(* Listing them one by one lists them.                                      *)
LEMMA ListsAll ==
    ASSUME NEW n \in Nat, NEW P \in SUBSET (1 .. n), NEW at \in [P -> Message],
           NEW q, q = [k \in 1 .. Cardinality(P) |-> at[Kth(P, k)]]
    PROVE  Lists(q, P, at)
<1>1. P \in SUBSET (Nat \ {0}) /\ P \in SUBSET Nat
    OBVIOUS
<1>2. IsFiniteSet(P) /\ Cardinality(P) \in Nat
    <2>1. IsFiniteSet(1 .. n)
        BY FS_Interval
    <2> QED
        BY <2>1, FS_Subset, FS_CardinalityType
<1>3. \A k \in 1 .. Cardinality(P) : Kth(P, k) \in P
    BY <1>1, <1>2, KthFacts
<1>4. q \in [1 .. Cardinality(P) -> Message]
    BY <1>3
<1>5. q \in Seq(Message)
    BY <1>2, <1>4, SeqDef
<1>6. Len(q) = Cardinality(P)
    <2>1. DOMAIN q = 1 .. Cardinality(P) /\ DOMAIN q = 1 .. Len(q) /\ Len(q) \in Nat
        BY <1>5, LenProperties
    <2> QED
        BY <1>2, <2>1
<1> QED
    BY <1>1, <1>2, <1>3, <1>5, <1>6 DEF Lists

(* The same messages at the same positions are the same list.               *)
LEMMA ListsSame ==
    ASSUME NEW p, NEW q, NEW P, NEW v, NEW w, Lists(p, P, v), Lists(q, P, w), \A i \in P : v[i] = w[i]
    PROVE  p = q
<1>1. p \in Seq(Message) /\ q \in Seq(Message) /\ Len(p) = Len(q)
    BY DEF Lists
<1>2. \A k \in 1 .. Len(p) : p[k] = q[k]
    BY DEF Lists
<1> QED
    BY <1>1, <1>2, SeqEqual

(* R has one number more than P, behind all others, and m is there.         *)
OneMore(P, v, R, w, e, m) ==
    /\ R = P \cup {e} /\ e \in Nat /\ \A i \in P : i < e
    /\ \A i \in P : v[i] = w[i]
    /\ w[e] = m

(* It is the last of the list.                                              *)
LEMMA ListsAppended ==
    ASSUME NEW p, NEW P, NEW v, Lists(p, P, v), NEW r, NEW R, NEW w, Lists(r, R, w),
           NEW e, NEW m \in Message, OneMore(P, v, R, w, e, m)
    PROVE  r = Append(p, m)
<1> DEFINE q == Append(p, m)
<1>0. /\ R = P \cup {e} /\ e \in Nat /\ \A i \in P : i < e
      /\ \A i \in P : v[i] = w[i]
      /\ w[e] = m
    BY DEF OneMore
<1>1. P \in SUBSET Nat /\ IsFiniteSet(P) /\ Cardinality(P) \in Nat
    BY DEF Lists
<1>2. /\ Cardinality(R) = Cardinality(P) + 1
      /\ \A k \in 1 .. Cardinality(P) : Kth(R, k) = Kth(P, k)
      /\ Kth(R, Cardinality(P) + 1) = e
    BY <1>0, <1>1, KthAdd
<1>3. p \in Seq(Message) /\ Len(p) = Cardinality(P)
    BY DEF Lists
<1>4. /\ q \in Seq(Message) /\ Len(q) = Len(p) + 1
      /\ \A k \in 1 .. Len(p) : q[k] = p[k]
      /\ q[Len(p) + 1] = m
    BY <1>3, AppendProperties
<1> HIDE DEF q
<1>5. r \in Seq(Message) /\ Len(r) = Cardinality(R) /\ \A k \in 1 .. Cardinality(R) : r[k] = w[Kth(R, k)]
    BY DEF Lists
<1>6. ASSUME NEW k \in 1 .. Len(r) PROVE r[k] = q[k]
    <2>1. CASE k \in 1 .. Len(p)
        <3>1. Kth(R, k) = Kth(P, k) /\ q[k] = p[k]
            BY <1>2, <1>3, <1>4, <2>1
        <3>2. Kth(P, k) \in P /\ p[k] = v[Kth(P, k)]
            BY <1>3, <2>1 DEF Lists
        <3>3. r[k] = w[Kth(R, k)]
            BY <1>5
        <3> QED
            BY <1>0, <3>1, <3>2, <3>3
    <2>2. CASE k = Len(p) + 1
        BY <1>0, <1>2, <1>3, <1>4, <1>5, <2>2
    <2>3. k \in 1 .. Len(p) \/ k = Len(p) + 1
        BY <1>1, <1>2, <1>3, <1>5
    <2> QED
        BY <2>1, <2>2, <2>3
<1>7. r = q
    BY <1>2, <1>3, <1>4, <1>5, <1>6, SeqEqual
<1> QED
    BY <1>7 DEF q

(* A list with one more message in front.                                   *)
LEMMA PutInFront ==
    ASSUME NEW m \in Message, NEW q \in Seq(Message)
    PROVE  /\ <<m>> \o q \in Seq(Message) /\ Len(<<m>> \o q) = 1 + Len(q)
           /\ (<<m>> \o q)[1] = m /\ \A k \in 1 .. Len(q) : (<<m>> \o q)[1 + k] = q[k]
<1> DEFINE r == <<m>> \o q
<1>1. <<m>> \in Seq(Message) /\ Len(<<m>>) = 1 /\ <<m>>[1] = m /\ Len(q) \in Nat
    OBVIOUS
<1>2. /\ r \in Seq(Message) /\ Len(r) = Len(<<m>>) + Len(q)
      /\ \A k \in 1 .. Len(<<m>>) + Len(q) : r[k] = IF k <= Len(<<m>>) THEN <<m>>[k] ELSE q[k - Len(<<m>>)]
    BY <1>1, ConcatProperties
<1> HIDE DEF r
<1>3. \A k \in 1 .. 1 + Len(q) : r[k] = IF k <= 1 THEN m ELSE q[k - 1]
    BY <1>1, <1>2
<1>4. r[1] = m
    BY <1>1, <1>3
<1>5. ASSUME NEW k \in 1 .. Len(q) PROVE r[1 + k] = q[k]
    <2>1. 1 + k \in 1 .. 1 + Len(q) /\ ~(1 + k <= 1) /\ (1 + k) - 1 = k
        BY <1>1
    <2> QED
        BY <1>3, <2>1
<1> QED
    BY <1>1, <1>2, <1>4, <1>5 DEF r

(* What is listed beyond a position, and the one that may be before.        *)
LEMMA ListsSplit ==
    ASSUME NEW p, NEW P, NEW v, Lists(p, P, v), NEW c \in Nat, NEW low,
           NEW q, NEW Q, NEW w, Lists(q, Q, w),
           SplitAt(P, c, low, Q), \A i \in Q : v[i + c] = w[i],
           NEW m \in Message
    PROVE  /\ low = {} => p = q
           /\ low = {1} /\ v[1] = m => p = <<m>> \o q
<1>1. P \in SUBSET (Nat \ {0}) /\ P \in SUBSET Nat /\ IsFiniteSet(P)
    BY DEF Lists
<1>2. /\ Cardinality(P) = Cardinality(low) + Cardinality(Q)
      /\ \A k \in 1 .. Cardinality(Q) : Kth(P, Cardinality(low) + k) = Kth(Q, k) + c
    BY <1>1, KthShift
<1>3. p \in Seq(Message) /\ Len(p) = Cardinality(P) /\ \A k \in 1 .. Len(p) : p[k] = v[Kth(P, k)]
    BY DEF Lists
<1>4. /\ q \in Seq(Message) /\ Len(q) = Cardinality(Q) /\ Len(q) \in Nat
      /\ \A k \in 1 .. Len(q) : Kth(Q, k) \in Q /\ q[k] = w[Kth(Q, k)]
    BY DEF Lists
<1>5. ASSUME NEW k \in 1 .. Len(q) PROVE v[Kth(P, Cardinality(low) + k)] = q[k]
    BY <1>2, <1>4
<1>6. ASSUME low = {} PROVE p = q
    <2>1. Cardinality(low) = 0
        BY <1>6, FS_EmptySet
    <2>2. Len(p) = Len(q)
        BY <1>2, <1>3, <1>4, <2>1
    <2>3. ASSUME NEW k \in 1 .. Len(p) PROVE p[k] = q[k]
        <3>1. 0 + k = k
            OBVIOUS
        <3> QED
            BY <1>3, <1>5, <2>1, <2>2, <3>1
    <2> QED
        BY <1>3, <1>4, <2>2, <2>3, SeqEqual
<1>7. ASSUME low = {1}, v[1] = m PROVE p = <<m>> \o q
    <2>1. Cardinality(low) = 1
        BY <1>7, FS_Singleton
    <2>2. Kth(P, 1) = 1
        <3>1. 1 \in P
            BY <1>7 DEF SplitAt
        <3>2. {j \in P : j <= 1} = {1}
            <4>1. \A j \in P : j <= 1 => j = 1
                BY <1>1
            <4> QED
                BY <3>1, <4>1
        <3>3. Rank(P, 1) = 1
            BY <3>2, FS_Singleton DEF Rank
        <3> QED
            BY <1>1, <3>1, <3>3, KthIs
    <2> DEFINE r == <<m>> \o q
    <2>3. /\ r \in Seq(Message) /\ Len(r) = 1 + Len(q) /\ r[1] = m
          /\ \A k \in 1 .. Len(q) : r[1 + k] = q[k]
        BY <1>4, PutInFront
    <2> HIDE DEF r
    <2>4. Len(p) = Len(r)
        BY <1>2, <1>3, <1>4, <2>1, <2>3
    <2>5. ASSUME NEW k \in 1 .. Len(p) PROVE p[k] = r[k]
        <3>1. CASE k = 1
            BY <1>3, <1>7, <2>2, <2>3, <2>5, <3>1
        <3>2. CASE k > 1
            <4>1. k - 1 \in 1 .. Len(q) /\ 1 + (k - 1) = k
                BY <1>4, <2>3, <2>4, <2>5, <3>2
            <4>2. v[Kth(P, k)] = q[k - 1]
                BY <1>5, <2>1, <4>1
            <4>3. r[k] = q[k - 1]
                BY <2>3, <4>1
            <4> QED
                BY <1>3, <2>5, <4>2, <4>3
        <3> QED
            BY <2>5, <3>1, <3>2
    <2>6. p = r
        BY <1>3, <2>3, <2>4, <2>5, SeqEqual
    <2> QED
        BY <2>6 DEF r
<1> QED
    BY <1>6, <1>7

(* What the frames of a stream carry.                                       *)
Carried(u, s) == [i \in Starts(u, s) |-> MessageAt(u, i)]

(* The frame that begins at one of its positions.                           *)
LEMMA FrameOfStart ==
    ASSUME NEW u \in Seq(Unit), Framed(u), NEW s, NEW i \in Starts(u, s)
    PROVE  i \in 1 .. Len(u) /\
           \E l \in AllSizes, n \in Numbers : FrameIs(u, i, l, n) /\ MessageAt(u, i) = BodyOf(n, l)
<1>1. DOMAIN u = 1 .. Len(u)
    BY LenProperties
<1>2. i \in 1 .. Len(u) /\ u[i] = <<"stream", s>>
    BY <1>1 DEF Starts
<1>3. u[i][1] = "stream"
    BY <1>2
<1>4. PICK l \in AllSizes, n \in Numbers : FrameIs(u, i, l, n)
    BY <1>1, <1>2, <1>3 DEF Framed
<1>5. MessageAt(u, i) = BodyOf(n, l)
    BY <1>2, <1>4, MessageAtFrame
<1> QED
    BY <1>2, <1>4, <1>5

(* The messages of a stream are those of its frames.                        *)
LEMMA MessagesCarried ==
    ASSUME NEW u \in Seq(Unit), Framed(u), NEW s
    PROVE  Lists(MessagesIn(u, s), Starts(u, s), Carried(u, s))
<1> DEFINE P == Starts(u, s)
           at == Carried(u, s)
           q == MessagesIn(u, s)
<1>1. Len(u) \in Nat
    BY LenProperties
<1>2. P \in SUBSET (1 .. Len(u))
    BY FrameOfStart
<1>3. ASSUME NEW i \in P PROVE MessageAt(u, i) \in Message
    BY FrameOfStart, BodyFacts
<1>4. at \in [P -> Message]
    BY <1>3 DEF Carried
<1>5. \A k \in 1 .. Cardinality(P) : Kth(P, k) \in P
    <2>1. P \in SUBSET Nat
        <3> HIDE DEF P
        <3> QED
            BY <1>1, <1>2
    <2>2. IsFiniteSet(P)
        <3>1. IsFiniteSet(1 .. Len(u))
            BY <1>1, FS_Interval
        <3> HIDE DEF P
        <3> QED
            BY <1>2, <3>1, FS_Subset
    <2> HIDE DEF P
    <2> QED
        BY <2>1, <2>2, KthFacts
<1>6. q = [k \in 1 .. Cardinality(P) |-> at[Kth(P, k)]]
    BY <1>5 DEF MessagesIn, Carried
<1> HIDE DEF P, at, q
<1>7. Lists(q, P, at)
    BY <1>1, <1>2, <1>4, <1>6, ListsAll
<1> QED
    BY <1>7 DEF P, at, q

(* The start of a frame is that of one stream.                              *)
LEMMA StreamUnits ==
    ASSUME NEW s, NEW t, NEW x
    PROVE  /\ <<"stream", s>> = <<"stream", t>> <=> s = t
           /\ <<"length", x>> # <<"stream", t>> /\ <<"body", x>> # <<"stream", t>>
    OBVIOUS

(* A new frame begins after all others.                                     *)
LEMMA StartsAppended ==
    ASSUME NEW u \in Seq(Unit), NEW s, NEW m, NEW w, Appended(u, s, m, w), NEW t
    PROVE  Starts(w, t) = IF t = s THEN Starts(u, t) \cup {Len(u) + 1} ELSE Starts(u, t)
<1>1. /\ Len(u) \in Nat /\ Len(w) = Len(u) + 2 + Len(m) /\ Len(m) \in Nat
      /\ DOMAIN u = 1 .. Len(u) /\ DOMAIN w = 1 .. Len(w)
    BY LenProperties DEF Appended
<1>2. \A k \in 1 .. Len(u) : w[k] = u[k]
    BY DEF Appended
<1>3. ASSUME NEW i \in 1 .. Len(w), i > Len(u), w[i] = <<"stream", t>> PROVE i = Len(u) + 1 /\ t = s
    <2>1. CASE i = Len(u) + 1
        BY <1>3, <2>1, StreamUnits DEF Appended
    <2>2. CASE i = Len(u) + 2
        BY <1>3, <2>2, StreamUnits DEF Appended
    <2>3. CASE i > Len(u) + 2
        <3>1. i - (Len(u) + 2) \in 1 .. Len(m) /\ Len(u) + 2 + (i - (Len(u) + 2)) = i
            BY <1>1, <2>3
        <3>2. w[i] = <<"body", NumberOf(m)>>
            BY <3>1 DEF Appended
        <3> QED
            BY <1>3, <3>2, StreamUnits
    <2> QED
        BY <1>1, <1>3, <2>1, <2>2, <2>3
<1>4. ASSUME NEW i \in Starts(w, t) PROVE i \in Starts(u, t) \/ (i = Len(u) + 1 /\ t = s)
    <2>1. i \in 1 .. Len(w) /\ w[i] = <<"stream", t>>
        BY <1>1 DEF Starts
    <2>2. CASE i \in 1 .. Len(u)
        BY <1>1, <1>2, <2>1, <2>2 DEF Starts
    <2>3. CASE i > Len(u)
        BY <1>3, <2>1, <2>3
    <2> QED
        BY <1>1, <2>1, <2>2, <2>3
<1>5. ASSUME NEW i \in Starts(u, t) PROVE i \in Starts(w, t)
    <2>1. i \in 1 .. Len(u) /\ u[i] = <<"stream", t>>
        BY <1>1 DEF Starts
    <2>2. i \in 1 .. Len(w)
        BY <1>1, <2>1
    <2> QED
        BY <1>1, <1>2, <2>1, <2>2 DEF Starts
<1>6. Len(u) + 1 \in Starts(w, s)
    <2>1. Len(u) + 1 \in 1 .. Len(w)
        BY <1>1
    <2> QED
        BY <1>1, <2>1 DEF Appended, Starts
<1>7. CASE t = s
    BY <1>4, <1>5, <1>6, <1>7
<1>8. CASE t # s
    BY <1>4, <1>5, <1>8
<1> QED
    BY <1>7, <1>8

(* What is carried once a frame is written: its message comes last.         *)
LEMMA MessagesAppended ==
    ASSUME NEW u \in Seq(Unit), Framed(u), NEW s \in Stream, NEW m \in Message,
           NEW w \in Seq(Unit), Appended(u, s, m, w), Framed(w), NEW t \in Stream
    PROVE  MessagesIn(w, t) = IF t = s THEN Append(MessagesIn(u, t), m) ELSE MessagesIn(u, t)
<1> DEFINE P == Starts(u, t)
           R == Starts(w, t)
           p == MessagesIn(u, t)
           r == MessagesIn(w, t)
           e == Len(u) + 1
<1>1. Lists(p, P, Carried(u, t)) /\ Lists(r, R, Carried(w, t))
    BY MessagesCarried
<1>2. R = IF t = s THEN P \cup {e} ELSE P
    BY StartsAppended
<1>3. ASSUME NEW i \in P PROVE MessageAt(w, i) = MessageAt(u, i) /\ i \in 1 .. Len(u)
    <2>1. i \in 1 .. Len(u)
        BY FrameOfStart
    <2>2. PICK l \in AllSizes, n \in Numbers : FrameIs(u, i, l, n) /\ MessageAt(u, i) = BodyOf(n, l)
        BY FrameOfStart
    <2>3. l \in Nat /\ i \in 1 .. Len(w)
        BY <2>1, SizesFacts DEF Appended
    <2>4. FrameIs(w, i, l, n)
        BY <2>1, <2>2, <2>3, FrameKept
    <2>5. MessageAt(w, i) = BodyOf(n, l)
        BY <2>3, <2>4, MessageAtFrame
    <2> QED
        BY <2>1, <2>2, <2>5
<1>4. P \subseteq R
    BY <1>2
<1>5. \A i \in P : Carried(u, t)[i] = Carried(w, t)[i]
    BY <1>3, <1>4 DEF Carried
<1>6. CASE t # s
    <2>1. R = P
        BY <1>2, <1>6
    <2> HIDE DEF P, R, p, r
    <2>2. r = p
        BY <1>1, <1>5, <2>1, ListsSame
    <2> QED
        BY <1>6, <2>2 DEF p, r
<1>7. CASE t = s
    <2>1. e \in Nat /\ \A i \in P : i < e
        BY <1>3 DEF Appended
    <2>2. R = P \cup {e}
        BY <1>2, <1>7
    <2>3. MessageAt(w, e) = m
        <3>1. FrameIs(w, e, Len(m), NumberOf(m))
            <4>1. /\ e + 1 + Len(m) = Len(w) /\ e + 1 = Len(u) + 2
                  /\ \A j \in 1 .. Len(m) : e + 1 + j = Len(u) + 2 + j
                BY DEF Appended
            <4>2. ~(e + 1 + Len(m) < Len(w)) /\ e + 1 + Len(m) <= Len(w)
                <5>1. Len(w) \in Nat
                    BY DEF Appended
                <5> HIDE DEF e
                <5> QED
                    BY <4>1, <5>1
            <4> HIDE DEF e
            <4> QED
                BY <4>1, <4>2 DEF FrameIs, Appended
        <3>2. e \in 1 .. Len(w) /\ Len(m) \in AllSizes /\ NumberOf(m) \in Numbers
            BY DEF Appended
        <3>3. MessageAt(w, e) = BodyOf(NumberOf(m), Len(m))
            <4> HIDE DEF e
            <4> QED
                BY <3>1, <3>2, MessageAtFrame
        <3> QED
            BY <3>3, MessageFacts
    <2>4. Carried(w, t)[e] = m
        BY <2>2, <2>3 DEF Carried
    <2>5. OneMore(P, Carried(u, t), R, Carried(w, t), e, m)
        BY <1>5, <2>1, <2>2, <2>4 DEF OneMore
    <2> HIDE DEF P, R, p, r, e
    <2>6. r = Append(p, m)
        BY <1>1, <2>5, ListsAppended
    <2> QED
        BY <1>7, <2>6 DEF p, r
<1> QED
    BY <1>6, <1>7

(* The frames behind the first begin where that ends.                       *)
LEMMA StartsPrepended ==
    ASSUME NEW v \in Seq(Unit), NEW s, NEW m, NEW u, Prepended(v, s, m, u), NEW t, NEW c, c = 2 + Len(m)
    PROVE  /\ Starts(v, t) = {i \in Nat \ {0} : i + c \in Starts(u, t)}
           /\ {i \in Starts(u, t) : i <= c} = IF t = s THEN {1} ELSE {}
<1>1. /\ Len(v) \in Nat /\ Len(u) = Len(v) + c /\ Len(m) \in Nat /\ c \in Nat
      /\ DOMAIN u = 1 .. Len(u) /\ DOMAIN v = 1 .. Len(v)
    BY LenProperties DEF Prepended
<1>2. \A k \in 1 .. Len(v) : u[k + c] = v[k]
    <2> SUFFICES ASSUME NEW k \in 1 .. Len(v) PROVE u[k + c] = v[k]
        OBVIOUS
    <2>1. k + c = k + 2 + Len(m)
        BY <1>1
    <2> QED
        BY <2>1 DEF Prepended
<1>3. ASSUME NEW i \in Nat \ {0}, i + c \in Starts(u, t) PROVE i \in Starts(v, t)
    <2>1. i + c \in 1 .. Len(u) /\ u[i + c] = <<"stream", t>>
        BY <1>1, <1>3 DEF Starts
    <2>2. i \in 1 .. Len(v)
        BY <1>1, <2>1
    <2> QED
        BY <1>1, <1>2, <2>1, <2>2 DEF Starts
<1>4. ASSUME NEW i \in Starts(v, t) PROVE i \in Nat \ {0} /\ i + c \in Starts(u, t)
    <2>1. i \in 1 .. Len(v) /\ v[i] = <<"stream", t>>
        BY <1>1 DEF Starts
    <2>2. i + c \in 1 .. Len(u) /\ i \in Nat \ {0}
        BY <1>1, <2>1
    <2> QED
        BY <1>1, <1>2, <2>1, <2>2 DEF Starts
<1>5. ASSUME NEW i \in Starts(u, t), i <= c PROVE i = 1 /\ t = s
    <2>1. i \in 1 .. Len(u) /\ u[i] = <<"stream", t>>
        BY <1>1 DEF Starts
    <2>2. CASE i = 1
        BY <2>1, <2>2, StreamUnits DEF Prepended
    <2>3. CASE i = 2
        BY <2>1, <2>3, StreamUnits DEF Prepended
    <2>4. CASE i > 2
        <3>1. i - 2 \in 1 .. Len(m) /\ 2 + (i - 2) = i
            BY <1>1, <1>5, <2>1, <2>4
        <3>2. u[i] = <<"body", NumberOf(m)>>
            BY <3>1 DEF Prepended
        <3> QED
            BY <2>1, <3>2, StreamUnits
    <2> QED
        BY <1>1, <2>1, <2>2, <2>3, <2>4
<1>6. 1 \in Starts(u, s) /\ 1 <= c
    <2>1. 1 \in 1 .. Len(u) /\ 1 <= c
        BY <1>1
    <2> QED
        BY <1>1, <2>1 DEF Prepended, Starts
<1>7. Starts(v, t) = {i \in Nat \ {0} : i + c \in Starts(u, t)}
    BY <1>3, <1>4
<1>8. {i \in Starts(u, t) : i <= c} = IF t = s THEN {1} ELSE {}
    <2>1. CASE t = s
        BY <1>5, <1>6, <2>1
    <2>2. CASE t # s
        BY <1>5, <2>2
    <2> QED
        BY <2>1, <2>2
<1> QED
    BY <1>7, <1>8

(* What is carried once the first frame is gone: its message came first.    *)
LEMMA MessagesPrepended ==
    ASSUME NEW v \in Seq(Unit), Framed(v), NEW s \in Stream, NEW m \in Message,
           NEW u \in Seq(Unit), Prepended(v, s, m, u), Framed(u), NEW t \in Stream
    PROVE  /\ t # s => MessagesIn(u, t) = MessagesIn(v, t)
           /\ t = s => MessagesIn(u, t) = <<m>> \o MessagesIn(v, t)
<1> DEFINE c == 2 + Len(m)
           P == Starts(u, t)
           Q == Starts(v, t)
           p == MessagesIn(u, t)
           q == MessagesIn(v, t)
           low == {i \in P : i <= c}
<1>1. Lists(p, P, Carried(u, t)) /\ Lists(q, Q, Carried(v, t))
    BY MessagesCarried
<1>2. Q = {i \in Nat \ {0} : i + c \in P} /\ low = IF t = s THEN {1} ELSE {}
    BY StartsPrepended
<1>3. SplitAt(P, c, low, Q) /\ c \in Nat
    BY <1>2 DEF SplitAt, Prepended
<1>4. ASSUME NEW i \in Q PROVE Carried(u, t)[i + c] = Carried(v, t)[i]
    <2>1. i + c \in P /\ i \in Nat \ {0}
        BY <1>2
    <2>2. PICK l \in AllSizes, n \in Numbers : FrameIs(u, i + c, l, n) /\ MessageAt(u, i + c) = BodyOf(n, l)
        <3> HIDE DEF c
        <3> QED
            BY <2>1, FrameOfStart
    <2>3. i \in 1 .. Len(v) /\ l \in Nat
        BY FrameOfStart, SizesFacts
    <2>4. i + c = i + 2 + Len(m)
        BY <2>1 DEF Prepended
    <2>5. FrameIs(v, i, l, n)
        BY <2>2, <2>3, <2>4, FrameMoved
    <2>6. MessageAt(v, i) = BodyOf(n, l)
        BY <2>3, <2>5, MessageAtFrame
    <2> HIDE DEF c
    <2> QED
        BY <2>1, <2>2, <2>6 DEF Carried
<1>5. ASSUME t = s PROVE Carried(u, t)[1] = m
    <2>1. 1 \in P
        <3>1. low = {1}
            BY <1>2, <1>5
        <3> QED
            BY <3>1
    <2>2. PICK l \in AllSizes, n \in Numbers : FrameIs(u, 1, l, n) /\ MessageAt(u, 1) = BodyOf(n, l)
        BY <2>1, FrameOfStart
    <2>3. u[2] = <<"length", Len(m)>> /\ u[2 + 1] = <<"body", NumberOf(m)>>
        BY DEF Prepended
    <2>4. l \in Nat \ {0} /\ u[2] = <<"length", l>>
        BY <2>2, SizesFacts DEF FrameIs
    <2>5. 1 \in 1 .. l /\ 1 + 1 + 1 = 2 + 1
        BY <2>4
    <2>6. u[2 + 1] = <<"body", n>>
        BY <2>2, <2>5 DEF FrameIs
    <2>7. l = Len(m)
        BY <2>3, <2>4
    <2>8. n = NumberOf(m)
        BY <2>3, <2>6
    <2>9. MessageAt(u, 1) = m
        BY <2>2, <2>7, <2>8, MessageFacts
    <2> QED
        BY <2>1, <2>9 DEF Carried
<1> HIDE DEF P, Q, p, q, c, low
<1>6. /\ low = {} => p = q
      /\ low = {1} /\ Carried(u, t)[1] = m => p = <<m>> \o q
    BY <1>1, <1>3, <1>4, ListsSplit
<1>7. CASE t # s
    BY <1>2, <1>6, <1>7 DEF p, q
<1>8. CASE t = s
    BY <1>2, <1>5, <1>6, <1>8 DEF p, q
<1> QED
    BY <1>7, <1>8
-----------------------------------------------------------------------------
(* The messages that wait for the multiplexer.                              *)

Outgoing == Seq(Stream \X Message)
Listed(x, s) == [i \in Entries(x, s) |-> x[i][2]]

(* The messages of a stream are those of its entries.                       *)
LEMMA EntriesListed ==
    ASSUME NEW x \in Outgoing, NEW t \in Stream
    PROVE  Lists(MessagesOf(x, t), Entries(x, t), Listed(x, t))
<1> DEFINE P == Entries(x, t)
           at == Listed(x, t)
           q == MessagesOf(x, t)
<1>1. Len(x) \in Nat /\ DOMAIN x = 1 .. Len(x) /\ \A i \in 1 .. Len(x) : x[i] \in Stream \X Message
    BY LenProperties, ElementOfSeq DEF Outgoing
<1>2. P \in SUBSET (1 .. Len(x))
    BY <1>1 DEF Entries
<1>3. at \in [P -> Message]
    BY <1>1, <1>2 DEF Listed
<1>4. P \in SUBSET Nat /\ IsFiniteSet(P)
    <2>1. IsFiniteSet(1 .. Len(x))
        BY <1>1, FS_Interval
    <2> HIDE DEF P
    <2>2. IsFiniteSet(P)
        BY <1>2, <2>1, FS_Subset
    <2> QED
        BY <1>1, <1>2, <2>2
<1>5. \A k \in 1 .. Cardinality(P) : Kth(P, k) \in P
    <2> HIDE DEF P
    <2> QED
        BY <1>4, KthFacts
<1>6. q = [k \in 1 .. Cardinality(P) |-> at[Kth(P, k)]]
    BY <1>5 DEF MessagesOf, Listed
<1> HIDE DEF P, at, q
<1>7. Lists(q, P, at)
    BY <1>1, <1>2, <1>3, <1>6, ListsAll
<1> QED
    BY <1>7 DEF P, at, q

(* A message that is sent comes last on its stream.                         *)
Queued(x, s, m, y) == y = Append(x, <<s, m>>)

(* A queued message comes last on its stream, and on no other.              *)
LEMMA OutgoingAppended ==
    ASSUME NEW x \in Outgoing, NEW s \in Stream, NEW m \in Message, NEW y, Queued(x, s, m, y),
           NEW t \in Stream
    PROVE  MessagesOf(y, t) = IF t = s THEN Append(MessagesOf(x, t), m) ELSE MessagesOf(x, t)
<1> DEFINE P == Entries(x, t)
           R == Entries(y, t)
           p == MessagesOf(x, t)
           r == MessagesOf(y, t)
           e == Len(x) + 1
<1>1. Len(x) \in Nat /\ DOMAIN x = 1 .. Len(x)
    BY LenProperties DEF Outgoing
<1>2. /\ y \in Outgoing /\ Len(y) = Len(x) + 1 /\ DOMAIN y = 1 .. Len(y)
      /\ \A i \in 1 .. Len(x) : y[i] = x[i]
      /\ y[e] = <<s, m>>
    <2>1. <<s, m>> \in Stream \X Message
        OBVIOUS
    <2>2. y \in Outgoing
        BY <2>1, AppendProperties DEF Outgoing, Queued
    <2> QED
        BY <2>1, <2>2, AppendProperties, LenProperties DEF Outgoing, Queued
<1>3. Lists(p, P, Listed(x, t)) /\ Lists(r, R, Listed(y, t))
    BY <1>2, EntriesListed
<1>4. ASSUME NEW i \in P PROVE i \in R /\ i \in 1 .. Len(x) /\ x[i][2] = y[i][2]
    <2>1. i \in 1 .. Len(x) /\ x[i][1] = t
        BY <1>1 DEF Entries
    <2>2. i \in 1 .. Len(y) /\ y[i] = x[i]
        BY <1>1, <1>2, <2>1
    <2> QED
        BY <1>2, <2>1, <2>2 DEF Entries
<1>5. \A i \in P : Listed(x, t)[i] = Listed(y, t)[i]
    BY <1>4 DEF Listed
<1>6. ASSUME NEW i \in R PROVE i \in P \/ (i = e /\ t = s)
    <2>1. i \in 1 .. Len(y) /\ y[i][1] = t
        BY <1>2 DEF Entries
    <2>2. CASE i \in 1 .. Len(x)
        BY <1>1, <1>2, <2>1, <2>2 DEF Entries
    <2>3. CASE i = e
        <3>1. y[i] = <<s, m>>
            BY <1>2, <2>3
        <3> QED
            BY <2>1, <2>3, <3>1
    <2>4. i \in 1 .. Len(x) \/ i = e
        BY <1>1, <1>2, <2>1
    <2> QED
        BY <2>2, <2>3, <2>4
<1>7. CASE t # s
    <2>1. R = P
        BY <1>4, <1>6, <1>7
    <2> HIDE DEF P, R, p, r
    <2>2. r = p
        BY <1>3, <1>5, <2>1, ListsSame
    <2> QED
        BY <1>7, <2>2 DEF p, r
<1>8. CASE t = s
    <2>1. e \in R /\ y[e] = <<s, m>>
        <3>1. e \in 1 .. Len(y)
            BY <1>1, <1>2
        <3> QED
            BY <1>2, <1>8, <3>1 DEF Entries
    <2>2. R = P \cup {e} /\ e \in Nat /\ \A i \in P : i < e
        BY <1>1, <1>4, <1>6, <2>1
    <2>3. Listed(y, t)[e] = m
        BY <2>1 DEF Listed
    <2> HIDE DEF P, R, p, r, e
    <2>4. OneMore(P, Listed(x, t), R, Listed(y, t), e, m)
        BY <1>5, <2>2, <2>3 DEF OneMore
    <2>5. r = Append(p, m)
        BY <1>3, <2>4, ListsAppended
    <2> QED
        BY <1>8, <2>5 DEF p, r
<1> QED
    BY <1>7, <1>8

(* The message that is taken came first on its stream.                      *)
LEMMA OutgoingHead ==
    ASSUME NEW x \in Outgoing, x # <<>>, NEW t \in Stream
    PROVE  /\ Head(x) \in Stream \X Message /\ Tail(x) \in Outgoing /\ Len(Tail(x)) = Len(x) - 1
           /\ t # Head(x)[1] => MessagesOf(x, t) = MessagesOf(Tail(x), t)
           /\ t = Head(x)[1] => MessagesOf(x, t) = <<Head(x)[2]>> \o MessagesOf(Tail(x), t)
<1> DEFINE y == Tail(x)
           m == Head(x)[2]
           P == Entries(x, t)
           Q == Entries(y, t)
           p == MessagesOf(x, t)
           q == MessagesOf(y, t)
           low == {i \in P : i <= 1}
<1>1. /\ Len(x) \in Nat \ {0} /\ DOMAIN x = 1 .. Len(x) /\ \A i \in 1 .. Len(x) : x[i] \in Stream \X Message
      /\ y \in Outgoing /\ Len(y) = Len(x) - 1 /\ DOMAIN y = 1 .. Len(y)
      /\ \A i \in 1 .. Len(y) : y[i] = x[i + 1]
      /\ Head(x) = x[1]
    BY LenProperties, ElementOfSeq, HeadTailProperties, EmptySeq DEF Outgoing
<1>2. Head(x) \in Stream \X Message /\ m \in Message
    BY <1>1
<1>3. Lists(p, P, Listed(x, t)) /\ Lists(q, Q, Listed(y, t))
    BY <1>1, EntriesListed
<1>4. ASSUME NEW i \in Q PROVE i \in Nat \ {0} /\ i + 1 \in P /\ y[i][2] = x[i + 1][2]
    <2>1. i \in 1 .. Len(y) /\ y[i][1] = t
        BY <1>1 DEF Entries
    <2>2. i + 1 \in 1 .. Len(x) /\ y[i] = x[i + 1]
        BY <1>1, <2>1
    <2> QED
        BY <1>1, <2>1, <2>2 DEF Entries
<1>5. ASSUME NEW i \in Nat \ {0}, i + 1 \in P PROVE i \in Q
    <2>1. i + 1 \in 1 .. Len(x) /\ x[i + 1][1] = t
        BY <1>1, <1>5 DEF Entries
    <2>2. i \in 1 .. Len(y) /\ y[i] = x[i + 1]
        BY <1>1, <2>1
    <2> QED
        BY <1>1, <2>1, <2>2 DEF Entries
<1>6. \A i \in Q : Listed(x, t)[i + 1] = Listed(y, t)[i]
    BY <1>4 DEF Listed
<1>7. ASSUME NEW i \in P PROVE i \in Nat \ {0}
    BY <1>1 DEF Entries
<1>8. 1 \in P <=> x[1][1] = t
    BY <1>1 DEF Entries
<1>9. low = IF x[1][1] = t THEN {1} ELSE {}
    BY <1>7, <1>8
<1>10. SplitAt(P, 1, low, Q)
    <2> HIDE DEF P, Q
    <2> QED
        BY <1>4, <1>5 DEF SplitAt
<1>11. low = {1} => Listed(x, t)[1] = m
    <2> SUFFICES ASSUME low = {1} PROVE Listed(x, t)[1] = m
        OBVIOUS
    <2>1. 1 \in P
        BY <1>8, <1>9
    <2> QED
        BY <1>1, <2>1 DEF Listed
<1> HIDE DEF P, Q, p, q, low, y, m
<1>12. /\ low = {} => p = q
       /\ low = {1} /\ Listed(x, t)[1] = m => p = <<m>> \o q
    BY <1>2, <1>3, <1>6, <1>10, ListsSplit
<1>13. t # Head(x)[1] => p = q
    BY <1>1, <1>9, <1>12
<1>14. t = Head(x)[1] => p = <<m>> \o q
    BY <1>1, <1>9, <1>11, <1>12
<1> QED
    BY <1>1, <1>2, <1>13, <1>14 DEF p, q, y, m
-----------------------------------------------------------------------------
(* Pieces of sequences.                                                     *)

(* A sequence cut in two is what its parts make.                            *)
LEMMA Cut ==
    ASSUME NEW S, NEW s \in Seq(S), NEW k \in 0 .. Len(s)
    PROVE  /\ SubSeq(s, 1, k) \in Seq(S) /\ SubSeq(s, k + 1, Len(s)) \in Seq(S)
           /\ Len(SubSeq(s, 1, k)) = k /\ Len(SubSeq(s, k + 1, Len(s))) = Len(s) - k
           /\ SubSeq(s, 1, k) \o SubSeq(s, k + 1, Len(s)) = s
<1> DEFINE n == Len(s)
<1>1. n \in Nat /\ k \in Nat /\ k <= n /\ \A i \in 1 .. n : s[i] \in S
    BY LenProperties, ElementOfSeq
<1>2. SubSeq(s, 1, k) \in Seq(S) /\ Len(SubSeq(s, 1, k)) = k
    <2>1. \A i \in 1 .. k : s[i] \in S
        BY <1>1
    <2>2. SubSeq(s, 1, k) \in Seq(S) /\ Len(SubSeq(s, 1, k)) = IF 1 <= k THEN k - 1 + 1 ELSE 0
        BY <1>1, <2>1, SubSeqProperties
    <2> QED
        BY <1>1, <2>2
<1>3. SubSeq(s, k + 1, n) \in Seq(S) /\ Len(SubSeq(s, k + 1, n)) = n - k
    <2>1. \A i \in k + 1 .. n : s[i] \in S
        BY <1>1
    <2>2. /\ SubSeq(s, k + 1, n) \in Seq(S)
          /\ Len(SubSeq(s, k + 1, n)) = IF k + 1 <= n THEN n - (k + 1) + 1 ELSE 0
        <3>1. k + 1 \in Int /\ n \in Int
            BY <1>1
        <3> HIDE DEF n
        <3> QED
            BY <2>1, <3>1, SubSeqProperties
    <2> HIDE DEF n
    <2> QED
        BY <1>1, <2>2
<1>4. SubSeq(s, 1, k) \o SubSeq(s, k + 1, n) = SubSeq(s, 1, n)
    <2>1. 1 \in 1 .. n + 1 /\ k \in 1 - 1 .. n /\ n \in k .. n
        BY <1>1
    <2> QED
        BY <2>1, ConcatAdjacentSubSeq
<1>5. SubSeq(s, 1, n) = s
    BY SubSeqFull
<1> QED
    BY <1>2, <1>3, <1>4, <1>5

(* One element that goes from a sequence to the one before it.              *)
LEMMA HandedOn ==
    ASSUME NEW S, NEW p \in Seq(S), NEW w \in Seq(S), w # <<>>
    PROVE  /\ Append(p, Head(w)) \in Seq(S) /\ Len(Append(p, Head(w))) = Len(p) + 1
           /\ Tail(w) \in Seq(S)
           /\ Append(p, Head(w)) \o Tail(w) = p \o w
<1>1. Head(w) \in S /\ Tail(w) \in Seq(S)
    BY HeadTailProperties
<1>2. Append(p, Head(w)) \in Seq(S) /\ Len(Append(p, Head(w))) = Len(p) + 1
    BY <1>1, AppendProperties
<1>3. Append(p, Head(w)) = p \o <<Head(w)>> /\ <<Head(w)>> \in Seq(S)
    BY <1>1, AppendIsConcat
<1>4. <<Head(w)>> \o Tail(w) = w
    <2>1. Len(w) \in Nat \ {0} /\ Head(w) = w[1]
        BY EmptySeq
    <2>2. 1 \in 1 .. Len(w) /\ Len(w) \in 1 .. Len(w) /\ 1 + 1 = 2
        BY <2>1
    <2>3. SubSeq(w, 1, Len(w)) = <<w[1]>> \o SubSeq(w, 1 + 1, Len(w))
        BY <2>2, SubSeqRecursiveFirst
    <2>4. SubSeq(w, 1, Len(w)) = w /\ Tail(w) = SubSeq(w, 2, Len(w))
        BY SubSeqFull, TailIsSubSeq
    <2> QED
        BY <2>1, <2>2, <2>3, <2>4
<1>5. (p \o <<Head(w)>>) \o Tail(w) = p \o (<<Head(w)>> \o Tail(w))
    BY <1>1, <1>3, ConcatAssociative
<1> QED
    BY <1>1, <1>2, <1>3, <1>4, <1>5

(* What two neighbours make together is all that matters to the whole.      *)
MakeTheSame(S, b, c, x, y) ==
    /\ b \in Seq(S) /\ c \in Seq(S) /\ x \in Seq(S) /\ y \in Seq(S)
    /\ b \o c = x \o y

(* The middle of three sequences may be cut elsewhere.                      *)
LEMMA Regrouped ==
    ASSUME NEW S, NEW a \in Seq(S), NEW b, NEW c, NEW x, NEW y, MakeTheSame(S, b, c, x, y)
    PROVE  (a \o b) \o c = (a \o x) \o y
<1>1. b \in Seq(S) /\ c \in Seq(S) => (a \o b) \o c = a \o (b \o c)
    BY ConcatAssociative
<1>2. x \in Seq(S) /\ y \in Seq(S) => (a \o x) \o y = a \o (x \o y)
    BY ConcatAssociative
<1> QED
    BY <1>1, <1>2 DEF MakeTheSame

(* Units may be grouped as one likes.                                       *)
LEMMA UnitsAssociative ==
    ASSUME NEW a \in Seq(Unit), NEW b \in Seq(Unit), NEW c \in Seq(Unit)
    PROVE  (a \o b) \o c = a \o (b \o c)
    BY ConcatAssociative

(* One more element at the end of the last of three.                        *)
LEMMA AppendedToLast ==
    ASSUME NEW S, NEW a \in Seq(S), NEW b \in Seq(S), NEW m \in S
    PROVE  a \o Append(b, m) = Append(a \o b, m)
<1>1. a \o b \in Seq(S) /\ <<m>> \in Seq(S)
    BY ConcatProperties
<1>2. Append(b, m) = b \o <<m>> /\ Append(a \o b, m) = (a \o b) \o <<m>>
    BY <1>1, AppendIsConcat
<1> QED
    BY <1>1, <1>2, ConcatAssociative

(* A list that begins with an element.                                      *)
LEMMA HeadTailFront ==
    ASSUME NEW S, NEW q \in Seq(S), q # <<>>, NEW r \in Seq(S)
    PROVE  /\ q = <<Head(q)>> \o Tail(q) /\ Head(q) \in S /\ Tail(q) \in Seq(S)
           /\ q \o r # <<>> /\ Head(q \o r) = Head(q) /\ Tail(q \o r) = Tail(q) \o r
<1>1. Head(q) \in S /\ Tail(q) \in Seq(S) /\ Len(Tail(q)) = Len(q) - 1
      /\ \A i \in 1 .. Len(Tail(q)) : Tail(q)[i] = q[i + 1]
    BY HeadTailProperties
<1>2. Len(q) \in Nat \ {0} /\ Len(r) \in Nat
    BY EmptySeq, LenProperties
<1>3. q = <<Head(q)>> \o Tail(q)
    <2>1. <<>> \in Seq(S)
        BY EmptySeq
    <2>2. Append(<<>>, Head(q)) \o Tail(q) = <<>> \o q
        BY <2>1, HandedOn
    <2>3. <<>> \o q = q /\ Append(<<>>, Head(q)) = <<Head(q)>>
        BY ConcatEmptySeq
    <2> QED
        BY <2>2, <2>3
<1> DEFINE x == q \o r
<1>4. /\ x \in Seq(S) /\ Len(x) = Len(q) + Len(r)
      /\ \A i \in 1 .. Len(q) + Len(r) : x[i] = IF i <= Len(q) THEN q[i] ELSE r[i - Len(q)]
    BY ConcatProperties
<1> HIDE DEF x
<1>5. x # <<>> /\ Len(x) \in Nat \ {0}
    <2>1. Len(x) \in Nat \ {0}
        BY <1>2, <1>4
    <2> QED
        BY <2>1, EmptySeq
<1>6. Head(x) = Head(q)
    <2>1. 1 \in 1 .. Len(q) + Len(r) /\ 1 <= Len(q)
        BY <1>2
    <2>2. Head(x) = x[1] /\ Head(q) = q[1]
        BY <1>4, <1>5
    <2> QED
        BY <1>4, <2>1, <2>2
<1>7. Tail(x) = Tail(q) \o r
    <2>1. Tail(x) \in Seq(S) /\ Len(Tail(x)) = Len(x) - 1 /\ \A i \in 1 .. Len(Tail(x)) : Tail(x)[i] = x[i + 1]
        BY <1>4, <1>5, HeadTailProperties
    <2> DEFINE y == Tail(q)
               z == Tail(x)
               w == y \o r
    <2>2. /\ w \in Seq(S) /\ Len(w) = Len(y) + Len(r)
          /\ \A i \in 1 .. Len(y) + Len(r) : w[i] = IF i <= Len(y) THEN y[i] ELSE r[i - Len(y)]
        BY <1>1, ConcatProperties
    <2>3. /\ z \in Seq(S) /\ Len(z) = Len(x) - 1 /\ \A i \in 1 .. Len(z) : z[i] = x[i + 1]
          /\ Len(y) = Len(q) - 1 /\ \A i \in 1 .. Len(y) : y[i] = q[i + 1]
        BY <1>1, <2>1
    <2> HIDE DEF w, y, z
    <2>4. Len(w) = Len(z)
        BY <1>2, <1>4, <2>2, <2>3
    <2>5. ASSUME NEW i \in 1 .. Len(z) PROVE z[i] = w[i]
        <3>1. i + 1 \in 1 .. Len(q) + Len(r) /\ z[i] = x[i + 1] /\ i \in 1 .. Len(y) + Len(r)
            BY <1>2, <1>4, <2>3
        <3>2. CASE i <= Len(y)
            <4>1. i + 1 <= Len(q) /\ i \in 1 .. Len(y)
                BY <1>2, <2>3, <3>1, <3>2
            <4> QED
                BY <1>4, <2>2, <2>3, <3>1, <3>2, <4>1
        <3>3. CASE ~(i <= Len(y))
            <4>1. ~(i + 1 <= Len(q)) /\ (i + 1) - Len(q) = i - Len(y)
                BY <1>2, <2>3, <3>1, <3>3
            <4> QED
                BY <1>4, <2>2, <3>1, <3>3, <4>1
        <3> QED
            BY <3>2, <3>3
    <2>6. z = w
        BY <2>2, <2>3, <2>4, <2>5, SeqEqual
    <2> QED
        BY <2>6 DEF w, y, z
<1> QED
    BY <1>1, <1>3, <1>5, <1>6, <1>7 DEF x
-----------------------------------------------------------------------------
(* The inductive invariant.                                                 *)

HeaderState == [kind : {"header"}, header : {h \in Seq(Unit) : Len(h) < HEADER_LENGTH}]
BodyState ==
    {rs \in [kind : {"body"}, stream : Stream, length : Nat, send_buffer : Seq(Unit)] :
        Len(rs.send_buffer) <= rs.length}

(* Every variable has its type, whatever is sent.                           *)
Typed ==
    /\ task \in [End -> [Stream -> [turn : 0 .. 2, number : 0 .. MaxExchanges]]]
    /\ \A s \in Stream : \A e \in End : task[e][s].turn < ExchangeLength[s]
    /\ outgoing \in [End -> Outgoing] /\ \A e \in End : Len(outgoing[e]) <= OUTGOING_CAPACITY
    /\ writing \in [End -> Seq(Unit)]
    /\ pipe \in [End -> Seq(Unit)] /\ \A e \in End : Len(pipe[e]) <= PipeCapacity
    /\ buf \in [End -> Seq(Unit)] /\ \A e \in End : Len(buf[e]) <= BUFFER_SIZE
    /\ read_state \in [End -> HeaderState \cup BodyState]
    /\ inbox \in [End -> [Stream -> Seq(Message)]]

(* Frames are written one after the other and read as they were written.    *)
AllFramed == \A e \in End : Framed(UnderWay(e))

(* What a task becomes by what it sends or receives.                        *)
Advance(t, s) ==
    [turn |-> (t.turn + 1) % ExchangeLength[s],
     number |-> IF t.turn = 0 THEN t.number + 1 ELSE t.number]

(* The tasks of a stream, of which a leads, are at the same point, and no   *)
(* message is under way; or a is ahead by the messages of A, or b by those  *)
(* of B, and these carry the numbers the other expects.                     *)
AheadOf(a, b, A, B, s) ==
    \/ a = b /\ A = <<>> /\ B = <<>>
    \/ /\ b.turn % 2 = 0 /\ a = Advance(b, s) /\ B = <<>>
       /\ Len(A) = 1 /\ NumberOf(A[1]) = a.number
    \/ /\ b.turn = 2 /\ a = Advance(Advance(b, s), s) /\ B = <<>>
       /\ Len(A) = 2 /\ NumberOf(A[1]) = b.number /\ NumberOf(A[2]) = a.number
    \/ /\ a.turn % 2 = 1 /\ b = Advance(a, s) /\ A = <<>>
       /\ Len(B) = 1 /\ NumberOf(B[1]) = b.number
InTurn(s) ==
    LET e == Leader[s] IN
    AheadOf(task[e][s], task[Other(e)][s], Transit[e][s], Transit[Other(e)][s], s)

IInv == Typed /\ AllFramed /\ \A s \in Stream : InTurn(s)

(* Either end has the other.                                                *)
LEMMA Ends ==
    /\ End = {"Client", "Server"}
    /\ \A e \in End : Other(e) \in End /\ Other(Other(e)) = e /\ Other(e) # e
    /\ \A e, x \in End : x = e \/ x = Other(e)
    BY DEF End, Other

(* What the reader has of a frame.                                          *)
Held(rs) == IF rs.kind = "header" THEN rs.header ELSE Header(rs.stream, rs.length) \o rs.send_buffer

(* A header is two units: the stream and the length.                        *)
LEMMA HeaderFacts ==
    ASSUME NEW s \in Stream, NEW l \in Nat
    PROVE  Header(s, l) \in Seq(Unit) /\ Len(Header(s, l)) = 2
           /\ Header(s, l)[1] = <<"stream", s>> /\ Header(s, l)[2] = <<"length", l>>
<1>1. <<"stream", s>> \in Unit /\ <<"length", l>> \in Unit
    BY DEF Unit
<1> QED
    BY <1>1 DEF Header

(* What the reader holds of a frame, by its state.                          *)
LEMMA HeldFacts ==
    ASSUME NEW rs \in HeaderState \cup BodyState
    PROVE  /\ Held(rs) \in Seq(Unit)
           /\ rs.kind = "header" => Held(rs) = rs.header /\ rs.header \in Seq(Unit) /\ Len(rs.header) < 2
           /\ rs.kind # "header" =>
                /\ rs.kind = "body" /\ rs.stream \in Stream /\ rs.length \in Nat
                /\ rs.send_buffer \in Seq(Unit) /\ Len(rs.send_buffer) <= rs.length
                /\ Held(rs) = Header(rs.stream, rs.length) \o rs.send_buffer
<1>1. CASE rs \in HeaderState
    BY <1>1 DEF HeaderState, Held, HEADER_LENGTH
<1>2. CASE rs \in BodyState
    <2>1. /\ rs.kind = "body" /\ rs.stream \in Stream /\ rs.length \in Nat
          /\ rs.send_buffer \in Seq(Unit) /\ Len(rs.send_buffer) <= rs.length
        BY <1>2 DEF BodyState
    <2>2. Header(rs.stream, rs.length) \in Seq(Unit)
        BY <2>1, HeaderFacts
    <2>3. Header(rs.stream, rs.length) \o rs.send_buffer \in Seq(Unit)
        BY <2>1, <2>2, ConcatProperties
    <2> QED
        BY <2>1, <2>3 DEF Held
<1> QED
    BY <1>1, <1>2

(* What is under way, piece by piece.                                       *)
Pieces(e, h, b, p, w) ==
    /\ h \in Seq(Unit) /\ b \in Seq(Unit) /\ p \in Seq(Unit) /\ w \in Seq(Unit)
    /\ h = Held(read_state[Other(e)]) /\ b = buf[Other(e)] /\ p = pipe[e] /\ w = writing[e]
    /\ h \o b \in Seq(Unit) /\ (h \o b) \o p \in Seq(Unit)
    /\ UnderWay(e) \in Seq(Unit) /\ UnderWay(e) = ((h \o b) \o p) \o w

(* The units under way are in the reader, its buffer, TCP and the writer.   *)
LEMMA UnderWayIs ==
    ASSUME Typed, NEW e \in End
    PROVE  Pieces(e, Held(read_state[Other(e)]), buf[Other(e)], pipe[e], writing[e])
<1> DEFINE h == Held(read_state[Other(e)])
           b == buf[Other(e)]
           p == pipe[e]
           w == writing[e]
<1>0. Other(e) \in End
    BY Ends
<1>1. read_state[Other(e)] \in HeaderState \cup BodyState /\ b \in Seq(Unit) /\ p \in Seq(Unit) /\ w \in Seq(Unit)
    BY <1>0 DEF Typed
<1>2. h \in Seq(Unit)
    BY <1>1, HeldFacts
<1>3. UnderWay(e) = ((h \o b) \o p) \o w
    BY DEF UnderWay, Held
<1> HIDE DEF h, b, p, w
<1>4. h \o b \in Seq(Unit)
    BY <1>1, <1>2, ConcatProperties
<1>5. (h \o b) \o p \in Seq(Unit)
    BY <1>1, <1>4, ConcatProperties
<1>6. ((h \o b) \o p) \o w \in Seq(Unit)
    BY <1>1, <1>5, ConcatProperties
<1> QED
    BY <1>1, <1>2, <1>3, <1>4, <1>5, <1>6 DEF Pieces, h, b, p, w

(* A reader that has both halves of a header knows stream and length.       *)
LEMMA UnitFacts ==
    ASSUME NEW x \in Unit, x[1] = "stream"
    PROVE  x[2] \in Stream /\ x = <<"stream", x[2]>>
    BY DEF Unit
-----------------------------------------------------------------------------
(* What a step does to the units under way.                                 *)

(* The same units after a step.                                             *)
LEMMA UnderWayAfter ==
    ASSUME NEW x \in End
    PROVE  UnderWay(x)' = ((Held(read_state'[Other(x)]) \o buf'[Other(x)]) \o pipe'[x]) \o writing'[x]
    BY DEF UnderWay, Held

(* A step that moves no unit leaves them.                                   *)
LEMMA UnderWaySame ==
    ASSUME NEW x \in End, read_state'[Other(x)] = read_state[Other(x)], buf'[Other(x)] = buf[Other(x)],
           pipe'[x] = pipe[x], writing'[x] = writing[x]
    PROVE  UnderWay(x)' = UnderWay(x)
    BY DEF UnderWay

(* Nothing moves while the multiplexers work on a frame.                    *)
Still == \A x \in End : UnderWay(x)' = UnderWay(x)

(* Units go from the writer to TCP.                                         *)
LEMMA WriteFrameStep ==
    ASSUME Typed, NEW e \in End, WriteFrame(e)
    PROVE  Typed' /\ Still
<1> DEFINE p == pipe[e]
           w == writing[e]
           p1 == Append(p, Head(w))
           a == Held(read_state[Other(e)]) \o buf[Other(e)]
<1>1. p \in Seq(Unit) /\ w \in Seq(Unit) /\ w # <<>> /\ Len(p) < PipeCapacity
    BY DEF Typed, WriteFrame
<1>2. p1 \in Seq(Unit) /\ Len(p1) = Len(p) + 1 /\ Tail(w) \in Seq(Unit) /\ p1 \o Tail(w) = p \o w
    <2> HIDE DEF p, w
    <2> QED
        BY <1>1, HandedOn DEF p1
<1>3. /\ pipe' = [pipe EXCEPT ![e] = p1] /\ writing' = [writing EXCEPT ![e] = Tail(w)]
      /\ UNCHANGED <<task, outgoing, buf, read_state, inbox>>
    BY DEF WriteFrame
<1>4. Len(p1) <= PipeCapacity
    <2>1. Len(p) \in Nat /\ PipeCapacity \in Nat
        BY <1>1, LenProperties, MultiplexerAssumption
    <2> HIDE DEF p, p1
    <2> QED
        BY <1>1, <1>2, <2>1
<1> HIDE DEF p1
<1>5. Typed'
    BY <1>2, <1>3, <1>4 DEF Typed
<1>6. ASSUME NEW x \in End PROVE UnderWay(x)' = UnderWay(x)
    <2>1. CASE x # e
        <3>1. pipe'[x] = pipe[x] /\ writing'[x] = writing[x]
            BY <1>3, <2>1 DEF Typed
        <3> QED
            BY <1>3, <3>1, UnderWaySame
    <2>2. CASE x = e
        <3>1. pipe'[x] = p1 /\ writing'[x] = Tail(w)
            BY <1>3, <2>2 DEF Typed
        <3>2. UnderWay(x)' = (a \o p1) \o Tail(w)
            BY <1>3, <2>2, <3>1, UnderWayAfter
        <3>3. UnderWay(x) = (a \o p) \o w /\ a \in Seq(Unit)
            BY <2>2, UnderWayIs DEF Pieces
        <3> DEFINE w1 == Tail(w)
        <3>4. MakeTheSame(Unit, p1, w1, p, w)
            BY <1>1, <1>2 DEF MakeTheSame
        <3> HIDE DEF a, p, w, w1
        <3>5. (a \o p1) \o w1 = (a \o p) \o w
            BY <3>3, <3>4, Regrouped
        <3> QED
            BY <3>2, <3>3, <3>5 DEF w1
    <2> QED
        BY <2>1, <2>2
<1> QED
    BY <1>5, <1>6 DEF Still

(* Units go from TCP to the buffer.                                         *)
LEMMA ReadPipeStep ==
    ASSUME Typed, NEW e \in End, ReadPipe(e)
    PROVE  Typed' /\ Still
<1> DEFINE o == Other(e)
           p == pipe[o]
           h == Held(read_state[e])
<1>1. PICK k \in 1 .. BUFFER_SIZE :
        /\ k <= Len(p)
        /\ buf' = [buf EXCEPT ![e] = SubSeq(p, 1, k)]
        /\ pipe' = [pipe EXCEPT ![o] = SubSeq(p, k + 1, Len(p))]
    BY DEF ReadPipe
<1>2. buf[e] = <<>> /\ UNCHANGED <<task, outgoing, writing, read_state, inbox>>
    BY DEF ReadPipe, Selecting, Reading
<1>3. o \in End /\ p \in Seq(Unit) /\ Len(p) \in Nat /\ Len(p) <= PipeCapacity
    BY Ends, LenProperties DEF Typed
<1>4. k \in 0 .. Len(p) /\ k <= BUFFER_SIZE /\ k \in Nat /\ PipeCapacity \in Nat
    BY <1>1, <1>3, MultiplexerAssumption
<1> DEFINE b1 == SubSeq(p, 1, k)
           p1 == SubSeq(p, k + 1, Len(p))
<1>5. b1 \in Seq(Unit) /\ p1 \in Seq(Unit) /\ Len(b1) = k /\ Len(p1) = Len(p) - k /\ b1 \o p1 = p
    <2> HIDE DEF p
    <2> QED
        BY <1>3, <1>4, Cut
<1>6. buf' = [buf EXCEPT ![e] = b1] /\ pipe' = [pipe EXCEPT ![o] = p1]
    BY <1>1
<1> HIDE DEF b1, p1
<1>7. Typed'
    <2>1. Len(b1) <= BUFFER_SIZE /\ Len(p1) <= PipeCapacity
        <3> HIDE DEF p
        <3> QED
            BY <1>3, <1>4, <1>5
    <2> HIDE DEF p, o
    <2> QED
        BY <1>2, <1>3, <1>5, <1>6, <2>1 DEF Typed
<1>8. ASSUME NEW x \in End PROVE UnderWay(x)' = UnderWay(x)
    <2>1. CASE x = e
        <3>1. o # e /\ Other(x) = o
            BY <2>1, Ends
        <3>2. pipe'[x] = pipe[x] /\ buf'[Other(x)] = buf[Other(x)]
            BY <1>3, <1>6, <2>1, <3>1 DEF Typed
        <3> QED
            BY <1>2, <3>2, UnderWaySame
    <2>2. CASE x = o
        <3>1. Other(x) = e
            BY <2>2, Ends
        <3>2. pipe'[x] = p1 /\ buf'[Other(x)] = b1
            BY <1>3, <1>6, <2>2, <3>1 DEF Typed
        <3>3. UnderWay(x)' = ((h \o b1) \o p1) \o writing[x]
            BY <1>2, <2>2, <3>1, <3>2, UnderWayAfter
        <3>4. UnderWay(x) = ((h \o buf[e]) \o p) \o writing[x] /\ h \in Seq(Unit)
            BY <2>2, <3>1, UnderWayIs DEF Pieces
        <3>5. <<>> \in Seq(Unit) /\ <<>> \o p = p
            BY <1>3, EmptySeq, ConcatEmptySeq
        <3> DEFINE b == buf[e]
        <3>6. MakeTheSame(Unit, b1, p1, b, p)
            BY <1>2, <1>3, <1>5, <3>5 DEF MakeTheSame
        <3> HIDE DEF h, p, b
        <3>7. (h \o b1) \o p1 = (h \o b) \o p
            BY <3>4, <3>6, Regrouped
        <3> QED
            BY <3>3, <3>4, <3>7 DEF b
    <2> QED
        BY <2>1, <2>2, Ends
<1> QED
    BY <1>7, <1>8 DEF Still
(* The reader moves units from its buffer to what it has of the frame.      *)
Feeds(e, k, rs) ==
    /\ k \in 0 .. Len(buf[e])
    /\ rs \in HeaderState \cup BodyState
    /\ Held(rs) = Held(read_state[e]) \o FromBuf(e, k)
    /\ read_state' = [read_state EXCEPT ![e] = rs]
    /\ buf' = BufAfter(e, k)
    /\ UNCHANGED <<task, outgoing, writing, pipe, inbox>>

(* Units go from the buffer to the reader.                                  *)
LEMMA FeedsStep ==
    ASSUME Typed, NEW e \in End, NEW k, NEW rs, Feeds(e, k, rs)
    PROVE  Typed' /\ Still
<1> DEFINE b == buf[e]
           h == Held(read_state[e])
           h1 == Held(rs)
           f == SubSeq(b, 1, k)
           b1 == SubSeq(b, k + 1, Len(b))
<1>1. b \in Seq(Unit) /\ Len(b) \in Nat /\ Len(b) <= BUFFER_SIZE /\ k \in 0 .. Len(b)
    BY LenProperties DEF Typed, Feeds
<1>2. f \in Seq(Unit) /\ b1 \in Seq(Unit) /\ Len(b1) = Len(b) - k /\ f \o b1 = b
    <2> HIDE DEF b
    <2> QED
        BY <1>1, Cut
<1>3. /\ rs \in HeaderState \cup BodyState /\ h1 = h \o f
      /\ read_state' = [read_state EXCEPT ![e] = rs] /\ buf' = [buf EXCEPT ![e] = b1]
      /\ UNCHANGED <<task, outgoing, writing, pipe, inbox>>
    BY DEF Feeds, FromBuf, BufAfter
<1>4. h \in Seq(Unit) /\ h1 \in Seq(Unit)
    BY <1>3, HeldFacts DEF Typed
<1>5. h1 \o b1 = h \o b
    <2>0. h \in Seq(Unit) /\ f \in Seq(Unit) /\ b1 \in Seq(Unit)
        BY <1>2, <1>4
    <2> HIDE DEF h, h1, f, b, b1
    <2>1. (h \o f) \o b1 = h \o (f \o b1)
        BY <2>0, UnitsAssociative
    <2> QED
        BY <1>2, <1>3, <2>1
<1>6. Len(b1) <= BUFFER_SIZE
    <2>1. BUFFER_SIZE \in Nat
        BY MultiplexerAssumption
    <2> HIDE DEF b, b1
    <2> QED
        BY <1>1, <1>2, <2>1
<1> HIDE DEF b1, f, h1
<1>7. Typed'
    BY <1>2, <1>3, <1>6 DEF Typed
<1>8. ASSUME NEW x \in End PROVE UnderWay(x)' = UnderWay(x)
    <2>1. CASE Other(x) # e
        <3>1. Other(x) \in End
            BY Ends
        <3>2. read_state'[Other(x)] = read_state[Other(x)] /\ buf'[Other(x)] = buf[Other(x)]
            BY <1>3, <2>1, <3>1 DEF Typed
        <3> QED
            BY <1>3, <3>2, UnderWaySame
    <2>2. CASE Other(x) = e
        <3>1. read_state'[Other(x)] = rs /\ buf'[Other(x)] = b1
            BY <1>3, <2>2 DEF Typed
        <3>2. UnderWay(x)' = ((h1 \o b1) \o pipe[x]) \o writing[x]
            BY <1>3, <3>1, UnderWayAfter DEF h1
        <3>3. UnderWay(x) = ((h \o b) \o pipe[x]) \o writing[x]
            BY <2>2, UnderWayIs DEF Pieces
        <3> QED
            BY <1>5, <3>2, <3>3
    <2> QED
        BY <2>1, <2>2
<1> QED
    BY <1>7, <1>8 DEF Still

(* The header of the frame that is read is the first of what is under way.  *)
LEMMA HeaderFirst ==
    ASSUME NEW h \in Seq(Unit), Len(h) = 2, NEW b \in Seq(Unit), NEW p \in Seq(Unit), NEW w \in Seq(Unit),
           NEW u \in Seq(Unit), u = ((h \o b) \o p) \o w, Framed(u)
    PROVE  h[1][2] \in Stream /\ h[2][2] \in Nat /\ h = Header(h[1][2], h[2][2])
<1>1. h \o b \in Seq(Unit) /\ Len(h \o b) = Len(h) + Len(b) /\ Len(b) \in Nat
      /\ \A i \in 1 .. Len(h) + Len(b) : (h \o b)[i] = IF i <= Len(h) THEN h[i] ELSE b[i - Len(h)]
    BY ConcatProperties, LenProperties
<1> DEFINE x == h \o b
<1>2. x \in Seq(Unit) /\ Len(x) \in Nat /\ Len(x) >= 2 /\ x[1] = h[1] /\ x[2] = h[2]
    BY <1>1
<1> HIDE DEF x
<1> DEFINE y == x \o p
<1>3. y \in Seq(Unit) /\ Len(y) = Len(x) + Len(p) /\ Len(p) \in Nat
      /\ \A i \in 1 .. Len(x) + Len(p) : y[i] = IF i <= Len(x) THEN x[i] ELSE p[i - Len(x)]
    BY <1>2, ConcatProperties, LenProperties
<1>4. y \in Seq(Unit) /\ Len(y) \in Nat /\ Len(y) >= 2 /\ y[1] = h[1] /\ y[2] = h[2]
    <2> HIDE DEF y
    <2> QED
        BY <1>2, <1>3
<1>5. u = y \o w
    BY DEF x
<1> HIDE DEF y
<1>6. Len(u) = Len(y) + Len(w) /\ Len(w) \in Nat
      /\ \A i \in 1 .. Len(y) + Len(w) : u[i] = IF i <= Len(y) THEN y[i] ELSE w[i - Len(y)]
    BY <1>4, <1>5, ConcatProperties, LenProperties
<1>7. Len(u) \in Nat /\ Len(u) >= 2 /\ u[1] = h[1] /\ u[2] = h[2]
    <2>1. Len(y) \in Nat /\ Len(y) >= 2 /\ Len(w) \in Nat
        BY <1>4, <1>6
    <2>2. 1 \in 1 .. Len(y) + Len(w) /\ 2 \in 1 .. Len(y) + Len(w) /\ 1 <= Len(y) /\ 2 <= Len(y)
        BY <2>1
    <2>3. u[1] = y[1] /\ u[2] = y[2]
        BY <1>6, <2>2
    <2>4. Len(u) \in Nat /\ Len(u) >= 2
        BY <1>6, <2>1
    <2> QED
        BY <1>4, <2>3, <2>4
<1>8. u[1][1] = "stream" /\ 1 \in DOMAIN u
    <2>1. u # <<>> /\ DOMAIN u = 1 .. Len(u)
        BY <1>7, EmptySeq, LenProperties
    <2> QED
        BY <1>7, <2>1 DEF Framed
<1>9. PICK l \in AllSizes, n \in Numbers : FrameIs(u, 1, l, n)
    BY <1>8 DEF Framed
<1>10. u[2] = <<"length", l>> /\ l \in Nat
    <2>1. u[1 + 1] = <<"length", l>> /\ 1 + 1 = 2
        BY <1>9 DEF FrameIs
    <2>2. l \in Nat
        BY SizesFacts
    <2> QED
        BY <2>1, <2>2
<1>11. u[1] \in Unit
    <2>1. 1 \in 1 .. Len(u)
        BY <1>7
    <2> QED
        BY <2>1, ElementOfSeq
<1>12. h[1][2] \in Stream /\ h[1] = <<"stream", h[1][2]>>
    BY <1>7, <1>8, <1>11, UnitFacts
<1>13. h[2][2] \in Nat /\ h[2] = <<"length", h[2][2]>>
    BY <1>7, <1>10
<1> DEFINE r == Header(h[1][2], h[2][2])
<1>14. r \in Seq(Unit) /\ Len(r) = 2 /\ r[1] = h[1] /\ r[2] = h[2]
    BY <1>12, <1>13, HeaderFacts
<1> HIDE DEF r
<1>15. \A i \in 1 .. Len(h) : h[i] = r[i]
    BY <1>14
<1>16. h = r
    BY <1>14, <1>15, SeqEqual
<1> QED
    BY <1>12, <1>13, <1>16 DEF r

(* The reader of a header keeps the units and learns a stream.              *)
LEMMA HandleHeaderStep ==
    ASSUME Typed, AllFramed, NEW e \in End, handle_header(e)
    PROVE  Typed' /\ Still
<1> DEFINE o == Other(e)
           rs == read_state[e]
           b == buf[e]
           g == rs.header
           c == Lesser(Len(b), HEADER_LENGTH - Len(g))
           f == SubSeq(b, 1, c)
           b1 == SubSeq(b, c + 1, Len(b))
           h == g \o f
           rs1 == IF Len(h) = HEADER_LENGTH THEN ProcessingBody(h[1][2], h[2][2], <<>>) ELSE ProcessingHeader(h)
<1>1. rs \in HeaderState \cup BodyState /\ rs.kind = "header" /\ b \in Seq(Unit) /\ Len(b) \in Nat
    BY LenProperties DEF Typed, handle_header
<1>2. g \in Seq(Unit) /\ Len(g) < 2 /\ Len(g) \in Nat /\ Held(rs) = g
    <2>1. g \in Seq(Unit) /\ Len(g) < 2 /\ Held(rs) = g
        BY <1>1, HeldFacts
    <2> QED
        BY <2>1, LenProperties
<1>3. c \in 0 .. Len(b) /\ Len(g) + c <= 2
    <2> HIDE DEF b, g
    <2> QED
        BY <1>1, <1>2 DEF Lesser, HEADER_LENGTH
<1>4. f \in Seq(Unit) /\ Len(f) = c /\ b1 \in Seq(Unit) /\ f \o b1 = b
    <2> HIDE DEF b, c
    <2> QED
        BY <1>1, <1>3, Cut
<1>5. h \in Seq(Unit) /\ Len(h) = Len(g) + c
    <2> HIDE DEF g, f, c
    <2> QED
        BY <1>2, <1>4, ConcatProperties
<1>6. ASSUME Len(h) = 2 PROVE h[1][2] \in Stream /\ h[2][2] \in Nat /\ h = Header(h[1][2], h[2][2])
    <2>1. o \in End /\ Other(o) = e
        BY Ends
    <2>2. Pieces(o, g, b, pipe[o], writing[o])
        BY <1>2, <2>1, UnderWayIs
    <2> DEFINE p == pipe[o]
               w == writing[o]
               u == UnderWay(o)
    <2>3. Framed(u)
        BY <2>1 DEF AllFramed
    <2>4. p \in Seq(Unit) /\ w \in Seq(Unit) /\ u \in Seq(Unit) /\ u = ((g \o b) \o p) \o w
        BY <2>2 DEF Pieces
    <2>5. g \o b = h \o b1
        <3> HIDE DEF g, b, f, b1
        <3>0. g \in Seq(Unit) /\ f \in Seq(Unit) /\ b1 \in Seq(Unit)
            BY <1>2, <1>4
        <3>1. (g \o f) \o b1 = g \o (f \o b1)
            BY <3>0, UnitsAssociative
        <3> QED
            BY <1>4, <3>1 DEF h
    <2> HIDE DEF g, b, f, b1, p, w, u, h
    <2>6. u = ((h \o b1) \o p) \o w
        BY <2>4, <2>5
    <2>7. /\ h \in Seq(Unit) /\ Len(h) = 2 /\ b1 \in Seq(Unit) /\ p \in Seq(Unit) /\ w \in Seq(Unit)
          /\ u \in Seq(Unit) /\ Framed(u)
        BY <1>4, <1>5, <1>6, <2>3, <2>4
    <2> QED
        BY <2>6, <2>7, HeaderFirst
<1>7. rs1 \in HeaderState \cup BodyState /\ Held(rs1) = h
    <2>1. CASE Len(h) = HEADER_LENGTH
        <3> DEFINE s == h[1][2]
                   l == h[2][2]
        <3>1. s \in Stream /\ l \in Nat /\ h = Header(s, l) /\ rs1 = ProcessingBody(s, l, <<>>)
            BY <1>6, <2>1 DEF HEADER_LENGTH
        <3> HIDE DEF s, l, h, rs1
        <3>2. <<>> \in Seq(Unit) /\ Len(<<>>) = 0 /\ 0 <= l
            BY <3>1, EmptySeq
        <3>3. rs1 \in BodyState
            BY <3>1, <3>2 DEF BodyState, ProcessingBody
        <3>4. Held(rs1) = h \o <<>>
            BY <3>1 DEF Held, ProcessingBody
        <3>5. h \o <<>> = h
            BY <1>5, ConcatEmptySeq
        <3> QED
            BY <3>3, <3>4, <3>5
    <2>2. CASE Len(h) # HEADER_LENGTH
        <3>1. rs1 = ProcessingHeader(h)
            BY <2>2
        <3>2. Len(h) < HEADER_LENGTH
            <4> HIDE DEF h, c
            <4> QED
                BY <1>2, <1>3, <1>5, <2>2 DEF HEADER_LENGTH
        <3> HIDE DEF h, rs1
        <3>3. rs1 \in HeaderState
            BY <1>5, <3>1, <3>2 DEF HeaderState, ProcessingHeader
        <3>4. Held(rs1) = h
            BY <3>1 DEF Held, ProcessingHeader
        <3> QED
            BY <3>3, <3>4
    <2> QED
        BY <2>1, <2>2
<1>8. Feeds(e, c, rs1)
    <2>1. /\ read_state' = [read_state EXCEPT ![e] = rs1] /\ buf' = BufAfter(e, c)
          /\ UNCHANGED <<task, outgoing, writing, pipe, inbox>>
        BY DEF handle_header, FromBuf
    <2>2. FromBuf(e, c) = f
        BY DEF FromBuf
    <2>3. Held(rs1) = Held(rs) \o FromBuf(e, c)
        <3> HIDE DEF f, g, rs, rs1
        <3> QED
            BY <1>2, <1>7, <2>2 DEF h
    <2> HIDE DEF rs1, c
    <2> QED
        BY <1>3, <1>7, <2>1, <2>3 DEF Feeds
<1> HIDE DEF rs1, c
<1> QED
    BY <1>8, FeedsStep

(* The reader of a body keeps the units.                                    *)
LEMMA HandleBodyStep ==
    ASSUME Typed, NEW e \in End, handle_body(e)
    PROVE  Typed' /\ Still
<1> DEFINE rs == read_state[e]
           b == buf[e]
           g == rs.send_buffer
           c == Lesser(Len(b), rs.length - Len(g))
           f == SubSeq(b, 1, c)
           h == Header(rs.stream, rs.length)
           rs1 == [rs EXCEPT !.send_buffer = g \o f]
<1>1. rs \in HeaderState \cup BodyState /\ rs.kind = "body" /\ b \in Seq(Unit) /\ Len(b) \in Nat
    BY LenProperties DEF Typed, handle_body
<1>2. rs \in BodyState
    BY <1>1 DEF HeaderState
<1>3. /\ rs.stream \in Stream /\ rs.length \in Nat /\ g \in Seq(Unit) /\ Len(g) \in Nat /\ Len(g) <= rs.length
      /\ rs \in [kind : {"body"}, stream : Stream, length : Nat, send_buffer : Seq(Unit)]
    <2>1. /\ rs.stream \in Stream /\ rs.length \in Nat /\ g \in Seq(Unit) /\ Len(g) <= rs.length
          /\ rs \in [kind : {"body"}, stream : Stream, length : Nat, send_buffer : Seq(Unit)]
        <3> HIDE DEF rs
        <3> QED
            BY <1>2 DEF BodyState
    <2> QED
        BY <2>1, LenProperties
<1>4. c \in 0 .. Len(b) /\ Len(g) + c <= rs.length
    <2> HIDE DEF b, g, rs
    <2> QED
        BY <1>1, <1>3 DEF Lesser
<1>5. f \in Seq(Unit) /\ Len(f) = c
    <2> HIDE DEF b, c
    <2> QED
        BY <1>1, <1>4, Cut
<1>6. g \o f \in Seq(Unit) /\ Len(g \o f) = Len(g) + c
    <2> HIDE DEF g, f, c
    <2> QED
        BY <1>3, <1>5, ConcatProperties
<1>7. /\ rs1 \in BodyState /\ rs1.kind = "body" /\ rs1.stream = rs.stream /\ rs1.length = rs.length
      /\ rs1.send_buffer = g \o f
    <2> DEFINE y == g \o f
    <2>1. y \in Seq(Unit) /\ Len(y) <= rs.length
        BY <1>4, <1>6
    <2> HIDE DEF y
    <2>2. /\ [rs EXCEPT !.send_buffer = y] \in [kind : {"body"}, stream : Stream, length : Nat, send_buffer : Seq(Unit)]
          /\ [rs EXCEPT !.send_buffer = y].send_buffer = y
          /\ [rs EXCEPT !.send_buffer = y].length = rs.length
          /\ [rs EXCEPT !.send_buffer = y].stream = rs.stream
          /\ [rs EXCEPT !.send_buffer = y].kind = rs.kind
        <3> HIDE DEF rs
        <3> QED
            BY <1>3, <2>1
    <2>3. rs1 = [rs EXCEPT !.send_buffer = y]
        BY DEF y
    <2> HIDE DEF rs1
    <2> QED
        BY <1>1, <2>1, <2>2, <2>3 DEF BodyState, y
<1>8. Held(rs1) = Held(rs) \o f
    <2>1. Held(rs1) = h \o (g \o f)
        <3> HIDE DEF rs1
        <3> QED
            BY <1>7 DEF Held
    <2>2. Held(rs) = h \o g
        BY <1>1 DEF Held
    <2>3. h \in Seq(Unit)
        BY <1>3, HeaderFacts
    <2> HIDE DEF h, g, f
    <2>4. (h \o g) \o f = h \o (g \o f)
        BY <1>3, <1>5, <2>3, ConcatAssociative
    <2> QED
        BY <2>1, <2>2, <2>4
<1>9. Feeds(e, c, rs1)
    <2>1. buf' = BufAfter(e, c) /\ UNCHANGED <<task, outgoing, writing, pipe, inbox>>
        BY DEF handle_body, FromBuf
    <2>2. FromBuf(e, c) = f
        BY DEF FromBuf
    <2>3. read_state' = [read_state EXCEPT ![e] = rs1]
        BY DEF handle_body, FromBuf
    <2> HIDE DEF rs1, c, f, rs
    <2> QED
        BY <1>4, <1>7, <1>8, <2>1, <2>2, <2>3 DEF Feeds, rs
<1> HIDE DEF rs1, c
<1> QED
    BY <1>9, FeedsStep
-----------------------------------------------------------------------------
(* What a step does to the messages under way.                              *)

(* What is under way on one stream, before and after a step.                *)
LEMMA TransitIs ==
    ASSUME NEW e \in End, NEW s \in Stream
    PROVE  /\ Transit[e][s] = (inbox[Other(e)][s] \o MessagesIn(UnderWay(e), s)) \o MessagesOf(outgoing[e], s)
           /\ Transit'[e][s] = (inbox'[Other(e)][s] \o MessagesIn(UnderWay(e)', s)) \o MessagesOf(outgoing'[e], s)
    BY DEF Transit

(* It is three lists of messages.                                           *)
LEMMA TransitParts ==
    ASSUME Typed, AllFramed, NEW e \in End, NEW s \in Stream
    PROVE  /\ inbox[Other(e)][s] \in Seq(Message) /\ MessagesIn(UnderWay(e), s) \in Seq(Message)
           /\ MessagesOf(outgoing[e], s) \in Seq(Message) /\ Transit[e][s] \in Seq(Message)
<1> DEFINE i == inbox[Other(e)][s]
           q == MessagesIn(UnderWay(e), s)
           r == MessagesOf(outgoing[e], s)
<1>1. i \in Seq(Message)
    BY Ends DEF Typed
<1>2. q \in Seq(Message)
    <2>1. UnderWay(e) \in Seq(Unit) /\ Framed(UnderWay(e))
        BY UnderWayIs DEF Pieces, AllFramed
    <2> QED
        BY <2>1, MessagesCarried DEF Lists
<1>3. r \in Seq(Message)
    <2>1. outgoing[e] \in Outgoing
        BY DEF Typed
    <2> QED
        BY <2>1, EntriesListed DEF Lists
<1>4. Transit[e][s] = (i \o q) \o r
    BY TransitIs
<1> HIDE DEF i, q, r
<1>5. i \o q \in Seq(Message)
    BY <1>1, <1>2, ConcatProperties
<1>6. (i \o q) \o r \in Seq(Message)
    BY <1>3, <1>5, ConcatProperties
<1> QED
    BY <1>1, <1>2, <1>3, <1>4, <1>6 DEF i, q, r

(* A line stays as it is when its three lists do.                           *)
LEMMA LineSame ==
    ASSUME NEW e \in End, NEW s \in Stream, inbox'[Other(e)][s] = inbox[Other(e)][s],
           UnderWay(e)' = UnderWay(e), outgoing'[e] = outgoing[e]
    PROVE  Transit'[e][s] = Transit[e][s]
<1>1. MessagesIn(UnderWay(e)', s) = MessagesIn(UnderWay(e), s) /\ MessagesOf(outgoing'[e], s) = MessagesOf(outgoing[e], s)
    OBVIOUS
<1> QED
    BY <1>1, TransitIs

(* Equal on every stream is equal.                                          *)
LEMMA TransitSame ==
    ASSUME \A e \in End : \A s \in Stream : Transit'[e][s] = Transit[e][s]
    PROVE  Transit' = Transit
<1>1. Transit = [e \in End |-> [s \in Stream |-> Transit[e][s]]]
    BY DEF Transit
<1>2. Transit' = [e \in End |-> [s \in Stream |-> Transit'[e][s]]]
    BY DEF Transit
<1> QED
    BY <1>1, <1>2

(* All other lines stay as they are.                                        *)
OthersStay(e, s) ==
    \A x \in End : \A t \in Stream : (x # e \/ t # s) => Transit'[x][t] = Transit[x][t]

(* A step that changes one stream.                                          *)
LEMMA TransitChanged ==
    ASSUME NEW e \in End, NEW s \in Stream, OthersStay(e, s)
    PROVE  Transit' = [Transit EXCEPT ![e][s] = Transit'[e][s]]
<1>1. Transit = [x \in End |-> [t \in Stream |-> Transit[x][t]]]
    BY DEF Transit
<1>2. Transit' = [x \in End |-> [t \in Stream |-> Transit'[x][t]]]
    BY DEF Transit
<1> DEFINE T == Transit
           U == Transit'
<1>3. \A x \in End : \A t \in Stream : (x # e \/ t # s) => U[x][t] = T[x][t]
    BY DEF OthersStay
<1>4. /\ T = [x \in End |-> [t \in Stream |-> T[x][t]]]
      /\ U = [x \in End |-> [t \in Stream |-> U[x][t]]]
    BY <1>1, <1>2
<1> HIDE DEF T, U
<1>5. U = [T EXCEPT ![e][s] = U[e][s]]
    <2> DEFINE Z == [T EXCEPT ![e][s] = U[e][s]]
    <2>1. /\ DOMAIN T = End /\ \A x \in End : DOMAIN T[x] = Stream
        BY <1>4
    <2>2. Z = [x \in End |-> IF x = e THEN [T[e] EXCEPT ![s] = U[e][s]] ELSE T[x]]
        BY <2>1
    <2>3. ASSUME NEW x \in End PROVE U[x] = Z[x]
        <3>1. U[x] = [t \in Stream |-> U[x][t]] /\ T[x] = [t \in Stream |-> T[x][t]]
            BY <1>4
        <3>2. CASE x = e
            <4>1. Z[x] = [t \in Stream |-> IF t = s THEN U[e][s] ELSE T[e][t]]
                BY <2>2, <3>1, <3>2
            <4> HIDE DEF Z
            <4> QED
                BY <1>3, <3>1, <3>2, <4>1
        <3>3. CASE x # e
            <4>1. Z[x] = T[x]
                BY <2>2, <3>3
            <4> HIDE DEF Z
            <4> QED
                BY <1>3, <3>1, <3>3, <4>1
        <3> QED
            BY <3>2, <3>3
    <2>4. Z = [x \in End |-> Z[x]]
        BY <2>2
    <2> HIDE DEF Z
    <2>5. U = Z
        BY <1>4, <2>3, <2>4
    <2> QED
        BY <2>5 DEF Z
<1> QED
    BY <1>5 DEF T, U

(* If the units and the queues stay, so do the messages.                    *)
LEMMA StillSame ==
    ASSUME Still, inbox' = inbox, outgoing' = outgoing
    PROVE  Transit' = Transit
<1>1. ASSUME NEW e \in End, NEW s \in Stream PROVE Transit'[e][s] = Transit[e][s]
    <2>1. UnderWay(e)' = UnderWay(e)
        BY DEF Still
    <2> QED
        BY <2>1, TransitIs
<1> QED
    BY <1>1, TransitSame

(* Where no unit comes or goes, frames stay whole.                          *)
LEMMA StillFramed ==
    ASSUME Still, AllFramed
    PROVE  AllFramed'
    BY DEF Still, AllFramed

(* Messages may be grouped as one likes.                                    *)
LEMMA MessagesAssociative ==
    ASSUME NEW a \in Seq(Message), NEW b \in Seq(Message), NEW c \in Seq(Message)
    PROVE  (a \o b) \o c = a \o (b \o c)
    BY ConcatAssociative

(* A message that goes from the head of a list to the end of another.       *)
LEMMA Reunited ==
    ASSUME NEW q \in Seq(Message), NEW r \in Seq(Message), NEW m \in Message
    PROVE  /\ Append(q, m) \in Seq(Message) /\ <<m>> \o r \in Seq(Message)
           /\ Append(q, m) \o r = q \o (<<m>> \o r)
<1>1. <<m>> \in Seq(Message)
    OBVIOUS
<1>2. Append(q, m) = q \o <<m>>
    BY AppendIsConcat
<1>3. (q \o <<m>>) \o r = q \o (<<m>> \o r)
    BY <1>1, MessagesAssociative
<1>4. Append(q, m) \in Seq(Message) /\ <<m>> \o r \in Seq(Message)
    BY <1>1, AppendProperties, ConcatProperties
<1> QED
    BY <1>2, <1>3, <1>4
(* Two lists before a third, with a message that goes from the third or the *)
(* second to the one before.                                                *)
LEMMA ReunitedLast ==
    ASSUME NEW i \in Seq(Message), NEW q \in Seq(Message), NEW r \in Seq(Message), NEW m \in Message
    PROVE  (i \o Append(q, m)) \o r = (i \o q) \o (<<m>> \o r)
<1> DEFINE q1 == Append(q, m)
           r1 == <<m>> \o r
<1>1. MakeTheSame(Message, q1, r, q, r1)
    BY Reunited DEF MakeTheSame
<1> HIDE DEF q1, r1
<1>2. (i \o q1) \o r = (i \o q) \o r1
    BY <1>1, Regrouped
<1> QED
    BY <1>2 DEF q1, r1

(* A message put in an inbox stays before those still carried.              *)
LEMMA ReunitedFirst ==
    ASSUME NEW i \in Seq(Message), NEW q \in Seq(Message), NEW r, NEW m \in Message
    PROVE  (Append(i, m) \o q) \o r = (i \o (<<m>> \o q)) \o r
    BY Reunited

(* The multiplexer takes a message: it goes on as a frame.                  *)
LEMMA TakeOutgoingStep ==
    ASSUME Typed, AllFramed, NEW e \in End, TakeOutgoing(e)
    PROVE  Typed' /\ AllFramed' /\ Transit' = Transit
<1> DEFINE x == outgoing[e]
           s == Head(x)[1]
           m == Head(x)[2]
           F == Frame(s, m)
           u == UnderWay(e)
           w == u \o F
<1>1. x \in Outgoing /\ x # <<>> /\ Len(x) <= OUTGOING_CAPACITY /\ Len(x) \in Nat
    BY LenProperties DEF Typed, TakeOutgoing, Outgoing
<1>2. s \in Stream /\ m \in Message /\ Tail(x) \in Outgoing /\ Len(Tail(x)) = Len(x) - 1
    <2> HIDE DEF x
    <2>1. ASSUME NEW t \in Stream
          PROVE  Head(x) \in Stream \X Message /\ Tail(x) \in Outgoing /\ Len(Tail(x)) = Len(x) - 1
        BY <1>1, OutgoingHead
    <2>2. Head(x) \in Stream \X Message
        BY <1>1, HeadTailProperties DEF Outgoing
    <2>3. Head(x)[1] \in Stream /\ Head(x)[2] \in Message
        BY <2>2
    <2> QED
        BY <2>1, <2>3
<1>3. /\ writing[e] = <<>> /\ writing' = [writing EXCEPT ![e] = F]
      /\ outgoing' = [outgoing EXCEPT ![e] = Tail(x)]
      /\ UNCHANGED <<task, pipe, buf, read_state, inbox>>
    BY DEF TakeOutgoing, Selecting
<1>4. F \in Seq(Unit)
    <2> HIDE DEF s, m
    <2> QED
        BY <1>2, FrameFacts
<1>5. Typed'
    <2>1. Len(Tail(x)) <= OUTGOING_CAPACITY
        <3>1. OUTGOING_CAPACITY \in Nat
            BY MultiplexerAssumption
        <3> HIDE DEF x
        <3> QED
            BY <1>1, <1>2, <3>1
    <2> HIDE DEF F, x
    <2> QED
        BY <1>2, <1>3, <1>4, <2>1 DEF Typed
<1>6. u \in Seq(Unit) /\ Framed(u) /\ UnderWay(e)' = w
    <2> DEFINE a == (Held(read_state[Other(e)]) \o buf[Other(e)]) \o pipe[e]
    <2>1. u \in Seq(Unit) /\ a \in Seq(Unit) /\ u = a \o writing[e]
        BY UnderWayIs DEF Pieces
    <2>2. UnderWay(e)' = a \o F
        <3>1. writing'[e] = F
            BY <1>3 DEF Typed
        <3> QED
            BY <1>3, <3>1, UnderWayAfter
    <2>3. u = a
        <3> HIDE DEF a, u
        <3> QED
            BY <1>3, <2>1, ConcatEmptySeq
    <2>4. Framed(u)
        BY DEF AllFramed
    <2> QED
        BY <2>1, <2>2, <2>3, <2>4
<1>7. ASSUME NEW y \in End, y # e PROVE UnderWay(y)' = UnderWay(y)
    <2>1. writing'[y] = writing[y]
        BY <1>3, <1>7 DEF Typed
    <2> QED
        BY <1>3, <2>1, UnderWaySame
<1>8. Appended(u, s, m, w) /\ w \in Seq(Unit)
    <2> HIDE DEF u, s, m, w
    <2>1. w = u \o Frame(s, m)
        BY DEF w
    <2>2. Appended(u, s, m, w)
        BY <1>2, <1>6, <2>1, AppendedUnits
    <2> QED
        BY <2>2 DEF Appended
<1>9. Framed(w)
    <2> HIDE DEF u, s, m, w
    <2> QED
        BY <1>2, <1>6, <1>8, FramedAppend
<1>10. AllFramed'
    <2>1. ASSUME NEW y \in End PROVE Framed(UnderWay(y)')
        BY <1>6, <1>7, <1>9 DEF AllFramed
    <2> QED
        BY <2>1 DEF AllFramed
<1>11. ASSUME NEW y \in End, NEW t \in Stream PROVE Transit'[y][t] = Transit[y][t]
    <2>1. CASE y # e
        <3>1. UnderWay(y)' = UnderWay(y) /\ outgoing'[y] = outgoing[y]
            BY <1>3, <1>7, <2>1 DEF Typed
        <3> QED
            BY <1>3, <3>1, LineSame
    <2>2. CASE y = e
        <3> DEFINE i == inbox[Other(e)][t]
                   q == MessagesIn(u, t)
                   r == MessagesOf(x, t)
                   q1 == MessagesIn(w, t)
                   r1 == MessagesOf(Tail(x), t)
        <3>1. Transit[y][t] = (i \o q) \o r
            BY <2>2, TransitIs
        <3>2. Transit'[y][t] = (i \o q1) \o r1
            <4>1. outgoing'[e] = Tail(x)
                BY <1>3 DEF Typed
            <4>2. Transit'[e][t] = (inbox'[Other(e)][t] \o MessagesIn(UnderWay(e)', t)) \o MessagesOf(outgoing'[e], t)
                BY TransitIs
            <4> QED
                BY <1>3, <1>6, <2>2, <4>1, <4>2
        <3>3. i \in Seq(Message) /\ q \in Seq(Message)
            BY TransitParts
        <3>4. r1 \in Seq(Message)
            <4> HIDE DEF x
            <4> QED
                BY <1>2, EntriesListed DEF Lists
        <3>5. q1 = IF t = s THEN Append(q, m) ELSE q
            <4> HIDE DEF u, s, m, w
            <4> QED
                BY <1>2, <1>6, <1>8, <1>9, MessagesAppended
        <3>6. /\ t # s => r = r1
              /\ t = s => r = <<m>> \o r1
            <4> HIDE DEF x
            <4> QED
                BY <1>1, OutgoingHead
        <3> HIDE DEF i, q, r, q1, r1, s, m
        <3>7. CASE t # s
            BY <3>1, <3>2, <3>5, <3>6, <3>7
        <3>8. CASE t = s
            <4>1. q1 = Append(q, m) /\ r = <<m>> \o r1
                BY <3>5, <3>6, <3>8
            <4>2. (i \o Append(q, m)) \o r1 = (i \o q) \o (<<m>> \o r1)
                BY <1>2, <3>3, <3>4, ReunitedLast
            <4> QED
                BY <3>1, <3>2, <4>1, <4>2
        <3> QED
            BY <3>7, <3>8
    <2> QED
        BY <2>1, <2>2
<1> QED
    BY <1>5, <1>10, <1>11, TransitSame
(* What has been read of a complete frame is a message, whole.              *)
BeginsWithFrame(u, s, m, r) == m \in Message /\ u = Frame(s, m) \o r
BeginsWith(u, s, m, r) == u = (Header(s, Len(m)) \o m) \o r

(* A body that follows its header is that of the first frame.               *)
LEMMA BodyFirst ==
    ASSUME NEW s \in Stream, NEW m \in Seq(Unit), NEW r \in Seq(Unit),
           NEW u \in Seq(Unit), BeginsWith(u, s, m, r), Framed(u)
    PROVE  BeginsWithFrame(u, s, m, r)
<1> DEFINE l == Len(m)
           h == Header(s, l)
           x == m \o r
<1>1. l \in Nat /\ Len(r) \in Nat
    BY LenProperties
<1>2. h \in Seq(Unit) /\ Len(h) = 2 /\ h[1] = <<"stream", s>> /\ h[2] = <<"length", l>>
    <2> HIDE DEF l
    <2> QED
        BY <1>1, HeaderFacts
<1>3. /\ x \in Seq(Unit) /\ Len(x) = l + Len(r)
      /\ \A i \in 1 .. l + Len(r) : x[i] = IF i <= l THEN m[i] ELSE r[i - l]
    BY ConcatProperties
<1>4. u = h \o x
    <2> HIDE DEF h
    <2>1. (h \o m) \o r = h \o (m \o r)
        BY <1>2, UnitsAssociative
    <2>2. u = (h \o m) \o r
        BY DEF h, BeginsWith, l
    <2> QED
        BY <2>1, <2>2
<1> HIDE DEF l, h, x
<1>5. /\ Len(u) = 2 + Len(x) /\ Len(x) \in Nat
      /\ \A i \in 1 .. 2 + Len(x) : u[i] = IF i <= 2 THEN h[i] ELSE x[i - 2]
    <2>1. /\ Len(u) = Len(h) + Len(x)
          /\ \A i \in 1 .. Len(h) + Len(x) : u[i] = IF i <= Len(h) THEN h[i] ELSE x[i - Len(h)]
        <3>1. /\ Len(h \o x) = Len(h) + Len(x)
              /\ \A i \in 1 .. Len(h) + Len(x) : (h \o x)[i] = IF i <= Len(h) THEN h[i] ELSE x[i - Len(h)]
            BY <1>2, <1>3, ConcatProperties
        <3> QED
            BY <1>4, <3>1
    <2>2. Len(h) = 2 /\ Len(x) \in Nat
        BY <1>1, <1>2, <1>3
    <2> QED
        BY <2>1, <2>2
<1>6. 1 \in 1 .. 2 + Len(x) /\ 2 \in 1 .. 2 + Len(x) /\ 1 <= 2 /\ 2 <= 2
    BY <1>5
<1>7. u[1] = <<"stream", s>> /\ u[2] = <<"length", l>> /\ 1 \in DOMAIN u
    <2>1. u[1] = h[1] /\ u[2] = h[2]
        BY <1>5, <1>6
    <2>2. DOMAIN u = 1 .. Len(u)
        BY LenProperties
    <2> QED
        BY <1>2, <1>5, <1>6, <2>1, <2>2
<1>8. PICK k \in AllSizes, n \in Numbers : FrameIs(u, 1, k, n)
    <2>1. u[1][1] = "stream"
        BY <1>7
    <2> QED
        BY <1>7, <2>1 DEF Framed
<1>9. k = l
    <2>1. u[2] = <<"length", k>>
        <3>1. u[1 + 1] = <<"length", k>> /\ 1 + 1 = 2
            BY <1>8 DEF FrameIs
        <3> QED
            BY <3>1
    <2>2. <<"length", k>> = <<"length", l>>
        BY <1>7, <2>1
    <2> QED
        BY <2>2
<1> DEFINE y == BodyOf(n, k)
<1>10. y \in Message /\ y \in Seq(Unit) /\ Len(y) = k /\ \A i \in 1 .. k : y[i] = <<"body", n>>
    BY BodyFacts
<1> HIDE DEF y
<1>11. ASSUME NEW i \in 1 .. Len(m) PROVE m[i] = y[i]
    <2>1. i \in 1 .. l
        BY DEF l
    <2>2. /\ 2 + i \in 1 .. 2 + Len(x) /\ ~(2 + i <= 2) /\ (2 + i) - 2 = i
          /\ i \in 1 .. l + Len(r) /\ i <= l
        BY <1>1, <1>3, <2>1
    <2>3. u[2 + i] = x[i]
        BY <1>5, <2>2
    <2>4. x[i] = m[i]
        BY <1>3, <2>2
    <2>5. 1 + 1 + i = 2 + i
        BY <2>1
    <2>6. u[2 + i] = <<"body", n>>
        BY <1>8, <1>9, <2>1, <2>5 DEF FrameIs
    <2> QED
        BY <1>9, <1>10, <2>1, <2>3, <2>4, <2>6
<1>12. m = y
    <2>1. Len(m) = Len(y)
        BY <1>9, <1>10 DEF l
    <2> QED
        BY <1>10, <1>11, <2>1, SeqEqual
<1> QED
    BY <1>10, <1>12 DEF Frame, BeginsWith, BeginsWithFrame

(* A message reaches the channel of its task.                               *)
Delivers(e, s, m, v) ==
    LET o == Other(e) IN
    /\ s \in Stream /\ m \in Message /\ v \in Seq(Unit)
    /\ UnderWay(o) = Frame(s, m) \o v
    /\ Prepended(v, s, m, UnderWay(o)) /\ Framed(v)

(* What is under way behind the frame that has been read.                   *)
Behind(e, v) == v = (buf[e] \o pipe[Other(e)]) \o writing[Other(e)]

(* A complete message is the first of those carried, on its stream.         *)
LEMMA CompleteFirst ==
    ASSUME Typed, AllFramed, NEW e \in End, Complete(read_state[e]), NEW v, Behind(e, v)
    PROVE  Delivers(e, read_state[e].stream, read_state[e].send_buffer, v)
<1> DEFINE o == Other(e)
           rs == read_state[e]
           s == rs.stream
           m == rs.send_buffer
           h == Held(rs)
           b == buf[e]
           p == pipe[o]
           w == writing[o]
           u == UnderWay(o)
<1>1. o \in End /\ Other(o) = e
    BY Ends
<1>2. rs \in HeaderState \cup BodyState /\ rs.kind # "header"
    BY DEF Typed, Complete
<1>3. s \in Stream /\ m \in Seq(Unit) /\ Len(m) = rs.length /\ h = Header(s, Len(m)) \o m
    <2>1. s \in Stream /\ m \in Seq(Unit) /\ h = Header(s, rs.length) \o m
        BY <1>2, HeldFacts
    <2>2. Len(m) = rs.length
        BY DEF Complete
    <2> QED
        BY <2>1, <2>2
<1>4. Pieces(o, h, b, p, w)
    BY <1>1, UnderWayIs
<1>5. /\ h \in Seq(Unit) /\ b \in Seq(Unit) /\ p \in Seq(Unit) /\ w \in Seq(Unit)
      /\ u \in Seq(Unit) /\ u = ((h \o b) \o p) \o w
    BY <1>4 DEF Pieces
<1>6. Framed(u)
    BY <1>1 DEF AllFramed
<1>7. v = (b \o p) \o w
    BY DEF Behind
<1> HIDE DEF s, m, h, b, p, w, u
<1>8. b \o p \in Seq(Unit)
    BY <1>5, ConcatProperties
<1>9. v \in Seq(Unit)
    BY <1>5, <1>7, <1>8, ConcatProperties
<1>10. u = h \o v
    <2> DEFINE y == b \o p
    <2>0. h \in Seq(Unit) /\ b \in Seq(Unit) /\ p \in Seq(Unit) /\ w \in Seq(Unit) /\ y \in Seq(Unit)
        BY <1>5, <1>8
    <2>1. (h \o b) \o p = h \o y
        BY <2>0, UnitsAssociative
    <2>3. v = y \o w
        BY <1>7
    <2> HIDE DEF y
    <2>2. (h \o y) \o w = h \o (y \o w)
        <3>1. h \in Seq(Unit) /\ y \in Seq(Unit) /\ w \in Seq(Unit)
            BY <2>0
        <3> QED
            BY <3>1, UnitsAssociative
    <2> QED
        BY <1>5, <2>1, <2>2, <2>3
<1>11. BeginsWith(u, s, m, v)
    BY <1>3, <1>10 DEF BeginsWith
<1>12. m \in Message /\ u = Frame(s, m) \o v
    <2>1. s \in Stream /\ m \in Seq(Unit) /\ v \in Seq(Unit) /\ u \in Seq(Unit)
        BY <1>3, <1>5, <1>9
    <2>2. BeginsWithFrame(u, s, m, v)
        BY <1>6, <1>11, <2>1, BodyFirst
    <2> QED
        BY <2>2 DEF BeginsWithFrame
<1>13. Prepended(v, s, m, u)
    BY <1>3, <1>9, <1>12, PrependedUnits
<1>14. Framed(v)
    BY <1>3, <1>5, <1>6, <1>9, <1>12, <1>13, FramedDrop
<1> QED
    BY <1>3, <1>9, <1>12, <1>13, <1>14 DEF Delivers, s, m, u

(* A delivery hands a message on and changes no channel.                    *)
LEMMA DeliverMessageStep ==
    ASSUME Typed, AllFramed, NEW e \in End, DeliverMessage(e)
    PROVE  Typed' /\ AllFramed' /\ Transit' = Transit
<1> DEFINE o == Other(e)
           rs == read_state[e]
           s == rs.stream
           m == rs.send_buffer
           v == (buf[e] \o pipe[o]) \o writing[o]
           u == UnderWay(o)
<1>1. o \in End /\ Other(o) = e
    BY Ends
<1>2. /\ Complete(rs)
      /\ inbox' = [inbox EXCEPT ![e][s] = Append(inbox[e][s], m)]
      /\ read_state' = [read_state EXCEPT ![e] = ProcessingHeader(<<>>)]
      /\ UNCHANGED <<task, outgoing, writing, pipe, buf>>
    BY DEF DeliverMessage
<1>3. /\ s \in Stream /\ m \in Message /\ v \in Seq(Unit) /\ Prepended(v, s, m, u) /\ Framed(v)
    <2>1. Delivers(e, s, m, v)
        <3>1. Behind(e, v)
            BY DEF Behind
        <3> HIDE DEF v
        <3> QED
            BY <1>2, <3>1, CompleteFirst
    <2> QED
        BY <2>1 DEF Delivers
<1> HIDE DEF s, m, rs
<1>4. ProcessingHeader(<<>>) \in HeaderState /\ Held(ProcessingHeader(<<>>)) = <<>>
    <2>1. <<>> \in Seq(Unit) /\ Len(<<>>) = 0 /\ 0 < 2
        BY EmptySeq
    <2>2. <<>> \in {x \in Seq(Unit) : Len(x) < HEADER_LENGTH}
        BY <2>1 DEF HEADER_LENGTH
    <2> QED
        BY <2>2 DEF HeaderState, ProcessingHeader, Held
<1>5. Typed'
    <2>1. inbox[e] \in [Stream -> Seq(Message)] /\ inbox[e][s] \in Seq(Message)
        BY <1>3 DEF Typed
    <2>2. Append(inbox[e][s], m) \in Seq(Message)
        BY <1>3, <2>1, AppendProperties
    <2>3. inbox' \in [End -> [Stream -> Seq(Message)]]
        BY <1>2, <1>3, <2>2 DEF Typed
    <2>4. read_state' \in [End -> HeaderState \cup BodyState]
        BY <1>2, <1>4 DEF Typed
    <2> QED
        BY <1>2, <2>3, <2>4 DEF Typed
<1>6. UnderWay(o)' = v /\ u \in Seq(Unit) /\ Framed(u)
    <2>1. Held(read_state'[e]) = <<>>
        BY <1>2, <1>4 DEF Typed
    <2>2. UnderWay(o)' = ((<<>> \o buf[e]) \o pipe[o]) \o writing[o]
        BY <1>1, <1>2, <2>1, UnderWayAfter
    <2>3. buf[e] \in Seq(Unit)
        BY DEF Typed
    <2>4. <<>> \o buf[e] = buf[e]
        BY <2>3, ConcatEmptySeq
    <2>5. u \in Seq(Unit) /\ Framed(u)
        BY <1>1, UnderWayIs DEF Pieces, AllFramed
    <2> QED
        BY <2>2, <2>4, <2>5
<1>7. ASSUME NEW y \in End, y # o PROVE UnderWay(y)' = UnderWay(y)
    <2>1. Other(y) \in End /\ Other(y) # e
        BY <1>7, Ends
    <2>2. read_state'[Other(y)] = read_state[Other(y)]
        BY <1>2, <2>1 DEF Typed
    <2> QED
        BY <1>2, <2>2, UnderWaySame
<1> HIDE DEF v, u
<1>8. AllFramed'
    <2>1. ASSUME NEW y \in End PROVE Framed(UnderWay(y)')
        BY <1>3, <1>6, <1>7 DEF AllFramed
    <2> QED
        BY <2>1 DEF AllFramed
<1>9. ASSUME NEW y \in End, NEW t \in Stream PROVE Transit'[y][t] = Transit[y][t]
    <2>0. Other(y) \in End /\ (y # o <=> Other(y) # e)
        BY Ends
    <2>1. CASE y # o
        <3>1. inbox'[Other(y)][t] = inbox[Other(y)][t]
            BY <1>2, <2>0, <2>1 DEF Typed
        <3> QED
            BY <1>2, <1>7, <2>1, <3>1, LineSame
    <2>2. CASE y = o
        <3> DEFINE i == inbox[e][t]
                   i1 == inbox'[e][t]
                   q == MessagesIn(u, t)
                   q1 == MessagesIn(v, t)
                   r == MessagesOf(outgoing[o], t)
        <3>1. Transit[y][t] = (i \o q) \o r
            BY <1>1, <2>2, TransitIs DEF u
        <3>2. Transit'[y][t] = (i1 \o q1) \o r
            BY <1>1, <1>2, <1>6, <2>2, TransitIs
        <3>3. i \in Seq(Message)
            BY DEF Typed
        <3>4. q1 \in Seq(Message)
            BY <1>3, MessagesCarried DEF Lists
        <3>5. i1 = IF t = s THEN Append(i, m) ELSE i
            BY <1>2, <1>3 DEF Typed
        <3>6. /\ t # s => q = q1
              /\ t = s => q = <<m>> \o q1
            BY <1>3, <1>6, MessagesPrepended
        <3> HIDE DEF i, i1, q, q1, r
        <3>7. CASE t # s
            BY <3>1, <3>2, <3>5, <3>6, <3>7
        <3>8. CASE t = s
            <4>1. i1 = Append(i, m) /\ q = <<m>> \o q1
                BY <3>5, <3>6, <3>8
            <4>2. (Append(i, m) \o q1) \o r = (i \o (<<m>> \o q1)) \o r
                BY <1>3, <3>3, <3>4, ReunitedFirst
            <4> QED
                BY <3>1, <3>2, <4>1, <4>2
        <3> QED
            BY <3>7, <3>8
    <2> QED
        BY <2>1, <2>2
<1> QED
    BY <1>5, <1>8, <1>9, TransitSame
-----------------------------------------------------------------------------
(* Turns.                                                                   *)

Task(s) == {t \in [turn : 0 .. 2, number : 0 .. MaxExchanges] : t.turn < ExchangeLength[s]}

(* The turns of an exchange, one after the other.                           *)
LEMMA TurnFacts ==
    ASSUME NEW s \in Stream, NEW t \in Task(s)
    PROVE  /\ t.turn \in {0, 1, 2} /\ t.number \in Nat /\ t = [turn |-> t.turn, number |-> t.number]
           /\ Advance(t, s).turn \in {0, 1, 2} /\ Advance(t, s).turn < ExchangeLength[s]
           /\ t.turn = 0 => t.turn % 2 = 0 /\ Advance(t, s) = [turn |-> 1, number |-> t.number + 1]
           /\ t.turn = 1 => t.turn % 2 = 1 /\ Advance(t, s).number = t.number
                            /\ Advance(t, s).turn = IF ExchangeLength[s] = 2 THEN 0 ELSE 2
           /\ t.turn = 2 => t.turn % 2 = 0 /\ ExchangeLength[s] = 3
                            /\ Advance(t, s) = [turn |-> 0, number |-> t.number]
<1>1. t.turn \in {0, 1, 2} /\ t.number \in Nat /\ t.turn < ExchangeLength[s] /\ t = [turn |-> t.turn, number |-> t.number]
    BY SizesFacts DEF Task
<1>2. ExchangeLength[s] \in {2, 3}
    BY MultiplexerAssumption
<1>3. /\ Advance(t, s).turn = (t.turn + 1) % ExchangeLength[s]
      /\ Advance(t, s).number = IF t.turn = 0 THEN t.number + 1 ELSE t.number
      /\ Advance(t, s) = [turn |-> (t.turn + 1) % ExchangeLength[s],
                          number |-> IF t.turn = 0 THEN t.number + 1 ELSE t.number]
    BY DEF Advance
<1>4. 0 % 2 = 0 /\ 1 % 2 = 1 /\ 2 % 2 = 0 /\ 1 % 3 = 1 /\ 2 % 3 = 2 /\ 3 % 3 = 0
    OBVIOUS
<1>5. CASE t.turn = 0
    <2>1. (t.turn + 1) % ExchangeLength[s] = 1
        BY <1>2, <1>4, <1>5
    <2> QED
        BY <1>1, <1>2, <1>3, <1>4, <1>5, <2>1
<1>6. CASE t.turn = 1
    <2>1. CASE ExchangeLength[s] = 2
        <3>1. (t.turn + 1) % ExchangeLength[s] = 0
            BY <1>4, <1>6, <2>1
        <3>2. Advance(t, s).turn = 0 /\ Advance(t, s).number = t.number
            BY <1>3, <1>6, <3>1
        <3>3. t.turn % 2 = 1
            BY <1>4, <1>6
        <3> QED
            BY <1>1, <1>6, <2>1, <3>2, <3>3
    <2>2. CASE ExchangeLength[s] = 3
        <3>1. (t.turn + 1) % ExchangeLength[s] = 2
            BY <1>4, <1>6, <2>2
        <3>2. Advance(t, s).turn = 2 /\ Advance(t, s).number = t.number
            BY <1>3, <1>6, <3>1
        <3>3. t.turn % 2 = 1
            BY <1>4, <1>6
        <3> QED
            BY <1>1, <1>6, <2>2, <3>2, <3>3
    <2> QED
        BY <1>2, <2>1, <2>2
<1>7. CASE t.turn = 2
    <2>0. ExchangeLength[s] = 3
        BY <1>1, <1>2, <1>7
    <2>1. (t.turn + 1) % ExchangeLength[s] = 0
        BY <1>4, <1>7, <2>0
    <2> QED
        BY <1>1, <1>2, <1>3, <1>4, <1>7, <2>0, <2>1
<1> QED
    BY <1>1, <1>5, <1>6, <1>7

(* Sequences of one and of two messages.                                    *)
LEMMA ShortLists ==
    ASSUME NEW A \in Seq(Message), NEW m \in Message
    PROVE  /\ A = <<>> => Len(A) = 0 /\ Len(Append(A, m)) = 1 /\ Append(A, m)[1] = m
           /\ Len(A) = 1 => A # <<>> /\ Head(A) = A[1] /\ Tail(A) = <<>> /\ Len(Append(A, m)) = 2
                            /\ Append(A, m)[1] = A[1] /\ Append(A, m)[2] = m
           /\ Len(A) = 2 => A # <<>> /\ Head(A) = A[1] /\ Len(Tail(A)) = 1 /\ Tail(A)[1] = A[2]
<1>1. ASSUME A = <<>> PROVE Len(A) = 0 /\ Len(Append(A, m)) = 1 /\ Append(A, m)[1] = m
    BY <1>1
<1>2. ASSUME Len(A) = 1
      PROVE  /\ A # <<>> /\ Head(A) = A[1] /\ Tail(A) = <<>> /\ Len(Append(A, m)) = 2
             /\ Append(A, m)[1] = A[1] /\ Append(A, m)[2] = m
    <2>1. A # <<>> /\ Head(A) = A[1]
        BY <1>2
    <2>2. Tail(A) \in Seq(Message) /\ Len(Tail(A)) = 0
        BY <1>2, <2>1, HeadTailProperties
    <2>3. Tail(A) = <<>>
        BY <2>2, EmptySeq
    <2>4. Len(Append(A, m)) = 2 /\ Append(A, m)[1] = A[1] /\ Append(A, m)[2] = m
        <3>1. /\ Len(Append(A, m)) = Len(A) + 1 /\ Append(A, m)[Len(A) + 1] = m
              /\ \A i \in 1 .. Len(A) : Append(A, m)[i] = A[i]
            BY AppendProperties
        <3>2. Len(A) + 1 = 2 /\ 1 \in 1 .. Len(A)
            BY <1>2
        <3> QED
            BY <3>1, <3>2
    <2> QED
        BY <2>1, <2>3, <2>4
<1>3. ASSUME Len(A) = 2 PROVE A # <<>> /\ Head(A) = A[1] /\ Len(Tail(A)) = 1 /\ Tail(A)[1] = A[2]
    <2>1. A # <<>> /\ Head(A) = A[1]
        BY <1>3
    <2> DEFINE T == Tail(A)
    <2>2. Len(T) = Len(A) - 1 /\ \A i \in 1 .. Len(T) : T[i] = A[i + 1]
        BY <2>1, HeadTailProperties
    <2> HIDE DEF T
    <2>3. Len(T) = 1
        BY <1>3, <2>2
    <2>4. 1 \in 1 .. Len(T) /\ 1 + 1 = 2
        BY <2>3
    <2>5. T[1] = A[2]
        BY <2>2, <2>4
    <2> QED
        BY <2>1, <2>3, <2>5 DEF T
<1> QED
    BY <1>1, <1>2, <1>3

(* The four ways the tasks of a stream may be.                              *)
Even(a, b, A, B) == a = b /\ A = <<>> /\ B = <<>>
OneAhead(a, b, A, B, s) ==
    /\ b.turn % 2 = 0 /\ a = Advance(b, s) /\ B = <<>>
    /\ Len(A) = 1 /\ NumberOf(A[1]) = a.number
TwoAhead(a, b, A, B, s) ==
    /\ b.turn = 2 /\ a = Advance(Advance(b, s), s) /\ B = <<>>
    /\ Len(A) = 2 /\ NumberOf(A[1]) = b.number /\ NumberOf(A[2]) = a.number
OneBehind(a, b, A, B, s) ==
    /\ a.turn % 2 = 1 /\ b = Advance(a, s) /\ A = <<>>
    /\ Len(B) = 1 /\ NumberOf(B[1]) = b.number

(* How far one task may be ahead of the other, by cases.                    *)
LEMMA AheadOfCases ==
    ASSUME NEW s, NEW a, NEW b, NEW A, NEW B
    PROVE  AheadOf(a, b, A, B, s) <=>
             (Even(a, b, A, B) \/ OneAhead(a, b, A, B, s) \/ TwoAhead(a, b, A, B, s) \/ OneBehind(a, b, A, B, s))
    BY DEF AheadOf, Even, OneAhead, TwoAhead, OneBehind

(* The leader speaks in its turn, that is when at the same point, or when   *)
(* only its last message of the exchange before is under way.               *)
LEMMA LeaderSends ==
    ASSUME NEW s \in Stream, NEW a \in Task(s), NEW b \in Task(s),
           NEW A \in Seq(Message), NEW B \in Seq(Message),
           AheadOf(a, b, A, B, s), a.turn % 2 = 0,
           NEW m \in Message, NumberOf(m) = Advance(a, s).number
    PROVE  AheadOf(Advance(a, s), b, Append(A, m), B, s)
<1>1. CASE Even(a, b, A, B)
    <2>1. OneAhead(Advance(a, s), b, Append(A, m), B, s)
        BY <1>1, ShortLists DEF Even, OneAhead
    <2> QED
        BY <2>1, AheadOfCases
<1>2. CASE OneAhead(a, b, A, B, s)
    <2>0. a = Advance(b, s) /\ B = <<>> /\ Len(A) = 1 /\ NumberOf(A[1]) = a.number
        BY <1>2 DEF OneAhead
    <2>1. b.turn = 2
        <3>1. b.turn # 1
            BY <1>2, TurnFacts DEF OneAhead
        <3>2. b.turn # 0
            <4> SUFFICES ASSUME b.turn = 0 PROVE FALSE
                OBVIOUS
            <4>1. a.turn = 1
                BY <2>0, TurnFacts
            <4> QED
                BY <4>1
        <3> QED
            BY <3>1, <3>2, TurnFacts
    <2>2. a.number = b.number
        BY <2>0, <2>1, TurnFacts
    <2>3. TwoAhead(Advance(a, s), b, Append(A, m), B, s)
        BY <2>0, <2>1, <2>2, ShortLists DEF TwoAhead
    <2> QED
        BY <2>3, AheadOfCases
<1>3. CASE TwoAhead(a, b, A, B, s)
    <2>1. b.turn = 2 /\ a = Advance(Advance(b, s), s)
        BY <1>3 DEF TwoAhead
    <2>2. Advance(b, s) = [turn |-> 0, number |-> b.number]
        BY <2>1, TurnFacts
    <2>3. a.turn = (0 + 1) % ExchangeLength[s] /\ ExchangeLength[s] = 3
        BY <2>1, <2>2, TurnFacts DEF Advance
    <2>4. a.turn = 1
        BY <2>3
    <2> QED
        BY <2>4
<1>4. CASE OneBehind(a, b, A, B, s)
    BY <1>4 DEF OneBehind
<1> QED
    BY <1>1, <1>2, <1>3, <1>4, AheadOfCases

(* The follower speaks when it has received what it answers.                *)
LEMMA FollowerSends ==
    ASSUME NEW s \in Stream, NEW a \in Task(s), NEW b \in Task(s),
           NEW A \in Seq(Message), NEW B \in Seq(Message),
           AheadOf(a, b, A, B, s), b.turn % 2 # 0,
           NEW m \in Message, NumberOf(m) = Advance(b, s).number
    PROVE  AheadOf(a, Advance(b, s), A, Append(B, m), s)
<1>0. b.turn = 1 /\ b.turn % 2 = 1
    BY TurnFacts
<1>1. CASE Even(a, b, A, B)
    <2>1. OneBehind(a, Advance(b, s), A, Append(B, m), s)
        BY <1>0, <1>1, ShortLists DEF Even, OneBehind
    <2> QED
        BY <2>1, AheadOfCases
<1>2. CASE OneAhead(a, b, A, B, s)
    BY <1>2 DEF OneAhead
<1>3. CASE TwoAhead(a, b, A, B, s)
    BY <1>0, <1>3 DEF TwoAhead
<1>4. CASE OneBehind(a, b, A, B, s)
    <2>1. a.turn = 1 /\ b = Advance(a, s)
        BY <1>4, TurnFacts DEF OneBehind
    <2>2. b.turn # 1
        BY <2>1, TurnFacts
    <2> QED
        BY <1>0, <2>2
<1> QED
    BY <1>1, <1>2, <1>3, <1>4, AheadOfCases

(* What the follower receives is of the exchange it is in, or the next.     *)
LEMMA FollowerReceives ==
    ASSUME NEW s \in Stream, NEW a \in Task(s), NEW b \in Task(s),
           NEW A \in Seq(Message), NEW B \in Seq(Message),
           AheadOf(a, b, A, B, s), b.turn % 2 = 0, A # <<>>
    PROVE  /\ NumberOf(Head(A)) = Advance(b, s).number
           /\ AheadOf(a, Advance(b, s), Tail(A), B, s)
<1>0. Head(A) \in Message
    BY HeadTailProperties
<1>1. CASE Even(a, b, A, B)
    BY <1>1 DEF Even
<1>2. CASE OneAhead(a, b, A, B, s)
    <2>1. a = Advance(b, s) /\ B = <<>> /\ NumberOf(Head(A)) = a.number /\ Tail(A) = <<>>
        BY <1>0, <1>2, ShortLists DEF OneAhead
    <2>2. Even(a, Advance(b, s), Tail(A), B)
        BY <2>1 DEF Even
    <2> QED
        BY <2>1, <2>2, AheadOfCases
<1>3. CASE TwoAhead(a, b, A, B, s)
    <2> DEFINE c == Advance(b, s)
    <2>1. /\ b.turn = 2 /\ a = Advance(c, s) /\ B = <<>>
          /\ Len(A) = 2 /\ NumberOf(A[1]) = b.number /\ NumberOf(A[2]) = a.number
        BY <1>3 DEF TwoAhead
    <2>2. c = [turn |-> 0, number |-> b.number]
        BY <2>1, TurnFacts
    <2>3. NumberOf(Head(A)) = b.number /\ Len(Tail(A)) = 1 /\ NumberOf(Tail(A)[1]) = a.number
        BY <1>0, <2>1, ShortLists
    <2> HIDE DEF c
    <2>4. c.turn % 2 = 0 /\ c.number = b.number
        BY <2>2
    <2>5. OneAhead(a, c, Tail(A), B, s)
        BY <2>1, <2>3, <2>4 DEF OneAhead
    <2>6. AheadOf(a, c, Tail(A), B, s) /\ NumberOf(Head(A)) = c.number
        BY <2>3, <2>4, <2>5, AheadOfCases
    <2> QED
        BY <2>6 DEF c
<1>4. CASE OneBehind(a, b, A, B, s)
    BY <1>4 DEF OneBehind
<1> QED
    BY <1>1, <1>2, <1>3, <1>4, AheadOfCases

(* What the leader receives answers what it sent.                           *)
LEMMA LeaderReceives ==
    ASSUME NEW s \in Stream, NEW a \in Task(s), NEW b \in Task(s),
           NEW A \in Seq(Message), NEW B \in Seq(Message),
           AheadOf(a, b, A, B, s), B # <<>>
    PROVE  /\ NumberOf(Head(B)) = Advance(a, s).number
           /\ AheadOf(Advance(a, s), b, A, Tail(B), s)
<1>0. Head(B) \in Message
    BY HeadTailProperties
<1>1. OneBehind(a, b, A, B, s)
    BY AheadOfCases DEF Even, OneAhead, TwoAhead
<1>2. b = Advance(a, s) /\ A = <<>> /\ NumberOf(Head(B)) = b.number /\ Tail(B) = <<>>
    BY <1>0, <1>1, ShortLists DEF OneBehind
<1>3. Even(Advance(a, s), b, A, Tail(B))
    BY <1>2 DEF Even
<1> QED
    BY <1>2, <1>3, AheadOfCases
-----------------------------------------------------------------------------
(* Tasks that send and receive.                                             *)

(* A task is in a turn of its exchange.                                     *)
LEMMA TaskIs ==
    ASSUME Typed, NEW e \in End, NEW s \in Stream
    PROVE  task[e][s] \in Task(s)
    BY DEF Typed, Task

(* A task goes on to its next turn.                                         *)
GoesOn(e, s, n) == task' = [task EXCEPT ![e][s] = [turn |-> NextTurn(e, s), number |-> n]]
HasGoneOn(e, s, n) ==
    /\ task' \in [End -> [Stream -> [turn : 0 .. 2, number : 0 .. MaxExchanges]]]
    /\ \A t \in Stream : \A x \in End : task'[x][t].turn < ExchangeLength[t]
    /\ task'[e][s] = [turn |-> NextTurn(e, s), number |-> n]
    /\ \A x \in End : \A t \in Stream : (x # e \/ t # s) => task'[x][t] = task[x][t]

(* A task that goes on to its next turn.                                    *)
LEMMA TypedAdvance ==
    ASSUME Typed, NEW e \in End, NEW s \in Stream, NEW n \in 0 .. MaxExchanges, GoesOn(e, s, n)
    PROVE  HasGoneOn(e, s, n)
<1>1. NextTurn(e, s) = Advance(task[e][s], s).turn
    BY DEF NextTurn, Advance
<1>2. NextTurn(e, s) \in 0 .. 2 /\ NextTurn(e, s) < ExchangeLength[s]
    <2>1. task[e][s] \in Task(s)
        BY TaskIs
    <2>2. Advance(task[e][s], s).turn \in {0, 1, 2} /\ Advance(task[e][s], s).turn < ExchangeLength[s]
        BY <2>1, TurnFacts
    <2> QED
        BY <1>1, <2>2
<1> DEFINE r == [turn |-> NextTurn(e, s), number |-> n]
<1>3. r \in [turn : 0 .. 2, number : 0 .. MaxExchanges] /\ r.turn < ExchangeLength[s]
    BY <1>2
<1>4. task' = [task EXCEPT ![e][s] = r]
    BY DEF GoesOn
<1>5. task \in [End -> [Stream -> [turn : 0 .. 2, number : 0 .. MaxExchanges]]]
    BY DEF Typed
<1> HIDE DEF r
<1>6. /\ task' \in [End -> [Stream -> [turn : 0 .. 2, number : 0 .. MaxExchanges]]]
      /\ task'[e][s] = r
      /\ \A x \in End : \A t \in Stream : (x # e \/ t # s) => task'[x][t] = task[x][t]
    BY <1>3, <1>4, <1>5
<1>7. ASSUME NEW t \in Stream, NEW x \in End PROVE task'[x][t].turn < ExchangeLength[t]
    <2>1. CASE x = e /\ t = s
        BY <1>3, <1>6, <2>1
    <2>2. CASE x # e \/ t # s
        BY <1>6, <2>2 DEF Typed
    <2> QED
        BY <2>1, <2>2
<1> QED
    BY <1>6, <1>7 DEF r, HasGoneOn

(* What a task that sends does.                                             *)
Said(e, s, m) ==
    /\ m \in Message /\ NumberOf(m) = Advance(task[e][s], s).number
    /\ task'[e][s] = Advance(task[e][s], s)
    /\ \A x \in End : \A t \in Stream : (x # e \/ t # s) => task'[x][t] = task[x][t]
    /\ OthersStay(e, s) /\ Transit'[e][s] = Append(Transit[e][s], m)

(* A task that sends puts one message last on its channel.                  *)
LEMMA SendMessageStep ==
    ASSUME Typed, AllFramed, NEW e \in End, NEW s \in Stream, SendMessage(e, s)
    PROVE  Typed' /\ AllFramed' /\ \E m \in Message : Said(e, s, m)
<1> DEFINE n == IF task[e][s].turn = 0 THEN task[e][s].number + 1 ELSE task[e][s].number
           x == outgoing[e]
<1>1. /\ n \in Numbers /\ Len(x) < OUTGOING_CAPACITY
      /\ task' = [task EXCEPT ![e][s] = [turn |-> NextTurn(e, s), number |-> n]]
      /\ UNCHANGED <<writing, pipe, buf, read_state, inbox>>
    BY DEF SendMessage
<1>2. PICK size \in Sizes[e] : outgoing' = [outgoing EXCEPT ![e] = Append(x, <<s, BodyOf(n, size)>>)]
    BY DEF SendMessage
<1> DEFINE m == BodyOf(n, size)
           y == Append(x, <<s, m>>)
<1>3. m \in Message /\ NumberOf(m) = n
    <2>1. size \in AllSizes
        BY DEF AllSizes
    <2> HIDE DEF n
    <2> QED
        BY <1>1, <2>1, BodyFacts
<1>4. [turn |-> NextTurn(e, s), number |-> n] = Advance(task[e][s], s)
    BY DEF NextTurn, Advance
<1>5. n \in 0 .. MaxExchanges
    <2> HIDE DEF n
    <2> QED
        BY <1>1, SizesFacts DEF Numbers
<1> HIDE DEF n
<1>6. /\ task' \in [End -> [Stream -> [turn : 0 .. 2, number : 0 .. MaxExchanges]]]
      /\ \A t \in Stream : \A z \in End : task'[z][t].turn < ExchangeLength[t]
      /\ task'[e][s] = Advance(task[e][s], s)
      /\ \A z \in End : \A t \in Stream : (z # e \/ t # s) => task'[z][t] = task[z][t]
    <2>1. GoesOn(e, s, n)
        BY <1>1 DEF GoesOn
    <2>2. HasGoneOn(e, s, n)
        BY <1>5, <2>1, TypedAdvance
    <2> QED
        BY <1>4, <2>2 DEF HasGoneOn
<1>7. x \in Outgoing /\ Len(x) \in Nat /\ OUTGOING_CAPACITY \in Nat
    BY LenProperties, MultiplexerAssumption DEF Typed, Outgoing
<1> HIDE DEF x, m
<1>8. y \in Outgoing /\ Len(y) = Len(x) + 1
    <2>1. <<s, m>> \in Stream \X Message
        BY <1>3
    <2> QED
        BY <1>7, <2>1, AppendProperties DEF Outgoing
<1>9. Len(y) <= OUTGOING_CAPACITY
    BY <1>1, <1>7, <1>8
<1>10. outgoing' = [outgoing EXCEPT ![e] = y]
    BY <1>2 DEF m
<1> HIDE DEF y
<1>a. Queued(x, s, m, y)
    BY DEF y, Queued
<1>b. ASSUME NEW t \in Stream
      PROVE  MessagesOf(y, t) = IF t = s THEN Append(MessagesOf(x, t), m) ELSE MessagesOf(x, t)
    BY <1>3, <1>7, <1>a, OutgoingAppended
<1>11. Typed'
    BY <1>1, <1>6, <1>8, <1>9, <1>10 DEF Typed
<1>12. ASSUME NEW z \in End PROVE UnderWay(z)' = UnderWay(z)
    BY <1>1, UnderWaySame
<1>13. AllFramed'
    BY <1>12, StillFramed DEF Still
<1>14. ASSUME NEW z \in End, NEW t \in Stream, z # e \/ t # s PROVE Transit'[z][t] = Transit[z][t]
    <2>1. CASE z # e
        <3>1. outgoing'[z] = outgoing[z]
            BY <1>10, <2>1 DEF Typed
        <3> QED
            BY <1>1, <1>12, <3>1, LineSame
    <2>2. CASE z = e
        <3>1. t # s
            BY <1>14, <2>2
        <3>2. MessagesOf(y, t) = MessagesOf(x, t)
            BY <1>b, <3>1
        <3>3. outgoing'[e] = y /\ inbox' = inbox /\ UnderWay(e)' = UnderWay(e)
            BY <1>1, <1>10, <1>12 DEF Typed
        <3>4. Transit[e][t] = (inbox[Other(e)][t] \o MessagesIn(UnderWay(e), t)) \o MessagesOf(x, t)
            BY TransitIs DEF x
        <3>5. Transit'[e][t] = (inbox'[Other(e)][t] \o MessagesIn(UnderWay(e)', t)) \o MessagesOf(outgoing'[e], t)
            BY TransitIs
        <3> QED
            BY <2>2, <3>2, <3>3, <3>4, <3>5
    <2> QED
        BY <2>1, <2>2
<1>15. Transit'[e][s] = Append(Transit[e][s], m)
    <2> DEFINE i == inbox[Other(e)][s]
               q == MessagesIn(UnderWay(e), s)
               r == MessagesOf(x, s)
               r1 == MessagesOf(y, s)
               a == i \o q
    <2>1. r1 = Append(r, m)
        BY <1>b
    <2>2. i \in Seq(Message) /\ q \in Seq(Message) /\ r \in Seq(Message)
        BY TransitParts DEF x
    <2>3. Transit[e][s] = a \o r
        BY TransitIs DEF x
    <2>4. Transit'[e][s] = a \o r1
        <3>1. outgoing'[e] = y /\ inbox' = inbox /\ UnderWay(e)' = UnderWay(e)
            BY <1>1, <1>10, <1>12 DEF Typed
        <3>2. Transit'[e][s] = (inbox'[Other(e)][s] \o MessagesIn(UnderWay(e)', s)) \o MessagesOf(outgoing'[e], s)
            BY TransitIs
        <3> QED
            BY <3>1, <3>2
    <2> HIDE DEF i, q, r, r1
    <2>5. a \in Seq(Message)
        BY <2>2, ConcatProperties
    <2> HIDE DEF a
    <2>6. a \o Append(r, m) = Append(a \o r, m)
        BY <1>3, <2>2, <2>5, AppendedToLast
    <2> QED
        BY <2>1, <2>3, <2>4, <2>6
<1>16. OthersStay(e, s)
    BY <1>14 DEF OthersStay
<1>17. NumberOf(m) = Advance(task[e][s], s).number
    BY <1>3, <1>4
<1>18. Said(e, s, m)
    BY <1>3, <1>6, <1>15, <1>16, <1>17 DEF Said
<1> QED
    BY <1>3, <1>11, <1>13, <1>18

(* What a task that receives does.                                          *)
Heard(e, s) ==
    LET line == Transit[Other(e)][s] IN
    /\ line # <<>> /\ Head(inbox[e][s]) = Head(line) /\ NumberOf(Head(line)) \in 0 .. MaxExchanges
    /\ task'[e][s] = [turn |-> NextTurn(e, s), number |-> NumberOf(Head(line))]
    /\ \A x \in End : \A t \in Stream : (x # e \/ t # s) => task'[x][t] = task[x][t]
    /\ OthersStay(Other(e), s) /\ Transit'[Other(e)][s] = Tail(line)

(* The first message for a task is the first under way.                     *)
LEMMA InboxFirst ==
    ASSUME Typed, AllFramed, NEW e \in End, NEW s \in Stream, inbox[e][s] # <<>>
    PROVE  /\ Transit[Other(e)][s] # <<>> /\ Head(inbox[e][s]) = Head(Transit[Other(e)][s])
           /\ Head(inbox[e][s]) \in Message /\ Tail(inbox[e][s]) \in Seq(Message)
           /\ Tail(Transit[Other(e)][s]) = (Tail(inbox[e][s]) \o MessagesIn(UnderWay(Other(e)), s))
                                                \o MessagesOf(outgoing[Other(e)], s)
<1> DEFINE o == Other(e)
           i == inbox[e][s]
           q == MessagesIn(UnderWay(o), s)
           r == MessagesOf(outgoing[o], s)
<1>1. o \in End /\ Other(o) = e
    BY Ends
<1>2. i \in Seq(Message) /\ q \in Seq(Message) /\ r \in Seq(Message)
    BY <1>1, TransitParts
<1>3. Transit[o][s] = (i \o q) \o r
    BY <1>1, TransitIs
<1>4. i # <<>>
    OBVIOUS
<1> HIDE DEF i, q, r
<1>5. /\ Head(i) \in Message /\ Tail(i) \in Seq(Message)
      /\ i \o q # <<>> /\ Head(i \o q) = Head(i) /\ Tail(i \o q) = Tail(i) \o q
    BY <1>2, <1>4, HeadTailFront
<1> DEFINE x == i \o q
<1>6. x \in Seq(Message) /\ x # <<>>
    BY <1>2, <1>5, ConcatProperties
<1> HIDE DEF x
<1>7. x \o r # <<>> /\ Head(x \o r) = Head(x) /\ Tail(x \o r) = Tail(x) \o r
    BY <1>2, <1>6, HeadTailFront
<1> QED
    BY <1>3, <1>5, <1>7 DEF i, q, r, x

(* A task that receives takes the first of its channel.                     *)
LEMMA ReceiveMessageStep ==
    ASSUME Typed, AllFramed, NEW e \in End, NEW s \in Stream, ReceiveMessage(e, s)
    PROVE  Typed' /\ AllFramed' /\ Heard(e, s)
<1> DEFINE o == Other(e)
           n == NumberOf(Head(inbox[e][s]))
           i1 == Tail(inbox[e][s])
           line == Transit[o][s]
<1>1. /\ inbox[e][s] # <<>>
      /\ task' = [task EXCEPT ![e][s] = [turn |-> NextTurn(e, s), number |-> n]]
      /\ inbox' = [inbox EXCEPT ![e][s] = i1]
      /\ UNCHANGED <<outgoing, writing, pipe, buf, read_state>>
    BY DEF ReceiveMessage
<1>2. o \in End /\ Other(o) = e
    BY Ends
<1>3. /\ line # <<>> /\ Head(inbox[e][s]) = Head(line) /\ Head(inbox[e][s]) \in Message
      /\ i1 \in Seq(Message)
      /\ Tail(line) = (i1 \o MessagesIn(UnderWay(o), s)) \o MessagesOf(outgoing[o], s)
    BY <1>1, InboxFirst
<1>4. n \in 0 .. MaxExchanges
    <2>1. n \in Numbers
        BY <1>3, MessageFacts
    <2> HIDE DEF n
    <2> QED
        BY <2>1, SizesFacts DEF Numbers
<1> HIDE DEF n, i1, line
<1>5. /\ task' \in [End -> [Stream -> [turn : 0 .. 2, number : 0 .. MaxExchanges]]]
      /\ \A t \in Stream : \A z \in End : task'[z][t].turn < ExchangeLength[t]
      /\ task'[e][s] = [turn |-> NextTurn(e, s), number |-> n]
      /\ \A z \in End : \A t \in Stream : (z # e \/ t # s) => task'[z][t] = task[z][t]
    <2>1. GoesOn(e, s, n)
        BY <1>1 DEF GoesOn
    <2>2. HasGoneOn(e, s, n)
        BY <1>4, <2>1, TypedAdvance
    <2> QED
        BY <2>2 DEF HasGoneOn
<1>6. /\ inbox' \in [End -> [Stream -> Seq(Message)]] /\ inbox'[e][s] = i1
      /\ \A z \in End : \A t \in Stream : (z # e \/ t # s) => inbox'[z][t] = inbox[z][t]
    <2>1. inbox \in [End -> [Stream -> Seq(Message)]]
        BY DEF Typed
    <2> QED
        BY <1>1, <1>3, <2>1
<1>7. Typed'
    BY <1>1, <1>5, <1>6 DEF Typed
<1>8. ASSUME NEW z \in End PROVE UnderWay(z)' = UnderWay(z)
    BY <1>1, UnderWaySame
<1>9. AllFramed'
    BY <1>8, StillFramed DEF Still
<1>10. ASSUME NEW z \in End, NEW t \in Stream, z # o \/ t # s PROVE Transit'[z][t] = Transit[z][t]
    <2>1. Other(z) \in End /\ (Other(z) # e \/ t # s)
        BY <1>10, Ends
    <2>2. inbox'[Other(z)][t] = inbox[Other(z)][t]
        BY <1>6, <2>1
    <2> QED
        BY <1>1, <1>8, <2>2, LineSame
<1>11. OthersStay(o, s)
    BY <1>10 DEF OthersStay
<1>12. Transit'[o][s] = Tail(line)
    <2>1. Transit'[o][s] = (inbox'[e][s] \o MessagesIn(UnderWay(o)', s)) \o MessagesOf(outgoing'[o], s)
        BY <1>2, TransitIs
    <2> QED
        BY <1>1, <1>2, <1>3, <1>6, <1>8, <2>1
<1>13. n = NumberOf(Head(line))
    BY <1>3 DEF n
<1>14. Heard(e, s)
    BY <1>3, <1>4, <1>5, <1>11, <1>12, <1>13 DEF Heard, line
<1> QED
    BY <1>7, <1>9, <1>14
-----------------------------------------------------------------------------
(* The invariant holds.                                                     *)

(* At first nothing is under way.                                           *)
LEMMA NothingIn ==
    ASSUME NEW s \in Stream
    PROVE  Framed(<<>>) /\ MessagesIn(<<>>, s) = <<>> /\ MessagesOf(<<>>, s) = <<>>
<1>1. <<>> \in Seq(Unit) /\ DOMAIN <<>> = {} /\ <<>> \in Outgoing
    BY EmptySeq DEF Outgoing
<1>2. Framed(<<>>)
    BY <1>1 DEF Framed
<1>3. Starts(<<>>, s) = {} /\ Entries(<<>>, s) = {}
    BY <1>1 DEF Starts, Entries
<1>4. Cardinality({}) = 0
    BY FS_EmptySet
<1> DEFINE q == MessagesIn(<<>>, s)
           r == MessagesOf(<<>>, s)
<1>5. q \in Seq(Message) /\ Len(q) = 0
    BY <1>1, <1>2, <1>3, <1>4, MessagesCarried DEF Lists
<1>6. r \in Seq(Message) /\ Len(r) = 0
    BY <1>1, <1>3, <1>4, EntriesListed DEF Lists
<1> HIDE DEF q, r
<1>7. q = <<>> /\ r = <<>>
    BY <1>5, <1>6, EmptySeq
<1> QED
    BY <1>2, <1>7 DEF q, r

(* At first nothing is under way.                                           *)
LEMMA InitTransit ==
    ASSUME Init, NEW e \in End
    PROVE  UnderWay(e) = <<>> /\ \A s \in Stream : Transit[e][s] = <<>>
<1>0. Other(e) \in End
    BY Ends
<1>1. read_state[Other(e)] = ProcessingHeader(<<>>) /\ buf[Other(e)] = <<>> /\ pipe[e] = <<>> /\ writing[e] = <<>>
    BY <1>0 DEF Init
<1>2. Held(read_state[Other(e)]) = <<>>
    BY <1>1 DEF Held, ProcessingHeader
<1>3. <<>> \o <<>> = <<>>
    BY EmptySeq, ConcatEmptySeq
<1>4. UnderWay(e) = ((Held(read_state[Other(e)]) \o buf[Other(e)]) \o pipe[e]) \o writing[e]
    BY DEF UnderWay, Held
<1>5. UnderWay(e) = <<>>
    BY <1>1, <1>2, <1>3, <1>4
<1>6. ASSUME NEW s \in Stream PROVE Transit[e][s] = <<>>
    <2>1. inbox[Other(e)][s] = <<>> /\ outgoing[e] = <<>>
        BY <1>0 DEF Init
    <2>2. Transit[e][s] = (inbox[Other(e)][s] \o MessagesIn(UnderWay(e), s)) \o MessagesOf(outgoing[e], s)
        BY TransitIs
    <2> QED
        BY <1>3, <1>5, <2>1, <2>2, NothingIn
<1> QED
    BY <1>5, <1>6

(* The invariant holds at first.                                            *)
LEMMA InitIInv == Init => IInv
<1> SUFFICES ASSUME Init PROVE IInv
    OBVIOUS
<1>1. Typed
    <2>1. /\ \A S : <<>> \in Seq(S)
          /\ Len(<<>>) = 0
        BY EmptySeq
    <2>2. ProcessingHeader(<<>>) \in HeaderState
        BY <2>1 DEF HeaderState, ProcessingHeader, HEADER_LENGTH
    <2>3. \A s \in Stream : 0 < ExchangeLength[s]
        <3>1. \A s \in Stream : ExchangeLength[s] \in {2, 3}
            BY MultiplexerAssumption
        <3> QED
            BY <3>1
    <2>4. /\ MaxExchanges \in Nat /\ 0 <= OUTGOING_CAPACITY /\ 0 <= PipeCapacity /\ 0 <= BUFFER_SIZE
        BY MultiplexerAssumption
    <2>5. [turn |-> 0, number |-> 0] \in [turn : 0 .. 2, number : 0 .. MaxExchanges]
        BY <2>4
    <2>6. /\ task \in [End -> [Stream -> [turn : 0 .. 2, number : 0 .. MaxExchanges]]]
          /\ \A s \in Stream : \A e \in End : task[e][s].turn < ExchangeLength[s]
        BY <2>3, <2>5 DEF Init
    <2>7. /\ outgoing \in [End -> Outgoing] /\ \A e \in End : Len(outgoing[e]) <= OUTGOING_CAPACITY
          /\ writing \in [End -> Seq(Unit)]
          /\ pipe \in [End -> Seq(Unit)] /\ \A e \in End : Len(pipe[e]) <= PipeCapacity
          /\ buf \in [End -> Seq(Unit)] /\ \A e \in End : Len(buf[e]) <= BUFFER_SIZE
          /\ inbox \in [End -> [Stream -> Seq(Message)]]
        BY <2>1, <2>4 DEF Init, Outgoing
    <2>8. read_state \in [End -> HeaderState \cup BodyState]
        BY <2>2 DEF Init
    <2> QED
        BY <2>6, <2>7, <2>8 DEF Typed
<1>2. AllFramed
    <2>1. Framed(<<>>)
        BY EmptySeq DEF Framed
    <2> QED
        BY <2>1, InitTransit DEF AllFramed
<1>3. ASSUME NEW s \in Stream PROVE InTurn(s)
    <2>1. Leader[s] \in End /\ Other(Leader[s]) \in End
        BY MultiplexerAssumption, Ends
    <2>2. Transit[Leader[s]][s] = <<>> /\ Transit[Other(Leader[s])][s] = <<>>
        BY <2>1, InitTransit
    <2>3. task[Leader[s]][s] = task[Other(Leader[s])][s]
        BY <2>1 DEF Init
    <2> QED
        BY <2>2, <2>3 DEF InTurn, AheadOf
<1> QED
    BY <1>1, <1>2, <1>3 DEF IInv

(* A step is one task's, that sends or receives, or leaves all tasks and    *)
(* all messages under way as they are.                                      *)
Quiet == task' = task /\ Transit' = Transit
Speaking(e, s) == Speaks(e, s) /\ \E m \in Message : Said(e, s, m)
Listening(e, s) == ~Speaks(e, s) /\ Heard(e, s)

(* A step says one message, hears one, or changes neither task nor channel. *)
LEMMA StepCases ==
    ASSUME Typed, AllFramed, [Next]_vars
    PROVE  /\ Typed' /\ AllFramed'
           /\ Quiet \/ \E e \in End, s \in Stream : Speaking(e, s) \/ Listening(e, s)
<1>1. ASSUME NEW e \in End, TakeOutgoing(e) PROVE Typed' /\ AllFramed' /\ Quiet
    <2>1. task' = task
        BY <1>1 DEF TakeOutgoing
    <2> QED
        BY <1>1, <2>1, TakeOutgoingStep DEF Quiet
<1>2. ASSUME NEW e \in End, WriteFrame(e) PROVE Typed' /\ AllFramed' /\ Quiet
    <2>1. Typed' /\ Still
        BY <1>2, WriteFrameStep
    <2>2. task' = task /\ inbox' = inbox /\ outgoing' = outgoing
        BY <1>2 DEF WriteFrame
    <2> QED
        BY <2>1, <2>2, StillSame, StillFramed DEF Quiet
<1>3. ASSUME NEW e \in End, ReadPipe(e) PROVE Typed' /\ AllFramed' /\ Quiet
    <2>1. Typed' /\ Still
        BY <1>3, ReadPipeStep
    <2>2. task' = task /\ inbox' = inbox /\ outgoing' = outgoing
        BY <1>3 DEF ReadPipe
    <2> QED
        BY <2>1, <2>2, StillSame, StillFramed DEF Quiet
<1>4. ASSUME NEW e \in End, handle_header(e) PROVE Typed' /\ AllFramed' /\ Quiet
    <2>1. Typed' /\ Still
        BY <1>4, HandleHeaderStep
    <2>2. task' = task /\ inbox' = inbox /\ outgoing' = outgoing
        BY <1>4 DEF handle_header
    <2> QED
        BY <2>1, <2>2, StillSame, StillFramed DEF Quiet
<1>5. ASSUME NEW e \in End, handle_body(e) PROVE Typed' /\ AllFramed' /\ Quiet
    <2>1. Typed' /\ Still
        BY <1>5, HandleBodyStep
    <2>2. task' = task /\ inbox' = inbox /\ outgoing' = outgoing
        BY <1>5 DEF handle_body
    <2> QED
        BY <2>1, <2>2, StillSame, StillFramed DEF Quiet
<1>6. ASSUME NEW e \in End, DeliverMessage(e) PROVE Typed' /\ AllFramed' /\ Quiet
    <2>1. task' = task
        BY <1>6 DEF DeliverMessage
    <2> QED
        BY <1>6, <2>1, DeliverMessageStep DEF Quiet
<1>7. ASSUME NEW e \in End, NEW s \in Stream, SendMessage(e, s) PROVE Typed' /\ AllFramed' /\ Speaking(e, s)
    <2>1. Speaks(e, s)
        BY <1>7 DEF SendMessage
    <2> QED
        BY <1>7, <2>1, SendMessageStep DEF Speaking
<1>8. ASSUME NEW e \in End, NEW s \in Stream, ReceiveMessage(e, s) PROVE Typed' /\ AllFramed' /\ Listening(e, s)
    <2>1. ~Speaks(e, s)
        BY <1>8 DEF ReceiveMessage
    <2> QED
        BY <1>8, <2>1, ReceiveMessageStep DEF Listening
<1>9. CASE UNCHANGED vars
    <2>1. UNCHANGED <<task, outgoing, writing, pipe, buf, read_state, inbox>>
        BY <1>9 DEF vars
    <2>2. Still
        BY <2>1, UnderWaySame DEF Still
    <2>3. Typed'
        BY <2>1 DEF Typed
    <2> QED
        BY <2>1, <2>2, <2>3, StillSame, StillFramed DEF Quiet
<1> QED
    BY <1>1, <1>2, <1>3, <1>4, <1>5, <1>6, <1>7, <1>8, <1>9 DEF Next, Multiplex

(* The tasks and lines of a stream, seen from its leader.                   *)
LEMMA LeaderFacts ==
    ASSUME Typed, AllFramed, NEW s \in Stream
    PROVE  LET l == Leader[s]
               f == Other(l) IN
           /\ l \in End /\ f \in End /\ l # f /\ Other(f) = l /\ \A e \in End : e = l \/ e = f
           /\ task[l][s] \in Task(s) /\ task[f][s] \in Task(s)
           /\ Transit[l][s] \in Seq(Message) /\ Transit[f][s] \in Seq(Message)
           /\ Speaks(l, s) <=> task[l][s].turn % 2 = 0
           /\ Speaks(f, s) <=> task[f][s].turn % 2 # 0
<1> DEFINE l == Leader[s]
           f == Other(l)
<1>1. l \in End /\ f \in End /\ l # f /\ Other(f) = l /\ \A e \in End : e = l \/ e = f
    BY MultiplexerAssumption, Ends
<1>2. task[l][s] \in Task(s) /\ task[f][s] \in Task(s)
    BY <1>1, TaskIs
<1>3. Transit[l][s] \in Seq(Message) /\ Transit[f][s] \in Seq(Message)
    BY <1>1, TransitParts
<1>4. (Speaks(l, s) <=> task[l][s].turn % 2 = 0) /\ (Speaks(f, s) <=> task[f][s].turn % 2 # 0)
    BY <1>1 DEF Speaks
<1> QED
    BY <1>1, <1>2, <1>3, <1>4

(* What is sent or received keeps a stream in turn.                         *)
LEMMA InTurnKept ==
    ASSUME IInv, NEW s \in Stream,
           Quiet \/ \E e \in End, t \in Stream : Speaking(e, t) \/ Listening(e, t)
    PROVE  InTurn(s)'
<1> DEFINE l == Leader[s]
           f == Other(l)
           a == task[l][s]
           b == task[f][s]
           A == Transit[l][s]
           B == Transit[f][s]
           a1 == task'[l][s]
           b1 == task'[f][s]
           A1 == Transit'[l][s]
           B1 == Transit'[f][s]
<1>1. /\ l \in End /\ f \in End /\ l # f /\ Other(f) = l /\ \A e \in End : e = l \/ e = f
      /\ a \in Task(s) /\ b \in Task(s) /\ A \in Seq(Message) /\ B \in Seq(Message)
      /\ Speaks(l, s) <=> a.turn % 2 = 0
      /\ Speaks(f, s) <=> b.turn % 2 # 0
    BY LeaderFacts DEF IInv
<1>2. AheadOf(a, b, A, B, s)
    BY DEF IInv, InTurn
<1>3. SUFFICES AheadOf(a1, b1, A1, B1, s)
    BY DEF InTurn
<1>4. CASE Quiet
    BY <1>2, <1>4 DEF Quiet
<1>5. ASSUME NEW e \in End, NEW t \in Stream, Speaking(e, t) PROVE AheadOf(a1, b1, A1, B1, s)
    <2>1. PICK m \in Message : Said(e, t, m)
        BY <1>5 DEF Speaking
    <2>2. Speaks(e, t)
        BY <1>5 DEF Speaking
    <2>3. CASE t # s
        <3>1. a1 = a /\ b1 = b /\ A1 = A /\ B1 = B
            BY <1>1, <2>1, <2>3 DEF Said, OthersStay
        <3> QED
            BY <1>2, <3>1
    <2>4. CASE t = s /\ e = l
        <3>1. /\ NumberOf(m) = Advance(a, s).number /\ a1 = Advance(a, s) /\ A1 = Append(A, m)
              /\ b1 = b /\ B1 = B
            BY <1>1, <2>1, <2>4 DEF Said, OthersStay
        <3>2. a.turn % 2 = 0
            BY <1>1, <2>2, <2>4
        <3> HIDE DEF a, b, A, B, a1, b1, A1, B1
        <3>3. AheadOf(Advance(a, s), b, Append(A, m), B, s)
            BY <1>1, <1>2, <3>1, <3>2, LeaderSends
        <3> QED
            BY <3>1, <3>3
    <2>5. CASE t = s /\ e = f
        <3>1. /\ NumberOf(m) = Advance(b, s).number /\ b1 = Advance(b, s) /\ B1 = Append(B, m)
              /\ a1 = a /\ A1 = A
            BY <1>1, <2>1, <2>5 DEF Said, OthersStay
        <3>2. b.turn % 2 # 0
            BY <1>1, <2>2, <2>5
        <3> HIDE DEF a, b, A, B, a1, b1, A1, B1
        <3>3. AheadOf(a, Advance(b, s), A, Append(B, m), s)
            BY <1>1, <1>2, <3>1, <3>2, FollowerSends
        <3> QED
            BY <3>1, <3>3
    <2> QED
        BY <1>1, <2>3, <2>4, <2>5
<1>6. ASSUME NEW e \in End, NEW t \in Stream, Listening(e, t) PROVE AheadOf(a1, b1, A1, B1, s)
    <2>1. Heard(e, t) /\ ~Speaks(e, t)
        BY <1>6 DEF Listening
    <2>2. CASE t # s
        <3>1. a1 = a /\ b1 = b /\ A1 = A /\ B1 = B
            BY <1>1, <2>1, <2>2 DEF Heard, OthersStay
        <3> QED
            BY <1>2, <3>1
    <2>3. CASE t = s /\ e = l
        <3>1. /\ B # <<>> /\ a1 = [turn |-> NextTurn(l, s), number |-> NumberOf(Head(B))] /\ B1 = Tail(B)
              /\ b1 = b /\ A1 = A
            BY <1>1, <2>1, <2>3 DEF Heard, OthersStay
        <3>2. NextTurn(l, s) = (a.turn + 1) % ExchangeLength[s]
            BY DEF NextTurn
        <3> HIDE DEF a, b, A, B, a1, b1, A1, B1
        <3>3. NumberOf(Head(B)) = Advance(a, s).number /\ AheadOf(Advance(a, s), b, A, Tail(B), s)
            BY <1>1, <1>2, <3>1, LeaderReceives
        <3>4. a1 = Advance(a, s)
            BY <3>1, <3>2, <3>3 DEF Advance
        <3> QED
            BY <3>1, <3>3, <3>4
    <2>4. CASE t = s /\ e = f
        <3>1. /\ A # <<>> /\ b1 = [turn |-> NextTurn(f, s), number |-> NumberOf(Head(A))] /\ A1 = Tail(A)
              /\ a1 = a /\ B1 = B
            BY <1>1, <2>1, <2>4 DEF Heard, OthersStay
        <3>2. NextTurn(f, s) = (b.turn + 1) % ExchangeLength[s]
            BY DEF NextTurn
        <3>3. b.turn % 2 = 0
            BY <1>1, <2>1, <2>4
        <3> HIDE DEF a, b, A, B, a1, b1, A1, B1
        <3>4. NumberOf(Head(A)) = Advance(b, s).number /\ AheadOf(a, Advance(b, s), Tail(A), B, s)
            BY <1>1, <1>2, <3>1, <3>3, FollowerReceives
        <3>5. b1 = Advance(b, s)
            BY <3>1, <3>2, <3>4 DEF Advance
        <3> QED
            BY <3>1, <3>4, <3>5
    <2> QED
        BY <1>1, <2>2, <2>3, <2>4
<1> QED
    BY <1>4, <1>5, <1>6

(* Every step keeps the invariant.                                          *)
LEMMA NextIInv == IInv /\ [Next]_vars => IInv'
<1> SUFFICES ASSUME IInv, [Next]_vars PROVE IInv'
    OBVIOUS
<1>1. /\ Typed' /\ AllFramed'
      /\ Quiet \/ \E e \in End, s \in Stream : Speaking(e, s) \/ Listening(e, s)
    BY StepCases DEF IInv
<1>2. ASSUME NEW s \in Stream PROVE InTurn(s)'
    BY <1>1, InTurnKept
<1> QED
    BY <1>1, <1>2 DEF IInv

(* It holds throughout.                                                     *)
LEMMA AlwaysIInv == Spec => []IInv
<1> QED
    BY InitIInv, NextIInv, PTL DEF Spec
-----------------------------------------------------------------------------
(* What the invariant gives.                                                *)

(* Types are part of it.                                                    *)
LEMMA TypeOKHolds == IInv => TypeOK
<1> SUFFICES ASSUME IInv PROVE TypeOK
    OBVIOUS
<1>1. Typed
    BY DEF IInv
<1>2. ASSUME NEW e \in End
      PROVE  /\ outgoing[e] \in Seq(Stream \X Message) /\ Len(outgoing[e]) <= OUTGOING_CAPACITY
             /\ \A s \in Stream : inbox[e][s] \in Seq(Message)
             /\ Len(pipe[e]) <= PipeCapacity /\ Len(buf[e]) <= BUFFER_SIZE
    BY <1>1 DEF Typed, Outgoing
<1>3. ASSUME NEW e \in End, read_state[e].kind = "body"
      PROVE  /\ read_state[e].stream \in Stream
             /\ Len(read_state[e].send_buffer) <= read_state[e].length
    <2>1. read_state[e] \in HeaderState \cup BodyState
        BY <1>1 DEF Typed
    <2> QED
        BY <1>3, <2>1, HeldFacts
<1>4. task \in [End -> [Stream -> [turn : 0 .. 2, number : 0 .. MaxExchanges]]]
    BY <1>1 DEF Typed
<1> QED
    BY <1>2, <1>3, <1>4 DEF TypeOK

(* No more is under way on a stream than the messages of an exchange that   *)
(* come before the next turn of the other task.                             *)
LEMMA LineLength ==
    ASSUME IInv, NEW e \in End, NEW s \in Stream
    PROVE  Len(Transit[e][s]) < ExchangeLength[s]
<1> DEFINE l == Leader[s]
           f == Other(l)
           a == task[l][s]
           b == task[f][s]
           A == Transit[l][s]
           B == Transit[f][s]
<1>1. /\ l \in End /\ f \in End /\ \A x \in End : x = l \/ x = f
      /\ a \in Task(s) /\ b \in Task(s)
    BY LeaderFacts DEF IInv
<1>2. AheadOf(a, b, A, B, s)
    BY DEF IInv, InTurn
<1>3. ExchangeLength[s] \in {2, 3} /\ Len(<<>>) = 0
    BY MultiplexerAssumption, EmptySeq
<1> HIDE DEF a, b, A, B
<1>4. Len(A) < ExchangeLength[s] /\ Len(B) < ExchangeLength[s]
    <2>1. CASE Even(a, b, A, B)
        BY <1>3, <2>1 DEF Even
    <2>2. CASE OneAhead(a, b, A, B, s)
        BY <1>3, <2>2 DEF OneAhead
    <2>3. CASE TwoAhead(a, b, A, B, s)
        <3>1. ExchangeLength[s] = 3
            BY <1>1, <2>3, TurnFacts DEF TwoAhead
        <3> QED
            BY <2>3, <3>1, <1>3 DEF TwoAhead
    <2>4. CASE OneBehind(a, b, A, B, s)
        BY <1>3, <2>4 DEF OneBehind
    <2> QED
        BY <1>2, <2>1, <2>2, <2>3, <2>4, AheadOfCases
<1> QED
    BY <1>1, <1>4 DEF A, B

(* What is under way to a task, the message about to be delivered included, *)
(* is less than an exchange.                                                *)
LEMMA NeverWaitsHolds == IInv => NeverWaitsForATask
<1> SUFFICES ASSUME IInv, NEW e \in End, Complete(read_state[e])
             PROVE  Len(inbox[e][read_state[e].stream]) < PROTOCOL_INCOMING_CAPACITY
    BY DEF NeverWaitsForATask
<1> DEFINE o == Other(e)
           s == read_state[e].stream
           m == read_state[e].send_buffer
           v == (buf[e] \o pipe[o]) \o writing[o]
           u == UnderWay(o)
           i == inbox[e][s]
           q == MessagesIn(u, s)
           q1 == MessagesIn(v, s)
           r == MessagesOf(outgoing[o], s)
<1>1. o \in End /\ Other(o) = e /\ Typed /\ AllFramed
    BY Ends DEF IInv
<1>2. /\ s \in Stream /\ m \in Message /\ v \in Seq(Unit) /\ Prepended(v, s, m, u) /\ Framed(v)
    <2>1. Delivers(e, s, m, v)
        <3>1. Behind(e, v)
            BY DEF Behind
        <3> HIDE DEF v
        <3> QED
            BY <1>1, <3>1, CompleteFirst
    <2> QED
        BY <2>1 DEF Delivers
<1>3. u \in Seq(Unit) /\ Framed(u)
    BY <1>1, UnderWayIs DEF Pieces, AllFramed
<1> HIDE DEF s, m, u, v
<1>4. q = <<m>> \o q1 /\ q1 \in Seq(Message)
    BY <1>2, <1>3, MessagesPrepended, MessagesCarried DEF Lists
<1>5. /\ i \in Seq(Message) /\ q \in Seq(Message) /\ r \in Seq(Message)
      /\ Transit[o][s] = (i \o q) \o r
    BY <1>1, <1>2, TransitParts, TransitIs DEF u
<1> HIDE DEF i, q, q1, r
<1>6. Len(q) = 1 + Len(q1) /\ Len(q1) \in Nat /\ Len(i) \in Nat /\ Len(r) \in Nat
    <2>1. Len(<<m>> \o q1) = 1 + Len(q1)
        BY <1>2, <1>4, PutInFront
    <2>2. Len(q1) \in Nat /\ Len(i) \in Nat /\ Len(r) \in Nat
        BY <1>4, <1>5, LenProperties
    <2> QED
        BY <1>4, <2>1, <2>2
<1>7. Len((i \o q) \o r) = Len(i) + Len(q) + Len(r)
    <2>1. i \o q \in Seq(Message) /\ Len(i \o q) = Len(i) + Len(q)
        BY <1>5, ConcatProperties
    <2>2. Len((i \o q) \o r) = Len(i \o q) + Len(r)
        BY <1>5, <2>1, ConcatProperties
    <2> QED
        BY <2>1, <2>2
<1>8. Len(Transit[o][s]) < ExchangeLength[s]
    BY <1>1, <1>2, LineLength
<1>9. Len(i) + (1 + Len(q1)) + Len(r) < ExchangeLength[s]
    BY <1>5, <1>6, <1>7, <1>8
<1>10. ExchangeLength[s] \in {2, 3} /\ PROTOCOL_INCOMING_CAPACITY \in Nat
       /\ ExchangeLength[s] <= PROTOCOL_INCOMING_CAPACITY + 1
    BY <1>2, MultiplexerAssumption, InboxAssumption
<1>11. Len(i) < PROTOCOL_INCOMING_CAPACITY
    BY <1>6, <1>9, <1>10
<1> QED
    BY <1>11 DEF i, s

(* Turns say what a message under way may answer.                           *)
LEMMA AnswersMatchHolds == IInv => AnswersMatch
<1> SUFFICES ASSUME IInv, NEW e \in End, NEW s \in Stream, ~Speaks(e, s), inbox[e][s] # <<>>
             PROVE  NumberOf(Head(inbox[e][s])) =
                        task[e][s].number + (IF task[e][s].turn = 0 THEN 1 ELSE 0)
    BY DEF AnswersMatch
<1> DEFINE l == Leader[s]
           f == Other(l)
           a == task[l][s]
           b == task[f][s]
           A == Transit[l][s]
           B == Transit[f][s]
<1>1. /\ l \in End /\ f \in End /\ Other(f) = l /\ (e = l \/ e = f)
      /\ a \in Task(s) /\ b \in Task(s) /\ A \in Seq(Message) /\ B \in Seq(Message)
      /\ Speaks(f, s) <=> b.turn % 2 # 0
    BY LeaderFacts DEF IInv
<1>2. AheadOf(a, b, A, B, s)
    BY DEF IInv, InTurn
<1>3. Transit[Other(e)][s] # <<>> /\ Head(inbox[e][s]) = Head(Transit[Other(e)][s])
    BY InboxFirst DEF IInv
<1>4. NumberOf(Head(inbox[e][s])) = Advance(task[e][s], s).number
    <2>1. CASE e = l
        <3>1. B # <<>> /\ Head(inbox[e][s]) = Head(B)
            BY <1>3, <2>1
        <3> HIDE DEF a, b, A, B
        <3>2. NumberOf(Head(B)) = Advance(a, s).number
            BY <1>1, <1>2, <3>1, LeaderReceives
        <3> QED
            BY <2>1, <3>1, <3>2 DEF a
    <2>2. CASE e = f
        <3>1. A # <<>> /\ Head(inbox[e][s]) = Head(A) /\ b.turn % 2 = 0
            <4>1. Other(e) = l
                BY <1>1, <2>2
            <4>2. ~Speaks(f, s)
                BY <2>2
            <4>3. b.turn % 2 = 0
                <5> HIDE DEF b, f
                <5> QED
                    BY <1>1, <4>2
            <4> QED
                BY <1>3, <4>1, <4>3
        <3> HIDE DEF a, b, A, B
        <3>2. NumberOf(Head(A)) = Advance(b, s).number
            BY <1>1, <1>2, <3>1, FollowerReceives
        <3> QED
            BY <2>2, <3>1, <3>2 DEF b
    <2> QED
        BY <1>1, <2>1, <2>2
<1>5. task[e][s] \in Task(s)
    BY <1>1
<1>6. Advance(task[e][s], s).number = task[e][s].number + (IF task[e][s].turn = 0 THEN 1 ELSE 0)
    <2>1. task[e][s].number \in Nat
        BY <1>5, TurnFacts
    <2> QED
        BY <2>1 DEF Advance
<1> QED
    BY <1>4, <1>6

(* Steps of the multiplexers as steps of channels.                          *)
LEMMA InitChannels == Init => Abstract!Init
<1> SUFFICES ASSUME Init PROVE Abstract!Init
    OBVIOUS
<1>1. \A e \in End : \A s \in Stream : Transit[e][s] = <<>>
    BY InitTransit
<1>2. Transit = [e \in End |-> [s \in Stream |-> Transit[e][s]]]
    BY DEF Transit
<1>3. Transit = [e \in End |-> [s \in Stream |-> <<>>]]
    BY <1>1, <1>2
<1> QED
    BY <1>3 DEF Abstract!Init

(* Every step is one of the channels, or changes none.                      *)
LEMMA NextChannels == IInv /\ [Next]_vars => [Abstract!Next]_Transit
<1> SUFFICES ASSUME IInv, [Next]_vars PROVE [Abstract!Next]_Transit
    OBVIOUS
<1>1. Quiet \/ \E e \in End, s \in Stream : Speaking(e, s) \/ Listening(e, s)
    BY StepCases DEF IInv
<1>2. CASE Quiet
    BY <1>2 DEF Quiet
<1>3. ASSUME NEW e \in End, NEW s \in Stream, Speaking(e, s) PROVE Abstract!Send(e, s)
    <2>1. PICK m \in Message : Said(e, s, m)
        BY <1>3 DEF Speaking
    <2>2. Transit'[e][s] = Append(Transit[e][s], m) /\ OthersStay(e, s)
        BY <2>1 DEF Said
    <2>3. Transit' = [Transit EXCEPT ![e][s] = Transit'[e][s]]
        BY <2>2, TransitChanged
    <2>4. Transit'[e][s] \in {Append(Transit[e][s], k) : k \in Message}
        BY <2>2
    <2> QED
        BY <2>3, <2>4 DEF Abstract!Send
<1>4. ASSUME NEW e \in End, NEW s \in Stream, Listening(e, s) PROVE Abstract!Receive(Other(e), s)
    <2> DEFINE o == Other(e)
    <2>1. Transit[o][s] # <<>> /\ OthersStay(o, s) /\ Transit'[o][s] = Tail(Transit[o][s])
        BY <1>4 DEF Listening, Heard
    <2>2. o \in End
        BY Ends
    <2> HIDE DEF o
    <2>3. Transit' = [Transit EXCEPT ![o][s] = Transit'[o][s]]
        BY <2>1, <2>2, TransitChanged
    <2>4. Transit' = [Transit EXCEPT ![o][s] = Tail(Transit[o][s])]
        BY <2>1, <2>3
    <2>5. Abstract!Receive(o, s)
        BY <2>1, <2>4 DEF Abstract!Receive
    <2> QED
        BY <2>5 DEF o
<1> QED
    BY <1>1, <1>2, <1>3, <1>4, Ends DEF Abstract!Next

-----------------------------------------------------------------------------
(* Theorems.                                                                *)

(* The variables of both multiplexers have their types and no channel,      *)
(* buffer or half-read body is longer than it may be (handle_receive).      *)
THEOREM TypeCorrect == Spec => []TypeOK
<1> QED
    BY AlwaysIInv, TypeOKHolds, PTL

(* Frames are written and read whole and one after the other, wherever TCP  *)
(* cuts them, and the tasks of a stream are never further apart than the    *)
(* messages under way between them: the inductive invariant.                *)
THEOREM FramesAndTurns == Spec => []IInv
    BY AlwaysIInv

(* No task makes its multiplexer wait, and with it all other streams        *)
(* (multiplexer.rs:306), if its channel holds an exchange but one message.  *)
THEOREM NoTaskIsWaitedFor == Spec => []NeverWaitsForATask
<1> QED
    BY AlwaysIInv, NeverWaitsHolds, PTL

(* What a task receives is of the exchange it is in: "Heartbeat does not    *)
(* match" (heartbeat/v0.rs:124, :164) is never reached.                     *)
THEOREM AnswersAreExpected == Spec => []AnswersMatch
<1> QED
    BY AlwaysIInv, AnswersMatchHolds, PTL

(* The multiplexers of a connection are channels: each message sent on a    *)
(* stream arrives whole, once and in order, and streams do not mix.         *)
THEOREM MultiplexersAreChannels == Spec => ImplementsChannels
<1> QED
    BY AlwaysIInv, InitChannels, NextChannels, PTL DEF Spec, ImplementsChannels, Abstract!Spec
=============================================================================
