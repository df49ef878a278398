------------------------------ MODULE PathProofs ------------------------------
(***************************************************************************)
(* Proofs about Paths and FileTree: what splitting a line, joining a path  *)
(* and walking down the tree compute, for strings and paths of any length. *)
(* In particular a path that is_path_acceptable accepts leads to the place *)
(* Lexical says, or nowhere, and never above the base.                     *)
(*                                                                         *)
(* These are recursive functions, and what they compute is proved by       *)
(* induction.  The induction used is on membership in a set of numbers;    *)
(* it follows from the well-foundedness of the subsets of a finite set.    *)
(***************************************************************************)
EXTENDS FileTree, FiniteSetTheorems, SequenceTheorems, WellFoundedInduction, TLAPS

-----------------------------------------------------------------------------
(* Induction and recursion.                                                *)

(* A set of numbers that has 0, and with every number the next, has all.   *)
LEMMA SetInduction ==
  ASSUME NEW S, 0 \in S, \A n \in Nat : n \in S => n + 1 \in S
  PROVE  \A n \in Nat : n \in S
<1> SUFFICES ASSUME NEW m \in Nat, m \notin S PROVE FALSE
  OBVIOUS
<1> DEFINE T == {0 .. k : k \in {j \in 0 .. m : j \notin S}}
           R == StrictSubsetOrdering(0 .. m)
<1>1. T \subseteq FiniteSubsetsOf(0 .. m) /\ T # {}
  <2>1. T # {}
    OBVIOUS
  <2>2. ASSUME NEW k \in 0 .. m PROVE 0 .. k \in FiniteSubsetsOf(0 .. m)
    BY FS_Interval DEF FiniteSubsetsOf
  <2> QED
    BY <2>1, <2>2
<1>2. IsWellFoundedOn(R, FiniteSubsetsOf(0 .. m))
  BY FS_StrictSubsetOrderingWellFounded
<1> HIDE DEF R, T
<1>3. PICK x \in T : \A y \in T : ~(<<y, x>> \in R)
  BY <1>1, <1>2, WFMin
<1>4. PICK k \in 0 .. m : k \notin S /\ x = 0 .. k
  BY DEF T
<1>5. k # 0
  BY <1>4
<1>6. k - 1 \in 0 .. m /\ k - 1 \in Nat
  BY <1>5
<1>7. k - 1 \notin S
  BY <1>4, <1>5, <1>6
<1>8. 0 .. k - 1 \in T
  BY <1>6, <1>7 DEF T
<1>9. <<0 .. k - 1, 0 .. k>> \in R
  BY <1>6, <1>4 DEF R, StrictSubsetOrdering
<1> QED
  BY <1>3, <1>4, <1>8, <1>9

(* The same from a to b.                                                   *)
LEMMA IntervalInduction ==
  ASSUME NEW S, NEW a \in Int, NEW b \in Int, a \in S,
         \A k \in a .. b : k # a /\ k - 1 \in S => k \in S
  PROVE  \A k \in a .. b : k \in S
<1> DEFINE U == {n \in Nat : a + n <= b => a + n \in S}
<1>1. 0 \in U
  OBVIOUS
<1>2. ASSUME NEW n \in Nat, n \in U PROVE n + 1 \in U
  <2> SUFFICES ASSUME a + (n + 1) <= b PROVE a + (n + 1) \in S
    OBVIOUS
  <2>1. a + n \in S
    BY <1>2
  <2>2. a + (n + 1) \in a .. b /\ (a + (n + 1)) - 1 = a + n /\ a + (n + 1) # a
    OBVIOUS
  <2> QED
    BY <2>1, <2>2
<1> HIDE DEF U
<1>3. \A n \in Nat : n \in U
  BY <1>1, <1>2, SetInduction
<1>4. ASSUME NEW k \in a .. b PROVE k \in S
  <2>1. k - a \in U /\ a + (k - a) = k
    BY <1>3
  <2> QED
    BY <2>1 DEF U
<1> QED
  BY <1>4

(* Two functions that start alike and go on alike are alike.               *)
Follows(f, g, a, b) == \A k \in a .. b : k # a /\ f[k - 1] = g[k - 1] => f[k] = g[k]
Alike(f, g, a, b)   == \A k \in a .. b : f[k] = g[k]

LEMMA SameRecursion ==
  ASSUME NEW a \in Int, NEW b \in Int, NEW f, NEW g, f[a] = g[a], Follows(f, g, a, b)
  PROVE  Alike(f, g, a, b)
<1> USE DEF Follows, Alike
<1> DEFINE S == {k \in Int : f[k] = g[k]}
<1>1. a \in S
  OBVIOUS
<1>2. \A k \in a .. b : k # a /\ k - 1 \in S => k \in S
  OBVIOUS
<1> HIDE DEF S
<1>3. \A k \in a .. b : k \in S
  BY <1>1, <1>2, IntervalInduction
<1> QED
  BY <1>3 DEF S

(* A value for a, and for the others one from the value before, make a     *)
(* function.                                                               *)
Maps(h, V, a, b) == \A k \in a .. b : k # a => \A v \in V : h[<<k, v>>] \in V
Repeats(f, c, h, a, b) == \A k \in a .. b : f[k] = IF k = a THEN c ELSE h[<<k, f[k - 1]>>]

LEMMA Recursion ==
  ASSUME NEW V, NEW a \in Int, NEW b \in Int, NEW c \in V, NEW h, Maps(h, V, a, b)
  PROVE  \E f \in [a .. b -> V] : Repeats(f, c, h, a, b)
<1> USE DEF Maps, Repeats
<1> DEFINE Good(f, m) == f \in [a .. m -> V] /\ Repeats(f, c, h, a, m)
           S == {m \in Int : \E f : Good(f, m)}
<1>1. CASE b < a
  <2>1. a .. b = {} /\ [k \in a .. b |-> c] \in [a .. b -> V]
    BY <1>1
  <2> QED
    BY <2>1
<1>2. CASE b >= a
  <2>1. Good([k \in a .. a |-> c], a)
    OBVIOUS
  <2>2. ASSUME NEW m \in a .. b, m # a, m - 1 \in S PROVE m \in S
    <3>1. PICK f : Good(f, m - 1)
      BY <2>2
    <3> DEFINE g == [k \in a .. m |-> IF k = m THEN h[<<m, f[m - 1]>>] ELSE f[k]]
    <3>2. m - 1 \in a .. m - 1 /\ f[m - 1] \in V
      BY <2>2, <3>1
    <3> DEFINE e == h[<<m, f[m - 1]>>]
    <3>. e \in V
      BY <2>2, <3>2
    <3>3. g \in [a .. m -> V]
      <4>1. ASSUME NEW k \in a .. m PROVE g[k] \in V
        <5>1. k # m => k \in a .. m - 1
          OBVIOUS
        <5> QED
          BY <3>1, <5>1
      <4> QED
        BY <4>1
    <3>4. ASSUME NEW k \in a .. m
          PROVE  g[k] = IF k = a THEN c ELSE h[<<k, g[k - 1]>>]
      <4>1. CASE k = m
        <5>1. m - 1 \in a .. m /\ m - 1 # m
          BY <2>2
        <5> QED
          BY <2>2, <4>1, <5>1
      <4>2. CASE k # m
        <5>1. k \in a .. m - 1
          BY <4>2
        <5>2. g[k] = f[k]
          BY <4>2
        <5>3. k # a => k - 1 \in a .. m /\ k - 1 # m
          BY <5>1
        <5>4. k # a => g[k - 1] = f[k - 1]
          BY <5>3
        <5> QED
          BY <3>1, <5>1, <5>2, <5>4
      <4> QED
        BY <4>1, <4>2
    <3>5. Good(g, m)
      BY <3>3, <3>4
    <3> HIDE DEF Good, g
    <3>6. m \in Int
      OBVIOUS
    <3> QED
      BY <3>5, <3>6
  <2> HIDE DEF Good
  <2>3. a \in S
    BY <2>1
  <2> HIDE DEF S
  <2>4. b \in S
    BY <1>2, <2>2, <2>3, IntervalInduction
  <2> QED
    BY <2>4 DEF S, Good
<1> QED
  BY <1>1, <1>2

(* A sequence of elements of A is one of elements of any larger set.       *)
LEMMA SequenceOfMore ==
  ASSUME NEW A, NEW B, A \subseteq B, NEW q \in Seq(A)
  PROVE  q \in Seq(B)
OBVIOUS

(* A set of sequences that has the empty one, and with every one those     *)
(* longer by one, has all.                                                 *)
LEMMA SequenceInduction ==
  ASSUME NEW S, NEW Z, <<>> \in Z,
         \A q \in Seq(S) : q \in Z => \A e \in S : Append(q, e) \in Z
  PROVE  \A q \in Seq(S) : q \in Z
<1> DEFINE T == {n \in Nat : \A q \in Seq(S) : Len(q) = n => q \in Z}
<1>1. 0 \in T
  <2>1. \A q \in Seq(S) : Len(q) = 0 => q = <<>>
    OBVIOUS
  <2> QED
    BY <2>1
<1>2. ASSUME NEW n \in Nat, n \in T PROVE n + 1 \in T
  <2>1. ASSUME NEW q \in Seq(S), Len(q) = n + 1 PROVE q \in Z
    <3> DEFINE r == SubSeq(q, 1, n)
    <3>1. r \in Seq(S) /\ Len(r) = n /\ q[n + 1] \in S
      BY <2>1
    <3>2. q = Append(r, q[n + 1])
      BY <2>1
    <3> HIDE DEF r
    <3>3. r \in Z
      BY <1>2, <3>1
    <3> QED
      BY <3>1, <3>2, <3>3
  <2> QED
    BY <2>1
<1> HIDE DEF T
<1>3. \A n \in Nat : n \in T
  BY <1>1, <1>2, SetInduction
<1>4. ASSUME NEW q \in Seq(S) PROVE q \in Z
  <2>1. Len(q) \in Nat
    OBVIOUS
  <2>2. Len(q) \in T
    BY <1>3, <2>1
  <2> QED
    BY <2>2 DEF T
<1> QED
  BY <1>4

-----------------------------------------------------------------------------
(* Splitting.                                                              *)

(* The strings of S without p, and of these the ones that are not empty.   *)
Parts(S, p) == Seq(S \ {p}) \ {<<>>}

Split_Next(s, p, n, runs) ==
  IF s[n] = p THEN runs
  ELSE IF n = 1 \/ s[n - 1] = p THEN Append(runs, <<s[n]>>)
  ELSE [runs EXCEPT ![Len(runs)] = Append(@, s[n])]

Splits(s, p, f) ==
  \A n \in 0 .. Len(s) : f[n] = IF n = 0 THEN <<>> ELSE Split_Next(s, p, n, f[n - 1])

Split_Chosen(s, p) ==
  CHOOSE run : run = [n \in 0 .. Len(s) |->
                        IF n = 0 THEN <<>>
                        ELSE IF s[n] = p THEN run[n - 1]
                        ELSE IF n = 1 \/ s[n - 1] = p THEN Append(run[n - 1], <<s[n]>>)
                        ELSE [run[n - 1] EXCEPT ![Len(run[n - 1])] = Append(@, s[n])]]

LEMMA AppendIsPart ==
  ASSUME NEW A, NEW q \in Seq(A), NEW a \in A
  PROVE  Append(q, a) \in Seq(A) \ {<<>>}
<1>1. Append(q, a) \in Seq(A) /\ Len(Append(q, a)) = Len(q) + 1 /\ Len(q) \in Nat
  OBVIOUS
<1>2. Len(Append(q, a)) # 0
  BY <1>1
<1>3. Append(q, a) # <<>>
  BY <1>1, <1>2, EmptySeq
<1> QED
  BY <1>1, <1>3

(* The runs of s are strings without p that are not empty.                 *)
LEMMA SplitFunction ==
  ASSUME NEW S, NEW s \in Seq(S), NEW p
  PROVE  \E f \in [0 .. Len(s) -> Seq(Parts(S, p))] :
           Splits(s, p, f) /\ Split(s, p) = f[Len(s)]
<1> DEFINE V == Seq(Parts(S, p))
           h == [x \in (1 .. Len(s)) \X V |-> Split_Next(s, p, x[1], x[2])]
<1>1. 0 \in Int /\ Len(s) \in Int
  OBVIOUS
<1>2. <<>> \in V
  OBVIOUS
<1>3. ASSUME NEW n \in 1 .. Len(s), NEW v \in V PROVE Split_Next(s, p, n, v) \in V
  <2>1. CASE s[n] = p
    BY <2>1 DEF Split_Next
  <2>2. CASE s[n] # p
    <3>1. s[n] \in S \ {p} /\ <<s[n]>> \in Parts(S, p)
      BY <2>2 DEF Parts
    <3>2. Append(v, <<s[n]>>) \in V
      BY <3>1
    <3>3. ASSUME Len(v) # 0 PROVE [v EXCEPT ![Len(v)] = Append(@, s[n])] \in V
      <4>1. Len(v) \in 1 .. Len(v) /\ v[Len(v)] \in Parts(S, p)
        BY <3>3
      <4>2. Append(v[Len(v)], s[n]) \in Parts(S, p)
        <5>1. v[Len(v)] \in Seq(S \ {p}) /\ s[n] \in S \ {p}
          BY <3>1, <4>1 DEF Parts
        <5> QED
          BY <5>1, AppendIsPart DEF Parts
      <4> QED
        BY <4>1, <4>2
    <3>4. ASSUME Len(v) = 0 PROVE [v EXCEPT ![Len(v)] = Append(@, s[n])] = v
      BY <3>4
    <3> QED
      BY <2>2, <3>2, <3>3, <3>4 DEF Split_Next
  <2> QED
    BY <2>1, <2>2
<1>4. \A n \in 1 .. Len(s) : \A v \in V : h[<<n, v>>] = Split_Next(s, p, n, v)
  OBVIOUS
<1> HIDE DEF V, h
<1>5. Maps(h, V, 0, Len(s))
  BY <1>3, <1>4 DEF Maps
<1>6. PICK f \in [0 .. Len(s) -> V] : Repeats(f, <<>>, h, 0, Len(s))
  BY <1>1, <1>2, <1>5, Recursion, Zenon
<1>7. ASSUME NEW n \in 0 .. Len(s), n # 0 PROVE f[n - 1] \in V
  BY <1>6, <1>7
<1>8. Splits(s, p, f)
  BY <1>4, <1>6, <1>7 DEF Splits, Repeats
<1>9. f = [n \in 0 .. Len(s) |->
             IF n = 0 THEN <<>>
             ELSE IF s[n] = p THEN f[n - 1]
             ELSE IF n = 1 \/ s[n - 1] = p THEN Append(f[n - 1], <<s[n]>>)
             ELSE [f[n - 1] EXCEPT ![Len(f[n - 1])] = Append(@, s[n])]]
  BY <1>6, <1>8 DEF Splits, Split_Next
<1> DEFINE g == Split_Chosen(s, p)
<1>10. g = [n \in 0 .. Len(s) |->
              IF n = 0 THEN <<>>
              ELSE IF s[n] = p THEN g[n - 1]
              ELSE IF n = 1 \/ s[n - 1] = p THEN Append(g[n - 1], <<s[n]>>)
              ELSE [g[n - 1] EXCEPT ![Len(g[n - 1])] = Append(@, s[n])]]
  BY <1>9 DEF Split_Chosen
<1>11. Split(s, p) = g[Len(s)]
  BY DEF Split, Split_Chosen
<1> HIDE DEF g
<1>12. Splits(s, p, g)
  BY <1>10 DEF Splits, Split_Next
<1>13. f[0] = g[0] /\ Follows(f, g, 0, Len(s))
  BY <1>1, <1>8, <1>12 DEF Splits, Follows
<1>14. Alike(f, g, 0, Len(s))
  BY <1>1, <1>13, SameRecursion, Zenon
<1>15. Split(s, p) = f[Len(s)]
  BY <1>1, <1>11, <1>14 DEF Alike
<1> QED
  BY <1>6, <1>8, <1>15 DEF V

(* A separator and one more token make one more run of that token.         *)
LEMMA SplitMore ==
  ASSUME NEW S, NEW s \in Seq(S), NEW p \in S, NEW t \in S, t # p
  PROVE  Split(s \o <<p, t>>, p) = Append(Split(s, p), <<t>>)
<1> DEFINE n == Len(s)
           r == s \o <<p, t>>
<1>1. n \in Nat /\ 0 \in Int /\ n \in Int
  OBVIOUS
<1>2. /\ r \in Seq(S) /\ Len(r) = n + 2 /\ r[n + 1] = p /\ r[n + 2] = t
      /\ \A k \in 1 .. n : r[k] = s[k]
  OBVIOUS
<1>3. PICK f \in [0 .. n -> Seq(Parts(S, p))] : Splits(s, p, f) /\ Split(s, p) = f[n]
  BY SplitFunction
<1> HIDE DEF n, r
<1>4. PICK g : Splits(r, p, g) /\ Split(r, p) = g[Len(r)]
  <2>1. r \in Seq(S)
    BY <1>2
  <2>2. \E g \in [0 .. Len(r) -> Seq(Parts(S, p))] :
          Splits(r, p, g) /\ Split(r, p) = g[Len(r)]
    BY <2>1, SplitFunction, Zenon
  <2> QED
    BY <2>2, Zenon
<1>5. \A k \in 0 .. n : g[k] = IF k = 0 THEN <<>> ELSE Split_Next(s, p, k, g[k - 1])
  <2>1. ASSUME NEW k \in 1 .. n, NEW v PROVE Split_Next(r, p, k, v) = Split_Next(s, p, k, v)
    <3>1. r[k] = s[k] /\ (k # 1 => r[k - 1] = s[k - 1])
      BY <1>1, <1>2
    <3> QED
      BY <3>1 DEF Split_Next
  <2>2. \A k \in 0 .. n : g[k] = IF k = 0 THEN <<>> ELSE Split_Next(r, p, k, g[k - 1])
    BY <1>1, <1>2, <1>4 DEF Splits
  <2> QED
    BY <1>1, <2>1, <2>2
<1>6. f[0] = g[0] /\ Follows(f, g, 0, n)
  BY <1>1, <1>3, <1>5 DEF Splits, Follows, n
<1>7. Alike(f, g, 0, n)
  BY <1>1, <1>6, SameRecursion, Zenon
<1>8. g[n] = f[n]
  BY <1>1, <1>7 DEF Alike
<1>9. g[n + 1] = g[n]
  <2>1. n + 1 \in 0 .. Len(r) /\ n + 1 # 0 /\ (n + 1) - 1 = n
    BY <1>1, <1>2
  <2> QED
    BY <1>2, <1>4, <2>1 DEF Splits, Split_Next
<1>10. g[n + 2] = Append(g[n + 1], <<t>>)
  <2>1. n + 2 \in 0 .. Len(r) /\ n + 2 # 0 /\ (n + 2) - 1 = n + 1
    BY <1>1, <1>2
  <2> QED
    BY <1>2, <1>4, <2>1 DEF Splits, Split_Next
<1> QED
  BY <1>2, <1>3, <1>4, <1>8, <1>9, <1>10 DEF r

(* A string is one of one token, or of one more beside a separator.        *)
LEMMA StringOfOne == \A t \in Token : <<t>> \in String
BY DEF String

LEMMA StringMore ==
  ASSUME NEW q \in String, NEW t \in Token, Len(q) # 0,
         q[Len(q)] \in Separator \/ t \in Separator
  PROVE  Append(q, t) \in String
<1>1. q \in Seq(Token) /\ Append(q, t) \in Seq(Token) /\ Len(Append(q, t)) = Len(q) + 1
  BY DEF String
<1>2. /\ \A k \in 1 .. Len(q) : Append(q, t)[k] = q[k]
      /\ Append(q, t)[Len(q) + 1] = t
  BY <1>1
<1>3. ASSUME NEW k \in 1 .. Len(Append(q, t)) - 1
      PROVE  Append(q, t)[k] \in Separator \/ Append(q, t)[k + 1] \in Separator
  <2>1. CASE k = Len(q)
    BY <1>1, <1>2, <2>1
  <2>2. CASE k # Len(q)
    <3>1. k \in 1 .. Len(q) - 1 /\ k \in 1 .. Len(q) /\ k + 1 \in 1 .. Len(q)
      BY <1>1, <2>2
    <3>2. q[k] \in Separator \/ q[k + 1] \in Separator
      BY <3>1 DEF String
    <3> QED
      BY <1>2, <3>1, <3>2
  <2> QED
    BY <2>1, <2>2
<1> QED
  BY <1>1, <1>3 DEF String

(* The runs of a string are strings.                                       *)
LEMMA SplitStrings ==
  ASSUME NEW s \in String, NEW p
  PROVE  Split(s, p) \in Seq(String \cap Parts(Token, p))
<1>1. s \in Seq(Token) /\ 0 \in Int /\ Len(s) \in Int /\ Len(s) \in Nat
  BY DEF String
<1>2. PICK f \in [0 .. Len(s) -> Seq(Parts(Token, p))] :
        Splits(s, p, f) /\ Split(s, p) = f[Len(s)]
  BY <1>1, SplitFunction
<1> DEFINE Last(v) == v[Len(v)]
           Open(n) == Len(f[n]) # 0 /\ Len(Last(f[n])) # 0 /\ Last(Last(f[n])) = s[n]
           R == {n \in 0 .. Len(s) : /\ f[n] \in Seq(String)
                                     /\ n # 0 /\ s[n] # p => Open(n)}
<1>3. 0 \in R
  <2>1. f[0] = <<>>
    BY <1>1, <1>2 DEF Splits
  <2> QED
    BY <1>1, <2>1
<1>4. ASSUME NEW n \in 0 .. Len(s), n # 0, n - 1 \in R PROVE n \in R
  <2> DEFINE v == f[n - 1]
  <2>1. f[n] = Split_Next(s, p, n, v)
    BY <1>2, <1>4 DEF Splits
  <2>2. s[n] \in Token /\ v \in Seq(String) /\ Len(v) \in Nat
    BY <1>1, <1>4
  <2>3. CASE s[n] = p
    BY <1>4, <2>1, <2>3 DEF Split_Next
  <2>4. CASE s[n] # p /\ (n = 1 \/ s[n - 1] = p)
    <3>1. f[n] = Append(v, <<s[n]>>) /\ <<s[n]>> \in String
      BY <2>1, <2>2, <2>4, StringOfOne DEF Split_Next
    <3>2. f[n] \in Seq(String) /\ Len(f[n]) = Len(v) + 1 /\ Last(f[n]) = <<s[n]>>
      BY <2>2, <3>1
    <3>3. Len(<<s[n]>>) = 1 /\ Last(<<s[n]>>) = s[n]
      OBVIOUS
    <3>4. Open(n)
      BY <2>2, <3>2, <3>3
    <3> QED
      BY <3>2, <3>4
  <2>5. CASE s[n] # p /\ n # 1 /\ s[n - 1] # p
    <3> DEFINE last == Append(Last(v), s[n])
    <3>1. f[n] = [v EXCEPT ![Len(v)] = last]
      BY <2>1, <2>5 DEF Split_Next
    <3>2. Open(n - 1)
      BY <1>4, <2>5
    <3>3. Last(v) \in String /\ Len(v) \in 1 .. Len(v)
      BY <2>2, <3>2
    <3>4. n - 1 \in 1 .. Len(s) - 1 /\ (n - 1) + 1 = n
      BY <1>1, <1>4, <2>5
    <3>5. s[n - 1] \in Separator \/ s[n] \in Separator
      BY <3>4 DEF String
    <3>6. last \in String
      BY <2>2, <3>2, <3>3, <3>5, StringMore
    <3>7. Len(last) # 0 /\ Last(last) = s[n]
      BY <2>2, <3>3 DEF String
    <3> HIDE DEF last
    <3>8. f[n] \in Seq(String) /\ Len(f[n]) = Len(v) /\ f[n][Len(v)] = last
      BY <2>2, <3>1, <3>3, <3>6
    <3>9. Open(n)
      BY <3>2, <3>7, <3>8
    <3> QED
      BY <3>8, <3>9
  <2> QED
    BY <2>3, <2>4, <2>5
<1> HIDE DEF R
<1>5. \A n \in 0 .. Len(s) : n \in R
  BY <1>1, <1>3, <1>4, IntervalInduction
<1>6. Split(s, p) \in Seq(String)
  BY <1>1, <1>2, <1>5 DEF R
<1>7. Split(s, p) \in Seq(Parts(Token, p))
  BY <1>1, <1>2
<1> QED
  BY <1>6, <1>7

-----------------------------------------------------------------------------
(* Trimming and cleaning.                                                  *)

(* A string without spaces stays as it is.                                 *)
LEMMA TrimKeeps ==
  ASSUME NEW S, NEW s \in Parts(S, Space)
  PROVE  Trim(s) = s
<1> DEFINE kept == {k \in 1 .. Len(s) : s[k] # Space}
           first == CHOOSE a \in kept : \A k \in kept : a <= k
           last  == CHOOSE b \in kept : \A k \in kept : k <= b
<1>1. s \in Seq(S \ {Space}) /\ Len(s) \in Nat /\ Len(s) # 0
  BY DEF Parts
<1>2. kept = 1 .. Len(s)
  BY <1>1
<1>3. Trim(s) = SubSeq(s, first, last)
  <2>1. kept # {}
    BY <1>1, <1>2
  <2> QED
    BY <2>1, Zenon DEF Trim
<1> HIDE DEF kept
<1>4. first = 1
  <2>1. 1 \in kept /\ \A k \in kept : 1 <= k
    BY <1>1, <1>2
  <2> QED
    BY <1>2, <2>1
<1>5. last = Len(s)
  <2>1. Len(s) \in kept /\ \A k \in kept : k <= Len(s)
    BY <1>1, <1>2
  <2> QED
    BY <1>1, <1>2, <2>1
<1> HIDE DEF first, last
<1>6. Trim(s) = SubSeq(s, 1, Len(s))
  BY <1>3, <1>4, <1>5
<1> QED
  BY <1>1, <1>6

(* A vector without empty strings stays as it is.                          *)
Cleans(strs, f) ==
  \A n \in 0 .. Len(strs) :
    f[n] = IF n = 0 THEN <<>>
           ELSE IF strs[n] = <<>> THEN f[n - 1] ELSE Append(f[n - 1], strs[n])

Clean_Chosen(strs) ==
  CHOOSE moved : moved = [n \in 0 .. Len(strs) |->
                            IF n = 0 THEN <<>>
                            ELSE IF strs[n] = <<>> THEN moved[n - 1]
                            ELSE Append(moved[n - 1], strs[n])]

LEMMA CleanKeeps ==
  ASSUME NEW S, NEW strs \in Seq(S), <<>> \notin S
  PROVE  Clean(strs) = strs
<1> DEFINE f == [n \in 0 .. Len(strs) |-> SubSeq(strs, 1, n)]
           g == Clean_Chosen(strs)
<1>1. 0 \in Int /\ Len(strs) \in Int /\ Len(strs) \in Nat
  OBVIOUS
<1>2. ASSUME NEW n \in 1 .. Len(strs)
      PROVE  SubSeq(strs, 1, n) = Append(SubSeq(strs, 1, n - 1), strs[n])
  OBVIOUS
<1>3. f = [n \in 0 .. Len(strs) |->
             IF n = 0 THEN <<>>
             ELSE IF strs[n] = <<>> THEN f[n - 1] ELSE Append(f[n - 1], strs[n])]
  <2>1. SubSeq(strs, 1, 0) = <<>>
    OBVIOUS
  <2>2. ASSUME NEW n \in 1 .. Len(strs)
        PROVE  strs[n] # <<>> /\ f[n] = Append(f[n - 1], strs[n])
    BY <1>1, <1>2
  <2>3. f[0] = <<>>
    BY <1>1, <2>1
  <2> HIDE DEF f
  <2>4. ASSUME NEW n \in 0 .. Len(strs)
        PROVE  f[n] = IF n = 0 THEN <<>>
                      ELSE IF strs[n] = <<>> THEN f[n - 1] ELSE Append(f[n - 1], strs[n])
    <3>1. CASE n = 0
      BY <2>3, <3>1
    <3>2. CASE n # 0
      <4>1. n \in 1 .. Len(strs)
        BY <1>1, <3>2
      <4> QED
        BY <2>2, <3>2, <4>1
    <3> QED
      BY <3>1, <3>2
  <2>5. f = [n \in 0 .. Len(strs) |-> f[n]]
    BY DEF f
  <2> QED
    BY <2>4, <2>5
<1>4. f[Len(strs)] = strs
  BY <1>1
<1> HIDE DEF f
<1>5. g = [n \in 0 .. Len(strs) |->
             IF n = 0 THEN <<>>
             ELSE IF strs[n] = <<>> THEN g[n - 1] ELSE Append(g[n - 1], strs[n])]
  BY <1>3 DEF Clean_Chosen
<1>6. Clean(strs) = g[Len(strs)] \o SubSeq(strs, Len(g[Len(strs)]) + 1, Len(strs))
  BY DEF Clean, Clean_Chosen
<1> HIDE DEF g
<1>7. Cleans(strs, f) /\ Cleans(strs, g)
  BY <1>3, <1>5 DEF Cleans
<1>8. f[0] = g[0] /\ Follows(f, g, 0, Len(strs))
  BY <1>1, <1>7 DEF Cleans, Follows
<1>9. Alike(f, g, 0, Len(strs))
  BY <1>1, <1>8, SameRecursion, Zenon
<1>10. g[Len(strs)] = strs
  BY <1>1, <1>4, <1>9 DEF Alike
<1> QED
  BY <1>6, <1>10

(* The words of a string are its runs, when no run has a space in it.      *)
LEMMA WordsAreRuns ==
  ASSUME NEW S, NEW s, NEW p, Split(s, p) \in Seq(Parts(S, Space))
  PROVE  Words(s, p) = Split(s, p)
<1> DEFINE runs == Split(s, p)
<1>1. runs \in Seq(Parts(S, Space))
  OBVIOUS
<1> HIDE DEF runs
<1>2. \A k \in 1 .. Len(runs) : Trim(runs[k]) = runs[k]
  BY <1>1, TrimKeeps
<1>3. TrimAll(runs) = runs
  BY <1>1, <1>2 DEF TrimAll
<1>4. <<>> \notin Parts(S, Space)
  BY DEF Parts
<1>5. Clean(runs) = runs
  BY <1>1, <1>4, CleanKeeps
<1> QED
  BY <1>3, <1>5 DEF Words, runs

(* No argument of a command line is empty or has a space in it.            *)
LEMMA ArgumentsType ==
  ASSUME NEW line \in String
  PROVE  Arguments(line) \in Seq(String \cap Parts(Token, Space))
<1>1. Split(line, Space) \in Seq(String \cap Parts(Token, Space))
  BY SplitStrings
<1>2. Split(line, Space) \in Seq(Parts(Token, Space))
  BY <1>1
<1>3. Words(line, Space) = Split(line, Space)
  BY <1>2, WordsAreRuns
<1> QED
  BY <1>1, <1>3 DEF Arguments

-----------------------------------------------------------------------------
(* Nodes.                                                                  *)

(* The nodes of a path: a name, or one of the dots.                        *)
NameNode == {<<t>> : t \in Name}
PathNode == NameNode \cup {Dot, DotDot}

LEMMA NodeFacts ==
  ASSUME NEW e \in PathNode
  PROVE  /\ e = <<e[1]>> /\ e[1] \in Token \ Separator /\ e \in String \ {<<>>}
         /\ Len(e) = 1
         /\ e \notin {Dot, DotDot} <=> e \in NameNode
<1>1. e = <<e[1]>> /\ e[1] \in Name \cup {".", ".."} /\ Len(e) = 1
  BY DEF PathNode, NameNode, Dot, DotDot
<1>2. e[1] \in Token \ Separator
  BY <1>1, PathsAssumption DEF Token, Separator, Slash, Backslash, Space
<1>3. e \in String
  BY <1>1, <1>2, StringOfOne
<1>4. Dot \notin NameNode /\ DotDot \notin NameNode
  BY PathsAssumption DEF NameNode, Dot, DotDot
<1> QED
  BY <1>1, <1>2, <1>3, <1>4 DEF PathNode

(* A string without separators is a node: is_path_acceptable accepts       *)
(* nothing else.                                                           *)
LEMMA PlainIsNode ==
  ASSUME NEW q \in String \cap Parts(Token, Space), Plain(q)
  PROVE  q \in PathNode
<1>1. q \in Seq(Token) /\ Len(q) # 0 /\ Len(q) \in Nat
  BY DEF Parts, String
<1>2. \A k \in 1 .. Len(q) : q[k] \in Token /\ q[k] \notin Separator
  BY <1>1 DEF Plain, Parts, Separator
<1>3. \A k \in 1 .. Len(q) - 1 : q[k] \in Separator \/ q[k + 1] \in Separator
  BY DEF String
<1>4. Len(q) = 1
  <2>1. SUFFICES ASSUME Len(q) # 1 PROVE FALSE
    OBVIOUS
  <2> DEFINE n == Len(q)
  <2>2. n \in Nat /\ n # 0 /\ n # 1
    BY <1>1, <2>1
  <2> HIDE DEF n
  <2>3. 1 \in 1 .. n - 1 /\ 1 \in 1 .. n /\ 1 + 1 \in 1 .. n
    BY <2>2
  <2> QED
    BY <1>2, <1>3, <2>3 DEF n
<1>5. q = <<q[1]>> /\ q[1] \in Name \cup {".", ".."}
  BY <1>1, <1>2, <1>4 DEF Token
<1> QED
  BY <1>5 DEF PathNode, NameNode, Dot, DotDot

(* The path that an argument means has nodes, if it is acceptable.         *)
LEMMA MeantType ==
  ASSUME NEW path \in Seq(PathNode), NEW name \in String \cap Parts(Token, Space),
         Acceptable(Meant(path, name))
  PROVE  Meant(path, name) \in Seq(PathNode)
<1> DEFINE rest == IF IsRoot(name) THEN Tail(name) ELSE name
           words == Words(rest, Slash)
<1>1. name \in Seq(Token \ {Space}) /\ Len(name) # 0 /\ Len(name) \in Nat
  BY DEF Parts
<1>2. rest \in String /\ rest \in Seq(Token \ {Space})
  <2>1. /\ Tail(name) \in Seq(Token \ {Space}) /\ Tail(name) \in Seq(Token)
        /\ Len(Tail(name)) = Len(name) - 1
        /\ \A k \in 1 .. Len(name) - 1 : Tail(name)[k] = name[k + 1]
    BY <1>1
  <2>2. ASSUME NEW k \in 1 .. Len(name) - 2
        PROVE  Tail(name)[k] \in Separator \/ Tail(name)[k + 1] \in Separator
    <3>1. k + 1 \in 1 .. Len(name) - 1 /\ k \in 1 .. Len(name) - 1
      BY <1>1
    <3>2. name[k + 1] \in Separator \/ name[(k + 1) + 1] \in Separator
      BY <3>1 DEF String
    <3> QED
      BY <2>1, <3>1, <3>2
  <2>3. Tail(name) \in String
    <3>1. Len(Tail(name)) - 1 = Len(name) - 2
      BY <1>1, <2>1
    <3> QED
      BY <2>1, <2>2, <3>1, Zenon DEF String
  <2> QED
    BY <1>1, <2>1, <2>3
<1> HIDE DEF rest
<1>3. Split(rest, Slash) \in Seq(String \cap Parts(Token, Slash))
  BY <1>2, SplitStrings
<1>4. Split(rest, Slash) \in Seq(Parts(Token \ {Space}, Slash))
  <2>1. PICK f \in [0 .. Len(rest) -> Seq(Parts(Token \ {Space}, Slash))] :
          Splits(rest, Slash, f) /\ Split(rest, Slash) = f[Len(rest)]
    BY <1>2, SplitFunction, Zenon
  <2>2. Len(rest) \in 0 .. Len(rest)
    BY <1>2
  <2> QED
    BY <2>1, <2>2
<1>5. Parts(Token \ {Space}, Slash) \subseteq Parts(Token, Space)
  BY DEF Parts
<1>6. Split(rest, Slash) \in Seq(String \cap Parts(Token, Space))
  <2> DEFINE runs == Split(rest, Slash)
  <2>1. runs \in Seq(String) /\ runs \in Seq(Parts(Token, Space))
    <3>1. String \cap Parts(Token, Slash) \subseteq String
      OBVIOUS
    <3> QED
      BY <1>3, <1>4, <1>5, <3>1, SequenceOfMore, Zenon
  <2> HIDE DEF runs
  <2>2. \A k \in 1 .. Len(runs) : runs[k] \in String \cap Parts(Token, Space)
    BY <2>1
  <2>3. runs \in Seq(String \cap Parts(Token, Space))
    BY <2>1, <2>2
  <2> QED
    BY <2>3 DEF runs
<1>7. Split(rest, Slash) \in Seq(Parts(Token, Space))
  BY <1>6
<1>8. words \in Seq(String \cap Parts(Token, Space))
  BY <1>6, <1>7, WordsAreRuns
<1>9. Meant(path, name) = IF IsRoot(name) THEN words ELSE path \o words
  BY DEF Meant, rest
<1> HIDE DEF words
<1>10. \A k \in 1 .. Len(Meant(path, name)) : Plain(Meant(path, name)[k])
  BY DEF Acceptable
<1>11. \A k \in 1 .. Len(words) : Plain(words[k])
  <2>1. CASE IsRoot(name)
    BY <1>9, <1>10, <2>1
  <2>2. CASE ~IsRoot(name)
    <3>1. ASSUME NEW k \in 1 .. Len(words)
          PROVE  /\ Len(path) + k \in 1 .. Len(path \o words)
                 /\ (path \o words)[Len(path) + k] = words[k]
      BY <1>8
    <3> QED
      BY <1>9, <1>10, <2>2, <3>1
  <2> QED
    BY <2>1, <2>2
<1>12. words \in Seq(PathNode)
  BY <1>8, <1>11, PlainIsNode
<1> QED
  BY <1>9, <1>12

-----------------------------------------------------------------------------
(* The string of a path.                                                   *)

FilePath(p) == PathJoin(BASE_PATH, p)

FileToken == Token \cup {"repo"}

(* The strings path_join makes do not end in a slash.                      *)
FileString == {s \in Seq(FileToken) : Len(s) # 0 /\ s[Len(s)] # Slash}

LEMMA JoinNode ==
  ASSUME NEW a \in FileString, NEW e \in PathNode
  PROVE  Join(a, e) = a \o <<Slash, e[1]>> /\ Join(a, e) \in FileString
<1>1. /\ e = <<e[1]>> /\ e[1] \in Token \ Separator /\ Len(e) = 1 /\ e # <<>>
      /\ Head(e) = e[1] /\ e[1] # Slash
  <2>1. e = <<e[1]>> /\ e[1] \in Token \ Separator /\ Len(e) = 1
    BY NodeFacts
  <2>2. Head(<<e[1]>>) = e[1] /\ <<e[1]>> # <<>>
    OBVIOUS
  <2> QED
    BY <2>1, <2>2 DEF Separator
<1>2. Trailing(Leading(e)) = e
  <2>1. Leading(e) = e
    BY <1>1 DEF Leading
  <2>2. e[Len(e)] # Slash
    BY <1>1
  <2> QED
    BY <2>1, <2>2 DEF Trailing
<1>3. a \in Seq(FileToken) /\ Len(a) # 0 /\ a[Len(a)] # Slash
  BY DEF FileString
<1>4. Trailing(a) = a
  BY <1>3 DEF Trailing
<1>5. Join(a, e) = a \o <<Slash>> \o <<e[1]>>
  BY <1>1, <1>2, <1>4 DEF Join
<1>6. Slash \in FileToken /\ e[1] \in FileToken
  BY <1>1 DEF FileToken, Token, Separator
<1> DEFINE t == e[1]
<1> HIDE DEF t
<1>7. a \o <<Slash>> \o <<t>> = a \o <<Slash, t>>
  BY <1>3, <1>6 DEF t
<1> DEFINE r == a \o <<Slash, t>>
<1>8. /\ r \in Seq(FileToken) /\ Len(r) = Len(a) + 2 /\ Len(a) \in Nat
      /\ r[Len(a) + 2] = t
  BY <1>3, <1>6 DEF t
<1> HIDE DEF r
<1>9. r \in FileString
  <2>1. Len(r) # 0 /\ r[Len(r)] # Slash
    BY <1>1, <1>8 DEF t
  <2> QED
    BY <1>8, <2>1 DEF FileString
<1> QED
  BY <1>5, <1>7, <1>9 DEF t, r

LEMMA BaseIsFileString ==
  /\ BASE_PATH \in FileString
  /\ Split(BASE_PATH, Slash) = <<DotDot, <<"repo">>>>
<1>1. /\ Slash \in FileToken /\ ".." \in FileToken /\ "repo" \in FileToken
      /\ ".." # Slash /\ "repo" # Slash
  BY DEF FileToken, Token, Separator, Slash
<1> DEFINE s == <<"..">>
<1>2. s \in Seq(FileToken) /\ Len(s) = 1 /\ s[1] # Slash /\ <<s[1]>> = DotDot
  BY <1>1 DEF DotDot
<1>3. BASE_PATH = s \o <<Slash, "repo">>
  BY DEF BASE_PATH
<1> HIDE DEF s
<1>4. PICK f \in [0 .. Len(s) -> Seq(Parts(FileToken, Slash))] :
        Splits(s, Slash, f) /\ Split(s, Slash) = f[Len(s)]
  BY <1>2, SplitFunction, Zenon
<1>5. f[0] = <<>> /\ f[1] = Append(f[0], DotDot)
  <2>1. \A n \in 0 .. 1 : f[n] = IF n = 0 THEN <<>> ELSE Split_Next(s, Slash, n, f[n - 1])
    BY <1>2, <1>4 DEF Splits
  <2>2. f[0] = <<>> /\ f[1] = Split_Next(s, Slash, 1, f[0])
    BY <2>1
  <2> QED
    BY <1>2, <2>2 DEF Split_Next
<1>6. Split(s, Slash) = <<DotDot>>
  BY <1>2, <1>4, <1>5
<1>7. Split(s \o <<Slash, "repo">>, Slash) = Append(Split(s, Slash), <<"repo">>)
  BY <1>1, <1>2, SplitMore
<1>8. Append(<<DotDot>>, <<"repo">>) = <<DotDot, <<"repo">>>>
  OBVIOUS
<1>9. BASE_PATH \in FileString
  BY <1>1 DEF BASE_PATH, FileString
<1> QED
  BY <1>3, <1>6, <1>7, <1>8, <1>9

Joins(p, f) ==
  \A n \in 0 .. Len(p) : f[n] = IF n = 0 THEN BASE_PATH ELSE Join(f[n - 1], p[n])

Join_Chosen(p) ==
  CHOOSE join : join = [n \in 0 .. Len(p) |->
                          IF n = 0 THEN BASE_PATH ELSE Join(join[n - 1], p[n])]

LEMMA JoinFunction ==
  ASSUME NEW p \in Seq(PathNode)
  PROVE  \E f \in [0 .. Len(p) -> FileString] : Joins(p, f) /\ FilePath(p) = f[Len(p)]
<1> DEFINE h == [x \in (1 .. Len(p)) \X FileString |-> Join(x[2], p[x[1]])]
<1>1. 0 \in Int /\ Len(p) \in Int /\ Len(p) \in Nat
  OBVIOUS
<1>2. ASSUME NEW n \in 1 .. Len(p), NEW v \in FileString
      PROVE  h[<<n, v>>] = Join(v, p[n]) /\ h[<<n, v>>] \in FileString
  <2>1. h[<<n, v>>] = Join(v, p[n]) /\ p[n] \in PathNode
    OBVIOUS
  <2> QED
    BY <2>1, JoinNode
<1> HIDE DEF h
<1>3. Maps(h, FileString, 0, Len(p))
  BY <1>2 DEF Maps
<1>4. PICK f \in [0 .. Len(p) -> FileString] : Repeats(f, BASE_PATH, h, 0, Len(p))
  BY <1>1, <1>3, BaseIsFileString, Recursion, Zenon
<1>5. ASSUME NEW n \in 0 .. Len(p), n # 0 PROVE f[n - 1] \in FileString
  BY <1>4, <1>5
<1>6. Joins(p, f)
  <2>1. ASSUME NEW n \in 0 .. Len(p), n # 0 PROVE h[<<n, f[n - 1]>>] = Join(f[n - 1], p[n])
    <3>1. n \in 1 .. Len(p)
      BY <2>1
    <3> QED
      BY <1>2, <1>5, <2>1, <3>1
  <2> QED
    BY <1>4, <2>1 DEF Joins, Repeats
<1>7. f = [n \in 0 .. Len(p) |-> IF n = 0 THEN BASE_PATH ELSE Join(f[n - 1], p[n])]
  BY <1>4, <1>6 DEF Joins
<1> DEFINE g == Join_Chosen(p)
<1>8. g = [n \in 0 .. Len(p) |-> IF n = 0 THEN BASE_PATH ELSE Join(g[n - 1], p[n])]
  BY <1>7 DEF Join_Chosen
<1>9. FilePath(p) = g[Len(p)]
  BY DEF FilePath, PathJoin, Join_Chosen
<1> HIDE DEF g
<1>10. f[0] = g[0] /\ Follows(f, g, 0, Len(p))
  BY <1>1, <1>6, <1>8 DEF Joins, Follows
<1>11. Alike(f, g, 0, Len(p))
  BY <1>1, <1>10, SameRecursion, Zenon
<1>12. FilePath(p) = f[Len(p)]
  BY <1>1, <1>9, <1>11 DEF Alike
<1> QED
  BY <1>4, <1>6, <1>12

LEMMA FilePathType ==
  ASSUME NEW p \in Seq(PathNode)
  PROVE  FilePath(p) \in FileString
<1>1. PICK f \in [0 .. Len(p) -> FileString] : Joins(p, f) /\ FilePath(p) = f[Len(p)]
  BY JoinFunction
<1>2. Len(p) \in 0 .. Len(p)
  OBVIOUS
<1> QED
  BY <1>1, <1>2

LEMMA FilePathNone == FilePath(<<>>) = BASE_PATH
<1>1. <<>> \in Seq(PathNode) /\ Len(<<>>) = 0 /\ 0 \in 0 .. 0
  OBVIOUS
<1>2. PICK f \in [0 .. Len(<<>>) -> FileString] :
        Joins(<<>>, f) /\ FilePath(<<>>) = f[Len(<<>>)]
  BY <1>1, JoinFunction, Zenon
<1> QED
  BY <1>1, <1>2 DEF Joins

(* The string of a longer path is path_join of that of the shorter.        *)
LEMMA FilePathMore ==
  ASSUME NEW p \in Seq(PathNode), NEW e \in PathNode
  PROVE  FilePath(Append(p, e)) = Join(FilePath(p), e)
<1> DEFINE n == Len(p)
           r == Append(p, e)
<1>1. n \in Nat /\ 0 \in Int /\ n \in Int
  OBVIOUS
<1>2. /\ r \in Seq(PathNode) /\ Len(r) = n + 1 /\ r[n + 1] = e
      /\ \A k \in 1 .. n : r[k] = p[k]
  OBVIOUS
<1>3. PICK f : Joins(p, f) /\ FilePath(p) = f[n]
  BY JoinFunction
<1> HIDE DEF n, r
<1>4. PICK g : Joins(r, g) /\ FilePath(r) = g[Len(r)]
  <2>1. \E g \in [0 .. Len(r) -> FileString] : Joins(r, g) /\ FilePath(r) = g[Len(r)]
    BY <1>2, JoinFunction, Zenon
  <2> QED
    BY <2>1, Zenon
<1>5. \A k \in 0 .. n : f[k] = IF k = 0 THEN BASE_PATH ELSE Join(f[k - 1], p[k])
  BY <1>3 DEF Joins, n
<1>6. \A k \in 0 .. n + 1 : g[k] = IF k = 0 THEN BASE_PATH ELSE Join(g[k - 1], r[k])
  BY <1>2, <1>4 DEF Joins
<1>7. f[0] = g[0] /\ Follows(f, g, 0, n)
  <2>1. \A k \in 0 .. n : k \in 0 .. n + 1 /\ (k # 0 => k \in 1 .. n)
    BY <1>1
  <2> QED
    BY <1>1, <1>2, <1>5, <1>6, <2>1 DEF Follows
<1>8. Alike(f, g, 0, n)
  BY <1>1, <1>7, SameRecursion, Zenon
<1>9. g[n] = f[n]
  BY <1>1, <1>8 DEF Alike
<1>10. g[n + 1] = Join(g[n], e)
  <2>1. n + 1 \in 0 .. n + 1 /\ n + 1 # 0 /\ (n + 1) - 1 = n
    BY <1>1
  <2> QED
    BY <1>2, <1>6, <2>1
<1> QED
  BY <1>2, <1>3, <1>4, <1>9, <1>10 DEF r

(* Between slashes are the nodes of the base and of the path.              *)
LEMMA NodesOfFilePath ==
  \A p \in Seq(PathNode) : Split(FilePath(p), Slash) = <<DotDot, <<"repo">>>> \o p
<1> DEFINE Z == {p \in Seq(PathNode) :
                   Split(FilePath(p), Slash) = <<DotDot, <<"repo">>>> \o p}
<1>1. <<>> \in Z
  <2>1. <<DotDot, <<"repo">>>> \o <<>> = <<DotDot, <<"repo">>>>
    OBVIOUS
  <2> QED
    BY <2>1, FilePathNone, BaseIsFileString
<1>2. ASSUME NEW p \in Seq(PathNode), p \in Z, NEW e \in PathNode
      PROVE  Append(p, e) \in Z
  <2> DEFINE s == FilePath(p)
  <2>1. s \in FileString /\ Join(s, e) = s \o <<Slash, e[1]>>
    BY FilePathType, JoinNode
  <2>2. Slash \in FileToken /\ e[1] \in FileToken /\ e[1] # Slash /\ e = <<e[1]>>
    BY NodeFacts DEF FileToken, Token, Separator
  <2>3. s \in Seq(FileToken)
    BY <2>1 DEF FileString
  <2> HIDE DEF s
  <2>4. Split(s \o <<Slash, e[1]>>, Slash) = Append(Split(s, Slash), <<e[1]>>)
    BY <2>2, <2>3, SplitMore
  <2>5. Split(s, Slash) = <<DotDot, <<"repo">>>> \o p
    BY <1>2 DEF s
  <2>6. Append(<<DotDot, <<"repo">>>> \o p, e) = <<DotDot, <<"repo">>>> \o Append(p, e)
    <3> DEFINE T == PathNode \cup {<<"repo">>}
    <3>1. <<DotDot, <<"repo">>>> \in Seq(T) /\ p \in Seq(T) /\ e \in T
      BY DEF PathNode
    <3> HIDE DEF T
    <3> QED
      BY <3>1
  <2>7. FilePath(Append(p, e)) = s \o <<Slash, e[1]>>
    BY <2>1, FilePathMore DEF s
  <2>8. Append(p, e) \in Seq(PathNode)
    OBVIOUS
  <2> QED
    BY <2>2, <2>4, <2>5, <2>6, <2>7, <2>8
<1> HIDE DEF Z
<1>3. \A p \in Seq(PathNode) : p \in Z
  BY <1>1, <1>2, SequenceInduction
<1> QED
  BY <1>3 DEF Z

-----------------------------------------------------------------------------
(* The place of a path.                                                    *)

Place == Seq(NameNode)

Lexical_Next(v, e) ==
  IF e = Dot THEN v ELSE IF e # DotDot THEN Append(v, e) ELSE SubSeq(v, 1, Len(v) - 1)

Stacks(p, f) ==
  \A k \in 0 .. Len(p) : f[k] = IF k = 0 THEN <<>> ELSE Lexical_Next(f[k - 1], p[k])

Lexical_Chosen(p) ==
  CHOOSE stack : stack = [k \in 0 .. Len(p) |->
                            IF k = 0 THEN <<>>
                            ELSE IF p[k] = Dot THEN stack[k - 1]
                            ELSE IF p[k] # DotDot THEN Append(stack[k - 1], p[k])
                            ELSE SubSeq(stack[k - 1], 1, Len(stack[k - 1]) - 1)]

LEMMA AboveType ==
  ASSUME NEW v \in Place
  PROVE  /\ Above(v) \in Place
         /\ v = <<>> => Above(v) = <<>>
         /\ v # <<>> => Len(Above(v)) = Len(v) - 1
<1>1. Len(v) \in Nat /\ (v = <<>> <=> Len(v) = 0)
  BY DEF Place
<1>2. CASE Len(v) = 0
  BY <1>1, <1>2 DEF Place, Above
<1>3. CASE Len(v) # 0
  <2>1. v \in Seq(NameNode) /\ Len(v) - 1 \in 0 .. Len(v)
    BY <1>1, <1>3 DEF Place
  <2>2. \A m \in 0 .. Len(v) :
          SubSeq(v, 1, m) \in Seq(NameNode) /\ Len(SubSeq(v, 1, m)) = m
    BY <2>1
  <2>3. Above(v) \in Seq(NameNode) /\ Len(Above(v)) = Len(v) - 1
    BY <2>1, <2>2, Zenon DEF Above
  <2> QED
    BY <1>1, <1>3, <2>3 DEF Place
<1> QED
  BY <1>2, <1>3

LEMMA LexicalNextType ==
  ASSUME NEW v \in Place, NEW e \in PathNode
  PROVE  Lexical_Next(v, e) \in Place
<1>1. e \notin {Dot, DotDot} => e \in NameNode
  BY DEF PathNode
<1>2. Above(v) \in Place
  BY AboveType
<1>3. e \in NameNode => Append(v, e) \in Place
  BY DEF Place
<1> QED
  BY <1>1, <1>2, <1>3 DEF Lexical_Next, Above

LEMMA LexicalFunction ==
  ASSUME NEW p \in Seq(PathNode)
  PROVE  \E f \in [0 .. Len(p) -> Place] : Stacks(p, f) /\ Lexical(p) = f[Len(p)]
<1> DEFINE h == [x \in (1 .. Len(p)) \X Place |-> Lexical_Next(x[2], p[x[1]])]
<1>1. 0 \in Int /\ Len(p) \in Int /\ Len(p) \in Nat /\ <<>> \in Place
  BY DEF Place
<1>2. ASSUME NEW n \in 1 .. Len(p), NEW v \in Place
      PROVE  h[<<n, v>>] = Lexical_Next(v, p[n]) /\ h[<<n, v>>] \in Place
  <2>1. h[<<n, v>>] = Lexical_Next(v, p[n]) /\ p[n] \in PathNode
    OBVIOUS
  <2> QED
    BY <2>1, LexicalNextType
<1> HIDE DEF h
<1>3. Maps(h, Place, 0, Len(p))
  BY <1>2 DEF Maps
<1>4. PICK f \in [0 .. Len(p) -> Place] : Repeats(f, <<>>, h, 0, Len(p))
  BY <1>1, <1>3, Recursion, Zenon
<1>5. ASSUME NEW n \in 0 .. Len(p), n # 0 PROVE f[n - 1] \in Place
  BY <1>4, <1>5
<1>6. Stacks(p, f)
  <2>1. ASSUME NEW n \in 0 .. Len(p), n # 0
        PROVE  h[<<n, f[n - 1]>>] = Lexical_Next(f[n - 1], p[n])
    <3>1. n \in 1 .. Len(p)
      BY <2>1
    <3> QED
      BY <1>2, <1>5, <2>1, <3>1
  <2> QED
    BY <1>4, <2>1 DEF Stacks, Repeats
<1>7. f = [k \in 0 .. Len(p) |->
             IF k = 0 THEN <<>>
             ELSE IF p[k] = Dot THEN f[k - 1]
             ELSE IF p[k] # DotDot THEN Append(f[k - 1], p[k])
             ELSE SubSeq(f[k - 1], 1, Len(f[k - 1]) - 1)]
  BY <1>4, <1>6 DEF Stacks, Lexical_Next
<1> DEFINE g == Lexical_Chosen(p)
<1>8. g = [k \in 0 .. Len(p) |->
             IF k = 0 THEN <<>>
             ELSE IF p[k] = Dot THEN g[k - 1]
             ELSE IF p[k] # DotDot THEN Append(g[k - 1], p[k])
             ELSE SubSeq(g[k - 1], 1, Len(g[k - 1]) - 1)]
  BY <1>7 DEF Lexical_Chosen
<1>9. Lexical(p) = g[Len(p)]
  BY DEF Lexical, Lexical_Chosen
<1> HIDE DEF g
<1>10. Stacks(p, g)
  BY <1>8 DEF Stacks, Lexical_Next
<1>11. f[0] = g[0] /\ Follows(f, g, 0, Len(p))
  BY <1>1, <1>6, <1>10 DEF Stacks, Follows
<1>12. Alike(f, g, 0, Len(p))
  BY <1>1, <1>11, SameRecursion, Zenon
<1>13. Lexical(p) = f[Len(p)]
  BY <1>1, <1>9, <1>12 DEF Alike
<1> QED
  BY <1>4, <1>6, <1>13

LEMMA LexicalType ==
  ASSUME NEW p \in Seq(PathNode)
  PROVE  Lexical(p) \in Place
<1>1. PICK f \in [0 .. Len(p) -> Place] : Stacks(p, f) /\ Lexical(p) = f[Len(p)]
  BY LexicalFunction
<1>2. Len(p) \in 0 .. Len(p)
  OBVIOUS
<1> QED
  BY <1>1, <1>2

LEMMA LexicalNone == Lexical(<<>>) = <<>>
<1>1. <<>> \in Seq(PathNode) /\ Len(<<>>) = 0 /\ 0 \in 0 .. 0
  OBVIOUS
<1>2. PICK f \in [0 .. Len(<<>>) -> Place] : Stacks(<<>>, f) /\ Lexical(<<>>) = f[Len(<<>>)]
  BY <1>1, LexicalFunction, Zenon
<1> QED
  BY <1>1, <1>2 DEF Stacks

(* One more node pushes, pops or does nothing.                             *)
LEMMA LexicalMore ==
  ASSUME NEW p \in Seq(PathNode), NEW e \in PathNode
  PROVE  Lexical(Append(p, e)) = Lexical_Next(Lexical(p), e)
<1> DEFINE n == Len(p)
           r == Append(p, e)
<1>1. n \in Nat /\ 0 \in Int /\ n \in Int
  OBVIOUS
<1>2. /\ r \in Seq(PathNode) /\ Len(r) = n + 1 /\ r[n + 1] = e
      /\ \A k \in 1 .. n : r[k] = p[k]
  OBVIOUS
<1>3. PICK f : Stacks(p, f) /\ Lexical(p) = f[n]
  BY LexicalFunction
<1> HIDE DEF n, r
<1>4. PICK g : Stacks(r, g) /\ Lexical(r) = g[Len(r)]
  <2>1. \E g \in [0 .. Len(r) -> Place] : Stacks(r, g) /\ Lexical(r) = g[Len(r)]
    BY <1>2, LexicalFunction, Zenon
  <2> QED
    BY <2>1, Zenon
<1>5. \A k \in 0 .. n : f[k] = IF k = 0 THEN <<>> ELSE Lexical_Next(f[k - 1], p[k])
  BY <1>3 DEF Stacks, n
<1>6. \A k \in 0 .. n + 1 : g[k] = IF k = 0 THEN <<>> ELSE Lexical_Next(g[k - 1], r[k])
  BY <1>2, <1>4 DEF Stacks
<1>7. f[0] = g[0] /\ Follows(f, g, 0, n)
  <2>1. \A k \in 0 .. n : k \in 0 .. n + 1 /\ (k # 0 => k \in 1 .. n)
    BY <1>1
  <2> QED
    BY <1>1, <1>2, <1>5, <1>6, <2>1 DEF Follows
<1>8. Alike(f, g, 0, n)
  BY <1>1, <1>7, SameRecursion, Zenon
<1>9. g[n] = f[n]
  BY <1>1, <1>8 DEF Alike
<1>10. g[n + 1] = Lexical_Next(g[n], e)
  <2>1. n + 1 \in 0 .. n + 1 /\ n + 1 # 0 /\ (n + 1) - 1 = n
    BY <1>1
  <2> QED
    BY <1>2, <1>6, <2>1
<1> QED
  BY <1>2, <1>3, <1>4, <1>9, <1>10 DEF r

-----------------------------------------------------------------------------
(* Acceptable paths.                                                       *)

(* Counting one element more.                                              *)
LEMMA CountStep ==
  ASSUME NEW S, NEW n \in Nat \ {0}
  PROVE  /\ Cardinality({j \in 1 .. n - 1 : j \in S}) \in Nat
         /\ Cardinality({j \in 1 .. n : j \in S})
              = Cardinality({j \in 1 .. n - 1 : j \in S}) + (IF n \in S THEN 1 ELSE 0)
<1> DEFINE A == {j \in 1 .. n - 1 : j \in S}
           B == {j \in 1 .. n : j \in S}
<1>1. IsFiniteSet(A)
  <2>1. IsFiniteSet(1 .. n - 1) /\ A \subseteq 1 .. n - 1
    BY FS_Interval
  <2> QED
    BY <2>1, FS_Subset
<1>2. n \notin A /\ B = IF n \in S THEN A \cup {n} ELSE A
  OBVIOUS
<1>3. Cardinality(A) \in Nat /\ Cardinality(A \cup {n}) = Cardinality(A) + 1
  BY <1>1, <1>2, FS_AddElement, FS_CardinalityType
<1> HIDE DEF A, B
<1>4. Cardinality(B) = Cardinality(A) + (IF n \in S THEN 1 ELSE 0)
  BY <1>2, <1>3
<1> QED
  BY <1>3, <1>4 DEF A, B

LEMMA CountsStep ==
  ASSUME NEW p, NEW n \in Nat \ {0}
  PROVE  /\ Entered(p, n - 1) \in Nat /\ Left(p, n - 1) \in Nat
         /\ Entered(p, n) = Entered(p, n - 1) + (IF p[n] \notin {Dot, DotDot} THEN 1 ELSE 0)
         /\ Left(p, n) = Left(p, n - 1) + (IF p[n] = DotDot THEN 1 ELSE 0)
<1> DEFINE N == {j \in Int : p[j] \notin {Dot, DotDot}}
           D == {j \in Int : p[j] = DotDot}
<1>1. /\ {j \in 1 .. n - 1 : j \in N} = {j \in 1 .. n - 1 : p[j] \notin {Dot, DotDot}}
      /\ {j \in 1 .. n : j \in N} = {j \in 1 .. n : p[j] \notin {Dot, DotDot}}
      /\ {j \in 1 .. n - 1 : j \in D} = {j \in 1 .. n - 1 : p[j] = DotDot}
      /\ {j \in 1 .. n : j \in D} = {j \in 1 .. n : p[j] = DotDot}
      /\ n \in N <=> p[n] \notin {Dot, DotDot}
      /\ n \in D <=> p[n] = DotDot
  OBVIOUS
<1> HIDE DEF N, D
<1> QED
  BY <1>1, CountStep DEF Entered, Left

LEMMA CountsNone ==
  ASSUME NEW p
  PROVE  Entered(p, 0) = 0 /\ Left(p, 0) = 0
<1>1. \A S : {j \in 1 .. 0 : j \in S} = {}
  OBVIOUS
<1>2. /\ {j \in 1 .. 0 : p[j] \notin {Dot, DotDot}} = {}
      /\ {j \in 1 .. 0 : p[j] = DotDot} = {}
  OBVIOUS
<1> QED
  BY <1>2, FS_EmptySet DEF Entered, Left
LEMMA CountsOfMore ==
  ASSUME NEW p \in Seq(PathNode), NEW e, NEW k \in 0 .. Len(p)
  PROVE  Entered(Append(p, e), k) = Entered(p, k) /\ Left(Append(p, e), k) = Left(p, k)
<1>1. \A j \in 1 .. k : Append(p, e)[j] = p[j]
  OBVIOUS
<1>2. /\ {j \in 1 .. k : Append(p, e)[j] \notin {Dot, DotDot}}
           = {j \in 1 .. k : p[j] \notin {Dot, DotDot}}
      /\ {j \in 1 .. k : Append(p, e)[j] = DotDot} = {j \in 1 .. k : p[j] = DotDot}
  BY <1>1
<1> QED
  BY <1>2 DEF Entered, Left

LEMMA NodeIsPlain == \A e \in PathNode : Plain(e)
<1>1. ASSUME NEW e \in PathNode PROVE Plain(e)
  <2>1. Len(e) = 1 /\ e[1] \in Token \ Separator
    BY NodeFacts
  <2> QED
    BY <2>1 DEF Plain, Separator
<1> QED
  BY <1>1

(* A path with one more node is acceptable if the path is and, before ..,  *)
(* more names were entered than left.                                      *)
LEMMA AcceptableIff ==
  ASSUME NEW p \in Seq(PathNode), NEW e \in PathNode
  PROVE  Acceptable(Append(p, e))
           <=> /\ Acceptable(p)
               /\ e = DotDot => Left(p, Len(p)) + 1 <= Entered(p, Len(p))
<1> DEFINE n == Len(p)
           r == Append(p, e)
           Below0(q, k) == Left(q, k) <= Entered(q, k)
<1>1. n \in Nat /\ n \in 0 .. n
  OBVIOUS
<1>2. /\ Len(r) = n + 1 /\ r[n + 1] = e /\ r \in Seq(PathNode)
      /\ \A k \in 1 .. n : r[k] = p[k]
  OBVIOUS
<1>3. \A k \in 0 .. n : Below0(r, k) <=> Below0(p, k)
  BY CountsOfMore
<1>4. Plain(e) /\ \A k \in 1 .. n : Plain(p[k]) /\ Plain(r[k])
  BY <1>2, NodeIsPlain
<1>5. /\ Entered(r, n) = Entered(p, n) /\ Left(r, n) = Left(p, n)
  BY <1>1, CountsOfMore
<1> HIDE DEF n, r
<1>6. /\ Entered(r, n + 1) = Entered(r, n) + (IF e \notin {Dot, DotDot} THEN 1 ELSE 0)
      /\ Left(r, n + 1) = Left(r, n) + (IF e = DotDot THEN 1 ELSE 0)
      /\ Entered(r, n) \in Nat /\ Left(r, n) \in Nat
  <2>1. n + 1 \in Nat \ {0} /\ (n + 1) - 1 = n
    BY <1>1
  <2> QED
    BY <1>2, <2>1, CountsStep
<1>7. Acceptable(r) <=> (\A k \in 1 .. n : Below0(p, k)) /\ Below0(r, n + 1)
  <2>1. Acceptable(r) <=> \A k \in 1 .. n + 1 : Below0(r, k)
    <3>1. \A k \in 1 .. n + 1 : Plain(r[k])
      <4>1. ASSUME NEW k \in 1 .. n + 1 PROVE Plain(r[k])
        <5>1. k \in 1 .. n \/ k = n + 1
          BY <1>1
        <5> QED
          BY <1>2, <1>4, <5>1
      <4> QED
        BY <4>1
    <3> QED
      BY <1>2, <3>1 DEF Acceptable
  <2> HIDE DEF Below0
  <2>2. (\A k \in 1 .. n + 1 : Below0(r, k)) <=> (\A k \in 1 .. n : Below0(r, k)) /\ Below0(r, n + 1)
    BY <1>1
  <2>3. \A k \in 1 .. n : k \in 0 .. n
    BY <1>1
  <2> QED
    BY <1>3, <2>1, <2>2, <2>3
<1>8. Acceptable(p) <=> \A k \in 1 .. n : Below0(p, k)
  BY <1>4 DEF Acceptable, n
<1>9. Acceptable(p) => Below0(p, n)
  <2>1. CASE n = 0
    BY <2>1, CountsNone
  <2>2. CASE n # 0
    BY <1>1, <1>8, <2>2
  <2> QED
    BY <2>1, <2>2
<1>10. Acceptable(p) => (Below0(r, n + 1)
                           <=> (e = DotDot => Left(p, n) + 1 <= Entered(p, n)))
  <2>1. DotDot # Dot
    BY DEF Dot, DotDot
  <2> QED
    BY <1>5, <1>6, <1>9, <2>1
<1> QED
  BY <1>7, <1>8, <1>10 DEF n, r

(* The stack has as many names as were entered and not left.               *)
LEMMA DepthOf ==
  \A p \in Seq(PathNode) :
    Acceptable(p) => Len(Lexical(p)) = Entered(p, Len(p)) - Left(p, Len(p))
<1> DEFINE Z == {p \in Seq(PathNode) :
                   Acceptable(p) => Len(Lexical(p)) = Entered(p, Len(p)) - Left(p, Len(p))}
<1>1. <<>> \in Z
  <2>1. <<>> \in Seq(PathNode) /\ Len(<<>>) = 0
    OBVIOUS
  <2> QED
    BY <2>1, LexicalNone, CountsNone
<1>2. ASSUME NEW p \in Seq(PathNode), p \in Z, NEW e \in PathNode
      PROVE  Append(p, e) \in Z
  <2> DEFINE n == Len(p)
             r == Append(p, e)
             v == Lexical(p)
  <2>1. r \in Seq(PathNode) /\ Len(r) = n + 1 /\ n \in Nat /\ n \in 0 .. n /\ r[n + 1] = e
    OBVIOUS
  <2>2. Entered(r, n) = Entered(p, n) /\ Left(r, n) = Left(p, n)
    BY <2>1, CountsOfMore
  <2>3. v \in Place /\ Lexical(r) = Lexical_Next(v, e)
    BY LexicalType, LexicalMore
  <2>4. Acceptable(r) => Acceptable(p) /\ (e = DotDot => Left(p, n) + 1 <= Entered(p, n))
    BY AcceptableIff
  <2>5. Acceptable(p) => Len(v) = Entered(p, n) - Left(p, n)
    BY <1>2
  <2> HIDE DEF n, r, v
  <2>6. /\ Entered(r, n + 1) = Entered(r, n) + (IF e \notin {Dot, DotDot} THEN 1 ELSE 0)
        /\ Left(r, n + 1) = Left(r, n) + (IF e = DotDot THEN 1 ELSE 0)
        /\ Entered(r, n) \in Nat /\ Left(r, n) \in Nat
    <3>1. n + 1 \in Nat \ {0} /\ (n + 1) - 1 = n
      BY <2>1
    <3> QED
      BY <2>1, <3>1, CountsStep
  <2>7. ASSUME Acceptable(r)
        PROVE  Len(Lexical(r)) = Entered(r, n + 1) - Left(r, n + 1)
    <3>1. Len(v) = Entered(p, n) - Left(p, n)
      BY <2>4, <2>5, <2>7
    <3>2. CASE e = Dot
      <4>1. Lexical(r) = v /\ e # DotDot
        BY <2>3, <3>2 DEF Lexical_Next, Dot, DotDot
      <4> QED
        BY <2>2, <2>6, <3>1, <3>2, <4>1
    <3>3. CASE e = DotDot
      <4>1. Lexical(r) = Above(v) /\ e # Dot
        BY <2>3, <3>3 DEF Lexical_Next, Above, Dot, DotDot
      <4>2. v # <<>>
        <5>1. Len(v) # 0
          BY <2>2, <2>4, <2>6, <2>7, <3>1, <3>3
        <5> QED
          BY <5>1
      <4>3. Len(Above(v)) = Len(v) - 1
        BY <2>3, <4>2, AboveType
      <4> QED
        BY <2>2, <2>6, <3>1, <3>3, <4>1, <4>3
    <3>4. CASE e \notin {Dot, DotDot}
      <4>1. Lexical(r) = Append(v, e)
        BY <2>3, <3>4 DEF Lexical_Next
      <4>2. Len(Append(v, e)) = Len(v) + 1
        BY <2>3 DEF Place
      <4> QED
        BY <2>2, <2>6, <3>1, <3>4, <4>1, <4>2
    <3> QED
      BY <3>2, <3>3, <3>4
  <2> QED
    BY <2>1, <2>7 DEF r
<1> HIDE DEF Z
<1>3. \A p \in Seq(PathNode) : p \in Z
  BY <1>1, <1>2, SequenceInduction
<1> QED
  BY <1>3 DEF Z

(* So .. is acceptable after a path just when the path leads below the     *)
(* base.                                                                   *)
LEMMA AcceptableMore ==
  ASSUME NEW p \in Seq(PathNode), NEW e \in PathNode
  PROVE  Acceptable(Append(p, e))
           <=> Acceptable(p) /\ (e = DotDot => Lexical(p) # <<>>)
<1> DEFINE n == Len(p)
<1>1. Entered(p, n) \in Nat /\ Left(p, n) \in Nat
  <2>1. n + 1 \in Nat \ {0} /\ (n + 1) - 1 = n
    OBVIOUS
  <2> HIDE DEF n
  <2> QED
    BY <2>1, CountsStep
<1>2. Acceptable(p) => Len(Lexical(p)) = Entered(p, n) - Left(p, n)
  BY DepthOf
<1>3. Lexical(p) # <<>> <=> Len(Lexical(p)) # 0
  BY LexicalType DEF Place
<1>4. Len(Lexical(p)) \in Nat
  BY LexicalType DEF Place
<1>5. Acceptable(Append(p, e)) <=> Acceptable(p) /\ (e = DotDot => Left(p, n) + 1 <= Entered(p, n))
  BY AcceptableIff
<1> HIDE DEF n
<1>6. Acceptable(p) => (Lexical(p) # <<>> <=> Left(p, n) + 1 <= Entered(p, n))
  BY <1>1, <1>2, <1>3, <1>4
<1> QED
  BY <1>5, <1>6
LEMMA AcceptableNone == Acceptable(<<>>)
BY DEF Acceptable

(* The starts of an acceptable path are acceptable.                        *)
LEMMA AcceptableStart ==
  ASSUME NEW p \in Seq(PathNode), Acceptable(p), NEW k \in 0 .. Len(p)
  PROVE  SubSeq(p, 1, k) \in Seq(PathNode) /\ Acceptable(SubSeq(p, 1, k))
<1> DEFINE Z == {q \in Seq(PathNode) :
                   Acceptable(q) => \A j \in 0 .. Len(q) : Acceptable(SubSeq(q, 1, j))}
<1>1. <<>> \in Z
  <2>1. <<>> \in Seq(PathNode) /\ \A j \in 0 .. Len(<<>>) : SubSeq(<<>>, 1, j) = <<>>
    OBVIOUS
  <2> QED
    BY <2>1, AcceptableNone
<1>2. ASSUME NEW q \in Seq(PathNode), q \in Z, NEW e \in PathNode
      PROVE  Append(q, e) \in Z
  <2> DEFINE r == Append(q, e)
  <2>1. r \in Seq(PathNode) /\ Len(r) = Len(q) + 1 /\ Len(q) \in Nat
    OBVIOUS
  <2>2. \A j \in 0 .. Len(q) : SubSeq(r, 1, j) = SubSeq(q, 1, j)
    OBVIOUS
  <2>3. SubSeq(r, 1, Len(r)) = r
    OBVIOUS
  <2>4. Acceptable(r) => Acceptable(q)
    BY AcceptableMore
  <2> HIDE DEF r
  <2>5. ASSUME Acceptable(r), NEW j \in 0 .. Len(r) PROVE Acceptable(SubSeq(r, 1, j))
    <3>1. CASE j = Len(r)
      BY <2>3, <2>5, <3>1
    <3>2. CASE j # Len(r)
      <4>1. j \in 0 .. Len(q)
        BY <2>1, <3>2
      <4> QED
        BY <1>2, <2>2, <2>4, <2>5, <4>1
    <3> QED
      BY <3>1, <3>2
  <2> QED
    BY <2>1, <2>5 DEF r
<1>3. SubSeq(p, 1, k) \in Seq(PathNode)
  OBVIOUS
<1> HIDE DEF Z
<1>4. \A q \in Seq(PathNode) : q \in Z
  BY <1>1, <1>2, SequenceInduction
<1> QED
  BY <1>3, <1>4 DEF Z

-----------------------------------------------------------------------------
(* Walking.                                                                *)

(* The places a path leads through before its last node.                   *)
Way(p) == {Lexical(SubSeq(p, 1, k)) : k \in 0 .. Len(p) - 1}

LEMMA WayMore ==
  ASSUME NEW p \in Seq(PathNode), NEW e
  PROVE  Way(Append(p, e)) = Way(p) \cup {Lexical(p)}
<1> DEFINE n == Len(p)
           r == Append(p, e)
<1>1. n \in Nat /\ Len(r) - 1 = n
  OBVIOUS
<1>2. \A k \in 0 .. n : SubSeq(r, 1, k) = SubSeq(p, 1, k)
  OBVIOUS
<1>3. SubSeq(p, 1, n) = p
  OBVIOUS
<1> HIDE DEF n, r
<1>4. Way(r) = {Lexical(SubSeq(p, 1, k)) : k \in 0 .. n}
  BY <1>1, <1>2 DEF Way
<1>5. 0 .. n = (0 .. n - 1) \cup {n}
  BY <1>1
<1>6. Way(p) = {Lexical(SubSeq(p, 1, k)) : k \in 0 .. n - 1}
  BY DEF Way, n
<1> QED
  BY <1>3, <1>4, <1>5, <1>6 DEF r

LEMMA WayNone == Way(<<>>) = {}
<1>1. 0 .. Len(<<>>) - 1 = {}
  OBVIOUS
<1> QED
  BY <1>1 DEF Way

LEMMA OutsideIsNoPlace == Outside \notin Place
<1>1. DotDot \notin NameNode
  BY PathsAssumption DEF NameNode, DotDot
<1> QED
  BY <1>1 DEF Outside, Place

(* Where the kernel gets along a path.                                     *)
Arrives(p) == IF Way(p) \subseteq dirs THEN {Lexical(p)} ELSE {}

LEMMA ArrivesMore ==
  ASSUME NEW p \in Seq(PathNode), NEW e \in PathNode, Acceptable(Append(p, e))
  PROVE  Arrives(Append(p, e)) = {Enter(q, e) : q \in Arrives(p) \cap (dirs \cup {Outside})}
<1>1. Lexical(p) \in Place /\ Lexical(p) # Outside
  BY LexicalType, OutsideIsNoPlace
<1>2. e = DotDot => Lexical(p) # <<>>
  BY AcceptableMore
<1>3. Enter(Lexical(p), e) = Lexical(Append(p, e))
  <2>1. Lexical(Append(p, e)) = Lexical_Next(Lexical(p), e)
    BY LexicalMore
  <2> QED
    BY <1>1, <1>2, <2>1 DEF Enter, Lexical_Next, Above
<1>4. Way(Append(p, e)) = Way(p) \cup {Lexical(p)}
  BY WayMore
<1> QED
  BY <1>1, <1>3, <1>4 DEF Arrives

Walk_Chosen(node) ==
  CHOOSE at : at = [k \in 2 .. Len(node) |->
                      IF k = 2 THEN {<<>>}
                      ELSE {Enter(p, node[k]) : p \in at[k - 1] \cap (dirs \cup {Outside})}]

(* An acceptable path leads to the place it means, or nowhere if one of    *)
(* the places in its way is no directory.                                  *)
THEOREM WalkArrives ==
  ASSUME NEW p \in Seq(PathNode), Acceptable(p)
  PROVE  Walk(FilePath(p)) = Arrives(p)
<1> DEFINE node == Split(FilePath(p), Slash)
           f == [k \in 2 .. Len(node) |-> Arrives(SubSeq(p, 1, k - 2))]
           g == Walk_Chosen(node)
<1>1. node = <<DotDot, <<"repo">>>> \o p
  BY NodesOfFilePath
<1>2. /\ Len(p) \in Nat /\ Len(node) = Len(p) + 2
      /\ \A k \in 1 .. Len(p) : node[k + 2] = p[k]
  <2> DEFINE T == PathNode \cup {<<"repo">>}
  <2>1. <<DotDot, <<"repo">>>> \in Seq(T) /\ p \in Seq(T)
    BY DEF PathNode
  <2> HIDE DEF T
  <2> QED
    BY <1>1, <2>1
<1>3. Walk(FilePath(p)) = g[Len(node)]
  BY DEF Walk, Walk_Chosen
<1> HIDE DEF node
<1>4. Arrives(SubSeq(p, 1, 0)) = {<<>>}
  <2>1. SubSeq(p, 1, 0) = <<>>
    OBVIOUS
  <2> QED
    BY <2>1, WayNone, LexicalNone DEF Arrives
<1>5. ASSUME NEW k \in 3 .. Len(node)
      PROVE  Arrives(SubSeq(p, 1, k - 2))
               = {Enter(q, node[k]) : q \in Arrives(SubSeq(p, 1, (k - 1) - 2))
                                              \cap (dirs \cup {Outside})}
  <2> DEFINE j == k - 3
             q == SubSeq(p, 1, j)
  <2>1. j \in 0 .. Len(p) /\ j + 1 \in 1 .. Len(p) /\ k - 2 = j + 1 /\ (k - 1) - 2 = j
    BY <1>2
  <2>2. node[k] = p[j + 1] /\ p[j + 1] \in PathNode
    <3>1. node[(j + 1) + 2] = p[j + 1] /\ (j + 1) + 2 = k
      BY <1>2, <2>1
    <3> QED
      BY <2>1, <3>1
  <2> HIDE DEF j
  <2>3. SubSeq(p, 1, j + 1) = Append(q, p[j + 1])
    BY <2>1
  <2>4. q \in Seq(PathNode) /\ Acceptable(SubSeq(p, 1, j + 1))
    <3>1. j + 1 \in 0 .. Len(p)
      BY <2>1
    <3> QED
      BY <2>1, <3>1, AcceptableStart
  <2> HIDE DEF q
  <2>5. Arrives(Append(q, p[j + 1]))
          = {Enter(r, p[j + 1]) : r \in Arrives(q) \cap (dirs \cup {Outside})}
    BY <2>2, <2>3, <2>4, ArrivesMore
  <2> QED
    BY <2>1, <2>2, <2>3, <2>5 DEF q
<1>6. f = [k \in 2 .. Len(node) |->
             IF k = 2 THEN {<<>>}
             ELSE {Enter(q, node[k]) : q \in f[k - 1] \cap (dirs \cup {Outside})}]
  <2>1. ASSUME NEW k \in 2 .. Len(node)
        PROVE  f[k] = IF k = 2 THEN {<<>>}
                      ELSE {Enter(q, node[k]) : q \in f[k - 1] \cap (dirs \cup {Outside})}
    <3>1. CASE k = 2
      BY <1>4, <3>1
    <3>2. CASE k # 2
      <4>1. k \in 3 .. Len(node) /\ k - 1 \in 2 .. Len(node)
        BY <1>2, <3>2
      <4>2. f[k] = Arrives(SubSeq(p, 1, k - 2)) /\ f[k - 1] = Arrives(SubSeq(p, 1, (k - 1) - 2))
        BY <4>1
      <4> HIDE DEF f
      <4> QED
        BY <1>5, <3>2, <4>1, <4>2
    <3> QED
      BY <3>1, <3>2
  <2>2. f = [k \in 2 .. Len(node) |-> f[k]]
    OBVIOUS
  <2> HIDE DEF f
  <2> QED
    BY <2>1, <2>2
<1>7. f[Len(node)] = Arrives(p)
  <2>1. Len(node) \in 2 .. Len(node) /\ SubSeq(p, 1, Len(node) - 2) = p
    BY <1>2
  <2> QED
    BY <2>1
<1> HIDE DEF f
<1>8. g = [k \in 2 .. Len(node) |->
             IF k = 2 THEN {<<>>}
             ELSE {Enter(q, node[k]) : q \in g[k - 1] \cap (dirs \cup {Outside})}]
  BY <1>6 DEF Walk_Chosen
<1> HIDE DEF g
<1>9. 2 \in Int /\ Len(node) \in Int /\ 2 \in 2 .. Len(node)
  BY <1>2
<1>10. f[2] = g[2] /\ Follows(f, g, 2, Len(node))
  <2>1. \A k \in 2 .. Len(node) :
          f[k] = IF k = 2 THEN {<<>>}
                 ELSE {Enter(q, node[k]) : q \in f[k - 1] \cap (dirs \cup {Outside})}
    BY <1>6
  <2>2. \A k \in 2 .. Len(node) :
          g[k] = IF k = 2 THEN {<<>>}
                 ELSE {Enter(q, node[k]) : q \in g[k - 1] \cap (dirs \cup {Outside})}
    BY <1>8
  <2> QED
    BY <1>9, <2>1, <2>2 DEF Follows
<1>11. Alike(f, g, 2, Len(node))
  BY <1>9, <1>10, SameRecursion, Zenon
<1>12. f[Len(node)] = g[Len(node)]
  BY <1>2, <1>9, <1>11 DEF Alike
<1> QED
  BY <1>3, <1>7, <1>12
-----------------------------------------------------------------------------
(* Listing a directory.                                                    *)

Listed == [name : NameNode, is_file : BOOLEAN]

(* The places of the k-th name in the directory a string leads to.         *)
Children(string, k) == {Append(p, <<NameOrder[k]>>) : p \in Walk(string) \cap dirs}

Listdir_Next(string, k, v) ==
  IF Children(string, k) \cap Entries = {} THEN v
  ELSE Append(v, [name |-> <<NameOrder[k]>>,
                  is_file |-> Children(string, k) \cap dirs = {}])

Lists(string, f) ==
  \A k \in 0 .. Len(NameOrder) :
    f[k] = IF k = 0 THEN <<>> ELSE Listdir_Next(string, k, f[k - 1])

Listdir_Chosen(string) ==
  CHOOSE found : found = [k \in 0 .. Len(NameOrder) |->
        IF k = 0 THEN <<>>
        ELSE IF Children(string, k) \cap Entries = {} THEN found[k - 1]
        ELSE Append(found[k - 1], [name |-> <<NameOrder[k]>>,
                                   is_file |-> Children(string, k) \cap dirs = {}])]

LEMMA ListdirFunction ==
  ASSUME NEW string
  PROVE  \E f \in [0 .. Len(NameOrder) -> Seq(Listed)] :
           Lists(string, f) /\ listdir(string) = f[Len(NameOrder)]
<1> DEFINE N == Len(NameOrder)
           V == Seq(Listed)
           h == [x \in (1 .. N) \X V |-> Listdir_Next(string, x[1], x[2])]
<1>1. 0 \in Int /\ N \in Int /\ N \in Nat /\ <<>> \in V
  BY FileTreeAssumption
<1>2. ASSUME NEW n \in 1 .. N, NEW v \in V
      PROVE  h[<<n, v>>] = Listdir_Next(string, n, v) /\ h[<<n, v>>] \in V
  <2>1. h[<<n, v>>] = Listdir_Next(string, n, v)
    OBVIOUS
  <2>2. <<NameOrder[n]>> \in NameNode
    BY FileTreeAssumption DEF NameNode
  <2>3. [name |-> <<NameOrder[n]>>, is_file |-> Children(string, n) \cap dirs = {}] \in Listed
    BY <2>2 DEF Listed
  <2>4. Listdir_Next(string, n, v) \in V
    BY <2>3 DEF Listdir_Next
  <2> QED
    BY <2>1, <2>4
<1> HIDE DEF h, N, V
<1>3. Maps(h, V, 0, N)
  BY <1>1, <1>2 DEF Maps
<1>4. PICK f \in [0 .. N -> V] : Repeats(f, <<>>, h, 0, N)
  BY <1>1, <1>3, Recursion, Zenon
<1>5. ASSUME NEW n \in 0 .. N, n # 0 PROVE f[n - 1] \in V
  BY <1>1, <1>4, <1>5
<1>6. Lists(string, f)
  <2>1. ASSUME NEW n \in 0 .. N, n # 0
        PROVE  h[<<n, f[n - 1]>>] = Listdir_Next(string, n, f[n - 1])
    <3>1. n \in 1 .. N
      BY <1>1, <2>1
    <3> QED
      BY <1>2, <1>5, <2>1, <3>1
  <2> QED
    BY <1>4, <2>1 DEF Lists, Repeats, N
<1>7. f = [k \in 0 .. Len(NameOrder) |->
             IF k = 0 THEN <<>>
             ELSE IF Children(string, k) \cap Entries = {} THEN f[k - 1]
             ELSE Append(f[k - 1], [name |-> <<NameOrder[k]>>,
                                    is_file |-> Children(string, k) \cap dirs = {}])]
  BY <1>4, <1>6 DEF Lists, Listdir_Next, N
<1> DEFINE g == Listdir_Chosen(string)
<1>8. g = [k \in 0 .. Len(NameOrder) |->
             IF k = 0 THEN <<>>
             ELSE IF Children(string, k) \cap Entries = {} THEN g[k - 1]
             ELSE Append(g[k - 1], [name |-> <<NameOrder[k]>>,
                                    is_file |-> Children(string, k) \cap dirs = {}])]
  BY <1>7 DEF Listdir_Chosen
<1>9. listdir(string) = g[Len(NameOrder)]
  BY DEF listdir, Listdir_Chosen, Children
<1> HIDE DEF g
<1>10. Lists(string, g)
  BY <1>8 DEF Lists, Listdir_Next
<1>11. f[0] = g[0] /\ Follows(f, g, 0, N)
  BY <1>1, <1>6, <1>10 DEF Lists, Follows, N
<1>12. Alike(f, g, 0, N)
  BY <1>1, <1>11, SameRecursion, Zenon
<1>13. listdir(string) = f[Len(NameOrder)]
  BY <1>1, <1>9, <1>12 DEF Alike, N
<1> QED
  BY <1>4, <1>6, <1>13 DEF N, V

LEMMA ListdirType ==
  ASSUME NEW string
  PROVE  listdir(string) \in Seq(Listed)
<1>1. PICK f \in [0 .. Len(NameOrder) -> Seq(Listed)] :
        Lists(string, f) /\ listdir(string) = f[Len(NameOrder)]
  BY ListdirFunction
<1>2. Len(NameOrder) \in 0 .. Len(NameOrder)
  BY FileTreeAssumption
<1> QED
  BY <1>1, <1>2

(* The entries of a listing are those of the directory v, each of its kind *)
(* and once.                                                               *)
IsListing(entries, v) ==
  /\ \A i \in 1 .. Len(entries) :
       LET c == Append(v, entries[i].name)
       IN  IF entries[i].is_file THEN c \in DOMAIN file ELSE c \in dirs
  /\ \A i, j \in 1 .. Len(entries) : entries[i].name = entries[j].name => i = j

LEMMA ListdirIs ==
  ASSUME NEW string, NEW v, Walk(string) \cap dirs = {v}
  PROVE  /\ IsListing(listdir(string), v)
         /\ \A e \in NameNode :
              Append(v, e) \in Entries
                => \E i \in 1 .. Len(listdir(string)) : listdir(string)[i].name = e
<1> DEFINE N == Len(NameOrder)
           node(k) == <<NameOrder[k]>>
           Has(q, e) == \E i \in 1 .. Len(q) : q[i].name = e
<1>1. PICK f \in [0 .. N -> Seq(Listed)] : Lists(string, f) /\ listdir(string) = f[N]
  BY ListdirFunction
<1>2. N \in Nat /\ 0 \in Int /\ N \in Int
  BY FileTreeAssumption
<1>3. \A k \in 1 .. N : Children(string, k) = {Append(v, node(k))}
  BY DEF Children
<1>4. \A j, k \in 1 .. N : node(j) = node(k) => j = k
  <2>1. \A j, k \in 1 .. N : node(j) = node(k) => NameOrder[j] = NameOrder[k]
    OBVIOUS
  <2> QED
    BY <2>1, FileTreeAssumption
<1>5. \A e \in NameNode : \E k \in 1 .. N : e = node(k)
  BY FileTreeAssumption DEF NameNode
<1> DEFINE Good(q, k) ==
             /\ IsListing(q, v)
             /\ \A i \in 1 .. Len(q) : \E j \in 1 .. k : q[i].name = node(j)
             /\ \A j \in 1 .. k : Append(v, node(j)) \in Entries => Has(q, node(j))
           S == {k \in 0 .. N : Good(f[k], k)}
<1>6. 0 \in S
  <2>1. f[0] = <<>>
    BY <1>1, <1>2 DEF Lists
  <2>2. Good(<<>>, 0)
    BY DEF IsListing
  <2> QED
    BY <1>2, <2>1, <2>2
<1> HIDE DEF node
<1>7. ASSUME NEW k \in 0 .. N, k # 0, k - 1 \in S PROVE k \in S
  <2> DEFINE q == f[k - 1]
             c == Append(v, node(k))
             x == [name |-> node(k), is_file |-> c \notin dirs]
  <2>1. k \in 1 .. N /\ k - 1 \in 0 .. N /\ 1 .. k = (1 .. k - 1) \cup {k}
    BY <1>2, <1>7
  <2>2. q \in Seq(Listed) /\ Good(q, k - 1) /\ Len(q) \in Nat
    BY <1>1, <1>7, <2>1
  <2>3. f[k] = IF c \notin Entries THEN q ELSE Append(q, x)
    <3>1. f[k] = Listdir_Next(string, k, q)
      BY <1>1, <1>7 DEF Lists
    <3>a. Children(string, k) = {c}
      BY <1>3, <2>1
    <3> HIDE DEF c
    <3>2. Children(string, k) \cap Entries = {} <=> c \notin Entries
      BY <3>a
    <3>3. (Children(string, k) \cap dirs = {}) = (c \notin dirs)
      BY <3>a
    <3> QED
      BY <3>1, <3>2, <3>3 DEF Listdir_Next, node
  <2> HIDE DEF q
  <2>4. CASE c \notin Entries
    <3>1. \A i \in 1 .. Len(q) : \E j \in 1 .. k : q[i].name = node(j)
      BY <2>1, <2>2
    <3>2. \A j \in 1 .. k : Append(v, node(j)) \in Entries => Has(q, node(j))
      BY <2>1, <2>2, <2>4
    <3> QED
      BY <2>2, <2>3, <2>4, <3>1, <3>2
  <2>5. CASE c \in Entries
    <3> DEFINE r == Append(q, x)
    <3>1. /\ Len(r) = Len(q) + 1 /\ r[Len(q) + 1] = x
          /\ \A i \in 1 .. Len(q) : r[i] = q[i]
          /\ 1 .. Len(r) = (1 .. Len(q)) \cup {Len(q) + 1}
      BY <2>2
    <3>2. x.name = node(k) /\ x.is_file = (c \notin dirs)
      OBVIOUS
    <3> HIDE DEF r, x
    <3>3. \A i \in 1 .. Len(q) : q[i].name # node(k)
      <4>1. \A j \in 1 .. k - 1 : j \in 1 .. N /\ j # k
        BY <2>1
      <4> QED
        BY <1>4, <2>1, <2>2, <4>1
    <3>4. IsListing(r, v)
      <4>1. \A i \in 1 .. Len(r) :
              LET d == Append(v, r[i].name)
              IN  IF r[i].is_file THEN d \in DOMAIN file ELSE d \in dirs
        <5>1. c \notin dirs => c \in DOMAIN file
          BY <2>5 DEF Entries
        <5>2. \A i \in 1 .. Len(q) :
                LET d == Append(v, r[i].name)
                IN  IF r[i].is_file THEN d \in DOMAIN file ELSE d \in dirs
          BY <2>2, <3>1 DEF IsListing
        <5>3. LET d == Append(v, x.name)
              IN  IF x.is_file THEN d \in DOMAIN file ELSE d \in dirs
          BY <3>2, <5>1
        <5> QED
          BY <3>1, <5>2, <5>3
      <4>2. ASSUME NEW i \in 1 .. Len(r), NEW j \in 1 .. Len(r), r[i].name = r[j].name
            PROVE  i = j
        <5>1. \A m \in 1 .. Len(q) : r[m].name # node(k) /\ r[Len(q) + 1].name = node(k)
          BY <3>1, <3>2, <3>3
        <5>2. \A m, n \in 1 .. Len(q) : r[m].name = r[n].name => m = n
          BY <2>2, <3>1 DEF IsListing
        <5> QED
          BY <3>1, <4>2, <5>1, <5>2
      <4> QED
        BY <4>1, <4>2 DEF IsListing
    <3>5. ASSUME NEW i \in 1 .. Len(r) PROVE \E j \in 1 .. k : r[i].name = node(j)
      BY <2>1, <2>2, <3>1, <3>2
    <3>6. ASSUME NEW j \in 1 .. k, Append(v, node(j)) \in Entries PROVE Has(r, node(j))
      <4>1. CASE j = k
        BY <3>1, <3>2, <4>1
      <4>2. CASE j # k
        <5>1. Has(q, node(j))
          BY <2>1, <2>2, <3>6, <4>2
        <5> QED
          BY <3>1, <5>1
      <4> QED
        BY <4>1, <4>2
    <3>7. Good(r, k)
      BY <3>4, <3>5, <3>6
    <3> QED
      BY <2>3, <2>5, <3>7 DEF r
  <2> QED
    BY <2>4, <2>5
<1> HIDE DEF S
<1>8. \A k \in 0 .. N : k \in S
  BY <1>2, <1>6, <1>7, IntervalInduction
<1>9. Good(f[N], N)
  BY <1>2, <1>8 DEF S
<1> QED
  BY <1>1, <1>5, <1>9
-----------------------------------------------------------------------------
(* Trees.                                                                  *)

LEMMA BelowIs ==
  ASSUME NEW p \in Place, NEW q \in Place
  PROVE  Below(p, q) <=> Len(q) <= Len(p) /\ \A k \in 1 .. Len(q) : p[k] = q[k]
<1>1. p \in Seq(NameNode) /\ q \in Seq(NameNode) /\ Len(p) \in Nat /\ Len(q) \in Nat
  BY DEF Place
<1>2. ASSUME Len(q) <= Len(p)
      PROVE  SubSeq(p, 1, Len(q)) = q <=> \A k \in 1 .. Len(q) : p[k] = q[k]
  <2>1. /\ SubSeq(p, 1, Len(q)) \in Seq(NameNode) /\ Len(SubSeq(p, 1, Len(q))) = Len(q)
        /\ \A k \in 1 .. Len(q) : SubSeq(p, 1, Len(q))[k] = p[k]
    BY <1>1, <1>2
  <2> QED
    BY <1>1, <2>1, SeqEqual
<1> QED
  BY <1>2 DEF Below

LEMMA BelowFacts ==
  ASSUME NEW p \in Place
  PROVE  /\ Below(p, p) /\ Below(p, <<>>)
         /\ \A q, r \in Place : Below(p, q) /\ Below(q, r) => Below(p, r)
         /\ \A q \in Place : Below(p, q) /\ Below(q, p) => p = q
         /\ \A e \in NameNode : /\ Append(p, e) \in Place /\ Above(Append(p, e)) = p
                                /\ Below(Append(p, e), p) /\ Append(p, e) # p
<1>1. p \in Seq(NameNode) /\ <<>> \in Place /\ Len(<<>>) = 0 /\ Len(p) \in Nat
  BY DEF Place
<1>2. Below(p, p) /\ Below(p, <<>>)
  BY <1>1, BelowIs
<1>3. ASSUME NEW q \in Place, NEW r \in Place, Below(p, q), Below(q, r)
      PROVE  Below(p, r)
  <2>1. Len(q) \in Nat /\ Len(r) \in Nat
    BY DEF Place
  <2>2. Len(q) <= Len(p) /\ \A k \in 1 .. Len(q) : p[k] = q[k]
    BY <1>3, BelowIs
  <2>3. Len(r) <= Len(q) /\ \A k \in 1 .. Len(r) : q[k] = r[k]
    BY <1>3, BelowIs
  <2>4. Len(r) <= Len(p) /\ \A k \in 1 .. Len(r) : k \in 1 .. Len(q) /\ p[k] = r[k]
    BY <1>1, <2>1, <2>2, <2>3
  <2> QED
    BY <2>4, BelowIs
<1>4. ASSUME NEW q \in Place, Below(p, q), Below(q, p)
      PROVE  p = q
  <2>1. q \in Seq(NameNode) /\ Len(q) \in Nat
    BY DEF Place
  <2>2. Len(p) = Len(q) /\ \A k \in 1 .. Len(p) : p[k] = q[k]
    BY <1>1, <1>4, <2>1, BelowIs
  <2> QED
    BY <1>1, <2>1, <2>2, SeqEqual
<1>5. ASSUME NEW e \in NameNode
      PROVE  /\ Append(p, e) \in Place /\ Above(Append(p, e)) = p
             /\ Below(Append(p, e), p) /\ Append(p, e) # p
  <2>1. Append(p, e) \in Place /\ Len(Append(p, e)) = Len(p) + 1
    BY <1>1 DEF Place
  <2>2. SubSeq(Append(p, e), 1, Len(p)) = p /\ (Len(p) + 1) - 1 = Len(p)
    BY <1>1
  <2> DEFINE r == Append(p, e)
  <2>3. Above(r) = p
    BY <1>1, <2>1, <2>2 DEF Above
  <2>4. Below(r, p)
    BY <1>1, <2>1, <2>2 DEF Below
  <2>5. r # p
    BY <1>1, <2>1
  <2> QED
    BY <2>1, <2>3, <2>4, <2>5
<1> QED
  BY <1>2, <1>3, <1>4, <1>5

(* What is in a directory is in one of its entries, or one of them.        *)
LEMMA BelowChild ==
  ASSUME NEW p \in Place, NEW q \in Place, Below(p, q), p # q
  PROVE  \E e \in NameNode : Below(p, Append(q, e))
<1>1. p \in Seq(NameNode) /\ q \in Seq(NameNode) /\ Len(p) \in Nat /\ Len(q) \in Nat
  BY DEF Place
<1>2. Len(q) <= Len(p) /\ \A k \in 1 .. Len(q) : p[k] = q[k]
  BY BelowIs
<1>3. Len(q) # Len(p)
  BY <1>1, <1>2, SeqEqual
<1> DEFINE e == p[Len(q) + 1]
<1>4. e \in NameNode
  BY <1>1, <1>2, <1>3
<1>5. /\ Append(q, e) \in Place /\ Len(Append(q, e)) = Len(q) + 1
      /\ Append(q, e)[Len(q) + 1] = e /\ \A k \in 1 .. Len(q) : Append(q, e)[k] = q[k]
  BY <1>1, <1>4 DEF Place
<1>6. \A k \in 1 .. Len(Append(q, e)) : p[k] = Append(q, e)[k]
  <2>1. \A k \in 1 .. Len(Append(q, e)) : k \in 1 .. Len(q) \/ k = Len(q) + 1
    BY <1>1, <1>5
  <2> QED
    BY <1>2, <1>5, <2>1
<1>7. Len(Append(q, e)) <= Len(p)
  BY <1>1, <1>2, <1>3, <1>5
<1> HIDE DEF e
<1>8. Below(p, Append(q, e))
  BY <1>5, <1>6, <1>7, BelowIs
<1> QED
  BY <1>4, <1>8

(* Places below two entries of a directory are not the same.               *)
LEMMA BelowOneChild ==
  ASSUME NEW p \in Place, NEW q \in Place, NEW d \in NameNode, NEW e \in NameNode,
         Below(p, Append(q, d)), Below(p, Append(q, e))
  PROVE  d = e
<1>1. q \in Seq(NameNode) /\ Len(q) + 1 \in 1 .. Len(q) + 1
  BY DEF Place
<1>2. /\ Append(q, d) \in Place /\ Len(Append(q, d)) = Len(q) + 1
      /\ Append(q, d)[Len(q) + 1] = d
      /\ Append(q, e) \in Place /\ Len(Append(q, e)) = Len(q) + 1
      /\ Append(q, e)[Len(q) + 1] = e
  BY <1>1 DEF Place
<1>3. p[Len(q) + 1] = d /\ p[Len(q) + 1] = e
  BY <1>1, <1>2, BelowIs
<1> QED
  BY <1>3

LEMMA TreeFacts ==
  ASSUME NEW d, NEW f, IsTree(d, f)
  PROVE  /\ <<>> \in d /\ d \cap DOMAIN f = {} /\ d \subseteq Place /\ DOMAIN f \subseteq Place
         /\ \A p \in d \cup DOMAIN f : p # <<>> => Above(p) \in d
BY DEF IsTree, Place, NameNode

(* Every place an entry is in is a directory.                              *)
LEMMA TreeClosed ==
  ASSUME NEW d, NEW f, IsTree(d, f), NEW p \in d \cup DOMAIN f, NEW q \in Place,
         Below(p, q), q # p
  PROVE  q \in d
<1>1. p \in Seq(NameNode) /\ q \in Seq(NameNode) /\ Len(p) \in Nat /\ Len(q) \in Nat
  BY TreeFacts DEF Place
<1>2. p \in Place
  BY <1>1 DEF Place
<1>3. Len(q) < Len(p) /\ q = SubSeq(p, 1, Len(q))
  <2>1. Len(q) <= Len(p) /\ SubSeq(p, 1, Len(q)) = q
    BY DEF Below
  <2>2. Len(q) = Len(p) => q = p
    BY <1>1, <2>1
  <2> QED
    BY <1>1, <2>1, <2>2
<1> DEFINE S == {k \in Nat : k < Len(p) => SubSeq(p, 1, (Len(p) - 1) - k) \in d}
<1>4. 0 \in S
  <2>1. p # <<>> => Above(p) \in d
    BY TreeFacts
  <2> QED
    BY <1>1, <2>1 DEF Above
<1>5. ASSUME NEW k \in Nat, k \in S PROVE k + 1 \in S
  <2> SUFFICES ASSUME k + 1 < Len(p) PROVE SubSeq(p, 1, (Len(p) - 1) - (k + 1)) \in d
    OBVIOUS
  <2> DEFINE m == (Len(p) - 1) - k
             r == SubSeq(p, 1, m)
  <2>1. m \in 1 .. Len(p) /\ (Len(p) - 1) - (k + 1) = m - 1
    BY <1>1
  <2>2. r \in d
    BY <1>1, <1>5
  <2> HIDE DEF m
  <2>3. Len(r) = m /\ r # <<>> /\ SubSeq(r, 1, m - 1) = SubSeq(p, 1, m - 1)
    BY <1>1, <2>1
  <2> HIDE DEF r
  <2>4. Above(r) \in d
    BY <2>2, <2>3, TreeFacts
  <2> QED
    BY <2>1, <2>3, <2>4 DEF Above
<1> HIDE DEF S
<1>6. (Len(p) - 1) - Len(q) \in S
  <2>1. (Len(p) - 1) - Len(q) \in Nat
    BY <1>1, <1>3
  <2> QED
    BY <1>4, <1>5, <2>1, SetInduction
<1>7. (Len(p) - 1) - ((Len(p) - 1) - Len(q)) = Len(q) /\ (Len(p) - 1) - Len(q) < Len(p)
  BY <1>1, <1>3
<1>8. SubSeq(p, 1, Len(q)) \in d
  BY <1>6, <1>7 DEF S
<1> QED
  BY <1>3, <1>8

-----------------------------------------------------------------------------
(* The last node, and the places in the way.                               *)

LEMMA PathSplit ==
  ASSUME NEW p \in Seq(PathNode), p # <<>>
  PROVE  \E q \in Seq(PathNode), e \in PathNode :
           p = Append(q, e) /\ q = Above(p) /\ e = p[Len(p)]
<1>1. Len(p) \in Nat /\ Len(p) # 0
  OBVIOUS
<1>2. p[Len(p)] \in PathNode
  BY <1>1
<1>3. Above(p) \in Seq(PathNode) /\ p = Append(Above(p), p[Len(p)])
  <2> DEFINE m == Len(p) - 1
  <2>1. m \in 0 .. Len(p) /\ Len(p) = m + 1
    BY <1>1
  <2> HIDE DEF m
  <2>2. SubSeq(p, 1, m) \in Seq(PathNode) /\ p = Append(SubSeq(p, 1, m), p[m + 1])
    BY <2>1
  <2> QED
    BY <2>1, <2>2 DEF Above, m
<1> QED
  BY <1>2, <1>3

LEMMA Behind ==
  ASSUME NEW T, NEW a \in Seq(T), Len(a) = 2, NEW p \in Seq(T)
  PROVE  /\ Len(a \o p) = Len(p) + 2
         /\ \A k \in 1 .. Len(p) : (a \o p)[k + 2] = p[k]
         /\ \A k \in 0 .. Len(p) : SubSeq(a \o p, 3, k + 2) = SubSeq(p, 1, k)
<1>1. /\ Len(a \o p) = Len(p) + 2 /\ Len(p) \in Nat /\ a \o p \in Seq(T)
      /\ \A k \in 1 .. Len(p) : (a \o p)[k + 2] = p[k]
  <2>1. /\ a \o p \in Seq(T) /\ Len(a \o p) = Len(a) + Len(p)
        /\ \A i \in 1 .. Len(a) + Len(p) :
             (a \o p)[i] = IF i <= Len(a) THEN a[i] ELSE p[i - Len(a)]
    BY ConcatProperties
  <2>2. Len(p) \in Nat
    OBVIOUS
  <2>3. ASSUME NEW k \in 1 .. Len(p) PROVE (a \o p)[k + 2] = p[k]
    <3>1. k + 2 \in 1 .. Len(a) + Len(p) /\ ~(k + 2 <= Len(a)) /\ (k + 2) - Len(a) = k
      BY <2>2
    <3> QED
      BY <2>1, <3>1
  <2> QED
    BY <2>1, <2>2, <2>3
<1>2. ASSUME NEW k \in 0 .. Len(p) PROVE SubSeq(a \o p, 3, k + 2) = SubSeq(p, 1, k)
  <2> DEFINE r == SubSeq(a \o p, 3, k + 2)
             q == SubSeq(p, 1, k)
  <2>1. q \in Seq(T) /\ Len(q) = k /\ \A j \in 1 .. k : q[j] = p[j]
    OBVIOUS
  <2> DEFINE b == a \o p
  <2>2. k + 2 <= Len(b) /\ b \in Seq(T) /\ k \in Nat
    BY <1>1
  <2>3. \A j \in 1 .. k : b[j + 2] = p[j]
    BY <1>1
  <2> HIDE DEF b
  <2>4. /\ SubSeq(b, 3, k + 2) \in Seq(T) /\ Len(SubSeq(b, 3, k + 2)) = k
        /\ \A j \in 1 .. k : SubSeq(b, 3, k + 2)[j] = b[j + 2]
    BY <2>2
  <2>5. SubSeq(b, 3, k + 2) = q
    BY <2>1, <2>3, <2>4, SeqEqual
  <2> QED
    BY <2>5 DEF b
<1> QED
  BY <1>1, <1>2

LEMMA LastNodeIs ==
  ASSUME NEW p \in Seq(PathNode), NEW e \in PathNode
  PROVE  LastNode(FilePath(Append(p, e))) = e
<1> DEFINE r == Append(p, e)
           T == PathNode \cup {<<"repo">>}
           a == <<DotDot, <<"repo">>>>
<1>1. r \in Seq(PathNode) /\ r \in Seq(T) /\ Len(r) = Len(p) + 1 /\ r[Len(p) + 1] = e
      /\ Len(p) \in Nat
  OBVIOUS
<1>2. a \in Seq(T) /\ Len(a) = 2
  BY DEF PathNode
<1>3. Split(FilePath(r), Slash) = a \o r
  BY <1>1, NodesOfFilePath
<1> HIDE DEF r, a, T
<1>4. Len(a \o r) = Len(r) + 2 /\ (a \o r)[Len(r) + 2] = r[Len(r)]
  <2>1. /\ Len(a \o r) = Len(r) + 2
        /\ \A k \in 1 .. Len(r) : (a \o r)[k + 2] = r[k]
    BY <1>1, <1>2, Behind, ZenonT(40)
  <2>2. Len(r) \in 1 .. Len(r)
    BY <1>1
  <2> HIDE DEF r
  <2> QED
    BY <2>1, <2>2
<1>5. LastNode(FilePath(r)) = (a \o r)[Len(a \o r)]
  BY <1>3 DEF LastNode
<1>6. r[Len(r)] = e
  BY <1>1
<1> QED
  BY <1>4, <1>5, <1>6 DEF r

(* The nodes of the string of a path are those of the path.                *)
NodesOf(string) == SubSeq(Split(string, Slash), 3, Len(Split(string, Slash)))

LEMMA NodesOfIs ==
  ASSUME NEW p \in Seq(PathNode)
  PROVE  /\ NodesOf(FilePath(p)) = p
         /\ Len(Split(FilePath(p), Slash)) = Len(p) + 2
         /\ \A k \in 0 .. Len(p) : SubSeq(Split(FilePath(p), Slash), 3, k + 2) = SubSeq(p, 1, k)
<1> DEFINE T == PathNode \cup {<<"repo">>}
           a == <<DotDot, <<"repo">>>>
<1>1. p \in Seq(T) /\ Len(p) \in Nat
  OBVIOUS
<1>2. a \in Seq(T) /\ Len(a) = 2
  BY DEF PathNode
<1>3. Split(FilePath(p), Slash) = a \o p
  BY NodesOfFilePath
<1> HIDE DEF a, T
<1>4. Len(a \o p) = Len(p) + 2
  BY <1>1, <1>2, Behind, ZenonT(40)
<1>5. \A k \in 0 .. Len(p) : SubSeq(a \o p, 3, k + 2) = SubSeq(p, 1, k)
  BY <1>1, <1>2, Behind, ZenonT(40)
<1>6. SubSeq(p, 1, Len(p)) = p /\ Len(p) \in 0 .. Len(p)
  BY <1>1
<1> QED
  BY <1>3, <1>4, <1>5, <1>6 DEF NodesOf

(* A path that leads to a new place ends in a name; the place is in a      *)
(* directory.                                                              *)
LEMMA NewPlace ==
  ASSUME NEW p \in Seq(PathNode), Acceptable(p), IsTree(dirs, file),
         Way(p) \subseteq dirs, Lexical(p) \notin dirs
  PROVE  Lexical(p) \in Place /\ Lexical(p) # <<>> /\ Above(Lexical(p)) \in dirs
<1>1. p # <<>>
  BY LexicalNone, TreeFacts
<1>2. PICK q \in Seq(PathNode), e \in PathNode : p = Append(q, e)
  BY <1>1, PathSplit
<1>3. Lexical(q) \in dirs /\ Lexical(q) \in Place
  BY <1>2, WayMore, LexicalType
<1>4. Lexical(p) = Lexical_Next(Lexical(q), e)
  BY <1>2, LexicalMore
<1>5. e \in NameNode
  <2>1. e # Dot
    BY <1>3, <1>4 DEF Lexical_Next
  <2>2. e # DotDot
    <3>1. SUFFICES ASSUME e = DotDot PROVE FALSE
      OBVIOUS
    <3>2. Lexical(q) # <<>>
      BY <1>2, <3>1, AcceptableMore
    <3>3. Above(Lexical(q)) \in dirs
      BY <1>3, <3>2, TreeFacts
    <3> QED
      BY <1>4, <3>1, <3>3 DEF Lexical_Next, Above, Dot, DotDot
  <2> QED
    BY <2>1, <2>2 DEF PathNode
<1>6. Lexical(p) = Append(Lexical(q), e)
  BY <1>4, <1>5, NodeFacts DEF Lexical_Next
<1>7. Above(Append(Lexical(q), e)) = Lexical(q) /\ Append(Lexical(q), e) \in Place
  BY <1>3, <1>5, BelowFacts
<1>8. Append(Lexical(q), e) # <<>>
  BY <1>3 DEF Place
<1> QED
  BY <1>3, <1>6, <1>7, <1>8

-----------------------------------------------------------------------------
(* Paths that only go down.                                                *)

(* Every second token of the string of a path is one of its nodes.         *)
LEMMA TokensOfFilePath ==
  ASSUME NEW p \in Seq(PathNode)
  PROVE  /\ Len(FilePath(p)) = 3 + 2 * Len(p)
         /\ \A k \in 1 .. Len(p) : FilePath(p)[3 + 2 * k] = p[k][1]
<1> DEFINE Spelt(q) == /\ Len(FilePath(q)) = 3 + 2 * Len(q)
                       /\ \A k \in 1 .. Len(q) : FilePath(q)[3 + 2 * k] = q[k][1]
           Z == {q \in Seq(PathNode) : Spelt(q)}
<1>1. <<>> \in Z
  <2>1. Len(BASE_PATH) = 3 /\ Len(<<>>) = 0 /\ <<>> \in Seq(PathNode)
    BY DEF BASE_PATH
  <2> QED
    BY <2>1, FilePathNone
<1>2. ASSUME NEW q \in Seq(PathNode), q \in Z, NEW e \in PathNode
      PROVE  Append(q, e) \in Z
  <2> DEFINE a == FilePath(q)
             b == FilePath(Append(q, e))
             r == Append(q, e)
             n == Len(q)
  <2>1. /\ r \in Seq(PathNode) /\ Len(r) = n + 1 /\ r[n + 1] = e /\ n \in Nat
        /\ \A k \in 1 .. n : r[k] = q[k]
    OBVIOUS
  <2>2. a \in Seq(FileToken) /\ b = a \o <<Slash, e[1]>>
    <3>1. a \in FileString
      BY FilePathType
    <3>2. b = Join(a, e)
      BY FilePathMore
    <3>3. Join(a, e) = a \o <<Slash, e[1]>>
      BY <3>1, JoinNode
    <3> QED
      BY <3>1, <3>2, <3>3 DEF FileString
  <2>3. Slash \in FileToken /\ e[1] \in FileToken
    BY NodeFacts DEF FileToken, Token, Separator
  <2>4. Len(a) = 3 + 2 * n /\ \A k \in 1 .. n : a[3 + 2 * k] = q[k][1]
    BY <1>2
  <2> HIDE DEF a, b, n, r
  <2>5. /\ Len(b) = Len(a) + 2
        /\ \A i \in 1 .. Len(a) : b[i] = a[i]
        /\ b[Len(a) + 2] = e[1]
    BY <2>2, <2>3
  <2>6. Len(b) = 3 + 2 * Len(r)
    BY <2>1, <2>4, <2>5
  <2>7. ASSUME NEW k \in 1 .. Len(r) PROVE b[3 + 2 * k] = r[k][1]
    <3>1. CASE k = n + 1
      <4>1. 3 + 2 * k = Len(a) + 2
        BY <2>1, <2>4, <3>1
      <4> QED
        BY <2>1, <2>5, <3>1, <4>1
    <3>2. CASE k # n + 1
      <4>1. k \in 1 .. n /\ 3 + 2 * k \in 1 .. Len(a)
        BY <2>1, <2>4, <3>2
      <4> QED
        BY <2>1, <2>4, <2>5, <4>1
    <3> QED
      BY <3>1, <3>2
  <2> QED
    BY <2>1, <2>6, <2>7 DEF b, r
<1> HIDE DEF Z
<1>3. \A q \in Seq(PathNode) : q \in Z
  BY <1>1, <1>2, SequenceInduction
<1> QED
  BY <1>3 DEF Z

(* A path without .. means a place below every place it leads through.     *)
LEMMA WayDown ==
  \A p \in Seq(PathNode) :
    (\A k \in 1 .. Len(p) : p[k] # DotDot) => \A v \in Way(p) : Below(Lexical(p), v)
<1> DEFINE Down(p) == \A k \in 1 .. Len(p) : p[k] # DotDot
           Z == {p \in Seq(PathNode) : Down(p) => \A v \in Way(p) : Below(Lexical(p), v)}
<1>1. <<>> \in Z
  BY WayNone
<1>2. ASSUME NEW p \in Seq(PathNode), p \in Z, NEW e \in PathNode
      PROVE  Append(p, e) \in Z
  <2> DEFINE r == Append(p, e)
             w == Lexical(p)
  <2>1. /\ r \in Seq(PathNode) /\ Len(r) = Len(p) + 1 /\ r[Len(p) + 1] = e
        /\ Len(p) \in Nat /\ \A k \in 1 .. Len(p) : r[k] = p[k]
    OBVIOUS
  <2>2. Way(r) = Way(p) \cup {w} /\ Lexical(r) = Lexical_Next(w, e) /\ w \in Place
    BY WayMore, LexicalMore, LexicalType
  <2>3. \A v \in Way(p) : v \in Place
    <3>1. \A k \in 0 .. Len(p) - 1 : SubSeq(p, 1, k) \in Seq(PathNode)
      OBVIOUS
    <3> QED
      BY <3>1, LexicalType DEF Way
  <2>4. \A v \in Way(p) : Down(p) => Below(w, v)
    BY <1>2
  <2> HIDE DEF r, w
  <2>5. ASSUME Down(r), NEW v \in Way(r) PROVE Below(Lexical(r), v)
    <3>1. Down(p) /\ e # DotDot
      <4>1. \A k \in 1 .. Len(p) : k \in 1 .. Len(r)
        BY <2>1
      <4>2. Len(p) + 1 \in 1 .. Len(r)
        BY <2>1
      <4> QED
        BY <2>1, <2>5, <4>1, <4>2
    <3>2. Lexical(r) \in Place /\ Below(Lexical(r), w)
      <4>1. CASE e = Dot
        BY <2>2, <4>1, BelowFacts DEF Lexical_Next
      <4>2. CASE e \in NameNode
        <5>1. Lexical(r) = Append(w, e)
          BY <2>2, <4>2, NodeFacts DEF Lexical_Next
        <5> QED
          BY <2>2, <4>2, <5>1, BelowFacts
      <4> QED
        BY <3>1, <4>1, <4>2 DEF PathNode
    <3>3. v \in Place /\ Below(w, v)
      BY <2>2, <2>3, <2>4, <3>1, BelowFacts
    <3> QED
      BY <2>2, <3>2, <3>3, BelowFacts
  <2> QED
    BY <2>1, <2>5 DEF r
<1> HIDE DEF Z
<1>3. \A p \in Seq(PathNode) : p \in Z
  BY <1>1, <1>2, SequenceInduction
<1> QED
  BY <1>3 DEF Z
=============================================================================
