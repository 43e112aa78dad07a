------------------------ MODULE UserResourcesProofs -------------------------
(***************************************************************************)
(* Proofs about the resources users write: that the filters of Dubbo       *)
(* services do what the policies say and their routes match what the       *)
(* VirtualServices say, for any policies, services and requests.           *)
(***************************************************************************)
EXTENDS UserResources, FiniteSetTheorems, WellFoundedInduction, TLAPS

(* The tokens that strings are made of. STRING already holds the literals:  *)
(* the union spells out what the provers do not know of STRING.             *)
Token == STRING \cup {"*", "/", ".", "ns", "sa", "spiffe://", "cluster", "local"}

(* A set of naturals has a least element.                                   *)
LEMMA Least ==
  ASSUME NEW S \in SUBSET Nat, S # {}
  PROVE  \E n \in S : \A m \in S : n <= m
<1>1. PICK n \in S : \A m \in S : ~ (<<m, n>> \in OpToRel(<, Nat))
  BY WFMin, NatLessThanWellFounded, Zenon
<1>2. \A m \in S : ~ (m < n)
  BY <1>1, Zenon DEF OpToRel
<1> QED
  BY <1>2

-----------------------------------------------------------------------------
(* The patterns of the matchers.                                            *)

(* Where matches of one token more may end, and where those of the first    *)
(* tokens of a pattern do, as Glob has them.                                *)
Further(before, token, text, u) ==
  IF token = "*" THEN {k \in 0..Len(text) : \E j \in before : j <= k}
  ELSE {k \in 1..Len(text) : k - 1 \in before /\ Fits(text[k], token, u)}

AreEnds(ends, pattern, text, u, n) ==
  ends = [i \in 0..n |-> IF i = 0 THEN {0} ELSE Further(ends[i - 1], pattern[i], text, u)]

(* They exist.                                                              *)
LEMMA EndsExist ==
  ASSUME NEW pattern, NEW text, NEW u, NEW n \in Nat
  PROVE  \E ends : AreEnds(ends, pattern, text, u, n)
<1> DEFINE without == {k \in 0..n : ~ \E ends : AreEnds(ends, pattern, text, u, k)}
<1>1. SUFFICES ASSUME without # {} PROVE FALSE
  OBVIOUS
<1>2. PICK k \in without : \A m \in without : k <= m
  <2>1. without \in SUBSET Nat
    OBVIOUS
  <2> HIDE DEF without
  <2> QED
    BY <1>1, <2>1, Least
<1>3. k # 0
  <2>1. AreEnds([i \in 0..0 |-> {0}], pattern, text, u, 0)
    BY DEF AreEnds
  <2> QED
    BY <1>2, <2>1
<1>4. k - 1 \in 0..n /\ k - 1 \notin without
  BY <1>2, <1>3
<1>5. PICK ends : AreEnds(ends, pattern, text, u, k - 1)
  BY <1>4
<1> DEFINE longer == [i \in 0..k |-> IF i = k THEN Further(ends[k - 1], pattern[k], text, u) ELSE ends[i]]
<1>6. AreEnds(longer, pattern, text, u, k)
  <2>1. k \in 1..n
    BY <1>2, <1>3
  <2>2. ASSUME NEW i \in 0..k - 1
        PROVE  longer[i] = IF i = 0 THEN {0} ELSE Further(ends[i - 1], pattern[i], text, u)
    <3>1. longer[i] = ends[i]
      BY <2>1
    <3> QED
      BY <1>5, <3>1, Zenon DEF AreEnds
  <2>3. ASSUME NEW i \in 0..k
        PROVE  longer[i] = IF i = 0 THEN {0} ELSE Further(longer[i - 1], pattern[i], text, u)
    <3>1. i # 0 => longer[i - 1] = ends[i - 1]
      BY <2>1
    <3>2. longer[k] = Further(ends[k - 1], pattern[k], text, u)
      BY <2>1
    <3> HIDE DEF longer
    <3> QED
      BY <2>1, <2>2, <3>1, <3>2
  <2> QED
    BY <2>3 DEF AreEnds
<1> QED
  BY <1>2, <1>6

(* Glob is about the last of them.                                          *)
LEMMA GlobEnds ==
  ASSUME NEW pattern \in Seq(Token), NEW text, NEW u
  PROVE  \E ends : /\ AreEnds(ends, pattern, text, u, Len(pattern))
                   /\ Glob(pattern, text, u) <=> Len(text) \in ends[Len(pattern)]
<1> DEFINE chosen == CHOOSE ends : AreEnds(ends, pattern, text, u, Len(pattern))
<1>1. AreEnds(chosen, pattern, text, u, Len(pattern))
  BY EndsExist
<1>2. Glob(pattern, text, u) <=> Len(text) \in chosen[Len(pattern)]
  BY DEF Glob, AreEnds, Further
<1> QED
  BY <1>1, <1>2

Stepwise(ends, pattern, text, u, n) ==
  /\ ends[0] = {0}
  /\ \A i \in 1..n : ends[i] = Further(ends[i - 1], pattern[i], text, u)
  /\ \A i \in 0..n : ends[i] \subseteq 0..Len(text)

LEMMA EndsStep ==
  ASSUME NEW pattern, NEW text, NEW u, Len(text) \in Nat, NEW n \in Nat, NEW ends,
         AreEnds(ends, pattern, text, u, n)
  PROVE  Stepwise(ends, pattern, text, u, n)
<1>1. ends[0] = {0}
  BY DEF AreEnds
<1>2. ASSUME NEW i \in 1..n PROVE ends[i] = Further(ends[i - 1], pattern[i], text, u)
  <2>1. i \in 0..n /\ i # 0
    OBVIOUS
  <2> QED
    BY <2>1, Zenon DEF AreEnds
<1>3. \A before, token : Further(before, token, text, u) \subseteq 0..Len(text)
  <2>1. 1..Len(text) \subseteq 0..Len(text)
    OBVIOUS
  <2> QED
    BY <2>1, Zenon DEF Further
<1>4. ASSUME NEW i \in 0..n PROVE ends[i] \subseteq 0..Len(text)
  BY <1>1, <1>2, <1>3
<1> QED
  BY <1>1, <1>2, <1>4, Zenon DEF Stepwise

(* Tokens are compared as they are, but for the dots of unquoted patterns.  *)
LEMMA Quoted ==
  ASSUME NEW t, NEW p, NEW u
  PROVE  /\ Fits(t, p, FALSE) <=> t = p
         /\ p # "." => (Fits(t, p, u) <=> t = p)
BY Zenon DEF Fits

(* The part of a pattern after its first a tokens and up to the b-th has no *)
(* stars, and no dots; and it is matched by the tokens that fit.            *)
Starless(pattern, a, b) == \A i \in a + 1..b : pattern[i] # "*"
Dotless(pattern, a, b)  == \A i \in a + 1..b : pattern[i] # "."

Same(ends, pattern, text, u, a, b) ==
  \A k \in Int : k \in ends[b] <=> /\ k - (b - a) \in ends[a] /\ k <= Len(text)
                                   /\ \A i \in a + 1..b : Fits(text[k - b + i], pattern[i], u)

LEMMA Segment ==
  ASSUME NEW pattern, NEW text, NEW u, Len(text) \in Nat, NEW n \in Nat, NEW ends,
         AreEnds(ends, pattern, text, u, n), NEW a \in 0..n, NEW b \in a..n,
         Starless(pattern, a, b)
  PROVE  Same(ends, pattern, text, u, a, b)
<1> DEFINE Ends(c, k) == /\ k - (c - a) \in ends[a] /\ k <= Len(text)
                         /\ \A i \in a + 1..c : Fits(text[k - c + i], pattern[i], u)
           bad == {c \in a..b : ~ \A k \in Int : k \in ends[c] <=> Ends(c, k)}
<1>1. SUFFICES ASSUME bad # {} PROVE FALSE
  <2>1. b \in a..b
    OBVIOUS
  <2>2. bad = {} => \A k \in Int : k \in ends[b] <=> Ends(b, k)
    BY <2>1, Zenon
  <2> QED
    BY <2>2, Zenon DEF Same
<1>2. PICK c \in bad : \A m \in bad : c <= m
  <2>1. bad \in SUBSET Nat
    OBVIOUS
  <2> HIDE DEF bad
  <2> QED
    BY <1>1, <2>1, Least
<1>3. c \in a..b /\ ~ \A k \in Int : k \in ends[c] <=> Ends(c, k)
  BY <1>2
<1>4. c # a
  <2>1. ends[a] \subseteq 0..Len(text)
    <3>1. Stepwise(ends, pattern, text, u, n)
      BY EndsStep, Zenon
    <3> QED
      BY <3>1, Zenon DEF Stepwise
  <2> QED
    BY <1>3, <2>1
<1>5. c - 1 \in a..b /\ c - 1 \notin bad
  BY <1>2, <1>3, <1>4
<1>6. \A k \in Int : k \in ends[c - 1] <=> Ends(c - 1, k)
  BY <1>5
<1>7. ends[c] = Further(ends[c - 1], pattern[c], text, u) /\ pattern[c] # "*"
  <2>1. c \in 1..n /\ c \in a + 1..b
    BY <1>3, <1>4
  <2>2. Stepwise(ends, pattern, text, u, n)
    BY EndsStep, Zenon
  <2> QED
    BY <2>1, <2>2, Zenon DEF Starless, Stepwise
<1>8. ASSUME NEW k \in Int PROVE k \in ends[c] <=> Ends(c, k)
  <2>1. k \in ends[c] <=> k \in 1..Len(text) /\ k - 1 \in ends[c - 1] /\ Fits(text[k], pattern[c], u)
    BY <1>7 DEF Further
  <2>2. k - 1 \in ends[c - 1] <=> Ends(c - 1, k - 1)
    <3>1. k - 1 \in Int
      OBVIOUS
    <3> QED
      BY <1>6, <3>1, Zenon
  <2>3. ends[a] \subseteq 0..Len(text)
    <3>1. Stepwise(ends, pattern, text, u, n)
      BY EndsStep, Zenon
    <3> QED
      BY <3>1, Zenon DEF Stepwise
  <2>4. (k - 1) - ((c - 1) - a) = k - (c - a) /\ \A i \in a + 1..c - 1 : (k - 1) - (c - 1) + i = k - c + i
    BY <1>3
  <2>5. ASSUME Ends(c, k) PROVE k \in 1..Len(text) /\ Ends(c - 1, k - 1) /\ Fits(text[k], pattern[c], u)
    BY <1>3, <1>4, <2>3, <2>4, <2>5
  <2>6. ASSUME k \in 1..Len(text), Ends(c - 1, k - 1), Fits(text[k], pattern[c], u) PROVE Ends(c, k)
    <3>1. ASSUME NEW i \in a + 1..c PROVE Fits(text[k - c + i], pattern[i], u)
      <4>1. i = c \/ i \in a + 1..c - 1
        BY <1>3
      <4>2. CASE i = c
        <5>1. k - c + i = k
          BY <1>3, <4>2
        <5> QED
          BY <2>6, <4>2, <5>1, Zenon
      <4>3. CASE i \in a + 1..c - 1
        BY <2>4, <2>6, <4>3, Zenon
      <4> QED
        BY <4>1, <4>2, <4>3
    <3>2. k <= Len(text)
      BY <2>6
    <3> QED
      BY <2>4, <2>6, <3>1, <3>2, Zenon
  <2> QED
    BY <2>1, <2>2, <2>5, <2>6
<1> QED
  BY <1>3, <1>8

(* A star matches any tokens.                                               *)
Anything(ends, text, a) ==
  \A k \in Int : k \in ends[a] <=> k \in 0..Len(text) /\ \E j \in ends[a - 1] : j <= k

LEMMA AtStar ==
  ASSUME NEW pattern, NEW text, NEW u, Len(text) \in Nat, NEW n \in Nat, NEW ends,
         AreEnds(ends, pattern, text, u, n), NEW a \in 1..n, pattern[a] = "*"
  PROVE  Anything(ends, text, a)
<1>1. ends[a] = Further(ends[a - 1], pattern[a], text, u)
  <2>1. Stepwise(ends, pattern, text, u, n)
    BY EndsStep, Zenon
  <2> QED
    BY <2>1, Zenon DEF Stepwise
<1> QED
  BY <1>1 DEF Further, Anything

(* A pattern without stars is matched by itself only.                       *)
LEMMA GlobWord ==
  ASSUME NEW pattern \in Seq(Token), NEW text \in Seq(Token),
         \A i \in 1..Len(pattern) : pattern[i] # "*"
  PROVE  Glob(pattern, text, FALSE) <=> text = pattern
<1> DEFINE n == Len(pattern)
           L == Len(text)
<1>1. n \in Nat /\ L \in Nat
  OBVIOUS
<1>2. PICK ends : /\ AreEnds(ends, pattern, text, FALSE, n)
                  /\ Glob(pattern, text, FALSE) <=> L \in ends[n]
  BY GlobEnds, Zenon
<1>3. ends[0] = {0}
  <2>1. Stepwise(ends, pattern, text, FALSE, n)
    BY <1>1, <1>2, EndsStep, Zenon
  <2> QED
    BY <2>1, Zenon DEF Stepwise
<1>4. L \in ends[n] <=> L = n /\ \A i \in 1..n : text[L - n + i] = pattern[i]
  <2>1. Starless(pattern, 0, n) /\ 0 \in 0..n /\ n \in 0..n
    BY DEF Starless
  <2> HIDE DEF n
  <2>2. Same(ends, pattern, text, FALSE, 0, n)
    BY <1>1, <1>2, <2>1, Segment, Zenon
  <2>3. L \in Int /\ 0 + 1 = 1 /\ (L - (n - 0) \in ends[0] /\ L <= L <=> L = n)
    BY <1>1, <1>3
  <2>4. L \in ends[n] <=> L = n /\ \A i \in 1..n : Fits(text[L - n + i], pattern[i], FALSE)
    BY <2>2, <2>3, Zenon DEF Same
  <2> QED
    BY <2>4, Quoted, Zenon
<1>5. text = pattern <=> L = n /\ \A i \in 1..n : text[i] = pattern[i]
  OBVIOUS
<1>6. L = n => \A i \in 1..n : L - n + i = i
  BY <1>1
<1> QED
  BY <1>2, <1>4, <1>5, <1>6

(* One with one star is matched by the texts whose beginning and end fit.   *)
LEMMA GlobStar ==
  ASSUME NEW pattern \in Seq(Token), NEW text \in Seq(Token), NEW u,
         NEW s \in 1..Len(pattern), pattern[s] = "*",
         \A i \in 1..Len(pattern) : i # s => pattern[i] # "*"
  PROVE  Glob(pattern, text, u) <=>
           /\ Len(pattern) - 1 <= Len(text)
           /\ \A i \in 1..s - 1 : Fits(text[i], pattern[i], u)
           /\ \A i \in s + 1..Len(pattern) : Fits(text[Len(text) - Len(pattern) + i], pattern[i], u)
<1> DEFINE n == Len(pattern)
           L == Len(text)
<1>1. n \in Nat /\ L \in Nat /\ s \in 1..n
  OBVIOUS
<1>2. PICK ends : /\ AreEnds(ends, pattern, text, u, n)
                  /\ Glob(pattern, text, u) <=> L \in ends[n]
  BY GlobEnds
<1>3. ends[0] = {0}
  <2>1. Stepwise(ends, pattern, text, u, n)
    BY <1>1, <1>2, EndsStep, Zenon
  <2> QED
    BY <2>1, Zenon DEF Stepwise
<1>4. \A i \in 1..n : i # s => pattern[i] # "*"
  OBVIOUS
<1> HIDE DEF n, L
<1>5. Same(ends, pattern, text, u, 0, s - 1)
  <2>1. s - 1 \in 0..n /\ 0 \in 0..n /\ Starless(pattern, 0, s - 1)
    BY <1>1, <1>4 DEF Starless
  <2> QED
    BY <1>1, <1>2, <2>1, Segment DEF L
<1>6. \A k \in Int : k \in ends[s] <=> k \in 0..L /\ \E j \in ends[s - 1] : j <= k
  <2>1. Anything(ends, text, s)
    BY <1>1, <1>2, AtStar DEF L
  <2> QED
    BY <2>1, Zenon DEF Anything, L
<1>7. Same(ends, pattern, text, u, s, n)
  <2>1. s \in 0..n /\ n \in s..n /\ Starless(pattern, s, n)
    BY <1>1, <1>4 DEF Starless
  <2> QED
    BY <1>1, <1>2, <2>1, Segment DEF L
<1>8. ASSUME NEW k \in Int
      PROVE  k \in ends[s - 1] <=> k = s - 1 /\ k <= L /\ \A i \in 1..s - 1 : Fits(text[i], pattern[i], u)
  <2>1. k \in ends[s - 1] <=> /\ k - ((s - 1) - 0) \in ends[0] /\ k <= L
                              /\ \A i \in 0 + 1..s - 1 : Fits(text[k - (s - 1) + i], pattern[i], u)
    BY <1>5 DEF Same, L
  <2>2. k - ((s - 1) - 0) \in ends[0] <=> k = s - 1
    BY <1>1, <1>3
  <2>3. k = s - 1 => \A i \in 1..s - 1 : k - (s - 1) + i = i
    BY <1>1
  <2>4. 0 + 1 = 1
    OBVIOUS
  <2> QED
    BY <2>1, <2>2, <2>3, <2>4, Zenon
<1>9. L - (n - s) \in ends[s] <=> /\ n - 1 <= L
                                  /\ \A i \in 1..s - 1 : Fits(text[i], pattern[i], u)
  <2>1. L - (n - s) \in Int /\ s - 1 \in Int
    BY <1>1
  <2>2. L - (n - s) \in ends[s] <=> L - (n - s) \in 0..L /\ s - 1 \in ends[s - 1] /\ s - 1 <= L - (n - s)
    <3>1. ends[s - 1] \subseteq Int
      <4>1. s - 1 \in 0..n /\ 0..L \subseteq Int
        BY <1>1
      <4>2. Stepwise(ends, pattern, text, u, n)
        BY <1>1, <1>2, EndsStep, Zenon DEF L
      <4> QED
        BY <4>1, <4>2, Zenon DEF L, Stepwise
    <3> QED
      BY <1>6, <1>8, <2>1, <3>1
  <2>3. L - (n - s) \in 0..L /\ s - 1 <= L - (n - s) /\ s - 1 <= L <=> n - 1 <= L
    BY <1>1
  <2> QED
    BY <1>8, <2>1, <2>2, <2>3
<1>10. L \in ends[n] <=> /\ n - 1 <= L
                         /\ \A i \in 1..s - 1 : Fits(text[i], pattern[i], u)
                         /\ \A i \in s + 1..n : Fits(text[L - n + i], pattern[i], u)
  BY <1>1, <1>7, <1>9 DEF Same, L
<1> QED
  BY <1>2, <1>10 DEF n, L

(* Those tokens of the pattern occur in the text after its first j.         *)
Occurs(text, pattern, a, b, j) ==
  j + (b - a) <= Len(text) /\ \A i \in a + 1..b : text[j - a + i] = pattern[i]

Placed(ends, pattern, text, a, b) ==
  \A j \in Int : j + (b - a) \in ends[b] <=> j \in ends[a] /\ Occurs(text, pattern, a, b, j)

LEMMA Occurrence ==
  ASSUME NEW pattern, NEW text, NEW u, Len(text) \in Nat, NEW n \in Nat, NEW ends,
         AreEnds(ends, pattern, text, u, n), NEW a \in 0..n, NEW b \in a..n,
         Starless(pattern, a, b), Dotless(pattern, a, b)
  PROVE  Placed(ends, pattern, text, a, b)
<1> SUFFICES ASSUME NEW j \in Int
             PROVE  j + (b - a) \in ends[b] <=> j \in ends[a] /\ Occurs(text, pattern, a, b, j)
  BY Zenon DEF Placed
<1>1. Same(ends, pattern, text, u, a, b)
  BY Segment
<1>2. /\ j + (b - a) \in Int /\ (j + (b - a)) - (b - a) = j
      /\ \A i \in a + 1..b : (j + (b - a)) - b + i = j - a + i
  OBVIOUS
<1>3. j + (b - a) \in ends[b] <=>
        /\ (j + (b - a)) - (b - a) \in ends[a] /\ j + (b - a) <= Len(text)
        /\ \A i \in a + 1..b : Fits(text[(j + (b - a)) - b + i], pattern[i], u)
  BY <1>1, <1>2, Zenon DEF Same
<1>4. \A i \in a + 1..b : Fits(text[(j + (b - a)) - b + i], pattern[i], u)
                            <=> text[(j + (b - a)) - b + i] = pattern[i]
  BY Quoted, Zenon DEF Dotless
<1> QED
  BY <1>2, <1>3, <1>4, Zenon DEF Occurs

(* A pattern between two stars matches wherever it occurs.                  *)
LEMMA GlobInside ==
  ASSUME NEW pattern \in Seq(Token), NEW text \in Seq(Token), NEW u, NEW n \in Nat, n = Len(pattern),
         n > 1, pattern[1] = "*", pattern[n] = "*",
         Starless(pattern, 1, n - 1), Dotless(pattern, 1, n - 1)
  PROVE  Glob(pattern, text, u) <=> \E j \in 0..Len(text) : Occurs(text, pattern, 1, n - 1, j)
<1> DEFINE L == Len(text)
<1>1. L \in Nat
  OBVIOUS
<1>2. PICK ends : /\ AreEnds(ends, pattern, text, u, n)
                  /\ Glob(pattern, text, u) <=> L \in ends[n]
  BY GlobEnds
<1>3. ends[0] = {0} /\ \A i \in 0..n : ends[i] \subseteq 0..L
  <2>1. Stepwise(ends, pattern, text, u, n)
    BY <1>1, <1>2, EndsStep, Zenon
  <2> QED
    BY <2>1, Zenon DEF Stepwise
<1> HIDE DEF L
<1>4. \A k \in Int : k \in ends[1] <=> k \in 0..L
  <2>1. 1 \in 1..n /\ 1 - 1 = 0
    OBVIOUS
  <2>2. \A k \in Int : k \in ends[1] <=> k \in 0..L /\ \E j \in ends[1 - 1] : j <= k
    <3>1. Anything(ends, text, 1)
      BY <1>1, <1>2, <2>1, AtStar DEF L
    <3> QED
      BY <3>1, Zenon DEF Anything, L
  <2> QED
    BY <1>1, <1>3, <2>1, <2>2
<1>5. \A j \in Int : j + ((n - 1) - 1) \in ends[n - 1] <=>
                       j \in ends[1] /\ Occurs(text, pattern, 1, n - 1, j)
  <2>1. 1 \in 0..n /\ n - 1 \in 1..n
    OBVIOUS
  <2>2. Placed(ends, pattern, text, 1, n - 1)
    BY <1>1, <1>2, <2>1, Occurrence, Zenon DEF L
  <2> QED
    BY <2>2, Zenon DEF Placed
<1>6. L \in ends[n] <=> \E k \in ends[n - 1] : k <= L
  <2>1. n \in 1..n
    OBVIOUS
  <2>2. \A k \in Int : k \in ends[n] <=> k \in 0..L /\ \E j \in ends[n - 1] : j <= k
    <3>1. Anything(ends, text, n)
      BY <1>1, <1>2, <2>1, AtStar DEF L
    <3> QED
      BY <3>1, Zenon DEF Anything, L
  <2> QED
    BY <1>1, <2>2
<1>7. ASSUME NEW k \in ends[n - 1] PROVE \E j \in 0..L : Occurs(text, pattern, 1, n - 1, j)
  <2>1. k \in Int
    BY <1>3
  <2>2. k - ((n - 1) - 1) \in Int /\ (k - ((n - 1) - 1)) + ((n - 1) - 1) = k
    BY <2>1
  <2> QED
    BY <1>4, <1>5, <2>2, Zenon
<1>8. ASSUME NEW j \in 0..L, Occurs(text, pattern, 1, n - 1, j)
      PROVE  \E k \in ends[n - 1] : k <= L
  <2>1. j \in Int
    BY <1>1
  <2>2. j + ((n - 1) - 1) \in ends[n - 1]
    BY <1>4, <1>5, <1>8, <2>1
  <2>3. j + ((n - 1) - 1) <= L
    BY <1>8 DEF Occurs, L
  <2> QED
    BY <2>2, <2>3
<1> QED
  BY <1>2, <1>6, <1>7, <1>8 DEF L

(* One of two parts between three stars matches wherever the first part     *)
(* occurs before the second.                                                *)
OccurInTurn(globbed, pattern, text, s, n) ==
  globbed <=> \E j, k \in 0..Len(text) : /\ Occurs(text, pattern, 1, s - 1, j)
                                         /\ j + (s - 2) <= k
                                         /\ Occurs(text, pattern, s, n - 1, k)

LEMMA GlobTwice ==
  ASSUME NEW pattern \in Seq(Token), NEW text \in Seq(Token), NEW u, NEW n \in Nat, n = Len(pattern),
         NEW s \in 2..n - 1, pattern[1] = "*", pattern[s] = "*", pattern[n] = "*",
         Starless(pattern, 1, s - 1), Starless(pattern, s, n - 1),
         Dotless(pattern, 1, s - 1), Dotless(pattern, s, n - 1)
  PROVE  OccurInTurn(Glob(pattern, text, u), pattern, text, s, n)
<1> SUFFICES Glob(pattern, text, u) <=>
               \E j, k \in 0..Len(text) : /\ Occurs(text, pattern, 1, s - 1, j)
                                          /\ j + (s - 2) <= k
                                          /\ Occurs(text, pattern, s, n - 1, k)
  BY Zenon DEF OccurInTurn
<1> DEFINE L == Len(text)
<1>1. L \in Nat /\ n > 2
  OBVIOUS
<1>2. PICK ends : /\ AreEnds(ends, pattern, text, u, n)
                  /\ Glob(pattern, text, u) <=> L \in ends[n]
  BY GlobEnds
<1>3. ends[0] = {0} /\ \A i \in 0..n : ends[i] \subseteq 0..L
  <2>1. Stepwise(ends, pattern, text, u, n)
    BY <1>1, <1>2, EndsStep, Zenon
  <2> QED
    BY <2>1, Zenon DEF Stepwise
<1> HIDE DEF L
<1>4. \A k \in Int : k \in ends[1] <=> k \in 0..L
  <2>1. 1 \in 1..n /\ 1 - 1 = 0
    BY <1>1
  <2>2. \A k \in Int : k \in ends[1] <=> k \in 0..L /\ \E j \in ends[1 - 1] : j <= k
    <3>1. Anything(ends, text, 1)
      BY <1>1, <1>2, <2>1, AtStar DEF L
    <3> QED
      BY <3>1, Zenon DEF Anything, L
  <2> QED
    BY <1>1, <1>3, <2>1, <2>2
<1>5. \A j \in Int : j + ((s - 1) - 1) \in ends[s - 1] <=>
                       j \in ends[1] /\ Occurs(text, pattern, 1, s - 1, j)
  <2>1. 1 \in 0..n /\ s - 1 \in 1..n
    BY <1>1
  <2>2. Placed(ends, pattern, text, 1, s - 1)
    BY <1>1, <1>2, <2>1, Occurrence, Zenon DEF L
  <2> QED
    BY <2>2, Zenon DEF Placed
<1>6. \A k \in Int : k \in ends[s] <=> k \in 0..L /\ \E j \in ends[s - 1] : j <= k
  <2>1. s \in 1..n
    OBVIOUS
  <2>2. Anything(ends, text, s)
    BY <1>1, <1>2, <2>1, AtStar DEF L
  <2> QED
    BY <2>2, Zenon DEF Anything, L
<1>7. \A k \in Int : k + ((n - 1) - s) \in ends[n - 1] <=>
                       k \in ends[s] /\ Occurs(text, pattern, s, n - 1, k)
  <2>1. s \in 0..n /\ n - 1 \in s..n
    OBVIOUS
  <2>2. Placed(ends, pattern, text, s, n - 1)
    BY <1>1, <1>2, <2>1, Occurrence, Zenon DEF L
  <2> QED
    BY <2>2, Zenon DEF Placed
<1>8. L \in ends[n] <=> \E k \in ends[n - 1] : k <= L
  <2>1. n \in 1..n
    BY <1>1
  <2>2. \A k \in Int : k \in ends[n] <=> k \in 0..L /\ \E j \in ends[n - 1] : j <= k
    <3>1. Anything(ends, text, n)
      BY <1>1, <1>2, <2>1, AtStar DEF L
    <3> QED
      BY <3>1, Zenon DEF Anything, L
  <2> QED
    BY <1>1, <2>2
<1>9. ASSUME NEW e \in ends[n - 1]
      PROVE  \E j, k \in 0..L : /\ Occurs(text, pattern, 1, s - 1, j)
                                /\ j + (s - 2) <= k /\ Occurs(text, pattern, s, n - 1, k)
  <2> DEFINE k == e - ((n - 1) - s)
  <2>1. e \in Int
    BY <1>1, <1>3
  <2>2. k \in Int /\ k + ((n - 1) - s) = e
    BY <2>1
  <2>3. k \in ends[s] /\ Occurs(text, pattern, s, n - 1, k)
    BY <1>7, <2>2, Zenon
  <2>4. k \in 0..L
    BY <1>6, <2>2, <2>3
  <2>5. PICK f \in ends[s - 1] : f <= k
    BY <1>6, <2>2, <2>3
  <2> DEFINE j == f - ((s - 1) - 1)
  <2>6. f \in Int
    <3>1. s - 1 \in 0..n
      OBVIOUS
    <3> QED
      BY <1>3, <3>1
  <2>7. j \in Int /\ j + ((s - 1) - 1) = f /\ j + (s - 2) = f
    BY <2>6
  <2>8. j \in 0..L /\ Occurs(text, pattern, 1, s - 1, j)
    BY <1>4, <1>5, <2>7, Zenon
  <2> HIDE DEF j, k
  <2> QED
    BY <2>3, <2>4, <2>5, <2>7, <2>8
<1>10. ASSUME NEW j \in 0..L, NEW k \in 0..L, Occurs(text, pattern, 1, s - 1, j),
              j + (s - 2) <= k, Occurs(text, pattern, s, n - 1, k)
       PROVE  \E e \in ends[n - 1] : e <= L
  <2>1. j \in Int /\ k \in Int /\ j + ((s - 1) - 1) = j + (s - 2)
    BY <1>1
  <2>2. j + (s - 2) \in ends[s - 1]
    BY <1>4, <1>5, <1>10, <2>1
  <2>3. k \in ends[s]
    BY <1>6, <1>10, <2>1, <2>2
  <2>4. k + ((n - 1) - s) \in ends[n - 1]
    BY <1>7, <1>10, <2>1, <2>3, Zenon
  <2>5. k + ((n - 1) - s) <= L
    BY <1>10 DEF Occurs, L
  <2> QED
    BY <2>4, <2>5
<1> QED
  BY <1>2, <1>8, <1>9, <1>10 DEF L

-----------------------------------------------------------------------------
(* Strings.                                                                 *)
(* z is x followed by y.                                                    *)
JoinOf(z, S, x, y) ==
  /\ z \in Seq(S) /\ Len(z) = Len(x) + Len(y)
  /\ \A i \in 1..Len(x) : z[i] = x[i]
  /\ \A i \in 1..Len(y) : z[Len(x) + i] = y[i]

LEMMA Joined ==
  ASSUME NEW S, NEW x \in Seq(S), NEW y \in Seq(S)
  PROVE  JoinOf(x \o y, S, x, y)
  BY DEF JoinOf

LEMMA Equal ==
  ASSUME NEW S, NEW x \in Seq(S), NEW y \in Seq(S), Len(x) = Len(y),
         \A i \in 1..Len(x) : x[i] = y[i]
  PROVE  x = y
  OBVIOUS

LEMMA Prefixed ==
  ASSUME NEW x \in Seq(Token), NEW y \in Seq(Token)
  PROVE  HasPrefix(y, x) <=> Len(x) <= Len(y) /\ \A i \in 1..Len(x) : y[i] = x[i]
  BY DEF HasPrefix

LEMMA Suffixed ==
  ASSUME NEW x \in Seq(Token), NEW y \in Seq(Token)
  PROVE  HasSuffix(y, x) <=>
           Len(x) <= Len(y) /\ \A i \in 1..Len(x) : y[Len(y) - Len(x) + i] = x[i]
<1>1. CASE Len(x) <= Len(y)
  <2> DEFINE k == Len(y) - Len(x)
             z == SubSeq(y, k + 1, Len(y))
  <2>1. z \in Seq(Token) /\ Len(z) = Len(x) /\ \A i \in 1..Len(x) : z[i] = y[k + i]
    BY <1>1
  <2> HIDE DEF z
  <2>2. z = x <=> \A i \in 1..Len(x) : z[i] = x[i]
    BY <2>1, Equal, Zenon
  <2>3. z = x <=> \A i \in 1..Len(x) : y[k + i] = x[i]
    BY <2>1, <2>2, Zenon
  <2> QED
    BY <1>1, <2>3, Zenon DEF HasSuffix, z
<1>2. CASE ~ Len(x) <= Len(y)
  BY <1>2, Zenon DEF HasSuffix
<1> QED
  BY <1>1, <1>2, Zenon

(* z is x, the three tokens p, q and r, and y.                              *)
FramedBy(z, S, x, p, q, r, y, n) ==
  /\ z \in Seq(S) /\ Len(z) = n + 3 + Len(y)
  /\ \A i \in 1..n : z[i] = x[i]
  /\ z[n + 1] = p /\ z[n + 2] = q /\ z[n + 3] = r
  /\ \A i \in 1..Len(y) : z[n + 3 + i] = y[i]

LEMMA Framed ==
  ASSUME NEW S, NEW x \in Seq(S), NEW y \in Seq(S),
         NEW p \in S, NEW q \in S, NEW r \in S,
         NEW n \in Nat, n = Len(x)
  PROVE  FramedBy(x \o <<p, q, r>> \o y, S, x, p, q, r, y, n)
<1> DEFINE m == <<p, q, r>>
           w == x \o m
           z == w \o y
<1>1. m \in Seq(S) /\ Len(m) = 3 /\ m[1] = p /\ m[2] = q /\ m[3] = r
  OBVIOUS
<1> HIDE DEF m
<1>2. /\ w \in Seq(S) /\ Len(w) = n + 3 /\ \A i \in 1..n : w[i] = x[i]
      /\ \A i \in 1..3 : w[n + i] = m[i]
  <2>1. JoinOf(x \o m, S, x, m)
    BY <1>1, Joined, Zenon
  <2>2. /\ x \o m \in Seq(S) /\ Len(x \o m) = Len(x) + Len(m)
        /\ \A i \in 1..Len(x) : (x \o m)[i] = x[i]
        /\ \A i \in 1..Len(m) : (x \o m)[Len(x) + i] = m[i]
    BY <2>1, Zenon DEF JoinOf
  <2> QED
    BY <1>1, <2>2
<1>3. w[n + 1] = p /\ w[n + 2] = q /\ w[n + 3] = r
  BY <1>1, <1>2
<1> HIDE DEF w
<1>4. /\ z \in Seq(S) /\ Len(z) = n + 3 + Len(y)
      /\ \A i \in 1..n + 3 : z[i] = w[i]
      /\ \A i \in 1..Len(y) : z[n + 3 + i] = y[i]
  <2>1. JoinOf(w \o y, S, w, y)
    BY <1>2, Joined, Zenon
  <2>2. /\ w \o y \in Seq(S) /\ Len(w \o y) = Len(w) + Len(y)
        /\ \A i \in 1..Len(w) : (w \o y)[i] = w[i]
        /\ \A i \in 1..Len(y) : (w \o y)[Len(w) + i] = y[i]
    BY <2>1, Zenon DEF JoinOf
  <2> QED
    BY <1>2, <2>2
<1> HIDE DEF z
<1>5. /\ \A i \in 1..n : z[i] = x[i]
      /\ z[n + 1] = p /\ z[n + 2] = q /\ z[n + 3] = r
  <2>1. n + 1 \in 1..n + 3 /\ n + 2 \in 1..n + 3 /\ n + 3 \in 1..n + 3
        /\ \A i \in 1..n : i \in 1..n + 3
    OBVIOUS
  <2> QED
    BY <1>2, <1>3, <1>4, <2>1, Zenon
<1> QED
  BY <1>4, <1>5, Zenon DEF m, w, z, FramedBy

(* z is p followed by x.                                                    *)
HeadedBy(z, S, p, x) ==
  /\ z \in Seq(S) /\ Len(z) = 1 + Len(x) /\ z[1] = p
  /\ \A i \in 1..Len(x) : z[1 + i] = x[i]

LEMMA Headed ==
  ASSUME NEW S, NEW x \in Seq(S), NEW p \in S
  PROVE  HeadedBy(<<p>> \o x, S, p, x)
<1> DEFINE m == <<p>>
<1>1. m \in Seq(S) /\ Len(m) = 1 /\ m[1] = p
  OBVIOUS
<1> HIDE DEF m
<1>2. JoinOf(m \o x, S, m, x)
  BY <1>1, Joined, Zenon
<1>3. HeadedBy(m \o x, S, p, x)
  BY <1>1, <1>2 DEF HeadedBy, JoinOf
<1> QED
  BY <1>3, Zenon DEF m

(* The tokens of a SPIFFE identity: the trust domain, /ns/, the namespace,  *)
(* /sa/ and the account.                                                    *)
IdentityParts(t, td, ns, sa, a, b) ==
  /\ t \in Seq(Token) /\ Len(t) = b + 3 + Len(sa)
  /\ t[1] = "spiffe://" /\ \A i \in 1..Len(td) : t[1 + i] = td[i]
  /\ t[a + 1] = "/" /\ t[a + 2] = "ns" /\ t[a + 3] = "/"
  /\ \A i \in 1..Len(ns) : t[a + 3 + i] = ns[i]
  /\ t[b + 1] = "/" /\ t[b + 2] = "sa" /\ t[b + 3] = "/"
  /\ \A i \in 1..Len(sa) : t[b + 3 + i] = sa[i]

LEMMA IdentityTokens ==
  ASSUME NEW td \in Seq(Token), NEW ns \in Seq(Token), NEW sa \in Seq(Token),
         NEW a \in Nat, a = 1 + Len(td), NEW b \in Nat, b = a + 3 + Len(ns)
  PROVE  IdentityParts(<<"spiffe://">> \o (td \o <<"/", "ns", "/">> \o ns \o <<"/", "sa", "/">> \o sa),
                       td, ns, sa, a, b)
<1> DEFINE c == a - 1
           d == b - 1
           x == td \o <<"/", "ns", "/">> \o ns
           y == x \o <<"/", "sa", "/">> \o sa
           t == <<"spiffe://">> \o y
<1>1. c \in Nat /\ c = Len(td) /\ d = c + 3 + Len(ns) /\ d \in Nat
  OBVIOUS
<1>2. /\ x \in Seq(Token) /\ Len(x) = c + 3 + Len(ns)
      /\ \A i \in 1..c : x[i] = td[i]
      /\ x[c + 1] = "/" /\ x[c + 2] = "ns" /\ x[c + 3] = "/"
      /\ \A i \in 1..Len(ns) : x[c + 3 + i] = ns[i]
  <2>1. "/" \in Token /\ "ns" \in Token
    BY Zenon DEF Token
  <2>2. FramedBy(x, Token, td, "/", "ns", "/", ns, c)
    BY <1>1, <2>1, Framed, Zenon
  <2> QED
    BY <2>2, Zenon DEF FramedBy
<1> HIDE DEF x
<1>3. /\ y \in Seq(Token) /\ Len(y) = d + 3 + Len(sa)
      /\ \A i \in 1..d : y[i] = x[i]
      /\ y[d + 1] = "/" /\ y[d + 2] = "sa" /\ y[d + 3] = "/"
      /\ \A i \in 1..Len(sa) : y[d + 3 + i] = sa[i]
  <2>1. "/" \in Token /\ "sa" \in Token
    BY Zenon DEF Token
  <2>3. d = Len(x)
    BY <1>1, <1>2
  <2>2. FramedBy(y, Token, x, "/", "sa", "/", sa, d)
    BY <1>1, <1>2, <2>1, <2>3, Framed, Zenon
  <2> QED
    BY <2>2, Zenon DEF FramedBy
<1> HIDE DEF y
<1>4. t \in Seq(Token) /\ Len(t) = 1 + Len(y) /\ t[1] = "spiffe://"
      /\ \A i \in 1..Len(y) : t[1 + i] = y[i]
  <2>1. "spiffe://" \in Token
    BY Zenon DEF Token
  <2>2. HeadedBy(t, Token, "spiffe://", y)
    BY <1>3, <2>1, Headed, Zenon
  <2> QED
    BY <2>2, Zenon DEF HeadedBy
<1> HIDE DEF t, c, d
<1>5. \A i \in 1..d : i \in 1..Len(y) /\ t[1 + i] = x[i]
  BY <1>1, <1>3, <1>4
<1>6. \A i \in 1..Len(td) : t[1 + i] = td[i]
  BY <1>1, <1>2, <1>5
<1>7. t[a + 1] = "/" /\ t[a + 2] = "ns" /\ t[a + 3] = "/"
  <2>1. a + 1 = 1 + (c + 1) /\ a + 2 = 1 + (c + 2) /\ a + 3 = 1 + (c + 3)
        /\ c + 1 \in 1..d /\ c + 2 \in 1..d /\ c + 3 \in 1..d
    BY <1>1 DEF c
  <2> QED
    BY <1>2, <1>5, <2>1, Zenon
<1>8. ASSUME NEW i \in 1..Len(ns) PROVE t[a + 3 + i] = ns[i]
  <2>1. a + 3 + i = 1 + (c + 3 + i) /\ c + 3 + i \in 1..d
    BY <1>1 DEF c
  <2> QED
    BY <1>2, <1>5, <2>1, Zenon
<1>9. t[b + 1] = "/" /\ t[b + 2] = "sa" /\ t[b + 3] = "/"
  <2>1. b + 1 = 1 + (d + 1) /\ b + 2 = 1 + (d + 2) /\ b + 3 = 1 + (d + 3)
        /\ d + 1 \in 1..Len(y) /\ d + 2 \in 1..Len(y) /\ d + 3 \in 1..Len(y)
    BY <1>1, <1>3 DEF d
  <2> QED
    BY <1>3, <1>4, <2>1, Zenon
<1>10. ASSUME NEW i \in 1..Len(sa) PROVE t[b + 3 + i] = sa[i]
  <2>1. b + 3 + i = 1 + (d + 3 + i) /\ d + 3 + i \in 1..Len(y)
    BY <1>1, <1>3 DEF d
  <2> QED
    BY <1>3, <1>4, <2>1, Zenon
<1>11. Len(t) = b + 3 + Len(sa)
  BY <1>1, <1>3, <1>4 DEF d
<1> QED
  BY <1>4, <1>6, <1>7, <1>8, <1>9, <1>10, <1>11, Zenon DEF IdentityParts, t, y, x

-----------------------------------------------------------------------------
(* The shapes of a value: a star and a word, a word and a star, a word.     *)
StarFirst(v) == Len(v) > 1 /\ v[1] = "*" /\ \A i \in 2..Len(v) : v[i] # "*"
StarLast(v)  == Len(v) > 1 /\ v[Len(v)] = "*" /\ \A i \in 1..Len(v) - 1 : v[i] # "*"
Word(v)      == Len(v) > 0 /\ \A i \in 1..Len(v) : v[i] # "*"
Shaped(v)    == v \in Seq(Token) /\ (v = Star \/ StarFirst(v) \/ StarLast(v) \/ Word(v))

LEMMA SeqOfMore ==
  ASSUME NEW S, NEW T, \A t \in S : t \in T, NEW v \in Seq(S)
  PROVE  v \in Seq(T)
  OBVIOUS

LEMMA TextTokens ==
  ASSUME NEW v, IsText(v)
  PROVE  v \in Seq(Token) /\ v # <<>> /\ Len(v) \in Nat /\ Len(v) > 0
<1>1. v \in Seq(STRING) /\ v # <<>>
  BY Zenon DEF IsText
<1>2. \A t \in STRING : t \in Token
  BY Zenon DEF Token
<1>3. v \in Seq(Token)
  BY <1>1, <1>2, SeqOfMore, Zenon
<1> QED
  BY <1>1, <1>3

LEMMA ValueShape ==
  ASSUME NEW v, IsValue(v)
  PROVE  Shaped(v)
<1>1. v \in Seq(Token) /\ v # <<>> /\ Len(v) \in Nat /\ Len(v) > 0
  BY TextTokens, Zenon DEF IsValue
<1>2. CASE Len(v) = 1 /\ v[1] = "*"
  <2>1. v = Star
    BY <1>1, <1>2 DEF Star
  <2> QED
    BY <1>1, <2>1 DEF Shaped
<1>3. CASE Len(v) = 1 /\ v[1] # "*"
  <2>1. Word(v)
    BY <1>1, <1>3 DEF Word
  <2> QED
    BY <1>1, <2>1 DEF Shaped
<1>4. CASE Len(v) > 1 /\ \A i \in 2..Len(v) : v[i] # "*"
  <2>1. StarFirst(v) \/ Word(v)
    BY <1>1, <1>4 DEF StarFirst, Word
  <2> QED
    BY <1>1, <2>1 DEF Shaped
<1>5. CASE Len(v) > 1 /\ \A i \in 1..Len(v) - 1 : v[i] # "*"
  <2>1. StarLast(v) \/ Word(v)
    BY <1>1, <1>5 DEF StarLast, Word
  <2> QED
    BY <1>1, <2>1 DEF Shaped
<1>6. (\A i \in 2..Len(v) : v[i] # "*") \/ \A i \in 1..Len(v) - 1 : v[i] # "*"
  BY Zenon DEF IsValue
<1>7. Len(v) = 1 \/ Len(v) > 1
  <2>1. \A n \in Nat : n > 0 => n = 1 \/ n > 1
    OBVIOUS
  <2> QED
    BY <1>1, <2>1, Zenon
<1> QED
  BY <1>2, <1>3, <1>4, <1>5, <1>6, <1>7, Zenon

(* What a value of each shape says, and in which reading.                   *)
LEMMA Meant ==
  ASSUME NEW v \in Seq(Token), NEW text \in Seq(Token), NEW u
  PROVE  /\ v = Star => Glob(v, text, u)
         /\ StarFirst(v) => (Glob(v, text, u) <=>
              /\ Len(v) - 1 <= Len(text)
              /\ \A i \in 2..Len(v) : Fits(text[Len(text) - Len(v) + i], v[i], u))
         /\ StarLast(v) => (Glob(v, text, FALSE) <=>
              Len(v) - 1 <= Len(text) /\ \A i \in 1..Len(v) - 1 : text[i] = v[i])
         /\ Word(v) => (Glob(v, text, FALSE) <=> text = v)
<1>1. ASSUME v = Star PROVE Glob(v, text, u)
  <2>1. Len(v) = 1 /\ 1 \in 1..Len(v) /\ v[1] = "*" /\ \A i \in 1..Len(v) : i # 1 => v[i] # "*"
    BY <1>1 DEF Star
  <2>2. Glob(v, text, u) <=>
           /\ Len(v) - 1 <= Len(text)
           /\ \A i \in 1..1 - 1 : Fits(text[i], v[i], u)
           /\ \A i \in 1 + 1..Len(v) : Fits(text[Len(text) - Len(v) + i], v[i], u)
    BY <2>1, GlobStar, Zenon
  <2> QED
    BY <2>1, <2>2
<1>2. ASSUME StarFirst(v)
      PROVE  Glob(v, text, u) <=>
               /\ Len(v) - 1 <= Len(text)
               /\ \A i \in 2..Len(v) : Fits(text[Len(text) - Len(v) + i], v[i], u)
  <2>1. 1 \in 1..Len(v) /\ v[1] = "*" /\ \A i \in 1..Len(v) : i # 1 => v[i] # "*"
    BY <1>2 DEF StarFirst
  <2>2. Glob(v, text, u) <=>
           /\ Len(v) - 1 <= Len(text)
           /\ \A i \in 1..1 - 1 : Fits(text[i], v[i], u)
           /\ \A i \in 1 + 1..Len(v) : Fits(text[Len(text) - Len(v) + i], v[i], u)
    BY <2>1, GlobStar, Zenon
  <2> QED
    BY <2>2
<1>3. ASSUME StarLast(v)
      PROVE  Glob(v, text, FALSE) <=>
               Len(v) - 1 <= Len(text) /\ \A i \in 1..Len(v) - 1 : text[i] = v[i]
  <2>1. /\ Len(v) \in 1..Len(v) /\ v[Len(v)] = "*"
        /\ \A i \in 1..Len(v) : i # Len(v) => v[i] # "*"
    BY <1>3 DEF StarLast
  <2>2. Glob(v, text, FALSE) <=>
           /\ Len(v) - 1 <= Len(text)
           /\ \A i \in 1..Len(v) - 1 : Fits(text[i], v[i], FALSE)
           /\ \A i \in Len(v) + 1..Len(v) : Fits(text[Len(text) - Len(v) + i], v[i], FALSE)
    BY <2>1, GlobStar, Zenon
  <2>3. \A i \in Len(v) + 1..Len(v) : Fits(text[Len(text) - Len(v) + i], v[i], FALSE)
    OBVIOUS
  <2> QED
    BY <2>2, <2>3, Quoted, Zenon
<1>4. ASSUME Word(v) PROVE Glob(v, text, FALSE) <=> text = v
  BY <1>4, GlobWord, Zenon DEF Word
<1> QED
  BY <1>1, <1>2, <1>3, <1>4, Zenon

(* The dots of a value are read as any character where the value begins     *)
(* with a star and its text is not quoted.                                  *)
LEMMA Reading ==
  ASSUME NEW v, NEW text, text # <<>>
  PROVE  /\ Means(v, text, FALSE) <=> Glob(v, text, FALSE)
         /\ BeginsWithStar(v) => (Means(v, text, TRUE) <=> Glob(v, text, TRUE))
         /\ ~ BeginsWithStar(v) => (Means(v, text, TRUE) <=> Glob(v, text, FALSE))
<1>1. (FALSE /\ BeginsWithStar(v)) = FALSE
  OBVIOUS
<1>2. BeginsWithStar(v) => (TRUE /\ BeginsWithStar(v)) = TRUE
  OBVIOUS
<1>3. ~ BeginsWithStar(v) => (TRUE /\ BeginsWithStar(v)) = FALSE
  OBVIOUS
<1> QED
  BY <1>1, <1>2, <1>3, Zenon DEF Means

LEMMA Beginning ==
  ASSUME NEW v \in Seq(Token)
  PROVE  /\ v = Star \/ StarFirst(v) => BeginsWithStar(v)
         /\ StarLast(v) \/ Word(v) => ~ BeginsWithStar(v)
<1>1. v = Star => BeginsWithStar(v)
  BY DEF Star, BeginsWithStar
<1>2. StarFirst(v) => BeginsWithStar(v)
  BY DEF StarFirst, BeginsWithStar
<1>3. StarLast(v) => ~ BeginsWithStar(v)
  BY DEF StarLast, BeginsWithStar
<1>4. Word(v) => ~ BeginsWithStar(v)
  BY DEF Word, BeginsWithStar
<1> QED
  BY <1>1, <1>2, <1>3, <1>4, Zenon

(* Without dots the readings are the same.                                  *)
LEMMA ReadAlike ==
  ASSUME NEW v, Shaped(v), BeginsWithStar(v) => "." \notin Range(v), NEW text \in Seq(Token)
  PROVE  Means(v, text, TRUE) <=> Means(v, text, FALSE)
<1>1. v \in Seq(Token)
  BY Zenon DEF Shaped
<1>2. CASE text = <<>>
  BY <1>2, Zenon DEF Means
<1>3. CASE text # <<>> /\ v = Star
  BY <1>1, <1>3, Reading, Beginning, Meant, Zenon
<1>4. CASE text # <<>> /\ StarFirst(v)
  <2> DEFINE n == Len(v)
             L == Len(text)
  <2>1. "." \notin Range(v)
    BY <1>1, <1>4, Beginning, Zenon
  <2>2. \A i \in 2..n : i \in DOMAIN v
    BY <1>1
  <2>3. \A i \in 2..n : v[i] # "."
    BY <2>1, <2>2, Zenon DEF Range
  <2>4. \A i \in 2..n : Fits(text[L - n + i], v[i], TRUE) <=> Fits(text[L - n + i], v[i], FALSE)
    BY <2>3, Quoted, Zenon
  <2>5. Glob(v, text, TRUE) <=> n - 1 <= L /\ \A i \in 2..n : Fits(text[L - n + i], v[i], TRUE)
    BY <1>1, <1>4, Meant, Zenon
  <2>6. Glob(v, text, FALSE) <=> n - 1 <= L /\ \A i \in 2..n : Fits(text[L - n + i], v[i], FALSE)
    BY <1>1, <1>4, Meant, Zenon
  <2>7. Glob(v, text, TRUE) <=> Glob(v, text, FALSE)
    BY <2>4, <2>5, <2>6, Zenon
  <2> QED
    BY <1>1, <1>4, <2>7, Reading, Beginning, Zenon
<1>5. CASE text # <<>> /\ (StarLast(v) \/ Word(v))
  BY <1>1, <1>5, Reading, Beginning, Zenon
<1> QED
  BY <1>2, <1>3, <1>4, <1>5, Zenon DEF Shaped

(* The matcher made of a value of each shape.                               *)
Front(v) == SubSeq(v, 1, Len(v) - 1)

LEMMA MatcherShape ==
  ASSUME NEW v \in Seq(Token), NEW prefix
  PROVE  LET m == StringMatcherWithPrefix(v, prefix)
         IN  /\ v = Star => m = StringMatcherRegex(<<".+">>)
             /\ StarFirst(v) => m = IF prefix = <<>> THEN [type |-> "suffix", text |-> Tail(v)]
                                    ELSE StringMatcherRegex(prefix \o Star \o Tail(v))
             /\ StarLast(v) => m = [type |-> "prefix", text |-> prefix \o Front(v)]
             /\ Word(v) => m = [type |-> "exact", text |-> prefix \o v]
<1>1. Len(Star) = 1 /\ Star[1] = "*" /\ Star # <<>>
  BY DEF Star
<1>2. v # <<>> <=> Len(v) > 0
  OBVIOUS
<1>3. Front(v) = SubSeq(v, 1, Len(v) - 1)
  BY Zenon DEF Front
<1>4. StarFirst(v) => v # Star /\ BeginsWithStar(v)
  BY <1>1, <1>2 DEF StarFirst, BeginsWithStar
<1>5. StarLast(v) => v # Star /\ ~ BeginsWithStar(v) /\ EndsWithStar(v)
  BY <1>1, <1>2 DEF StarLast, BeginsWithStar, EndsWithStar
<1>6. Word(v) => v # Star /\ ~ BeginsWithStar(v) /\ ~ EndsWithStar(v)
  BY <1>1, <1>2 DEF Word, BeginsWithStar, EndsWithStar
<1>7. v = Star => BeginsWithStar(v)
  BY <1>1 DEF BeginsWithStar
<1> DEFINE first == BeginsWithStar(v)
           last == EndsWithStar(v)
<1>8. StringMatcherWithPrefix(v, prefix) =
        CASE v = Star -> StringMatcherRegex(<<".+">>)
          [] v # Star /\ first -> IF prefix = <<>> THEN [type |-> "suffix", text |-> Tail(v)]
                                 ELSE StringMatcherRegex(prefix \o Star \o Tail(v))
          [] ~ first /\ last -> [type |-> "prefix", text |-> prefix \o Front(v)]
          [] OTHER -> [type |-> "exact", text |-> prefix \o v]
  BY <1>3, Zenon DEF StringMatcherWithPrefix
<1> HIDE DEF first, last
<1>9. v = Star => StringMatcherWithPrefix(v, prefix) = StringMatcherRegex(<<".+">>)
  BY <1>7, <1>8, Zenon DEF first
<1>10. StarFirst(v) => StringMatcherWithPrefix(v, prefix) =
                         IF prefix = <<>> THEN [type |-> "suffix", text |-> Tail(v)]
                         ELSE StringMatcherRegex(prefix \o Star \o Tail(v))
  BY <1>4, <1>8, Zenon DEF first
<1>11. StarLast(v) => StringMatcherWithPrefix(v, prefix) = [type |-> "prefix", text |-> prefix \o Front(v)]
  BY <1>5, <1>8, Zenon DEF first, last
<1>12. Word(v) => StringMatcherWithPrefix(v, prefix) = [type |-> "exact", text |-> prefix \o v]
  BY <1>6, <1>8, Zenon DEF first, last
<1> QED
  BY <1>9, <1>10, <1>11, <1>12, Zenon

(* What a matcher of each type matches.                                     *)
LEMMA MatchExact ==
  ASSUME NEW x, NEW text, NEW m, m = [type |-> "exact", text |-> x]
  PROVE  StringMatches(m, text) <=> text = x
<1>1. m.type = "exact" /\ m.text = x
  OBVIOUS
<1> QED
  BY <1>1, Zenon DEF StringMatches

LEMMA MatchPrefix ==
  ASSUME NEW x, NEW text, NEW m, m = [type |-> "prefix", text |-> x]
  PROVE  StringMatches(m, text) <=> HasPrefix(text, x)
<1>1. m.type = "prefix" /\ m.text = x
  OBVIOUS
<1> QED
  BY <1>1, Zenon DEF StringMatches

LEMMA MatchSuffix ==
  ASSUME NEW x, NEW text, NEW m, m = [type |-> "suffix", text |-> x]
  PROVE  StringMatches(m, text) <=> HasSuffix(text, x)
<1>1. m.type = "suffix" /\ m.text = x
  OBVIOUS
<1> QED
  BY <1>1, Zenon DEF StringMatches

LEMMA MatchRegex ==
  ASSUME NEW x, NEW text, NEW m, m = StringMatcherRegex(x)
  PROVE  StringMatches(m, text) <=> IF x = <<".+">> THEN text # <<>> ELSE Glob(x, text, TRUE)
<1>1. m.type = "regex" /\ m.text = x
  BY DEF StringMatcherRegex
<1> QED
  BY <1>1, Zenon DEF StringMatches

(* The first and the last token of a value, and the others.                 *)
LEMMA Others ==
  ASSUME NEW S, NEW v \in Seq(S), Len(v) > 1
  PROVE  /\ Tail(v) \in Seq(S) /\ Len(Tail(v)) = Len(v) - 1
         /\ \A i \in 1..Len(v) - 1 : Tail(v)[i] = v[i + 1]
         /\ Front(v) \in Seq(S) /\ Len(Front(v)) = Len(v) - 1
         /\ \A i \in 1..Len(v) - 1 : Front(v)[i] = v[i]
<1>1. Tail(v) \in Seq(S) /\ Len(Tail(v)) = Len(v) - 1
      /\ \A i \in 1..Len(v) - 1 : Tail(v)[i] = v[i + 1]
  OBVIOUS
<1>2. Front(v) \in Seq(S) /\ Len(Front(v)) = Len(v) - 1
      /\ \A i \in 1..Len(v) - 1 : Front(v)[i] = v[i]
  BY DEF Front
<1> QED
  BY <1>1, <1>2

(* The matcher of an interface or a method matches what its value says.     *)
LEMMA PlainMatched ==
  ASSUME NEW v, Shaped(v), NEW text \in Seq(Token), text # <<>>
  PROVE  StringMatches(StringMatcherWithPrefix(v, <<>>), text) <=> Means(v, text, FALSE)
<1> DEFINE m == StringMatcherWithPrefix(v, <<>>)
<1>1. v \in Seq(Token)
  BY Zenon DEF Shaped
<1>2. Means(v, text, FALSE) <=> Glob(v, text, FALSE)
  BY Reading, Zenon
<1>3. CASE v = Star
  <2>1. m = StringMatcherRegex(<<".+">>)
    BY <1>1, <1>3, MatcherShape, Zenon
  <2>2. StringMatches(m, text)
    BY <2>1, MatchRegex, Zenon
  <2> QED
    BY <1>1, <1>2, <1>3, <2>2, Meant, Zenon
<1>4. CASE StarFirst(v)
  <2>1. m = [type |-> "suffix", text |-> Tail(v)]
    BY <1>1, <1>4, MatcherShape, Zenon
  <2>2. /\ Tail(v) \in Seq(Token) /\ Len(Tail(v)) = Len(v) - 1
        /\ \A i \in 1..Len(v) - 1 : Tail(v)[i] = v[i + 1]
    BY <1>1, <1>4, Others, Zenon DEF StarFirst
  <2>3. HasSuffix(text, Tail(v)) <=>
          /\ Len(Tail(v)) <= Len(text)
          /\ \A i \in 1..Len(Tail(v)) : text[Len(text) - Len(Tail(v)) + i] = Tail(v)[i]
    BY <2>2, Suffixed, Zenon
  <2>4. Glob(v, text, FALSE) <=>
          /\ Len(v) - 1 <= Len(text)
          /\ \A i \in 2..Len(v) : text[Len(text) - Len(v) + i] = v[i]
    <3>1. Glob(v, text, FALSE) <=>
            /\ Len(v) - 1 <= Len(text)
            /\ \A i \in 2..Len(v) : Fits(text[Len(text) - Len(v) + i], v[i], FALSE)
      BY <1>1, <1>4, Meant, Zenon
    <3> QED
      BY <3>1, Quoted, Zenon
  <2> DEFINE n == Len(v)
             L == Len(text)
             g == Tail(v)
  <2>5. n \in Nat /\ L \in Nat /\ n > 1 /\ \A i \in 1..n - 1 : g[i] = v[i + 1]
    BY <1>1, <1>4, <2>2 DEF StarFirst
  <2> HIDE DEF n, L, g
  <2>6. (\A i \in 1..n - 1 : text[L - (n - 1) + i] = g[i]) <=> \A i \in 2..n : text[L - n + i] = v[i]
    <3>1. ASSUME \A i \in 1..n - 1 : text[L - (n - 1) + i] = g[i], NEW i \in 2..n
          PROVE  text[L - n + i] = v[i]
      <4>1. i - 1 \in 1..n - 1 /\ L - (n - 1) + (i - 1) = L - n + i /\ (i - 1) + 1 = i
        BY <2>5
      <4> QED
        BY <2>5, <3>1, <4>1, Zenon
    <3>2. ASSUME \A i \in 2..n : text[L - n + i] = v[i], NEW i \in 1..n - 1
          PROVE  text[L - (n - 1) + i] = g[i]
      <4>1. i + 1 \in 2..n /\ L - (n - 1) + i = L - n + (i + 1)
        BY <2>5
      <4> QED
        BY <2>5, <3>2, <4>1, Zenon
    <3> QED
      BY <3>1, <3>2, Zenon
  <2>7. StringMatches(m, text) <=> HasSuffix(text, Tail(v))
    BY <2>1, MatchSuffix, Zenon
  <2> QED
    BY <1>2, <2>2, <2>3, <2>4, <2>6, <2>7, Zenon DEF n, L, g
<1>5. CASE StarLast(v)
  <2>1. m = [type |-> "prefix", text |-> <<>> \o Front(v)]
    BY <1>1, <1>5, MatcherShape, Zenon
  <2>2. /\ Front(v) \in Seq(Token) /\ Len(Front(v)) = Len(v) - 1
        /\ \A i \in 1..Len(v) - 1 : Front(v)[i] = v[i]
    BY <1>1, <1>5, Others, Zenon DEF StarLast
  <2>3. <<>> \o Front(v) = Front(v)
    BY <2>2
  <2>4. HasPrefix(text, Front(v)) <=>
          Len(Front(v)) <= Len(text) /\ \A i \in 1..Len(Front(v)) : text[i] = Front(v)[i]
    BY <2>2, Prefixed, Zenon
  <2>5. Glob(v, text, FALSE) <=> Len(v) - 1 <= Len(text) /\ \A i \in 1..Len(v) - 1 : text[i] = v[i]
    BY <1>1, <1>5, Meant, Zenon
  <2>6. StringMatches(m, text) <=> HasPrefix(text, Front(v))
    BY <2>1, <2>3, MatchPrefix, Zenon
  <2> QED
    BY <1>2, <2>2, <2>4, <2>5, <2>6, Zenon
<1>6. CASE Word(v)
  <2>1. m = [type |-> "exact", text |-> <<>> \o v]
    BY <1>1, <1>6, MatcherShape, Zenon
  <2>2. <<>> \o v = v
    BY <1>1
  <2>3. StringMatches(m, text) <=> text = v
    BY <2>1, <2>2, MatchExact, Zenon
  <2> QED
    BY <1>1, <1>2, <1>6, <2>3, Meant, Zenon
<1> QED
  BY <1>3, <1>4, <1>5, <1>6, Zenon DEF Shaped

(* The matcher of a principal matches the identities its value says.        *)
LEMMA IdentityMatched ==
  ASSUME NEW v, Shaped(v), NEW P \in Seq(Token), P # <<>>
  PROVE  StringMatches(StringMatcherWithPrefix(v, SpiffePrefix), SpiffePrefix \o P) <=> Means(v, P, TRUE)
<1> DEFINE m == StringMatcherWithPrefix(v, SpiffePrefix)
           T == SpiffePrefix \o P
           n == Len(v)
           L == Len(P)
           first == "spiffe://"
<1>1. v \in Seq(Token) /\ first \in Token /\ "*" \in Token
  BY Zenon DEF Shaped, Token
<1>2. /\ v = Star \/ StarFirst(v) => (Means(v, P, TRUE) <=> Glob(v, P, TRUE))
      /\ StarLast(v) \/ Word(v) => (Means(v, P, TRUE) <=> Glob(v, P, FALSE))
  BY <1>1, Reading, Beginning, Zenon
<1>3. HeadedBy(T, Token, first, P)
  BY <1>1, Headed, Zenon DEF SpiffePrefix
<1>4. /\ T \in Seq(Token) /\ Len(T) = 1 + L /\ T[1] = first
      /\ \A i \in 1..L : T[1 + i] = P[i]
  BY <1>3, Zenon DEF HeadedBy
<1>5. n \in Nat /\ L \in Nat /\ T # <<>> /\ SpiffePrefix # <<>>
  BY <1>1, <1>4 DEF SpiffePrefix
<1> HIDE DEF T, m, first
<1>6. CASE v = Star
  <2>1. m = StringMatcherRegex(<<".+">>)
    BY <1>1, <1>6, MatcherShape, Zenon DEF m
  <2>2. StringMatches(m, T)
    BY <1>5, <2>1, MatchRegex, Zenon
  <2> QED
    BY <1>1, <1>2, <1>6, <2>2, Meant, Zenon DEF m, T
<1>7. CASE StarFirst(v)
  <2> DEFINE q == SpiffePrefix \o Star \o Tail(v)
  <2>1. m = StringMatcherRegex(q)
    BY <1>1, <1>5, <1>7, MatcherShape, Zenon DEF m
  <2>2. /\ Tail(v) \in Seq(Token) /\ Len(Tail(v)) = n - 1 /\ n > 1 /\ v[1] = "*"
        /\ \A i \in 1..n - 1 : Tail(v)[i] = v[i + 1]
    BY <1>1, <1>7, Others, Zenon DEF StarFirst
  <2> DEFINE h == SpiffePrefix \o Star
  <2>3. h \in Seq(Token) /\ Len(h) = 2 /\ h[1] = first /\ h[2] = "*"
    <3>1. Star \in Seq(Token) /\ Len(Star) = 1 /\ Star[1] = "*"
      BY <1>1 DEF Star
    <3>2. HeadedBy(h, Token, first, Star)
      BY <1>1, <3>1, Headed, Zenon DEF SpiffePrefix, first
    <3> HIDE DEF h
    <3> QED
      BY <3>1, <3>2 DEF HeadedBy
  <2> HIDE DEF h
  <2>4. JoinOf(q, Token, h, Tail(v))
    BY <2>2, <2>3, Joined, Zenon DEF h
  <2> HIDE DEF q
  <2>5. /\ q \in Seq(Token) /\ Len(q) = n + 1
        /\ (\A i \in 1..2 : q[i] = h[i]) /\ \A i \in 1..n - 1 : q[2 + i] = Tail(v)[i]
    BY <1>5, <2>2, <2>3, <2>4 DEF JoinOf
  <2>6. ASSUME NEW i \in 3..n + 1 PROVE q[i] = v[i - 1] /\ q[i] # "*"
    <3>1. i - 2 \in 1..n - 1 /\ 2 + (i - 2) = i /\ (i - 2) + 1 = i - 1 /\ i - 1 \in 2..n
      BY <1>5
    <3>2. q[2 + (i - 2)] = Tail(v)[i - 2] /\ Tail(v)[i - 2] = v[(i - 2) + 1]
      BY <2>2, <2>5, <3>1, Zenon
    <3>3. v[i - 1] # "*"
      BY <1>7, <3>1, Zenon DEF StarFirst
    <3> QED
      BY <3>1, <3>2, <3>3, Zenon
  <2>7. q[1] = first /\ q[2] = "*"
    BY <2>3, <2>5
  <2>8. 2 \in 1..Len(q) /\ \A i \in 1..Len(q) : i # 2 => q[i] # "*"
    <3>1. \A i \in 1..Len(q) : i = 1 \/ i = 2 \/ i \in 3..n + 1
      BY <1>5, <2>5
    <3>2. first # "*"
      BY DEF first
    <3>3. 2 \in 1..Len(q)
      BY <1>5, <2>2, <2>5
    <3> QED
      BY <2>6, <2>7, <3>1, <3>2, <3>3, Zenon
  <2>9. Glob(q, T, TRUE) <=> /\ Len(q) - 1 <= Len(T)
                             /\ \A i \in 1..2 - 1 : Fits(T[i], q[i], TRUE)
                             /\ \A i \in 2 + 1..Len(q) : Fits(T[Len(T) - Len(q) + i], q[i], TRUE)
    BY <1>4, <2>5, <2>7, <2>8, GlobStar, Zenon
  <2>10. Glob(q, T, TRUE) <=> n - 1 <= L /\ \A i \in 3..n + 1 : Fits(T[L - n + i], q[i], TRUE)
    <3>1. Len(q) - 1 <= Len(T) <=> n - 1 <= L
      BY <1>4, <1>5, <2>5
    <3>2. \A i \in 1..2 - 1 : Fits(T[i], q[i], TRUE)
      <4>1. \A i \in 1..2 - 1 : T[i] = q[i]
        BY <1>4, <2>7
      <4> QED
        BY <4>1, Zenon DEF Fits
    <3>3. 2 + 1..Len(q) = 3..n + 1 /\ \A i \in 3..n + 1 : Len(T) - Len(q) + i = L - n + i
      BY <1>4, <1>5, <2>5
    <3> QED
      BY <2>9, <3>1, <3>2, <3>3, Zenon
  <2>11. Glob(v, P, TRUE) <=> n - 1 <= L /\ \A i \in 2..n : Fits(P[L - n + i], v[i], TRUE)
    BY <1>1, <1>7, Meant, Zenon
  <2>12. ASSUME n - 1 <= L, NEW i \in 2..n
         PROVE  i + 1 \in 3..n + 1 /\ T[L - n + (i + 1)] = P[L - n + i] /\ q[i + 1] = v[i]
    <3>1. i + 1 \in 3..n + 1 /\ (i + 1) - 1 = i /\ L - n + i \in 1..L /\ 1 + (L - n + i) = L - n + (i + 1)
      BY <1>5, <2>12
    <3> QED
      BY <1>4, <2>6, <3>1, Zenon
  <2>13. ASSUME NEW i \in 3..n + 1 PROVE i - 1 \in 2..n /\ (i - 1) + 1 = i
    BY <1>5
  <2>14. Glob(q, T, TRUE) <=> Glob(v, P, TRUE)
    <3>1. ASSUME n - 1 <= L, \A i \in 3..n + 1 : Fits(T[L - n + i], q[i], TRUE), NEW i \in 2..n
          PROVE  Fits(P[L - n + i], v[i], TRUE)
      <4>1. Fits(T[L - n + (i + 1)], q[i + 1], TRUE)
        BY <2>12, <3>1, Zenon
      <4> QED
        BY <2>12, <3>1, <4>1, Zenon
    <3>2. ASSUME n - 1 <= L, \A i \in 2..n : Fits(P[L - n + i], v[i], TRUE), NEW i \in 3..n + 1
          PROVE  Fits(T[L - n + i], q[i], TRUE)
      <4>1. Fits(P[L - n + (i - 1)], v[i - 1], TRUE)
        BY <2>13, <3>2, Zenon
      <4>2. Fits(T[L - n + ((i - 1) + 1)], q[(i - 1) + 1], TRUE)
        BY <2>12, <2>13, <3>2, <4>1, Zenon
      <4> QED
        BY <2>13, <4>2, Zenon
    <3> QED
      BY <2>10, <2>11, <3>1, <3>2, Zenon
  <2>15. q # <<".+">>
    <3>1. Len(q) > 1 /\ Len(q) # 1
      BY <1>5, <2>2, <2>5
    <3>2. Len(<<".+">>) = 1
      OBVIOUS
    <3> QED
      BY <3>1, <3>2, Zenon
  <2>16. StringMatches(m, T) <=> Glob(q, T, TRUE)
    BY <2>1, <2>15, MatchRegex, Zenon
  <2> QED
    BY <1>2, <1>7, <2>14, <2>16, Zenon DEF m, T
<1>8. CASE StarLast(v)
  <2> DEFINE w == Front(v)
             z == SpiffePrefix \o w
  <2>1. m = [type |-> "prefix", text |-> z]
    BY <1>1, <1>8, MatcherShape, Zenon DEF m
  <2>2. w \in Seq(Token) /\ Len(w) = n - 1 /\ (\A i \in 1..n - 1 : w[i] = v[i]) /\ n > 1
    BY <1>1, <1>8, Others, Zenon DEF StarLast
  <2> HIDE DEF w
  <2>3. HeadedBy(z, Token, first, w)
    BY <1>1, <2>2, Headed, Zenon DEF SpiffePrefix, first
  <2>4. /\ z \in Seq(Token) /\ Len(z) = n /\ z[1] = first
        /\ \A i \in 1..n - 1 : z[1 + i] = v[i]
    BY <1>5, <2>2, <2>3 DEF HeadedBy
  <2> HIDE DEF z
  <2>5. HasPrefix(T, z) <=> Len(z) <= Len(T) /\ \A i \in 1..Len(z) : T[i] = z[i]
    BY <1>4, <2>4, Prefixed, Zenon
  <2>6. Glob(v, P, FALSE) <=> n - 1 <= L /\ \A i \in 1..n - 1 : P[i] = v[i]
    BY <1>1, <1>8, Meant, Zenon
  <2>7. ASSUME n - 1 <= L, NEW i \in 1..n - 1
        PROVE  1 + i \in 1..n /\ T[1 + i] = P[i] /\ z[1 + i] = v[i]
    <3>1. 1 + i \in 1..n /\ i \in 1..L
      BY <1>5, <2>7
    <3> QED
      BY <1>4, <2>4, <3>1, Zenon
  <2>8. ASSUME NEW i \in 1..n PROVE i = 1 \/ (i - 1 \in 1..n - 1 /\ 1 + (i - 1) = i)
    BY <1>5
  <2>9. (Len(z) <= Len(T) <=> n - 1 <= L) /\ Len(z) = n
    BY <1>4, <1>5, <2>4
  <2>10. HasPrefix(T, z) <=> Glob(v, P, FALSE)
    <3>1. ASSUME n - 1 <= L, \A i \in 1..n : T[i] = z[i], NEW i \in 1..n - 1 PROVE P[i] = v[i]
      <4>1. T[1 + i] = z[1 + i]
        BY <2>7, <3>1, Zenon
      <4> QED
        BY <2>7, <3>1, <4>1, Zenon
    <3>2. ASSUME n - 1 <= L, \A i \in 1..n - 1 : P[i] = v[i], NEW i \in 1..n PROVE T[i] = z[i]
      <4>1. CASE i = 1
        BY <1>4, <2>4, <4>1, Zenon
      <4>2. CASE i # 1
        <5>1. i - 1 \in 1..n - 1 /\ 1 + (i - 1) = i
          BY <2>8, <4>2, Zenon
        <5>2. T[1 + (i - 1)] = z[1 + (i - 1)]
          BY <2>7, <3>2, <5>1, Zenon
        <5> QED
          BY <5>1, <5>2, Zenon
      <4> QED
        BY <4>1, <4>2, Zenon
    <3> QED
      BY <2>5, <2>6, <2>9, <3>1, <3>2, Zenon
  <2>11. StringMatches(m, T) <=> HasPrefix(T, z)
    BY <2>1, MatchPrefix, Zenon
  <2> QED
    BY <1>2, <1>8, <2>10, <2>11, Zenon DEF m, T
<1>9. CASE Word(v)
  <2> DEFINE z == SpiffePrefix \o v
  <2>1. m = [type |-> "exact", text |-> z]
    BY <1>1, <1>9, MatcherShape, Zenon DEF m
  <2>2. HeadedBy(z, Token, first, v)
    BY <1>1, Headed, Zenon DEF SpiffePrefix, first
  <2>3. z \in Seq(Token) /\ Len(z) = 1 + n /\ \A i \in 1..n : z[1 + i] = v[i]
    BY <2>2, Zenon DEF HeadedBy
  <2>4. ASSUME P = v PROVE T = z
    BY <2>4, Zenon DEF T
  <2> HIDE DEF z
  <2>5. ASSUME T = z PROVE P = v
    <3>1. L = n
      BY <1>4, <1>5, <2>3, <2>5
    <3>2. \A i \in 1..n : P[i] = v[i]
      BY <1>4, <2>3, <2>5, <3>1, Zenon
    <3> QED
      BY <1>1, <3>1, <3>2
  <2>6. StringMatches(m, T) <=> T = z
    BY <2>1, MatchExact, Zenon
  <2>7. Glob(v, P, FALSE) <=> P = v
    BY <1>1, <1>9, Meant, Zenon
  <2> QED
    BY <1>2, <1>9, <2>4, <2>5, <2>6, <2>7, Zenon DEF m, T
<1> QED
  BY <1>6, <1>7, <1>8, <1>9, Zenon DEF Shaped

-----------------------------------------------------------------------------
(* The matcher of a namespace.                                              *)
NoSlash(x) == \A i \in 1..Len(x) : x[i] # "/"
NoDot(x)   == \A i \in 1..Len(x) : x[i] # "."

(* The tokens of its pattern.                                               *)
PatternParts(q, v, n) ==
  /\ q \in Seq(Token) /\ Len(q) = n + 6
  /\ q[1] = "*" /\ q[2] = "/" /\ q[3] = "ns" /\ q[4] = "/"
  /\ \A i \in 1..n : q[4 + i] = v[i]
  /\ q[n + 5] = "/" /\ q[n + 6] = "*"

LEMMA PatternAt ==
  ASSUME NEW v \in Seq(Token), NEW n \in Nat, n = Len(v)
  PROVE  PatternParts(<<"*", "/", "ns", "/">> \o v \o <<"/", "*">>, v, n)
<1> DEFINE h == <<"*", "/", "ns", "/">>
           e == <<"/", "*">>
           x == h \o v
           q == x \o e
<1>1. "*" \in Token /\ "/" \in Token /\ "ns" \in Token
  BY Zenon DEF Token
<1>2. h \in Seq(Token) /\ Len(h) = 4 /\ h[1] = "*" /\ h[2] = "/" /\ h[3] = "ns" /\ h[4] = "/"
  BY <1>1
<1>3. e \in Seq(Token) /\ Len(e) = 2 /\ e[1] = "/" /\ e[2] = "*"
  BY <1>1
<1> HIDE DEF h, e
<1>4. JoinOf(x, Token, h, v)
  BY <1>2, Joined, Zenon
<1> HIDE DEF x
<1>5. /\ x \in Seq(Token) /\ Len(x) = n + 4
      /\ (\A i \in 1..4 : x[i] = h[i]) /\ \A i \in 1..n : x[4 + i] = v[i]
  BY <1>2, <1>4 DEF JoinOf
<1>6. JoinOf(q, Token, x, e)
  BY <1>3, <1>5, Joined, Zenon
<1> HIDE DEF q
<1>7. /\ q \in Seq(Token) /\ Len(q) = n + 6
      /\ (\A i \in 1..n + 4 : q[i] = x[i]) /\ \A i \in 1..2 : q[n + 4 + i] = e[i]
  BY <1>3, <1>5, <1>6 DEF JoinOf
<1>8. q[1] = "*" /\ q[2] = "/" /\ q[3] = "ns" /\ q[4] = "/"
  <2>1. 1 \in 1..n + 4 /\ 2 \in 1..n + 4 /\ 3 \in 1..n + 4 /\ 4 \in 1..n + 4
        /\ 1 \in 1..4 /\ 2 \in 1..4 /\ 3 \in 1..4 /\ 4 \in 1..4
    OBVIOUS
  <2> QED
    BY <1>2, <1>5, <1>7, <2>1, Zenon
<1>9. \A i \in 1..n : q[4 + i] = v[i]
  <2>1. \A i \in 1..n : 4 + i \in 1..n + 4
    OBVIOUS
  <2> QED
    BY <1>5, <1>7, <2>1, Zenon
<1>10. q[n + 5] = "/" /\ q[n + 6] = "*"
  <2>1. n + 5 = n + 4 + 1 /\ n + 6 = n + 4 + 2 /\ 1 \in 1..2 /\ 2 \in 1..2
    OBVIOUS
  <2> QED
    BY <1>3, <1>7, <2>1, Zenon
<1> QED
  BY <1>7, <1>8, <1>9, <1>10, Zenon DEF PatternParts, q, x, h, e

(* Where the slashes of an identity are, and so where "/ns/" is.            *)
Identity(T, td, ns, sa, a, b) ==
  /\ td \in Seq(Token) /\ ns \in Seq(Token) /\ sa \in Seq(Token)
  /\ NoSlash(td) /\ NoSlash(ns) /\ NoSlash(sa)
  /\ a \in Nat /\ a = 1 + Len(td) /\ b \in Nat /\ b = a + 3 + Len(ns)
  /\ IdentityParts(T, td, ns, sa, a, b)

Separator(i, a, b) == i = a + 1 \/ i = a + 3 \/ i = b + 1 \/ i = b + 3

Elsewhere(i, a, b, x, y, z) ==
  \/ i = 1 \/ i = a + 2 \/ i = b + 2
  \/ (i - 1 \in 1..x /\ 1 + (i - 1) = i)
  \/ (i - (a + 3) \in 1..y /\ a + 3 + (i - (a + 3)) = i)
  \/ (i - (b + 3) \in 1..z /\ b + 3 + (i - (b + 3)) = i)

LEMMA Parts ==
  ASSUME NEW x \in Nat, NEW y \in Nat, NEW z \in Nat, NEW a \in Nat, a = 1 + x,
         NEW b \in Nat, b = a + 3 + y, NEW i \in 1..b + 3 + z, ~ Separator(i, a, b)
  PROVE  Elsewhere(i, a, b, x, y, z)
  BY DEF Separator, Elsewhere

LEMMA Slashes ==
  ASSUME NEW T, NEW td, NEW ns, NEW sa, NEW a, NEW b, Identity(T, td, ns, sa, a, b),
         NEW i \in 1..Len(T), T[i] = "/"
  PROVE  Separator(i, a, b)
<1> SUFFICES ASSUME ~ Separator(i, a, b) PROVE T[i] # "/"
  OBVIOUS
<1>1. /\ Len(T) = b + 3 + Len(sa) /\ a \in Nat /\ b \in Nat /\ a = 1 + Len(td) /\ b = a + 3 + Len(ns)
      /\ td \in Seq(Token) /\ ns \in Seq(Token) /\ sa \in Seq(Token)
  BY Zenon DEF Identity, IdentityParts
<1>2. Len(td) \in Nat /\ Len(ns) \in Nat /\ Len(sa) \in Nat /\ i \in 1..b + 3 + Len(sa)
  BY <1>1
<1>3. Elsewhere(i, a, b, Len(td), Len(ns), Len(sa))
  BY <1>1, <1>2, Parts, Zenon
<1>4. T[1] # "/" /\ T[a + 2] # "/" /\ T[b + 2] # "/"
  BY Zenon DEF Identity, IdentityParts
<1>5. \A k \in 1..Len(td) : T[1 + k] # "/"
  <2>1. \A k \in 1..Len(td) : T[1 + k] = td[k] /\ td[k] # "/"
    BY Zenon DEF Identity, IdentityParts, NoSlash
  <2> QED
    BY <2>1, Zenon
<1>6. \A k \in 1..Len(ns) : T[a + 3 + k] # "/"
  <2>1. \A k \in 1..Len(ns) : T[a + 3 + k] = ns[k] /\ ns[k] # "/"
    BY Zenon DEF Identity, IdentityParts, NoSlash
  <2> QED
    BY <2>1, Zenon
<1>7. \A k \in 1..Len(sa) : T[b + 3 + k] # "/"
  <2>1. \A k \in 1..Len(sa) : T[b + 3 + k] = sa[k] /\ sa[k] # "/"
    BY Zenon DEF Identity, IdentityParts, NoSlash
  <2> QED
    BY <2>1, Zenon
<1> QED
  BY <1>3, <1>4, <1>5, <1>6, <1>7, Zenon DEF Elsewhere

Near(j, a, b, y) == j = a \/ (j = a + 2 /\ y = 1) \/ j = b

LEMMA Apart ==
  ASSUME NEW y \in Nat, NEW a \in Nat, NEW b \in Nat, b = a + 3 + y, NEW j \in Nat,
         Separator(j + 1, a, b), Separator(j + 3, a, b)
  PROVE  Near(j, a, b, y)
  BY DEF Separator, Near

(* "/ns/" occurs in the text after its first j tokens.                      *)
NsAt(T, j) == j + 3 <= Len(T) /\ T[j + 1] = "/" /\ T[j + 2] = "ns" /\ T[j + 3] = "/"

LEMMA NsPlace ==
  ASSUME NEW T, NEW td, NEW ns, NEW sa, NEW a, NEW b, Identity(T, td, ns, sa, a, b),
         ns # <<"ns">>,
         NEW j \in Nat, NsAt(T, j)
  PROVE  j = a
<1>0. j + 3 <= Len(T) /\ T[j + 1] = "/" /\ T[j + 2] = "ns" /\ T[j + 3] = "/"
  BY Zenon DEF NsAt
<1>1. /\ Len(T) = b + 3 + Len(sa) /\ a \in Nat /\ b \in Nat /\ b = a + 3 + Len(ns)
      /\ ns \in Seq(Token) /\ sa \in Seq(Token) /\ T \in Seq(Token)
  BY Zenon DEF Identity, IdentityParts
<1>2. j + 1 \in 1..Len(T) /\ j + 3 \in 1..Len(T) /\ Len(ns) \in Nat
  BY <1>0, <1>1
<1>3. Separator(j + 1, a, b) /\ Separator(j + 3, a, b)
  BY <1>0, <1>2, Slashes, Zenon
<1>4. Near(j, a, b, Len(ns))
  BY <1>1, <1>2, <1>3, Apart, Zenon
<1>5. ASSUME j = a + 2, Len(ns) = 1 PROVE FALSE
  <2>1. j + 2 = a + 3 + 1 /\ 1 \in 1..Len(ns)
    BY <1>1, <1>5
  <2>2. T[a + 3 + 1] = ns[1]
    BY <2>1, Zenon DEF Identity, IdentityParts
  <2>3. ns[1] = "ns"
    BY <1>0, <2>1, <2>2, Zenon
  <2>4. ns = <<"ns">>
    BY <1>1, <1>5, <2>3
  <2> QED
    BY <2>4
<1>6. j # b
  <2>1. T[b + 2] = "sa" /\ "sa" # "ns"
    BY Zenon DEF Identity, IdentityParts
  <2> QED
    BY <1>0, <2>1, Zenon
<1> QED
  BY <1>4, <1>5, <1>6, Zenon DEF Near

(* A namespace without a star: the pattern matches that namespace.          *)
LEMMA WholeNamespace ==
  ASSUME NEW T, NEW td, NEW ns, NEW sa, NEW a, NEW b, Identity(T, td, ns, sa, a, b),
         ns # <<"ns">>, NEW v \in Seq(Token), Word(v), NoSlash(v), NoDot(v),
         NEW n \in Nat, n = Len(v), NEW q, PatternParts(q, v, n)
  PROVE  Glob(q, T, TRUE) <=> ns = v
<1>1. /\ Len(T) = b + 3 + Len(sa) /\ a \in Nat /\ b \in Nat /\ b = a + 3 + Len(ns)
      /\ ns \in Seq(Token) /\ sa \in Seq(Token) /\ T \in Seq(Token) /\ NoSlash(ns)
      /\ T[a + 1] = "/" /\ T[a + 2] = "ns" /\ T[a + 3] = "/" /\ T[b + 1] = "/"
      /\ \A i \in 1..Len(ns) : T[a + 3 + i] = ns[i]
  BY Zenon DEF Identity, IdentityParts
<1>2. /\ q \in Seq(Token) /\ Len(q) = n + 6
      /\ q[1] = "*" /\ q[2] = "/" /\ q[3] = "ns" /\ q[4] = "/"
      /\ (\A i \in 1..n : q[4 + i] = v[i]) /\ q[n + 5] = "/" /\ q[n + 6] = "*"
  BY Zenon DEF PatternParts
<1>3. Len(ns) \in Nat /\ Len(sa) \in Nat /\ n + 6 \in Nat /\ n + 6 > 1 /\ (n + 6) - 1 = n + 5
  BY <1>1
<1>4. \A i \in 2..n + 5 : i = 2 \/ i = 3 \/ i = 4 \/ i = n + 5 \/ (i - 4 \in 1..n /\ 4 + (i - 4) = i)
  OBVIOUS
<1>5. Starless(q, 1, n + 5) /\ Dotless(q, 1, n + 5)
  <2>1. \A i \in 1..n : q[4 + i] # "*" /\ q[4 + i] # "."
    BY <1>2, Zenon DEF Word, NoDot
  <2>2. \A i \in 2..n + 5 : q[i] # "*" /\ q[i] # "."
    BY <1>2, <1>4, <2>1, Zenon
  <2>3. 1 + 1 = 2
    OBVIOUS
  <2> QED
    BY <2>2, <2>3, Zenon DEF Starless, Dotless
<1>6. Glob(q, T, TRUE) <=> \E j \in 0..Len(T) : Occurs(T, q, 1, n + 5, j)
  BY <1>1, <1>2, <1>3, <1>5, GlobInside, Zenon
<1>7. ASSUME NEW j \in 0..Len(T), Occurs(T, q, 1, n + 5, j) PROVE ns = v
  <2>1. j \in Nat /\ j + (n + 4) <= Len(T) /\ \A i \in 2..n + 5 : T[j - 1 + i] = q[i]
    BY <1>1, <1>3, <1>7 DEF Occurs
  <2>2. /\ j + 1 = j - 1 + 2 /\ j + 2 = j - 1 + 3 /\ j + 3 = j - 1 + 4 /\ j + n + 4 = j - 1 + (n + 5)
        /\ 2 \in 2..n + 5 /\ 3 \in 2..n + 5 /\ 4 \in 2..n + 5 /\ n + 5 \in 2..n + 5
        /\ \A i \in 1..n : 4 + i \in 2..n + 5 /\ j + 3 + i = j - 1 + (4 + i)
    BY <2>1
  <2>3. T[j + 1] = "/" /\ T[j + 2] = "ns" /\ T[j + 3] = "/" /\ T[j + n + 4] = "/"
    BY <1>2, <2>1, <2>2, Zenon
  <2>4. \A i \in 1..n : T[j + 3 + i] = v[i]
    BY <1>2, <2>1, <2>2, Zenon
  <2>5. j + 3 <= Len(T)
    BY <1>1, <1>3, <2>1
  <2>6. j = a
    <3>1. NsAt(T, j)
      BY <2>3, <2>5, Zenon DEF NsAt
    <3> QED
      BY <2>1, <3>1, NsPlace, Zenon
  <2>7. ~ (n < Len(ns))
    <3> SUFFICES ASSUME n < Len(ns) PROVE FALSE
      OBVIOUS
    <3>1. n + 1 \in 1..Len(ns) /\ a + 3 + (n + 1) = j + n + 4
      BY <1>1, <1>3, <2>6
    <3>2. T[a + 3 + (n + 1)] = ns[n + 1]
      BY <1>1, <3>1, Zenon
    <3> QED
      BY <1>1, <2>3, <3>1, <3>2, Zenon DEF NoSlash
  <2>8. ~ (n > Len(ns))
    <3> SUFFICES ASSUME n > Len(ns) PROVE FALSE
      OBVIOUS
    <3>1. Len(ns) + 1 \in 1..n /\ j + 3 + (Len(ns) + 1) = b + 1
      BY <1>1, <1>3, <2>6
    <3>2. v[Len(ns) + 1] = "/"
      BY <1>1, <2>4, <3>1, Zenon
    <3> QED
      BY <3>1, <3>2, Zenon DEF NoSlash
  <2>9. n = Len(ns)
    BY <1>3, <2>7, <2>8
  <2>10. \A i \in 1..n : ns[i] = v[i]
    BY <1>1, <2>4, <2>6, <2>9, Zenon
  <2> QED
    BY <1>1, <2>9, <2>10, Equal, Zenon
<1>8. ASSUME ns = v PROVE Occurs(T, q, 1, n + 5, a) /\ a \in 0..Len(T)
  <2>1. Len(ns) = n /\ b = a + 3 + n
    BY <1>1, <1>8
  <2>2. a + ((n + 5) - 1) <= Len(T) /\ a \in 0..Len(T)
    BY <1>1, <1>3, <2>1
  <2>3. /\ a + 1 = a - 1 + 2 /\ a + 2 = a - 1 + 3 /\ a + 3 = a - 1 + 4 /\ b + 1 = a - 1 + (n + 5)
        /\ \A i \in 1..n : a + 3 + i = a - 1 + (4 + i)
    BY <1>1, <2>1
  <2>4. \A i \in 1..n : T[a - 1 + (4 + i)] = q[4 + i]
    <3> TAKE i \in 1..n
    <3>1. T[a + 3 + i] = ns[i]
      BY <1>1, <2>1, Zenon
    <3>2. q[4 + i] = v[i]
      BY <1>2, Zenon
    <3> QED
      BY <1>8, <2>3, <3>1, <3>2, Zenon
  <2>5. ASSUME NEW i \in 2..n + 5 PROVE T[a - 1 + i] = q[i]
    <3>1. CASE i \in {2, 3, 4, n + 5}
      BY <1>1, <1>2, <2>3, <3>1, Zenon
    <3>2. CASE i - 4 \in 1..n /\ 4 + (i - 4) = i
      <4>1. T[a - 1 + (4 + (i - 4))] = q[4 + (i - 4)]
        BY <2>4, <3>2, Zenon
      <4> QED
        BY <3>2, <4>1, Zenon
    <3> QED
      BY <1>4, <3>1, <3>2, Zenon
  <2>6. 1 + 1 = 2
    OBVIOUS
  <2> QED
    BY <2>2, <2>5, <2>6, Zenon DEF Occurs
<1> QED
  BY <1>6, <1>7, <1>8, Zenon

(* One with a star at its end: the pattern matches the namespaces that      *)
(* begin as it does.                                                        *)
LastStar(v, n) == n > 0 /\ v[n] = "*" /\ \A i \in 1..n - 1 : v[i] # "*"
BeginsAs(ns, v, n) == n - 1 <= Len(ns) /\ \A i \in 1..n - 1 : ns[i] = v[i]

LEMMA NamespacePrefix ==
  ASSUME NEW T, NEW td, NEW ns, NEW sa, NEW a, NEW b, Identity(T, td, ns, sa, a, b),
         ns # <<"ns">>, NEW v \in Seq(Token), NoSlash(v), NoDot(v),
         NEW n \in Nat, n = Len(v), LastStar(v, n), NEW q, PatternParts(q, v, n)
  PROVE  Glob(q, T, TRUE) <=> BeginsAs(ns, v, n)
<1>0. n > 0 /\ v[n] = "*" /\ \A i \in 1..n - 1 : v[i] # "*"
  BY Zenon DEF LastStar
<1>1. /\ Len(T) = b + 3 + Len(sa) /\ a \in Nat /\ b \in Nat /\ b = a + 3 + Len(ns)
      /\ ns \in Seq(Token) /\ sa \in Seq(Token) /\ T \in Seq(Token)
      /\ T[a + 1] = "/" /\ T[a + 2] = "ns" /\ T[a + 3] = "/" /\ T[b + 1] = "/"
      /\ \A i \in 1..Len(ns) : T[a + 3 + i] = ns[i]
  BY Zenon DEF Identity, IdentityParts
<1>2. /\ q \in Seq(Token) /\ Len(q) = n + 6
      /\ q[1] = "*" /\ q[2] = "/" /\ q[3] = "ns" /\ q[4] = "/"
      /\ (\A i \in 1..n : q[4 + i] = v[i]) /\ q[n + 5] = "/" /\ q[n + 6] = "*"
  BY Zenon DEF PatternParts
<1> DEFINE s == n + 4
<1>3. /\ Len(ns) \in Nat /\ Len(sa) \in Nat /\ n + 6 \in Nat
      /\ s \in 2..(n + 6) - 1 /\ (n + 6) - 1 = n + 5 /\ s - 1 = n + 3 /\ s - 2 = n + 2
      /\ n \in 1..n /\ 4 + n = s
  BY <1>0, <1>1
<1>4. \A i \in 2..n + 3 : i = 2 \/ i = 3 \/ i = 4 \/ (i - 4 \in 1..n - 1 /\ i - 4 \in 1..n /\ 4 + (i - 4) = i)
  OBVIOUS
<1>5. \A i \in s + 1..n + 5 : i = n + 5
  OBVIOUS
<1>6. q[s] = "*"
  BY <1>0, <1>2, <1>3, Zenon
<1> HIDE DEF s
<1>7. /\ Starless(q, 1, s - 1) /\ Starless(q, s, (n + 6) - 1)
      /\ Dotless(q, 1, s - 1) /\ Dotless(q, s, (n + 6) - 1)
  <2>1. \A i \in 2..n + 3 : q[i] # "*" /\ q[i] # "."
    <3> TAKE i \in 2..n + 3
    <3>1. CASE i = 2 \/ i = 3 \/ i = 4
      BY <1>2, <3>1, Zenon
    <3>2. CASE i - 4 \in 1..n - 1 /\ i - 4 \in 1..n /\ 4 + (i - 4) = i
      <4>1. q[4 + (i - 4)] = v[i - 4] /\ v[i - 4] # "*" /\ v[i - 4] # "."
        BY <1>0, <1>2, <3>2, Zenon DEF NoDot
      <4> QED
        BY <3>2, <4>1, Zenon
    <3> QED
      BY <1>4, <3>1, <3>2, Zenon
  <2>2. 1 + 1 = 2
    OBVIOUS
  <2>3. \A i \in s + 1..n + 5 : q[i] # "*" /\ q[i] # "."
    BY <1>2, <1>5, Zenon
  <2> QED
    BY <1>3, <2>1, <2>2, <2>3, Zenon DEF Starless, Dotless
<1>8. Glob(q, T, TRUE) <=> \E j, k \in 0..Len(T) : /\ Occurs(T, q, 1, s - 1, j)
                                                  /\ j + (s - 2) <= k
                                                  /\ Occurs(T, q, s, (n + 6) - 1, k)
  <2>1. OccurInTurn(Glob(q, T, TRUE), q, T, s, n + 6)
    BY <1>1, <1>2, <1>3, <1>6, <1>7, GlobTwice, Zenon
  <2> QED
    BY <2>1, Zenon DEF OccurInTurn
<1>9. ASSUME NEW j \in 0..Len(T), Occurs(T, q, 1, s - 1, j)
      PROVE  n - 1 <= Len(ns) /\ \A i \in 1..n - 1 : ns[i] = v[i]
  <2>1. j \in Nat /\ j + (n + 2) <= Len(T) /\ \A i \in 2..n + 3 : T[j - 1 + i] = q[i]
    <3>1. j + ((s - 1) - 1) <= Len(T) /\ \A i \in 1 + 1..s - 1 : T[j - 1 + i] = q[i]
      BY <1>9, Zenon DEF Occurs
    <3>2. j \in Nat /\ j + ((s - 1) - 1) = j + (n + 2) /\ 1 + 1..s - 1 = 2..n + 3
      BY <1>1, <1>3 DEF s
    <3> QED
      BY <3>1, <3>2, Zenon
  <2>2. /\ j + 1 = j - 1 + 2 /\ j + 2 = j - 1 + 3 /\ j + 3 = j - 1 + 4
        /\ 2 \in 2..n + 3 /\ 3 \in 2..n + 3 /\ 4 \in 2..n + 3
        /\ \A i \in 1..n - 1 : i \in 1..n /\ 4 + i \in 2..n + 3 /\ j + 3 + i = j - 1 + (4 + i)
    BY <1>0, <2>1
  <2>3. T[j + 1] = "/" /\ T[j + 2] = "ns" /\ T[j + 3] = "/"
    BY <1>2, <2>1, <2>2, Zenon
  <2>4. ASSUME NEW i \in 1..n - 1 PROVE T[j + 3 + i] = v[i]
    <3>1. T[j - 1 + (4 + i)] = q[4 + i]
      BY <2>1, <2>2, Zenon
    <3>2. q[4 + i] = v[i]
      BY <1>2, <2>2, Zenon
    <3> QED
      BY <2>2, <3>1, <3>2, Zenon
  <2>5. j + 3 <= Len(T)
    BY <1>1, <1>3, <2>1
  <2>6. j = a
    <3>1. NsAt(T, j)
      BY <2>3, <2>5, Zenon DEF NsAt
    <3>2. j \in Nat
      BY <2>1, Zenon
    <3> QED
      BY <3>1, <3>2, NsPlace
  <2>7. n - 1 <= Len(ns)
    <3> SUFFICES ASSUME ~ (n - 1 <= Len(ns)) PROVE FALSE
      OBVIOUS
    <3>1. Len(ns) + 1 \in 1..n - 1 /\ Len(ns) + 1 \in 1..n /\ j + 3 + (Len(ns) + 1) = b + 1
      BY <1>1, <1>3, <2>6
    <3>2. v[Len(ns) + 1] = "/"
      BY <1>1, <2>4, <3>1, Zenon
    <3> QED
      BY <3>1, <3>2, Zenon DEF NoSlash
  <2>8. ASSUME NEW i \in 1..n - 1 PROVE ns[i] = v[i]
    <3>1. i \in 1..Len(ns)
      BY <1>3, <2>7
    <3>2. T[a + 3 + i] = ns[i]
      BY <1>1, <3>1, Zenon
    <3> QED
      BY <2>4, <2>6, <3>2, Zenon
  <2> QED
    BY <2>7, <2>8, Zenon
<1>10. ASSUME n - 1 <= Len(ns), \A i \in 1..n - 1 : ns[i] = v[i]
       PROVE  /\ a \in 0..Len(T) /\ b \in 0..Len(T) /\ Occurs(T, q, 1, s - 1, a)
              /\ a + (s - 2) <= b /\ Occurs(T, q, s, (n + 6) - 1, b)
  <2>1. /\ a \in 0..Len(T) /\ b \in 0..Len(T) /\ a + (s - 2) <= b
        /\ a + ((s - 1) - 1) <= Len(T) /\ b + (((n + 6) - 1) - s) <= Len(T)
    BY <1>1, <1>3, <1>10 DEF s
  <2>2. /\ a + 1 = a - 1 + 2 /\ a + 2 = a - 1 + 3 /\ a + 3 = a - 1 + 4
        /\ b + 1 = b - s + (n + 5) /\ 1 + 1..s - 1 = 2..n + 3
        /\ \A i \in 1..n - 1 : i \in 1..n /\ i \in 1..Len(ns) /\ a + 3 + i = a - 1 + (4 + i)
    <3>1. a + 1 = a - 1 + 2 /\ a + 2 = a - 1 + 3 /\ a + 3 = a - 1 + 4
      BY <1>1, <1>3
    <3>2. b + 1 = b - s + (n + 5) /\ 1 + 1..s - 1 = 2..n + 3
      BY <1>1, <1>3 DEF s
    <3>3. \A i \in 1..n - 1 : i \in 1..n /\ i \in 1..Len(ns) /\ a + 3 + i = a - 1 + (4 + i)
      BY <1>1, <1>3, <1>10
    <3> QED
      BY <3>1, <3>2, <3>3, Zenon
  <2>3. ASSUME NEW i \in 1..n - 1 PROVE T[a - 1 + (4 + i)] = q[4 + i]
    <3>1. T[a + 3 + i] = ns[i]
      BY <1>1, <2>2, Zenon
    <3>2. q[4 + i] = v[i]
      BY <1>2, <2>2, Zenon
    <3> QED
      BY <1>10, <2>2, <3>1, <3>2, Zenon
  <2>4. ASSUME NEW i \in 2..n + 3 PROVE T[a - 1 + i] = q[i]
    <3>1. CASE i = 2 \/ i = 3 \/ i = 4
      BY <1>1, <1>2, <2>2, <3>1, Zenon
    <3>2. CASE i - 4 \in 1..n - 1 /\ i - 4 \in 1..n /\ 4 + (i - 4) = i
      <4>1. T[a - 1 + (4 + (i - 4))] = q[4 + (i - 4)]
        BY <2>3, <3>2, Zenon
      <4> QED
        BY <3>2, <4>1, Zenon
    <3> QED
      BY <1>4, <3>1, <3>2, Zenon
  <2>5. ASSUME NEW i \in s + 1..(n + 6) - 1 PROVE T[b - s + i] = q[i]
    <3>1. i = n + 5
      BY <1>3, <1>5, Zenon
    <3> QED
      BY <1>1, <1>2, <2>2, <3>1, Zenon
  <2> QED
    BY <2>1, <2>2, <2>4, <2>5, Zenon DEF Occurs
<1> QED
  BY <1>8, <1>9, <1>10, Zenon DEF BeginsAs

(* The matcher of a namespace matches the identities of the namespaces its  *)
(* value says.                                                              *)
LEMMA NamespaceMatched ==
  ASSUME NEW T, NEW td, NEW ns, NEW sa, NEW a, NEW b, Identity(T, td, ns, sa, a, b),
         ns # <<"ns">>, ns # <<>>, NEW v, IsNamespace(v)
  PROVE  StringMatches(StringMatcherRegex(<<"*", "/", "ns", "/">> \o v \o <<"/", "*">>), T)
           <=> Means(v, ns, FALSE)
<1> DEFINE q == <<"*", "/", "ns", "/">> \o v \o <<"/", "*">>
           m == StringMatcherRegex(q)
           n == Len(v)
<1>1. v \in Seq(Token) /\ n \in Nat /\ n > 0
  BY TextTokens, Zenon DEF IsNamespace
<1>2. PatternParts(q, v, n)
  BY <1>1, PatternAt, Zenon
<1>3. NoSlash(v) /\ NoDot(v) /\ \A i \in 1..n - 1 : v[i] # "*"
  BY Zenon DEF IsNamespace, NoSlash, NoDot
<1>4. ns \in Seq(Token) /\ Len(ns) \in Nat
  <2>1. ns \in Seq(Token)
    BY Zenon DEF Identity
  <2> QED
    BY <2>1
<1>5. Means(v, ns, FALSE) <=> Glob(v, ns, FALSE)
  BY Reading, Zenon
<1>6. q # <<".+">>
  <2>1. Len(q) = n + 6
    BY <1>2, Zenon DEF PatternParts
  <2>2. Len(q) # 1
    BY <1>1, <2>1
  <2>3. Len(<<".+">>) = 1
    OBVIOUS
  <2> HIDE DEF q
  <2> QED
    BY <2>2, <2>3, Zenon
<1> HIDE DEF q
<1>7. StringMatches(m, T) <=> Glob(q, T, TRUE)
  BY <1>6, MatchRegex, Zenon
<1>8. CASE v[n] # "*"
  <2>1. Word(v)
    BY <1>1, <1>3, <1>8 DEF Word
  <2>2. Glob(q, T, TRUE) <=> ns = v
    BY <1>1, <1>2, <1>3, <2>1, WholeNamespace, Zenon
  <2>3. Glob(v, ns, FALSE) <=> ns = v
    BY <1>1, <1>4, <2>1, Meant, Zenon
  <2> QED
    BY <1>5, <1>7, <2>2, <2>3, Zenon DEF q
<1>9. CASE v[n] = "*"
  <2>1. Glob(q, T, TRUE) <=> BeginsAs(ns, v, n)
    <3>1. LastStar(v, n)
      BY <1>1, <1>3, <1>9, Zenon DEF LastStar
    <3> QED
      BY <1>1, <1>2, <1>3, <3>1, NamespacePrefix, Zenon
  <2>2. CASE n = 1
    <3>1. v = Star
      BY <1>1, <1>9, <2>2 DEF Star
    <3>2. Glob(v, ns, FALSE)
      BY <1>1, <1>4, <3>1, Meant, Zenon
    <3>3. BeginsAs(ns, v, n)
      BY <1>4, <2>2 DEF BeginsAs
    <3> QED
      BY <1>5, <1>7, <2>1, <3>2, <3>3, Zenon DEF q
  <2>3. CASE n # 1
    <3>1. StarLast(v)
      <4>1. \A k \in Nat : k > 0 /\ k # 1 => k > 1
        OBVIOUS
      <4> QED
        BY <1>1, <1>3, <1>9, <2>3, <4>1, Zenon DEF StarLast
    <3>2. Glob(v, ns, FALSE) <=> Len(v) - 1 <= Len(ns) /\ \A i \in 1..Len(v) - 1 : ns[i] = v[i]
      BY <1>1, <1>4, <3>1, Meant, Zenon
    <3> QED
      BY <1>5, <1>7, <2>1, <3>2, Zenon DEF q, BeginsAs
  <2> QED
    BY <2>2, <2>3, Zenon
<1> QED
  BY <1>8, <1>9, Zenon

(* The identity of a plain source.                                          *)
PlainIdentity(source) ==
  /\ \A i \in 1..3 : IsText(source[i]) /\ "/" \notin Range(source[i])
  /\ source[2] # <<"ns">>

LEMMA SourceIdentity ==
  ASSUME NEW source, source # <<>>, PlainIdentity(source)
  PROVE  /\ \E a, b : Identity(SpiffePrefix \o Principal(source), source[1], source[2], source[3], a, b)
         /\ Principal(source) \in Seq(Token) /\ Principal(source) # <<>>
         /\ source[2] # <<>>
<1> DEFINE td == source[1]
           ns == source[2]
           sa == source[3]
           a  == 1 + Len(td)
           b  == a + 3 + Len(ns)
           x  == td \o <<"/", "ns", "/">> \o ns
           y  == x \o <<"/", "sa", "/">> \o sa
<1>1. 1 \in 1..3 /\ 2 \in 1..3 /\ 3 \in 1..3
  OBVIOUS
<1>2. /\ td \in Seq(Token) /\ ns \in Seq(Token) /\ sa \in Seq(Token)
      /\ Len(td) \in Nat /\ Len(ns) \in Nat /\ Len(sa) \in Nat /\ ns # <<>>
  BY <1>1, TextTokens, Zenon DEF PlainIdentity
<1>3. ASSUME NEW t \in Seq(Token), "/" \notin Range(t) PROVE NoSlash(t)
  BY <1>3 DEF NoSlash, Range
<1>4. NoSlash(td) /\ NoSlash(ns) /\ NoSlash(sa)
  BY <1>1, <1>2, <1>3, Zenon DEF PlainIdentity
<1>5. a \in Nat /\ b \in Nat
  <2>1. \A k, l \in Nat : 1 + k \in Nat /\ 1 + k + 3 + l \in Nat
    OBVIOUS
  <2> QED
    BY <1>2, <2>1, Zenon
<1>6. Principal(source) = y
  BY Zenon DEF Principal
<1>7. IdentityParts(<<"spiffe://">> \o y, td, ns, sa, a, b)
  BY <1>2, <1>5, IdentityTokens, Zenon
<1>8. Identity(SpiffePrefix \o Principal(source), td, ns, sa, a, b)
  BY <1>2, <1>4, <1>5, <1>6, <1>7, Zenon DEF Identity, SpiffePrefix
<1>9. y \in Seq(Token) /\ y # <<>>
  <2>1. "/" \in Token /\ "ns" \in Token /\ "sa" \in Token
    BY Zenon DEF Token
  <2>2. FramedBy(x, Token, td, "/", "ns", "/", ns, Len(td))
    BY <1>2, <2>1, Framed, Zenon
  <2>3. x \in Seq(Token)
    BY <2>2, Zenon DEF FramedBy
  <2> HIDE DEF x
  <2>4. Len(x) \in Nat
    BY <2>3
  <2>5. FramedBy(y, Token, x, "/", "sa", "/", sa, Len(x))
    BY <1>2, <2>1, <2>3, <2>4, Framed, Zenon
  <2>6. y \in Seq(Token) /\ Len(y) = Len(x) + 3 + Len(sa)
    BY <2>5, Zenon DEF FramedBy
  <2> HIDE DEF y
  <2>7. \A k, l \in Nat : k + 3 + l # 0
    OBVIOUS
  <2>8. Len(<<>>) = 0
    OBVIOUS
  <2> QED
    BY <1>2, <2>4, <2>6, <2>7, <2>8, Zenon
<1> QED
  BY <1>2, <1>6, <1>8, <1>9, Zenon

-----------------------------------------------------------------------------
(* The policies.  What a matcher of a policy makes of a request, and that   *)
(* it is what its value says of a text.                                     *)
Hits(g, request) ==
  IF g.on = "principal"
  THEN request.source # <<>> /\ StringMatches(g.matcher, SpiffePrefix \o Principal(request.source))
  ELSE StringMatches(g.matcher, request[g.on])

Exact(key, v, request, text, u) == Hits(MatchOf(key, v), request) <=> Means(v, text, u)

PlainRequest(request) ==
  /\ IsText(request.interface) /\ IsText(request.method)
  /\ request.source # <<>> => PlainIdentity(request.source)

NamespaceOf(source) == IF source = <<>> THEN <<>> ELSE source[2]

LEMMA InterfaceExact ==
  ASSUME NEW request, PlainRequest(request), NEW v, IsValue(v)
  PROVE  Exact("interface", v, request, request.interface, FALSE)
<1>1. MatchOf("interface", v) = [on |-> "interface", matcher |-> StringMatcherWithPrefix(v, <<>>)]
  BY Zenon DEF MatchOf
<1> DEFINE g == [on |-> "interface", matcher |-> StringMatcherWithPrefix(v, <<>>)]
<1>2. g.on = "interface" /\ g.matcher = StringMatcherWithPrefix(v, <<>>)
  OBVIOUS
<1>3. Shaped(v) /\ request.interface \in Seq(Token) /\ request.interface # <<>>
  BY ValueShape, TextTokens, Zenon DEF PlainRequest
<1>4. StringMatches(StringMatcherWithPrefix(v, <<>>), request.interface) <=> Means(v, request.interface, FALSE)
  BY <1>3, PlainMatched, Zenon
<1>5. request["interface"] = request.interface
  OBVIOUS
<1> HIDE DEF g
<1> QED
  BY <1>1, <1>2, <1>4, <1>5, Zenon DEF Exact, Hits, g

LEMMA MethodExact ==
  ASSUME NEW request, PlainRequest(request), NEW v, IsValue(v)
  PROVE  Exact("method", v, request, request.method, FALSE)
<1>1. MatchOf("method", v) = [on |-> "method", matcher |-> StringMatcherWithPrefix(v, <<>>)]
  BY Zenon DEF MatchOf
<1> DEFINE g == [on |-> "method", matcher |-> StringMatcherWithPrefix(v, <<>>)]
<1>2. g.on = "method" /\ g.matcher = StringMatcherWithPrefix(v, <<>>)
  OBVIOUS
<1>3. Shaped(v) /\ request.method \in Seq(Token) /\ request.method # <<>>
  BY ValueShape, TextTokens, Zenon DEF PlainRequest
<1>4. StringMatches(StringMatcherWithPrefix(v, <<>>), request.method) <=> Means(v, request.method, FALSE)
  BY <1>3, PlainMatched, Zenon
<1>5. request["method"] = request.method
  OBVIOUS
<1> HIDE DEF g
<1> QED
  BY <1>1, <1>2, <1>4, <1>5, Zenon DEF Exact, Hits, g

LEMMA NamespaceExact ==
  ASSUME NEW request, PlainRequest(request), NEW v, IsNamespace(v)
  PROVE  Exact("namespace", v, request, NamespaceOf(request.source), FALSE)
<1> DEFINE m == StringMatcherRegex(<<"*", "/", "ns", "/">> \o v \o <<"/", "*">>)
           g == [on |-> "principal", matcher |-> m]
<1>1. MatchOf("namespace", v) = g
  BY Zenon DEF MatchOf
<1>2. g.on = "principal" /\ g.matcher = m
  OBVIOUS
<1> HIDE DEF g, m
<1>3. CASE request.source = <<>>
  BY <1>1, <1>2, <1>3, Zenon DEF Exact, Hits, Means, NamespaceOf
<1>4. CASE request.source # <<>>
  <2> DEFINE source == request.source
  <2>1. PlainIdentity(source)
    BY <1>4, Zenon DEF PlainRequest
  <2>2. PICK a, b : Identity(SpiffePrefix \o Principal(source), source[1], source[2], source[3], a, b)
    BY <1>4, <2>1, SourceIdentity, Zenon
  <2>3. source[2] # <<>> /\ source[2] # <<"ns">>
    BY <1>4, <2>1, SourceIdentity, Zenon DEF PlainIdentity
  <2>4. StringMatches(m, SpiffePrefix \o Principal(source)) <=> Means(v, source[2], FALSE)
    BY <2>2, <2>3, NamespaceMatched, Zenon DEF m
  <2> QED
    BY <1>1, <1>2, <1>4, <2>4, Zenon DEF Exact, Hits, NamespaceOf
<1> QED
  BY <1>3, <1>4, Zenon

LEMMA PrincipalExact ==
  ASSUME NEW request, PlainRequest(request), NEW v, IsValue(v)
  PROVE  Exact("principal", v, request, Principal(request.source), TRUE)
<1> DEFINE m == StringMatcherWithPrefix(v, SpiffePrefix)
           g == [on |-> "principal", matcher |-> m]
<1>1. MatchOf("principal", v) = g
  BY Zenon DEF MatchOf
<1>2. g.on = "principal" /\ g.matcher = m
  OBVIOUS
<1> HIDE DEF g, m
<1>3. CASE request.source = <<>>
  BY <1>1, <1>2, <1>3, Zenon DEF Exact, Hits, Means, Principal
<1>4. CASE request.source # <<>>
  <2> DEFINE source == request.source
  <2>1. PlainIdentity(source)
    BY <1>4, Zenon DEF PlainRequest
  <2>2. Principal(source) \in Seq(Token) /\ Principal(source) # <<>>
    BY <1>4, <2>1, SourceIdentity, Zenon
  <2>3. Shaped(v)
    BY ValueShape, Zenon
  <2>4. StringMatches(m, SpiffePrefix \o Principal(source)) <=> Means(v, Principal(source), TRUE)
    BY <2>2, <2>3, IdentityMatched, Zenon DEF m
  <2> QED
    BY <1>1, <1>2, <1>4, <2>4, Zenon DEF Exact, Hits
<1> QED
  BY <1>3, <1>4, Zenon

(* A principal's value stays as it is.                                      *)
LEMMA AliasKept ==
  ASSUME NEW v, IsIdentity(v)
  PROVE  ReplaceTrustDomainAliases(v) = v
<1>1. CASE ~ InDomain(v, ClusterLocal)
  BY <1>1, Zenon DEF ReplaceTrustDomainAliases
<1>2. CASE InDomain(v, ClusterLocal)
  <2>1. v \in Seq(Token) /\ TrustDomain = ClusterLocal
    BY <1>2, TextTokens, Zenon DEF IsIdentity, IsValue
  <2> DEFINE c == ClusterLocal
             n == Len(v)
             x == SubSeq(v, 1, 4)
             y == SubSeq(v, 4, n)
  <2>2. Len(c) = 3 /\ c \in Seq(Token) /\ <<"/">> \in Seq(Token)
    BY DEF ClusterLocal, Token
  <2>3. n > 3 /\ n \in Nat /\ x = c \o <<"/">>
    BY <1>2, <2>1, <2>2 DEF InDomain
  <2>4. /\ \A i \in 1..4 : x[i] = v[i]
        /\ y \in Seq(Token) /\ Len(y) = n - 3 /\ \A i \in 1..n - 3 : y[i] = v[3 + i]
    BY <2>1, <2>3
  <2> HIDE DEF c, x, y
  <2>5. JoinOf(c \o y, Token, c, y) /\ JoinOf(c \o <<"/">>, Token, c, <<"/">>)
    BY <2>2, <2>4, Joined, Zenon
  <2>6. c \o y \in Seq(Token) /\ Len(c \o y) = n
    <3>1. c \o y \in Seq(Token) /\ Len(c \o y) = Len(c) + Len(y)
      BY <2>5, Zenon DEF JoinOf
    <3> QED
      BY <2>2, <2>3, <2>4, <3>1
  <2>7. ASSUME NEW i \in 1..n PROVE (c \o y)[i] = v[i]
    <3>1. \/ i \in 1..3 /\ i \in 1..4
          \/ \E k \in 1..n - 3 : i = 3 + k
      <4>1. i > 3 => i - 3 \in 1..n - 3 /\ i = 3 + (i - 3)
        BY <2>3
      <4>2. i > 3 \/ (i \in 1..3 /\ i \in 1..4)
        BY <2>3
      <4> QED
        BY <4>1, <4>2, Zenon
    <3>2. /\ \A k \in 1..3 : (c \o y)[k] = c[k] /\ x[k] = c[k]
          /\ \A k \in 1..n - 3 : (c \o y)[3 + k] = y[k]
      BY <2>2, <2>3, <2>4, <2>5, Zenon DEF JoinOf
    <3>3. CASE i \in 1..3 /\ i \in 1..4
      BY <2>4, <3>2, <3>3, Zenon
    <3>4. CASE \E k \in 1..n - 3 : i = 3 + k
      <4>1. PICK k \in 1..n - 3 : i = 3 + k
        BY <3>4, Zenon
      <4>2. (c \o y)[3 + k] = y[k] /\ y[k] = v[3 + k]
        BY <2>4, <3>2, Zenon
      <4> QED
        BY <4>1, <4>2, Zenon
    <3> QED
      BY <3>1, <3>3, <3>4, Zenon
  <2>8. c \o y = v
    BY <2>1, <2>6, <2>7, Equal, Zenon
  <2>9. Len(c) + 1 = 4
    BY <2>2
  <2> QED
    BY <1>2, <2>1, <2>8, <2>9, Zenon DEF ReplaceTrustDomainAliases, c, y
<1> QED
  BY <1>1, <1>2, Zenon

-----------------------------------------------------------------------------
(* The conditions a field becomes say what the field means.                 *)
AllMatched(and, request) == \A c \in and : Matched(c, request)

LEMMA SomeHit ==
  ASSUME NEW key, NEW values, NEW request, NEW text, NEW u,
         \A v \in Range(values) : Exact(key, v, request, text, u)
  PROVE  (\E g \in MatchersOf(key, values) : Hits(g, request)) <=> \E v \in Range(values) : Means(v, text, u)
BY Zenon DEF MatchersOf, Exact

LEMMA ConditionMatched ==
  ASSUME NEW request, NEW oneOf
  PROVE  /\ Matched([negated |-> FALSE, oneOf |-> oneOf], request) <=> \E g \in oneOf : Hits(g, request)
         /\ Matched([negated |-> TRUE, oneOf |-> oneOf], request) <=> ~ \E g \in oneOf : Hits(g, request)
<1> DEFINE a == [negated |-> FALSE, oneOf |-> oneOf]
           b == [negated |-> TRUE, oneOf |-> oneOf]
<1>1. a.negated = FALSE /\ a.oneOf = oneOf /\ b.negated = TRUE /\ b.oneOf = oneOf
  OBVIOUS
<1>2. \A c : Matched(c, request) <=> (c.negated # \E g \in c.oneOf : Hits(g, request))
  BY Zenon DEF Matched, Hits
<1> HIDE DEF a, b
<1>3. Matched(a, request) <=> \E g \in oneOf : Hits(g, request)
  BY <1>1, <1>2, Zenon
<1>4. Matched(b, request) <=> ~ \E g \in oneOf : Hits(g, request)
  BY <1>1, <1>2, Zenon
<1> QED
  BY <1>3, <1>4, Zenon DEF a, b

Field(key, values, notValues) == [key |-> key, values |-> values, notValues |-> notValues]

LEMMA FieldExact ==
  ASSUME NEW key, NEW values, NEW notValues, NEW request, NEW text, NEW u, NEW S, values \in Seq(S),
         \A v \in Range(values) : Exact(key, v, request, text, u),
         \A v \in Range(notValues) : Exact(key, v, request, text, u)
  PROVE  AllMatched(ConditionsOf(Field(key, values, notValues)), request)
           <=> FieldMeans(values, notValues, text, u)
<1> DEFINE some == MatchersOf(key, values)
           not  == MatchersOf(key, notValues)
           a == [negated |-> FALSE, oneOf |-> some]
           b == [negated |-> TRUE, oneOf |-> not]
<1>1. Field(key, values, notValues).key = key /\ Field(key, values, notValues).values = values
        /\ Field(key, values, notValues).notValues = notValues /\ a.oneOf = some /\ b.oneOf = not
  BY DEF Field
<1>2. ConditionsOf(Field(key, values, notValues)) = {c \in {a, b} : c.oneOf # {}}
  BY <1>1, Zenon DEF ConditionsOf
<1>3. some = {} <=> values = <<>>
  <2>1. Range(values) = {} <=> values = <<>>
    BY DEF Range
  <2>2. some = {} <=> Range(values) = {}
    BY Zenon DEF MatchersOf
  <2> QED
    BY <2>1, <2>2, Zenon
<1>4. Matched(a, request) <=> \E v \in Range(values) : Means(v, text, u)
  BY SomeHit, ConditionMatched, Zenon
<1>5. Matched(b, request) <=> \A v \in Range(notValues) : ~ Means(v, text, u)
  BY SomeHit, ConditionMatched, Zenon
<1>6. not = {} => Range(notValues) = {}
  BY Zenon DEF MatchersOf
<1> HIDE DEF some, not, a, b
<1>7. AllMatched(ConditionsOf(Field(key, values, notValues)), request)
        <=> (some # {} => Matched(a, request)) /\ (not # {} => Matched(b, request))
  BY <1>1, <1>2, Zenon DEF AllMatched
<1> QED
  BY <1>3, <1>4, <1>5, <1>6, <1>7, Zenon DEF FieldMeans

(* The conditions of a list of fields hold when those of every field do.    *)
LEMMA AllOfMatched ==
  ASSUME NEW list, NEW request
  PROVE  AllMatched(AllOf(list), request)
           <=> \A field \in Range(list) : AllMatched(ConditionsOf(field), request)
<1> DEFINE and == UNION {ConditionsOf(field) : field \in Range(list)}
<1>1. AllMatched(and, request) <=> \A field \in Range(list) : AllMatched(ConditionsOf(field), request)
  BY Zenon DEF AllMatched
<1>2. AllOf(list) = IF and = {} THEN {AnyRequest} ELSE and
  BY Zenon DEF AllOf
<1>3. Matched(AnyRequest, request)
  <2>1. ASSUME NEW oneOf, oneOf = {} PROVE Matched([negated |-> TRUE, oneOf |-> oneOf], request)
    <3>1. ~ \E g \in oneOf : Hits(g, request)
      BY <2>1
    <3> QED
      BY <3>1, ConditionMatched, Zenon
  <2> QED
    BY <2>1 DEF AnyRequest
<1> HIDE DEF and
<1>4. CASE and = {}
  BY <1>1, <1>2, <1>3, <1>4, Zenon DEF AllMatched
<1>5. CASE and # {}
  BY <1>1, <1>2, <1>5, Zenon
<1> QED
  BY <1>4, <1>5, Zenon

(* insertFront adds a field, or leaves out one that says nothing.           *)
LEMMA FieldAdded ==
  ASSUME NEW f, NEW list, NEW S, list \in Seq(S)
  PROVE  Range(<<f>> \o list) = {f} \cup Range(list)
<1>1. Len(<<f>> \o list) = 1 + Len(list) /\ (<<f>> \o list)[1] = f /\ DOMAIN (<<f>> \o list) = 1..1 + Len(list)
  OBVIOUS
<1>2. \A i \in 1..Len(list) : (<<f>> \o list)[1 + i] = list[i]
  OBVIOUS
<1>3. \A i \in 2..1 + Len(list) : i - 1 \in 1..Len(list) /\ (<<f>> \o list)[i] = list[i - 1]
  OBVIOUS
<1>4. \A i \in 1..Len(list) : 1 + i \in 1..1 + Len(list)
  OBVIOUS
<1>5. DOMAIN list = 1..Len(list)
  OBVIOUS
<1>6. ASSUME NEW x \in Range(<<f>> \o list) PROVE x \in {f} \cup Range(list)
  <2>1. PICK i \in 1..1 + Len(list) : x = (<<f>> \o list)[i]
    BY <1>1, Zenon DEF Range
  <2>2. i = 1 \/ i \in 2..1 + Len(list)
    OBVIOUS
  <2> QED
    BY <1>1, <1>3, <1>5, <2>1, <2>2, Zenon DEF Range
<1>7. f \in Range(<<f>> \o list)
  <2>1. 1 \in 1..1 + Len(list)
    OBVIOUS
  <2> QED
    BY <1>1, <2>1, Zenon DEF Range
<1>8. ASSUME NEW x \in Range(list) PROVE x \in Range(<<f>> \o list)
  <2>1. PICK i \in 1..Len(list) : x = list[i]
    BY <1>5, Zenon DEF Range
  <2>2. x = (<<f>> \o list)[1 + i] /\ 1 + i \in DOMAIN (<<f>> \o list)
    BY <1>1, <1>2, <1>4, <2>1, Zenon
  <2> QED
    BY <2>2, Zenon DEF Range
<1> QED
  BY <1>6, <1>7, <1>8, Zenon

LEMMA Inserted ==
  ASSUME NEW S, NEW list \in Seq(S), NEW key, NEW values, NEW notValues, NEW request
  PROVE  /\ insertFront(list, key, values, notValues) \in Seq(S \cup {Field(key, values, notValues)})
         /\ Range(insertFront(list, key, values, notValues)) \subseteq Range(list) \cup {Field(key, values, notValues)}
         /\ AllMatched(AllOf(insertFront(list, key, values, notValues)), request)
              <=> /\ AllMatched(AllOf(list), request)
                  /\ AllMatched(ConditionsOf(Field(key, values, notValues)), request)
<1> DEFINE f == Field(key, values, notValues)
<1>1. CASE values = <<>> /\ notValues = <<>>
  <2>1. insertFront(list, key, values, notValues) = list
    BY <1>1, Zenon DEF insertFront
  <2>2. list \in Seq(S \cup {f})
    OBVIOUS
  <2>3. Range(values) = {} /\ Range(notValues) = {} /\ values \in Seq({})
    BY <1>1 DEF Range
  <2>4. FieldMeans(values, notValues, <<>>, FALSE)
    BY <1>1, <2>3, Zenon DEF FieldMeans
  <2>5. AllMatched(ConditionsOf(f), request)
    BY <2>3, <2>4, FieldExact, Zenon
  <2> QED
    BY <2>1, <2>2, <2>5, Zenon
<1>2. CASE ~ (values = <<>> /\ notValues = <<>>)
  <2>1. insertFront(list, key, values, notValues) = <<f>> \o list
    BY <1>2, Zenon DEF insertFront, Field
  <2> HIDE DEF f
  <2>2. <<f>> \o list \in Seq(S \cup {f})
    OBVIOUS
  <2>3. Range(<<f>> \o list) = {f} \cup Range(list)
    BY FieldAdded, Zenon
  <2>4. AllMatched(AllOf(<<f>> \o list), request)
          <=> AllMatched(AllOf(list), request) /\ AllMatched(ConditionsOf(f), request)
    BY <2>3, AllOfMatched, Zenon
  <2> QED
    BY <2>1, <2>2, <2>3, <2>4, Zenon DEF f
<1> QED
  BY <1>1, <1>2, Zenon

(* The two fields of a source or of an operation.                           *)
AllExact(key, values, request, text, u) ==
  (\E S : values \in Seq(S)) /\ \A v \in Range(values) : Exact(key, v, request, text, u)

Pair(k1, v1, n1, k2, v2, n2) == insertFront(insertFront(<<>>, k1, v1, n1), k2, v2, n2)

FieldExactly(key, values, notValues, text, u, request) ==
  /\ AllExact(key, values, request, text, u)
  /\ AllExact(key, notValues, request, text, u)

LEMMA PairExact ==
  ASSUME NEW k1, NEW v1, NEW n1, NEW t1, NEW u1, NEW k2, NEW v2, NEW n2, NEW t2, NEW u2, NEW request,
         FieldExactly(k1, v1, n1, t1, u1, request), FieldExactly(k2, v2, n2, t2, u2, request)
  PROVE  AllMatched(AllOf(Pair(k1, v1, n1, k2, v2, n2)), request)
           <=> FieldMeans(v1, n1, t1, u1) /\ FieldMeans(v2, n2, t2, u2)
<1> DEFINE f == Field(k1, v1, n1)
           g == Field(k2, v2, n2)
           one == insertFront(<<>>, k1, v1, n1)
<1>1. <<>> \in Seq({}) /\ Range(<<>>) = {}
  BY DEF Range
<1>2. AllMatched(AllOf(<<>>), request)
  BY <1>1, AllOfMatched, Zenon
<1>3. one \in Seq({} \cup {f}) /\ (AllMatched(AllOf(one), request) <=> AllMatched(ConditionsOf(f), request))
  BY <1>1, <1>2, Inserted, Zenon
<1> HIDE DEF one
<1>4. AllMatched(AllOf(insertFront(one, k2, v2, n2)), request)
        <=> AllMatched(AllOf(one), request) /\ AllMatched(ConditionsOf(g), request)
  BY <1>3, Inserted, Zenon
<1>5. AllMatched(ConditionsOf(f), request) <=> FieldMeans(v1, n1, t1, u1)
  BY FieldExact, Zenon DEF FieldExactly, AllExact
<1>6. AllMatched(ConditionsOf(g), request) <=> FieldMeans(v2, n2, t2, u2)
  BY FieldExact, Zenon DEF FieldExactly, AllExact
<1> QED
  BY <1>3, <1>4, <1>5, <1>6, Zenon DEF Pair, one

(* The trust domain of plain values is not migrated.                        *)
Migrates(field) ==
  [field EXCEPT !.values = [j \in DOMAIN @ |-> ReplaceTrustDomainAliases(@[j])],
                !.notValues = [j \in DOMAIN @ |-> ReplaceTrustDomainAliases(@[j])]]

Kept(values) == [j \in DOMAIN values |-> ReplaceTrustDomainAliases(values[j])] = values

LEMMA ValuesKept ==
  ASSUME NEW S, NEW values \in Seq(S), \A v \in Range(values) : IsIdentity(v)
  PROVE  Kept(values)
<1>1. \A j \in DOMAIN values : ReplaceTrustDomainAliases(values[j]) = values[j]
  BY AliasKept, Zenon DEF Range
<1>2. values = [j \in DOMAIN values |-> values[j]]
  OBVIOUS
<1> QED
  BY <1>1, <1>2, Zenon DEF Kept

LEMMA FieldKept ==
  ASSUME NEW key, NEW values, NEW notValues, Kept(values), Kept(notValues)
  PROVE  Migrates(Field(key, values, notValues)) = Field(key, values, notValues)
<1> DEFINE R(s) == [j \in DOMAIN s |-> ReplaceTrustDomainAliases(s[j])]
<1>1. \A f : Migrates(f) = [f EXCEPT !.values = R(f.values), !.notValues = R(f.notValues)]
  BY Zenon DEF Migrates
<1>2. R(values) = values /\ R(notValues) = notValues
  BY Zenon DEF Kept
<1> HIDE DEF R
<1>3. Field(key, values, notValues).values = values /\ Field(key, values, notValues).notValues = notValues
  BY DEF Field
<1>4. Migrates(Field(key, values, notValues))
        = [Field(key, values, notValues) EXCEPT !.values = values, !.notValues = notValues]
  BY <1>1, <1>2, <1>3, Zenon
<1> QED
  BY <1>4, Zenon DEF Field

LEMMA ListKept ==
  ASSUME NEW S, NEW list \in Seq(S),
         \A field \in Range(list) : field.key = "principal" => Migrates(field) = field
  PROVE  MigrateTrustDomain(list) = list
<1>1. MigrateTrustDomain(list) =
        [i \in DOMAIN list |-> IF list[i].key # "principal" THEN list[i] ELSE Migrates(list[i])]
  BY Zenon DEF MigrateTrustDomain, Migrates
<1>2. \A i \in DOMAIN list : list[i].key = "principal" => Migrates(list[i]) = list[i]
  BY Zenon DEF Range
<1>3. list = [i \in DOMAIN list |-> list[i]]
  OBVIOUS
<1> QED
  BY <1>1, <1>2, <1>3, Zenon

OperationFields(o) == Pair("interface", o.interfaces, o.notInterfaces, "method", o.methods, o.notMethods)
SourceFields(s) == Pair("namespace", s.namespaces, s.notNamespaces, "principal", s.principals, s.notPrincipals)

LEMMA OperationExact ==
  ASSUME NEW request, PlainRequest(request), NEW o, PlainOperation(o)
  PROVE  AllMatched(AllOf(OperationFields(o)), request) <=> OperationMeans(o, request)
<1>1. /\ AllExact("interface", o.interfaces, request, request.interface, FALSE)
      /\ AllExact("interface", o.notInterfaces, request, request.interface, FALSE)
  BY InterfaceExact, Zenon DEF PlainOperation, AllAre, AllExact
<1>2. /\ AllExact("method", o.methods, request, request.method, FALSE)
      /\ AllExact("method", o.notMethods, request, request.method, FALSE)
  BY MethodExact, Zenon DEF PlainOperation, AllAre, AllExact
<1>3. /\ FieldExactly("interface", o.interfaces, o.notInterfaces, request.interface, FALSE, request)
      /\ FieldExactly("method", o.methods, o.notMethods, request.method, FALSE, request)
  BY <1>1, <1>2, Zenon DEF FieldExactly
<1>4. AllMatched(AllOf(Pair("interface", o.interfaces, o.notInterfaces, "method", o.methods, o.notMethods)), request)
        <=> /\ FieldMeans(o.interfaces, o.notInterfaces, request.interface, FALSE)
            /\ FieldMeans(o.methods, o.notMethods, request.method, FALSE)
  BY <1>3, PairExact, Zenon
<1> QED
  BY <1>4, Zenon DEF OperationFields, OperationMeans

LEMMA SourceKept ==
  ASSUME NEW s, PlainSource(s)
  PROVE  MigrateTrustDomain(SourceFields(s)) = SourceFields(s)
<1> DEFINE f == Field("namespace", s.namespaces, s.notNamespaces)
           g == Field("principal", s.principals, s.notPrincipals)
           one == insertFront(<<>>, "namespace", s.namespaces, s.notNamespaces)
           two == insertFront(one, "principal", s.principals, s.notPrincipals)
<1>1. <<>> \in Seq({}) /\ Range(<<>>) = {}
  BY DEF Range
<1>2. one \in Seq({} \cup {f}) /\ Range(one) \subseteq {} \cup {f}
  BY <1>1, Inserted, Zenon
<1> HIDE DEF one
<1>3. two \in Seq(({} \cup {f}) \cup {g}) /\ Range(two) \subseteq Range(one) \cup {g}
  BY <1>2, Inserted, Zenon
<1>4. f.key = "namespace"
  BY DEF Field
<1>5. Migrates(g) = g
  <2>1. Kept(s.principals)
    BY ValuesKept, Zenon DEF PlainSource, AllAre
  <2>2. Kept(s.notPrincipals)
    BY ValuesKept, Zenon DEF PlainSource, AllAre
  <2> QED
    BY <2>1, <2>2, FieldKept, Zenon
<1> HIDE DEF f, g, two
<1>6. "namespace" # "principal"
  OBVIOUS
<1>7. \A field \in Range(two) : field.key = "principal" => Migrates(field) = field
  BY <1>2, <1>3, <1>4, <1>5, <1>6, Zenon
<1>8. MigrateTrustDomain(two) = two
  BY <1>3, <1>7, ListKept, Zenon
<1> QED
  BY <1>8, Zenon DEF two, one, SourceFields, Pair

LEMMA SourceExact ==
  ASSUME NEW request, PlainRequest(request), NEW s, PlainSource(s)
  PROVE  AllMatched(AllOf(MigrateTrustDomain(SourceFields(s))), request) <=> SourceMeans(s, request.source, TRUE)
<1>1. /\ AllExact("namespace", s.namespaces, request, NamespaceOf(request.source), FALSE)
      /\ AllExact("namespace", s.notNamespaces, request, NamespaceOf(request.source), FALSE)
  BY NamespaceExact, Zenon DEF PlainSource, AllAre, AllExact
<1>2. /\ AllExact("principal", s.principals, request, Principal(request.source), TRUE)
      /\ AllExact("principal", s.notPrincipals, request, Principal(request.source), TRUE)
  BY PrincipalExact, Zenon DEF PlainSource, AllAre, AllExact, IsIdentity
<1>3. SourceMeans(s, request.source, TRUE) <=>
        /\ FieldMeans(s.namespaces, s.notNamespaces, NamespaceOf(request.source), FALSE)
        /\ FieldMeans(s.principals, s.notPrincipals, Principal(request.source), TRUE)
  BY Zenon DEF SourceMeans, NamespaceOf
<1>4. AllMatched(AllOf(SourceFields(s)), request) <=> SourceMeans(s, request.source, TRUE)
  <2>1. /\ FieldExactly("namespace", s.namespaces, s.notNamespaces, NamespaceOf(request.source), FALSE, request)
        /\ FieldExactly("principal", s.principals, s.notPrincipals, Principal(request.source), TRUE, request)
    BY <1>1, <1>2, Zenon DEF FieldExactly
  <2>2. AllMatched(AllOf(Pair("namespace", s.namespaces, s.notNamespaces,
                              "principal", s.principals, s.notPrincipals)), request)
          <=> /\ FieldMeans(s.namespaces, s.notNamespaces, NamespaceOf(request.source), FALSE)
              /\ FieldMeans(s.principals, s.notPrincipals, Principal(request.source), TRUE)
    BY <2>1, PairExact, Zenon
  <2> QED
    BY <1>3, <2>2, Zenon DEF SourceFields
<1> QED
  BY <1>4, SourceKept, Zenon

(* A rule becomes a policy that matches the requests the rule means.        *)
PlainRule(r) ==
  /\ \A s \in Range(r.from) : PlainSource(s)
  /\ \A o \in Range(r.to) : PlainOperation(o)

LEMMA RuleExact ==
  ASSUME NEW request, PlainRequest(request), NEW r, PlainRule(r)
  PROVE  PolicyMatches(GeneratePolicy(r), request) <=> RuleMeans(r, request, TRUE)
<1>1. /\ GeneratePolicy(r).permissions = {AllOf(list) : list \in NewPermissions(r)}
      /\ GeneratePolicy(r).principals = {AllOf(MigrateTrustDomain(list)) : list \in NewPrincipals(r)}
  BY DEF GeneratePolicy
<1>2. PolicyMatches(GeneratePolicy(r), request)
        <=> /\ \E list \in NewPermissions(r) : AllMatched(AllOf(list), request)
            /\ \E list \in NewPrincipals(r) : AllMatched(AllOf(MigrateTrustDomain(list)), request)
  BY <1>1, Zenon DEF PolicyMatches, AllMatched
<1>3. <<>> \in Seq({}) /\ Range(<<>>) = {}
  BY DEF Range
<1>4. AllMatched(AllOf(<<>>), request)
  BY <1>3, AllOfMatched, Zenon
<1>5. MigrateTrustDomain(<<>>) = <<>>
  BY <1>3, ListKept, Zenon
<1>6. (\E list \in NewPermissions(r) : AllMatched(AllOf(list), request))
        <=> (r.to = <<>> \/ \E o \in Range(r.to) : OperationMeans(o, request))
  <2>1. CASE r.to = <<>>
    BY <1>4, <2>1, Zenon DEF NewPermissions
  <2>2. CASE r.to # <<>>
    <3>1. NewPermissions(r) = {OperationFields(o) : o \in Range(r.to)}
      BY <2>2, Zenon DEF NewPermissions, OperationFields, Pair
    <3>2. \A o \in Range(r.to) : AllMatched(AllOf(OperationFields(o)), request) <=> OperationMeans(o, request)
      BY OperationExact, Zenon DEF PlainRule
    <3> QED
      BY <2>2, <3>1, <3>2, Zenon
  <2> QED
    BY <2>1, <2>2, Zenon
<1>7. (\E list \in NewPrincipals(r) : AllMatched(AllOf(MigrateTrustDomain(list)), request))
        <=> (r.from = <<>> \/ \E s \in Range(r.from) : SourceMeans(s, request.source, TRUE))
  <2>1. CASE r.from = <<>>
    BY <1>4, <1>5, <2>1, Zenon DEF NewPrincipals
  <2>2. CASE r.from # <<>>
    <3>1. NewPrincipals(r) = {SourceFields(s) : s \in Range(r.from)}
      BY <2>2, Zenon DEF NewPrincipals, SourceFields, Pair
    <3>2. \A s \in Range(r.from) :
            AllMatched(AllOf(MigrateTrustDomain(SourceFields(s))), request) <=> SourceMeans(s, request.source, TRUE)
      BY SourceExact, Zenon DEF PlainRule
    <3> QED
      BY <2>2, <3>1, <3>2, Zenon
  <2> QED
    BY <2>1, <2>2, Zenon
<1> QED
  BY <1>2, <1>6, <1>7, Zenon DEF RuleMeans

(* Where principals have no dots that matter, the readings of a rule agree. *)
LEMMA FieldAlike ==
  ASSUME NEW values, NEW notValues, AllAre(values, IsIdentity), AllAre(notValues, IsIdentity),
         Quotable(values), Quotable(notValues), NEW text \in Seq(Token)
  PROVE  FieldMeans(values, notValues, text, TRUE) <=> FieldMeans(values, notValues, text, FALSE)
<1>1. ASSUME NEW v, IsIdentity(v), BeginsWithStar(v) => "." \notin Range(v)
      PROVE  Means(v, text, TRUE) <=> Means(v, text, FALSE)
  <2>1. Shaped(v)
    BY <1>1, ValueShape, Zenon DEF IsIdentity
  <2> QED
    BY <1>1, <2>1, ReadAlike, Zenon
<1>2. \A v \in Range(values) : Means(v, text, TRUE) <=> Means(v, text, FALSE)
  BY <1>1, Zenon DEF AllAre, Quotable
<1>3. \A v \in Range(notValues) : Means(v, text, TRUE) <=> Means(v, text, FALSE)
  BY <1>1, Zenon DEF AllAre, Quotable
<1> QED
  BY <1>2, <1>3, Zenon DEF FieldMeans

LEMMA RuleAlike ==
  ASSUME NEW request, PlainRequest(request), NEW r, PlainRule(r), RuleQuotable(r)
  PROVE  RuleMeans(r, request, TRUE) <=> RuleMeans(r, request, FALSE)
<1>1. Principal(request.source) \in Seq(Token)
  <2>1. CASE request.source = <<>>
    <3>1. <<>> \in Seq(Token)
      OBVIOUS
    <3> QED
      BY <2>1, <3>1, Zenon DEF Principal
  <2>2. CASE request.source # <<>>
    BY <2>2, SourceIdentity, Zenon DEF PlainRequest
  <2> QED
    BY <2>1, <2>2, Zenon
<1>2. ASSUME NEW s \in Range(r.from)
      PROVE  SourceMeans(s, request.source, TRUE) <=> SourceMeans(s, request.source, FALSE)
  <2>1. AllAre(s.principals, IsIdentity) /\ AllAre(s.notPrincipals, IsIdentity)
    BY Zenon DEF PlainRule, PlainSource
  <2>2. Quotable(s.principals) /\ Quotable(s.notPrincipals)
    BY Zenon DEF RuleQuotable
  <2>3. FieldMeans(s.principals, s.notPrincipals, Principal(request.source), TRUE)
          <=> FieldMeans(s.principals, s.notPrincipals, Principal(request.source), FALSE)
    BY <1>1, <2>1, <2>2, FieldAlike, Zenon
  <2> QED
    BY <2>3, Zenon DEF SourceMeans
<1> QED
  BY <1>2, Zenon DEF RuleMeans

-----------------------------------------------------------------------------
(* The filters.  A finite set of numbers has a greatest one: of the sets    *)
(* that have none, take one of the smallest.                                *)
HasGreatest(T) == \E x \in T : \A y \in T : x >= y
Greatless(n) ==
  \E T : T \subseteq Nat /\ T # {} /\ IsFiniteSet(T) /\ Cardinality(T) = n /\ ~ HasGreatest(T)

LEMMA Greater ==
  ASSUME NEW T, T \subseteq Nat, NEW x \in T, HasGreatest(T \ {x})
  PROVE  HasGreatest(T)
<1>1. PICK z \in T \ {x} : \A y \in T \ {x} : z >= y
  BY Zenon DEF HasGreatest
<1>2. x \in Nat /\ z \in Nat
  BY <1>1
<1>3. CASE z >= x
  BY <1>1, <1>3, Zenon DEF HasGreatest
<1>4. CASE ~ z >= x
  <2>1. \A y \in T : x >= y
    BY <1>1, <1>2, <1>4
  <2> QED
    BY <2>1, Zenon DEF HasGreatest
<1> QED
  BY <1>3, <1>4, Zenon

LEMMA GreatestExists ==
  ASSUME NEW T, T \subseteq Nat, T # {}, IsFiniteSet(T)
  PROVE  HasGreatest(T)
<1> SUFFICES ASSUME ~ HasGreatest(T) PROVE FALSE
  OBVIOUS
<1> DEFINE B == {n \in Nat : Greatless(n)}
<1>1. Cardinality(T) \in B
  BY FS_CardinalityType, Zenon DEF Greatless
<1>2. B \subseteq Nat
  BY Zenon
<1>3. PICK n \in B : \A m \in B : n <= m
  BY <1>1, <1>2, Least, Zenon
<1>4. PICK U : U \subseteq Nat /\ U # {} /\ IsFiniteSet(U) /\ Cardinality(U) = n /\ ~ HasGreatest(U)
  BY <1>3, Zenon DEF Greatless
<1>5. PICK x : x \in U
  BY <1>4, Zenon
<1>6. IsFiniteSet(U \ {x}) /\ Cardinality(U \ {x}) = n - 1 /\ Cardinality(U \ {x}) \in Nat
  BY <1>4, <1>5, FS_RemoveElement, FS_CardinalityType, Zenon
<1>7. U \ {x} # {}
  <2> SUFFICES ASSUME U \ {x} = {} PROVE FALSE
    OBVIOUS
  <2>1. x \in Nat /\ \A y \in U : x >= y
    BY <1>4, <1>5
  <2> QED
    BY <1>4, <1>5, <2>1, Zenon DEF HasGreatest
<1>8. ~ HasGreatest(U \ {x})
  BY <1>4, <1>5, Greater, Zenon
<1>9. U \ {x} \subseteq Nat
  BY <1>4, Zenon
<1>10. Cardinality(U \ {x}) \in B
  BY <1>6, <1>7, <1>8, <1>9, Zenon DEF Greatless
<1>11. n <= n - 1
  BY <1>3, <1>6, <1>10, Zenon
<1>12. n \in Nat
  BY <1>2, <1>3, Zenon
<1> HIDE DEF B
<1> QED
  BY <1>11, <1>12

LEMMA MaxMember ==
  ASSUME NEW T, T \subseteq Nat, T # {}, IsFiniteSet(T)
  PROVE  Max(T) \in T /\ \A y \in T : Max(T) >= y
BY GreatestExists, Zenon DEF HasGreatest, Max

(* A list of policies.                                                      *)
PolicyList(ps) == DOMAIN ps \subseteq PolicyNames /\ \A k \in DOMAIN ps : ps[k] \in Policies

LEMMA RulesPlain ==
  ASSUME PoliciesPlain, NEW p \in Policies
  PROVE  IsSequence(p.rules) /\ \A r \in Range(p.rules) : r # None => PlainRule(r)
BY Zenon DEF PoliciesPlain, PlainRule

(* The rule of the last policy that has an i-th one stands.                 *)
LEMMA LastStands ==
  ASSUME NEW ps, PolicyList(ps), NEW i, RulesAt(ps, i) # {}
  PROVE  /\ Stands(ps, Max(RulesAt(ps, i)), i)
         /\ \A k \in DOMAIN ps : Stands(ps, k, i) => k = Max(RulesAt(ps, i))
<1> DEFINE T == RulesAt(ps, i)
           m == Max(T)
<1>1. T \subseteq DOMAIN ps /\ DOMAIN ps \subseteq Nat
  BY PolicyNamesAssumption, Zenon DEF RulesAt, PolicyList
<1>2. IsFiniteSet(T) /\ T \subseteq Nat
  <2>1. T \subseteq PolicyNames
    BY <1>1, Zenon DEF PolicyList
  <2> QED
    BY <2>1, PolicyNamesAssumption, FS_Subset, Zenon
<1>3. m \in T /\ \A y \in T : m >= y
  BY <1>2, MaxMember, Zenon
<1> HIDE DEF T, m
<1>4. \A j \in DOMAIN ps : j > m => j \notin T
  BY <1>1, <1>2, <1>3
<1>5. ASSUME NEW k \in T, \A j \in DOMAIN ps : j > k => j \notin T PROVE k = m
  <2>1. ~ m > k
    BY <1>1, <1>3, <1>5, Zenon
  <2> QED
    BY <1>2, <1>3, <1>5, <2>1
<1> QED
  BY <1>3, <1>4, <1>5, Zenon DEF Stands, T, m

(* A rule that stands and means the request, read as the matchers do.       *)
StandingRead(ps, request) ==
  \E k \in DOMAIN ps : \E i \in DOMAIN ps[k].rules :
    Stands(ps, k, i) /\ RuleMeans(ps[k].rules[i], request, TRUE)

LEMMA StandingRule ==
  ASSUME PoliciesPlain, NEW ps, PolicyList(ps), NEW k \in DOMAIN ps, NEW i \in 1..Length(ps), Stands(ps, k, i)
  PROVE  /\ i \in DOMAIN ps[k].rules /\ ps[k].rules[i] # None
         /\ ps[k].rules[i] \in Range(ps[k].rules) /\ PlainRule(ps[k].rules[i])
<1>1. i <= Len(ps[k].rules) /\ ps[k].rules[i] # None
  BY Zenon DEF Stands, RulesAt
<1>2. ps[k] \in Policies
  BY Zenon DEF PolicyList
<1>3. IsSequence(ps[k].rules)
  BY <1>2, RulesPlain, Zenon
<1>4. Length(ps) \in Nat
  BY PolicyNamesAssumption, FS_Subset, FS_CardinalityType, Zenon DEF PolicyList, Length
<1>5. i \in DOMAIN ps[k].rules
  BY <1>1, <1>3, <1>4 DEF IsSequence
<1>6. ps[k].rules[i] \in Range(ps[k].rules)
  BY <1>5, Zenon DEF Range
<1> QED
  BY <1>1, <1>2, <1>5, <1>6, RulesPlain, Zenon

SomeMatches(built, request) == \E policy \in built : PolicyMatches(policy, request)

LEMMA BuiltFrom ==
  ASSUME PoliciesPlain, NEW ps, PolicyList(ps), NEW x, NEW request, PlainRequest(request),
         SomeMatches(Build(ps, x).policies, request)
  PROVE  StandingRead(ps, request)
<1>1. Build(ps, x).policies = {GeneratePolicy(ps[Max(RulesAt(ps, i))].rules[i]) :
                                 i \in {i \in 1..Length(ps) : RulesAt(ps, i) # {}}}
  BY DEF Build
<1>2. PICK i \in 1..Length(ps) : RulesAt(ps, i) # {} /\ PolicyMatches(GeneratePolicy(ps[Max(RulesAt(ps, i))].rules[i]), request)
  BY <1>1, Zenon DEF SomeMatches
<1> DEFINE k == Max(RulesAt(ps, i))
<1>3. Stands(ps, k, i)
  BY <1>2, LastStands, Zenon
<1>4. k \in DOMAIN ps
  BY <1>3, Zenon DEF Stands, RulesAt
<1>5. i \in DOMAIN ps[k].rules /\ PlainRule(ps[k].rules[i])
  BY <1>3, <1>4, StandingRule, Zenon
<1>6. RuleMeans(ps[k].rules[i], request, TRUE)
  BY <1>2, <1>5, RuleExact, Zenon
<1> HIDE DEF k
<1> QED
  BY <1>3, <1>4, <1>5, <1>6, Zenon DEF StandingRead

LEMMA BuiltFor ==
  ASSUME PoliciesPlain, NEW ps, PolicyList(ps), ~ Overruns(ps), NEW x, NEW request, PlainRequest(request),
         StandingRead(ps, request)
  PROVE  SomeMatches(Build(ps, x).policies, request)
<1>1. Build(ps, x).policies = {GeneratePolicy(ps[Max(RulesAt(ps, i))].rules[i]) :
                                 i \in {i \in 1..Length(ps) : RulesAt(ps, i) # {}}}
  BY DEF Build
<1>0. PICK k \in DOMAIN ps :
        \E i \in DOMAIN ps[k].rules : Stands(ps, k, i) /\ RuleMeans(ps[k].rules[i], request, TRUE)
  BY Zenon DEF StandingRead
<1>2. PICK i \in DOMAIN ps[k].rules : Stands(ps, k, i) /\ RuleMeans(ps[k].rules[i], request, TRUE)
  BY <1>0, Zenon
<1>3. IsSequence(ps[k].rules)
  <2>1. ps[k] \in Policies
    BY Zenon DEF PolicyList
  <2> QED
    BY <2>1, RulesPlain, Zenon
<1>4. Length(ps) \in Nat
  BY PolicyNamesAssumption, FS_Subset, FS_CardinalityType, Zenon DEF PolicyList, Length
<1>5. ~ Len(ps[k].rules) > Length(ps)
  BY Zenon DEF Overruns, Range
<1>6. i \in 1..Length(ps)
  BY <1>3, <1>4, <1>5 DEF IsSequence
<1>7. RulesAt(ps, i) # {}
  BY <1>2, Zenon DEF Stands
<1>8. k = Max(RulesAt(ps, i))
  BY <1>2, <1>7, LastStands, Zenon
<1>9. PlainRule(ps[k].rules[i])
  BY <1>2, <1>6, StandingRule, Zenon
<1>10. PolicyMatches(GeneratePolicy(ps[k].rules[i]), request)
  BY <1>2, <1>9, RuleExact, Zenon
<1> QED
  BY <1>1, <1>6, <1>7, <1>8, <1>10, Zenon DEF SomeMatches

(* What stands is said, and where principals have no dots that matter it is *)
(* said literally.                                                          *)
LEMMA ReadSaid ==
  ASSUME NEW ps, NEW request, StandingRead(ps, request)
  PROVE  SomeRuleMeans(ps, request)
<1>0. PICK k \in DOMAIN ps :
        \E i \in DOMAIN ps[k].rules : Stands(ps, k, i) /\ RuleMeans(ps[k].rules[i], request, TRUE)
  BY Zenon DEF StandingRead
<1>1. PICK i \in DOMAIN ps[k].rules : Stands(ps, k, i) /\ RuleMeans(ps[k].rules[i], request, TRUE)
  BY <1>0, Zenon
<1>2. ps[k].rules[i] # None /\ ps[k].rules[i] \in Range(ps[k].rules) /\ ps[k] \in Range(ps)
  BY <1>1, Zenon DEF Stands, RulesAt, Range
<1> QED
  BY <1>1, <1>2, Zenon DEF SomeRuleMeans

LEMMA ReadLiterally ==
  ASSUME PoliciesPlain, NEW ps, PolicyList(ps), PoliciesQuotable(ps), NEW request, PlainRequest(request)
  PROVE  StandingRead(ps, request) <=> StandingRuleMeans(ps, request)
<1>1. ASSUME NEW k \in DOMAIN ps, NEW i \in DOMAIN ps[k].rules, Stands(ps, k, i)
      PROVE  RuleMeans(ps[k].rules[i], request, TRUE) <=> RuleMeans(ps[k].rules[i], request, FALSE)
  <2>1. /\ ps[k] \in Policies /\ ps[k] \in Range(ps)
        /\ ps[k].rules[i] # None /\ ps[k].rules[i] \in Range(ps[k].rules)
    BY <1>1, Zenon DEF Stands, RulesAt, Range, PolicyList
  <2>2. PlainRule(ps[k].rules[i])
    BY <2>1, RulesPlain, Zenon
  <2>3. RuleQuotable(ps[k].rules[i])
    BY <2>1, Zenon DEF PoliciesQuotable
  <2> QED
    BY <2>2, <2>3, RuleAlike, Zenon
<1> QED
  BY <1>1, Zenon DEF StandingRead, StandingRuleMeans

(* The policies that are stored, and those the filters are built from.      *)
WrittenInv ==
  /\ policies \in [PolicyNames -> Policies \cup {None}]
  /\ listed # None => listed = Stored \/ listed = Restrict(policies, {})
  /\ https \in DubboServices \cup {<<>>}

LEMMA StoredPolicies ==
  ASSUME WrittenInv
  PROVE  PolicyList(Stored)
<1>1. policies \in [PolicyNames -> Policies \cup {None}]
  BY Zenon DEF WrittenInv
<1>2. DOMAIN Stored = {k \in PolicyNames : policies[k] # None} /\ \A k \in DOMAIN Stored : Stored[k] = policies[k]
  BY Zenon DEF Stored, Restrict
<1> QED
  BY <1>1, <1>2, Zenon DEF PolicyList

LEMMA OfActionOf ==
  ASSUME NEW ps, NEW x
  PROVE  /\ DOMAIN OfAction(ps, x) = {k \in DOMAIN ps : ps[k].action = x}
         /\ \A k \in DOMAIN OfAction(ps, x) : OfAction(ps, x)[k] = ps[k]
BY Zenon DEF OfAction, Restrict

LEMMA ActionPolicies ==
  ASSUME NEW ps, NEW x
  PROVE  /\ PolicyList(ps) => PolicyList(OfAction(ps, x))
         /\ PoliciesQuotable(ps) => PoliciesQuotable(OfAction(ps, x))
<1>1. PolicyList(ps) => PolicyList(OfAction(ps, x))
  BY OfActionOf, Zenon DEF PolicyList
<1>2. Range(OfAction(ps, x)) \subseteq Range(ps)
  BY OfActionOf, Zenon DEF Range
<1> QED
  BY <1>1, <1>2, Zenon DEF PoliciesQuotable

LEMMA RequestPlain ==
  ASSUME RequestsPlain, NEW request \in PolicyRequests
  PROVE  PlainRequest(request)
BY Zenon DEF RequestsPlain, PlainRequest, PlainIdentity

LEMMA BuiltAction ==
  ASSUME NEW ps, NEW x
  PROVE  Build(ps, x).action = x
BY DEF Build

(* Requests that a filter matches are meant (OnlyMeantMatch), in every      *)
(* state with a store of policies.                                          *)
LEMMA MeantWhenMatched ==
  ASSUME PoliciesPlain, RequestsPlain, WrittenInv
  PROVE  OnlyMeantMatch
<1> SUFFICES ASSUME listed # None, NEW f \in BuildDubboFilter(listed), NEW request \in PolicyRequests,
                    SomeMatches(f.policies, request)
             PROVE  SomeRuleMeans(OfAction(Stored, f.action), request)
  BY Zenon DEF OnlyMeantMatch, SomeMatches
<1>1. PICK x : f = Build(OfAction(listed, x), x) /\ DOMAIN OfAction(listed, x) # {}
  BY Zenon DEF BuildDubboFilter
<1>2. f.action = x
  BY <1>1, BuiltAction, Zenon
<1>3. listed = Stored
  <2>1. CASE listed = Restrict(policies, {})
    <3>1. DOMAIN listed = {}
      BY <2>1, Zenon DEF Restrict
    <3> QED
      BY <1>1, <3>1, OfActionOf, Zenon
  <2> QED
    BY <2>1, Zenon DEF WrittenInv
<1>4. PolicyList(OfAction(Stored, x))
  BY StoredPolicies, ActionPolicies, Zenon
<1>5. SomeMatches(Build(OfAction(Stored, x), x).policies, request)
  BY <1>1, <1>3, Zenon
<1>6. StandingRead(OfAction(Stored, x), request)
  BY <1>4, <1>5, RequestPlain, BuiltFrom, Zenon
<1> QED
  BY <1>2, <1>6, ReadSaid, Zenon

LEMMA DecidedAsWritten ==
  ASSUME PoliciesPlain, RequestsPlain, WrittenInv
  PROVE  PoliciesDecide
<1> DEFINE deny  == OfAction(Stored, "DENY")
           allow == OfAction(Stored, "ALLOW")
<1> SUFFICES ASSUME listed = Stored, PoliciesQuotable(Stored), ~ Overruns(deny), ~ Overruns(allow),
                    NEW request \in PolicyRequests
             PROVE  Allowed(BuildDubboFilter(Stored), request)
                      <=> /\ ~ StandingRuleMeans(deny, request)
                          /\ DOMAIN allow = {} \/ StandingRuleMeans(allow, request)
  BY Zenon DEF PoliciesDecide
<1>1. /\ PlainRequest(request) /\ PolicyList(deny) /\ PolicyList(allow)
      /\ PoliciesQuotable(deny) /\ PoliciesQuotable(allow)
  BY RequestPlain, StoredPolicies, ActionPolicies, Zenon
<1>2. SomeMatches(Build(deny, "DENY").policies, request) <=> StandingRuleMeans(deny, request)
  BY <1>1, BuiltFrom, BuiltFor, ReadLiterally, Zenon
<1>3. SomeMatches(Build(allow, "ALLOW").policies, request) <=> StandingRuleMeans(allow, request)
  BY <1>1, BuiltFrom, BuiltFor, ReadLiterally, Zenon
<1>4. BuildDubboFilter(Stored) = {Build(OfAction(Stored, x), x) :
                                    x \in {x \in {"DENY", "ALLOW"} : DOMAIN OfAction(Stored, x) # {}}}
  BY Zenon DEF BuildDubboFilter
<1>5. Build(deny, "DENY").action = "DENY" /\ Build(allow, "ALLOW").action = "ALLOW"
  BY BuiltAction, Zenon
<1>6. DOMAIN deny = {} => ~ StandingRuleMeans(deny, request)
  BY Zenon DEF StandingRuleMeans
<1>7. "DENY" # "ALLOW"
  OBVIOUS
<1>8. Allowed(BuildDubboFilter(Stored), request)
        <=> \A f \in BuildDubboFilter(Stored) : f.action = "ALLOW" <=> SomeMatches(f.policies, request)
  BY Zenon DEF Allowed, SomeMatches
<1>9. (\A f \in BuildDubboFilter(Stored) : f.action = "ALLOW" <=> SomeMatches(f.policies, request))
        <=> /\ DOMAIN deny # {} => (Build(deny, "DENY").action = "ALLOW" <=> SomeMatches(Build(deny, "DENY").policies, request))
            /\ DOMAIN allow # {} => (Build(allow, "ALLOW").action = "ALLOW" <=> SomeMatches(Build(allow, "ALLOW").policies, request))
  BY <1>4, Zenon
<1> HIDE DEF deny, allow
<1> QED
  BY <1>2, <1>3, <1>5, <1>6, <1>7, <1>8, <1>9, Zenon

(* The resources in the store are among those users write, and the builder  *)
(* has all of the policies or none: every step of the composed              *)
(* specification leaves it so.                                              *)
LEMMA WrittenInductive == UserSpec => []WrittenInv
<1>1. UserInit => WrittenInv
  BY DEF UserInit, NoneWritten, NoPolicies, WrittenInv
<1>2. WrittenInv /\ [UserNext]_<<vars, hookVars, policies, listed, https>> => WrittenInv'
  <2> SUFFICES ASSUME WrittenInv, [UserNext]_<<vars, hookVars, policies, listed, https>> PROVE WrittenInv'
    OBVIOUS
  <2>1. CASE UNCHANGED <<policies, listed, https>>
    <3>1. Stored' = Stored
      BY <2>1, Zenon DEF Stored
    <3> QED
      BY <2>1, <3>1, Zenon DEF WrittenInv
  <2>2. ASSUME NEW k \in PolicyNames, NEW p \in Policies \cup {None}, WritePolicy(k, p), UNCHANGED https
        PROVE  WrittenInv'
    BY <2>2 DEF WrittenInv, WritePolicy
  <2>3. CASE NewBuilder /\ UNCHANGED https
    <3>1. Stored' = Stored
      BY <2>3, Zenon DEF NewBuilder, Stored
    <3> QED
      BY <2>3, <3>1, Zenon DEF NewBuilder, WrittenInv
  <2>4. CASE https' \in DubboServices \cup {<<>>} /\ UNCHANGED <<policies, listed>>
    <3>1. Stored' = Stored
      BY <2>4, Zenon DEF Stored
    <3> QED
      BY <2>4, <3>1, Zenon DEF WrittenInv
  <2> QED
    BY <2>1, <2>2, <2>3, <2>4, Zenon DEF UserNext
<1> QED
  BY <1>1, <1>2, PTL DEF UserSpec

(* A filter never matches a request that no rule of the stored policies of  *)
(* its action matches (BuildDubboFilter, Generate and the matchers it is    *)
(* made of), whether the policies were listed or the list failed: for any   *)
(* number of policies with any plain values, the dots of principals that    *)
(* begin with a star read as any characters.                                *)
THEOREM OnlyMeant == PoliciesPlain /\ RequestsPlain => (UserSpec => []OnlyMeantMatch)
<1> SUFFICES ASSUME PoliciesPlain, RequestsPlain PROVE UserSpec => []OnlyMeantMatch
  OBVIOUS
<1>1. WrittenInv => OnlyMeantMatch
  BY MeantWhenMatched, Zenon
<1> QED
  BY <1>1, WrittenInductive, PTL

(* When the policies were listed, and no principal that becomes a regular   *)
(* expression has a dot, the filters decide about every request as the      *)
(* rules that stand say, also where rules displace others.                  *)
THEOREM Decisions == PoliciesPlain /\ RequestsPlain => (UserSpec => []PoliciesDecide)
<1> SUFFICES ASSUME PoliciesPlain, RequestsPlain PROVE UserSpec => []PoliciesDecide
  OBVIOUS
<1>1. WrittenInv => PoliciesDecide
  BY DecidedAsWritten, Zenon
<1> QED
  BY <1>1, WrittenInductive, PTL

-----------------------------------------------------------------------------
(* The routes of a Dubbo service.                                           *)
TypedAttribute(match) == match.type \in {"exact", "prefix", "regex"}
TypedMatch(m) ==
  /\ m.method # Nil => TypedAttribute(m.method)
  /\ \A n \in DOMAIN m.headers : TypedAttribute(m.headers[n])

ByType(match, v) == v # Nil /\ Satisfies(match.type, match.value, v)

Takes(http, call) ==
  /\ \/ buildMethodMatch(http) = AnyMethod
     \/ Satisfies(buildMethodMatch(http).type, buildMethodMatch(http).value, call.method)
  /\ \A h \in buildHeaderMatch(http) : ByType(h[2], call.headers[h[1]])

LEMMA AttributeTyped ==
  ASSUME NEW match, TypedAttribute(match), NEW v
  PROVE  AttributeMatches(match, v) <=> ByType(match, v)
<1>1. match.type # ""
  BY Zenon DEF TypedAttribute
<1>2. (IF match.type = "" THEN "present" ELSE match.type) = match.type
  BY <1>1, Zenon
<1> QED
  BY <1>2, Zenon DEF AttributeMatches, ByType

LEMMA MethodTaken ==
  ASSUME NEW http, http.match # <<>>, NEW call, call.method # Nil,
         Head(http.match).method # Nil => TypedAttribute(Head(http.match).method)
  PROVE  (\/ buildMethodMatch(http) = AnyMethod
          \/ Satisfies(buildMethodMatch(http).type, buildMethodMatch(http).value, call.method))
         <=> (Head(http.match).method = Nil \/ AttributeMatches(Head(http.match).method, call.method))
<1> DEFINE m == Head(http.match)
<1>1. CASE m.method = Nil
  BY <1>1, Zenon DEF buildMethodMatch
<1>2. CASE m.method # Nil
  <2>1. TypedAttribute(m.method)
    BY <1>2, Zenon
  <2>2. m.method.type # "" /\ m.method.type # "any" /\ AnyMethod.type = "any"
    BY <2>1, Zenon DEF AnyMethod, TypedAttribute
  <2>3. buildMethodMatch(http) = m.method
    BY <1>2, <2>2, Zenon DEF buildMethodMatch
  <2>4. m.method # AnyMethod
    BY <2>2, Zenon
  <2>5. AttributeMatches(m.method, call.method) <=> ByType(m.method, call.method)
    BY <2>1, AttributeTyped, Zenon
  <2> HIDE DEF m
  <2> QED
    BY <1>2, <2>3, <2>4, <2>5, Zenon DEF m, ByType
<1> QED
  BY <1>1, <1>2, Zenon

LEMMA HeadersTaken ==
  ASSUME NEW http, http.match # <<>>, NEW call,
         \A n \in DOMAIN Head(http.match).headers : TypedAttribute(Head(http.match).headers[n])
  PROVE  (\A h \in buildHeaderMatch(http) : ByType(h[2], call.headers[h[1]]))
         <=> \A n \in DOMAIN Head(http.match).headers :
               AttributeMatches(Head(http.match).headers[n], call.headers[n])
<1> DEFINE headers == Head(http.match).headers
<1>1. \A n \in DOMAIN headers : headers[n].type # ""
  BY Zenon DEF TypedAttribute
<1>2. buildHeaderMatch(http) = {<<n, headers[n]>> : n \in DOMAIN headers}
  BY <1>1, Zenon DEF buildHeaderMatch
<1>3. \A n \in DOMAIN headers : AttributeMatches(headers[n], call.headers[n]) <=> ByType(headers[n], call.headers[n])
  BY AttributeTyped, Zenon
<1> HIDE DEF headers
<1>4. \A n, x : <<n, x>>[1] = n /\ <<n, x>>[2] = x
  OBVIOUS
<1>5. ASSUME NEW n \in DOMAIN headers, \A h \in buildHeaderMatch(http) : ByType(h[2], call.headers[h[1]])
      PROVE  ByType(headers[n], call.headers[n])
  <2>1. <<n, headers[n]>> \in buildHeaderMatch(http)
    BY <1>2, Zenon
  <2>2. ByType(<<n, headers[n]>>[2], call.headers[<<n, headers[n]>>[1]])
    BY <1>5, <2>1, Zenon
  <2> QED
    BY <1>4, <2>2, Zenon
<1>6. ASSUME NEW h \in buildHeaderMatch(http), \A n \in DOMAIN headers : ByType(headers[n], call.headers[n])
      PROVE  ByType(h[2], call.headers[h[1]])
  <2>1. PICK n \in DOMAIN headers : h = <<n, headers[n]>>
    BY <1>2, Zenon
  <2>2. h[1] = n /\ h[2] = headers[n]
    BY <1>4, <2>1, Zenon
  <2> QED
    BY <1>6, <2>1, <2>2, Zenon
<1> QED
  BY <1>3, <1>5, <1>6, Zenon DEF headers

LEMMA RouteTakes ==
  ASSUME NEW http, IsList(http.match), \A m \in Range(http.match) : TypedMatch(m),
         NEW call, call.method # Nil
  PROVE  /\ Takes(http, call) => RouteMeans(http, call)
         /\ Len(http.match) <= 1 => (Takes(http, call) <=> RouteMeans(http, call))
<1>1. CASE http.match = <<>>
  BY <1>1, Zenon DEF Takes, RouteMeans, buildMethodMatch, buildHeaderMatch
<1>2. CASE http.match # <<>>
  <2> DEFINE m == Head(http.match)
  <2>1. http.match \in Seq(Range(http.match))
    BY Zenon DEF IsList
  <2>2. m \in Range(http.match)
    BY <1>2, <2>1
  <2>3. Len(http.match) <= 1 => \A x \in Range(http.match) : x = m
    <3> SUFFICES ASSUME Len(http.match) <= 1, NEW i \in DOMAIN http.match PROVE http.match[i] = m
      BY Zenon DEF Range
    <3>1. i = 1
      BY <2>1
    <3> QED
      BY <1>2, <2>1, <3>1
  <2>4. TypedMatch(m)
    BY <2>2, Zenon
  <2>5. Takes(http, call) <=> MatchMeans(m, call)
    BY <1>2, <2>4, MethodTaken, HeadersTaken, Zenon DEF Takes, MatchMeans, TypedMatch
  <2> HIDE DEF m
  <2> QED
    BY <1>2, <2>2, <2>3, <2>5, Zenon DEF RouteMeans
<1> QED
  BY <1>1, <1>2, Zenon

LEMMA FirstOf ==
  ASSUME NEW S, S \subseteq Nat, First(S) # 0
  PROVE  First(S) \in S
<1>1. S # {} /\ First(S) = Min(S)
  BY Zenon DEF First
<1>2. \E n \in S : \A m \in S : n <= m
  BY <1>1, Least, Zenon
<1> QED
  BY <1>1, <1>2, Zenon DEF Min

LEMMA TakenOf ==
  ASSUME NEW call
  PROVE  DubboRouteTaken(buildRoute(https), call) = First({i \in DOMAIN https : Takes(https[i], call)})
<1> DEFINE routes == buildRoute(https)
<1>1. DOMAIN routes = DOMAIN https
  BY Zenon DEF buildRoute
<1>2. ASSUME NEW i \in DOMAIN https
      PROVE  routes[i].method = buildMethodMatch(https[i]) /\ routes[i].headers = buildHeaderMatch(https[i])
  BY DEF buildRoute
<1> HIDE DEF routes
<1>3. {i \in DOMAIN routes :
         /\ routes[i].method = AnyMethod
            \/ Satisfies(routes[i].method.type, routes[i].method.value, call.method)
         /\ \A h \in routes[i].headers :
              call.headers[h[1]] # Nil /\ Satisfies(h[2].type, h[2].value, call.headers[h[1]])}
      = {i \in DOMAIN https : Takes(https[i], call)}
  BY <1>1, <1>2, Zenon DEF Takes, ByType
<1> QED
  BY <1>3, Zenon DEF DubboRouteTaken, routes

LEMMA RoutedAsWritten ==
  ASSUME CallsTyped, WrittenInv
  PROVE  DubboRouted
<1> SUFFICES ASSUME NEW call \in DubboCalls
             PROVE  LET taken == DubboRouteTaken(buildRoute(https), call)
                    IN  /\ taken # 0 => RouteMeans(https[taken], call)
                        /\ (\A i \in DOMAIN https : Len(https[i].match) <= 1) =>
                             taken = First({i \in DOMAIN https : RouteMeans(https[i], call)})
  BY Zenon DEF DubboRouted
<1> DEFINE S == {i \in DOMAIN https : Takes(https[i], call)}
<1>1. call.method # Nil
  BY Zenon DEF CallsTyped
<1>2. DOMAIN https \subseteq Nat
  <2>1. CASE https \in DubboServices
    <3>1. https \in Seq(Range(https))
      BY <2>1, Zenon DEF CallsTyped, IsList
    <3> QED
      BY <3>1
  <2>2. CASE https = <<>>
    BY <2>2
  <2> QED
    BY <2>1, <2>2, Zenon DEF WrittenInv
<1>3. ASSUME NEW i \in DOMAIN https
      PROVE  IsList(https[i].match) /\ \A m \in Range(https[i].match) : TypedMatch(m)
  <2>1. https # <<>>
    OBVIOUS
  <2>2. https \in DubboServices
    BY <2>1, Zenon DEF WrittenInv
  <2> QED
    BY <2>2, Zenon DEF CallsTyped, TypedMatch, TypedAttribute
<1>4. ASSUME NEW i \in DOMAIN https
      PROVE  /\ Takes(https[i], call) => RouteMeans(https[i], call)
             /\ Len(https[i].match) <= 1 => (Takes(https[i], call) <=> RouteMeans(https[i], call))
  BY <1>1, <1>3, RouteTakes, Zenon
<1>5. DubboRouteTaken(buildRoute(https), call) = First(S)
  BY TakenOf, Zenon
<1>6. First(S) # 0 => RouteMeans(https[First(S)], call)
  <2> SUFFICES ASSUME First(S) # 0 PROVE RouteMeans(https[First(S)], call)
    BY Zenon
  <2>1. S \subseteq Nat
    BY <1>2, Zenon
  <2>2. First(S) \in S
    BY <2>1, FirstOf, Zenon
  <2>3. First(S) \in DOMAIN https /\ Takes(https[First(S)], call)
    BY <2>2, Zenon
  <2> HIDE DEF S
  <2> QED
    BY <1>4, <2>3, Zenon
<1>7. (\A i \in DOMAIN https : Len(https[i].match) <= 1) =>
        S = {i \in DOMAIN https : RouteMeans(https[i], call)}
  BY <1>4, Zenon
<1> HIDE DEF S
<1> QED
  BY <1>5, <1>6, <1>7, Zenon

(* A Dubbo call takes the route the VirtualService says while its routes    *)
(* have one match each, and never one whose matches do not match it         *)
(* (buildRoute): for any VirtualServices with typed matches.                *)
THEOREM DubboRoutes == CallsTyped => (UserSpec => []DubboRouted)
<1> SUFFICES ASSUME CallsTyped PROVE UserSpec => []DubboRouted
  OBVIOUS
<1>1. WrittenInv => DubboRouted
  BY RoutedAsWritten, Zenon
<1> QED
  BY <1>1, WrittenInductive, PTL

-----------------------------------------------------------------------------
(* Neither part of the composition is constrained by the others: what holds *)
(* of the life of a MetaRouter and of the registration holds of the whole.  *)
THEOREM Composed == UserSpec => Spec /\ HookSpec
<1>1. UserInit => Init /\ HookInit
  BY DEF UserInit
<1>2. [UserNext]_<<vars, hookVars, policies, listed, https>> => [Next]_vars /\ [HookNext]_hookVars
  BY Zenon DEF UserNext
<1> QED
  BY <1>1, <1>2, PTL DEF UserSpec, Spec, HookSpec
=============================================================================
