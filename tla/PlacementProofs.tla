-------------------------- MODULE PlacementProofs --------------------------
(***************************************************************************)
(* What the placement searches of kheap.c may return: 0, or the first page *)
(* of a run of free pages of the size asked for that fits in the heap.     *)
(***************************************************************************)
EXTENDS Placement, WellFoundedInduction, TLAPS

USE NAssumption DEF Pages, Null, Window

(* A nonempty set of naturals has a least element, which Min chooses.      *)
LEMMA MinOfNaturals ==
  ASSUME NEW S \in SUBSET Nat, S # {}
  PROVE  Min(S) \in S /\ \A y \in S : Min(S) <= y
<1>1. PICK R : R = OpToRel(<, Nat)
  OBVIOUS
<1>2. IsWellFoundedOn(R, Nat)
  BY <1>1, NatLessThanWellFounded
<1>3. PICK x \in S : \A y \in S : ~(<<y, x>> \in R)
  BY <1>2, WFMin
<1>4. \A a, b \in Nat : a < b => <<a, b>> \in R
  BY <1>1 DEF OpToRel
<1>5. \A y \in S : x <= y
  <2>1. TAKE y \in S
  <2>2. x \in Nat /\ y \in Nat
    OBVIOUS
  <2>3. ~(y < x)
    BY <1>3, <1>4, <2>2
  <2> QED BY <2>2, <2>3
<1> QED BY <1>5 DEF Min

(* A run that can be handed out.                                           *)
IsRun(empty, s, n) == s \in Pages /\ s + n <= N /\ Window(s, n) \subseteq empty

(* getStartAddress returns 0 or a run that starts at or after "from".      *)
LEMMA GetStartAddressFindsRun ==
  ASSUME NEW empty \in SUBSET Pages, NEW from \in 0 .. N, NEW to \in 0 .. N,
         NEW n \in Nat, getStartAddress(empty, from, to, n) # Null
  PROVE  IsRun(empty, getStartAddress(empty, from, to, n), n)
<1> DEFINE fits == {s \in from .. to-n : Window(s, n) \subseteq empty}
<1>1. n # 0 /\ fits # {} /\ getStartAddress(empty, from, to, n) = Min(fits)
  BY DEF getStartAddress
<1>2. fits \in SUBSET Nat
  OBVIOUS
<1>3. Min(fits) \in fits
  BY <1>1, <1>2, MinOfNaturals
<1>4. PICK r \in fits : getStartAddress(empty, from, to, n) = r
  BY <1>1, <1>3
<1>5. r \in from .. to-n /\ Window(r, n) \subseteq empty /\ n \in Nat \ {0}
  BY <1>1, <1>4
<1> HIDE DEF fits
<1>6. r \in Pages /\ r + n <= N
  BY <1>5
<1> QED BY <1>4, <1>5, <1>6 DEF IsRun

(* nextFit returns 0 or a run of free pages.                               *)
LEMMA NextFitFindsRun ==
  ASSUME NEW empty \in SUBSET Pages, NEW last \in 0 .. N, NEW n \in Nat,
         nextFit(empty, last, n) # Null
  PROVE  IsRun(empty, nextFit(empty, last, n), n)
<1>1. 0 \in 0 .. N /\ N \in 0 .. N
  OBVIOUS
<1>2. CASE getStartAddress(empty, last, N, n) # Null
  <2>1. nextFit(empty, last, n) = getStartAddress(empty, last, N, n)
    BY <1>2 DEF nextFit
  <2> QED BY <1>1, <1>2, <2>1, GetStartAddressFindsRun
<1>3. CASE getStartAddress(empty, last, N, n) = Null
  <2>1. nextFit(empty, last, n) = getStartAddress(empty, 0, last, n)
    BY <1>3 DEF nextFit
  <2> QED BY <1>1, <2>1, GetStartAddressFindsRun
<1> QED BY <1>2, <1>3

(* When the end of the heap has n free pages, some hole has at least n.    *)
LEMMA TailIsAHole ==
  ASSUME NEW empty \in SUBSET Pages, NEW n \in Nat, TailFits(empty, n)
  PROVE  \E h \in Holes(empty) : Length(h) >= n
<1> DEFINE tails == {s \in Pages : s .. N-1 \subseteq empty}
<1> DEFINE m == Min(tails)
<1>1. N-1 \in tails /\ (n > 0 => N-n \in tails)
  BY DEF TailFits
<1>2. m \in tails /\ \A s \in tails : m <= s
  <2>1. tails \in SUBSET Nat /\ tails # {}
    BY <1>1
  <2> HIDE DEF tails
  <2> QED BY <2>1, MinOfNaturals
<1> HIDE DEF m
<1>3. m - 1 \notin empty
  <2> SUFFICES ASSUME m - 1 \in empty PROVE FALSE
    OBVIOUS
  <2>1. m \in Int /\ m - 1 \in Pages
    BY <1>2
  <2>2. m - 1 \in tails
    BY <1>2, <2>1
  <2> QED BY <1>2, <2>1, <2>2
<1>4. <<m, N-1>> \in Holes(empty)
  <2>1. m \in Pages /\ N-1 \in Pages /\ m <= N-1 /\ m .. N-1 \subseteq empty
    BY <1>2
  <2>2. N-1+1 \notin empty
    OBVIOUS
  <2> QED BY <1>3, <2>1, <2>2 DEF Holes
<1>5. Length(<<m, N-1>>) >= n
  BY <1>1, <1>2 DEF Length
<1> QED BY <1>4, <1>5

(* bestFit returns 0 or a run of free pages.                               *)
LEMMA BestFitFindsRun ==
  ASSUME NEW empty \in SUBSET Pages, NEW n \in Nat, bestFit(empty, n) # Null
  PROVE  IsRun(empty, bestFit(empty, n), n)
<1> DEFINE fits == {h \in Holes(empty) : Length(h) >= n}
<1> DEFINE sizes == {Length(h) : h \in fits}
<1> DEFINE size == Min(sizes)
<1> DEFINE starts == {h[1] : h \in {g \in fits : Length(g) = size}}
<1>1. TailFits(empty, n) /\ bestFit(empty, n) = Min(starts)
  BY DEF bestFit
<1>2. fits # {}
  BY <1>1, TailIsAHole
<1>3. \A h \in fits : /\ h[1] \in Pages /\ h[2] \in Pages
                      /\ h[1] .. h[2] \subseteq empty
                      /\ h[2] - h[1] + 1 >= n /\ Length(h) \in Nat
  BY DEF Holes, Length
<1>4. sizes \in SUBSET Nat /\ sizes # {}
  BY <1>2, <1>3
<1>5. size \in sizes
  <2> HIDE DEF sizes
  <2> QED BY <1>4, MinOfNaturals
<1>6. starts \in SUBSET Nat /\ starts # {}
  <2> HIDE DEF size
  <2>1. PICK g \in fits : Length(g) = size
    BY <1>5
  <2> QED BY <1>3, <2>1
<1>7. Min(starts) \in starts
  <2> HIDE DEF starts
  <2> QED BY <1>6, MinOfNaturals
<1>8. PICK h \in fits : h[1] = bestFit(empty, n)
  BY <1>1, <1>7
<1> QED BY <1>3, <1>8 DEF IsRun

=============================================================================
