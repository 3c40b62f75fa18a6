--------------------------- MODULE EnginesProofs ---------------------------
(***************************************************************************)
(* The deterministic engines for every value of their constants: the      *)
(* ranking of a finite field of any size, with any statements, marks and   *)
(* weights; the two studies of a development for any terms; the advice on  *)
(* a structure for all answers.                                            *)
(***************************************************************************)
EXTENDS Merit, Recommender, Appraisal, FiniteSetTheorems, WellFoundedInduction, TLAPS

(* Extremes *)

\* A finite set of numbers has a greatest and a least one: a smallest set
\* without them would have them.
LEMMA HasExtremes ==
  ASSUME NEW S \in SUBSET Int, IsFiniteSet(S), S # {}
  PROVE  /\ \E x \in S : \A y \in S : x >= y
         /\ \E x \in S : \A y \in S : x <= y
<1>. DEFINE Topped(U) == (\E x \in U : \A y \in U : x >= y) /\ (\E x \in U : \A y \in U : x <= y)
            Bad == {U \in FiniteSubsetsOf(S) : U # {} /\ ~Topped(U)}
<1>1. S \in FiniteSubsetsOf(S)
  BY DEF FiniteSubsetsOf
<1>2. Bad = {}
  <2>. SUFFICES ASSUME Bad # {} PROVE FALSE
    OBVIOUS
  <2>1. PICK U \in Bad : \A W \in Bad : ~(<<W, U>> \in StrictSubsetOrdering(S))
    BY FS_StrictSubsetOrderingWellFounded, WFMin
  <2>2. U \in SUBSET S /\ IsFiniteSet(U) /\ U # {} /\ ~Topped(U)
    BY DEF FiniteSubsetsOf
  <2>3. PICK x \in U : TRUE
    BY <2>2
  <2>4. CASE U = {x}
    BY <2>2, <2>4
  <2>5. CASE U \ {x} # {}
    <3>1. U \ {x} \in FiniteSubsetsOf(S)
      BY <2>2, FS_Subset DEF FiniteSubsetsOf
    <3>2. <<U \ {x}, U>> \in StrictSubsetOrdering(S)
      BY <2>2 DEF StrictSubsetOrdering
    <3>3. Topped(U \ {x})
      BY <2>1, <2>5, <3>1, <3>2
    <3>4. PICK hi \in U \ {x} : \A y \in U \ {x} : hi >= y
      BY <3>3
    <3>5. PICK lo \in U \ {x} : \A y \in U \ {x} : lo <= y
      BY <3>3
    <3>6. x \in Int /\ hi \in Int /\ lo \in Int
      BY <2>2
    <3>7. \E t \in U : \A y \in U : t >= y
      BY <2>2, <3>4, <3>6
    <3>8. \E t \in U : \A y \in U : t <= y
      BY <2>2, <3>5, <3>6
    <3>. QED
      BY <2>2, <3>7, <3>8
  <2>. QED
    BY <2>4, <2>5
<1>. QED
  BY <1>1, <1>2

LEMMA ExtremesOf ==
  ASSUME NEW S \in SUBSET Int, IsFiniteSet(S), S # {}
  PROVE  /\ Max(S) \in S /\ \A y \in S : Max(S) >= y
         /\ Min(S) \in S /\ \A y \in S : Min(S) <= y
BY HasExtremes DEF Max, Min

LEMMA PairFinite ==
  ASSUME NEW a, NEW b
  PROVE  IsFiniteSet({a, b})
<1>1. IsFiniteSet({} \cup {a})
  BY FS_EmptySet, FS_AddElement
<1>2. IsFiniteSet(({} \cup {a}) \cup {b})
  BY <1>1, FS_AddElement
<1>3. ({} \cup {a}) \cup {b} = {a, b}
  OBVIOUS
<1>. QED
  BY <1>2, <1>3

LEMMA MaxOfTwo ==
  ASSUME NEW a \in Int, NEW b \in Int
  PROVE  Max({a, b}) = IF a >= b THEN a ELSE b
<1>1. IsFiniteSet({a, b})
  BY PairFinite
<1>2. Max({a, b}) \in {a, b} /\ \A y \in {a, b} : Max({a, b}) >= y
  BY <1>1, ExtremesOf
<1>. QED
  BY <1>2

LEMMA MinOfTwo ==
  ASSUME NEW a \in Int, NEW b \in Int
  PROVE  Min({a, b}) = IF a <= b THEN a ELSE b
<1>1. IsFiniteSet({a, b})
  BY PairFinite
<1>2. Min({a, b}) \in {a, b} /\ \A y \in {a, b} : Min({a, b}) <= y
  BY <1>1, ExtremesOf
<1>. QED
  BY <1>2
-----------------------------------------------------------------------------
(* Division *)

LEMMA Products ==
  ASSUME NEW a \in Int, NEW b \in Int, a <= b, NEW k \in Nat
  PROVE  k * a <= k * b
OBVIOUS

\* A greater fraction has a greater whole part.
LEMMA DivMonotone ==
  ASSUME NEW a \in Int, NEW b \in Int, NEW p \in Nat \ {0}, NEW q \in Nat \ {0},
         a * q <= b * p
  PROVE  a \div p <= b \div q
<1>. DEFINE x == a \div p
            y == b \div q
<1>1. x \in Int /\ y \in Int
  OBVIOUS
<1>2. p * x <= a /\ b < q * (y + 1)
  OBVIOUS
<1>. HIDE DEF x, y
<1>3. q * (p * x) <= q * a
  BY <1>1, <1>2, Products
<1>4. p * b < p * (q * (y + 1))
  <2>1. b + 1 <= q * (y + 1)
    BY <1>1, <1>2
  <2>2. p * (b + 1) <= p * (q * (y + 1))
    BY <1>1, <2>1, Products
  <2>. QED
    BY <1>1, <2>2
<1>5. (p * q) * x < (p * q) * (y + 1)
  BY <1>1, <1>3, <1>4
<1>6. x < y + 1
  <2>. SUFFICES ASSUME y + 1 <= x PROVE FALSE
    BY <1>1
  <2>1. p * q \in Nat
    OBVIOUS
  <2>2. (p * q) * (y + 1) <= (p * q) * x
    BY <1>1, <2>1, Products
  <2>. QED
    BY <1>1, <1>5, <2>2
<1>. QED
  BY <1>1, <1>6 DEF x, y
-----------------------------------------------------------------------------
(* Shares *)

LEMMA ShareType ==
  ASSUME NEW n \in Int, NEW d \in Nat \ {0}
  PROVE  Share(n, d) \in Int
<1>1. Unit * n \in Int
  BY MeritAssumption
<1>. QED
  BY <1>1 DEF Share

LEMMA ShareMonotone ==
  ASSUME NEW a \in Int, NEW b \in Int, NEW p \in Nat \ {0}, NEW q \in Nat \ {0},
         a * q <= b * p
  PROVE  Share(a, p) <= Share(b, q)
<1>1. Unit \in Nat
  BY MeritAssumption
<1>2. Unit * a \in Int /\ Unit * b \in Int
  BY <1>1
<1>3. Unit * (a * q) <= Unit * (b * p)
  <2>1. a * q \in Int /\ b * p \in Int
    OBVIOUS
  <2>. QED
    BY <1>1, <2>1, Products
<1>4. (Unit * a) * q <= (Unit * b) * p
  BY <1>1, <1>3
<1>. QED
  BY <1>2, <1>4, DivMonotone DEF Share

\* Min-max normalization of a worth, where more is better: one half in a
\* range that has collapsed.
Rise(lo, hi, v) == IF hi = lo THEN Share(1, 2) ELSE Share(v - lo, hi - lo)

LEMMA RiseType ==
  ASSUME NEW lo \in Int, NEW hi \in Int, NEW v \in Int, lo <= hi
  PROVE  Rise(lo, hi, v) \in Int
<1>1. CASE hi = lo
  BY <1>1, ShareType DEF Rise
<1>2. CASE hi # lo
  <2>1. v - lo \in Int /\ hi - lo \in Nat \ {0}
    BY <1>2
  <2>. QED
    BY <1>2, <2>1, ShareType DEF Rise
<1>. QED
  BY <1>1, <1>2

\* In one range the greater worth has no smaller share.
LEMMA RiseMonotone ==
  ASSUME NEW lo \in Int, NEW hi \in Int, NEW v \in Int, NEW w \in Int, lo <= hi, v <= w
  PROVE  Rise(lo, hi, v) <= Rise(lo, hi, w)
<1>1. CASE hi = lo
  BY <1>1, ShareType DEF Rise
<1>2. CASE hi # lo
  <2>1. v - lo \in Int /\ w - lo \in Int /\ hi - lo \in Nat \ {0}
    BY <1>2
  <2>2. (v - lo) * (hi - lo) <= (w - lo) * (hi - lo)
    BY <2>1, Products, v - lo <= w - lo
  <2>. QED
    BY <1>2, <2>1, <2>2, ShareMonotone DEF Rise
<1>. QED
  BY <1>1, <1>2

\* The ends of a range have nothing and everything; one half is between.
LEMMA RiseEnds ==
  ASSUME NEW lo \in Int, NEW hi \in Int, lo < hi
  PROVE  /\ Rise(lo, hi, lo) <= Share(1, 2)
         /\ Share(1, 2) <= Rise(lo, hi, hi)
         /\ Rise(lo, hi, lo) = 0
<1>1. hi - lo \in Nat \ {0} /\ lo - lo = 0
  OBVIOUS
<1>2. Share(0, hi - lo) <= Share(1, 2)
  BY <1>1, ShareMonotone, 0 * 2 <= 1 * (hi - lo)
<1>3. Share(1, 2) <= Share(hi - lo, hi - lo)
  BY <1>1, ShareMonotone, 1 * (hi - lo) <= (hi - lo) * 2
<1>4. Share(0, hi - lo) = 0
  <2>1. Unit * 0 = 0
    BY MeritAssumption
  <2>2. 0 \div (hi - lo) = 0
    BY <1>1
  <2>. QED
    BY <2>1, <2>2 DEF Share
<1>. QED
  BY <1>1, <1>2, <1>3, <1>4 DEF Rise

\* A range that moves up lifts nobody who stays where they are.
LEMMA RiseOfOthers ==
  ASSUME NEW lo \in Int, NEW hi \in Int, NEW lo2 \in Int, NEW hi2 \in Int, NEW x \in Int,
         lo <= lo2, hi <= hi2, lo <= x, x <= hi, lo2 <= x, x <= hi2
  PROVE  Rise(lo2, hi2, x) <= Rise(lo, hi, x)
<1>1. CASE hi = lo /\ hi2 = lo2
  BY <1>1, ShareType DEF Rise
<1>2. CASE hi = lo /\ hi2 # lo2
  <2>1. x = lo2 /\ lo2 < hi2
    BY <1>2
  <2>. QED
    BY <1>2, <2>1, RiseEnds DEF Rise
<1>3. CASE hi # lo /\ hi2 = lo2
  <2>1. x = hi /\ lo < hi
    BY <1>3
  <2>. QED
    BY <1>3, <2>1, RiseEnds DEF Rise
<1>4. CASE hi # lo /\ hi2 # lo2
  <2>1. x - lo \in Int /\ x - lo2 \in Int /\ hi - lo \in Nat \ {0} /\ hi2 - lo2 \in Nat \ {0}
    BY <1>4
  <2>. DEFINE a == x - lo
              b == hi - x
              d == lo2 - lo
              u == hi2 - hi
  <2>2. a \in Nat /\ b \in Nat /\ d \in Nat /\ u \in Nat
    OBVIOUS
  <2>3. x - lo2 = a - d /\ hi - lo = a + b /\ hi2 - lo2 = a + b + u - d
    OBVIOUS
  <2>4. (a - d) * (a + b) <= a * (a + b + u - d)
    <3>. HIDE DEF a, b, d, u
    <3>1. a * u \in Nat /\ d * b \in Nat
      BY <2>2
    <3>2. (a - d) * (a + b) = a * a + a * b - d * a - d * b
      BY <2>2
    <3>3. a * (a + b + u - d) = a * a + a * b + a * u - d * a
      BY <2>2
    <3>. QED
      BY <2>2, <3>1, <3>2, <3>3
  <2>5. (x - lo2) * (hi - lo) <= (x - lo) * (hi2 - lo2)
    BY <2>3, <2>4
  <2>. QED
    BY <1>4, <2>1, <2>5, ShareMonotone DEF Rise
<1>. QED
  BY <1>1, <1>2, <1>3, <1>4

\* Who betters their worth from v to w never has a smaller share: if the top
\* moves, it is theirs, and if the bottom moves, it was theirs.
LEMMA RiseOfOne ==
  ASSUME NEW lo \in Int, NEW hi \in Int, NEW lo2 \in Int, NEW hi2 \in Int,
         NEW v \in Int, NEW w \in Int,
         lo <= v, v <= hi, lo2 <= w, w <= hi2, v < w,
         lo <= lo2, hi <= hi2, hi2 = hi \/ hi2 = w, lo2 = lo \/ v = lo
  PROVE  Rise(lo, hi, v) <= Rise(lo2, hi2, w)
<1>1. CASE hi2 = lo2
  <2>1. v = lo
    BY <1>1
  <2>2. CASE hi = lo
    BY <1>1, <2>2, ShareType DEF Rise
  <2>3. CASE hi # lo
    BY <1>1, <2>1, <2>3, RiseEnds DEF Rise
  <2>. QED
    BY <2>2, <2>3
<1>2. CASE hi2 # lo2 /\ hi = lo
  <2>1. hi2 = w /\ lo2 < hi2
    BY <1>2
  <2>. QED
    BY <1>2, <2>1, RiseEnds DEF Rise
<1>3. CASE hi2 # lo2 /\ hi # lo /\ lo2 # lo
  <2>1. v = lo
    BY <1>3
  <2>2. Rise(lo, hi, v) = 0 /\ Rise(lo2, hi2, lo2) = 0
    BY <1>3, <2>1, RiseEnds
  <2>. QED
    BY <2>2, RiseMonotone
<1>4. CASE hi2 # lo2 /\ hi # lo /\ lo2 = lo /\ hi2 = hi
  BY <1>4, RiseMonotone
<1>5. CASE hi2 # lo2 /\ hi # lo /\ hi2 = w
  <2>1. v - lo \in Int /\ hi - lo \in Nat \ {0} /\ w - lo2 \in Int /\ hi2 - lo2 \in Nat \ {0}
    BY <1>5
  <2>2. (v - lo) * (hi2 - lo2) <= (hi2 - lo2) * (hi - lo)
    <3>1. (hi2 - lo2) * (v - lo) <= (hi2 - lo2) * (hi - lo)
      BY <2>1, Products, v - lo <= hi - lo
    <3>. QED
      BY <2>1, <3>1
  <2>. QED
    BY <1>5, <2>1, <2>2, ShareMonotone DEF Rise
<1>. QED
  BY <1>1, <1>2, <1>3, <1>4, <1>5
-----------------------------------------------------------------------------
(* Merit: types and the field *)

\* At any time a field is finite: one rival comes in at a time.  Marks are for
\* bids.
MeritInvariant ==
  /\ MeritTypeOK
  /\ IsFiniteSet(Field)
  /\ engine # "bids" => \A e \in Field : mark[e] = Silent

LEMMA MeritInitInvariant == MeritInit => MeritInvariant
<1>. SUFFICES ASSUME MeritInit PROVE MeritInvariant
  OBVIOUS
<1>1. DOMAIN stated = {} /\ mark = [e \in {} |-> 0]
  BY DEF MeritInit
<1>2. IsFiniteSet(Field)
  BY <1>1, FS_EmptySet DEF Field
<1>. QED
  BY <1>1, <1>2 DEF MeritInvariant, MeritTypeOK, MeritInit, Field

LEMMA MeritNextInvariant == MeritInvariant /\ [MeritNext]_meritVars => MeritInvariant'
<1>. SUFFICES ASSUME MeritInvariant, [MeritNext]_meritVars PROVE MeritInvariant'
  OBVIOUS
<1>1. ASSUME NEW e \in Entrants, Enter(e) PROVE MeritInvariant'
  <2>1. PICK f \in Statements : stated' = [r \in Field \cup {e} |-> IF r = e THEN f ELSE stated[r]]
    BY <1>1 DEF Enter
  <2>2. Field' = Field \cup {e} /\ Criteria' = Criteria /\ Statements' = Statements
    BY <1>1, <2>1 DEF Enter, Field, Criteria, Statements
  <2>3. IsFiniteSet(Field')
    BY <2>2, FS_AddElement DEF MeritInvariant
  <2>4. mark' \in [Field' -> Marks \cup {Silent}]
    BY <1>1, <2>2 DEF Enter, MeritInvariant, MeritTypeOK
  <2>5. \A r \in Field' : stated'[r] \in Statements'
    BY <2>1, <2>2 DEF MeritInvariant, MeritTypeOK
  <2>. QED
    BY <1>1, <2>2, <2>3, <2>4, <2>5 DEF Enter, MeritInvariant, MeritTypeOK
<1>2. ASSUME NEW e \in Field, Revise(e) PROVE MeritInvariant'
  <2>1. PICK c \in Criteria : \E v \in Values[c] \cup {Silent} : stated' = [stated EXCEPT ![e][c] = v]
    BY <1>2 DEF Revise
  <2>2. PICK v \in Values[c] \cup {Silent} : stated' = [stated EXCEPT ![e][c] = v]
    BY <2>1
  <2>3. Field' = Field /\ Criteria' = Criteria /\ Statements' = Statements
    BY <1>2, <2>2 DEF Revise, Field, Criteria, Statements
  <2>4. \A r \in Field : stated'[r] = IF r = e THEN [stated[e] EXCEPT ![c] = v] ELSE stated[r]
    BY <2>2 DEF Field
  <2>5. [stated[e] EXCEPT ![c] = v] \in Statements
    BY DEF Statements, MeritInvariant, MeritTypeOK
  <2>. QED
    BY <1>2, <2>3, <2>4, <2>5 DEF Revise, MeritInvariant, MeritTypeOK
<1>3. ASSUME NEW e \in Field, Mark(e) PROVE MeritInvariant'
  BY <1>3 DEF Mark, MeritInvariant, MeritTypeOK, Field, Statements, Criteria
<1>4. ASSUME NEW e \in Field, Exclude(e) PROVE MeritInvariant'
  <2>1. Field' = Field \ {e} /\ Criteria' = Criteria /\ Statements' = Statements
    BY <1>4 DEF Exclude, Field, Criteria, Statements
  <2>2. IsFiniteSet(Field')
    BY <2>1, FS_Subset DEF MeritInvariant
  <2>. QED
    BY <1>4, <2>1, <2>2 DEF Exclude, MeritInvariant, MeritTypeOK
<1>5. CASE UNCHANGED meritVars
  BY <1>5 DEF meritVars, MeritInvariant, MeritTypeOK, Field, Statements, Criteria
<1>. QED
  BY <1>1, <1>2, <1>3, <1>4, <1>5 DEF MeritNext

LEMMA MeritInvariantHolds == MeritSpec => []MeritInvariant
BY MeritInitInvariant, MeritNextInvariant, PTL DEF MeritSpec

\* What a rival states is of its kind, and marks are of rivals in the field
\* (BidsService.evaluate, OffersService.compare).
THEOREM MeritTypeCorrect == MeritSpec => []MeritTypeOK
<1>1. MeritInvariant => MeritTypeOK
  BY DEF MeritInvariant
<1>. QED
  BY <1>1, MeritInvariantHolds, PTL

LEMMA CriteriaKnown ==
  ASSUME MeritInvariant
  PROVE  /\ engine \in {"bids", "offers", "fit"}
         /\ Criteria = {CriteriaOf[engine][1], CriteriaOf[engine][2]}
         /\ engine # "fit" => Criteria = {"delivery", "experience"}
         /\ engine = "fit" => Criteria = {"irr", "investment"}
BY DEF MeritInvariant, MeritTypeOK, Criteria, CriteriaFor, CriteriaOf

LEMMA StatementTypes ==
  ASSUME MeritInvariant, NEW c \in Criteria
  PROVE  /\ \A e \in Field : stated[e][c] \in Int \cup {Silent}
         /\ weight[c] \in Int
         /\ \A e \in Field : mark[e] \in Int \cup {Silent}
<1>1. engine \in DOMAIN CriteriaOf /\ c \in CriteriaFor(engine)
  BY DEF MeritInvariant, MeritTypeOK, Criteria
<1>2. Values[c] \subseteq Int /\ weight \in [CriteriaFor(engine) -> Int]
  BY <1>1, MeritAssumption DEF MeritInvariant, MeritTypeOK
<1>3. \A e \in Field : stated[e][c] \in Values[c] \cup {Silent}
  BY DEF MeritInvariant, MeritTypeOK, Statements
<1>4. \A e \in Field : mark[e] \in Marks \cup {Silent}
  BY DEF MeritInvariant, MeritTypeOK
<1>. QED
  BY <1>1, <1>2, <1>3, <1>4, MeritAssumption
-----------------------------------------------------------------------------
(* Merit: the range of a criterion, with what is better counted upwards *)

Signed(c, v) == IF HigherBetter(c) THEN v ELSE -v

Low(c) == IF HigherBetter(c) THEN Min(Stated(c)) ELSE -Max(Stated(c))

High(c) == IF HigherBetter(c) THEN Max(Stated(c)) ELSE -Min(Stated(c))

Worth(e, c) == IF stated[e][c] = Silent THEN Low(c) ELSE Signed(c, stated[e][c])

\* The range runs from a worth that is stated to a worth that is stated; the
\* worths of the field lie in it, and are normalized in it.
RangeOf(c) ==
  Stated(c) # {} =>
    /\ Low(c) \in Int /\ High(c) \in Int /\ Low(c) <= High(c)
    /\ \A e \in Field : Worth(e, c) \in Int /\ Low(c) <= Worth(e, c) /\ Worth(e, c) <= High(c)
    /\ \E e \in Field : stated[e][c] # Silent /\ Worth(e, c) = Low(c)
    /\ \E e \in Field : stated[e][c] # Silent /\ Worth(e, c) = High(c)
    /\ \A e \in Field : ObjectiveShare(e, c) = Rise(Low(c), High(c), Worth(e, c))
    /\ Level(c) <=> Low(c) = High(c)

LEMMA StatedFinite ==
  ASSUME MeritInvariant, NEW c \in Criteria
  PROVE  IsFiniteSet(Stated(c)) /\ Stated(c) \in SUBSET Int
<1>. DEFINE T == {stated[e][c] : e \in Field}
<1>1. [e \in Field |-> stated[e][c]] \in Surjection(Field, T)
  BY DEF Surjection
<1>2. IsFiniteSet(T)
  BY <1>1, FS_Surjection DEF MeritInvariant
<1>3. IsFiniteSet(Stated(c))
  BY <1>2, FS_Subset DEF Stated
<1>. QED
  BY <1>3, StatementTypes DEF Stated

LEMMA Ranges == MeritInvariant => \A c \in Criteria : RangeOf(c)
<1>. SUFFICES ASSUME MeritInvariant, NEW c \in Criteria, Stated(c) # {}
             PROVE  RangeOf(c)
  BY DEF RangeOf
<1>. DEFINE lo == Min(Stated(c))
            hi == Max(Stated(c))
<1>1. /\ lo \in Stated(c) /\ hi \in Stated(c)
      /\ \A v \in Stated(c) : v \in Int /\ lo <= v /\ v <= hi
  <2>1. Stated(c) \in SUBSET Int /\ IsFiniteSet(Stated(c))
    BY StatedFinite
  <2>. QED
    BY <2>1, ExtremesOf
<1>2. \A e \in Field : stated[e][c] # Silent => stated[e][c] \in Stated(c)
  BY DEF Stated
<1>3. \A v \in Stated(c) : \E e \in Field : stated[e][c] = v /\ v # Silent
  BY DEF Stated
<1>4. Low(c) \in Int /\ High(c) \in Int /\ Low(c) <= High(c)
  BY <1>1 DEF Low, High
<1>5. ASSUME NEW e \in Field
      PROVE  Worth(e, c) \in Int /\ Low(c) <= Worth(e, c) /\ Worth(e, c) <= High(c)
  BY <1>1, <1>2, <1>4 DEF Worth, Signed, Low, High
<1>6. \E e \in Field : stated[e][c] # Silent /\ Worth(e, c) = Low(c)
  <2>1. PICK v \in Stated(c) : v = IF HigherBetter(c) THEN lo ELSE hi
    BY <1>1
  <2>2. PICK e \in Field : stated[e][c] = v /\ v # Silent
    BY <1>3
  <2>. QED
    BY <2>1, <2>2 DEF Worth, Signed, Low
<1>7. \E e \in Field : stated[e][c] # Silent /\ Worth(e, c) = High(c)
  <2>1. PICK v \in Stated(c) : v = IF HigherBetter(c) THEN hi ELSE lo
    BY <1>1
  <2>2. PICK e \in Field : stated[e][c] = v /\ v # Silent
    BY <1>3
  <2>. QED
    BY <2>1, <2>2 DEF Worth, Signed, High
<1>8. ASSUME NEW e \in Field
      PROVE  ObjectiveShare(e, c) = Rise(Low(c), High(c), Worth(e, c))
  <2>. DEFINE v == IF stated[e][c] = Silent THEN Worst(c) ELSE stated[e][c]
  <2>1. v \in Int
    BY <1>1, <1>2 DEF Worst
  <2>2. ObjectiveShare(e, c) = NormalizedShare(c, v)
    BY DEF ObjectiveShare
  <2>3. CASE HigherBetter(c)
    <3>1. Low(c) = lo /\ High(c) = hi /\ Worth(e, c) = v
      BY <2>3 DEF Low, High, Worth, Signed, Worst
    <3>. QED
      BY <2>2, <2>3, <3>1 DEF NormalizedShare, Rise
  <2>4. CASE ~HigherBetter(c)
    <3>1. Low(c) = -hi /\ High(c) = -lo /\ Worth(e, c) = -v
      BY <2>4 DEF Low, High, Worth, Signed, Worst
    <3>2. (-v) - (-hi) = hi - v /\ (-lo) - (-hi) = hi - lo /\ ((-lo) = -hi <=> hi = lo)
      BY <1>1, <2>1
    <3>. QED
      BY <2>2, <2>4, <3>1, <3>2 DEF NormalizedShare, Rise
  <2>. QED
    BY <2>3, <2>4
<1>9. Level(c) <=> Low(c) = High(c)
  BY <1>1 DEF Level, Low, High
<1>. QED
  BY <1>4, <1>5, <1>6, <1>7, <1>8, <1>9 DEF RangeOf
-----------------------------------------------------------------------------
(* Merit: scores *)

\* Percent of two criteria.
Mean(w1, w2, s1, s2) ==
  IF w1 + w2 > 0
    THEN (200 * (w1 * s1 + w2 * s2) + (w1 + w2) * Unit) \div (2 * (w1 + w2) * Unit) ELSE 0

LEMMA MeanMonotone ==
  ASSUME NEW w1 \in Nat, NEW w2 \in Nat, NEW s1 \in Int, NEW s2 \in Int,
         NEW t1 \in Int, NEW t2 \in Int, s1 <= t1, s2 <= t2
  PROVE  Mean(w1, w2, s1, s2) <= Mean(w1, w2, t1, t2)
<1>1. CASE ~(w1 + w2 > 0)
  BY <1>1 DEF Mean
<1>2. CASE w1 + w2 > 0
  <2>. DEFINE total == w1 + w2
              a == 200 * (w1 * s1 + w2 * s2) + total * Unit
              b == 200 * (w1 * t1 + w2 * t2) + total * Unit
              d == 2 * total * Unit
  <2>1. total \in Nat \ {0} /\ Unit \in Nat \ {0}
    BY <1>2, MeritAssumption
  <2>2. w1 * s1 <= w1 * t1 /\ w2 * s2 <= w2 * t2
    BY Products
  <2>3. /\ w1 * s1 \in Int /\ w1 * t1 \in Int /\ w2 * s2 \in Int /\ w2 * t2 \in Int
        /\ total * Unit \in Nat \ {0}
    BY <2>1
  <2>4. d \in Nat \ {0}
    <3>1. d = 2 * (total * Unit)
      BY <2>1
    <3>. QED
      BY <2>3, <3>1
  <2>5. a \in Int /\ b \in Int /\ a <= b
    BY <2>2, <2>3
  <2>. HIDE DEF a, b, d
  <2>6. a * d <= b * d
    BY <2>4, <2>5, Products
  <2>7. a \div d <= b \div d
    BY <2>4, <2>5, <2>6, DivMonotone
  <2>. QED
    BY <1>2, <2>7 DEF Mean, a, b, d
<1>. QED
  BY <1>1, <1>2

First == CriteriaOf[engine][1]

Second == CriteriaOf[engine][2]

ScoredByMean ==
  \A e \in Field :
    Score(e) = Mean(WeightOn(e, First), WeightOn(e, Second), ShareOn(e, First), ShareOn(e, Second))

LEMMA ScoresAreMeans == MeritInvariant => ScoredByMean
<1>. SUFFICES ASSUME MeritInvariant, NEW e \in Field
             PROVE  Score(e) = Mean(WeightOn(e, First), WeightOn(e, Second),
                                    ShareOn(e, First), ShareOn(e, Second))
  BY DEF ScoredByMean
<1>. DEFINE w == [c \in Criteria |-> WeightOn(e, c)]
            s == [c \in Criteria |-> ShareOn(e, c)]
<1>1. First \in Criteria /\ Second \in Criteria
  BY CriteriaKnown DEF First, Second
<1>2. Score(e) = Percent(w, s)
  BY DEF Score
<1>3. /\ w[First] = WeightOn(e, First) /\ w[Second] = WeightOn(e, Second)
      /\ s[First] = ShareOn(e, First) /\ s[Second] = ShareOn(e, Second)
  BY <1>1
<1>4. [c \in Criteria |-> w[c] * s[c]][First] = w[First] * s[First]
  BY <1>1
<1>5. [c \in Criteria |-> w[c] * s[c]][Second] = w[Second] * s[Second]
  BY <1>1
<1>. HIDE DEF w, s
<1>. QED
  BY <1>2, <1>3, <1>4, <1>5 DEF Percent, SumOver, Mean, First, Second

LEMMA WeightTypes ==
  ASSUME MeritInvariant, NEW e \in Field, NEW c \in Criteria
  PROVE  WeightOn(e, c) \in Nat
<1>1. weight[c] \in Int
  BY StatementTypes
<1>2. AtLeastZero(weight[c]) \in Nat
  BY <1>1, MaxOfTwo DEF AtLeastZero
<1>. QED
  BY <1>2, CriteriaKnown DEF WeightOn, OfferWeight, DefaultWeight, FitWeight

\* A mark, kept between 0 and 100.
Clamped(m) == Min({100, Max({0, m})})

LEMMA ClampMonotone ==
  ASSUME NEW m \in Int, NEW n \in Int, m <= n
  PROVE  /\ Share(Clamped(m), 100) \in Int
         /\ Share(Clamped(m), 100) <= Share(Clamped(n), 100)
<1>1. Max({0, m}) \in Int /\ Max({0, n}) \in Int /\ Max({0, m}) <= Max({0, n})
  BY MaxOfTwo
<1>2. Clamped(m) \in Int /\ Clamped(n) \in Int /\ Clamped(m) <= Clamped(n)
  BY <1>1, MinOfTwo DEF Clamped
<1>. QED
  BY <1>2, ShareType, ShareMonotone, Clamped(m) * 100 <= Clamped(n) * 100

LEMMA IrrMonotone ==
  ASSUME NEW v \in Int, NEW w \in Int, v <= w
  PROVE  IrrShare(v) \in Int /\ IrrShare(v) <= IrrShare(w)
<1>. DEFINE t == Mandate.target
<1>1. t \in Int /\ Unit \in Nat \ {0}
  BY MeritAssumption
<1>2. CASE t <= 0
  BY <1>1, <1>2 DEF IrrShare
<1>3. CASE t > 0
  <2>1. t \in Nat \ {0}
    BY <1>1, <1>3
  <2>2. v * t <= w * t
    BY <2>1, Products, v * t = t * v, w * t = t * w
  <2>3. Share(v, t) \in Int /\ Share(w, t) \in Int /\ Share(v, t) <= Share(w, t)
    BY <2>1, <2>2, ShareType, ShareMonotone
  <2>4. Share(t, t) = Unit
    <3>1. (Unit * t) \div t = Unit
      BY <1>1, <2>1
    <3>. QED
      BY <3>1 DEF Share
  <2>5. v < t => Share(v, t) <= Unit
    <3>1. v < t => v * t <= t * t
      BY <2>1, Products, v * t = t * v
    <3>. QED
      BY <2>1, <2>4, <3>1, ShareMonotone
  <2>6. /\ Max({0, Share(v, t)}) = IF 0 >= Share(v, t) THEN 0 ELSE Share(v, t)
        /\ Max({0, Share(w, t)}) = IF 0 >= Share(w, t) THEN 0 ELSE Share(w, t)
    BY <2>3, MaxOfTwo
  <2>7. /\ IrrShare(v) = IF v >= t THEN Unit ELSE Max({0, Share(v, t)})
        /\ IrrShare(w) = IF w >= t THEN Unit ELSE Max({0, Share(w, t)})
    BY <1>3, <2>1 DEF IrrShare
  <2>. HIDE DEF t
  <2>. QED
    BY <1>1, <2>1, <2>3, <2>5, <2>6, <2>7
<1>. QED
  BY <1>1, <1>2, <1>3

LEMMA TicketType ==
  ASSUME NEW v \in Int
  PROVE  TicketShare(v) \in Int
<1>. DEFINE bound == IF v < Mandate.min THEN Mandate.min ELSE Mandate.max
            distance == IF v < bound THEN bound - v ELSE v - bound
<1>1. bound \in Nat /\ Unit \in Nat
  BY MeritAssumption
<1>2. distance \in Nat
  BY <1>1
<1>3. CASE 2 * distance >= bound
  BY <1>1, <1>3 DEF TicketShare
<1>4. CASE ~(2 * distance >= bound)
  <2>1. bound \in Nat \ {0}
    BY <1>1, <1>2, <1>4
  <2>2. Share(2 * distance, bound) \in Int
    BY <1>2, <2>1, ShareType
  <2>. QED
    BY <1>1, <1>4, <2>2 DEF TicketShare
<1>. QED
  BY <1>3, <1>4

LEMMA ShareTypes ==
  ASSUME MeritInvariant, NEW e \in Field, NEW c \in Criteria
  PROVE  ShareOn(e, c) \in Int
<1>1. stated[e][c] \in Int \cup {Silent} /\ mark[e] \in Int \cup {Silent}
  BY StatementTypes
<1>2. Stated(c) # {} => ObjectiveShare(e, c) \in Int
  <2>1. RangeOf(c)
    BY Ranges
  <2>. QED
    BY <2>1, RiseType DEF RangeOf
<1>3. Share(1, 2) \in Int
  BY ShareType
<1>4. Marked(e, c) => Share(Clamped(mark[e]), 100) \in Int
  BY <1>1, ClampMonotone DEF Marked
<1>5. engine = "bids" => BidShare(e, c) \in Int
  BY <1>2, <1>4 DEF BidShare, Clamped
<1>6. engine = "offers" => OfferShare(e, c) \in Int
  BY <1>2, <1>3 DEF OfferShare
<1>7. engine = "fit" => FitShare(e, c) \in Int
  BY <1>1, CriteriaKnown, IrrMonotone, TicketType DEF FitShare
<1>. QED
  BY <1>5, <1>6, <1>7, CriteriaKnown DEF ShareOn
LEMMA MeanType ==
  ASSUME NEW w1 \in Nat, NEW w2 \in Nat, NEW s1 \in Int, NEW s2 \in Int
  PROVE  Mean(w1, w2, s1, s2) \in Int
<1>1. CASE ~(w1 + w2 > 0)
  BY <1>1 DEF Mean
<1>2. CASE w1 + w2 > 0
  <2>1. w1 + w2 \in Nat \ {0} /\ Unit \in Nat \ {0}
    BY <1>2, MeritAssumption
  <2>2. (w1 + w2) * Unit \in Nat \ {0} /\ w1 * s1 \in Int /\ w2 * s2 \in Int
    BY <2>1
  <2>3. 2 * (w1 + w2) * Unit = 2 * ((w1 + w2) * Unit)
    BY <2>1
  <2>4. 2 * (w1 + w2) * Unit \in Nat \ {0}
    BY <2>2, <2>3
  <2>. QED
    BY <1>2, <2>2, <2>4 DEF Mean
<1>. QED
  BY <1>1, <1>2

LEMMA ScoreTypes == MeritInvariant => \A e \in Field : Score(e) \in Int
<1>. SUFFICES ASSUME MeritInvariant, NEW e \in Field PROVE Score(e) \in Int
  OBVIOUS
<1>1. First \in Criteria /\ Second \in Criteria
  BY CriteriaKnown DEF First, Second
<1>. QED
  BY <1>1, ScoresAreMeans, WeightTypes, ShareTypes, MeanType DEF ScoredByMean
-----------------------------------------------------------------------------
(* Merit: the better never scores less *)

LEMMA SignedOrder ==
  ASSUME NEW c \in {"delivery", "experience"}, NEW v \in Int, NEW w \in Int
  PROVE  AsGoodValue(c, v, w) <=> Signed(c, w) <= Signed(c, v)
<1>1. CASE c = "delivery"
  <2>1. AsGoodValue(c, v, w) <=> v <= w
    BY <1>1 DEF AsGoodValue
  <2>. QED
    BY <1>1, <2>1 DEF Signed, HigherBetter
<1>2. CASE c = "experience"
  <2>1. AsGoodValue(c, v, w) <=> v >= w
    BY <1>2 DEF AsGoodValue
  <2>. QED
    BY <1>2, <2>1 DEF Signed, HigherBetter
<1>. QED
  BY <1>1, <1>2

\* Who is as good on a criterion has as great a share of it, at the same
\* weight.
LEMMA AsGoodCounts ==
  ASSUME MeritInvariant, NEW e \in Field, NEW r \in Field, NEW c \in Criteria, AsGood(e, r, c)
  PROVE  ShareOn(r, c) <= ShareOn(e, c) /\ WeightOn(e, c) = WeightOn(r, c)
<1>. DEFINE v == stated[e][c]
            w == stated[r][c]
<1>0. /\ v \in Int \cup {Silent} /\ w \in Int \cup {Silent} /\ Silent \notin Int
      /\ mark[e] \in Int \cup {Silent} /\ mark[r] \in Int \cup {Silent}
  BY StatementTypes, MeritAssumption
<1>1. CASE Marked(e, c) \/ Marked(r, c)
  <2>1. Marked(e, c) /\ Marked(r, c) /\ mark[r] <= mark[e] /\ engine = "bids"
    BY <1>0, <1>1 DEF AsGood, Marked, MeritInvariant
  <2>2. Share(Clamped(mark[r]), 100) <= Share(Clamped(mark[e]), 100)
    BY <1>0, <2>1, ClampMonotone DEF Marked
  <2>. QED
    BY <2>1, <2>2 DEF ShareOn, BidShare, Clamped, WeightOn
<1>2. CASE ~Marked(e, c) /\ ~Marked(r, c)
  <2>1. \/ v = w
        \/ w = Silent /\ engine # "fit"
        \/ v # Silent /\ w # Silent /\ AsGoodValue(c, v, w)
    BY <1>2 DEF AsGood
  <2>2. CASE engine # "fit"
    <3>1. Stated(c) # {} => ObjectiveShare(r, c) <= ObjectiveShare(e, c)
      <4>. SUFFICES ASSUME Stated(c) # {}
                   PROVE  ObjectiveShare(r, c) <= ObjectiveShare(e, c)
        OBVIOUS
      <4>1. RangeOf(c)
        BY Ranges
      <4>2. Worth(r, c) <= Worth(e, c)
        <5>1. /\ Low(c) \in Int /\ Low(c) <= Worth(e, c)
              /\ Worth(e, c) \in Int /\ Worth(r, c) \in Int
          BY <4>1 DEF RangeOf
        <5>2. c \in {"delivery", "experience"}
          BY <2>2, CriteriaKnown
        <5>3. CASE v = w
          BY <5>1, <5>3 DEF Worth
        <5>4. CASE w = Silent
          BY <5>1, <5>4 DEF Worth
        <5>5. CASE v # Silent /\ w # Silent /\ AsGoodValue(c, v, w)
          <6>1. Signed(c, w) <= Signed(c, v)
            BY <1>0, <5>2, <5>5, SignedOrder
          <6>. QED
            BY <5>5, <6>1 DEF Worth
        <5>. QED
          BY <2>1, <5>3, <5>4, <5>5
      <4>. QED
        BY <4>1, <4>2, RiseMonotone DEF RangeOf
    <3>2. Share(1, 2) \in Int
      BY ShareType
    <3>. QED
      BY <1>2, <2>2, <3>1, <3>2, CriteriaKnown DEF ShareOn, BidShare, OfferShare, WeightOn
  <2>3. CASE engine = "fit"
    <3>1. v = Silent <=> w = Silent
      BY <2>1, <2>3
    <3>2. FitShare(r, c) <= FitShare(e, c)
      <4>1. CASE v = w
        <5>1. FitShare(r, c) = FitShare(e, c) /\ FitShare(e, c) \in Int
          BY <2>3, <4>1, ShareTypes DEF FitShare, ShareOn
        <5>. QED
          BY <5>1
      <4>2. CASE v # w
        <5>1. v \in Int /\ w \in Int /\ AsGoodValue(c, v, w)
          BY <1>0, <2>1, <2>3, <4>2
        <5>. QED
          BY <1>0, <2>3, <5>1, CriteriaKnown, IrrMonotone DEF FitShare, AsGoodValue
      <4>. QED
        BY <4>1, <4>2
    <3>. QED
      BY <2>3, <3>1, <3>2 DEF ShareOn, WeightOn, FitWeight
  <2>. QED
    BY <2>2, <2>3
<1>. QED
  BY <1>1, <1>2

\* Whatever the field, the weights, the gaps and the marks, who is as good on
\* every criterion never scores less (evaluateBids, compareOffers, scoreFit).
THEOREM TheBetterNeverScoreLess == MeritSpec => []MeritIsRewarded
<1>1. ASSUME MeritInvariant PROVE MeritIsRewarded
  <2>. SUFFICES ASSUME NEW e \in Field, NEW r \in Field, \A c \in Criteria : AsGood(e, r, c)
               PROVE  Score(e) >= Score(r)
    BY DEF MeritIsRewarded
  <2>1. First \in Criteria /\ Second \in Criteria
    BY <1>1, CriteriaKnown DEF First, Second
  <2>2. \A c \in Criteria : /\ ShareOn(r, c) <= ShareOn(e, c)
                            /\ ShareOn(r, c) \in Int /\ ShareOn(e, c) \in Int
                            /\ WeightOn(e, c) = WeightOn(r, c) /\ WeightOn(r, c) \in Nat
    BY <1>1, AsGoodCounts, ShareTypes, WeightTypes
  <2>3. Mean(WeightOn(r, First), WeightOn(r, Second), ShareOn(r, First), ShareOn(r, Second))
          <= Mean(WeightOn(r, First), WeightOn(r, Second), ShareOn(e, First), ShareOn(e, Second))
    BY <2>1, <2>2, MeanMonotone
  <2>4. Score(r) <= Score(e)
    BY <1>1, <2>1, <2>2, <2>3, ScoresAreMeans DEF ScoredByMean
  <2>5. Score(r) \in Int /\ Score(e) \in Int
    BY <1>1, ScoreTypes
  <2>. QED
    BY <2>4, <2>5
<1>. QED
  BY <1>1, MeritInvariantHolds, PTL
-----------------------------------------------------------------------------
(* Merit: bettering one's terms *)

Ranged ==
  \A c \in Criteria :
    /\ RangeOf(c)
    /\ \A e \in Field : stated[e][c] \in Int \cup {Silent} /\ mark[e] \in Int \cup {Silent}

LEMMA FieldsAreRanged == MeritInvariant => Ranged
BY Ranges, StatementTypes DEF Ranged

\* A step between two states of a field in which e betters their terms.
Gain(e) ==
  /\ MeritInvariant /\ MeritInvariant' /\ Ranged /\ Ranged'
  /\ engine' = engine /\ weight' = weight
  /\ Betters(e)

LEMMA GainBasics ==
  ASSUME NEW e \in Field, Gain(e), NEW c \in Criteria
  PROVE  /\ Field' = Field /\ Criteria' = Criteria
         /\ \A r \in Field : stated[r][c] = Silent <=> stated'[r][c] = Silent
         /\ \A r \in Field \ {e} : stated'[r] = stated[r] /\ mark'[r] = mark[r]
         /\ \A r \in Field : stated[r][c] \in Int \cup {Silent} /\ stated'[r][c] \in Int \cup {Silent}
         /\ \A r \in Field : mark[r] \in Int \cup {Silent} /\ mark'[r] \in Int \cup {Silent}
         /\ RangeOf(c) /\ RangeOf(c)'
         /\ Stated(c) = {} <=> Stated(c)' = {}
<1>1. Field' = Field /\ Criteria' = Criteria
  BY DEF Gain, Betters, Criteria, CriteriaFor
<1>2. \A r \in Field \ {e} : stated'[r] = stated[r] /\ mark'[r] = mark[r]
  BY DEF Gain, Betters
<1>3. stated[e][c] = stated'[e][c] \/ (stated[e][c] # Silent /\ stated'[e][c] # Silent)
  BY DEF Gain, Betters
<1>4. RangeOf(c) /\ RangeOf(c)'
  BY <1>1 DEF Gain, Ranged
<1>5. \A r \in Field : stated[r][c] \in Int \cup {Silent} /\ mark[r] \in Int \cup {Silent}
  BY DEF Gain, Ranged
<1>6. \A r \in Field : stated'[r][c] \in Int \cup {Silent} /\ mark'[r] \in Int \cup {Silent}
  BY <1>1 DEF Gain, Ranged
<1>7. \A r \in Field : stated[r][c] = Silent <=> stated'[r][c] = Silent
  BY <1>2, <1>3
<1>8. Stated(c) = {} <=> Stated(c)' = {}
  BY <1>1, <1>7 DEF Stated
<1>. QED
  BY <1>1, <1>2, <1>4, <1>5, <1>6, <1>7, <1>8

LEMMA ObjectiveMoves ==
  ASSUME NEW e \in Field, Gain(e), engine # "fit", NEW c \in Criteria, Stated(c) # {},
         ~LevelsWithTheSilent(e, c)
  PROVE  /\ ObjectiveShare(e, c) <= ObjectiveShare(e, c)'
         /\ \A r \in Field \ {e} : ~Marked(r, c) => ObjectiveShare(r, c)' <= ObjectiveShare(r, c)
<1>. DEFINE v == stated[e][c]
            w == stated'[e][c]
            lo == Low(c)
            hi == High(c)
            lo2 == Low(c)'
            hi2 == High(c)'
<1>1. /\ Field' = Field
      /\ \A r \in Field : stated[r][c] = Silent <=> stated'[r][c] = Silent
      /\ \A r \in Field \ {e} : stated'[r][c] = stated[r][c]
      /\ Stated(c)' # {}
  BY GainBasics
<1>2. /\ lo \in Int /\ hi \in Int /\ lo <= hi
      /\ \A r \in Field : Worth(r, c) \in Int /\ lo <= Worth(r, c) /\ Worth(r, c) <= hi
      /\ \E r \in Field : stated[r][c] # Silent /\ Worth(r, c) = lo
      /\ \E r \in Field : stated[r][c] # Silent /\ Worth(r, c) = hi
      /\ \A r \in Field : ObjectiveShare(r, c) = Rise(lo, hi, Worth(r, c))
      /\ Level(c) <=> lo = hi
  BY GainBasics DEF RangeOf
<1>3. /\ lo2 \in Int /\ hi2 \in Int /\ lo2 <= hi2
      /\ \A r \in Field : Worth(r, c)' \in Int /\ lo2 <= Worth(r, c)' /\ Worth(r, c)' <= hi2
      /\ \E r \in Field : stated'[r][c] # Silent /\ Worth(r, c)' = lo2
      /\ \E r \in Field : stated'[r][c] # Silent /\ Worth(r, c)' = hi2
      /\ \A r \in Field : ObjectiveShare(r, c)' = Rise(lo2, hi2, Worth(r, c)')
      /\ Level(c)' <=> lo2 = hi2
  BY <1>1, GainBasics DEF RangeOf, Rise, Share
<1>. HIDE DEF lo, hi, lo2, hi2
<1>4. CASE w = v
  <2>1. stated'[e][c] = stated[e][c] /\ \A r \in Field : stated'[r][c] = stated[r][c]
    BY <1>1, <1>4
  <2>2. Stated(c)' = Stated(c)
    BY <1>1, <2>1 DEF Stated
  <2>3. lo2 = lo /\ hi2 = hi
    BY <2>2 DEF lo, hi, lo2, hi2, Low, High
  <2>4. \A r \in Field : Worth(r, c)' = Worth(r, c)
    BY <2>1, <2>3 DEF Worth, Signed, lo, lo2
  <2>5. \A r \in Field : ObjectiveShare(r, c)' = ObjectiveShare(r, c) /\ ObjectiveShare(r, c) \in Int
    BY <1>2, <1>3, <2>3, <2>4, RiseType
  <2>. QED
    BY <2>5
<1>5. CASE w # v
  <2>1. v \in Int /\ w \in Int /\ v # Silent /\ w # Silent /\ AsGoodValue(c, w, v)
    BY <1>5, GainBasics DEF Gain, Betters
  <2>2. Worth(e, c) < Worth(e, c)'
    <3>1. c \in {"delivery", "experience"}
      BY CriteriaKnown DEF Gain
    <3>2. Signed(c, v) <= Signed(c, w)
      BY <2>1, <3>1, SignedOrder
    <3>3. Signed(c, v) \in Int /\ Signed(c, w) \in Int /\ Signed(c, v) # Signed(c, w)
      BY <1>5, <2>1 DEF Signed
    <3>4. Worth(e, c) = Signed(c, v) /\ Worth(e, c)' = Signed(c, w)
      BY <2>1 DEF Worth, Signed
    <3>. QED
      BY <3>2, <3>3, <3>4
  <2>3. \A r \in Field \ {e} : stated[r][c] # Silent => Worth(r, c)' = Worth(r, c)
    BY <1>1 DEF Worth, Signed
  <2>4. lo <= lo2
    <3>1. PICK r \in Field : stated'[r][c] # Silent /\ Worth(r, c)' = lo2
      BY <1>3
    <3>. QED
      BY <1>1, <1>2, <1>3, <2>2, <2>3, <3>1
  <2>5. hi <= hi2
    <3>1. PICK r \in Field : stated[r][c] # Silent /\ Worth(r, c) = hi
      BY <1>2
    <3>. QED
      BY <1>2, <1>3, <2>2, <2>3, <3>1
  <2>6. hi2 = hi \/ hi2 = Worth(e, c)'
    <3>1. PICK r \in Field : stated'[r][c] # Silent /\ Worth(r, c)' = hi2
      BY <1>3
    <3>. QED
      BY <1>1, <1>2, <1>3, <2>3, <2>5, <3>1
  <2>7. lo2 = lo \/ Worth(e, c) = lo
    <3>1. PICK r \in Field : stated[r][c] # Silent /\ Worth(r, c) = lo
      BY <1>2
    <3>. QED
      BY <1>2, <1>3, <2>3, <2>4, <3>1
  <2>8. ObjectiveShare(e, c) <= ObjectiveShare(e, c)'
    <3>. DEFINE x == Worth(e, c)
                y == Worth(e, c)'
    <3>1. /\ x \in Int /\ lo <= x /\ x <= hi /\ y \in Int /\ lo2 <= y /\ y <= hi2 /\ x < y
          /\ hi2 = hi \/ hi2 = y
          /\ lo2 = lo \/ x = lo
          /\ ObjectiveShare(e, c) = Rise(lo, hi, x)
          /\ ObjectiveShare(e, c)' = Rise(lo2, hi2, y)
      BY <1>2, <1>3, <2>2, <2>6, <2>7
    <3>. HIDE DEF x, y
    <3>2. Rise(lo, hi, x) <= Rise(lo2, hi2, y)
      BY <1>2, <1>3, <2>4, <2>5, <3>1, RiseOfOne
    <3>. QED
      BY <3>1, <3>2
  <2>9. ASSUME NEW r \in Field \ {e}, stated[r][c] # Silent
        PROVE  ObjectiveShare(r, c)' <= ObjectiveShare(r, c)
    <3>. DEFINE x == Worth(r, c)
    <3>1. /\ x \in Int /\ lo <= x /\ x <= hi /\ lo2 <= x /\ x <= hi2
          /\ ObjectiveShare(r, c) = Rise(lo, hi, x)
          /\ ObjectiveShare(r, c)' = Rise(lo2, hi2, x)
      BY <1>2, <1>3, <2>3, <2>9
    <3>. HIDE DEF x
    <3>2. Rise(lo2, hi2, x) <= Rise(lo, hi, x)
      BY <1>2, <1>3, <2>4, <2>5, <3>1, RiseOfOthers
    <3>. QED
      BY <3>1, <3>2
  <2>10. ASSUME NEW r \in Field \ {e}, stated[r][c] = Silent, ~Marked(r, c)
         PROVE  ObjectiveShare(r, c)' <= ObjectiveShare(r, c)
    <3>1. Worth(r, c) = lo /\ Worth(r, c)' = lo2
      BY <1>1, <2>10 DEF Worth, lo, lo2
    <3>2. lo2 = hi2 => lo = hi
      BY <1>2, <1>3, <2>10 DEF LevelsWithTheSilent
    <3>3. Share(1, 2) \in Int
      BY ShareType
    <3>4. CASE lo = hi /\ lo2 = hi2
      BY <1>2, <1>3, <3>1, <3>3, <3>4 DEF Rise
    <3>5. CASE lo2 < hi2 /\ lo = hi
      BY <1>2, <1>3, <3>1, <3>5, RiseEnds DEF Rise
    <3>6. CASE lo2 < hi2 /\ lo < hi
      BY <1>2, <1>3, <3>1, <3>6, RiseEnds
    <3>. QED
      BY <1>2, <1>3, <3>2, <3>4, <3>5, <3>6
  <2>. QED
    BY <2>8, <2>9, <2>10
<1>. QED
  BY <1>4, <1>5

\* Who betters their terms has no smaller share of any criterion, and their
\* rivals no greater one.
LEMMA SharesMove ==
  ASSUME NEW e \in Field, Gain(e), NEW c \in Criteria, ~LevelsWithTheSilent(e, c)
  PROVE  /\ ShareOn(e, c) <= ShareOn(e, c)'
         /\ \A r \in Field \ {e} : ShareOn(r, c)' <= ShareOn(r, c)
         /\ \A r \in Field : WeightOn(r, c)' = WeightOn(r, c)
<1>. DEFINE v == stated[e][c]
            w == stated'[e][c]
<1>0. MeritInvariant /\ engine' = engine /\ weight' = weight
  BY DEF Gain
<1>1. /\ Field' = Field /\ Criteria' = Criteria
      /\ \A r \in Field : stated[r][c] = Silent <=> stated'[r][c] = Silent
      /\ \A r \in Field \ {e} : stated'[r] = stated[r] /\ mark'[r] = mark[r]
      /\ \A r \in Field : mark[r] \in Int \cup {Silent} /\ mark'[r] \in Int \cup {Silent}
      /\ Stated(c) = {} <=> Stated(c)' = {}
  BY GainBasics
<1>2. \A r \in Field : WeightOn(r, c)' = WeightOn(r, c)
  BY <1>0, <1>1 DEF WeightOn, OfferWeight, DefaultWeight, AtLeastZero, FitWeight
<1>3. Share(1, 2) \in Int /\ Silent \notin Int
  BY ShareType, MeritAssumption
<1>4. engine # "fit" /\ Stated(c) # {} =>
        /\ ObjectiveShare(e, c) <= ObjectiveShare(e, c)'
        /\ \A r \in Field \ {e} : ~Marked(r, c) => ObjectiveShare(r, c)' <= ObjectiveShare(r, c)
  BY ObjectiveMoves
<1>5. CASE engine = "bids"
  <2>1. Marked(e, c) <=> Marked(e, c)'
    BY DEF Gain, Betters, Marked
  <2>2. \A r \in Field \ {e} : /\ Marked(r, c) <=> Marked(r, c)'
                               /\ Marked(r, c) => mark'[r] = mark[r] /\ mark[r] \in Int
    BY <1>1 DEF Marked
  <2>3. Marked(e, c) => Share(Clamped(mark[e]), 100) <= Share(Clamped(mark'[e]), 100)
    <3>. SUFFICES ASSUME Marked(e, c)
                 PROVE  Share(Clamped(mark[e]), 100) <= Share(Clamped(mark'[e]), 100)
      OBVIOUS
    <3>1. mark'[e] >= mark[e] /\ mark[e] # Silent /\ mark'[e] # Silent
      BY <2>1 DEF Gain, Betters, Marked
    <3>. QED
      BY <1>1, <3>1, ClampMonotone
  <2>4. \A r \in Field \ {e} :
          Marked(r, c) => Share(Clamped(mark[r]), 100) \in Int /\ mark'[r] = mark[r]
    BY <2>2, ClampMonotone
  <2>5. BidShare(e, c) <= BidShare(e, c)'
    BY <1>1, <1>4, <1>5, <2>1, <2>3 DEF BidShare, Clamped, Share
  <2>6. \A r \in Field \ {e} : BidShare(r, c)' <= BidShare(r, c)
    <3>. SUFFICES ASSUME NEW r \in Field \ {e} PROVE BidShare(r, c)' <= BidShare(r, c)
      OBVIOUS
    <3>1. CASE Marked(r, c)
      <4>1. /\ Marked(r, c)' /\ mark'[r] = mark[r] /\ Share(Clamped(mark[r]), 100) \in Int
        BY <2>2, <2>4, <3>1
      <4>2. BidShare(r, c) = Share(Clamped(mark[r]), 100)
        BY <3>1 DEF BidShare, Clamped
      <4>3. BidShare(r, c)' = Share(Clamped(mark[r]), 100)
        BY <4>1 DEF BidShare, Clamped, Share
      <4>. QED
        BY <4>1, <4>2, <4>3
    <3>2. CASE ~Marked(r, c)
      <4>1. ~Marked(r, c)'
        BY <2>2, <3>2
      <4>. QED
        BY <1>1, <1>4, <1>5, <3>2, <4>1 DEF BidShare
    <3>. QED
      BY <3>1, <3>2
  <2>. QED
    BY <1>0, <1>2, <1>5, <2>5, <2>6 DEF ShareOn
<1>6. CASE engine = "offers"
  <2>1. \A r \in Field : ~Marked(r, c)
    BY <1>0, <1>6 DEF Marked, MeritInvariant
  <2>2. OfferShare(e, c) <= OfferShare(e, c)'
    BY <1>1, <1>3, <1>4, <1>6 DEF OfferShare, Share
  <2>3. \A r \in Field \ {e} : OfferShare(r, c)' <= OfferShare(r, c)
    BY <1>1, <1>3, <1>4, <1>6, <2>1 DEF OfferShare, Share
  <2>. QED
    BY <1>0, <1>2, <1>6, <2>2, <2>3 DEF ShareOn
<1>7. CASE engine = "fit"
  <2>1. c \in {"irr", "investment"} /\ \A r \in Field : FitShare(r, c) \in Int
    BY <1>0, <1>7, CriteriaKnown, ShareTypes DEF ShareOn
  <2>2. \A r \in Field \ {e} : FitShare(r, c)' = FitShare(r, c)
    BY <1>1 DEF FitShare, IrrShare, TicketShare, Share
  <2>3. CASE w = v
    <3>1. FitShare(e, c)' = FitShare(e, c)
      BY <2>3 DEF FitShare, IrrShare, TicketShare, Share
    <3>. QED
      BY <1>0, <1>2, <1>7, <2>1, <2>2, <3>1 DEF ShareOn
  <2>4. CASE w # v
    <3>1. v \in Int /\ w \in Int /\ v # Silent /\ w # Silent /\ AsGoodValue(c, w, v)
      BY <2>4, GainBasics DEF Gain, Betters
    <3>2. FitShare(e, c) = IF c = "irr" THEN IrrShare(v) ELSE TicketShare(v)
      BY <3>1 DEF FitShare
    <3>3. FitShare(e, c)' = IF c = "irr" THEN IrrShare(w) ELSE TicketShare(w)
      BY <3>1 DEF FitShare, IrrShare, TicketShare, Share
    <3>4. FitShare(e, c) <= FitShare(e, c)'
      BY <2>1, <3>1, <3>2, <3>3, IrrMonotone, TicketType DEF AsGoodValue
    <3>. QED
      BY <1>0, <1>2, <1>7, <2>1, <2>2, <3>4 DEF ShareOn
  <2>. QED
    BY <2>3, <2>4
<1>. QED
  BY <1>0, <1>5, <1>6, <1>7, CriteriaKnown

Scored ==
  /\ ScoredByMean
  /\ \A e \in Field : Score(e) \in Int
  /\ \A e \in Field, c \in Criteria : ShareOn(e, c) \in Int /\ WeightOn(e, c) \in Nat

LEMMA FieldsAreScored == MeritInvariant => Scored
BY ScoresAreMeans, ScoreTypes, ShareTypes, WeightTypes DEF Scored

\* Nobody falls behind by bettering their own terms, in a field of any size
\* and whatever the weights, gaps and marks, unless they draw level with all
\* others on what a rival is silent on (evaluateBids, compareOffers).
THEOREM NobodyLosesByTheirGain == MeritSpec => OwnGainNeverCostsRank
<1>1. ASSUME MeritInvariant, MeritInvariant', Ranged, Ranged', Scored, Scored',
             [MeritNext]_meritVars
      PROVE  [\A e \in Field :
                Betters(e) /\ (\A c \in Criteria : ~LevelsWithTheSilent(e, c))
                  => Rank(e)' <= Rank(e)]_<<stated, mark>>
  <2>. SUFFICES ASSUME NEW e \in Field, Betters(e), \A c \in Criteria : ~LevelsWithTheSilent(e, c)
               PROVE  Rank(e)' <= Rank(e)
    OBVIOUS
  <2>1. engine' = engine /\ weight' = weight
    BY <1>1 DEF MeritNext, Enter, Revise, Mark, Exclude, meritVars
  <2>2. Gain(e)
    BY <1>1, <2>1 DEF Gain
  <2>3. Field' = Field /\ Criteria' = Criteria /\ First' = First /\ Second' = Second
    BY <2>1 DEF Betters, Criteria, CriteriaFor, First, Second
  <2>4. PICK f \in Criteria, s \in Criteria : f = First /\ s = Second
    BY <1>1, CriteriaKnown DEF First, Second
  <2>5. \A c \in {f, s} :
          /\ ShareOn(e, c) <= ShareOn(e, c)'
          /\ \A r \in Field \ {e} : ShareOn(r, c)' <= ShareOn(r, c)
          /\ \A r \in Field : WeightOn(r, c)' = WeightOn(r, c)
    BY <2>2, SharesMove
  <2>6. ASSUME NEW r \in Field
        PROVE  /\ Score(r) = Mean(WeightOn(r, f), WeightOn(r, s), ShareOn(r, f), ShareOn(r, s))
               /\ Score(r)' = Mean(WeightOn(r, f), WeightOn(r, s), ShareOn(r, f)', ShareOn(r, s)')
               /\ Score(r) \in Int /\ Score(r)' \in Int
               /\ WeightOn(r, f) \in Nat /\ WeightOn(r, s) \in Nat
               /\ ShareOn(r, f) \in Int /\ ShareOn(r, s) \in Int
               /\ ShareOn(r, f)' \in Int /\ ShareOn(r, s)' \in Int
    <3>1. Score(r) = Mean(WeightOn(r, f), WeightOn(r, s), ShareOn(r, f), ShareOn(r, s))
      BY <1>1, <2>4 DEF Scored, ScoredByMean
    <3>2. Score(r)' = Mean(WeightOn(r, f)', WeightOn(r, s)', ShareOn(r, f)', ShareOn(r, s)')
      BY <1>1, <2>3, <2>4 DEF Scored, ScoredByMean, Mean
    <3>3. WeightOn(r, f)' = WeightOn(r, f) /\ WeightOn(r, s)' = WeightOn(r, s)
      BY <2>5
    <3>. QED
      BY <1>1, <2>3, <3>1, <3>2, <3>3 DEF Scored
  <2>7. Score(e) <= Score(e)'
    BY <2>5, <2>6, MeanMonotone
  <2>8. \A r \in Field \ {e} : Score(r)' <= Score(r)
    BY <2>5, <2>6, MeanMonotone
  <2>. DEFINE Ahead == {r \in Field \ {e} : Score(r) > Score(e) \/ (Score(r) = Score(e) /\ r < e)}
  <2>9. Ahead' \subseteq Ahead
    BY <2>3, <2>6, <2>7, <2>8
  <2>10. IsFiniteSet(Ahead)
    BY <1>1, FS_Subset DEF MeritInvariant
  <2>11. Cardinality(Ahead') <= Cardinality(Ahead)
    BY <2>9, <2>10, FS_Subset
  <2>12. Cardinality(Ahead') \in Nat /\ Cardinality(Ahead) \in Nat
    BY <2>9, <2>10, FS_Subset, FS_CardinalityType
  <2>13. Rank(e) = 1 + Cardinality(Ahead) /\ Rank(e)' = 1 + Cardinality(Ahead')
    BY DEF Rank
  <2>. QED
    BY <2>11, <2>12, <2>13
<1>. QED
  BY <1>1, MeritInvariantHolds, FieldsAreRanged, FieldsAreScored, PTL DEF MeritSpec, OwnGainNeverCostsRank
-----------------------------------------------------------------------------
(* Appraisal: types *)

\* What is known of the terms of a study, also of a scenario's and of those of
\* a purchase at whatever price.
Typed(t) ==
  /\ t.gfaSqm \in Nat \ {0} /\ t.efficiencyPct \in Nat \ {0} /\ t.salePricePerSqm \in Nat
  /\ t.constructionCostPerSqm \in Nat /\ t.landCost \in Int
  /\ t.professionalFeesPct \in Nat /\ t.contingencyPct \in Nat
  /\ t.marketingPct \in Nat /\ t.sellingCostsPct \in Nat /\ t.developmentMonths \in Nat
  /\ t.debtRatioPct \in Nat /\ t.financeRatePct \in Nat /\ t.requiredProfitOnCostPct \in Nat

LEMMA TermTypes ==
  ASSUME NEW t \in Drafts
  PROVE  Typed(t) /\ t.salePricePerSqm \in Nat \ {0} /\ t.landCost \in Nat /\ EvenTerms(t)
<1>1. \A term \in TermNames : Terms[term] \subseteq Nat
  BY AppraisalAssumption
<1>2. 0 \notin Terms.gfaSqm /\ 0 \notin Terms.efficiencyPct /\ 0 \notin Terms.salePricePerSqm
  BY AppraisalAssumption
<1>3. EvenTerms(t)
  BY AppraisalAssumption
<1>. QED
  BY <1>1, <1>2, <1>3 DEF Typed, Drafts, TermNames

LEMMA RestateType ==
  ASSUME NEW term \in TermNames, AppraisalTypeOK, Restate(term)
  PROVE  AppraisalTypeOK'
<1>1. PICK v \in Terms[term] : terms' = [terms EXCEPT ![term] = v]
  BY DEF Restate
<1>. QED
  BY <1>1 DEF AppraisalTypeOK, Drafts, TermNames

\* The studio's specification.
AppraisalSpec == AppraisalInit /\ [][AppraisalNext]_terms

\* Terms stay what may be entered (FeasibilityService.compute).
THEOREM AppraisalTypeCorrect == AppraisalSpec => []AppraisalTypeOK
<1>1. AppraisalInit => AppraisalTypeOK
  BY DEF AppraisalInit, AppraisalTypeOK
<1>2. AppraisalTypeOK /\ [AppraisalNext]_terms => AppraisalTypeOK'
  BY RestateType DEF AppraisalNext, AppraisalTypeOK
<1>. QED
  BY <1>1, <1>2, PTL DEF AppraisalSpec
-----------------------------------------------------------------------------
(* Appraisal: percentages *)

LEMMA NatProduct ==
  ASSUME NEW a \in Nat, NEW b \in Nat
  PROVE  a * b \in Nat
OBVIOUS

LEMMA DivNat ==
  ASSUME NEW a \in Nat, NEW p \in Nat \ {0}
  PROVE  a \div p \in Nat
OBVIOUS

LEMMA DivExact ==
  ASSUME NEW a \in Int, NEW p \in Nat \ {0}, a % p = 0
  PROVE  p * (a \div p) = a
OBVIOUS

LEMMA DivAdds ==
  ASSUME NEW a \in Int, NEW b \in Int, NEW p \in Nat \ {0}, a % p = 0
  PROVE  (a + b) \div p = a \div p + b \div p
<1>. DEFINE x == a \div p
            y == b \div p
            z == (a + b) \div p
<1>1. x \in Int /\ y \in Int /\ z \in Int
  OBVIOUS
<1>2. p * x = a
  BY DivExact
<1>3. p * y <= b /\ b < p * (y + 1)
  OBVIOUS
<1>4. p * z <= a + b /\ a + b < p * (z + 1)
  BY a + b \in Int
<1>. HIDE DEF x, y, z
<1>5. p * (x + y) = p * x + p * y /\ p * (x + y + 1) = p * x + p * (y + 1)
  BY <1>1
<1>6. p * (x + y) < p * (z + 1) /\ p * z < p * (x + y + 1)
  BY <1>1, <1>2, <1>3, <1>4, <1>5
<1>7. ~(z + 1 <= x + y)
  BY <1>1, <1>6, Products
<1>8. ~(x + y + 1 <= z)
  BY <1>1, <1>6, Products
<1>. QED
  BY <1>1, <1>7, <1>8 DEF x, y, z

LEMMA PartTypes ==
  ASSUME NEW a \in Int, NEW p \in Nat
  PROVE  Part(a, p) \in Int
<1>1. a * p \in Int /\ Whole \in Nat \ {0}
  BY AppraisalAssumption
<1>. QED
  BY <1>1 DEF Part

LEMMA PartNat ==
  ASSUME NEW a \in Nat, NEW p \in Nat
  PROVE  Part(a, p) \in Nat
<1>1. a * p \in Nat /\ Whole \in Nat \ {0}
  BY AppraisalAssumption, NatProduct
<1>. QED
  BY <1>1, DivNat DEF Part

LEMMA PartMonotone ==
  ASSUME NEW a \in Int, NEW b \in Int, a <= b, NEW p \in Nat
  PROVE  Part(a, p) <= Part(b, p)
<1>1. a * p \in Int /\ b * p \in Int /\ Whole \in Nat \ {0}
  BY AppraisalAssumption
<1>2. a * p <= b * p
  BY Products, a * p = p * a, b * p = p * b
<1>3. (a * p) * Whole <= (b * p) * Whole
  BY <1>1, <1>2, Products
<1>. QED
  BY <1>1, <1>3, DivMonotone DEF Part

LEMMA PartGrows ==
  ASSUME NEW a \in Nat, NEW b \in Nat, a <= b, NEW p \in Nat
  PROVE  Part(a, p) \in Nat /\ Part(b, p) \in Nat /\ Part(a, p) <= Part(b, p)
<1>1. a \in Int /\ b \in Int
  OBVIOUS
<1>. QED
  BY <1>1, PartNat, PartMonotone

LEMMA PartExact ==
  ASSUME NEW a \in Int, NEW p \in Nat, (a * p) % Whole = 0
  PROVE  Whole * Part(a, p) = a * p
BY AppraisalAssumption, DivExact DEF Part

LEMMA PartAdds ==
  ASSUME NEW a \in Int, NEW b \in Int, NEW p \in Nat, (a * p) % Whole = 0
  PROVE  Part(a + b, p) = Part(a, p) + Part(b, p)
<1>. DEFINE x == a * p
            y == b * p
<1>1. x \in Int /\ y \in Int /\ Whole \in Nat \ {0} /\ x % Whole = 0
  BY AppraisalAssumption
<1>2. (a + b) * p = x + y
  OBVIOUS
<1>3. /\ Part(a, p) = x \div Whole /\ Part(b, p) = y \div Whole
      /\ Part(a + b, p) = (x + y) \div Whole
  BY <1>2 DEF Part
<1>. HIDE DEF x, y
<1>4. (x + y) \div Whole = x \div Whole + y \div Whole
  BY <1>1, DivAdds
<1>. QED
  BY <1>3, <1>4
-----------------------------------------------------------------------------
(* Appraisal: the studies agree *)

LEMMA HardSoftTypes ==
  ASSUME NEW t, Typed(t)
  PROVE  HardSoft(t) \in Nat
<1>. DEFINE construction == t.gfaSqm * t.constructionCostPerSqm
            built == construction + Part(construction, t.professionalFeesPct)
<1>1. construction \in Nat
  BY NatProduct DEF Typed
<1>2. Part(construction, t.professionalFeesPct) \in Nat
  BY <1>1, PartNat DEF Typed
<1>3. built \in Nat
  BY <1>1, <1>2
<1>4. Part(built, t.contingencyPct) \in Nat
  BY <1>3, PartNat DEF Typed
<1>. QED
  BY <1>3, <1>4 DEF HardSoft

LEMMA InterestTypes ==
  ASSUME NEW t, Typed(t), NEW debt \in Int
  PROVE  Interest(t, debt) \in Int
<1>1. Part(debt, t.financeRatePct) \in Int
  BY PartTypes DEF Typed
<1>2. Part(debt, t.financeRatePct) * t.developmentMonths \in Int
  BY <1>1 DEF Typed
<1>. QED
  BY <1>2 DEF Interest

LEMMA StudyTypes ==
  ASSUME NEW t, Typed(t)
  PROVE  /\ Nsa(t) \in Nat /\ Gdv(t) \in Nat /\ HardSoft(t) \in Nat
         /\ Marketing(t) \in Nat /\ SellingCosts(t) \in Nat
         /\ FinanceCost(t) \in Int
<1>1. t.gfaSqm * t.efficiencyPct \in Nat
  BY NatProduct DEF Typed
<1>2. Nsa(t) \in Nat
  BY AppraisalAssumption, <1>1, DivNat DEF Nsa, Part
<1>3. Gdv(t) \in Nat
  BY <1>2, NatProduct DEF Gdv, Typed
<1>4. Marketing(t) \in Nat /\ SellingCosts(t) \in Nat
  BY <1>3, PartNat DEF Marketing, SellingCosts, Typed
<1>5. HardSoft(t) \in Nat
  BY HardSoftTypes
<1>6. Part(t.landCost + HardSoft(t), t.debtRatioPct) \in Int
  <2>1. t.landCost + HardSoft(t) \in Int /\ t.debtRatioPct \in Nat
    BY <1>5 DEF Typed
  <2>. QED
    BY <2>1, PartTypes
<1>7. FinanceCost(t) \in Int
  BY <1>6, InterestTypes DEF FinanceCost
<1>. QED
  BY <1>2, <1>3, <1>4, <1>5, <1>7

\* What is left of the sales, against what the development costs.
Margin(t) == Gdv(t) * (Whole - t.marketingPct - t.sellingCostsPct)

Outlay(t) == t.landCost + HardSoft(t) + FinanceCost(t)

EvenSales(t) ==
  (Gdv(t) * t.marketingPct) % Whole = 0 /\ (Gdv(t) * t.sellingCostsPct) % Whole = 0

LEMMA ProfitIsMarginLessOutlay ==
  ASSUME NEW t, Typed(t), EvenSales(t)
  PROVE  /\ NetProfit(t) \in Int /\ Outlay(t) \in Int /\ Margin(t) \in Int
         /\ Whole * NetProfit(t) = Margin(t) - Whole * Outlay(t)
<1>. DEFINE g == Gdv(t)
            mk == Marketing(t)
            sc == SellingCosts(t)
            o == Outlay(t)
            a == t.marketingPct
            b == t.sellingCostsPct
<1>1. g \in Nat /\ mk \in Nat /\ sc \in Nat /\ o \in Int /\ a \in Nat /\ b \in Nat /\ Whole \in Nat \ {0}
  BY AppraisalAssumption, StudyTypes DEF Outlay, Typed
<1>2. Whole * mk = g * a /\ Whole * sc = g * b
  BY <1>1, PartExact DEF Marketing, SellingCosts, EvenSales
<1>3. NetProfit(t) = g - mk - sc - o
  BY StudyTypes DEF NetProfit, Outlay, Typed
<1>4. Margin(t) = g * (Whole - a - b)
  BY DEF Margin
<1>. HIDE DEF g, mk, sc, o, a, b
<1>5. g * (Whole - a - b) = Whole * g - g * a - g * b /\ g * a \in Int /\ g * b \in Int
  BY <1>1
<1>6. Whole * (g - mk - sc - o) = Whole * g - Whole * mk - Whole * sc - Whole * o
  BY <1>1
<1>7. g * (Whole - a - b) \in Int
  BY <1>1
<1>. QED
  BY <1>1, <1>2, <1>3, <1>4, <1>5, <1>6, <1>7 DEF o

LEMMA Signs ==
  ASSUME NEW k \in Nat \ {0}, NEW a \in Int, NEW b \in Int
  PROVE  k * a < k * b <=> a < b
<1>1. a < b => k * a < k * b
  <2>. SUFFICES ASSUME a < b PROVE k * a < k * b
    OBVIOUS
  <2>1. k * (a + 1) <= k * b
    BY Products
  <2>. QED
    BY <2>1
<1>2. b <= a => k * b <= k * a
  BY Products
<1>. QED
  BY <1>1, <1>2

LEMMA BreakEvenAgrees ==
  ASSUME NEW t \in Drafts
  PROVE  BreaksEven(t)
<1>1. Typed(t) /\ EvenSales(t)
  BY TermTypes DEF EvenTerms, EvenSales
<1>2. /\ NetProfit(t) \in Int /\ Outlay(t) \in Int /\ Margin(t) \in Int
      /\ Whole * NetProfit(t) = Margin(t) - Whole * Outlay(t)
  BY <1>1, ProfitIsMarginLessOutlay
<1>3. t.salePricePerSqm * (Nsa(t) * (Whole - t.marketingPct - t.sellingCostsPct)) = Margin(t)
  <2>1. /\ Nsa(t) \in Int /\ t.salePricePerSqm \in Int
        /\ Whole - t.marketingPct - t.sellingCostsPct \in Int
    BY <1>1, AppraisalAssumption, StudyTypes DEF Typed
  <2>. QED
    BY <2>1 DEF Margin, Gdv
<1>4. AboveBreakEven(t) <=> Margin(t) > Whole * Outlay(t)
  BY <1>3 DEF AboveBreakEven, Outlay
<1>5. NetProfit(t) > 0 <=> Whole * 0 < Whole * NetProfit(t)
  BY <1>2, Signs, AppraisalAssumption
<1>6. Whole \in Nat \ {0} /\ Whole * Outlay(t) \in Int /\ Whole * 0 = 0
  BY <1>2, AppraisalAssumption
<1>. QED
  BY <1>2, <1>4, <1>5, <1>6 DEF BreaksEven

\* Two studies of one plot, financed alike, of which the second costs no less
\* to build and takes no less time.
LEMMA OutlaysGrow ==
  ASSUME NEW s, NEW t, Typed(s), Typed(t), t.landCost \in Nat,
         s.gfaSqm = t.gfaSqm, s.landCost = t.landCost,
         s.professionalFeesPct = t.professionalFeesPct, s.contingencyPct = t.contingencyPct,
         s.debtRatioPct = t.debtRatioPct, s.financeRatePct = t.financeRatePct,
         s.constructionCostPerSqm <= t.constructionCostPerSqm,
         s.developmentMonths <= t.developmentMonths
  PROVE  Outlay(s) <= Outlay(t)
<1>. DEFINE cs == s.gfaSqm * s.constructionCostPerSqm
            ct == t.gfaSqm * t.constructionCostPerSqm
            fee == t.professionalFeesPct
            bs == cs + Part(cs, fee)
            bt == ct + Part(ct, fee)
            con == t.contingencyPct
            rate == t.financeRatePct
            m == s.developmentMonths
            n == t.developmentMonths
            ds == Part(t.landCost + HardSoft(s), t.debtRatioPct)
            dt == Part(t.landCost + HardSoft(t), t.debtRatioPct)
            rs == Part(ds, rate)
            rt == Part(dt, rate)
<1>1. cs \in Nat /\ ct \in Nat /\ cs <= ct
  BY NatProduct, Products DEF Typed
<1>2. fee \in Nat /\ con \in Nat /\ rate \in Nat /\ m \in Nat /\ n \in Nat /\ m <= n /\ t.debtRatioPct \in Nat
  BY DEF Typed
<1>. HIDE DEF cs, ct, fee, con, rate, m, n
<1>3. Part(cs, fee) \in Nat /\ Part(ct, fee) \in Nat /\ Part(cs, fee) <= Part(ct, fee)
  BY <1>1, <1>2, PartGrows
<1>4. bs \in Nat /\ bt \in Nat /\ bs <= bt
  BY <1>1, <1>3
<1>5. HardSoft(s) = bs + Part(bs, con) /\ HardSoft(t) = bt + Part(bt, con)
  BY DEF HardSoft, cs, ct, fee, con
<1>. HIDE DEF bs, bt
<1>6. Part(bs, con) \in Nat /\ Part(bt, con) \in Nat /\ Part(bs, con) <= Part(bt, con)
  BY <1>2, <1>4, PartGrows
<1>7. /\ HardSoft(s) \in Nat /\ HardSoft(t) \in Nat /\ HardSoft(s) <= HardSoft(t)
      /\ t.landCost + HardSoft(s) \in Nat /\ t.landCost + HardSoft(t) \in Nat
      /\ t.landCost + HardSoft(s) <= t.landCost + HardSoft(t)
  BY <1>4, <1>5, <1>6
<1>8. ds \in Nat /\ dt \in Nat /\ ds <= dt
  BY <1>2, <1>7, PartGrows
<1>9. FinanceCost(s) = (rs * m) \div 20 /\ FinanceCost(t) = (rt * n) \div 20
  BY DEF FinanceCost, Interest, rate, m, n
<1>. HIDE DEF ds, dt
<1>10. rs \in Nat /\ rt \in Nat /\ rs <= rt
  BY <1>2, <1>8, PartGrows
<1>. HIDE DEF rs, rt
<1>11. rs * m <= rt * n /\ rs * m \in Nat /\ rt * n \in Nat
  <2>1. rs * m <= rs * n
    BY <1>2, <1>10, Products
  <2>2. n * rs <= n * rt
    BY <1>2, <1>10, Products
  <2>3. rs * m \in Nat /\ rt * n \in Nat /\ rs * n \in Nat /\ n * rs = rs * n /\ n * rt = rt * n
    BY <1>2, <1>10, NatProduct
  <2>. QED
    BY <2>1, <2>2, <2>3
<1>12. FinanceCost(s) <= FinanceCost(t) /\ FinanceCost(s) \in Int /\ FinanceCost(t) \in Int
  BY <1>9, <1>11
<1>. QED
  BY <1>7, <1>12 DEF Outlay

\* Of two studies that sell the same areas, the one that sells them for more
\* and costs no more leaves more.
LEMMA ProfitOrder ==
  ASSUME NEW s, NEW t, Typed(s), Typed(t), EvenSales(s), EvenSales(t), SellsForMoney(t),
         (t.gfaSqm * t.efficiencyPct) % Whole = 0,
         s.gfaSqm = t.gfaSqm, s.efficiencyPct = t.efficiencyPct,
         s.marketingPct = t.marketingPct, s.sellingCostsPct = t.sellingCostsPct,
         s.salePricePerSqm < t.salePricePerSqm, Outlay(t) <= Outlay(s)
  PROVE  NetProfit(s) < NetProfit(t)
<1>. DEFINE n == Nsa(t)
            p == s.salePricePerSqm
            q == t.salePricePerSqm
            m == Whole - t.marketingPct - t.sellingCostsPct
<1>0. Whole \in Nat \ {0}
  BY AppraisalAssumption
<1>1. m \in Nat \ {0} /\ p \in Nat /\ q \in Nat /\ p < q
  BY <1>0 DEF SellsForMoney, Typed
<1>2. n \in Nat \ {0}
  <2>1. n \in Nat
    BY StudyTypes
  <2>2. Whole * n = t.gfaSqm * t.efficiencyPct
    BY PartExact DEF Nsa, Typed
  <2>3. t.gfaSqm * t.efficiencyPct # 0
    BY DEF Typed
  <2>4. Whole * 0 = 0
    BY <1>0
  <2>. HIDE DEF n
  <2>. QED
    BY <2>1, <2>2, <2>3, <2>4
<1>3. Margin(s) = (n * p) * m /\ Margin(t) = (n * q) * m
  BY DEF Margin, Gdv, Nsa
<1>. HIDE DEF n, p, q, m
<1>4. n * p < n * q /\ n * p \in Int /\ n * q \in Int
  BY <1>1, <1>2, Signs
<1>5. m * (n * p) < m * (n * q)
  BY <1>1, <1>4, Signs
<1>6. Margin(s) < Margin(t)
  BY <1>1, <1>3, <1>4, <1>5
<1>7. /\ NetProfit(s) \in Int /\ Outlay(s) \in Int /\ Margin(s) \in Int
      /\ Whole * NetProfit(s) = Margin(s) - Whole * Outlay(s)
      /\ NetProfit(t) \in Int /\ Outlay(t) \in Int /\ Margin(t) \in Int
      /\ Whole * NetProfit(t) = Margin(t) - Whole * Outlay(t)
  BY ProfitIsMarginLessOutlay
<1>8. Whole * Outlay(t) <= Whole * Outlay(s)
  BY <1>0, <1>7, Products
<1>9. Whole * Outlay(t) \in Int /\ Whole * Outlay(s) \in Int
  BY <1>0, <1>7
<1>10. Whole * NetProfit(s) < Whole * NetProfit(t)
  BY <1>6, <1>7, <1>8, <1>9
<1>. QED
  BY <1>0, <1>7, <1>10, Signs

LEMMA ScenariosAgree ==
  ASSUME NEW t \in Drafts
  PROVE  ScenariosBracket(t)
<1>. SUFFICES ASSUME SellsForMoney(t)
             PROVE  NetProfit(Downside(t)) < NetProfit(t) /\ NetProfit(t) < NetProfit(Upside(t))
  BY DEF ScenariosBracket
<1>. DEFINE u == Upside(t)
            d == Downside(t)
            p == t.salePricePerSqm
            c == t.constructionCostPerSqm
<1>1. /\ Typed(t) /\ t.landCost \in Nat /\ p \in Nat \ {0} /\ c \in Nat /\ p % 10 = 0
      /\ EvenSales(t) /\ EvenSales(u) /\ EvenSales(d)
      /\ (t.gfaSqm * t.efficiencyPct) % Whole = 0
  BY TermTypes DEF EvenTerms, EvenSales, Typed
<1>2. /\ (p * 90) \div 100 \in Nat /\ (p * 90) \div 100 < p
      /\ (p * 110) \div 100 \in Nat /\ p < (p * 110) \div 100
  BY <1>1
<1>3. /\ (c * 95) \div 100 \in Nat /\ (c * 95) \div 100 <= c
      /\ (c * 110) \div 100 \in Nat /\ c <= (c * 110) \div 100
  BY <1>1
<1>4. /\ u.salePricePerSqm = (p * 110) \div 100 /\ u.constructionCostPerSqm = (c * 95) \div 100
      /\ u.developmentMonths = t.developmentMonths
      /\ d.salePricePerSqm = (p * 90) \div 100 /\ d.constructionCostPerSqm = (c * 110) \div 100
      /\ d.developmentMonths = t.developmentMonths + 6
  BY DEF Upside, Downside, Times, Drafts
<1>5. \A s \in {u, d} :
        /\ s.gfaSqm = t.gfaSqm /\ s.efficiencyPct = t.efficiencyPct /\ s.landCost = t.landCost
        /\ s.professionalFeesPct = t.professionalFeesPct /\ s.contingencyPct = t.contingencyPct
        /\ s.marketingPct = t.marketingPct /\ s.sellingCostsPct = t.sellingCostsPct
        /\ s.debtRatioPct = t.debtRatioPct /\ s.financeRatePct = t.financeRatePct
        /\ s.requiredProfitOnCostPct = t.requiredProfitOnCostPct
  <2>1. ASSUME NEW s \in {u, d}
        PROVE  /\ s.gfaSqm = t.gfaSqm /\ s.efficiencyPct = t.efficiencyPct
               /\ s.landCost = t.landCost
               /\ s.professionalFeesPct = t.professionalFeesPct
               /\ s.contingencyPct = t.contingencyPct
               /\ s.marketingPct = t.marketingPct /\ s.sellingCostsPct = t.sellingCostsPct
               /\ s.debtRatioPct = t.debtRatioPct /\ s.financeRatePct = t.financeRatePct
               /\ s.requiredProfitOnCostPct = t.requiredProfitOnCostPct
    <3>1. CASE s = u
      BY <3>1 DEF Upside, Drafts
    <3>2. CASE s = d
      BY <3>2 DEF Downside, Drafts
    <3>. QED
      BY <3>1, <3>2
  <2>. HIDE DEF u, d
  <2>. QED
    BY <2>1
<1>. HIDE DEF u, d, p, c
<1>6. Typed(u) /\ Typed(d)
  BY <1>1, <1>2, <1>3, <1>4, <1>5 DEF Typed
<1>7. SellsForMoney(u)
  BY <1>5 DEF SellsForMoney
<1>8. u.developmentMonths <= t.developmentMonths /\ t.developmentMonths <= d.developmentMonths
  BY <1>1, <1>4 DEF Typed
<1>9. Outlay(u) <= Outlay(t)
  BY <1>1, <1>3, <1>4, <1>5, <1>6, <1>8, OutlaysGrow DEF c
<1>10. Outlay(t) <= Outlay(d)
  BY <1>1, <1>3, <1>4, <1>5, <1>6, <1>8, OutlaysGrow DEF c
<1>11. NetProfit(d) < NetProfit(t)
  BY <1>1, <1>2, <1>4, <1>5, <1>6, <1>10, ProfitOrder DEF p
<1>12. NetProfit(t) < NetProfit(u)
  BY <1>1, <1>2, <1>4, <1>5, <1>6, <1>7, <1>9, ProfitOrder DEF p
<1>. QED
  BY <1>11, <1>12 DEF u, d

\* Interest on what the build owes and on what the land owes adds up.
LEMMA InterestAdds ==
  ASSUME NEW t, Typed(t), NEW debt \in Nat, NEW more \in Int,
         (debt * t.financeRatePct) % Whole = 0,
         (Part(debt, t.financeRatePct) * t.developmentMonths) % 20 = 0
  PROVE  Interest(t, debt + more) = Interest(t, debt) + Interest(t, more)
<1>. DEFINE r == t.financeRatePct
            m == t.developmentMonths
            a == Part(debt, r)
            b == Part(more, r)
<1>1. r \in Nat /\ m \in Nat
  BY DEF Typed
<1>2. a \in Int /\ b \in Int
  <2>1. debt \in Int
    OBVIOUS
  <2>. HIDE DEF r
  <2>. QED
    BY <1>1, <2>1, PartTypes, Zenon
<1>3. Part(debt + more, r) = a + b
  <2>1. r \in Nat /\ debt \in Int /\ (debt * r) % Whole = 0
    BY <1>1
  <2>. HIDE DEF r
  <2>. QED
    BY <2>1, PartAdds
<1>4. /\ Interest(t, debt + more) = (Part(debt + more, r) * m) \div 20
      /\ Interest(t, debt) = (a * m) \div 20 /\ Interest(t, more) = (b * m) \div 20
      /\ (a * m) % 20 = 0
  BY DEF Interest
<1>. HIDE DEF a, b, m, r
<1>. DEFINE x == a * m
            y == b * m
<1>5. x \in Int /\ y \in Int /\ (a + b) * m = x + y
  BY <1>1, <1>2
<1>6. x % 20 = 0 /\ Interest(t, debt) = x \div 20 /\ Interest(t, more) = y \div 20
  BY <1>4
<1>7. Interest(t, debt + more) = (x + y) \div 20
  BY <1>3, <1>4, <1>5
<1>. HIDE DEF x, y
<1>8. (x + y) \div 20 = x \div 20 + y \div 20
  BY <1>5, <1>6, DivAdds
<1>. QED
  BY <1>6, <1>7, <1>8

LEMMA ResidualAgrees ==
  ASSUME NEW t \in Drafts
  PROVE  ResidualLeavesTheProfit(t)
<1>. DEFINE bought == [t EXCEPT !.landCost = Residual(t)]
            h == HardSoft(t)
            land == Residual(t)
            debt == Part(h, t.debtRatioPct)
            owed == Part(land, t.debtRatioPct)
<1>1. /\ Typed(t) /\ (h * t.debtRatioPct) % Whole = 0
      /\ (debt * t.financeRatePct) % Whole = 0
      /\ (Part(debt, t.financeRatePct) * t.developmentMonths) % 20 = 0
      /\ t.debtRatioPct \in Nat /\ t.requiredProfitOnCostPct \in Nat
  BY TermTypes DEF EvenTerms, Typed
<1>2. Gdv(t) \in Nat /\ h \in Nat /\ Marketing(t) \in Nat /\ SellingCosts(t) \in Nat
  BY <1>1, StudyTypes
<1>3. debt \in Nat
  BY <1>1, <1>2, PartNat
<1>4. Interest(t, debt) \in Int
  BY <1>1, <1>3, InterestTypes
<1>5. NonLandCost(t) = h + Marketing(t) + SellingCosts(t) + Interest(t, debt)
  BY DEF NonLandCost
<1>6. NonLandCost(t) \in Int
  BY <1>2, <1>4, <1>5
<1>7. RequiredProfit(t) \in Int
  BY <1>1, <1>6, PartTypes DEF RequiredProfit
<1>8. land = Gdv(t) - NonLandCost(t) - RequiredProfit(t) /\ land \in Int
  BY <1>2, <1>6, <1>7 DEF Residual
<1>9. owed \in Int
  BY <1>1, <1>8, PartTypes
<1>10. Interest(t, owed) \in Int
  BY <1>1, <1>9, InterestTypes
<1>11. /\ bought.landCost = land /\ bought.gfaSqm = t.gfaSqm
       /\ bought.efficiencyPct = t.efficiencyPct /\ bought.salePricePerSqm = t.salePricePerSqm
       /\ bought.constructionCostPerSqm = t.constructionCostPerSqm
       /\ bought.professionalFeesPct = t.professionalFeesPct
       /\ bought.contingencyPct = t.contingencyPct /\ bought.marketingPct = t.marketingPct
       /\ bought.sellingCostsPct = t.sellingCostsPct
       /\ bought.developmentMonths = t.developmentMonths
       /\ bought.debtRatioPct = t.debtRatioPct /\ bought.financeRatePct = t.financeRatePct
  BY DEF Drafts
<1>. HIDE DEF bought
<1>12. HardSoft(bought) = h
  BY <1>11 DEF HardSoft
<1>13. Gdv(bought) = Gdv(t)
  BY <1>11 DEF Gdv, Nsa
<1>14. Marketing(bought) = Marketing(t) /\ SellingCosts(bought) = SellingCosts(t)
  BY <1>11, <1>13 DEF Marketing, SellingCosts
<1>15. FinanceCost(bought) = Interest(t, Part(land + h, t.debtRatioPct))
  BY <1>11, <1>12 DEF FinanceCost, Interest
<1>. HIDE DEF h, land
<1>16. Part(land + h, t.debtRatioPct) = debt + owed
  <2>1. land + h = h + land /\ h \in Int
    BY <1>2, <1>8
  <2>. QED
    BY <1>1, <1>8, <2>1, PartAdds
<1>. HIDE DEF debt, owed
<1>17. FinanceCost(bought) = Interest(t, debt) + Interest(t, owed)
  BY <1>1, <1>3, <1>9, <1>15, <1>16, InterestAdds
<1>18. NetProfit(bought)
         = Gdv(t) - (land + h + Marketing(t) + SellingCosts(t) + (Interest(t, debt) + Interest(t, owed)))
  BY <1>11, <1>12, <1>13, <1>14, <1>17 DEF NetProfit
<1>19. NetProfit(bought) = RequiredProfit(t) - Interest(t, owed)
  BY <1>2, <1>4, <1>5, <1>7, <1>8, <1>10, <1>18
<1>. QED
  BY <1>19 DEF ResidualLeavesTheProfit, bought, owed, land

\* For all terms that come out even, however they are revised: the engines
\* agree on where a profit starts, on which side of the base case a scenario
\* lies, and on what the land may cost (computeFeasibility, computeResidual).
THEOREM TheStudiesAgree == AppraisalSpec => []EnginesAgree
<1>1. AppraisalTypeOK => EnginesAgree
  BY BreakEvenAgrees, ScenariosAgree, ResidualAgrees DEF AppraisalTypeOK, EnginesAgree
<1>. QED
  BY <1>1, AppraisalTypeCorrect, PTL
-----------------------------------------------------------------------------
(* Recommender: weights add up *)

\* Which wish of a set is counted next.
Taken(s) == CHOOSE d \in s : TRUE

\* g[s]: the weight of the wishes of s, for all subsets s of S.
Weighs(S, g) ==
  g = [s \in SUBSET S |-> IF s = {} THEN 0 ELSE Taken(s).weight + g[s \ {Taken(s)}]]

Weighed(S) == CHOOSE g : Weighs(S, g)

LEMMA WeightIsCounted ==
  ASSUME NEW S
  PROVE  WeightOf(S) = Weighed(S)[S]
BY DEF WeightOf, MapThenSumSet, MapThenFoldSet, Weighs, Weighed, Taken

LEMMA TakenIsThere ==
  ASSUME NEW s, s # {}
  PROVE  Taken(s) \in s
BY DEF Taken

\* One wish less is a smaller set of wishes.
LEMMA OneLess ==
  ASSUME NEW S, IsFiniteSet(S), NEW s \in SUBSET S, NEW x \in s
  PROVE  /\ s \in FiniteSubsetsOf(S) /\ s \ {x} \in FiniteSubsetsOf(S)
         /\ <<s \ {x}, s>> \in StrictSubsetOrdering(S)
<1>1. IsFiniteSet(s) /\ IsFiniteSet(s \ {x})
  BY FS_Subset
<1>. QED
  BY <1>1 DEF FiniteSubsetsOf, StrictSubsetOrdering

\* Counted in a larger set of wishes, a subset weighs the same.
LEMMA WeighedAlike ==
  ASSUME NEW S, IsFiniteSet(S), NEW T, S \subseteq T, NEW g, Weighs(S, g), NEW h, Weighs(T, h)
  PROVE  g[S] = h[S]
<1>. DEFINE Bad == {s \in FiniteSubsetsOf(S) : g[s] # h[s]}
<1>1. Bad = {}
  <2>. SUFFICES ASSUME Bad # {} PROVE FALSE
    OBVIOUS
  <2>1. PICK s \in Bad : \A r \in Bad : ~(<<r, s>> \in StrictSubsetOrdering(S))
    BY FS_StrictSubsetOrderingWellFounded, WFMin
  <2>2. s \in SUBSET S /\ s \in SUBSET T /\ g[s] # h[s]
    BY DEF FiniteSubsetsOf
  <2>3. /\ g[s] = IF s = {} THEN 0 ELSE Taken(s).weight + g[s \ {Taken(s)}]
        /\ h[s] = IF s = {} THEN 0 ELSE Taken(s).weight + h[s \ {Taken(s)}]
    BY <2>2 DEF Weighs
  <2>4. s # {}
    BY <2>2, <2>3
  <2>5. /\ s \ {Taken(s)} \in FiniteSubsetsOf(S)
        /\ <<s \ {Taken(s)}, s>> \in StrictSubsetOrdering(S)
    BY <2>2, <2>4, TakenIsThere, OneLess
  <2>6. g[s \ {Taken(s)}] = h[s \ {Taken(s)}]
    BY <2>1, <2>5
  <2>. QED
    BY <2>2, <2>3, <2>4, <2>6
<1>2. S \in FiniteSubsetsOf(S)
  BY DEF FiniteSubsetsOf
<1>. QED
  BY <1>1, <1>2

\* Every finite set can be counted.
LEMMA CanBeWeighed ==
  ASSUME NEW S, IsFiniteSet(S)
  PROVE  Weighs(S, Weighed(S))
<1>. DEFINE Bad == {s \in FiniteSubsetsOf(S) : ~\E g : Weighs(s, g)}
<1>1. Bad = {}
  <2>. SUFFICES ASSUME Bad # {} PROVE FALSE
    OBVIOUS
  <2>1. PICK T \in Bad : \A r \in Bad : ~(<<r, T>> \in StrictSubsetOrdering(S))
    BY FS_StrictSubsetOrderingWellFounded, WFMin
  <2>2. T \in SUBSET S /\ IsFiniteSet(T)
    BY DEF FiniteSubsetsOf
  <2>. DEFINE f == [s \in SUBSET T |->
                      IF s = {} THEN 0
                      ELSE Taken(s).weight + Weighed(s \ {Taken(s)})[s \ {Taken(s)}]]
  <2>3. ASSUME NEW s \in SUBSET T, s # T
        PROVE  Weighs(s, Weighed(s))
    <3>1. IsFiniteSet(s) /\ s \in FiniteSubsetsOf(S) /\ <<s, T>> \in StrictSubsetOrdering(S)
      BY <2>2, <2>3, FS_Subset DEF FiniteSubsetsOf, StrictSubsetOrdering
    <3>2. s \notin Bad
      BY <2>1, <3>1
    <3>3. \E g : Weighs(s, g)
      BY <3>1, <3>2
    <3>. QED
      BY <3>3 DEF Weighed
  <2>4. ASSUME NEW s \in SUBSET T, s # T
        PROVE  f[s] = Weighed(s)[s]
    <3>1. Weighs(s, Weighed(s))
      BY <2>3, <2>4
    <3>2. Weighed(s)[s] = IF s = {} THEN 0 ELSE Taken(s).weight + Weighed(s)[s \ {Taken(s)}]
      BY <3>1, s \in SUBSET s DEF Weighs
    <3>3. ASSUME s # {}
          PROVE  Weighed(s)[s \ {Taken(s)}] = Weighed(s \ {Taken(s)})[s \ {Taken(s)}]
      <4>1. s \ {Taken(s)} \in SUBSET T /\ s \ {Taken(s)} # T /\ IsFiniteSet(s \ {Taken(s)})
        BY <2>2, <2>4, <3>3, TakenIsThere, FS_Subset
      <4>2. Weighs(s \ {Taken(s)}, Weighed(s \ {Taken(s)}))
        BY <2>3, <4>1
      <4>3. s \ {Taken(s)} \subseteq s
        OBVIOUS
      <4>. QED
        BY <3>1, <4>1, <4>2, <4>3, WeighedAlike
    <3>. QED
      BY <3>2, <3>3
  <2>5. ASSUME NEW s \in SUBSET T
        PROVE  f[s] = IF s = {} THEN 0 ELSE Taken(s).weight + f[s \ {Taken(s)}]
    <3>1. CASE s = {}
      BY <3>1
    <3>2. CASE s # {}
      <4>1. s \ {Taken(s)} \in SUBSET T /\ s \ {Taken(s)} # T
        BY <3>2, TakenIsThere
      <4>2. f[s \ {Taken(s)}] = Weighed(s \ {Taken(s)})[s \ {Taken(s)}]
        BY <2>4, <4>1
      <4>3. f[s] = Taken(s).weight + Weighed(s \ {Taken(s)})[s \ {Taken(s)}]
        BY <3>2
      <4>. QED
        BY <3>2, <4>2, <4>3
    <3>. QED
      BY <3>1, <3>2
  <2>6. f = [s \in SUBSET T |-> f[s]]
    OBVIOUS
  <2>7. Weighs(T, f)
    <3>. HIDE DEF f
    <3>. QED
      BY <2>5, <2>6 DEF Weighs
  <2>. QED
    BY <2>7
<1>2. S \in FiniteSubsetsOf(S)
  BY DEF FiniteSubsetsOf
<1>3. \E g : Weighs(S, g)
  BY <1>1, <1>2
<1>. QED
  BY <1>3 DEF Weighed

LEMMA WeightUnfolds ==
  ASSUME NEW S, IsFiniteSet(S)
  PROVE  WeightOf(S) = IF S = {} THEN 0 ELSE Taken(S).weight + WeightOf(S \ {Taken(S)})
<1>. DEFINE R == S \ {Taken(S)}
<1>1. Weighs(S, Weighed(S))
  BY CanBeWeighed
<1>2. Weighed(S)[S] = IF S = {} THEN 0 ELSE Taken(S).weight + Weighed(S)[R]
  BY <1>1, S \in SUBSET S DEF Weighs
<1>3. IsFiniteSet(R) /\ R \subseteq S
  BY FS_Subset
<1>. HIDE DEF R
<1>4. Weighs(R, Weighed(R))
  BY <1>3, CanBeWeighed
<1>5. Weighed(R)[R] = Weighed(S)[R]
  BY <1>1, <1>3, <1>4, WeighedAlike
<1>. QED
  BY <1>2, <1>5, WeightIsCounted DEF R

\* A finite set of wishes with natural weights.
Wishes(S) == IsFiniteSet(S) /\ \A d \in S : d.weight \in Nat

LEMMA FewerWishes ==
  ASSUME NEW S, Wishes(S), NEW s \in SUBSET S
  PROVE  Wishes(s)
BY FS_Subset DEF Wishes

LEMMA WeightIsNat ==
  ASSUME NEW S, Wishes(S)
  PROVE  WeightOf(S) \in Nat
<1>. DEFINE Bad == {s \in FiniteSubsetsOf(S) : WeightOf(s) \notin Nat}
<1>0. IsFiniteSet(S)
  BY DEF Wishes
<1>1. Bad = {}
  <2>. SUFFICES ASSUME Bad # {} PROVE FALSE
    OBVIOUS
  <2>1. PICK s \in Bad : \A r \in Bad : ~(<<r, s>> \in StrictSubsetOrdering(S))
    BY <1>0, FS_StrictSubsetOrderingWellFounded, WFMin
  <2>2. s \in SUBSET S /\ IsFiniteSet(s) /\ WeightOf(s) \notin Nat
    BY DEF FiniteSubsetsOf
  <2>3. WeightOf(s) = IF s = {} THEN 0 ELSE Taken(s).weight + WeightOf(s \ {Taken(s)})
    BY <2>2, WeightUnfolds
  <2>4. s # {}
    BY <2>2, <2>3
  <2>5. Taken(s) \in s
    BY <2>4, TakenIsThere
  <2>6. Taken(s).weight \in Nat
    BY <2>2, <2>5 DEF Wishes
  <2>7. /\ s \ {Taken(s)} \in FiniteSubsetsOf(S)
        /\ <<s \ {Taken(s)}, s>> \in StrictSubsetOrdering(S)
    BY <1>0, <2>2, <2>5, OneLess
  <2>8. WeightOf(s \ {Taken(s)}) \in Nat
    BY <2>1, <2>7
  <2>. QED
    BY <2>2, <2>3, <2>4, <2>6, <2>8
<1>2. S \in FiniteSubsetsOf(S)
  BY <1>0 DEF FiniteSubsetsOf
<1>. QED
  BY <1>1, <1>2

\* Whichever wish is set aside, the others weigh as much less as it weighs.
LEMMA WeightWithout ==
  ASSUME NEW S, Wishes(S), NEW x \in S
  PROVE  WeightOf(S) = x.weight + WeightOf(S \ {x})
<1>. DEFINE Splits(s) == \A y \in s : WeightOf(s) = y.weight + WeightOf(s \ {y})
            Bad == {s \in FiniteSubsetsOf(S) : ~Splits(s)}
<1>0. IsFiniteSet(S)
  BY DEF Wishes
<1>1. Bad = {}
  <2>. SUFFICES ASSUME Bad # {} PROVE FALSE
    OBVIOUS
  <2>1. PICK s \in Bad : \A r \in Bad : ~(<<r, s>> \in StrictSubsetOrdering(S))
    BY <1>0, FS_StrictSubsetOrderingWellFounded, WFMin
  <2>2. s \in SUBSET S /\ IsFiniteSet(s) /\ ~Splits(s)
    BY DEF FiniteSubsetsOf
  <2>3. PICK y \in s : WeightOf(s) # y.weight + WeightOf(s \ {y})
    BY <2>2
  <2>. DEFINE z == Taken(s)
              both == (s \ {z}) \ {y}
  <2>4. z \in s /\ WeightOf(s) = z.weight + WeightOf(s \ {z})
    BY <2>2, <2>3, TakenIsThere, WeightUnfolds
  <2>. HIDE DEF z
  <2>5. z # y
    BY <2>3, <2>4
  <2>6. Splits(s \ {y}) /\ Splits(s \ {z})
    BY <1>0, <2>1, <2>2, <2>3, <2>4, OneLess
  <2>7. both = (s \ {y}) \ {z} /\ y \in s \ {z} /\ z \in s \ {y}
    BY <2>3, <2>4, <2>5
  <2>. HIDE DEF both
  <2>8. WeightOf(s \ {z}) = y.weight + WeightOf(both) /\ WeightOf(s \ {y}) = z.weight + WeightOf(both)
    BY <2>6, <2>7 DEF both
  <2>9. both \in SUBSET S
    BY <2>2, <2>7
  <2>10. WeightOf(both) \in Nat
    BY <2>9, FewerWishes, WeightIsNat
  <2>11. y.weight \in Nat /\ z.weight \in Nat
    BY <2>2, <2>3, <2>4 DEF Wishes
  <2>12. y.weight + (z.weight + WeightOf(both)) = z.weight + (y.weight + WeightOf(both))
    BY <2>10, <2>11
  <2>. QED
    BY <2>3, <2>4, <2>8, <2>12
<1>2. S \in FiniteSubsetsOf(S)
  BY <1>0 DEF FiniteSubsetsOf
<1>. QED
  BY <1>1, <1>2

LEMMA WeightOfSome ==
  ASSUME NEW S, Wishes(S), NEW x, x.weight \in Nat
  PROVE  /\ Wishes(S \ {x}) /\ WeightOf(S \ {x}) \in Nat
         /\ WeightOf(S) = (IF x \in S THEN x.weight ELSE 0) + WeightOf(S \ {x})
<1>1. Wishes(S \ {x})
  BY FewerWishes
<1>2. WeightOf(S \ {x}) \in Nat
  BY <1>1, WeightIsNat
<1>3. CASE x \in S
  BY <1>1, <1>2, <1>3, WeightWithout
<1>4. CASE x \notin S
  <2>1. S \ {x} = S
    BY <1>4
  <2>2. WeightOf(S) = 0 + WeightOf(S)
    BY <1>2, <2>1
  <2>. QED
    BY <1>1, <1>2, <1>4, <2>1, <2>2
<1>. QED
  BY <1>3, <1>4
-----------------------------------------------------------------------------
(* Recommender: what a structure meets *)

\* A wish that an owner has.
Wanted(tag, heft) == Wish(tag, heft, TRUE)

AllWanted ==
  {Wanted("private", 20), Wanted("public", 20), Wanted("owner-retains-title", 18),
   Wanted("transfers-title", 8), Wanted("private-finance", 15), Wanted("no-finance", 6),
   Wanted("user-pay", 12), Wanted("government-pay", 12), Wanted("sales-revenue", 10),
   Wanted("rent", 8), Wanted("reverts", 10), Wanted("no-revert", 6), Wanted("long-term", 8),
   Wanted("high-risk", 7), Wanted("low-risk", 7)}

LEMMA FiveAreFinite ==
  ASSUME NEW a, NEW b, NEW c, NEW d, NEW e
  PROVE  IsFiniteSet({a, b, c, d, e})
<1>1. IsFiniteSet({a} \cup {b})
  BY FS_Singleton, FS_AddElement
<1>2. IsFiniteSet(({a} \cup {b}) \cup {c})
  BY <1>1, FS_AddElement
<1>3. IsFiniteSet((({a} \cup {b}) \cup {c}) \cup {d})
  BY <1>2, FS_AddElement
<1>4. IsFiniteSet(((({a} \cup {b}) \cup {c}) \cup {d}) \cup {e})
  BY <1>3, FS_AddElement
<1>5. ((({a} \cup {b}) \cup {c}) \cup {d}) \cup {e} = {a, b, c, d, e}
  OBVIOUS
<1>. QED
  BY <1>4, <1>5

LEMMA WantedIsFinite == Wishes(AllWanted)
<1>. DEFINE A == {Wanted("private", 20), Wanted("public", 20),
                  Wanted("owner-retains-title", 18), Wanted("transfers-title", 8),
                  Wanted("private-finance", 15)}
            B == {Wanted("no-finance", 6), Wanted("user-pay", 12),
                  Wanted("government-pay", 12), Wanted("sales-revenue", 10), Wanted("rent", 8)}
            C == {Wanted("reverts", 10), Wanted("no-revert", 6), Wanted("long-term", 8),
                  Wanted("high-risk", 7), Wanted("low-risk", 7)}
<1>1. IsFiniteSet(A) /\ IsFiniteSet(B) /\ IsFiniteSet(C)
  BY FiveAreFinite
<1>2. IsFiniteSet(A \cup B) 
  BY <1>1, FS_Union
<1>3. IsFiniteSet((A \cup B) \cup C)
  BY <1>1, <1>2, FS_Union
<1>4. AllWanted = (A \cup B) \cup C
  BY DEF AllWanted
<1>. QED
  BY <1>3, <1>4 DEF Wishes, AllWanted, Wanted, Wish

\* What wishes add to the weight of S.
Adds(S, d) == IF d \in S THEN d.weight ELSE 0

FiveAdd(S, a, b, c, d, e) == Adds(S, a) + Adds(S, b) + Adds(S, c) + Adds(S, d) + Adds(S, e)

\* Five wishes for different things.
Five(a, b, c, d, e) ==
  /\ a.weight \in Nat /\ b.weight \in Nat /\ c.weight \in Nat /\ d.weight \in Nat /\ e.weight \in Nat
  /\ a \notin {b, c, d, e} /\ b \notin {c, d, e} /\ c \notin {d, e} /\ d # e

\* Wishes set aside from R leave Q.
Without(R, d, Q) == Q = R \ {d}

WithoutFive(R, a, b, c, d, e, Q) == Q = R \ {a, b, c, d, e}

LEMMA WeightWithoutOne ==
  ASSUME NEW S, NEW R, Wishes(R), NEW d, d.weight \in Nat, d \in R <=> d \in S,
         NEW Q, Without(R, d, Q)
  PROVE  /\ Wishes(Q) /\ Adds(S, d) \in Nat /\ WeightOf(Q) \in Nat
         /\ WeightOf(R) = Adds(S, d) + WeightOf(Q)
BY WeightOfSome DEF Adds, Without

LEMMA WeightWithoutFive ==
  ASSUME NEW S, NEW R, Wishes(R), NEW a, NEW b, NEW c, NEW d, NEW e, Five(a, b, c, d, e),
         \A x \in {a, b, c, d, e} : x \in R <=> x \in S,
         NEW Q, WithoutFive(R, a, b, c, d, e, Q)
  PROVE  /\ Wishes(Q) /\ FiveAdd(S, a, b, c, d, e) \in Nat /\ WeightOf(Q) \in Nat
         /\ WeightOf(R) = FiveAdd(S, a, b, c, d, e) + WeightOf(Q)
<1>. DEFINE A == R \ {a}
            B == A \ {b}
            C == B \ {c}
            D == C \ {d}
<1>1. /\ a \in R <=> a \in S
      /\ b \in A <=> b \in S
      /\ c \in B <=> c \in S
      /\ d \in C <=> d \in S
      /\ e \in D <=> e \in S
  BY DEF Five
<1>2. /\ Without(R, a, A) /\ Without(A, b, B) /\ Without(B, c, C) /\ Without(C, d, D)
      /\ Without(D, e, Q)
  BY DEF Without, WithoutFive
<1>3. /\ a.weight \in Nat /\ b.weight \in Nat /\ c.weight \in Nat /\ d.weight \in Nat
      /\ e.weight \in Nat
  BY DEF Five
<1>. HIDE DEF A, B, C, D
<1>4. Wishes(A) /\ Adds(S, a) \in Nat /\ WeightOf(R) = Adds(S, a) + WeightOf(A)
  BY <1>1, <1>2, <1>3, WeightWithoutOne
<1>5. Wishes(B) /\ Adds(S, b) \in Nat /\ WeightOf(A) = Adds(S, b) + WeightOf(B)
  BY <1>1, <1>2, <1>3, <1>4, WeightWithoutOne
<1>6. Wishes(C) /\ Adds(S, c) \in Nat /\ WeightOf(B) = Adds(S, c) + WeightOf(C)
  BY <1>1, <1>2, <1>3, <1>5, WeightWithoutOne
<1>7. Wishes(D) /\ Adds(S, d) \in Nat /\ WeightOf(C) = Adds(S, d) + WeightOf(D)
  BY <1>1, <1>2, <1>3, <1>6, WeightWithoutOne
<1>8. Wishes(Q) /\ Adds(S, e) \in Nat /\ WeightOf(D) = Adds(S, e) + WeightOf(Q)
  BY <1>1, <1>2, <1>3, <1>7, WeightWithoutOne
<1>9. WeightOf(Q) \in Nat
  BY <1>8, WeightIsNat
<1>. QED
  BY <1>4, <1>5, <1>6, <1>7, <1>8, <1>9 DEF FiveAdd

\* The weight of some of the wishes, term by term.
SumOf(S) ==
  FiveAdd(S, Wanted("private", 20), Wanted("public", 20), Wanted("owner-retains-title", 18),
          Wanted("transfers-title", 8), Wanted("private-finance", 15))
    + FiveAdd(S, Wanted("no-finance", 6), Wanted("user-pay", 12), Wanted("government-pay", 12),
              Wanted("sales-revenue", 10), Wanted("rent", 8))
    + FiveAdd(S, Wanted("reverts", 10), Wanted("no-revert", 6), Wanted("long-term", 8),
              Wanted("high-risk", 7), Wanted("low-risk", 7))

LEMMA WeightIsSum ==
  ASSUME NEW S \in SUBSET AllWanted
  PROVE  WeightOf(S) = SumOf(S)
<1>. DEFINE a1 == Wanted("private", 20)
            a2 == Wanted("public", 20)
            a3 == Wanted("owner-retains-title", 18)
            a4 == Wanted("transfers-title", 8)
            a5 == Wanted("private-finance", 15)
            b1 == Wanted("no-finance", 6)
            b2 == Wanted("user-pay", 12)
            b3 == Wanted("government-pay", 12)
            b4 == Wanted("sales-revenue", 10)
            b5 == Wanted("rent", 8)
            c1 == Wanted("reverts", 10)
            c2 == Wanted("no-revert", 6)
            c3 == Wanted("long-term", 8)
            c4 == Wanted("high-risk", 7)
            c5 == Wanted("low-risk", 7)
            R == S \ {a1, a2, a3, a4, a5}
            Q == R \ {b1, b2, b3, b4, b5}
            P == Q \ {c1, c2, c3, c4, c5}
<1>1. Wishes(S)
  BY WantedIsFinite, FewerWishes
<1>2. Five(a1, a2, a3, a4, a5) /\ Five(b1, b2, b3, b4, b5) /\ Five(c1, c2, c3, c4, c5)
  BY DEF Five, Wanted, Wish
<1>3. /\ \A x \in {b1, b2, b3, b4, b5} : x \in R <=> x \in S
      /\ \A x \in {c1, c2, c3, c4, c5} : x \in Q <=> x \in S
  BY DEF Wanted, Wish
<1>4. P = {}
  BY DEF AllWanted
<1>. HIDE DEF P
<1>5. WeightOf(P) = 0
  BY <1>4, FS_EmptySet, WeightUnfolds
<1>6. SumOf(S) = FiveAdd(S, a1, a2, a3, a4, a5) + FiveAdd(S, b1, b2, b3, b4, b5)
                   + FiveAdd(S, c1, c2, c3, c4, c5)
  BY DEF SumOf
<1>. HIDE DEF a1, a2, a3, a4, a5, b1, b2, b3, b4, b5, c1, c2, c3, c4, c5
<1>7. /\ WithoutFive(S, a1, a2, a3, a4, a5, R) /\ WithoutFive(R, b1, b2, b3, b4, b5, Q)
      /\ WithoutFive(Q, c1, c2, c3, c4, c5, P)
  BY DEF P, WithoutFive
<1>. HIDE DEF R, Q
<1>8. /\ Wishes(R) /\ FiveAdd(S, a1, a2, a3, a4, a5) \in Nat
      /\ WeightOf(S) = FiveAdd(S, a1, a2, a3, a4, a5) + WeightOf(R)
  BY <1>1, <1>2, <1>7, WeightWithoutFive
<1>9. /\ Wishes(Q) /\ FiveAdd(S, b1, b2, b3, b4, b5) \in Nat
      /\ WeightOf(R) = FiveAdd(S, b1, b2, b3, b4, b5) + WeightOf(Q)
  BY <1>2, <1>3, <1>7, <1>8, WeightWithoutFive
<1>10. /\ FiveAdd(S, c1, c2, c3, c4, c5) \in Nat
       /\ WeightOf(Q) = FiveAdd(S, c1, c2, c3, c4, c5) + WeightOf(P)
  BY <1>2, <1>3, <1>7, <1>9, WeightWithoutFive
<1>. QED
  BY <1>5, <1>6, <1>8, <1>9, <1>10
-----------------------------------------------------------------------------
(* Recommender: what a structure scores *)

\* Does the owner p want this?
Wants(p, tag, heft) ==
  \/ tag = "private" /\ heft = 20 /\ p.ownerType = "PRIVATE"
  \/ tag = "public" /\ heft = 20 /\ p.ownerType # "PRIVATE"
  \/ tag = "owner-retains-title" /\ heft = 18 /\ p.landOwnershipRetained
  \/ tag = "transfers-title" /\ heft = 8 /\ ~p.landOwnershipRetained
  \/ tag = "private-finance" /\ heft = 15 /\ p.financingRequired
  \/ tag = "no-finance" /\ heft = 6 /\ ~p.financingRequired
  \/ tag = "user-pay" /\ heft = 12 /\ p.userPay
  \/ tag = "government-pay" /\ heft = 12 /\ p.governmentPay
  \/ tag = "sales-revenue" /\ heft = 10 /\ p.revenueCertainty = "high"
  \/ tag = "rent" /\ heft = 8 /\ p.revenueCertainty = "low"
  \/ tag = "reverts" /\ heft = 10 /\ p.transferRequired
  \/ tag = "no-revert" /\ heft = 6 /\ ~p.transferRequired
  \/ tag = "long-term" /\ heft = 8 /\ p.longConcession
  \/ tag = "high-risk" /\ heft = 7 /\ p.riskAppetite = "high"
  \/ tag = "low-risk" /\ heft = 7 /\ p.riskAppetite = "low"

LEMMA DesiresAre ==
  ASSUME NEW p \in Profiles
  PROVE  /\ deriveDesires(p) \subseteq AllWanted
         /\ \A tag, heft : Wanted(tag, heft) \in deriveDesires(p) <=> Wants(p, tag, heft)
<1>1. /\ p.landOwnershipRetained \in BOOLEAN /\ p.financingRequired \in BOOLEAN
      /\ p.userPay \in BOOLEAN /\ p.governmentPay \in BOOLEAN /\ p.transferRequired \in BOOLEAN
      /\ p.longConcession \in BOOLEAN
  BY DEF Profiles
<1>. DEFINE
     w1 == Wish("private", 20, p.ownerType = "PRIVATE")
     w2 == Wish("public", 20, p.ownerType # "PRIVATE")
     w3 == Wish("owner-retains-title", 18, p.landOwnershipRetained)
     w4 == Wish("transfers-title", 8, ~p.landOwnershipRetained)
     w5 == Wish("private-finance", 15, p.financingRequired)
     w6 == Wish("no-finance", 6, ~p.financingRequired)
     w7 == Wish("user-pay", 12, p.userPay)
     w8 == Wish("government-pay", 12, p.governmentPay)
     w9 == Wish("sales-revenue", 10, p.revenueCertainty = "high")
     w10 == Wish("rent", 8, p.revenueCertainty = "low")
     w11 == Wish("reverts", 10, p.transferRequired)
     w12 == Wish("no-revert", 6, ~p.transferRequired)
     w13 == Wish("long-term", 8, p.longConcession)
     w14 == Wish("high-risk", 7, p.riskAppetite = "high")
     w15 == Wish("low-risk", 7, p.riskAppetite = "low")
<1>2. ASSUME NEW x
      PROVE  x \in deriveDesires(p) <=>
               /\ x.when
               /\ x \in {w1, w2, w3, w4, w5, w6, w7, w8, w9, w10, w11, w12, w13, w14, w15}
  BY Zenon DEF deriveDesires
<1>3. ASSUME NEW tag, NEW heft
      PROVE
      /\ Wanted(tag, heft) = w1 <=> tag = "private" /\ heft = 20 /\ p.ownerType = "PRIVATE"
      /\ Wanted(tag, heft) = w2 <=> tag = "public" /\ heft = 20 /\ p.ownerType # "PRIVATE"
      /\ Wanted(tag, heft) = w3 <=> tag = "owner-retains-title" /\ heft = 18 /\ p.landOwnershipRetained
      /\ Wanted(tag, heft) = w4 <=> tag = "transfers-title" /\ heft = 8 /\ ~p.landOwnershipRetained
      /\ Wanted(tag, heft) = w5 <=> tag = "private-finance" /\ heft = 15 /\ p.financingRequired
      /\ Wanted(tag, heft) = w6 <=> tag = "no-finance" /\ heft = 6 /\ ~p.financingRequired
      /\ Wanted(tag, heft) = w7 <=> tag = "user-pay" /\ heft = 12 /\ p.userPay
      /\ Wanted(tag, heft) = w8 <=> tag = "government-pay" /\ heft = 12 /\ p.governmentPay
      /\ Wanted(tag, heft) = w9 <=> tag = "sales-revenue" /\ heft = 10 /\ p.revenueCertainty = "high"
      /\ Wanted(tag, heft) = w10 <=> tag = "rent" /\ heft = 8 /\ p.revenueCertainty = "low"
      /\ Wanted(tag, heft) = w11 <=> tag = "reverts" /\ heft = 10 /\ p.transferRequired
      /\ Wanted(tag, heft) = w12 <=> tag = "no-revert" /\ heft = 6 /\ ~p.transferRequired
      /\ Wanted(tag, heft) = w13 <=> tag = "long-term" /\ heft = 8 /\ p.longConcession
      /\ Wanted(tag, heft) = w14 <=> tag = "high-risk" /\ heft = 7 /\ p.riskAppetite = "high"
      /\ Wanted(tag, heft) = w15 <=> tag = "low-risk" /\ heft = 7 /\ p.riskAppetite = "low"
  BY <1>1 DEF Wanted, Wish
<1>4. \A tag, heft : Wanted(tag, heft).when
  BY DEF Wanted, Wish
<1>5.
      /\ w1.when => w1 = Wanted("private", 20)
      /\ w2.when => w2 = Wanted("public", 20)
      /\ w3.when => w3 = Wanted("owner-retains-title", 18)
      /\ w4.when => w4 = Wanted("transfers-title", 8)
      /\ w5.when => w5 = Wanted("private-finance", 15)
      /\ w6.when => w6 = Wanted("no-finance", 6)
      /\ w7.when => w7 = Wanted("user-pay", 12)
      /\ w8.when => w8 = Wanted("government-pay", 12)
      /\ w9.when => w9 = Wanted("sales-revenue", 10)
      /\ w10.when => w10 = Wanted("rent", 8)
      /\ w11.when => w11 = Wanted("reverts", 10)
      /\ w12.when => w12 = Wanted("no-revert", 6)
      /\ w13.when => w13 = Wanted("long-term", 8)
      /\ w14.when => w14 = Wanted("high-risk", 7)
      /\ w15.when => w15 = Wanted("low-risk", 7)
  BY <1>1 DEF Wanted, Wish
<1>. HIDE DEF w1, w2, w3, w4, w5, w6, w7, w8, w9, w10, w11, w12, w13, w14, w15
<1>6. deriveDesires(p) \subseteq AllWanted
  BY <1>2, <1>5 DEF AllWanted
<1>7. ASSUME NEW tag, NEW heft
      PROVE  Wanted(tag, heft) \in deriveDesires(p) <=> Wants(p, tag, heft)
  BY <1>2, <1>3, <1>4 DEF Wants
<1>. QED
  BY <1>6, <1>7

\* The wishes of p that something with these tags meets.
Met(p, tags) == {d \in deriveDesires(p) : d.tag \in tags}

\* What a wish counts for p.
Counts(p, tag, heft) == Adds(deriveDesires(p), Wanted(tag, heft))

LEMMA MetAdds ==
  ASSUME NEW p \in Profiles, NEW tags
  PROVE  /\ WeightOf(Met(p, tags)) = SumOf(Met(p, tags))
         /\ \A tag, heft : Adds(Met(p, tags), Wanted(tag, heft))
                               = IF tag \in tags THEN Counts(p, tag, heft) ELSE 0
<1>1. Met(p, tags) \in SUBSET AllWanted
  BY DesiresAre DEF Met
<1>2. \A tag, heft : Wanted(tag, heft).tag = tag
  BY DEF Wanted, Wish
<1>. QED
  BY <1>1, <1>2, WeightIsSum DEF Met, Adds, Counts

LEMMA CountsAre ==
  ASSUME NEW p \in Profiles
  PROVE  \A tag : \A heft \in Nat :
           Counts(p, tag, heft) = IF Wants(p, tag, heft) THEN heft ELSE 0
<1>1. \A tag, heft : Wanted(tag, heft).weight = heft
  BY DEF Wanted, Wish
<1>. QED
  BY <1>1, DesiresAre DEF Counts, Adds

\* The weight of the wishes that the i-th structure meets.
Raw(p, i) == WeightOf(Met(p, STRUCTURE_PROFILES[i].tags))

\* A structure that gives up the title is outweighed where the title is kept,
\* a short contract where a concession runs: by an earlier structure, or by
\* three points.
LEMMA Outweighed ==
  ASSUME NEW p \in Profiles
  PROVE  /\ \A i \in 1..18 : Raw(p, i) \in Nat
         /\ p.landOwnershipRetained =>
              /\ Raw(p, 8) <= Raw(p, 1)
              /\ Raw(p, 5) <= Raw(p, 1) \/ \E i \in {6, 7, 11} : Raw(p, 5) + 3 <= Raw(p, i)
         /\ p.longConcession => Raw(p, 17) <= Raw(p, 7) /\ Raw(p, 18) <= Raw(p, 7)
<1>. DEFINE C(tag, heft) == Counts(p, tag, heft)
<1>1. \A tag : \A heft \in Nat : C(tag, heft) \in Nat
  BY CountsAre
<1>2. Raw(p, 1) = C("private", 20) + C("owner-retains-title", 18) + C("no-finance", 6)
                + C("sales-revenue", 10) + C("no-revert", 6)
  BY <1>1, MetAdds DEF Raw, SumOf, FiveAdd, STRUCTURE_PROFILES, Structure
<1>3. Raw(p, 5) = C("private", 20) + C("public", 20) + C("transfers-title", 8)
                + C("private-finance", 15) + C("high-risk", 7)
  BY <1>1, MetAdds DEF Raw, SumOf, FiveAdd, STRUCTURE_PROFILES, Structure
<1>4. Raw(p, 6) = C("private", 20) + C("owner-retains-title", 18) + C("rent", 8)
                + C("reverts", 10) + C("long-term", 8)
  BY <1>1, MetAdds DEF Raw, SumOf, FiveAdd, STRUCTURE_PROFILES, Structure
<1>5. Raw(p, 7) = C("private", 20) + C("public", 20) + C("owner-retains-title", 18)
                + C("rent", 8) + C("reverts", 10) + C("long-term", 8) + C("low-risk", 7)
  BY <1>1, MetAdds DEF Raw, SumOf, FiveAdd, STRUCTURE_PROFILES, Structure
<1>6. Raw(p, 8) = C("private", 20) + C("transfers-title", 8) + C("no-revert", 6)
                + C("low-risk", 7)
  BY <1>1, MetAdds DEF Raw, SumOf, FiveAdd, STRUCTURE_PROFILES, Structure
<1>7. Raw(p, 11) = C("public", 20) + C("private-finance", 15) + C("user-pay", 12)
                 + C("no-revert", 6) + C("high-risk", 7)
  BY <1>1, MetAdds DEF Raw, SumOf, FiveAdd, STRUCTURE_PROFILES, Structure
<1>8. Raw(p, 17) = C("private", 20) + C("public", 20) + C("no-finance", 6) + C("low-risk", 7)
  BY <1>1, MetAdds DEF Raw, SumOf, FiveAdd, STRUCTURE_PROFILES, Structure
<1>9. Raw(p, 18) = Raw(p, 17)
  BY DEF Raw, STRUCTURE_PROFILES, Structure
<1>10. \A i \in 1..18 : Raw(p, i) \in Nat
  <2>1. \A tags : WeightOf(Met(p, tags)) \in Nat
    BY DesiresAre, WantedIsFinite, FewerWishes, WeightIsNat DEF Met
  <2>. QED
    BY <2>1 DEF Raw
<1>11.
      /\ C("private", 20) = IF p.ownerType = "PRIVATE" THEN 20 ELSE 0
      /\ C("public", 20) = IF p.ownerType # "PRIVATE" THEN 20 ELSE 0
      /\ C("owner-retains-title", 18) = IF p.landOwnershipRetained THEN 18 ELSE 0
      /\ C("transfers-title", 8) = IF ~p.landOwnershipRetained THEN 8 ELSE 0
      /\ C("private-finance", 15) = IF p.financingRequired THEN 15 ELSE 0
      /\ C("no-finance", 6) = IF ~p.financingRequired THEN 6 ELSE 0
      /\ C("user-pay", 12) = IF p.userPay THEN 12 ELSE 0
      /\ C("government-pay", 12) = IF p.governmentPay THEN 12 ELSE 0
      /\ C("sales-revenue", 10) = IF p.revenueCertainty = "high" THEN 10 ELSE 0
      /\ C("rent", 8) = IF p.revenueCertainty = "low" THEN 8 ELSE 0
      /\ C("reverts", 10) = IF p.transferRequired THEN 10 ELSE 0
      /\ C("no-revert", 6) = IF ~p.transferRequired THEN 6 ELSE 0
      /\ C("long-term", 8) = IF p.longConcession THEN 8 ELSE 0
      /\ C("high-risk", 7) = IF p.riskAppetite = "high" THEN 7 ELSE 0
      /\ C("low-risk", 7) = IF p.riskAppetite = "low" THEN 7 ELSE 0
  BY CountsAre DEF Wants
<1>. HIDE DEF C
<1>12. ASSUME p.landOwnershipRetained
       PROVE  /\ Raw(p, 8) <= Raw(p, 1)
              /\ Raw(p, 5) <= Raw(p, 1) \/ \E i \in {6, 7, 11} : Raw(p, 5) + 3 <= Raw(p, i)
  <2>1. Raw(p, 8) <= Raw(p, 1)
    BY <1>2, <1>6, <1>11, <1>12
  <2>2. CASE p.ownerType = "PRIVATE" /\ ~p.transferRequired
    BY <1>2, <1>3, <1>11, <1>12, <2>1, <2>2
  <2>3. CASE p.ownerType = "PRIVATE" /\ p.transferRequired
    BY <1>3, <1>4, <1>11, <1>12, <2>1, <2>3
  <2>4. CASE p.ownerType # "PRIVATE" /\ (p.transferRequired \/ ~p.financingRequired \/ p.riskAppetite # "high")
    BY <1>3, <1>5, <1>11, <1>12, <2>1, <2>4
  <2>5. CASE p.ownerType # "PRIVATE" /\ ~p.transferRequired /\ p.financingRequired /\ p.riskAppetite = "high"
    BY <1>3, <1>7, <1>11, <1>12, <2>1, <2>5
  <2>. QED
    BY <2>2, <2>3, <2>4, <2>5
<1>13. ASSUME p.longConcession
       PROVE  Raw(p, 17) <= Raw(p, 7)
  BY <1>5, <1>8, <1>11, <1>13
<1>. QED
  BY <1>9, <1>10, <1>12, <1>13

\* The share in percent, rounded, that raw is of total.
Ratio(raw, total) == (200 * raw + total) \div (2 * total)

LEMMA ScoreOrder ==
  ASSUME NEW t \in 1..112, NEW a \in Nat, NEW b \in Nat
  PROVE  /\ Ratio(a, t) \in Nat
         /\ a <= b => Ratio(a, t) <= Ratio(b, t)
         /\ a + 3 <= b => Ratio(a, t) < Ratio(b, t)
<1>. DEFINE d == 2 * t
            x == 200 * a + t
            y == 200 * b + t
<1>1. d \in Nat \ {0} /\ x \in Nat /\ y \in Nat
  OBVIOUS
<1>2. (a <= b => x <= y) /\ (a + 3 <= b => d + x <= y)
  OBVIOUS
<1>. HIDE DEF d, x, y
<1>3. x \div d \in Nat /\ y \div d \in Nat
  BY <1>1, DivNat
<1>4. ASSUME NEW u \in Nat, u <= y
      PROVE  u \div d <= y \div d
  <2>1. u * d <= y * d
    BY <1>1, <1>4, Products, u * d = d * u, y * d = d * y
  <2>. QED
    BY <1>1, <2>1, DivMonotone
<1>5. (d + x) \div d = 1 + x \div d
  <2>1. d % d = 0 /\ d \div d = 1
    <3>1. d * 1 = d
      BY <1>1
    <3>. QED
      BY <1>1, <3>1
  <2>2. d \in Int /\ x \in Int /\ d % d = 0
    BY <1>1, <2>1
  <2>3. (d + x) \div d = d \div d + x \div d
    BY <1>1, <2>2, DivAdds, ZenonT(30)
  <2>. QED
    BY <2>1, <2>3
<1>6. a <= b => x \div d <= y \div d
  BY <1>1, <1>2, <1>4
<1>7. a + 3 <= b => x \div d < y \div d
  <2>. SUFFICES ASSUME a + 3 <= b PROVE x \div d < y \div d
    OBVIOUS
  <2>1. (d + x) \div d <= y \div d
    BY <1>1, <1>2, <1>4
  <2>. QED
    BY <1>3, <1>5, <2>1
<1>. QED
  BY <1>3, <1>6, <1>7 DEF d, x, y, Ratio

\* All wishes of an owner together.
LEMMA WishesWeigh ==
  ASSUME NEW p \in Profiles
  PROVE  WeightOf(deriveDesires(p)) \in 1..112
<1>. DEFINE D == deriveDesires(p)
            C(tag, heft) == Counts(p, tag, heft)
<1>1. WeightOf(D) = SumOf(D)
  BY DesiresAre, WeightIsSum
<1>2. \A tag, heft : Adds(D, Wanted(tag, heft)) = C(tag, heft)
  BY DEF Counts
<1>3. \A tag : \A heft \in Nat : C(tag, heft) \in 0..heft
  BY CountsAre
<1>4. C("private", 20) + C("public", 20) = 20
  BY CountsAre DEF Wants
<1>5. C("owner-retains-title", 18) + C("transfers-title", 8) \in 0..18
  BY CountsAre DEF Wants
<1>6. C("private-finance", 15) + C("no-finance", 6) \in 0..15
  BY CountsAre DEF Wants
<1>7. C("sales-revenue", 10) + C("rent", 8) \in 0..10
  BY CountsAre DEF Wants
<1>8. C("reverts", 10) + C("no-revert", 6) \in 0..10
  BY CountsAre DEF Wants
<1>9. C("high-risk", 7) + C("low-risk", 7) \in 0..7
  BY CountsAre DEF Wants
<1>. HIDE DEF C, D
<1>10. /\ C("private", 20) \in 0..20 /\ C("public", 20) \in 0..20
       /\ C("owner-retains-title", 18) \in 0..18 /\ C("transfers-title", 8) \in 0..8
       /\ C("private-finance", 15) \in 0..15 /\ C("no-finance", 6) \in 0..6
       /\ C("user-pay", 12) \in 0..12 /\ C("government-pay", 12) \in 0..12
       /\ C("sales-revenue", 10) \in 0..10 /\ C("rent", 8) \in 0..8
       /\ C("reverts", 10) \in 0..10 /\ C("no-revert", 6) \in 0..6
       /\ C("long-term", 8) \in 0..8 /\ C("high-risk", 7) \in 0..7
       /\ C("low-risk", 7) \in 0..7
  BY <1>3
<1>11. SumOf(D)
         = (C("private", 20) + C("public", 20) + C("owner-retains-title", 18)
              + C("transfers-title", 8) + C("private-finance", 15))
           + (C("no-finance", 6) + C("user-pay", 12) + C("government-pay", 12)
                + C("sales-revenue", 10) + C("rent", 8))
           + (C("reverts", 10) + C("no-revert", 6) + C("long-term", 8)
                + C("high-risk", 7) + C("low-risk", 7))
  BY <1>2 DEF SumOf, FiveAdd
<1>12. SumOf(D) \in 1..112
  BY <1>4, <1>5, <1>6, <1>7, <1>8, <1>9, <1>10, <1>11, SMTT(30)
<1>. QED
  BY <1>1, <1>12 DEF D

\* The score of the i-th structure.
Rating(p, i) == MatchScore(STRUCTURE_PROFILES[i].tags, deriveDesires(p))

LEMMA RatingOrder ==
  ASSUME NEW p \in Profiles, NEW i \in 1..18, NEW j \in 1..18
  PROVE  /\ Rating(p, i) \in Nat
         /\ Raw(p, i) <= Raw(p, j) => Rating(p, i) <= Rating(p, j)
         /\ Raw(p, i) + 3 <= Raw(p, j) => Rating(p, i) < Rating(p, j)
<1>. DEFINE t == WeightOf(deriveDesires(p))
<1>1. Rating(p, i) = Ratio(Raw(p, i), t) /\ Rating(p, j) = Ratio(Raw(p, j), t)
  BY DEF Rating, MatchScore, Raw, Met, Ratio
<1>2. t \in 1..112 /\ Raw(p, i) \in Nat /\ Raw(p, j) \in Nat
  BY WishesWeigh, Outweighed
<1>. HIDE DEF t
<1>. QED
  BY <1>1, <1>2, ScoreOrder

LEMMA LibraryHas18 == DOMAIN STRUCTURE_PROFILES = 1..18
BY DEF STRUCTURE_PROFILES

\* What is recommended has the best score, and is the first that has it.
LEMMA FirstOfTheBest ==
  ASSUME NEW p \in Profiles
  PROVE  \E k \in 1..18 :
           /\ recommended(p) = STRUCTURE_PROFILES[k]
           /\ \A i \in 1..18 : Rating(p, i) <= Rating(p, k) /\ (Rating(p, i) = Rating(p, k) => k <= i)
<1>. DEFINE score == [i \in DOMAIN STRUCTURE_PROFILES |-> Rating(p, i)]
            V == {score[i] : i \in DOMAIN score}
            best == Max(V)
            K == {i \in DOMAIN score : score[i] = best}
<1>1. recommended(p) = STRUCTURE_PROFILES[Min(K)]
  BY DEF recommended, Rating
<1>0. score = [i \in DOMAIN score |-> score[i]]
  OBVIOUS
<1>2. DOMAIN score = 1..18 /\ \A i \in 1..18 : score[i] = Rating(p, i)
  BY LibraryHas18
<1>. HIDE DEF score
<1>3. \A i \in 1..18 : score[i] \in Nat
  BY <1>2, RatingOrder
<1>4. IsFiniteSet(1..18)
  BY FS_Interval, 1 \in Int, 18 \in Int
<1>5. IsFiniteSet(V)
  <2>1. score \in Surjection(1..18, V)
    BY <1>2, <1>0 DEF Surjection
  <2>. QED
    BY <1>4, <2>1, FS_Surjection
<1>6. V \in SUBSET Int /\ V # {}
  <2>1. score[1] \in V
    BY <1>2
  <2>. QED
    BY <1>2, <1>3, <2>1
<1>7. best \in V /\ \A y \in V : best >= y
  BY <1>5, <1>6, ExtremesOf
<1>. HIDE DEF best
<1>8. PICK k \in 1..18 : score[k] = best
  BY <1>2, <1>7
<1>9. K \in SUBSET Int /\ K \subseteq 1..18 /\ k \in K
  BY <1>2, <1>8
<1>10. IsFiniteSet(K)
  BY <1>4, <1>9, FS_Subset
<1>. HIDE DEF K
<1>11. Min(K) \in K /\ \A y \in K : Min(K) <= y
  BY <1>9, <1>10, ExtremesOf
<1>12. Min(K) \in 1..18 /\ score[Min(K)] = best
  BY <1>2, <1>11 DEF K
<1>13. ASSUME NEW i \in 1..18
       PROVE  /\ score[i] <= best
              /\ score[i] = best => Min(K) <= i
  <2>1. score[i] \in V /\ score[i] \in Nat
    BY <1>2, <1>3
  <2>2. best \in Int
    BY <1>6, <1>7
  <2>3. score[i] = best => i \in K
    BY <1>2 DEF K
  <2>. QED
    BY <1>7, <1>11, <2>1, <2>2, <2>3
<1>. QED
  BY <1>1, <1>2, <1>12, <1>13

LEMMA WhoGivesWhat ==
  \A i \in 1..18 :
    /\ "transfers-title" \in STRUCTURE_PROFILES[i].tags => i \in {5, 8}
    /\ "short-term" \in STRUCTURE_PROFILES[i].tags => i \in {17, 18}
BY DEF STRUCTURE_PROFILES, Structure

LEMMA AdviceFits == RecommenderTypeOK => AdviceFitsTitleAndTerm
<1>. SUFFICES ASSUME profile \in Profiles
             PROVE  AdviceFitsTitleAndTerm
  BY DEF RecommenderTypeOK
<1>1. PICK k \in 1..18 :
        /\ recommended(profile) = STRUCTURE_PROFILES[k]
        /\ \A i \in 1..18 :
             /\ Rating(profile, i) <= Rating(profile, k)
             /\ Rating(profile, i) = Rating(profile, k) => k <= i
  BY FirstOfTheBest
<1>2. \A i \in 1..18 : Rating(profile, i) \in Nat
  BY RatingOrder
<1>3. ASSUME profile.landOwnershipRetained
      PROVE  k \notin {5, 8}
  <2>1. k # 8
    <3>1. Rating(profile, 8) <= Rating(profile, 1)
      BY <1>3, Outweighed, RatingOrder
    <3>. QED
      BY <1>1, <1>2, <3>1
  <2>2. k # 5
    <3>1. CASE Raw(profile, 5) <= Raw(profile, 1)
      <4>1. Rating(profile, 5) <= Rating(profile, 1)
        BY <3>1, RatingOrder
      <4>. QED
        BY <1>1, <1>2, <4>1
    <3>2. ASSUME NEW i \in {6, 7, 11}, Raw(profile, 5) + 3 <= Raw(profile, i)
          PROVE  k # 5
      <4>1. Rating(profile, 5) < Rating(profile, i)
        BY <3>2, RatingOrder
      <4>. QED
        BY <1>1, <1>2, <4>1
    <3>. QED
      BY <1>3, <3>1, <3>2, Outweighed
  <2>. QED
    BY <2>1, <2>2
<1>4. ASSUME profile.longConcession
      PROVE  k \notin {17, 18}
  <2>1. Rating(profile, 17) <= Rating(profile, 7) /\ Rating(profile, 18) <= Rating(profile, 7)
    BY <1>4, Outweighed, RatingOrder
  <2>. QED
    BY <1>1, <1>2, <2>1
<1>. QED
  BY <1>1, <1>3, <1>4, WhoGivesWhat DEF AdviceFitsTitleAndTerm

\* The studio's recommender: any answers, and any of them changed.
RecommenderSpec == RecommenderInit /\ [][RecommenderNext]_profile

LEMMA AnswerType ==
  ASSUME RecommenderTypeOK, [RecommenderNext]_profile
  PROVE  RecommenderTypeOK'
<1>1. ASSUME NEW question \in DOMAIN Answers, Answer(question)
      PROVE  RecommenderTypeOK'
  <2>1. PICK a \in Answers[question] : profile' = [profile EXCEPT ![question] = a]
    BY <1>1 DEF Answer
  <2>. QED
    BY <2>1 DEF RecommenderTypeOK, Profiles, Answers
<1>. QED
  BY <1>1 DEF RecommenderNext, RecommenderTypeOK

\* Answers stay what may be answered (recommendStructures).
THEOREM RecommenderTypeCorrect == RecommenderSpec => []RecommenderTypeOK
<1>1. RecommenderInit => RecommenderTypeOK
  BY DEF RecommenderInit, RecommenderTypeOK
<1>2. RecommenderTypeOK /\ [RecommenderNext]_profile => RecommenderTypeOK'
  BY AnswerType
<1>. QED
  BY <1>1, <1>2, PTL DEF RecommenderSpec

\* Whatever the owner answers, the structure recommended first keeps the title
\* that is to be kept and runs as long as the concession (recommendStructures).
THEOREM TheAdviceFits == RecommenderSpec => []AdviceFitsTitleAndTerm
BY AdviceFits, RecommenderTypeCorrect, PTL
=============================================================================
