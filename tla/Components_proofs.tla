------------------------- MODULE Components_proofs --------------------------
(***************************************************************************)
(* Proofs about the components that share no state with another: the two   *)
(* readers, for all amounts, prices, scales and reserves, the route cache, *)
(* the simulator's snapshots, the tasks and channels of the process, and   *)
(* all of them side by side.  The arithmetic comes first: what rounding    *)
(* down and up promise, and what survives a chain of roundings in opposite *)
(* directions.                                                             *)
(***************************************************************************)
EXTENDS MCComponents, FiniteSetTheorems, TLAPS

(* What division leaves. *)
LEMMA DivIs ==
  ASSUME NEW a \in Nat, NEW d \in Nat \ {0}
  PROVE  /\ a \div d \in Nat
         /\ (a \div d) * d <= a
         /\ a < (a \div d) * d + d
  BY Z3

(* Products are monotonic, and cancel. *)
LEMMA Times ==
  ASSUME NEW a \in Nat, NEW b \in Nat, NEW c \in Nat
  PROVE  /\ a * b \in Nat
         /\ a <= c => a * b <= c * b
         /\ b # 0 /\ a * b < c * b + b => a <= c
  <1>1. a * b \in Nat
    BY SMT
  <1>2. a <= c => a * b <= c * b
    BY SMT
  <1>3. b # 0 /\ a * b < c * b + b => a <= c
    BY SMT
  <1> QED  BY <1>1, <1>2, <1>3

(* mul_div_down is the greatest number that does not exceed the ratio. *)
LEMMA DownIs ==
  ASSUME NEW a \in Nat, NEW b \in Nat, NEW d \in Nat \ {0}
  PROVE  /\ MulDivDown(a, b, d) \in Nat
         /\ MulDivDown(a, b, d) * d <= a * b
         /\ a * b < MulDivDown(a, b, d) * d + d
  <1>1. a * b \in Nat
    BY Times
  <1> QED  BY <1>1, DivIs DEF MulDivDown

(* mul_div_up is the least number that is not exceeded by the ratio. *)
LEMMA UpIs ==
  ASSUME NEW a \in Nat, NEW b \in Nat, NEW d \in Nat \ {0}
  PROVE  /\ MulDivUp(a, b, d) \in Nat
         /\ a * b <= MulDivUp(a, b, d) * d
         /\ MulDivUp(a, b, d) * d < a * b + d
  <1> DEFINE n == a * b
  <1>1. n \in Nat
    BY Times
  <1>2. CASE n = 0
    <2>1. MulDivUp(a, b, d) = 0
      BY <1>2 DEF MulDivUp
    <2> QED  BY <2>1, <1>2
  <1>3. CASE n # 0
    <2> DEFINE q == (n + d - 1) \div d
    <2>1. MulDivUp(a, b, d) = q
      BY <1>3 DEF MulDivUp
    <2>2. n + d - 1 \in Nat
      BY <1>1
    <2>3. q \in Nat /\ q * d <= n + d - 1 /\ n + d - 1 < q * d + d
      BY <2>2, DivIs
    <2>4. q * d \in Nat
      BY <2>3, Times
    <2> HIDE DEF n, q
    <2>5. n <= q * d /\ q * d < n + d
      BY <1>1, <2>3, <2>4
    <2> QED  BY <2>1, <2>3, <2>5 DEF n
  <1> QED  BY <1>2, <1>3

LEMMA UpLeast ==
  ASSUME NEW a \in Nat, NEW b \in Nat, NEW d \in Nat \ {0}, NEW q \in Nat,
         a * b <= q * d
  PROVE  MulDivUp(a, b, d) <= q
  <1> DEFINE u == MulDivUp(a, b, d)
  <1>1. u \in Nat /\ u * d < a * b + d
    BY UpIs
  <1>2. a * b \in Nat /\ q * d \in Nat /\ u * d \in Nat
    BY <1>1, Times
  <1> HIDE DEF u
  <1>3. u * d < q * d + d
    BY <1>1, <1>2
  <1> QED  BY <1>1, <1>3, Times DEF u

(* Rounding up exceeds rounding down by one at most. *)
LEMMA UpDown ==
  ASSUME NEW a \in Nat, NEW b \in Nat, NEW d \in Nat \ {0}
  PROVE  MulDivUp(a, b, d) <= MulDivDown(a, b, d) + 1
  <1> DEFINE q == MulDivDown(a, b, d)
  <1>1. q \in Nat /\ a * b < q * d + d
    BY DownIs
  <1> HIDE DEF q
  <1>2. a * b \in Nat /\ q * d \in Nat /\ (q + 1) * d = q * d + d
    BY <1>1, Times
  <1>3. a * b <= (q + 1) * d /\ q + 1 \in Nat
    BY <1>1, <1>2
  <1>4. MulDivUp(a, b, d) <= q + 1
    BY <1>3, UpLeast
  <1> QED  BY <1>4 DEF q

(* Converting down and back up gives back no more than what was converted. *)
LEMMA RoundTrip ==
  ASSUME NEW s \in Nat, NEW b \in Nat \ {0}, NEW d \in Nat \ {0}, NEW a \in Nat,
         a <= MulDivDown(s, b, d)
  PROVE  MulDivUp(a, d, b) <= s
  <1> DEFINE q == MulDivDown(s, b, d)
  <1>1. q \in Nat /\ q * d <= s * b
    BY DownIs
  <1>2. a <= q
    OBVIOUS
  <1> HIDE DEF q
  <1>3. a * d <= q * d
    BY <1>1, <1>2, Times
  <1>4. a * d \in Nat /\ q * d \in Nat /\ s * b \in Nat
    BY <1>1, Times
  <1>5. a * d <= s * b
    BY <1>1, <1>3, <1>4
  <1> QED  BY <1>5, UpLeast

-----------------------------------------------------------------------------
(* The incentive is never less than one. *)
LEMMA IncentiveIs == IncentiveFactor \in Nat /\ IncentiveFactor >= Wad
  <1> USE ScaleAssumption
  <1> DEFINE discount == WMulDown(Cursor, Wad - Lltv)
             rest == Wad - discount
             lif == WDivDown(Wad, rest)
  <1>1. Wad - Lltv \in Nat /\ Wad - Lltv <= Wad /\ Cursor \in Nat /\ Wad \in Nat \ {0}
    OBVIOUS
  <1>2. discount \in Nat /\ discount * Wad <= Cursor * (Wad - Lltv)
    BY <1>1, DownIs DEF WMulDown
  <1>3. Cursor * (Wad - Lltv) <= Cursor * Wad
    <2>1. (Wad - Lltv) * Cursor <= Wad * Cursor
      BY <1>1, Times
    <2>2. (Wad - Lltv) * Cursor = Cursor * (Wad - Lltv) /\ Wad * Cursor = Cursor * Wad
      BY <1>1
    <2> QED  BY <2>1, <2>2
  <1> HIDE DEF discount
  <1>4. discount <= Cursor
    <2>1. /\ discount * Wad \in Nat /\ Cursor * Wad \in Nat
          /\ Cursor * (Wad - Lltv) \in Nat
      BY <1>1, <1>2, Times
    <2>2. discount * Wad < Cursor * Wad + Wad
      BY <1>1, <1>2, <1>3, <2>1
    <2> QED  BY <1>1, <1>2, <2>2, Times
  <1>5. rest \in Nat \ {0} /\ rest <= Wad
    BY <1>2, <1>4
  <1> HIDE DEF rest
  <1>6. lif \in Nat /\ Wad * Wad < lif * rest + rest
    BY <1>1, <1>5, DownIs DEF WDivDown
  <1> HIDE DEF lif
  <1>7. Wad <= lif
    <2>1. rest * Wad <= Wad * Wad /\ rest * Wad = Wad * rest
      BY <1>1, <1>5, Times
    <2>2. Wad * rest \in Nat /\ Wad * Wad \in Nat /\ lif * rest \in Nat
      BY <1>1, <1>5, <1>6, Times
    <2>3. Wad * rest < lif * rest + rest
      BY <1>5, <1>6, <2>1, <2>2
    <2> QED  BY <1>1, <1>5, <1>6, <2>3, Times
  <1>8. IncentiveFactor \in {MaxIncentive, lif}
    BY DEF IncentiveFactor, lif, rest, discount
  <1> QED  BY <1>6, <1>7, <1>8

(***************************************************************************)
(* Collateral worth less than a debt, seized whole, repays no more shares  *)
(* than the debt's, although Morpho rounds up three times.                 *)
(***************************************************************************)
LEMMA SeizureFits ==
  ASSUME NEW s \in Nat, NEW c \in Nat, NEW q \in Nat \ {0},
         NEW m \in [assets : Nat, shares : Nat],
         c < CollateralFor(ToAssetsDown(s, m), q)
  PROVE  /\ RepaidSharesFromSeized(c, m, q) \in Nat
         /\ RepaidSharesFromSeized(c, m, q) <= s
  <1> USE ScaleAssumption
  <1> DEFINE A == m.assets + VirtualAssets
             S == m.shares + VirtualShares
             L == IncentiveFactor
             D == MulDivDown(s, A, S)
             K == MulDivDown(D, L, Wad)
             R == MulDivDown(K, PriceScale, q)
             Q == MulDivUp(c, q, PriceScale)
             X == MulDivUp(Q, Wad, L)
  <1>1. A \in Nat \ {0} /\ S \in Nat \ {0} /\ L \in Nat \ {0}
    BY IncentiveIs
  <1>2. D = ToAssetsDown(s, m) /\ R = CollateralFor(D, q)
    BY DEF ToAssetsDown, CollateralFor, WMulDown
  <1>3. RepaidSharesFromSeized(c, m, q) = MulDivUp(X, S, A)
    BY DEF RepaidSharesFromSeized, ToSharesUp, WDivUp
  <1> HIDE DEF A, S, L
  <1>4. D \in Nat
    BY <1>1, DownIs
  <1>5. K \in Nat /\ K * Wad <= D * L
    BY <1>1, <1>4, DownIs
  <1>6. R \in Nat /\ R * q <= K * PriceScale
    BY <1>5, DownIs
  <1>7. c < R
    BY <1>2
  <1>8. Q \in Nat
    BY UpIs
  <1>9. X \in Nat
    BY <1>1, <1>8, UpIs
  <1> HIDE DEF D, K, R, Q, X
  <1>10. Q <= K
    <2>1. c * q <= R * q
      BY <1>6, <1>7, Times
    <2>2. c * q \in Nat /\ R * q \in Nat /\ K * PriceScale \in Nat
      BY <1>5, <1>6, Times
    <2>3. c * q <= K * PriceScale
      BY <1>6, <2>1, <2>2
    <2> QED  BY <1>5, <2>3, UpLeast DEF Q
  <1>11. X <= D
    <2>1. Q * Wad <= K * Wad
      BY <1>5, <1>8, <1>10, Times
    <2>2. Q * Wad \in Nat /\ K * Wad \in Nat /\ D * L \in Nat
      BY <1>1, <1>4, <1>5, <1>8, Times
    <2>3. Q * Wad <= D * L
      BY <1>5, <2>1, <2>2
    <2> QED  BY <1>1, <1>4, <1>8, <2>3, UpLeast DEF X
  <1>12. MulDivUp(X, S, A) <= s
    BY <1>1, <1>9, <1>11, RoundTrip DEF D
  <1>13. MulDivUp(X, S, A) \in Nat
    BY <1>1, <1>9, UpIs
  <1> QED  BY <1>3, <1>12, <1>13

-----------------------------------------------------------------------------
(***************************************************************************)
(* A profile under way is what Size makes of the answers it was built      *)
(* from, and there was something to liquidate and to seize.                *)
(***************************************************************************)
Built ==
  at \in {"decimals", "some"} =>
    /\ profile = Size(price)
    /\ profile.swap # 0
    /\ Debt # 0 /\ price # 0

MorphoInv == TypeOK /\ Built

LEMMA Readings ==
  ASSUME TypeOK
  PROVE  /\ position.shares \in Nat /\ position.shares \in Amounts
         /\ position.collateral \in Nat /\ position.collateral \in Amounts
         /\ market \in [assets : Nat, shares : Nat]
         /\ price \in Nat
         /\ market.assets + VirtualAssets \in Nat \ {0}
         /\ market.shares + VirtualShares \in Nat \ {0}
  BY ScaleAssumption DEF TypeOK, Positions, Markets, Amounts, Prices

LEMMA DebtNat == TypeOK => Debt \in Nat
  <1> SUFFICES ASSUME TypeOK PROVE Debt \in Nat
    OBVIOUS
  <1> QED  BY Readings, DownIs DEF Debt, ToAssetsDown

LEMMA CollateralForNat ==
  ASSUME NEW a \in Nat, NEW q \in Nat \ {0}
  PROVE  CollateralFor(a, q) \in Nat
  <1>1. WMulDown(a, IncentiveFactor) \in Nat
    BY IncentiveIs, ScaleAssumption, DownIs DEF WMulDown
  <1> QED  BY <1>1, ScaleAssumption, DownIs DEF CollateralFor

LEMMA SizeType ==
  ASSUME TypeOK, NEW q \in Nat \ {0}
  PROVE  Size(q) \in Profiles
  <1>1. Debt \in Nat
    BY DebtNat
  <1>2. SeizedFromRepaidShares(position.shares, market, q) = CollateralFor(Debt, q)
    BY DEF SeizedFromRepaidShares, Debt
  <1>3. CollateralFor(Debt, q) \in Nat
    BY <1>1, CollateralForNat
  <1>4. 0 \in Amounts
    BY ScaleAssumption DEF Amounts
  <1>5. RepayShares(q) \in Profiles
    BY <1>1, <1>2, <1>3, <1>4, Readings DEF RepayShares, Profiles
  <1>6. SeizeCollateral \in Profiles
    BY <1>1, <1>4, Readings DEF SeizeCollateral, Profiles
  <1> QED  BY <1>5, <1>6 DEF Size

LEMMA NoProfileType == NoProfile \in Profiles
  BY ScaleAssumption DEF NoProfile, Profiles, Amounts

LEMMA InitInv == Init => MorphoInv
  BY NoProfileType, ScaleAssumption
     DEF Init, MorphoInv, TypeOK, Built, NoPosition, NoMarket, Positions, Markets,
         Amounts, Prices, Ends

LEMMA StepInv == MorphoInv /\ [Next]_vars => MorphoInv'
  <1> SUFFICES ASSUME MorphoInv, [Next]_vars PROVE MorphoInv'
    OBVIOUS
  <1> USE DEF MorphoInv
  <1>1. CASE Scan
    BY <1>1 DEF Scan, TypeOK, Built
  <1>2. CASE Refresh
    BY <1>2 DEF Refresh, TypeOK, Built
  <1>3. CASE CheckPosition
    BY <1>3 DEF CheckPosition, TypeOK, Built, Ends
  <1>4. CASE FetchPosition
    BY <1>4 DEF FetchPosition, TypeOK, Built, Ends
  <1>5. CASE FetchPrice
    <2>1. PICK q \in Prices :
            /\ at = "price" /\ price' = q
            /\ position' = position /\ market' = market
            /\ \/ at' \in {"none", "panicked"} /\ profile' = profile
               \/ /\ Liquidatable(q)
                  /\ ~Panics(q)
                  /\ Size(q).swap # 0
                  /\ profile' = Size(q)
                  /\ at' = "decimals"
      BY <1>5 DEF FetchPrice
    <2>2. CASE at' \in {"none", "panicked"} /\ profile' = profile
      BY <2>1, <2>2 DEF TypeOK, Built, Ends
    <2>3. CASE /\ Liquidatable(q) /\ ~Panics(q)
               /\ Size(q).swap # 0
               /\ profile' = Size(q)
               /\ at' = "decimals"
      <3>1. Debt # 0 /\ q # 0
        BY <2>3 DEF Liquidatable, Panics
      <3>2. q \in Nat \ {0}
        BY <3>1, ScaleAssumption DEF Prices
      <3>3. profile' \in Profiles
        BY <2>3, <3>2, SizeType
      <3>4. Size(price)' = Size(q) /\ Debt' = Debt
        BY <2>1 DEF Size, RepayShares, SeizeCollateral, Debt
      <3>5. TypeOK'
        BY <2>1, <2>3, <3>3 DEF TypeOK
      <3>6. Built'
        BY <2>1, <2>3, <3>1, <3>4 DEF Built
      <3> QED  BY <3>5, <3>6
    <2> QED  BY <2>1, <2>2, <2>3
  <1>6. CASE FetchDecimals
    <2>1. Size(price)' = Size(price) /\ Debt' = Debt
      BY <1>6 DEF FetchDecimals, Size, RepayShares, SeizeCollateral, Debt
    <2> QED  BY <1>6, <2>1 DEF FetchDecimals, TypeOK, Built, Ends
  <1>7. CASE CallFails
    BY <1>7, NoProfileType DEF CallFails, TypeOK, Built, Ends
  <1>8. CASE UNCHANGED vars
    <2>1. Size(price)' = Size(price) /\ Debt' = Debt
      BY <1>8 DEF vars, Size, RepayShares, SeizeCollateral, Debt
    <2> QED  BY <1>8, <2>1 DEF vars, TypeOK, Built
  <1> QED  BY <1>1, <1>2, <1>3, <1>4, <1>5, <1>6, <1>7, <1>8 DEF Next

LEMMA MorphoInvariance == Spec => []MorphoInv
  BY InitInv, StepInv, PTL DEF Spec

(***************************************************************************)
(* Every variable of a reader's call keeps its type: above all, what is    *)
(* given as shares and as collateral are amounts of the position.          *)
(***************************************************************************)
THEOREM MorphoTypeCorrect == Spec => []TypeOK
  BY MorphoInvariance, PTL DEF MorphoInv

-----------------------------------------------------------------------------
LEMMA BuiltExecutable == MorphoInv => Executable
  <1> SUFFICES ASSUME MorphoInv, at = "some" PROVE profile.swap # 0 /\ Accepted(position)
    BY DEF Executable
  <1> DEFINE s == position.shares
             c == position.collateral
             need == CollateralFor(Debt, price)
  <1>1. TypeOK /\ profile = Size(price) /\ profile.swap # 0 /\ Debt # 0 /\ price # 0
    BY DEF MorphoInv, Built
  <1>2. s \in Nat /\ c \in Nat /\ price \in Nat \ {0}
        /\ market \in [assets : Nat, shares : Nat]
    BY <1>1, Readings
  <1>3. need \in Nat
    BY <1>1, <1>2, DebtNat, CollateralForNat
  <1>4. CASE c >= need
    <2>1. profile = RepayShares(price)
      BY <1>1, <1>4 DEF Size
    <2>2. profile.repaid = s /\ profile.seized = 0 /\ profile.debt = Debt
          /\ profile.swap = SeizedFromRepaidShares(s, market, price)
      BY <2>1 DEF RepayShares
    <2>3. profile.swap = need
      BY <2>2 DEF SeizedFromRepaidShares, Debt
    <2>4. s # 0
      <3>1. SUFFICES ASSUME s = 0 PROVE Debt = 0
        BY <1>1
      <3> DEFINE A == market.assets + VirtualAssets
                 S == market.shares + VirtualShares
      <3>2. A \in Nat /\ S \in Nat \ {0}
        BY <1>1, Readings
      <3>3. Debt = MulDivDown(0, A, S)
        BY <3>1 DEF Debt, ToAssetsDown
      <3> HIDE DEF A, S
      <3>4. MulDivDown(0, A, S) = (0 * A) \div S /\ 0 * A = 0
        BY <3>2 DEF MulDivDown
      <3>5. 0 \div S = 0
        BY <3>2, DivIs, Z3
      <3> QED  BY <3>3, <3>4, <3>5
    <2>5. s <= position.shares /\ need <= position.collateral
      BY <1>2, <1>3, <1>4
    <2> QED  BY <1>1, <2>2, <2>3, <2>4, <2>5 DEF Accepted
  <1>5. CASE ~(c >= need)
    <2>1. profile = SeizeCollateral
      BY <1>1, <1>5 DEF Size
    <2>2. profile.repaid = 0 /\ profile.seized = c /\ profile.swap = c
      BY <2>1 DEF SeizeCollateral
    <2>3. c < CollateralFor(ToAssetsDown(s, market), price)
      BY <1>2, <1>3, <1>5 DEF Debt
    <2>4. RepaidSharesFromSeized(c, market, price) <= s
      BY <1>2, <2>3, SeizureFits
    <2>5. c <= position.collateral
      BY <1>2
    <2> QED  BY <1>1, <2>2, <2>4, <2>5 DEF Accepted
  <1> QED  BY <1>4, <1>5

(***************************************************************************)
(* Whatever the position, market and price read, Morpho can execute the    *)
(* profile: the shares it takes off and the collateral it seizes are the   *)
(* position's, and the swap sells what is seized.                          *)
(***************************************************************************)
THEOREM MorphoProfilesExecutable == Spec => []Executable
  BY MorphoInvariance, BuiltExecutable, PTL

-----------------------------------------------------------------------------
LEMMA UpMono ==
  ASSUME NEW a \in Nat, NEW s \in Nat, NEW b \in Nat, NEW d \in Nat \ {0}, a <= s
  PROVE  MulDivUp(a, b, d) <= MulDivUp(s, b, d)
  <1> DEFINE u == MulDivUp(s, b, d)
  <1>1. u \in Nat /\ s * b <= u * d
    BY UpIs
  <1> HIDE DEF u
  <1>2. a * b <= s * b
    BY Times
  <1>3. a * b \in Nat /\ s * b \in Nat /\ u * d \in Nat
    BY <1>1, Times
  <1>4. a * b <= u * d
    BY <1>1, <1>2, <1>3
  <1> QED  BY <1>1, <1>4, UpLeast DEF u

LEMMA BuiltFlash == MorphoInv => FlashShortByOne
  <1> SUFFICES ASSUME MorphoInv, at \in {"decimals", "some"} PROVE Pulled <= profile.debt + 1
    BY DEF FlashShortByOne
  <1> DEFINE s == position.shares
             c == position.collateral
             need == CollateralFor(Debt, price)
             A == market.assets + VirtualAssets
             S == market.shares + VirtualShares
  <1>1. TypeOK /\ profile = Size(price) /\ profile.swap # 0 /\ price # 0
    BY DEF MorphoInv, Built
  <1>2. /\ s \in Nat /\ c \in Nat /\ price \in Nat \ {0}
        /\ market \in [assets : Nat, shares : Nat]
        /\ A \in Nat \ {0} /\ S \in Nat \ {0}
    BY <1>1, Readings
  <1>3. need \in Nat /\ Debt \in Nat
    BY <1>1, <1>2, DebtNat, CollateralForNat
  <1>4. ToAssetsUp(s, market) \in Nat /\ ToAssetsUp(s, market) <= Debt + 1
    <2>1. Debt = MulDivDown(s, A, S) /\ ToAssetsUp(s, market) = MulDivUp(s, A, S)
      BY DEF Debt, ToAssetsDown, ToAssetsUp
    <2> HIDE DEF A, S
    <2> QED  BY <1>2, <2>1, UpDown, UpIs
  <1>5. CASE c >= need
    <2>1. profile = RepayShares(price)
      BY <1>1, <1>5 DEF Size
    <2>2. profile.repaid = s /\ profile.seized = 0 /\ profile.debt = Debt
      BY <2>1 DEF RepayShares
    <2>3. Pulled = ToAssetsUp(s, market)
      BY <2>2 DEF Pulled
    <2> QED  BY <1>4, <2>2, <2>3
  <1>6. CASE ~(c >= need)
    <2>1. profile = SeizeCollateral
      BY <1>1, <1>6 DEF Size
    <2>2. profile.seized = c /\ profile.swap = c /\ profile.debt = Debt
      BY <2>1 DEF SeizeCollateral
    <2>3. Pulled = ToAssetsUp(RepaidSharesFromSeized(c, market, price), market)
      BY <1>1, <2>2 DEF Pulled, RepaidAssetsFromSeized
    <2>4. c < CollateralFor(ToAssetsDown(s, market), price)
      BY <1>2, <1>3, <1>6 DEF Debt
    <2>5. /\ RepaidSharesFromSeized(c, market, price) \in Nat
          /\ RepaidSharesFromSeized(c, market, price) <= s
      BY <1>2, <2>4, SeizureFits
    <2> DEFINE r == RepaidSharesFromSeized(c, market, price)
    <2>6. ToAssetsUp(r, market) \in Nat /\ ToAssetsUp(r, market) <= ToAssetsUp(s, market)
      <3>1. r \in Nat /\ r <= s
        BY <2>5
      <3> HIDE DEF r
      <3> QED  BY <1>2, <3>1, UpMono, UpIs DEF ToAssetsUp
    <2> QED  BY <1>3, <1>4, <2>2, <2>3, <2>6
  <1> QED  BY <1>5, <1>6

(***************************************************************************)
(* The flash loan, which is the debt rounded down, never falls short of    *)
(* what Morpho pulls by more than one unit, in either mode.                *)
(***************************************************************************)
THEOREM FlashAlmostCovers == Spec => []FlashShortByOne
  BY MorphoInvariance, BuiltFlash, PTL

-----------------------------------------------------------------------------
LEMMA StepOverlooks ==
  ASSUME MorphoInv, [Next]_vars, at = "price", at' = "none", price' # price
  PROVE  ~Overlooked(price')
  <1>1. FetchPrice
    BY DEF Next, vars, Scan, Refresh, CheckPosition, FetchPosition, FetchDecimals,
           CallFails
  <1>2. CASE ~Liquidatable(price')
    BY <1>2 DEF Liquidatable, Overlooked
  <1>3. CASE Size(price').swap = 0
    <2>1. SUFFICES ASSUME Overlooked(price') PROVE FALSE
      OBVIOUS
    <2>2. SeizedFromRepaidShares(position.shares, market, price')
            = CollateralFor(Debt, price')
      BY DEF SeizedFromRepaidShares, Debt
    <2>3. RepayShares(price').swap # 0
      BY <2>1, <2>2 DEF RepayShares, Overlooked
    <2>4. SeizeCollateral.swap # 0
      BY <2>1 DEF SeizeCollateral, Overlooked
    <2> QED  BY <1>3, <2>3, <2>4 DEF Size
  <1> QED  BY <1>1, <1>2, <1>3 DEF FetchPrice

(***************************************************************************)
(* No unhealthy position worth liquidating is passed over unless a call    *)
(* fails.                                                                  *)
(***************************************************************************)
THEOREM OverlooksNothing == Spec => NothingOverlooked
  <1>1. MorphoInv /\ [Next]_vars =>
          [at = "price" /\ at' = "none" /\ price' # price => ~Overlooked(price')]_vars
    BY StepOverlooks
  <1> QED  BY <1>1, MorphoInvariance, PTL DEF Spec, NothingOverlooked

-----------------------------------------------------------------------------
(* AaveReader *)

LEMMA Product ==
  ASSUME NEW a \in Nat, NEW b \in Nat
  PROVE  a * b \in Nat /\ (a # 0 /\ b # 0 => a * b # 0)
  <1>1. a * b \in Nat
    BY SMT
  <1>2. a # 0 /\ b # 0 => a * b # 0
    BY SMT
  <1> QED  BY <1>1, <1>2

LEMMA Monotonic ==
  ASSUME NEW a \in Nat, NEW b \in Nat, NEW c \in Nat, a <= b
  PROVE  a * c <= b * c
  BY SMT

(* A factor that bounds another cancels. *)
LEMMA Cancel ==
  ASSUME NEW a \in Nat, NEW b \in Nat, NEW d \in Nat \ {0}, a * d <= b * d
  PROVE  a <= b
  BY Z3

-----------------------------------------------------------------------------
(* The close factor leaves all of the debt, or no more than half. *)
LEMMA CloseFactorIs ==
  ASSUME NEW d \in Nat, NEW h \in Nat
  PROVE  /\ ApplyCloseFactor(d, h) \in Nat
         /\ ApplyCloseFactor(d, h) <= d
         /\ h >= CloseThreshold => 2 * ApplyCloseFactor(d, h) <= d
  <1> DEFINE f == CloseFactor(h)
             q == ApplyCloseFactor(d, h)
  <1>1. Bps \in Nat \ {0} /\ CloseThreshold \in Nat
    BY AaveAssumption
  <1>2. Bps \div 2 \in Nat /\ 2 * (Bps \div 2) <= Bps
    BY <1>1, DivIs
  <1>3. f \in Nat /\ f <= Bps /\ (h >= CloseThreshold => 2 * f <= Bps)
    BY <1>1, <1>2 DEF CloseFactor
  <1> HIDE DEF f
  <1>4. d * f \in Nat
    BY <1>3, Product
  <1>5. q \in Nat /\ q * Bps <= d * f
    BY <1>1, <1>4, DivIs DEF ApplyCloseFactor, f
  <1> HIDE DEF q
  <1>6. d * f <= d * Bps
    <2>1. f * d <= Bps * d
      BY <1>1, <1>3, Monotonic
    <2> QED  BY <2>1, <1>1, <1>3, SMT
  <1>7. q * Bps <= d * Bps
    <2>1. q * Bps \in Nat /\ d * Bps \in Nat
      BY <1>1, <1>5, Product
    <2> QED  BY <2>1, <1>4, <1>5, <1>6
  <1>8. q <= d
    BY <1>1, <1>5, <1>7, Cancel
  <1>9. ASSUME h >= CloseThreshold PROVE 2 * q <= d
    <2>1. (2 * f) * d <= Bps * d
      BY <1>1, <1>3, <1>9, Monotonic
    <2>2. (2 * q) * Bps <= d * Bps
      <3>1. (2 * q) * Bps = 2 * (q * Bps)
        BY <1>1, <1>5, SMT
      <3>2. 2 * (d * f) = (2 * f) * d
        BY <1>3, SMT
      <3>3. Bps * d = d * Bps
        BY <1>1, SMT
      <3>4. q * Bps \in Nat /\ d * Bps \in Nat
        BY <1>1, <1>5, Product
      <3> QED  BY <2>1, <3>1, <3>2, <3>3, <3>4, <1>4, <1>5
    <2> QED  BY <1>1, <1>5, <2>2, Cancel
  <1> QED  BY <1>5, <1>8, <1>9 DEF q

(* What is seized is no more than the borrower has, nor than c is worth. *)
LEMMA SeizeIs ==
  ASSUME NEW c \in Nat, NEW d \in Reserves, NEW r \in Reserves, NEW a \in Answers,
         a.price # 0
  PROVE  /\ Seize(c, d, r, a) \in Nat
         /\ Seize(c, d, r, a) <= a.balance
         /\ Seize(c, d, r, a) * a.price * Bps * Unit[d]
              <= c * a.debtPrice * Unit[r] * a.bonus
  <1> DEFINE n == c * a.debtPrice * Unit[r] * a.bonus
             m == a.price * Bps * Unit[d]
             s == SeizableCollateral(c, d, r, a)
             z == Seize(c, d, r, a)
  <1>1. /\ Bps \in Nat \ {0} /\ Unit[d] \in Nat \ {0} /\ Unit[r] \in Nat \ {0}
        /\ a.price \in Nat \ {0} /\ a.debtPrice \in Nat
        /\ a.bonus \in Nat /\ a.balance \in Nat
    BY AaveAssumption DEF Answers
  <1>2. n \in Nat
    BY <1>1, Product
  <1>3. m \in Nat \ {0}
    BY <1>1, Product
  <1> HIDE DEF n, m
  <1>4. s \in Nat /\ s * m <= n
    BY <1>2, <1>3, DivIs DEF SeizableCollateral, n, m
  <1>5. z \in Nat /\ z <= s /\ z <= a.balance
    BY <1>1, <1>4 DEF Seize
  <1> HIDE DEF s, z
  <1>6. z * m <= n
    <2>1. z * m <= s * m
      BY <1>3, <1>4, <1>5, Monotonic
    <2>2. z * m \in Nat /\ s * m \in Nat
      BY <1>3, <1>4, <1>5, Product
    <2> QED  BY <2>1, <2>2, <1>2, <1>4
  <1>7. z * m = z * a.price * Bps * Unit[d]
    BY <1>1, <1>5, SMT DEF m
  <1> QED  BY <1>5, <1>6, <1>7 DEF n, z

-----------------------------------------------------------------------------
Settled == {"debt", "collateral", "decimals", "some"}
Sized == {"collateral", "decimals", "some"}
Chosen == {"decimals", "some"}

(* What the evaluation knows at each of its awaits. *)
Progress ==
  /\ reading = "search" => target = NoReserve
  /\ reading \in Settled =>
       debtAsset \in Mapped /\ (target # NoReserve => debtAsset = target)
  /\ reading \in {"idle", "account", "reserves", "search", "debt"} => DOMAIN offers = {}
  /\ reading \in Sized =>
       /\ Cover # 0
       /\ \A r \in DOMAIN offers : offers[r].price # 0 /\ SeizeOf(r, offers[r]) # 0
  /\ reading \in Chosen =>
       /\ candidate.asset \in DOMAIN offers
       /\ candidate.seize = SeizeOf(candidate.asset, offers[candidate.asset])

AaveInv == AaveTypeOK /\ Progress

(* The type of what was answered, without the set of those asked. *)
LEMMA OffersType ==
  AaveTypeOK => DOMAIN offers \subseteq Reserves /\ \A r \in DOMAIN offers : offers[r] \in Answers
  BY DEF AaveTypeOK

LEMMA InitOK == AaveInit => AaveInv
  <1> SUFFICES ASSUME AaveInit PROVE AaveInv
    OBVIOUS
  <1>1. offers \in [{} -> Answers] /\ DOMAIN offers = {}
    BY DEF AaveInit
  <1>2. \E S \in SUBSET Reserves : offers \in [S -> Answers]
    BY <1>1
  <1>3. AaveTypeOK
    BY <1>2 DEF AaveInit, AaveTypeOK, NoCandidate
  <1>4. Progress
    BY <1>1 DEF AaveInit, Progress, Settled, Sized, Chosen
  <1> QED  BY <1>3, <1>4 DEF AaveInv

LEMMA NextOK == AaveInv /\ [AaveNext]_aaveVars => AaveInv'
  <1> SUFFICES ASSUME AaveInv, [AaveNext]_aaveVars PROVE AaveInv'
    OBVIOUS
  <1> USE DEF AaveInv
  <1>a. /\ NoReserve \notin Reserves /\ Mapped \subseteq Reserves
        /\ HealthFactors \subseteq Nat /\ Debts \subseteq Nat
    BY AaveAssumption
  <1>1. CASE EvaluateBorrower
    BY <1>1 DEF EvaluateBorrower, AaveTypeOK, Progress, Settled, Sized, Chosen
  <1>2. CASE FetchAccount
    BY <1>2 DEF FetchAccount, AaveTypeOK, Progress, Settled, Sized, Chosen
  <1>3. CASE FetchReserves
    <2>1. AaveTypeOK'
      BY <1>a, <1>3 DEF FetchReserves, SettleOn, AaveTypeOK
    <2>2. Progress'
      BY <1>a, <1>3 DEF FetchReserves, SettleOn, AaveTypeOK, Progress, Settled, Sized, Chosen
    <2> QED  BY <2>1, <2>2
  <1>4. CASE SearchDebt
    <2>1. AaveTypeOK'
      BY <1>a, <1>4 DEF SearchDebt, SettleOn, AaveTypeOK
    <2>2. Progress'
      BY <1>a, <1>4 DEF SearchDebt, SettleOn, AaveTypeOK, Progress, Settled, Sized, Chosen
    <2> QED  BY <2>1, <2>2
  <1>5. CASE FetchDebt
    <2>1. AaveTypeOK'
      BY <1>5 DEF FetchDebt, AaveTypeOK
    <2>2. Cover' = ApplyCloseFactor(owes', health)
      BY <1>5 DEF FetchDebt, Cover
    <2>3. Progress'
      BY <1>5, <2>2 DEF FetchDebt, Progress, Settled, Sized, Chosen
    <2> QED  BY <2>1, <2>3
  <1>6. ASSUME NEW r \in Reserves, Appraise(r) PROVE AaveInv'
    <2>1. CASE UNCHANGED offers
      <3>1. AaveTypeOK'
        BY <1>6, <2>1 DEF Appraise, AaveTypeOK
      <3>2. Cover' = Cover /\ \A s \in DOMAIN offers : SeizeOf(s, offers[s])' = SeizeOf(s, offers[s])
        BY <1>6, <2>1 DEF Appraise, Cover, SeizeOf
      <3>3. Progress'
        BY <1>6, <2>1, <3>2 DEF Appraise, Progress, Settled, Sized, Chosen
      <3> QED  BY <3>1, <3>3
    <2>2. ASSUME NEW a \in Answers, a.price # 0, SeizeOf(r, a) # 0,
                 offers' = [s \in DOMAIN offers \cup {r} |->
                              IF s = r THEN a ELSE offers[s]]
          PROVE  AaveInv'
      <3>1. DOMAIN offers' = DOMAIN offers \cup {r}
        BY <2>2
      <3>2. \A s \in DOMAIN offers' : offers'[s] \in Answers
        BY <2>2, OffersType
      <3>3. AaveTypeOK'
        <4>1. DOMAIN offers' \in SUBSET Reserves
          BY <3>1, OffersType
        <4>2. offers' \in [DOMAIN offers' -> Answers]
          BY <2>2, <3>2
        <4>3. \E S \in SUBSET Reserves : offers' \in [S -> Answers]
          BY <4>1, <4>2
        <4> QED  BY <1>6, <4>3 DEF Appraise, AaveTypeOK
      <3>4. /\ Cover' = Cover /\ debtAsset' = debtAsset
            /\ reading = "collateral" /\ reading' = "collateral"
            /\ UNCHANGED <<target, candidate>>
        BY <1>6 DEF Appraise, Cover
      <3>5. \A s \in DOMAIN offers' :
              offers'[s].price # 0 /\ SeizeOf(s, offers[s])' # 0
        <4> TAKE s \in DOMAIN offers'
        <4>1. SeizeOf(s, offers[s])' = SeizeOf(s, offers'[s])
          BY <3>4 DEF SeizeOf
        <4>2. CASE s = r
          BY <2>2, <3>1, <4>1, <4>2
        <4>3. CASE s # r
          BY <2>2, <3>1, <3>4, <4>1, <4>3 DEF Progress, Sized
        <4> QED  BY <4>2, <4>3
      <3>6. Progress'
        BY <3>4, <3>5 DEF Progress, Settled, Sized, Chosen
      <3> QED  BY <3>3, <3>6
    <2> QED  BY <1>6, <2>1, <2>2 DEF Appraise
  <1>7. CASE SelectCollateral
    <2>1. /\ Cover' = Cover /\ UNCHANGED <<debtAsset, offers, target>>
          /\ \A s \in DOMAIN offers : SeizeOf(s, offers[s])' = SeizeOf(s, offers[s])
      BY <1>7 DEF SelectCollateral, Cover, SeizeOf
    <2>2. CASE reading' = "none" /\ UNCHANGED candidate
      BY <1>7, <2>1, <2>2
      DEF SelectCollateral, AaveTypeOK, Progress, Settled, Sized, Chosen
    <2>3. ASSUME NEW r \in DOMAIN offers, reading' = "decimals",
                 candidate' = [asset |-> r, seize |-> SeizeOf(r, offers[r])]
          PROVE  AaveInv'
      <3>1. /\ r \in Reserves /\ offers[r] \in Answers
            /\ reading = "collateral" /\ debtAsset \in Reserves
        BY <1>7, <1>a, OffersType DEF SelectCollateral, Progress, Settled
      <3>2. offers[r].price # 0
        BY <3>1 DEF Progress, Sized
      <3>3. Cover \in Nat
        BY <1>a, CloseFactorIs DEF Cover, AaveTypeOK
      <3>4. SeizeOf(r, offers[r]) \in Nat
        BY <3>1, <3>2, <3>3, SeizeIs DEF SeizeOf
      <3>5. AaveTypeOK'
        BY <1>7, <2>3, <3>1, <3>4 DEF SelectCollateral, AaveTypeOK
      <3>6. candidate'.asset = r /\ candidate'.seize = SeizeOf(r, offers[r])'
        BY <2>1, <2>3
      <3>7. Progress'
        BY <2>1, <2>3, <3>1, <3>6 DEF Progress, Settled, Sized, Chosen
      <3> QED  BY <3>5, <3>7
    <2> QED  BY <1>7, <2>2, <2>3 DEF SelectCollateral
  <1>8. CASE FetchTokenDecimals
    <2>1. /\ Cover' = Cover /\ UNCHANGED <<debtAsset, offers, target, candidate>>
          /\ \A s \in DOMAIN offers : SeizeOf(s, offers[s])' = SeizeOf(s, offers[s])
      BY <1>8 DEF FetchTokenDecimals, Cover, SeizeOf
    <2>2. AaveTypeOK'
      BY <1>8 DEF FetchTokenDecimals, AaveTypeOK
    <2>3. Progress'
      BY <1>8, <2>1 DEF FetchTokenDecimals, Progress, Settled, Sized, Chosen
    <2> QED  BY <2>2, <2>3
  <1>9. CASE EvaluationFails
    BY <1>9 DEF EvaluationFails, NoCandidate, AaveTypeOK, Progress, Settled, Sized, Chosen
  <1>10. CASE UNCHANGED aaveVars
    <2>1. /\ Cover' = Cover
          /\ \A s \in DOMAIN offers : SeizeOf(s, offers[s])' = SeizeOf(s, offers[s])
      BY <1>10 DEF aaveVars, Cover, SeizeOf
    <2> QED  BY <1>10, <2>1 DEF aaveVars, AaveTypeOK, Progress
  <1> QED
    BY <1>1, <1>2, <1>3, <1>4, <1>5, <1>6, <1>7, <1>8, <1>9, <1>10 DEF AaveNext

LEMMA AaveInvariance == AaveSpec => []AaveInv
  BY InitOK, NextOK, PTL DEF AaveSpec

-----------------------------------------------------------------------------
(* Every variable of the reader keeps its type, for any constants: amounts *)
(* are naturals, no division is by zero. *)
THEOREM AaveTypeCorrect == AaveSpec => []AaveTypeOK
  BY AaveInvariance, PTL DEF AaveInv

LEMMA ChosenExecutable == AaveInv => AaveExecutable
  <1> SUFFICES ASSUME AaveInv, reading \in Chosen
               PROVE  /\ debtAsset \in Mapped
                      /\ target # NoReserve => debtAsset = target
                      /\ Cover # 0 /\ candidate.seize # 0
                      /\ WithinCloseFactor
                      /\ SeizureCovered(candidate.asset, offers[candidate.asset])
    BY DEF AaveExecutable, Chosen
  <1> DEFINE r == candidate.asset
             a == offers[r]
  <1>1. reading \in Settled /\ reading \in Sized
    BY DEF Settled, Sized, Chosen
  <1>2. /\ debtAsset \in Mapped /\ (target # NoReserve => debtAsset = target)
        /\ Cover # 0 /\ r \in DOMAIN offers
        /\ candidate.seize = SeizeOf(r, a) /\ a.price # 0 /\ SeizeOf(r, a) # 0
    BY <1>1 DEF AaveInv, Progress
  <1>3. r \in Reserves /\ a \in Answers /\ debtAsset \in Reserves
    BY <1>2, OffersType, AaveAssumption DEF AaveInv
  <1>4. owes \in Nat /\ health \in Nat
    BY AaveAssumption DEF AaveInv, AaveTypeOK
  <1>5. Cover \in Nat /\ WithinCloseFactor
    BY <1>4, CloseFactorIs DEF Cover, WithinCloseFactor
  <1> HIDE DEF r, a
  <1>6. SeizureCovered(r, a)
    BY <1>2, <1>3, <1>5, SeizeIs DEF SeizureCovered, SeizeOf
  <1> QED  BY <1>2, <1>5, <1>6 DEF r, a

(* Whatever is read, and whenever, what the reader asks for Aave can *)
(* execute at the prices and balances read. *)
THEOREM AaveProfilesExecutable == AaveSpec => []AaveExecutable
  BY AaveInvariance, ChosenExecutable, PTL

LEMMA SelectsBest ==
  ASSUME [AaveNext]_aaveVars, reading = "collateral", reading' # "collateral",
         DOMAIN offers # {}
  PROVE  reading' = "decimals" /\ \A r \in DOMAIN offers : ValueOf(r) <= ValueOf(candidate'.asset)
  <1>1. SelectCollateral
    BY DEF AaveNext, aaveVars, EvaluateBorrower, FetchAccount, FetchReserves, SearchDebt,
           FetchDebt, Appraise, FetchTokenDecimals, EvaluationFails
  <1>2. PICK r \in DOMAIN offers :
          RanksFirst(r) /\ candidate' = [asset |-> r, seize |-> SeizeOf(r, offers[r])]
            /\ reading' = "decimals"
    BY <1>1 DEF SelectCollateral
  <1> QED  BY <1>2 DEF RanksFirst

(* A collateral that cannot be appraised never costs the liquidation, and *)
(* the one chosen is worth most. *)
THEOREM SelectsBestCollateral == AaveSpec => BestCollateral
  BY SelectsBest, PTL DEF AaveSpec, BestCollateral

-----------------------------------------------------------------------------
(***************************************************************************)
(* The route cache.                                                        *)
(***************************************************************************)
RouteInv == RouteTypeOK /\ RoutesAreRecent /\ FailsOnlyWithoutRoutes

LEMMA RouteInitInv == RouteInit => RouteInv
  <1> SUFFICES ASSUME RouteInit PROVE RouteInv
    OBVIOUS
  <1>1. NoEntry \in Entries
    BY RouteAssumption DEF NoEntry, Entries
  <1>2. NoCall \in Calls /\ NoCall.at = "idle"
    BY <1>1, RouteAssumption DEF NoCall, Calls
  <1> QED  BY <1>1, <1>2 DEF RouteInit, RouteInv, RouteTypeOK, RoutesAreRecent,
             FailsOnlyWithoutRoutes

(* A task's step that leaves its own call in order leaves all of them so. *)
LEMMA CallChanges ==
  ASSUME RouteInv, NEW t \in Callers, NEW c \in Calls,
         asking' = [asking EXCEPT ![t] = c],
         routeCache' \in [Keys -> Entries], liquid' = liquid,
         c.at \in {"requote", "quoted"} => c.entry.age < Ttl,
         c.at = "failed" => c.seen = {} \/ c.erred
  PROVE  RouteInv'
  BY DEF RouteInv, RouteTypeOK, RoutesAreRecent, FailsOnlyWithoutRoutes

LEMMA Entering ==
  ASSUME RouteInv, NEW p \in TokenPairs, NEW a \in SwapAmounts, NEW e \in Entries
  PROVE  /\ Key(p, a) \in Keys
         /\ [routeCache EXCEPT ![Key(p, a)] = e] \in [Keys -> Entries]
  BY DEF RouteInv, RouteTypeOK, Keys

LEMMA QuoteStepKeeps ==
  ASSUME RouteInv, NEW t \in Callers, QuoteStep(t)
  PROVE  RouteInv'
  <1>1. asking \in [Callers -> Calls] /\ asking[t] \in Calls /\ liquid \subseteq Routes
        /\ routeCache \in [Keys -> Entries]
    BY DEF RouteInv, RouteTypeOK
  <1>2. /\ asking[t].pair \in TokenPairs /\ asking[t].amount \in SwapAmounts
        /\ asking[t].entry \in Entries /\ asking[t].seen \subseteq Routes
    BY <1>1 DEF Calls
  <1>3. /\ asking[t].at \in {"requote", "quoted"} => asking[t].entry.age < Ttl
    BY DEF RouteInv, RoutesAreRecent
  <1>4. NoEntry \in Entries /\ NoEntry.age < Ttl
    BY RouteAssumption DEF NoEntry, Entries
  <1>5. CASE \E pair \in TokenPairs, amount \in SwapAmounts : AskQuote(t, pair, amount)
    <2>1. PICK p \in TokenPairs, a \in SwapAmounts : AskQuote(t, p, a)
      BY <1>5
    <2> DEFINE e == routeCache[Key(p, a)]
               c == [at |-> IF Live(e) THEN "requote" ELSE "batch", pair |-> p, amount |-> a,
                     entry |-> IF Live(e) THEN e ELSE NoEntry, seen |-> Routes, erred |-> FALSE]
    <2>2. e \in Entries
      BY <1>1, <1>4, Entering
    <2>3. c \in Calls /\ (c.at \in {"requote", "quoted"} => c.entry.age < Ttl)
          /\ c.at # "failed"
      BY <1>4, <2>2 DEF Calls, Live
    <2>4. /\ asking' = [asking EXCEPT ![t] = c] /\ liquid' = liquid
          /\ routeCache' = routeCache \/ routeCache' = [routeCache EXCEPT ![Key(p, a)] = NoEntry]
      BY <2>1 DEF AskQuote
    <2>5. routeCache' \in [Keys -> Entries]
      BY <1>1, <1>4, <2>4, Entering
    <2> HIDE DEF c
    <2> QED  BY <2>3, <2>4, <2>5, CallChanges
  <1>6. CASE RequoteWorks(t)
    <2> DEFINE c == [asking[t] EXCEPT !.at = "quoted"]
    <2>1. /\ asking' = [asking EXCEPT ![t] = c] /\ liquid' = liquid /\ routeCache' = routeCache
          /\ asking[t].at = "requote"
      BY <1>6 DEF RequoteWorks, Move
    <2>2. c \in Calls /\ c.at = "quoted" /\ c.entry = asking[t].entry
      BY <1>1 DEF Calls
    <2> HIDE DEF c
    <2> QED  BY <1>1, <1>3, <2>1, <2>2, CallChanges
  <1>7. CASE RequoteFails(t)
    <2> DEFINE c == [asking[t] EXCEPT !.at = "batch", !.entry = NoEntry]
    <2>1. /\ asking' = [asking EXCEPT ![t] = c] /\ liquid' = liquid
          /\ routeCache' = [routeCache EXCEPT ![KeyOf(t)] = NoEntry]
      BY <1>7 DEF RequoteFails
    <2>2. c \in Calls /\ c.at = "batch"
      BY <1>1, <1>4 DEF Calls
    <2>3. routeCache' \in [Keys -> Entries]
      BY <1>2, <1>4, <2>1, Entering DEF KeyOf
    <2> HIDE DEF c
    <2> QED  BY <2>1, <2>2, <2>3, CallChanges
  <1>8. CASE AskAllRoutes(t)
    <2> DEFINE e(r) == [route |-> r, age |-> 0, amount |-> asking[t].amount]
    <2>1. CASE liquid = {} /\ asking' = [asking EXCEPT ![t].at = "failed", ![t].seen = {}]
                 /\ UNCHANGED <<routeCache, liquid>>
      <3> DEFINE c == [asking[t] EXCEPT !.at = "failed", !.seen = {}]
      <3>1. c \in Calls /\ c.at = "failed" /\ c.seen = {}
        BY <1>1 DEF Calls
      <3>2. asking' = [asking EXCEPT ![t] = c]
        BY <2>1
      <3> HIDE DEF c
      <3> QED  BY <1>1, <2>1, <3>1, <3>2, CallChanges
    <2>2. ASSUME NEW r \in liquid,
                 asking' = [asking EXCEPT ![t].at = "quoted", ![t].entry = e(r),
                                          ![t].seen = liquid],
                 routeCache' = [routeCache EXCEPT ![KeyOf(t)] = e(r)],
                 liquid' = liquid
          PROVE  RouteInv'
      <3> DEFINE c == [asking[t] EXCEPT !.at = "quoted", !.entry = e(r), !.seen = liquid]
      <3>1. e(r) \in Entries /\ e(r).age < Ttl
        BY <1>1, <1>2, RouteAssumption DEF Entries
      <3> HIDE DEF e
      <3>2. c \in Calls /\ c.at = "quoted" /\ c.entry = e(r)
        BY <1>1, <3>1 DEF Calls
      <3>3. asking' = [asking EXCEPT ![t] = c]
        BY <2>2
      <3>4. routeCache' \in [Keys -> Entries]
        BY <1>2, <2>2, <3>1, Entering DEF KeyOf
      <3> HIDE DEF c
      <3> QED  BY <2>2, <3>1, <3>2, <3>3, <3>4, CallChanges
    <2> QED  BY <1>8, <2>1, <2>2 DEF AskAllRoutes
  <1>9. CASE AskAllFails(t)
    <2> DEFINE c == [asking[t] EXCEPT !.at = "failed", !.erred = TRUE]
    <2>1. asking' = [asking EXCEPT ![t] = c] /\ liquid' = liquid /\ routeCache' = routeCache
      BY <1>9 DEF AskAllFails
    <2>2. c \in Calls /\ c.at = "failed" /\ c.erred
      BY <1>1 DEF Calls
    <2> HIDE DEF c
    <2> QED  BY <1>1, <2>1, <2>2, CallChanges
  <1> QED  BY <1>5, <1>6, <1>7, <1>8, <1>9 DEF QuoteStep

LEMMA RouteStepInv == RouteInv /\ [RouteNext]_routeVars => RouteInv'
  <1> SUFFICES ASSUME RouteInv, [RouteNext]_routeVars PROVE RouteInv'
    OBVIOUS
  <1>1. CASE \E t \in Callers : QuoteStep(t)
    BY <1>1, QuoteStepKeeps
  <1>2. CASE UNCHANGED routeVars \/ MoveLiquidity
    BY <1>2 DEF routeVars, MoveLiquidity, RouteInv, RouteTypeOK, RoutesAreRecent,
           FailsOnlyWithoutRoutes
  <1>3. ASSUME routeCache' \in [Keys -> Entries], UNCHANGED <<liquid, asking>>
        PROVE  RouteInv'
    BY <1>3 DEF RouteInv, RouteTypeOK, RoutesAreRecent, FailsOnlyWithoutRoutes
  <1>4. CASE Tick
    <2>1. ASSUME NEW k \in Keys
          PROVE  [routeCache[k] EXCEPT !.age =
                    IF routeCache[k] # NoEntry /\ @ < Ttl THEN @ + 1 ELSE @] \in Entries
      BY <2>1, RouteAssumption DEF RouteInv, RouteTypeOK, Entries
    <2> QED  BY <1>3, <1>4, <2>1 DEF Tick
  <1>5. CASE \E k \in Keys : Evict(k)
    <2>1. NoEntry \in Entries
      BY RouteAssumption DEF NoEntry, Entries
    <2> QED  BY <1>3, <1>5, <2>1 DEF Evict, RouteInv, RouteTypeOK
  <1> QED  BY <1>1, <1>2, <1>4, <1>5 DEF RouteNext

LEMMA RouteInvariance == RouteSpec => []RouteInv
  BY RouteInitInv, RouteStepInv, PTL DEF RouteSpec

(* The cache, its entries and the calls keep their types. *)
THEOREM RouteTypeCorrect == RouteSpec => []RouteTypeOK
  BY RouteInvariance, PTL DEF RouteInv

(* No quote goes by a route whose entry had expired when it was asked for, *)
(* for any tasks, time to live and evictions. *)
THEOREM QuotesGoByRecentRoutes == RouteSpec => []RoutesAreRecent
  BY RouteInvariance, PTL DEF RouteInv

(* A call fails only without liquidity or without an answer. *)
THEOREM DryRoutesHideNone == RouteSpec => []FailsOnlyWithoutRoutes
  BY RouteInvariance, PTL DEF RouteInv

-----------------------------------------------------------------------------
(***************************************************************************)
(* The snapshots of the simulator.                                         *)
(***************************************************************************)
(* Blocks of two payloads, in the order they were taken. *)
Apart(p, q) == p = q \/ p + Spacing <= q

(* The snapshot of t's call is not there yet, its block is known. *)
Building(t) == sim[t].at \in {"header", "warm", "populate"}

(* No block above the head is asked for, and none below a payload's is scanned. *)
BlocksOK ==
  /\ payload <= head
  /\ \A t \in Simulations : Building(t) => sim[t].block \in 1 .. head

SimOK == SimTypeOK /\ BlocksOK

LEMMA NoSimType == NoSim \in Sims
  BY SimAssumption DEF NoSim, Sims

LEMMA SimInitOK == SimInit => SimOK
  BY SimAssumption, NoSimType DEF SimInit, SimOK, SimTypeOK, BlocksOK, Building, NoSim, Heights

LEMMA SimTypeStep ==
  ASSUME SimTypeOK, BlocksOK, [SimNext]_simVars
  PROVE  SimTypeOK'
<1> USE DEF SimTypeOK
<1>1. ASSUME NEW t \in Simulations, SimStep(t)  PROVE SimTypeOK'
  <2>1. sim[t].block \in 0 .. MaxHead /\ sim[t] \in Sims /\ head \in 1 .. MaxHead
    BY DEF Sims, Heights
  <2>2. ASSUME NEW place \in {"resolve", "header", "warm", "populate", "run"},
               NEW b \in 0 .. MaxHead, MoveSim(t, place, b)
        PROVE  sim' \in [Simulations -> Sims]
    <3>1. [at |-> place, block |-> b] \in Sims
      BY DEF Sims
    <3> QED  BY <2>2, <3>1 DEF MoveSim
  <2>3. ASSUME NEW b \in 0 .. MaxHead, LookUp(t, b)  PROVE sim' \in [Simulations -> Sims]
    BY <2>2, <2>3 DEF LookUp
  <2>4. CASE SimulateScanned(t)
    <3>1. payload' \in Heights
      BY <2>4, SimAssumption DEF SimulateScanned, Heights
    <3> QED  BY <2>3, <2>4, <3>1 DEF SimulateScanned, Heights
  <2>5. CASE SimulateLatest(t) \/ ResolveLatest(t) \/ FetchHeader(t)
    <3>1. CASE ResolveLatest(t)
      <4>1. PICK b \in Latest : LookUp(t, b)
        BY <3>1 DEF ResolveLatest
      <4>2. b \in 0 .. MaxHead
        BY SimAssumption DEF Latest, Heights
      <4> QED  BY <2>3, <3>1, <4>1, <4>2 DEF ResolveLatest
    <3>2. CASE SimulateLatest(t) \/ FetchHeader(t)
      <4>1. sim' \in [Simulations -> Sims]
        BY <2>1, <2>2, <3>2, SimAssumption DEF SimulateLatest, FetchHeader
      <4> QED  BY <3>2, <4>1 DEF SimulateLatest, FetchHeader
    <3> QED  BY <2>5, <3>1, <3>2
  <2>6. CASE WarmUp(t)
    <3>1. sim' \in [Simulations -> Sims]
      BY <2>1, <2>2, <2>6 DEF WarmUp
    <3> QED  BY <2>6, <3>1 DEF WarmUp
  <2>7. CASE InsertSnapshot(t)
    <3>1. sim' \in [Simulations -> Sims]
      BY <2>1, <2>2, <2>7 DEF InsertSnapshot
    <3>2. sim[t].block \in 1 .. MaxHead
      BY <2>1, <2>7, SimAssumption DEF InsertSnapshot, BlocksOK, Building
    <3>3. snapshots' \subseteq Heights
      BY <2>7, <3>2 DEF InsertSnapshot, Retained, Heights
    <3> QED  BY <2>7, <3>1, <3>3 DEF InsertSnapshot
  <2>8. CASE SnapshotFails(t) \/ RunSimulation(t)
    BY <2>8, NoSimType DEF SnapshotFails, RunSimulation
  <2> QED  BY <1>1, <2>4, <2>5, <2>6, <2>7, <2>8 DEF SimStep
<1>2. CASE GrowHead
  BY <1>2, SimAssumption DEF GrowHead, Heights
<1>3. CASE UNCHANGED simVars
  BY <1>3 DEF simVars
<1> QED  BY <1>1, <1>2, <1>3 DEF SimNext

LEMMA ApartTrans ==
  ASSUME NEW p \in Int, NEW q \in Int, NEW r \in Int, Apart(p, q), Apart(q, r)
  PROVE  Apart(p, r)
  BY SimAssumption DEF Apart

(* What a step does to a call that is still being built afterwards. *)
LEMMA BuildingStep ==
  ASSUME SimTypeOK, BlocksOK, [SimNext]_simVars, NEW t \in Simulations, Building(t)'
  PROVE  \/ Building(t) /\ sim'[t].block = sim[t].block
         \/ sim'[t].block = payload' /\ Apart(payload, payload')
         \/ sim'[t].block \in Latest
  <1>1. CASE ~\E u \in Simulations : SimStep(u)
    BY <1>1 DEF SimNext, GrowHead, simVars, Building
  <1>2. ASSUME NEW u \in Simulations, SimStep(u)
        PROVE  \/ Building(t) /\ sim'[t].block = sim[t].block
               \/ sim'[t].block = payload' /\ Apart(payload, payload')
               \/ sim'[t].block \in Latest
    <2>1. CASE t # u
      <3>1. sim'[t] = sim[t]
        BY <1>2, <2>1 DEF SimStep, SimulateScanned, SimulateLatest, ResolveLatest, FetchHeader, WarmUp,
           InsertSnapshot, SnapshotFails, RunSimulation, LookUp, MoveSim, SimTypeOK
      <3> QED  BY <3>1 DEF Building
    <2>2. CASE t = u
      <3> USE <2>2 DEF SimTypeOK, LookUp, MoveSim, Building
      <3>1. CASE SimulateScanned(u)
        BY <3>1, SimAssumption DEF SimulateScanned, Apart, Heights
      <3>2. CASE SimulateLatest(u) \/ FetchHeader(u)
        BY <3>2 DEF SimulateLatest, FetchHeader
      <3>5. CASE ResolveLatest(u)
        BY <3>5 DEF ResolveLatest
      <3>3. CASE WarmUp(u)
        BY <3>3 DEF WarmUp
      <3>4. CASE InsertSnapshot(u) \/ SnapshotFails(u) \/ RunSimulation(u)
        BY <3>4 DEF InsertSnapshot, SnapshotFails, RunSimulation, NoSim
      <3> QED  BY <1>2, <3>1, <3>2, <3>3, <3>4, <3>5 DEF SimStep
    <2> QED  BY <2>1, <2>2
  <1> QED  BY <1>1, <1>2

(* The head and the payload only move on. *)
LEMMA HeadsGrow ==
  ASSUME SimTypeOK, BlocksOK, [SimNext]_simVars
  PROVE  head' >= head /\ Apart(payload, payload') /\ payload' <= head'
  <1>1. CASE \E t \in Simulations : SimulateScanned(t)
    BY <1>1, SimAssumption DEF SimulateScanned, Apart, Heights, SimTypeOK, BlocksOK
  <1>2. CASE GrowHead \/ UNCHANGED <<head, payload>>
    BY <1>2, SimAssumption DEF GrowHead, Apart, Heights, SimTypeOK, BlocksOK
  <1> QED
    BY <1>1, <1>2 DEF SimNext, simVars, SimStep, SimulateLatest, ResolveLatest, FetchHeader, WarmUp,
       InsertSnapshot, SnapshotFails, RunSimulation

LEMMA BlocksStep ==
  ASSUME SimTypeOK, BlocksOK, [SimNext]_simVars
  PROVE  BlocksOK'
  <1>1. SimTypeOK'
    BY SimTypeStep
  <1>2. ASSUME NEW t \in Simulations, Building(t)'  PROVE sim'[t].block \in 1 .. head'
    <2>1. /\ head \in Int /\ head' \in Int /\ payload' \in 1 .. head' /\ head \in 1 .. head'
      BY <1>1, HeadsGrow, SimAssumption DEF SimTypeOK, Heights
    <2>2. Latest \subseteq 1 .. head'
      BY <2>1, HeadsGrow, SimAssumption DEF Latest, Heights
    <2>3. CASE Building(t) /\ sim'[t].block = sim[t].block
      BY <2>1, <2>3 DEF BlocksOK
    <2> QED  BY <1>2, <2>1, <2>2, <2>3, BuildingStep
  <1> QED  BY <1>2, HeadsGrow DEF BlocksOK

LEMMA SimStepOK == SimOK /\ [SimNext]_simVars => SimOK'
  BY SimTypeStep, BlocksStep DEF SimOK

(* What the simulator's variables hold keeps its type, because no snapshot *)
(* is built of a block that is not there. *)
THEOREM SimTypeCorrect == SimSpec => []SimTypeOK
  <1>1. SimOK => SimTypeOK
    BY DEF SimOK
  <1> QED  BY <1>1, SimInitOK, SimStepOK, PTL DEF SimSpec

(***************************************************************************)
(* Which task put back which snapshot.  When the snapshot of top was       *)
(* inserted, by the task last, only its predecessor's was left beside it.  *)
(* A lower block inserted since is the one a task was building then (old), *)
(* or that of a payload taken since (new).  A task that goes on to a later *)
(* payload prunes the one it put back before, which is no neighbour.  A    *)
(* refresh a block behind the head puts back the top's predecessor.        *)
(***************************************************************************)
Explains(top, last, old, new) ==
  /\ top <= head
  /\ \A b \in snapshots : b <= top
  /\ snapshots \subseteq {top - 1, top}
       \cup {old[t] : t \in Simulations \ {last}} \cup {new[t] : t \in Simulations}
  /\ \A t \in Simulations : Apart(new[t], payload)
  /\ \A t \in Simulations : Building(t) =>
       \/ t # last /\ sim[t].block = old[t]
       \/ sim[t].block >= top - 1
       \/ Apart(new[t], sim[t].block) /\ Apart(sim[t].block, payload)

Explained ==
  \E top \in Heights, last \in Simulations, old, new \in [Simulations -> Heights] :
    Explains(top, last, old, new)

SnapshotInv == SimOK /\ (snapshots = {} \/ Explained)


(* Steps that insert nothing. *)
LEMMA ExplainsOnward ==
  ASSUME SimOK, [SimNext]_simVars, snapshots' = snapshots,
         NEW top \in Heights, NEW last \in Simulations,
         NEW old \in [Simulations -> Heights], NEW new \in [Simulations -> Heights],
         Explains(top, last, old, new)
  PROVE  Explains(top, last, old, new)'
  <1>1. /\ SimTypeOK' /\ head' >= head /\ Apart(payload, payload')
        /\ top <= head /\ head \in Int /\ head' \in Int /\ payload \in Int /\ payload' \in Int
    BY SimStepOK, HeadsGrow DEF SimOK, SimTypeOK, Heights, Explains
  <1>2. \A t \in Simulations : Apart(new[t], payload) /\ Apart(new[t], payload')
    BY <1>1, ApartTrans DEF Explains, Heights
  <1>3. ASSUME NEW t \in Simulations, Building(t)'
        PROVE  \/ t # last /\ sim'[t].block = old[t]
               \/ sim'[t].block >= top - 1
               \/ Apart(new[t], sim'[t].block) /\ Apart(sim'[t].block, payload')
    <2>1. CASE Building(t) /\ sim'[t].block = sim[t].block
      <3>1. sim[t].block \in Int
        BY <2>1, <1>1 DEF SimOK, BlocksOK
      <3>2. Apart(sim[t].block, payload) => Apart(sim[t].block, payload')
        BY <3>1, <1>1, ApartTrans
      <3> QED  BY <2>1, <3>2 DEF Explains
    <2>2. CASE sim'[t].block = payload'
      BY <1>2, <2>2 DEF Apart
    <2>3. CASE sim'[t].block \in Latest
      BY <1>1, <2>3, SimAssumption DEF Latest, Heights
    <2> QED  BY <1>3, <2>1, <2>2, <2>3, BuildingStep DEF SimOK
  <1>4. /\ \A b \in snapshots' : b <= top
        /\ snapshots' \subseteq {top - 1, top}
             \cup {old[t] : t \in Simulations \ {last}} \cup {new[t] : t \in Simulations}
    BY DEF Explains
  <1>5. top <= head'
    BY <1>1, SimAssumption DEF Heights
  <1> QED  BY <1>2, <1>3, <1>4, <1>5 DEF Explains

(* What an insertion does to the calls. *)
LEMMA InsertStep ==
  ASSUME SimOK, NEW t \in Simulations, InsertSnapshot(t)
  PROVE  /\ sim[t].block \in 1 .. head /\ sim[t].block \in Heights /\ Building(t)
         /\ snapshots' = {h \in snapshots : h >= sim[t].block - 1} \cup {sim[t].block}
         /\ head' = head /\ payload' = payload
         /\ ~Building(t)'
         /\ \A u \in Simulations \ {t} : sim'[u] = sim[u]
  <1>1. Building(t)
    BY DEF InsertSnapshot, Building
  <1>2. sim[t].block \in 1 .. head /\ sim[t].block \in Heights
    BY <1>1, SimAssumption DEF SimOK, SimTypeOK, BlocksOK, Heights
  <1> QED
    BY <1>1, <1>2 DEF InsertSnapshot, Retained, MoveSim, Building, SimOK, SimTypeOK

(* The first snapshot, and one no lower than the others: only its           *)
(* predecessor's is left beside it, and what is being built now is old.     *)
LEMMA ExplainsAnew ==
  ASSUME SimOK, NEW t \in Simulations, InsertSnapshot(t),
         \A b \in snapshots : b <= sim[t].block
  PROVE  Explained'
  <1>1. /\ head \in Int /\ payload \in Heights /\ payload \in Int
        /\ snapshots \subseteq Int
    BY DEF SimOK, SimTypeOK, Heights
  <1>2. PICK top \in Heights : top = sim[t].block
    BY InsertStep
  <1>3. PICK old \in [Simulations -> Heights] :
          \A u \in Simulations : Building(u) => old[u] = sim[u].block
    <2> DEFINE held == [u \in Simulations |-> IF Building(u) THEN sim[u].block ELSE payload]
    <2>1. \A u \in Simulations : Building(u) => sim[u].block \in Heights
      BY SimAssumption DEF SimOK, SimTypeOK, BlocksOK, Heights
    <2>2. held \in [Simulations -> Heights]
      BY <1>1, <2>1
    <2>3. \A u \in Simulations : Building(u) => held[u] = sim[u].block
      OBVIOUS
    <2> HIDE DEF held
    <2> QED  BY <2>2, <2>3
  <1>4. PICK new \in [Simulations -> Heights] : \A u \in Simulations : new[u] = payload
    <2>1. [u \in Simulations |-> payload] \in [Simulations -> Heights]
      BY <1>1
    <2> QED  BY <2>1
  <1>5. /\ snapshots' \subseteq {top - 1, top} /\ top <= head
        /\ \A b \in snapshots' : b <= top
    <2>1. top \in Int
      BY DEF Heights
    <2>2. snapshots' = {h \in snapshots : h >= top - 1} \cup {top} /\ top \in 1 .. head
      BY <1>2, InsertStep
    <2>3. ASSUME NEW h \in snapshots'  PROVE h \in {top - 1, top}
      <3>1. CASE h \in snapshots
        BY <1>1, <1>2, <2>1, <2>2, <3>1
      <3> QED  BY <2>2, <2>3, <3>1
    <2>4. \A h \in snapshots' : h <= top
      BY <2>1, <2>3
    <2>5. top <= head
      BY <1>1, <2>2
    <2> QED  BY <2>3, <2>4, <2>5
  <1>6. \A u \in Simulations : Building(u)' => u # t /\ sim'[u].block = old[u]
    BY <1>3, InsertStep DEF Building
  <1>7. Explains(top, t, old, new)'
    BY <1>4, <1>5, <1>6, InsertStep DEF Explains, Apart
  <1> QED  BY <1>7 DEF Explained

(* A lower snapshot put back: by a task that was building it when the top   *)
(* came, or one that goes on from an earlier payload, which is pruned.      *)
LEMMA ExplainsLower ==
  ASSUME SimOK, NEW t \in Simulations, InsertSnapshot(t),
         NEW top \in Heights, NEW last \in Simulations,
         NEW old \in [Simulations -> Heights], NEW new \in [Simulations -> Heights],
         Explains(top, last, old, new), sim[t].block < top
  PROVE  Explained'
  <1>1. PICK b \in Heights : b = sim[t].block
    BY InsertStep
  <1>2. /\ head \in Int /\ payload \in Int /\ snapshots \subseteq Int /\ b \in Int /\ top \in Int
        /\ b < top /\ snapshots' = {h \in snapshots : h >= b - 1} \cup {b}
    BY <1>1, InsertStep DEF SimOK, SimTypeOK, Heights
  <1>3. \A h \in snapshots' : h <= top
    <2>1. SUFFICES ASSUME NEW h \in snapshots', h # b  PROVE h <= top
      BY <1>2
    <2>2. h \in snapshots
      BY <1>2, <2>1
    <2> QED  BY <2>2 DEF Explains
  <1>4. CASE t # last /\ b = old[t]
    <2>1. snapshots' \subseteq {top - 1, top}
            \cup {old[u] : u \in Simulations \ {last}} \cup {new[u] : u \in Simulations}
      BY <1>2, <1>4 DEF Explains
    <2>2. Explains(top, last, old, new)'
      BY <1>3, <2>1, InsertStep DEF Explains, Building
    <2> QED  BY <2>2 DEF Explained
  <1>5. CASE Apart(new[t], b) /\ Apart(b, payload)
    <2>1. PICK newer \in [Simulations -> Heights] : newer = [new EXCEPT ![t] = b]
      BY <1>1
    <2>2. snapshots' \subseteq {top - 1, top}
            \cup {old[u] : u \in Simulations \ {last}} \cup {newer[u] : u \in Simulations}
      <3>1. SUFFICES ASSUME NEW h \in snapshots', h # b, h \notin {top - 1, top},
                            h \notin {old[u] : u \in Simulations \ {last}}
                     PROVE  h \in {newer[u] : u \in Simulations}
        BY <2>1
      <3>2. h \in snapshots /\ h >= b - 1
        BY <1>2, <3>1
      <3>3. PICK u \in Simulations : h = new[u]
        BY <3>1, <3>2 DEF Explains
      <3>4. u # t
        BY <1>2, <1>5, <3>1, <3>2, <3>3, SimAssumption DEF Apart
      <3> QED  BY <2>1, <3>3, <3>4
    <2>3. \A u \in Simulations : Apart(newer[u], payload)
      BY <1>5, <2>1 DEF Explains
    <2>4. ASSUME NEW u \in Simulations, Building(u)'
          PROVE  \/ u # last /\ sim'[u].block = old[u]
                 \/ sim'[u].block >= top - 1
                 \/ Apart(newer[u], sim'[u].block) /\ Apart(sim'[u].block, payload)
      <3>1. u # t /\ Building(u) /\ sim'[u] = sim[u] /\ newer[u] = new[u]
        BY <2>1, <2>4, InsertStep DEF Building
      <3> QED  BY <3>1 DEF Explains
    <2>5. Explains(top, last, old, newer)'
      <3>1. top <= head
        BY DEF Explains
      <3> QED  BY <1>3, <2>2, <2>3, <2>4, <3>1, InsertStep DEF Explains
    <2> QED  BY <2>5 DEF Explained
  <1>6. CASE b >= top - 1
    <2>1. snapshots' \subseteq {top - 1, top}
            \cup {old[u] : u \in Simulations \ {last}} \cup {new[u] : u \in Simulations}
      <3>1. b \in {top - 1, top}
        BY <1>2, <1>6
      <3>2. \A h \in snapshots' : h \in snapshots \/ h = b
        BY <1>2
      <3> QED  BY <3>1, <3>2 DEF Explains
    <2>2. Explains(top, last, old, new)'
      BY <1>3, <2>1, InsertStep DEF Explains, Building
    <2> QED  BY <2>2 DEF Explained
  <1> QED  BY <1>1, <1>2, <1>4, <1>5, <1>6, InsertStep DEF Explains

LEMMA SnapshotStep == SnapshotInv /\ [SimNext]_simVars => SnapshotInv'
  <1> SUFFICES ASSUME SnapshotInv, [SimNext]_simVars PROVE SnapshotInv'
    OBVIOUS
  <1>1. SimOK /\ SimOK'
    BY SimStepOK DEF SnapshotInv
  <1>2. CASE snapshots' = snapshots
    <2>1. CASE Explained
      <3>1. PICK top \in Heights, last \in Simulations, old, new \in [Simulations -> Heights] :
              Explains(top, last, old, new)
        BY <2>1 DEF Explained
      <3>2. Explains(top, last, old, new)'
        BY <1>1, <1>2, <3>1, ExplainsOnward
      <3> QED  BY <1>1, <3>2 DEF SnapshotInv, Explained
    <2> QED  BY <1>1, <1>2, <2>1 DEF SnapshotInv
  <1>3. ASSUME NEW t \in Simulations, InsertSnapshot(t)  PROVE SnapshotInv'
    <2>1. sim[t].block \in Int
      BY <1>1, <1>3, InsertStep DEF Heights
    <2>2. CASE \A b \in snapshots : b <= sim[t].block
      BY <1>1, <1>3, <2>2, ExplainsAnew DEF SnapshotInv
    <2>3. CASE \E b \in snapshots : ~(b <= sim[t].block)
      <3>1. PICK top \in Heights, last \in Simulations, old, new \in [Simulations -> Heights] :
              Explains(top, last, old, new)
        BY <2>3 DEF SnapshotInv, Explained
      <3>2. \A b \in snapshots : b <= top
        BY <3>1 DEF Explains
      <3>3. sim[t].block < top
        BY <1>1, <2>1, <2>3, <3>2 DEF SimOK, SimTypeOK, Heights
      <3>4. Explained'
        BY <1>1, <1>3, <3>1, <3>3, ExplainsLower
      <3> QED  BY <1>1, <3>4 DEF SnapshotInv
    <2> QED  BY <2>2, <2>3
  <1>4. snapshots' = snapshots \/ \E t \in Simulations : InsertSnapshot(t)
    BY DEF SimNext, simVars, GrowHead, SimStep, SimulateScanned, SimulateLatest, ResolveLatest,
       FetchHeader, WarmUp, SnapshotFails, RunSimulation
  <1> QED  BY <1>2, <1>3, <1>4

LEMMA ImageIsSmall ==
  ASSUME NEW S, IsFiniteSet(S), NEW T, NEW f \in [S -> T]
  PROVE  /\ IsFiniteSet({f[x] : x \in S})
         /\ Cardinality({f[x] : x \in S}) <= Cardinality(S)
  <1>1. f \in Surjection(S, {f[x] : x \in S})
    BY DEF Surjection
  <1> QED  BY <1>1, FS_Surjection

LEMMA UnionIsSmall ==
  ASSUME NEW S, IsFiniteSet(S), NEW T, IsFiniteSet(T)
  PROVE  IsFiniteSet(S \cup T) /\ Cardinality(S \cup T) <= Cardinality(S) + Cardinality(T)
  <1>1. IsFiniteSet(S \cap T)
    BY FS_Intersection
  <1>2. Cardinality(S) \in Nat /\ Cardinality(T) \in Nat /\ Cardinality(S \cap T) \in Nat
    BY <1>1, FS_CardinalityType
  <1>3. /\ IsFiniteSet(S \cup T)
        /\ Cardinality(S \cup T) = Cardinality(S) + Cardinality(T) - Cardinality(S \cap T)
    BY FS_Union
  <1> QED  BY <1>2, <1>3

LEMMA ExplainedIsSmall ==
  ASSUME SimOK, Explained  PROVE SnapshotsBounded
  <1>1. PICK top \in Heights, last \in Simulations, old, new \in [Simulations -> Heights] :
          Explains(top, last, old, new)
    BY DEF Explained
  <1> DEFINE N == Cardinality(Simulations)
             Others == Simulations \ {last}
             A == {old[t] : t \in Others}
             B == {new[t] : t \in Simulations}
  <1>2. IsFiniteSet(Simulations) /\ N \in Nat /\ IsFiniteSet(Others) /\ Cardinality(Others) = N - 1
    BY SimAssumption, FS_RemoveElement, FS_CardinalityType
  <1>3. IsFiniteSet(A) /\ Cardinality(A) <= N - 1
    <2>1. PICK f \in [Others -> Heights] : \A t \in Others : f[t] = old[t]
      <3>1. [t \in Others |-> old[t]] \in [Others -> Heights]
        OBVIOUS
      <3> QED  BY <3>1
    <2>2. A = {f[t] : t \in Others}
      BY <2>1
    <2> HIDE DEF A, N, Others
    <2>3. IsFiniteSet({f[t] : t \in Others}) /\ Cardinality({f[t] : t \in Others}) <= Cardinality(Others)
      BY <1>2, ImageIsSmall
    <2> QED  BY <1>2, <2>2, <2>3
  <1>4. IsFiniteSet(B) /\ Cardinality(B) <= N
    BY <1>2, ImageIsSmall
  <1>5. IsFiniteSet({top - 1, top}) /\ Cardinality({top - 1, top}) = 2
    <2>1. {top - 1, top} = (top - 1) .. top
      BY DEF Heights
    <2>2. top \in Int /\ top - 1 \in Int /\ ~(top - 1 > top) /\ top - (top - 1) + 1 = 2
      BY DEF Heights
    <2>3. IsFiniteSet((top - 1) .. top) /\ Cardinality((top - 1) .. top) = top - (top - 1) + 1
      BY <2>2, FS_Interval
    <2> QED  BY <2>1, <2>2, <2>3
  <1>6. /\ IsFiniteSet({top - 1, top} \cup A \cup B)
        /\ Cardinality({top - 1, top} \cup A \cup B) <= 2 + (N - 1) + N
    <2> HIDE DEF A, B, N, Others
    <2>1. /\ IsFiniteSet({top - 1, top} \cup A)
          /\ Cardinality({top - 1, top} \cup A) <= 2 + Cardinality(A)
      BY <1>3, <1>5, UnionIsSmall
    <2>2. /\ IsFiniteSet({top - 1, top} \cup A \cup B)
          /\ Cardinality({top - 1, top} \cup A \cup B)
               <= Cardinality({top - 1, top} \cup A) + Cardinality(B)
      BY <1>4, <2>1, UnionIsSmall
    <2>3. /\ Cardinality(A) \in Nat /\ Cardinality(B) \in Nat
          /\ Cardinality({top - 1, top} \cup A) \in Nat
          /\ Cardinality({top - 1, top} \cup A \cup B) \in Nat
      BY <1>3, <1>4, <2>1, <2>2, FS_CardinalityType
    <2> QED  BY <1>2, <1>3, <1>4, <2>1, <2>2, <2>3
  <1>7. Cardinality(snapshots) <= Cardinality({top - 1, top} \cup A \cup B)
    BY <1>1, <1>6, FS_Subset DEF Explains
  <1>8. IsFiniteSet(snapshots)
    BY <1>1, <1>6, FS_Subset DEF Explains
  <1> HIDE DEF A, B, N, Others
  <1>9. Cardinality(snapshots) <= 2 * N + 1
    BY <1>2, <1>6, <1>7, <1>8, FS_CardinalityType
  <1> QED  BY <1>9 DEF SnapshotsBounded, N

(* The cache of snapshots stays within twice the tasks and one, for any      *)
(* number of tasks, any speed of theirs and any growth of the chain.         *)
THEOREM SnapshotsStayBounded == SimSpec => []SnapshotsBounded
  <1>1. SimInit => SnapshotInv
    BY SimInitOK DEF SimInit, SnapshotInv
  <1>2. SnapshotInv => SnapshotsBounded
    <2>1. Cardinality({}) = 0 /\ Cardinality(Simulations) \in Nat
      BY FS_EmptySet, FS_CardinalityType, SimAssumption
    <2>2. snapshots = {} => SnapshotsBounded
      BY <2>1 DEF SnapshotsBounded
    <2> QED  BY <2>2, ExplainedIsSmall DEF SnapshotInv
  <1> QED  BY <1>1, <1>2, SnapshotStep, PTL DEF SimSpec

-----------------------------------------------------------------------------
(***************************************************************************)
(* The channels of the process.                                            *)
(***************************************************************************)
OutliveAll == watcher = "stopped" \/ "pruner" \in ended => shutdown

LEMMA LifeStep ==
  ASSUME OutliveAll, [LifeNext]_lifeVars
  PROVE  OutliveAll'
  <1>1. shutdown => shutdown'
    BY DEF LifeNext, lifeVars, feedVars, FeedMoves, NewBlock, Reorg, Announce, StreamEnds,
       WatcherStep, CheckShutdown, Subscribe, ForwardBlock, WatcherSeesShutdown, Watch,
       StartTask, CtrlC, RequestShutdown, JoinTask, Exit, PrunerRecv, PrunerLagged,
       PrunerStops, End, SendPruneTo, TakePrune, UpdaterStops
  <1>2. watcher' = "stopped" => watcher = "stopped" \/ shutdown
    BY DEF LifeNext, lifeVars, feedVars, FeedMoves, NewBlock, Reorg, Announce, StreamEnds,
       WatcherStep, CheckShutdown, Subscribe, ForwardBlock, WatcherSeesShutdown, Watch,
       StartTask, CtrlC, RequestShutdown, JoinTask, Exit, PrunerRecv, PrunerLagged,
       PrunerStops, End, SendPruneTo, TakePrune, UpdaterStops
  <1>3. "pruner" \in ended' => "pruner" \in ended \/ shutdown \/ watcher = "stopped"
    <2>1. CASE PrunerStops
      BY <2>1 DEF PrunerStops, Closed
    <2>2. CASE \E u \in Updaters : UpdaterStops(u)
      BY <2>2 DEF UpdaterStops, End, Updaters
    <2>3. CASE ~PrunerStops /\ ~\E u \in Updaters : UpdaterStops(u)
      <3>1. ended' = ended
        BY <2>3 DEF LifeNext, lifeVars, FeedMoves, StartTask, CtrlC, JoinTask, Exit,
           PrunerRecv, PrunerLagged, SendPruneTo, TakePrune
      <3> QED  BY <3>1
    <2> QED  BY <2>1, <2>2, <2>3
  <1> QED  BY <1>1, <1>2, <1>3 DEF OutliveAll

(* Only the shutdown closes a channel, for any lag, interval and capacity: *)
(* the pruner ends only with it, or with the watcher, which ends only with *)
(* it as well. *)
THEOREM OnlyShutdownCloses == LifeSpec => []ChannelsStayOpen
  <1>1. LifeInit => OutliveAll
    BY DEF LifeInit, FeedInit, OutliveAll
  <1>2. OutliveAll => ChannelsStayOpen
    BY DEF OutliveAll, ChannelsStayOpen, NoSenders
  <1> QED  BY <1>1, <1>2, LifeStep, PTL DEF LifeSpec

-----------------------------------------------------------------------------
(***************************************************************************)
(* The block feed, the tasks and the prune commands.                       *)
(***************************************************************************)
LEMMA NoneRead == ASSUME NEW S PROVE <<>> \in Seq(S)
OBVIOUS

LEMMA FeedStep ==
  ASSUME FeedTypeOK, FeedNext
  PROVE  FeedTypeOK' /\ Len(published) \in Nat /\ Len(published') \in Nat /\ Len(published') >= Len(published)
  <1> USE FeedAssumption DEF FeedTypeOK, Blocks
  <1>1. CASE RequestShutdown
    BY <1>1 DEF RequestShutdown
  <1>2. CASE NewBlock \/ Reorg
    <2>1. PICK b \in 0 .. MaxBlock : Announce(b)
      BY <1>2 DEF NewBlock, Reorg
    <2>2. Append(stream, b) \in Seq(0 .. MaxBlock) /\ stream' \in {stream, Append(stream, b)}
      BY <2>1 DEF Announce
    <2>2a. stream' \in Seq(0 .. MaxBlock)
      BY <2>2
    <2>3. reorgs' \in 0 .. MaxReorgs
      BY <1>2 DEF NewBlock, Reorg
    <2>3a. published' = published /\ Len(published) \in Nat
      BY <2>1 DEF Announce
    <2> QED  BY <2>1, <2>2a, <2>3, <2>3a DEF Announce
  <1>3. CASE CheckShutdown \/ Subscribe \/ StreamEnds \/ WatcherSeesShutdown
    <2>1. stream' = stream \/ stream' = <<>>
      BY <1>3 DEF CheckShutdown, Subscribe, StreamEnds, WatcherSeesShutdown
    <2>2. stream' \in Seq(0 .. MaxBlock)
      BY <2>1, NoneRead
    <2>3. /\ UNCHANGED <<shutdown, tip, reorgs, published>>
          /\ watcher' \in {"check", "subscribe", "stream", "stopped"}
      BY <1>3 DEF CheckShutdown, Subscribe, StreamEnds, WatcherSeesShutdown, Watch
    <2> QED  BY <2>2, <2>3
  <1>4. CASE ForwardBlock
    <2>1. Head(stream) \in 0 .. MaxBlock /\ Tail(stream) \in Seq(0 .. MaxBlock)
      BY <1>4 DEF ForwardBlock
    <2> QED  BY <1>4, <2>1 DEF ForwardBlock
  <1> QED  BY <1>1, <1>2, <1>3, <1>4 DEF FeedNext, WatcherStep

(* Ctrl-C is heard once every task is started. *)
StopsWhole == shutdown => started = 8

(***************************************************************************)
(* No prune is lost on the way: what came due has reached Morpho's updater *)
(* or is with a sender, as long as that updater lives.                     *)
(***************************************************************************)
PrunesUnderWay ==
  LET waiting == senders["aave"] + senders["morpho"]
  IN /\ delivered + waiting <= due
     /\ "morpho" \notin ended => delivered + waiting = due

LifeInv == LifeTypeOK /\ StopsWhole /\ PrunesUnderWay

LEMMA EightTasks == Len(TaskOrder) = 8
  BY DEF TaskOrder

LEMMA LifeInitInv == LifeInit => LifeInv
  <1> SUFFICES ASSUME LifeInit PROVE LifeInv
    OBVIOUS
  <1>1. FeedTypeOK /\ Len(published) = 0 /\ ~shutdown
    <2>1. stream \in Seq(Blocks) /\ published \in Seq(Blocks) /\ Len(published) = 0
      BY NoneRead DEF LifeInit, FeedInit
    <2>2. tip \in Blocks /\ reorgs \in 0 .. MaxReorgs
      BY FeedAssumption DEF LifeInit, FeedInit, Blocks
    <2> QED  BY <2>1, <2>2 DEF LifeInit, FeedInit, FeedTypeOK
  <1>2. /\ senders \in [Updaters -> Nat] /\ orders \in [Updaters -> 0 .. CommandCap]
        /\ senders["aave"] = 0 /\ senders["morpho"] = 0
    BY LifeAssumption DEF LifeInit, Updaters
  <1>3. LifeTypeOK
    <2>1. exited \in BOOLEAN /\ ended \subseteq Updaters \cup {"pruner"}
      BY DEF LifeInit
    <2>2. started = 0 /\ joined = 0 /\ cursor = 0 /\ due = 0 /\ delivered = 0
      BY DEF LifeInit
    <2>3. /\ started \in 0 .. 8 /\ joined \in 0 .. started /\ cursor \in 0 .. 0
          /\ due \in Nat /\ delivered \in 0 .. due
      BY <2>2
    <2> QED  BY <1>1, <1>2, <2>1, <2>3, EightTasks DEF LifeTypeOK
  <1>4. StopsWhole /\ PrunesUnderWay
    BY <1>1, <1>2 DEF LifeInit, StopsWhole, PrunesUnderWay
  <1> QED  BY <1>3, <1>4 DEF LifeInv

(* A step of the pruner's side: what it leaves alone keeps its type. *)
LEMMA PrunerSide ==
  ASSUME LifeInv, UNCHANGED <<feedVars, started, joined, exited>>,
         ended' \subseteq {"aave", "morpho", "pruner"},
         cursor' \in 0 .. Len(published),
         senders' \in [Updaters -> Nat], orders' \in [Updaters -> 0 .. CommandCap],
         due' \in Nat, delivered' \in 0 .. due', PrunesUnderWay'
  PROVE  LifeInv'
  BY DEF LifeInv, LifeTypeOK, StopsWhole, Updaters, feedVars, FeedTypeOK

LEMMA LifeStepInv == LifeInv /\ [LifeNext]_lifeVars => LifeInv'
  <1> SUFFICES ASSUME LifeInv, [LifeNext]_lifeVars PROVE LifeInv'
    OBVIOUS
  <1> USE EightTasks
  <1> DEFINE a == senders["aave"]
             m == senders["morpho"]
  <1>0. /\ FeedTypeOK /\ started \in 0 .. 8 /\ joined \in 0 .. started /\ exited \in BOOLEAN
        /\ ended \subseteq {"aave", "morpho", "pruner"} /\ cursor \in 0 .. Len(published)
        /\ senders \in [{"aave", "morpho"} -> Nat] /\ orders \in [{"aave", "morpho"} -> 0 .. CommandCap]
        /\ due \in Nat /\ delivered \in 0 .. due /\ Len(published) \in Nat
        /\ CommandCap \in Nat /\ BusCap \in Nat
    BY LifeAssumption, FeedAssumption DEF LifeInv, LifeTypeOK, FeedTypeOK, Updaters
  <1>a. /\ a \in Nat /\ m \in Nat /\ due \in Nat /\ delivered \in Nat
        /\ delivered + (a + m) <= due
        /\ "morpho" \notin ended => delivered + (a + m) = due
    BY <1>0 DEF LifeInv, PrunesUnderWay
  <1>1. CASE FeedMoves
    <2>1. FeedTypeOK' /\ Len(published') \in Nat /\ Len(published') >= Len(published)
      BY <1>0, <1>1, FeedStep DEF FeedMoves, FeedNext
    <2>2. shutdown' = shutdown
      BY <1>1 DEF FeedMoves, NewBlock, Reorg, Announce, StreamEnds, WatcherStep, CheckShutdown,
         Subscribe, ForwardBlock, WatcherSeesShutdown, Watch
    <2>3. cursor \in 0 .. Len(published')
      BY <1>0, <2>1
    <2> QED
      BY <1>1, <2>1, <2>2, <2>3
         DEF FeedMoves, pruneVars, LifeInv, LifeTypeOK, StopsWhole, PrunesUnderWay
  <1>2. CASE StartTask
    <2>1. started' \in 0 .. 8 /\ joined \in 0 .. started' /\ ~shutdown /\ cursor' \in 0 .. Len(published)
      BY <1>0, <1>2 DEF StartTask, LifeInv, StopsWhole
    <2> QED
      BY <1>2, <2>1
         DEF StartTask, feedVars, LifeInv, LifeTypeOK, FeedTypeOK, StopsWhole, PrunesUnderWay
  <1>3. CASE CtrlC
    <2>1. FeedTypeOK' /\ published' = published
      BY <1>0, <1>3, FeedStep DEF CtrlC, RequestShutdown, FeedNext
    <2> QED
      BY <1>3, <2>1 DEF CtrlC, pruneVars, LifeInv, LifeTypeOK, StopsWhole, PrunesUnderWay
  <1>4. CASE JoinTask \/ Exit
    <2>1. joined' = joined \/ (shutdown /\ joined < 8 /\ joined' = joined + 1)
      BY <1>4 DEF JoinTask, Exit
    <2>2. joined' \in 0 .. started
      BY <1>0, <2>1 DEF LifeInv, StopsWhole
    <2>3. exited' \in BOOLEAN
      BY <1>0, <1>4 DEF JoinTask, Exit
    <2>4. UNCHANGED <<feedVars, started, ended, pruneVars>>
      BY <1>4 DEF JoinTask, Exit
    <2> QED
      BY <2>2, <2>3, <2>4 DEF feedVars, pruneVars, LifeInv, LifeTypeOK, FeedTypeOK, StopsWhole,
         PrunesUnderWay
  <1>5. CASE PrunerRecv
    <2>1. PICK now \in 0 .. 1 : senders' = [senders EXCEPT !["aave"] = @ + now] /\ due' = due + now
      <3> DEFINE one == IF published[cursor + 1] % PruneInterval = 0 THEN 1 ELSE 0
      <3>1. senders' = [senders EXCEPT !["aave"] = @ + one] /\ due' = due + one
        BY <1>5 DEF PrunerRecv
      <3>2. one \in 0 .. 1
        OBVIOUS
      <3> HIDE DEF one
      <3> QED  BY <3>1, <3>2
    <2>2. /\ senders' \in [Updaters -> Nat]
          /\ senders'["aave"] = a + now /\ senders'["morpho"] = m
      BY <1>0, <2>1 DEF Updaters
    <2>3. cursor' \in 0 .. Len(published)
      BY <1>0, <1>5 DEF PrunerRecv, Readable
    <2>4. PrunesUnderWay' /\ due' \in Nat /\ delivered' \in 0 .. due'
      <3>1. ended' = ended /\ delivered' = delivered
        BY <1>5 DEF PrunerRecv
      <3>2. due' = due + now
        BY <2>1
      <3>3. PrunesUnderWay'
        BY <1>a, <2>2, <3>1, <3>2 DEF PrunesUnderWay
      <3> QED  BY <1>a, <2>1, <3>1, <3>2, <3>3
    <2> QED
      BY <1>0, <1>5, <2>2, <2>3, <2>4, PrunerSide DEF PrunerRecv, Updaters
  <1>6. CASE PrunerLagged
    <2>1. cursor' \in 0 .. Len(published)
      BY <1>0, <1>6 DEF PrunerLagged, Lagged, OldestKept
    <2> QED
      BY <1>0, <1>6, <2>1, PrunerSide DEF PrunerLagged, Updaters, LifeInv, PrunesUnderWay
  <1>7. CASE PrunerStops
    BY <1>0, <1>7, PrunerSide DEF PrunerStops, End, Updaters, LifeInv, PrunesUnderWay
  <1>8. ASSUME NEW u \in Updaters, SendPruneTo(u)  PROVE LifeInv'
    <2>1. /\ orders' \in [Updaters -> 0 .. CommandCap]
      BY <1>0, <1>8 DEF SendPruneTo, Updaters
    <2>2. CASE u = "aave"
      <3>1. /\ senders' \in [Updaters -> Nat] /\ senders'["aave"] = a - 1 /\ senders'["morpho"] = m + 1
            /\ delivered' = delivered
        BY <1>0, <1>8, <2>2 DEF SendPruneTo, GoOn, Updaters
      <3>2. PrunesUnderWay'
        <4>1. ended' = ended /\ due' = due
          BY <1>8 DEF SendPruneTo
        <4> QED  BY <1>a, <3>1, <4>1 DEF PrunesUnderWay
      <3> QED  BY <1>0, <1>8, <2>1, <3>1, <3>2, PrunerSide DEF SendPruneTo
    <2>3. CASE u = "morpho"
      <3>1. /\ senders' \in [Updaters -> Nat] /\ senders'["aave"] = a /\ senders'["morpho"] = m - 1
            /\ delivered' = IF "morpho" \in ended THEN delivered ELSE delivered + 1
            /\ m > 0
        BY <1>0, <1>8, <2>3 DEF SendPruneTo, GoOn, Updaters
      <3>2. PrunesUnderWay' /\ delivered' \in 0 .. due
        <4>1. ended' = ended /\ due' = due
          BY <1>8 DEF SendPruneTo
        <4> QED  BY <1>a, <3>1, <4>1 DEF PrunesUnderWay
      <3> QED  BY <1>0, <1>8, <2>1, <3>1, <3>2, PrunerSide DEF SendPruneTo
    <2> QED  BY <2>2, <2>3 DEF Updaters
  <1>9. ASSUME NEW u \in Updaters, TakePrune(u)  PROVE LifeInv'
    <2>1. orders' \in [Updaters -> 0 .. CommandCap]
      BY <1>0, <1>9 DEF TakePrune, Updaters
    <2> QED  BY <1>0, <1>9, <2>1, PrunerSide DEF TakePrune, Updaters, LifeInv, PrunesUnderWay
  <1>10. ASSUME NEW u \in Updaters, UpdaterStops(u)  PROVE LifeInv'
    <2>1. orders' \in [Updaters -> 0 .. CommandCap] /\ ended' \subseteq {"aave", "morpho", "pruner"}
      BY <1>0, <1>10, LifeAssumption DEF UpdaterStops, End, Updaters
    <2>2. PrunesUnderWay'
      BY <1>a, <1>10 DEF UpdaterStops, End, PrunesUnderWay
    <2> QED  BY <1>0, <1>10, <2>1, <2>2, PrunerSide DEF UpdaterStops, End, Updaters
  <1>11. CASE UNCHANGED lifeVars
    BY <1>0, <1>11, PrunerSide DEF lifeVars, Updaters, LifeInv, PrunesUnderWay
  <1> QED
    BY <1>1, <1>2, <1>3, <1>4, <1>5, <1>6, <1>7, <1>8, <1>9, <1>10, <1>11 DEF LifeNext

LEMMA LifeInvariance == LifeSpec => []LifeInv
  BY LifeInitInv, LifeStepInv, PTL DEF LifeSpec

(* What the process and its channels hold keeps its type: no task is joined *)
(* that was not started, no sender is counted twice, no channel overflows.  *)
THEOREM LifeTypeCorrect == LifeSpec => []LifeTypeOK
  <1>1. LifeInv => LifeTypeOK
    BY DEF LifeInv
  <1> QED  BY <1>1, LifeInvariance, PTL

(* As long as Morpho's updater lives, every prune that came due has reached *)
(* it or is still with a sender, however often the pruner lags, whatever    *)
(* becomes of Aave's updater and of the pruner itself: the safety half of   *)
(* PrunesArrive, for any capacities and intervals.                          *)
THEOREM NoPruneIsDropped == LifeSpec => []PrunesUnderWay
  <1>1. LifeInv => PrunesUnderWay
    BY DEF LifeInv
  <1> QED  BY <1>1, LifeInvariance, PTL

(***************************************************************************)
(* What is joined has ended, and main joins only after the shutdown.       *)
(***************************************************************************)
JoinedEnded ==
  /\ \A i \in 1 .. joined : HasEnded(TaskOrder[i])
  /\ joined > 0 => shutdown
  /\ exited => joined = 8

(* A task that has ended does not come back. *)
LEMMA EndedStays ==
  ASSUME [LifeNext]_lifeVars, NEW t, HasEnded(t)
  PROVE  HasEnded(t)'
  <1>1. ended \subseteq ended'
    <2>1. CASE FeedMoves
      BY <2>1 DEF FeedMoves
    <2>2. CASE StartTask \/ CtrlC \/ JoinTask \/ Exit \/ PrunerRecv \/ PrunerLagged
      BY <2>2 DEF StartTask, CtrlC, JoinTask, Exit, PrunerRecv, PrunerLagged
    <2>3. CASE PrunerStops
      BY <2>3 DEF PrunerStops, End
    <2>4. ASSUME NEW u \in Updaters, SendPruneTo(u) \/ TakePrune(u) \/ UpdaterStops(u)
          PROVE  ended \subseteq ended'
      BY <2>4 DEF SendPruneTo, TakePrune, UpdaterStops, End
    <2>5. CASE UNCHANGED lifeVars
      BY <2>5 DEF lifeVars
    <2> QED  BY <2>1, <2>2, <2>3, <2>4, <2>5 DEF LifeNext
  <1>2. watcher = "stopped" => watcher' = "stopped"
    <2>1. CASE FeedMoves
      BY <2>1 DEF FeedMoves, NewBlock, Reorg, Announce, StreamEnds, WatcherStep, CheckShutdown,
         Subscribe, ForwardBlock, WatcherSeesShutdown, Watch
    <2>2. CASE CtrlC
      BY <2>2 DEF CtrlC, RequestShutdown
    <2>3. CASE ~FeedMoves /\ ~CtrlC
      <3>1. UNCHANGED feedVars
        BY <2>3 DEF LifeNext, lifeVars, StartTask, JoinTask, Exit, PrunerRecv, PrunerLagged,
           PrunerStops, End, SendPruneTo, TakePrune, UpdaterStops
      <3> QED  BY <3>1 DEF feedVars
    <2> QED  BY <2>1, <2>2, <2>3
  <1> QED  BY <1>1, <1>2 DEF HasEnded

LEMMA JoinedStep == LifeInv /\ JoinedEnded /\ [LifeNext]_lifeVars => JoinedEnded'
  <1> SUFFICES ASSUME LifeInv, JoinedEnded, [LifeNext]_lifeVars PROVE JoinedEnded'
    OBVIOUS
  <1>0. joined \in Nat
    BY DEF LifeInv, LifeTypeOK
  <1>1. \A i \in 1 .. joined : HasEnded(TaskOrder[i])'
    <2> TAKE i \in 1 .. joined
    <2> HIDE DEF TaskOrder
    <2>1. HasEnded(TaskOrder[i])
      BY DEF JoinedEnded
    <2> QED  BY <2>1, EndedStays
  <1>2. shutdown => shutdown'
    <2>1. CASE FeedMoves
      BY <2>1 DEF FeedMoves, NewBlock, Reorg, Announce, StreamEnds, WatcherStep, CheckShutdown,
         Subscribe, ForwardBlock, WatcherSeesShutdown, Watch
    <2>2. CASE CtrlC
      BY <2>2 DEF CtrlC, RequestShutdown
    <2>3. CASE ~FeedMoves /\ ~CtrlC
      <3>1. UNCHANGED feedVars
        BY <2>3 DEF LifeNext, lifeVars, StartTask, JoinTask, Exit, PrunerRecv, PrunerLagged,
           PrunerStops, End, SendPruneTo, TakePrune, UpdaterStops
      <3> QED  BY <3>1 DEF feedVars
    <2> QED  BY <2>1, <2>2, <2>3
  <1>3. CASE JoinTask
    <2>1. /\ joined' = joined + 1 /\ shutdown /\ joined < 8 /\ exited' = exited
          /\ HasEnded(TaskOrder[joined + 1])
      BY <1>3, EightTasks DEF JoinTask
    <2>2. PICK n \in Nat : n = joined + 1
      BY <1>0
    <2>3. HasEnded(TaskOrder[n])'
      <3> HIDE DEF TaskOrder
      <3>1. HasEnded(TaskOrder[n])
        BY <2>1, <2>2
      <3> QED  BY <3>1, EndedStays
    <2>4. \A i \in 1 .. joined' : i \in 1 .. joined \/ i = n
      BY <1>0, <2>1, <2>2
    <2>5. \A i \in 1 .. joined' : HasEnded(TaskOrder[i])'
      BY <1>1, <2>3, <2>4
    <2>6. joined' > 0 => shutdown'
      BY <1>2, <2>1
    <2>7. exited' => joined' = 8
      BY <2>1, <1>0 DEF JoinedEnded
    <2> QED  BY <2>5, <2>6, <2>7 DEF JoinedEnded
  <1>4. CASE Exit
    BY <1>1, <1>2, <1>4, EightTasks DEF Exit, JoinedEnded
  <1>5. CASE ~JoinTask /\ ~Exit
    <2>1. joined' = joined /\ exited' = exited
      BY <1>5 DEF LifeNext, lifeVars, FeedMoves, StartTask, CtrlC, PrunerRecv, PrunerLagged,
         PrunerStops, End, SendPruneTo, TakePrune, UpdaterStops
    <2> QED  BY <1>1, <1>2, <2>1 DEF JoinedEnded
  <1> QED  BY <1>3, <1>4, <1>5

(***************************************************************************)
(* main returns only after the shutdown, and with the watcher, the pruner  *)
(* and both updaters ended, whatever the order in which they end: the      *)
(* joins skip none of them.  The safety half of ShutdownCompletes.  (The   *)
(* pipeline's own task is not among them: its handle is that of another.)  *)
(***************************************************************************)
OutlivesNone ==
  exited => shutdown /\ watcher = "stopped" /\ Updaters \cup {"pruner"} \subseteq ended

THEOREM MainOutlivesTheTasks == LifeSpec => []OutlivesNone
  <1>1. LifeInit => JoinedEnded
    BY DEF LifeInit, JoinedEnded
  <1>2. JoinedEnded => OutlivesNone
    <2> SUFFICES ASSUME JoinedEnded, exited PROVE OutlivesNone
      BY DEF OutlivesNone
    <2>1. shutdown /\ \A i \in 1 .. 8 : HasEnded(TaskOrder[i])
      BY DEF JoinedEnded
    <2>2. /\ TaskOrder[3] = "aave" /\ TaskOrder[4] = "morpho"
          /\ TaskOrder[5] = "pruner" /\ TaskOrder[8] = "watcher"
      BY DEF TaskOrder
    <2>3. HasEnded("aave") /\ HasEnded("morpho") /\ HasEnded("pruner") /\ HasEnded("watcher")
      <3>1. HasEnded(TaskOrder[3]) /\ HasEnded(TaskOrder[4])
            /\ HasEnded(TaskOrder[5]) /\ HasEnded(TaskOrder[8])
        BY <2>1
      <3> QED  BY <2>2, <3>1
    <2> QED  BY <2>1, <2>3 DEF HasEnded, OutlivesNone, Updaters
  <1> QED  BY <1>1, <1>2, LifeInvariance, JoinedStep, PTL DEF LifeSpec

-----------------------------------------------------------------------------
(***************************************************************************)
(* The components side by side: each behaviour moves one of them, the      *)
(* others rest.                                                            *)
(***************************************************************************)
AllInv == MorphoInv /\ AaveInv /\ RouteInv /\ SimOK /\ LifeInv

LEMMA AllInitInv == MCInit => AllInv
  BY InitInv, InitOK, RouteInitInv, SimInitOK, LifeInitInv DEF MCInit, AllInv

LEMMA AllStepInv == AllInv /\ [MCNext]_mcVars => AllInv'
  <1> SUFFICES ASSUME AllInv, [MCNext]_mcVars PROVE AllInv'
    OBVIOUS
  <1>1. /\ [Next]_vars /\ [AaveNext]_aaveVars /\ [RouteNext]_routeVars
        /\ [SimNext]_simVars /\ [LifeNext]_lifeVars
    BY DEF MCNext, mcVars
  <1> QED
    BY <1>1, StepInv, NextOK, RouteStepInv, SimStepOK, LifeStepInv DEF AllInv

(* Every variable of the readers, the route finder, the simulator and the  *)
(* process keeps its type: no division is by zero, no call is lost, no     *)
(* channel overflows and nothing is joined before it was started.          *)
THEOREM ComponentsTypeCorrect == MCSpec => []TypesOK
  <1>1. AllInv => TypesOK
    BY DEF AllInv, MorphoInv, AaveInv, RouteInv, SimOK, LifeInv, TypesOK
  <1>2. MCSpec => MCInit /\ [][MCNext]_mcVars
    BY PTL DEF MCSpec
  <1> QED  BY <1>1, <1>2, AllInitInv, AllStepInv, PTL

(***************************************************************************)
(* A profile either reader returns has a debt to cover and something to    *)
(* seize, whatever the roundings: what LiquidationEngine assumes of the    *)
(* profiles of a scan and of a refresh (DebtAssumption).                   *)
(***************************************************************************)
ReadersOwe ==
  /\ at = "some" => profile.debt # 0 /\ profile.swap # 0
  /\ reading = "some" => Cover # 0 /\ candidate.seize # 0

THEOREM ReadersReturnDebts == MCSpec => []ReadersOwe
  <1>1. MorphoInv => (at = "some" => profile.debt # 0 /\ profile.swap # 0)
    <2> SUFFICES ASSUME MorphoInv, at = "some" PROVE profile.debt # 0 /\ profile.swap # 0
      OBVIOUS
    <2>1. profile = Size(price) /\ profile.swap # 0 /\ Debt # 0
      BY DEF MorphoInv, Built
    <2>2. RepayShares(price).debt = Debt /\ SeizeCollateral.debt = Debt
      BY DEF RepayShares, SeizeCollateral
    <2>3. Size(price) = RepayShares(price) \/ Size(price) = SeizeCollateral
      BY DEF Size
    <2> QED  BY <2>1, <2>2, <2>3
  <1>2. AaveInv => (reading = "some" => Cover # 0 /\ candidate.seize # 0)
    BY DEF AaveInv, Progress, Chosen, Sized
  <1>3. AllInv => ReadersOwe
    BY <1>1, <1>2 DEF AllInv, ReadersOwe
  <1>4. MCSpec => MCInit /\ [][MCNext]_mcVars
    BY PTL DEF MCSpec
  <1> QED  BY <1>3, <1>4, AllInitInv, AllStepInv, PTL

=============================================================================
