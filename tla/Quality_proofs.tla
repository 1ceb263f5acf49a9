----------------------------- MODULE Quality_proofs -----------------------------
(***************************************************************************)
(* Proofs about Quality, for any numbers of viewers, slots and handlers, any *)
(* telemetry and any codecs, and any settings of a host that offers no less  *)
(* than the last step of the ladder: what profiles there can be, and who may *)
(* replace an encoder. That a group climbs back rests on fairness and is     *)
(* left to the model checker.                                              *)
(***************************************************************************)
EXTENDS Quality, Sums_proofs, FiniteSetTheorems

(***************************************************************************)
(* Least and greatest members.                                             *)
(***************************************************************************)
LEMMA LeastMember ==
    ASSUME NEW S, S \subseteq Nat, S # {}
    PROVE  Min(S) \in S /\ \A x \in S : Min(S) <= x
  <1>1. \E m \in S : \A x \in S : m <= x
    BY LeastNumber
  <1> QED BY <1>1 DEF Min

LEMMA GreatestMember ==
    ASSUME NEW n \in Nat, NEW S, S \subseteq 0 .. n, S # {}
    PROVE  Max(S) \in S /\ \A x \in S : Max(S) >= x
  <1> DEFINE T == {n - x : x \in S}
  <1>1. T \subseteq Nat /\ T # {}
    <2>1. \A x \in S : n - x \in Nat
      OBVIOUS
    <2> QED BY <2>1
  <1>2. PICK m \in T : \A y \in T : m <= y
    BY <1>1, LeastNumber
  <1>3. PICK x \in S : m = n - x
    BY <1>2
  <1>4. \A y \in S : x >= y
    BY <1>2, <1>3
  <1> QED BY <1>4 DEF Max

LEMMA LesserOf ==
    ASSUME NEW a \in Int, NEW b \in Int
    PROVE  Min({a, b}) = IF a <= b THEN a ELSE b
  BY DEF Min

LEMMA GreaterOf ==
    ASSUME NEW a \in Int, NEW b \in Int
    PROVE  Max({a, b}) = IF a >= b THEN a ELSE b
  BY DEF Max

LEMMA SlotsAreNumbered == Slots \in Nat /\ Slots > 0 /\ Groups \subseteq Nat /\ 0 \in Groups
  BY QualityAssumption DEF Groups

\* configured_transcode_group_count: the host pays for one group at least.
LEMMA BudgetInSlots == ASSUME NEW s \in Wishes PROVE Budget(s) \in 1 .. Slots
  <1> DEFINE asked == IF ~s.adaptive THEN 1 ELSE IF s.groups = None THEN DeviceGroups ELSE s.groups
             kept  == IF Policy # "auto" THEN asked
                      ELSE IF s.adaptive /\ s.groups = None THEN Min({asked, DeviceGroups})
                      ELSE Max({asked, 3})
  <1>1. asked \in Nat /\ asked > 0 /\ DeviceGroups \in Nat /\ DeviceGroups > 0
    <2>1. s.groups \in (Nat \ {0}) \cup {None}
      BY DEF Wishes
    <2> QED BY <2>1, QualityAssumption
  <1> HIDE DEF asked
  <1>2. Min({asked, DeviceGroups}) \in Nat /\ Min({asked, DeviceGroups}) > 0
    BY <1>1, LesserOf
  <1>3. Max({asked, 3}) \in Nat /\ Max({asked, 3}) > 0
    BY <1>1, GreaterOf
  <1>4. kept \in Nat /\ kept > 0
    BY <1>1, <1>2, <1>3
  <1> HIDE DEF kept
  <1>5. Min({kept, Slots}) \in 1 .. Slots
    BY <1>4, LesserOf, SlotsAreNumbered
  <1> QED BY <1>5 DEF Budget, kept, asked

(***************************************************************************)
(* Division, and the steps of the ladder.                                  *)
(***************************************************************************)
LEMMA DivisionIsNatural ==
    ASSUME NEW a \in Nat, NEW n \in Nat, n > 0
    PROVE  a \div n \in Nat /\ a \div n <= a
  OBVIOUS

LEMMA DivisionRises ==
    ASSUME NEW a \in Nat, NEW b \in Nat, a <= b, NEW n \in Nat, n > 0
    PROVE  a \div n <= b \div n
  OBVIOUS

LEMMA ProductRises ==
    ASSUME NEW a \in Nat, NEW b \in Nat, NEW x \in Nat, NEW y \in Nat, a <= x, b <= y
    PROVE  a * b \in Nat /\ x * y \in Nat /\ a * b <= x * y
  <1>1. a * b <= x * b
    OBVIOUS
  <1>2. x * b <= x * y
    OBVIOUS
  <1> QED BY <1>1, <1>2

\* A step down is a step of the ladder or its end, and no step up.
LEMMA StepDown ==
    ASSUME NEW n \in Nat, NEW steps, steps \subseteq 0 .. n, NEW value \in Nat,
           NEW least \in 0 .. n, least <= value
    PROVE  /\ StepBelow(steps, value, least) \in steps \cup {least}
           /\ StepBelow(steps, value, least) <= value
  <1> DEFINE S == {s \in steps : s < value} \cup {least}
  <1>1. S \subseteq 0 .. n /\ S # {} /\ S \subseteq steps \cup {least}
    OBVIOUS
  <1>2. \A s \in S : s <= value
    OBVIOUS
  <1> HIDE DEF S
  <1>3. Max(S) \in S
    BY <1>1, GreatestMember
  <1> QED BY <1>1, <1>2, <1>3 DEF StepBelow, S

\* What lower_fps may return.
FpsSteps == {5, 10, 15, 24, 30, 60}

LEMMA FpsStepsDown ==
    ASSUME NEW f \in Nat, f >= 5
    PROVE  LowerFps(f) \in FpsSteps /\ LowerFps(f) <= f
  <1> DEFINE steps == {10, 15, 24, 30, 60}
  <1>1. steps \subseteq 0 .. 60 /\ 5 \in 0 .. 60 /\ 60 \in Nat
    OBVIOUS
  <1> HIDE DEF steps
  <1>2. StepBelow(steps, f, 5) \in steps \cup {5} /\ StepBelow(steps, f, 5) <= f
    BY <1>1, StepDown
  <1> QED BY <1>2 DEF LowerFps, FpsSteps, steps

LEMMA HeightStepsDown ==
    ASSUME NEW h \in Nat, h >= 144
    PROVE  LowerHeight(h) \in Nat /\ LowerHeight(h) >= 144 /\ LowerHeight(h) <= h
  <1> DEFINE steps == {240, 360, 480, 720, 1080, 1440, 2160}
             least == 144
             most  == 2160
  <1>1. steps \subseteq 0 .. most
    BY SMT
  <1>2. \A s \in steps : s \in Nat /\ s >= 144
    BY SMT
  <1>3. LowerHeight(h) = StepBelow(steps, h, least)
    BY DEF LowerHeight
  <1>4. least \in 0 .. most /\ most \in Nat /\ least <= h
    OBVIOUS
  <1> HIDE DEF steps, least, most
  <1>5. StepBelow(steps, h, least) \in steps \cup {least} /\ StepBelow(steps, h, least) <= h
    BY <1>1, <1>4, StepDown
  <1>6. LowerHeight(h) \in steps \cup {least} /\ LowerHeight(h) <= h
    BY <1>3, <1>5
  <1>7. LowerHeight(h) \in Nat /\ LowerHeight(h) >= 144
    BY <1>2, <1>6 DEF least
  <1> QED BY <1>6, <1>7

LEMMA RootExists ==
    ASSUME NEW f \in Rates, NEW k \in Roots, IsRoot(k, f)
    PROVE  RootOfRate[f] \in Roots
  <1>1. RootOfRate[f] = CHOOSE n \in Roots : IsRoot(n, f)
    BY DEF RootOfRate
  <1> QED BY <1>1

\* A root is taken at the steps of the ladder only.
LEMMA RootsExist ==
    ASSUME NEW f \in FpsSteps
    PROVE  RootOfRate[f] \in Nat
  <1>1. f \in Rates /\ Roots \subseteq Nat
    BY SMT DEF FpsSteps, Rates, Roots
  <1>2. f = 5 => 408 \in Roots /\ IsRoot(408, f)
    BY SMT DEF Roots, IsRoot
  <1>3. f = 10 => 577 \in Roots /\ IsRoot(577, f)
    BY SMT DEF Roots, IsRoot
  <1>4. f = 15 => 707 \in Roots /\ IsRoot(707, f)
    BY SMT DEF Roots, IsRoot
  <1>5. f = 24 => 894 \in Roots /\ IsRoot(894, f)
    BY SMT DEF Roots, IsRoot
  <1>6. f = 30 => 1000 \in Roots /\ IsRoot(1000, f)
    BY SMT DEF Roots, IsRoot
  <1>7. f = 60 => 1414 \in Roots /\ IsRoot(1414, f)
    BY SMT DEF Roots, IsRoot
  <1>8. \E k \in Roots : IsRoot(k, f)
    BY <1>2, <1>3, <1>4, <1>5, <1>6, <1>7, SMT DEF FpsSteps
  <1> QED BY <1>1, <1>8, RootExists

LEMMA FloorIsNatural ==
    ASSUME NEW h \in Nat, NEW f \in FpsSteps
    PROVE  AutomaticFloor(h, f) \in Nat
  <1> DEFINE scaled == (((1400 * h) \div 1080) * RootOfRate[f]) \div 1000
  <1>1. (1400 * h) \div 1080 \in Nat
    BY DivisionIsNatural
  <1>2. ((1400 * h) \div 1080) * RootOfRate[f] \in Nat
    BY <1>1, RootsExist, ProductRises
  <1>3. scaled \in Nat
    BY <1>2, DivisionIsNatural
  <1> HIDE DEF scaled
  <1>4. Max({1400, scaled}) \in Nat
    BY <1>3, GreaterOf
  <1> QED BY <1>4 DEF AutomaticFloor, scaled

LEMMA RateIsInRange ==
    ASSUME NEW base \in Profiles, NEW h \in Nat, NEW f \in FpsSteps
    PROVE  AutomaticRate(base, h, f) \in Nat /\ AutomaticRate(base, h, f) >= FloorRate
  <1> DEFINE lines(x) == x \div 24
             area(x) == lines(x) * lines(x)
             pixels == (base.bitrate * area(h)) \div area(base.height)
             scaled == (pixels * f) \div base.fps
  <1>1. /\ base.bitrate \in Nat /\ base.height \in Nat /\ base.height >= 144
        /\ base.fps \in Nat /\ base.fps > 0
    BY DEF Profiles
  <1>2. lines(h) \in Nat /\ lines(base.height) \in Nat /\ lines(base.height) > 0
    BY <1>1
  <1> HIDE DEF lines
  <1>3. area(h) \in Nat /\ area(base.height) \in Nat /\ area(base.height) > 0
    BY <1>2
  <1> HIDE DEF area
  <1>4. base.bitrate * area(h) \in Nat
    BY <1>1, <1>3
  <1>5. pixels \in Nat
    BY <1>3, <1>4, DivisionIsNatural
  <1> HIDE DEF pixels
  <1>6. pixels * f \in Nat
    BY <1>5 DEF FpsSteps
  <1>7. scaled \in Nat
    BY <1>1, <1>6, DivisionIsNatural
  <1> HIDE DEF scaled
  <1>8. FloorRate = 25 /\ TopRate = 150000
    BY DEF FloorRate, TopRate
  <1>9. \A x \in Nat : Max({scaled, x, FloorRate}) \in Nat /\ Max({scaled, x, FloorRate}) >= 25
    <2> SUFFICES ASSUME NEW x \in Nat
                 PROVE  Max({scaled, x, FloorRate}) \in Nat /\ Max({scaled, x, FloorRate}) >= 25
      OBVIOUS
    <2> DEFINE T == {scaled, x, FloorRate}
               n == scaled + x + 25
    <2>1. n \in Nat /\ T \subseteq 0 .. n /\ 25 \in T
      BY <1>7, <1>8
    <2> HIDE DEF n, T
    <2>2. T # {}
      BY <2>1
    <2>3. Max(T) \in T /\ \A y \in T : Max(T) >= y
      BY <2>1, <2>2, GreatestMember, Zenon
    <2>4. Max(T) \in 0 .. n /\ Max(T) >= 25
      BY <2>1, <2>3, Zenon
    <2>5. Max(T) \in Nat
      BY <2>1, <2>4
    <2> QED BY <2>4, <2>5 DEF T
  <1> DEFINE floor == AutomaticFloor(h, f)
             greatest == Max({scaled, floor, FloorRate})
  <1>10. floor \in Nat
    BY FloorIsNatural
  <1> HIDE DEF floor
  <1>11. greatest \in Nat /\ greatest >= 25
    BY <1>9, <1>10
  <1> HIDE DEF greatest
  <1>12. Min({greatest, TopRate}) \in Nat /\ Min({greatest, TopRate}) >= 25
    BY <1>8, <1>11, LesserOf
  <1>13. AutomaticRate(base, h, f) = Min({greatest, TopRate})
    BY DEF AutomaticRate, greatest, floor, scaled, pixels, area, lines
  <1> QED BY <1>8, <1>12, <1>13

LEMMA ProfileUpdates ==
    ASSUME NEW p \in Profiles, NEW h \in Nat, h >= 144, NEW f \in Nat, f >= 5,
           NEW r \in Nat, r >= FloorRate
    PROVE  [p EXCEPT !.height = h, !.fps = f, !.bitrate = r] \in Profiles
  <1> DEFINE q == [p EXCEPT !.height = h, !.fps = f, !.bitrate = r]
  <1>1. p \in [height : Nat, fps : Nat, bitrate : Nat, automatic : BOOLEAN]
    BY DEF Profiles
  <1>2. q \in [height : Nat, fps : Nat, bitrate : Nat, automatic : BOOLEAN]
    BY <1>1
  <1>3. q.height = h /\ q.fps = f /\ q.bitrate = r
    BY <1>1
  <1> HIDE DEF q
  <1>4. q \in Profiles
    BY <1>2, <1>3 DEF Profiles
  <1> QED BY <1>4 DEF q

LEMMA LoweredIsProfile ==
    ASSUME NEW base \in Profiles, NEW p \in Profiles
    PROVE  Lowered(base, p) \in Profiles
  <1> DEFINE h == LowerHeight(p.height)
             f == LowerFps(p.fps)
             cut == (p.bitrate * 3) \div 5
             fixed == Max({cut, FloorRate})
             rate == IF base.automatic THEN AutomaticRate(base, h, f) ELSE fixed
  <1>1. Lowered(base, p) = [p EXCEPT !.height = h, !.fps = f, !.bitrate = rate]
    BY DEF Lowered
  <1>2. p.height \in Nat /\ p.height >= 144 /\ p.fps \in Nat /\ p.fps >= 5 /\ p.bitrate \in Nat
    BY DEF Profiles
  <1>3. h \in Nat /\ h >= 144 /\ f \in FpsSteps
    BY <1>2, HeightStepsDown, FpsStepsDown
  <1>4. cut \in Nat
    BY <1>2
  <1> HIDE DEF h, f, cut
  <1>5. fixed \in Nat /\ fixed >= FloorRate
    <2>1. FloorRate = 25
      BY DEF FloorRate
    <2>2. FloorRate \in Int /\ cut \in Int
      BY <1>4, <2>1
    <2>3. fixed = IF cut >= FloorRate THEN cut ELSE FloorRate
      BY <2>2, GreaterOf, Zenon
    <2> QED BY <1>4, <2>1, <2>3
  <1>6. AutomaticRate(base, h, f) \in Nat /\ AutomaticRate(base, h, f) >= FloorRate
    <2>1. h \in Nat
      BY <1>3
    <2>2. f \in FpsSteps
      BY <1>3
    <2> QED BY <2>1, <2>2, RateIsInRange
  <1> HIDE DEF fixed
  <1>7. rate \in Nat /\ rate >= FloorRate
    BY <1>5, <1>6
  <1> HIDE DEF rate
  <1>8. f \in Nat /\ f >= 5
    BY <1>3 DEF FpsSteps
  <1>9. [p EXCEPT !.height = h, !.fps = f, !.bitrate = rate] \in Profiles
    BY <1>3, <1>7, <1>8, ProfileUpdates, Zenon
  <1> QED BY <1>1, <1>9

\* A function on numbers whose values stay in a set from one number to the next.
LEMMA StaysFromNumberToNumber ==
    ASSUME NEW S, NEW n \in Nat, NEW c, c[0] \in S,
           \A k \in 1 .. n : c[k - 1] \in S => c[k] \in S
    PROVE  \A k \in 0 .. n : c[k] \in S
  <1> DEFINE T == {k \in 0 .. n : c[k] \notin S}
  <1> SUFFICES ASSUME T # {} PROVE FALSE
    OBVIOUS
  <1>1. T \subseteq Nat
    OBVIOUS
  <1>2. PICK m \in T : \A x \in T : m <= x
    BY <1>1, LeastNumber
  <1>3. m \in 1 .. n /\ m - 1 \in 0 .. n
    BY <1>2
  <1>4. m - 1 \notin T
    BY <1>2, <1>3
  <1> QED BY <1>2, <1>3, <1>4

\* The values of a recursive function on the numbers up to n.
Iterates(g, S, x, F, n) ==
    g \in [0 .. n -> S] /\ \A k \in 0 .. n : g[k] = IF k = 0 THEN x ELSE F[g[k - 1]]

LEMMA IterationExists ==
    ASSUME NEW S, NEW x \in S, NEW F \in [S -> S], NEW n \in Nat
    PROVE  \E g : Iterates(g, S, x, F, n)
  <1> DEFINE P(m) == \E g \in [0 .. m -> S] :
                         \A k \in 0 .. m : g[k] = IF k = 0 THEN x ELSE F[g[k - 1]]
             T    == {m \in Nat : ~P(m)}
  <1>1. P(0)
    <2>1. [k \in 0 .. 0 |-> x] \in [0 .. 0 -> S]
      OBVIOUS
    <2>2. \A k \in 0 .. 0 : [j \in 0 .. 0 |-> x][k] = x /\ k = 0
      OBVIOUS
    <2> QED BY <2>1, <2>2
  <1>2. ASSUME NEW m \in Nat, P(m) PROVE P(m + 1)
    <2>1. PICK g \in [0 .. m -> S] : \A k \in 0 .. m : g[k] = IF k = 0 THEN x ELSE F[g[k - 1]]
      BY <1>2
    <2> DEFINE h == [k \in 0 .. m + 1 |-> IF k = m + 1 THEN F[g[m]] ELSE g[k]]
    <2>2. m \in 0 .. m /\ g[m] \in S
      OBVIOUS
    <2>3. h \in [0 .. m + 1 -> S]
      BY <2>2
    <2>4. ASSUME NEW k \in 0 .. m + 1 PROVE h[k] = IF k = 0 THEN x ELSE F[h[k - 1]]
      <3>1. CASE k = m + 1
        <4>1. h[k] = F[g[m]] /\ h[k - 1] = g[m]
          BY <3>1
        <4> QED BY <3>1, <4>1
      <3>2. CASE k # m + 1
        <4>1. k \in 0 .. m /\ h[k] = g[k]
          BY <3>2
        <4>2. k # 0 => h[k - 1] = g[k - 1]
          BY <4>1
        <4> QED BY <2>1, <4>1, <4>2
      <3> QED BY <3>1, <3>2
    <2> HIDE DEF h
    <2> QED BY <2>3, <2>4
  <1> HIDE DEF P
  <1>3. T = {}
    <2> SUFFICES ASSUME T # {} PROVE FALSE
      OBVIOUS
    <2>1. PICK m \in T : \A y \in T : m <= y
      BY LeastNumber
    <2>2. m # 0 /\ m - 1 \in Nat
      BY <1>1
    <2>3. P(m - 1)
      BY <2>1, <2>2
    <2>4. P((m - 1) + 1)
      BY <1>2, <2>2, <2>3
    <2> QED BY <2>4
  <1>4. P(n)
    BY <1>3
  <1> QED BY <1>4 DEF P, Iterates

\* group_settings
LEMMA RungsAreProfiles ==
    ASSUME NEW s \in Wishes
    PROVE  Rungs(s) \in [Groups -> Profiles]
  <1> DEFINE top == [height |-> s.height, fps |-> s.fps, bitrate |-> s.bitrate,
                     automatic |-> s.automatic]
             Ladder(f) == f = [g \in Groups |-> IF g = 0 THEN top ELSE Lowered(top, f[g - 1])]
             rung == CHOOSE f : Ladder(f)
             F == [p \in Profiles |-> Lowered(top, p)]
  <1>1. Rungs(s) = rung
    BY DEF Rungs
  <1>2. top \in Profiles
    BY DEF Profiles, Wishes
  <1> HIDE DEF top
  <1>3. F \in [Profiles -> Profiles]
    BY <1>2, LoweredIsProfile
  <1> HIDE DEF F
  <1> DEFINE n == Slots - 1
  <1>4. n \in Nat /\ Groups = 0 .. n
    BY SlotsAreNumbered DEF Groups
  <1> HIDE DEF n
  <1>5. PICK f \in [Groups -> Profiles] :
            \A k \in Groups : f[k] = IF k = 0 THEN top ELSE F[f[k - 1]]
    <2>1. PICK g : Iterates(g, Profiles, top, F, n)
      BY <1>2, <1>3, <1>4, IterationExists
    <2> QED BY <1>4, <2>1 DEF Iterates
  <1>6. \A k \in Groups : k # 0 => k - 1 \in Groups
    BY <1>4
  <1>7. \A k \in Groups : k # 0 => F[f[k - 1]] = Lowered(top, f[k - 1])
    BY <1>6 DEF F
  <1>8. f = [k \in Groups |-> IF k = 0 THEN top ELSE Lowered(top, f[k - 1])]
    BY <1>5, <1>7
  <1>9. Ladder(rung)
    BY <1>8
  <1> HIDE DEF rung
  <1>10. rung[0] \in Profiles
    BY <1>2, <1>4, <1>9
  <1>11. ASSUME NEW k \in 1 .. n, rung[k - 1] \in Profiles
         PROVE  rung[k] \in Profiles
    <2>1. rung[k] = Lowered(top, rung[k - 1])
      BY <1>4, <1>9
    <2> QED BY <1>2, <1>11, <2>1, LoweredIsProfile
  <1>12. \A k \in 0 .. n : rung[k] \in Profiles
    BY <1>4, <1>10, <1>11, StaysFromNumberToNumber
  <1> QED BY <1>1, <1>4, <1>9, <1>12

(***************************************************************************)
(* The level that a profile needs.                                         *)
(***************************************************************************)
\* A table of n levels, from the smallest.
Rising(table, n) ==
    /\ DOMAIN table = 1 .. n
    /\ \A i \in 1 .. n : \A k \in 1 .. 4 : table[i][k] \in Nat
    /\ \A i, j \in 1 .. n : i <= j => table[i][1] <= table[j][1]

LEMMA H264LevelsRise == Rising(H264Levels, 11)
  <1> DEFINE t == H264Levels
  <1>1. DOMAIN t = 1 .. 11
    BY SMT DEF H264Levels
  <1>2. /\ t[1][1] = 31 /\ t[2][1] = 32 /\ t[3][1] = 40 /\ t[4][1] = 41 /\ t[5][1] = 42
        /\ t[6][1] = 50 /\ t[7][1] = 51 /\ t[8][1] = 52 /\ t[9][1] = 60 /\ t[10][1] = 61
        /\ t[11][1] = 62
    BY SMT DEF H264Levels
  <1>3. \A i \in 1 .. 11 : \A k \in 1 .. 4 : t[i][k] \in Nat
    BY SMT DEF H264Levels
  <1> HIDE DEF t
  <1>4. \A i, j \in 1 .. 11 : i <= j => t[i][1] <= t[j][1]
    BY <1>2, SMT
  <1> QED BY <1>1, <1>3, <1>4, SMT DEF Rising, t

LEMMA H265LevelsRise == Rising(H265Levels, 9)
  <1> DEFINE t == H265Levels
  <1>1. DOMAIN t = 1 .. 9
    BY SMT DEF H265Levels
  <1>2. /\ t[1][1] = 31 /\ t[2][1] = 40 /\ t[3][1] = 41 /\ t[4][1] = 50 /\ t[5][1] = 51
        /\ t[6][1] = 52 /\ t[7][1] = 60 /\ t[8][1] = 61 /\ t[9][1] = 62
    BY SMT DEF H265Levels
  <1>3. \A i \in 1 .. 9 : \A k \in 1 .. 4 : t[i][k] \in Nat
    BY SMT DEF H265Levels
  <1> HIDE DEF t
  <1>4. \A i, j \in 1 .. 9 : i <= j => t[i][1] <= t[j][1]
    BY <1>2, SMT
  <1> QED BY <1>1, <1>3, <1>4, SMT DEF Rising, t

\* No larger in any respect.
AtMost(q, p) == q.height <= p.height /\ q.fps <= p.fps /\ q.bitrate <= p.bitrate

LEMMA UpToMonotone ==
    ASSUME NEW a \in Nat, NEW b \in Nat, a <= b, NEW n \in Nat, n > 0
    PROVE  DivUp(a, n) \in Nat /\ DivUp(a, n) <= DivUp(b, n)
  <1>1. a + n - 1 \in Nat /\ b + n - 1 \in Nat /\ a + n - 1 <= b + n - 1
    OBVIOUS
  <1>2. (a + n - 1) \div n \in Nat
    BY <1>1, DivisionIsNatural
  <1>3. (a + n - 1) \div n <= (b + n - 1) \div n
    BY <1>1, DivisionRises
  <1> QED BY <1>2, <1>3 DEF DivUp

LEMMA WidthMonotone ==
    ASSUME NEW g \in Nat, NEW h \in Nat, g <= h
    PROVE  Width(g) \in Nat /\ Width(g) <= Width(h)
  <1>1. SourceWidth \in Nat /\ SourceHeight \in Nat /\ SourceHeight > 0
    BY QualityAssumption
  <1> DEFINE v == SourceWidth * g
             w == SourceWidth * h
             a == DivUp(v, SourceHeight)
             b == DivUp(w, SourceHeight)
  <1>2. v \in Nat /\ w \in Nat /\ v <= w /\ w <= w
    BY <1>1, ProductRises
  <1> HIDE DEF v, w
  <1>3. a \in Nat /\ b \in Nat /\ a <= b
    BY <1>1, <1>2, UpToMonotone
  <1> HIDE DEF a, b
  <1>4. DivUp(a, 2) \in Nat /\ DivUp(b, 2) \in Nat /\ DivUp(a, 2) <= DivUp(b, 2)
    BY <1>3, UpToMonotone
  <1> QED BY <1>4 DEF Width, a, b, v, w

LEMMA BlocksRise ==
    ASSUME NEW g \in Nat, NEW h \in Nat, g <= h
    PROVE  /\ DivUp(Width(g), 16) * DivUp(g, 16) \in Nat
           /\ DivUp(Width(g), 16) * DivUp(g, 16) <= DivUp(Width(h), 16) * DivUp(h, 16)
           /\ DivUp(Width(g) * g, 64) \in Nat
           /\ DivUp(Width(g) * g, 64) <= DivUp(Width(h) * h, 64)
  <1>1. Width(g) \in Nat /\ Width(h) \in Nat /\ Width(g) <= Width(h)
    BY WidthMonotone
  <1>2. /\ DivUp(Width(g), 16) \in Nat /\ DivUp(Width(h), 16) \in Nat
        /\ DivUp(Width(g), 16) <= DivUp(Width(h), 16)
    BY <1>1, UpToMonotone
  <1>3. DivUp(g, 16) \in Nat /\ DivUp(h, 16) \in Nat /\ DivUp(g, 16) <= DivUp(h, 16)
    BY UpToMonotone
  <1>4. /\ DivUp(Width(g), 16) * DivUp(g, 16) \in Nat
        /\ DivUp(Width(g), 16) * DivUp(g, 16) <= DivUp(Width(h), 16) * DivUp(h, 16)
    BY <1>2, <1>3, ProductRises
  <1>5. Width(g) * g \in Nat /\ Width(h) * h \in Nat /\ Width(g) * g <= Width(h) * h
    BY <1>1, ProductRises
  <1>6. DivUp(Width(g) * g, 64) \in Nat /\ DivUp(Width(g) * g, 64) <= DivUp(Width(h) * h, 64)
    BY <1>5, UpToMonotone
  <1> QED BY <1>4, <1>6

LEMMA FitsLess ==
    ASSUME NEW row, row[2] \in Nat, row[3] \in Nat, row[4] \in Nat,
           NEW p \in Profiles, NEW q \in Profiles, AtMost(q, p),
           NEW a \in Nat, NEW b \in Nat, a <= b, Fits(row, b, p)
    PROVE  Fits(row, a, q)
  <1>1. p.fps \in Nat /\ q.fps \in Nat /\ p.bitrate \in Nat /\ q.bitrate \in Nat
    BY DEF Profiles
  <1>2. q.fps <= p.fps /\ q.bitrate <= p.bitrate
    BY DEF AtMost
  <1>3. a * q.fps \in Nat /\ b * p.fps \in Nat /\ a * q.fps <= b * p.fps
    BY <1>1, <1>2, ProductRises
  <1>4. a <= row[2]
    BY DEF Fits
  <1>5. a * q.fps <= row[3]
    <2>1. b * p.fps <= row[3]
      BY DEF Fits
    <2> QED BY <1>3, <2>1
  <1>6. q.bitrate <= row[4]
    <2>1. p.bitrate <= row[4]
      BY DEF Fits
    <2> QED BY <1>1, <1>2, <2>1
  <1> QED BY <1>4, <1>5, <1>6 DEF Fits

\* The level that a table has for a profile.
Pick(table, blocks, p) ==
    LET fitting == {n \in DOMAIN table : Fits(table[n], blocks, p)}
    IN IF fitting = {} THEN None ELSE table[Min(fitting)][1]

LEMMA PickIsLevel ==
    ASSUME NEW table, NEW n \in Nat, Rising(table, n), NEW blocks, NEW p
    PROVE  Pick(table, blocks, p) \in Nat \cup {None}
  <1> DEFINE fitting == {i \in DOMAIN table : Fits(table[i], blocks, p)}
  <1>1. CASE fitting = {}
    BY <1>1 DEF Pick
  <1>2. CASE fitting # {}
    <2>1. fitting \subseteq 1 .. n /\ fitting \subseteq Nat
      BY DEF Rising
    <2> HIDE DEF fitting
    <2>2. Min(fitting) \in 1 .. n
      BY <1>2, <2>1, LeastMember
    <2>3. table[Min(fitting)][1] \in Nat
      BY <2>2 DEF Rising
    <2> QED BY <1>2, <2>3 DEF Pick, fitting
  <1> QED BY <1>1, <1>2

\* A smaller profile needs no higher level.
LEMMA PickShrinks ==
    ASSUME NEW table, NEW n \in Nat, Rising(table, n),
           NEW p \in Profiles, NEW q \in Profiles, AtMost(q, p),
           NEW a \in Nat, NEW b \in Nat, a <= b,
           NEW top \in Nat, Pick(table, b, p) \in 0 .. top
    PROVE  Pick(table, a, q) \in 0 .. top
  <1> DEFINE before == {i \in DOMAIN table : Fits(table[i], b, p)}
             after  == {i \in DOMAIN table : Fits(table[i], a, q)}
  <1>1. DOMAIN table = 1 .. n
    BY DEF Rising
  <1>2. before \subseteq after
    <2> SUFFICES ASSUME NEW i \in 1 .. n, Fits(table[i], b, p)
                 PROVE  Fits(table[i], a, q)
      BY <1>1
    <2> DEFINE row == table[i]
    <2>1. row[2] \in Nat /\ row[3] \in Nat /\ row[4] \in Nat /\ Fits(row, b, p)
      BY DEF Rising
    <2> HIDE DEF row
    <2>2. Fits(row, a, q)
      BY <2>1, FitsLess
    <2> QED BY <2>2 DEF row
  <1>3. before # {}
    <2>1. None \notin 0 .. top
      BY QualityAssumption
    <2> QED BY <2>1 DEF Pick
  <1>4. /\ before \subseteq Nat /\ after \subseteq Nat
        /\ before \subseteq 1 .. n /\ after \subseteq 1 .. n
    BY <1>1
  <1>5. Pick(table, b, p) = table[Min(before)][1]
    BY <1>3 DEF Pick
  <1>6. after # {}
    BY <1>2, <1>3
  <1>7. Pick(table, a, q) = table[Min(after)][1]
    BY <1>6 DEF Pick
  <1> HIDE DEF before, after
  <1>8. Min(before) \in before /\ Min(after) \in after /\ \A i \in after : Min(after) <= i
    BY <1>3, <1>4, <1>6, LeastMember
  <1>9. Min(after) <= Min(before) /\ Min(before) \in 1 .. n /\ Min(after) \in 1 .. n
    BY <1>2, <1>4, <1>8
  <1>10. table[Min(after)][1] <= table[Min(before)][1] /\ table[Min(after)][1] \in Nat
    <2>1. /\ \A i \in 1 .. n : table[i][1] \in Nat
          /\ \A i, j \in 1 .. n : i <= j => table[i][1] <= table[j][1]
      BY DEF Rising
    <2> QED BY <1>9, <2>1
  <1>11. table[Min(before)][1] \in 0 .. top
    BY <1>5
  <1> QED BY <1>7, <1>10, <1>11

LEMMA RequiredByTable ==
    ASSUME NEW c, NEW p
    PROVE  Required(c, p) =
               IF c = "h264"
               THEN Pick(H264Levels, DivUp(Width(p.height), 16) * DivUp(p.height, 16), p)
               ELSE IF c = "h265" THEN Pick(H265Levels, DivUp(Width(p.height) * p.height, 64), p)
               ELSE 0
  BY DEF Required, Pick

LEMMA RequiredIsLevel ==
    ASSUME NEW c, NEW p
    PROVE  Required(c, p) \in Nat \cup {None}
  <1>1. 11 \in Nat /\ 9 \in Nat
    OBVIOUS
  <1>2. \A blocks : Pick(H264Levels, blocks, p) \in Nat \cup {None}
    BY <1>1, H264LevelsRise, PickIsLevel
  <1>3. \A blocks : Pick(H265Levels, blocks, p) \in Nat \cup {None}
    BY <1>1, H265LevelsRise, PickIsLevel
  <1>4. 0 \in Nat
    OBVIOUS
  <1> QED BY <1>2, <1>3, <1>4, RequiredByTable

LEMMA RequiredShrinks ==
    ASSUME NEW c, NEW p \in Profiles, NEW q \in Profiles, AtMost(q, p),
           NEW top \in Nat, Required(c, p) \in 0 .. top
    PROVE  Required(c, q) \in 0 .. top
  <1>1. p.height \in Nat /\ q.height \in Nat /\ q.height <= p.height
    BY DEF Profiles, AtMost
  <1> DEFINE a == DivUp(Width(q.height), 16) * DivUp(q.height, 16)
             b == DivUp(Width(p.height), 16) * DivUp(p.height, 16)
             d == DivUp(Width(q.height) * q.height, 64)
             e == DivUp(Width(p.height) * p.height, 64)
  <1>2. a \in Nat /\ b \in Nat /\ a <= b /\ d \in Nat /\ e \in Nat /\ d <= e
    <2>1. p.height <= p.height
      BY <1>1
    <2>2. a \in Nat /\ a <= b /\ d \in Nat /\ d <= e
      BY <1>1, BlocksRise
    <2>3. b \in Nat /\ e \in Nat
      BY <1>1, <2>1, BlocksRise
    <2> QED BY <2>2, <2>3
  <1>3. CASE c = "h264"
    <2>1. Required(c, p) = Pick(H264Levels, b, p) /\ Required(c, q) = Pick(H264Levels, a, q)
      BY <1>3, RequiredByTable
    <2> HIDE DEF a, b
    <2>2. 11 \in Nat
      OBVIOUS
    <2>3. Pick(H264Levels, a, q) \in 0 .. top
      BY <1>2, <2>1, <2>2, H264LevelsRise, PickShrinks
    <2> QED BY <2>1, <2>3
  <1>4. CASE c = "h265"
    <2>1. Required(c, p) = Pick(H265Levels, e, p) /\ Required(c, q) = Pick(H265Levels, d, q)
      BY <1>4, RequiredByTable
    <2> HIDE DEF d, e
    <2>2. 9 \in Nat
      OBVIOUS
    <2>3. Pick(H265Levels, d, q) \in 0 .. top
      BY <1>2, <2>1, <2>2, H265LevelsRise, PickShrinks
    <2> QED BY <2>1, <2>3
  <1>5. CASE c # "h264" /\ c # "h265"
    BY <1>5, RequiredByTable
  <1> QED BY <1>3, <1>4, <1>5

(***************************************************************************)
(* The steps of tune.                                                      *)
(***************************************************************************)
LEMMA ProfileFields ==
    ASSUME NEW p \in Profiles
    PROVE  /\ p \in [height : Nat, fps : Nat, bitrate : Nat, automatic : BOOLEAN]
           /\ p.height \in Nat /\ p.fps \in Nat /\ p.bitrate \in Nat
           /\ p.height >= 144 /\ p.fps >= 5 /\ p.bitrate >= 25 /\ p.bitrate >= FloorRate
  BY DEF Profiles, FloorRate

LEMMA RateUpdated ==
    ASSUME NEW p \in Profiles, NEW r \in Nat, r >= 25
    PROVE  /\ [p EXCEPT !.bitrate = r] \in Profiles
           /\ r <= p.bitrate => AtMost([p EXCEPT !.bitrate = r], p)
  <1> DEFINE q == [p EXCEPT !.bitrate = r]
  <1>1. q \in [height : Nat, fps : Nat, bitrate : Nat, automatic : BOOLEAN]
    BY ProfileFields
  <1>2. q.height = p.height /\ q.fps = p.fps /\ q.bitrate = r
    BY ProfileFields
  <1> HIDE DEF q
  <1>3. q \in Profiles
    BY <1>1, <1>2, ProfileFields DEF Profiles, FloorRate
  <1>4. r <= p.bitrate => AtMost(q, p)
    BY <1>2, ProfileFields DEF AtMost
  <1> QED BY <1>3, <1>4 DEF q

LEMMA FpsUpdated ==
    ASSUME NEW p \in Profiles, NEW f \in Nat, f >= 5
    PROVE  /\ [p EXCEPT !.fps = f] \in Profiles
           /\ f <= p.fps => AtMost([p EXCEPT !.fps = f], p)
  <1> DEFINE q == [p EXCEPT !.fps = f]
  <1>1. q \in [height : Nat, fps : Nat, bitrate : Nat, automatic : BOOLEAN]
    BY ProfileFields
  <1>2. q.height = p.height /\ q.fps = f /\ q.bitrate = p.bitrate
    BY ProfileFields
  <1> HIDE DEF q
  <1>3. q \in Profiles
    BY <1>1, <1>2, ProfileFields DEF Profiles, FloorRate
  <1>4. f <= p.fps => AtMost(q, p)
    BY <1>2, ProfileFields DEF AtMost
  <1> QED BY <1>3, <1>4 DEF q

LEMMA HeightUpdated ==
    ASSUME NEW p \in Profiles, NEW h \in Nat, h >= 144
    PROVE  /\ [p EXCEPT !.height = h] \in Profiles
           /\ h <= p.height => AtMost([p EXCEPT !.height = h], p)
  <1> DEFINE q == [p EXCEPT !.height = h]
  <1>1. q \in [height : Nat, fps : Nat, bitrate : Nat, automatic : BOOLEAN]
    BY ProfileFields
  <1>2. q.height = h /\ q.fps = p.fps /\ q.bitrate = p.bitrate
    BY ProfileFields
  <1> HIDE DEF q
  <1>3. q \in Profiles
    BY <1>1, <1>2, ProfileFields DEF Profiles, FloorRate
  <1>4. h <= p.height => AtMost(q, p)
    BY <1>2, ProfileFields DEF AtMost
  <1> QED BY <1>3, <1>4 DEF q

\* tune: what is lowered is no larger in any respect.
LEMMA LoweredTuneShrinks ==
    ASSUME NEW p \in Profiles
    PROVE  LoweredTune(p) \in Profiles /\ AtMost(LoweredTune(p), p)
  <1> DEFINE b    == p.bitrate
             part == Min({b * 90, Saturated}) \div 100
             rate == Max({part, FloorRate})
  <1>1. b \in Nat /\ b >= 25 /\ p.fps \in Nat /\ p.fps >= 5 /\ p.height \in Nat /\ p.height >= 144
    BY ProfileFields
  <1> HIDE DEF b
  <1>2. Min({b * 90, Saturated}) \in Nat /\ Min({b * 90, Saturated}) <= b * 90
    <2>1. b * 90 \in Int /\ Saturated = 429496
      BY <1>1 DEF Saturated
    <2>2. Min({b * 90, Saturated}) = IF b * 90 <= Saturated THEN b * 90 ELSE Saturated
      BY <2>1, LesserOf
    <2> QED BY <1>1, <2>1, <2>2, SMT
  <1>3. part \in Nat /\ part <= b
    BY <1>1, <1>2, SMT
  <1> HIDE DEF part
  <1>4. rate \in Nat /\ rate >= 25 /\ rate <= b
    <2>1. rate = IF part >= FloorRate THEN part ELSE FloorRate
      <3>1. FloorRate \in Int /\ part \in Int
        BY <1>3 DEF FloorRate
      <3> QED BY <3>1, GreaterOf
    <2> QED BY <1>1, <1>3, <2>1 DEF FloorRate
  <1> HIDE DEF rate
  <1>5. LoweredTune(p) = IF rate # p.bitrate THEN [p EXCEPT !.bitrate = rate]
                         ELSE IF p.fps > 5 THEN [p EXCEPT !.fps = LowerFps(p.fps)]
                         ELSE [p EXCEPT !.height = LowerHeight(p.height)]
    BY DEF LoweredTune, rate, part, b
  <1>6. [p EXCEPT !.bitrate = rate] \in Profiles /\ AtMost([p EXCEPT !.bitrate = rate], p)
    BY <1>4, RateUpdated DEF b
  <1>7. /\ [p EXCEPT !.fps = LowerFps(p.fps)] \in Profiles
        /\ AtMost([p EXCEPT !.fps = LowerFps(p.fps)], p)
    <2> DEFINE f == LowerFps(p.fps)
    <2>1. f \in Nat /\ f >= 5 /\ f <= p.fps
      BY <1>1, FpsStepsDown DEF FpsSteps
    <2> HIDE DEF f
    <2>2. [p EXCEPT !.fps = f] \in Profiles /\ AtMost([p EXCEPT !.fps = f], p)
      BY <2>1, FpsUpdated
    <2> QED BY <2>2 DEF f
  <1>8. /\ [p EXCEPT !.height = LowerHeight(p.height)] \in Profiles
        /\ AtMost([p EXCEPT !.height = LowerHeight(p.height)], p)
    <2> DEFINE h == LowerHeight(p.height)
    <2>1. h \in Nat /\ h >= 144 /\ h <= p.height
      BY <1>1, HeightStepsDown
    <2> HIDE DEF h
    <2>2. [p EXCEPT !.height = h] \in Profiles /\ AtMost([p EXCEPT !.height = h], p)
      BY <2>1, HeightUpdated
    <2> QED BY <2>2 DEF h
  <1> QED BY <1>5, <1>6, <1>7, <1>8

\* A step up ends at a step of the ladder or at the ceiling.
LEMMA StepUp ==
    ASSUME NEW steps, steps \subseteq Nat, NEW value, NEW most \in Nat
    PROVE  StepAbove(steps, value, most) \in steps \cup {most}
  <1> DEFINE S == {s \in steps : s > value /\ s <= most} \cup {most}
  <1>1. S \subseteq Nat /\ S # {} /\ S \subseteq steps \cup {most}
    OBVIOUS
  <1> HIDE DEF S
  <1>2. Min(S) \in S
    BY <1>1, LeastMember
  <1> QED BY <1>1, <1>2 DEF StepAbove, S

LEMMA FpsStepsUp ==
    ASSUME NEW f, NEW most \in Nat, most >= 5
    PROVE  HigherFps(f, most) \in Nat /\ HigherFps(f, most) >= 5
  <1> DEFINE steps == {5, 10, 15, 24, 30, 60, 75, 120}
  <1>1. \A s \in steps : s \in Nat /\ s >= 5
    BY SMT
  <1>2. HigherFps(f, most) = StepAbove(steps, f, most)
    BY DEF HigherFps
  <1> HIDE DEF steps
  <1>3. steps \subseteq Nat
    BY <1>1
  <1>4. StepAbove(steps, f, most) \in steps \cup {most}
    BY <1>3, StepUp
  <1> QED BY <1>1, <1>2, <1>4

LEMMA HeightStepsUp ==
    ASSUME NEW h, NEW most \in Nat, most >= 144
    PROVE  HigherHeight(h, most) \in Nat /\ HigherHeight(h, most) >= 144
  <1> DEFINE steps == {144, 240, 360, 480, 720, 1080, 1440, 2160, 4320}
  <1>1. \A s \in steps : s \in Nat /\ s >= 144
    BY SMT
  <1>2. HigherHeight(h, most) = StepAbove(steps, h, most)
    BY DEF HigherHeight
  <1> HIDE DEF steps
  <1>3. steps \subseteq Nat
    BY <1>1
  <1>4. StepAbove(steps, h, most) \in steps \cup {most}
    BY <1>3, StepUp
  <1> QED BY <1>1, <1>2, <1>4

LEMMA RaisedTuneIsProfile ==
    ASSUME NEW p \in Profiles, NEW top \in Profiles
    PROVE  RaisedTune(p, top) \in Profiles
  <1> DEFINE b    == p.bitrate
             part == Min({b * 110, Saturated}) \div 100
             rate == Min({part, top.bitrate})
  <1>1. b \in Nat /\ b >= 25 /\ top.bitrate \in Nat /\ top.bitrate >= 25
    BY ProfileFields
  <1> HIDE DEF b
  <1>2. Min({b * 110, Saturated}) \in Nat /\ Min({b * 110, Saturated}) >= 2500
    <2>1. b * 110 \in Int /\ Saturated = 429496
      BY <1>1 DEF Saturated
    <2>2. Min({b * 110, Saturated}) = IF b * 110 <= Saturated THEN b * 110 ELSE Saturated
      BY <2>1, LesserOf
    <2> QED BY <1>1, <2>1, <2>2, SMT
  <1>3. part \in Nat /\ part >= 25
    BY <1>1, <1>2, SMT
  <1> HIDE DEF part
  <1>4. rate \in Nat /\ rate >= 25
    BY <1>1, <1>3, LesserOf
  <1> HIDE DEF rate
  <1>5. RaisedTune(p, top) =
            IF rate # p.bitrate THEN [p EXCEPT !.bitrate = rate]
            ELSE IF p.fps < top.fps THEN [p EXCEPT !.fps = HigherFps(p.fps, top.fps)]
            ELSE IF p.height < top.height
                 THEN [p EXCEPT !.height = HigherHeight(p.height, top.height)]
            ELSE p
    BY DEF RaisedTune, rate, part, b
  <1>6. [p EXCEPT !.bitrate = rate] \in Profiles
    BY <1>4, RateUpdated
  <1>7. [p EXCEPT !.fps = HigherFps(p.fps, top.fps)] \in Profiles
    <2> DEFINE f == HigherFps(p.fps, top.fps)
    <2>1. f \in Nat /\ f >= 5
      BY ProfileFields, FpsStepsUp
    <2> HIDE DEF f
    <2>2. [p EXCEPT !.fps = f] \in Profiles
      BY <2>1, FpsUpdated
    <2> QED BY <2>2 DEF f
  <1>8. [p EXCEPT !.height = HigherHeight(p.height, top.height)] \in Profiles
    <2> DEFINE h == HigherHeight(p.height, top.height)
    <2>1. h \in Nat /\ h >= 144
      BY ProfileFields, HeightStepsUp
    <2> HIDE DEF h
    <2>2. [p EXCEPT !.height = h] \in Profiles
      BY <2>1, HeightUpdated
    <2> QED BY <2>2 DEF h
  <1> QED BY <1>5, <1>6, <1>7, <1>8

(***************************************************************************)
(* What the probe of a viewer leaves of a profile.                         *)
(***************************************************************************)
\* One step of fit_profile_to_delivery_budget.
FitStep(top, budget, p) ==
    LET q == Lowered(top, p)
    IN IF p.bitrate <= budget THEN p
       ELSE IF q.height = p.height /\ q.fps = p.fps
            THEN [p EXCEPT !.bitrate = Min({Max({budget, FloorRate}), @})]
            ELSE q

LEMMA ClampedRate ==
    ASSUME NEW p \in Profiles, NEW budget \in Nat
    PROVE  LET r == Min({Max({budget, FloorRate}), p.bitrate})
           IN r \in Nat /\ r >= 25 /\ (budget >= 25 => r <= budget)
  <1> DEFINE b == p.bitrate
             m == Max({budget, FloorRate})
  <1>1. b \in Nat /\ b >= 25
    BY ProfileFields
  <1> HIDE DEF b
  <1>2. m = IF budget >= FloorRate THEN budget ELSE FloorRate
    <2>1. FloorRate \in Int /\ budget \in Int
      BY DEF FloorRate
    <2> QED BY <2>1, GreaterOf
  <1>3. m \in Nat /\ m >= 25 /\ (budget >= 25 => m = budget)
    BY <1>2 DEF FloorRate
  <1> HIDE DEF m
  <1>4. Min({m, b}) = IF m <= b THEN m ELSE b
    BY <1>1, <1>3, LesserOf
  <1> QED BY <1>1, <1>3, <1>4 DEF m, b

LEMMA FitStepIsProfile ==
    ASSUME NEW top \in Profiles, NEW budget \in Nat, NEW p \in Profiles
    PROVE  FitStep(top, budget, p) \in Profiles
  <1> DEFINE r == Min({Max({budget, FloorRate}), p.bitrate})
  <1>1. r \in Nat /\ r >= 25
    BY ClampedRate
  <1>2. [p EXCEPT !.bitrate = Min({Max({budget, FloorRate}), @})] = [p EXCEPT !.bitrate = r]
    OBVIOUS
  <1> HIDE DEF r
  <1>3. [p EXCEPT !.bitrate = r] \in Profiles
    BY <1>1, RateUpdated
  <1> QED BY <1>2, <1>3, LoweredIsProfile DEF FitStep

\* The steps that Fit takes, from the first to the last.
LEMMA FitInSteps ==
    ASSUME NEW top \in Profiles, NEW budget \in Nat
    PROVE  \E f : /\ f[0] = top /\ Fit(top, budget) = f[9]
                  /\ \A k \in 0 .. 9 : f[k] \in Profiles
                  /\ \A k \in 1 .. 9 : f[k] = FitStep(top, budget, f[k - 1])
  <1> DEFINE Steps(f) == f = [n \in 0 .. 9 |->
                 IF n = 0 THEN top
                 ELSE LET p == f[n - 1]
                          q == Lowered(top, p)
                      IN IF p.bitrate <= budget THEN p
                         ELSE IF q.height = p.height /\ q.fps = p.fps
                              THEN [p EXCEPT !.bitrate = Min({Max({budget, FloorRate}), @})]
                              ELSE q]
             step == CHOOSE f : Steps(f)
             F == [p \in Profiles |-> FitStep(top, budget, p)]
             last == 9
  <1>1. Fit(top, budget) = step[9]
    BY DEF Fit
  <1>2. \A f : Steps(f) <=> f = [n \in 0 .. last |->
                 IF n = 0 THEN top ELSE FitStep(top, budget, f[n - 1])]
    BY DEF FitStep
  <1>3. last \in Nat /\ last = 9
    OBVIOUS
  <1>4. F \in [Profiles -> Profiles]
    BY FitStepIsProfile
  <1> HIDE DEF F, last, Steps
  <1>5. PICK f : Iterates(f, Profiles, top, F, last)
    BY <1>3, <1>4, IterationExists
  <1>6. /\ f \in [0 .. last -> Profiles]
        /\ \A k \in 0 .. last : f[k] = IF k = 0 THEN top ELSE F[f[k - 1]]
    BY <1>5 DEF Iterates
  <1>7. \A k \in 0 .. last : k # 0 =>
            f[k - 1] \in Profiles /\ F[f[k - 1]] = FitStep(top, budget, f[k - 1])
    <2> SUFFICES ASSUME NEW k \in 0 .. last, k # 0
                 PROVE  f[k - 1] \in Profiles /\ F[f[k - 1]] = FitStep(top, budget, f[k - 1])
      OBVIOUS
    <2>1. k - 1 \in 0 .. last
      BY <1>3
    <2>2. f[k - 1] \in Profiles
      BY <1>6, <2>1
    <2> QED BY <2>2 DEF F
  <1>8. f = [n \in 0 .. last |-> IF n = 0 THEN top ELSE FitStep(top, budget, f[n - 1])]
    BY <1>6, <1>7
  <1>9. Steps(step)
    <2>1. Steps(f)
      BY <1>2, <1>8
    <2> QED BY <2>1
  <1> HIDE DEF step
  <1>10. step = [n \in 0 .. last |-> IF n = 0 THEN top ELSE FitStep(top, budget, step[n - 1])]
    BY <1>2, <1>9
  <1>11. step[0] = top
    BY <1>3, <1>10
  <1>12. \A k \in 1 .. last : step[k] = FitStep(top, budget, step[k - 1])
    BY <1>3, <1>10
  <1>13. \A k \in 1 .. last : step[k - 1] \in Profiles => step[k] \in Profiles
    BY <1>12, FitStepIsProfile
  <1>14. \A k \in 0 .. last : step[k] \in Profiles
    BY <1>3, <1>11, <1>13, StaysFromNumberToNumber
  <1> QED BY <1>1, <1>3, <1>11, <1>12, <1>14

LEMMA FitIsProfile ==
    ASSUME NEW top \in Profiles, NEW budget \in Nat
    PROVE  Fit(top, budget) \in Profiles
  <1>1. 9 \in 0 .. 9
    OBVIOUS
  <1> QED BY <1>1, FitInSteps

LEMMA StepDownBelow ==
    ASSUME NEW n \in Nat, NEW steps, steps \subseteq 0 .. n, NEW value, NEW least \in 0 .. n
    PROVE  StepBelow(steps, value, least) \in {s \in steps : s < value} \cup {least}
  <1> DEFINE S == {s \in steps : s < value} \cup {least}
  <1>1. S \subseteq 0 .. n /\ S # {}
    OBVIOUS
  <1> HIDE DEF S
  <1>2. Max(S) \in S
    BY <1>1, GreatestMember
  <1> QED BY <1>2 DEF StepBelow, S

\* Each step of the ladder leads to the next one, or below it.
LEMMA HeightsSink ==
    ASSUME NEW h \in Nat
    PROVE  /\ LowerHeight(h) <= 2160
           /\ h <= 2160 => LowerHeight(h) <= 1440
           /\ h <= 1440 => LowerHeight(h) <= 1080
           /\ h <= 1080 => LowerHeight(h) <= 720
           /\ h <= 720 => LowerHeight(h) <= 480
           /\ h <= 480 => LowerHeight(h) <= 360
           /\ h <= 360 => LowerHeight(h) <= 240
           /\ h <= 240 => LowerHeight(h) <= 144
  <1> DEFINE steps == {240, 360, 480, 720, 1080, 1440, 2160}
             least == 144
             most  == 2160
             x     == LowerHeight(h)
  <1>1. steps \subseteq 0 .. most
    BY SMT
  <1>2. x = StepBelow(steps, h, least)
    BY DEF LowerHeight
  <1>3. least \in 0 .. most /\ most \in Nat
    OBVIOUS
  <1> HIDE DEF steps, least, most, x
  <1>4. x \in {s \in steps : s < h} \cup {least}
    BY <1>1, <1>2, <1>3, StepDownBelow
  <1>5. CASE x = 144
    BY <1>5, SMT DEF x
  <1>6. CASE x \in steps /\ x < h
    BY <1>6, SMT DEF steps, x
  <1> QED BY <1>4, <1>5, <1>6 DEF least

LEMMA FpsSink ==
    ASSUME NEW f \in Nat
    PROVE  /\ LowerFps(f) <= 60
           /\ f <= 60 => LowerFps(f) <= 30
           /\ f <= 30 => LowerFps(f) <= 24
           /\ f <= 24 => LowerFps(f) <= 15
           /\ f <= 15 => LowerFps(f) <= 10
           /\ f <= 10 => LowerFps(f) <= 5
  <1> DEFINE steps == {10, 15, 24, 30, 60}
             least == 5
             most  == 60
             x     == LowerFps(f)
  <1>1. steps \subseteq 0 .. most
    BY SMT
  <1>2. x = StepBelow(steps, f, least)
    BY DEF LowerFps
  <1>3. least \in 0 .. most /\ most \in Nat
    OBVIOUS
  <1> HIDE DEF steps, least, most, x
  <1>4. x \in {s \in steps : s < f} \cup {least}
    BY <1>1, <1>2, <1>3, StepDownBelow
  <1>5. CASE x = 5
    BY <1>5, SMT DEF x
  <1>6. CASE x \in steps /\ x < f
    BY <1>6, SMT DEF steps, x
  <1> QED BY <1>4, <1>5, <1>6 DEF least

LEMMA LoweredFields ==
    ASSUME NEW top \in Profiles, NEW p \in Profiles
    PROVE  Lowered(top, p).height = LowerHeight(p.height) /\ Lowered(top, p).fps = LowerFps(p.fps)
  BY ProfileFields DEF Lowered

\* A step ends within the budget or goes down in lines and pictures.
LEMMA FitStepSinks ==
    ASSUME NEW top \in Profiles, NEW budget \in Nat, budget >= 25, NEW p \in Profiles
    PROVE  LET q == FitStep(top, budget, p)
           IN \/ q.bitrate <= budget
              \/ /\ p.bitrate > budget
                 /\ q.height = LowerHeight(p.height) /\ q.fps = LowerFps(p.fps)
                 /\ ~(q.height = p.height /\ q.fps = p.fps)
  <1> DEFINE r == Min({Max({budget, FloorRate}), p.bitrate})
             l == Lowered(top, p)
  <1>1. r \in Nat /\ r <= budget
    BY ClampedRate
  <1>2. FitStep(top, budget, p) =
            IF p.bitrate <= budget THEN p
            ELSE IF l.height = p.height /\ l.fps = p.fps THEN [p EXCEPT !.bitrate = r] ELSE l
    BY DEF FitStep
  <1>3. l.height = LowerHeight(p.height) /\ l.fps = LowerFps(p.fps)
    BY LoweredFields
  <1> HIDE DEF r, l
  <1>4. [p EXCEPT !.bitrate = r].bitrate = r
    BY ProfileFields
  <1>5. p.bitrate \in Nat
    BY ProfileFields
  <1>6. CASE p.bitrate <= budget
    BY <1>2, <1>6
  <1>7. CASE p.bitrate > budget /\ l.height = p.height /\ l.fps = p.fps
    BY <1>1, <1>2, <1>4, <1>5, <1>7
  <1>8. CASE p.bitrate > budget /\ ~(l.height = p.height /\ l.fps = p.fps)
    BY <1>2, <1>3, <1>5, <1>8
  <1> QED BY <1>5, <1>6, <1>7, <1>8

\* Within the budget, or that far down the ladder.
Sunk(p, budget, h, f) == p.bitrate <= budget \/ (p.height <= h /\ p.fps <= f)

LEMMA SinksFurther ==
    ASSUME NEW top \in Profiles, NEW budget \in Nat, budget >= 25, NEW p \in Profiles,
           NEW h, NEW f, Sunk(p, budget, h, f), NEW k, NEW e,
           p.height <= h => LowerHeight(p.height) <= k,
           p.fps <= f => LowerFps(p.fps) <= e
    PROVE  Sunk(FitStep(top, budget, p), budget, k, e)
  <1> DEFINE q == FitStep(top, budget, p)
  <1>1. \/ q.bitrate <= budget
        \/ p.bitrate > budget /\ q.height = LowerHeight(p.height) /\ q.fps = LowerFps(p.fps)
    BY FitStepSinks
  <1>2. p.bitrate \in Nat
    BY ProfileFields
  <1> HIDE DEF q
  <1>3. Sunk(q, budget, k, e)
    BY <1>1, <1>2 DEF Sunk
  <1> QED BY <1>3 DEF q

\* server.rs: fit_profile_to_delivery_budget. The profile made for a viewer after its probe is never
\* above its budget, from whatever profile the ladder starts: eight steps are enough, at any size, to
\* come to its end, where the bit rate is clamped.
THEOREM FitKeepsBudget ==
    ASSUME NEW top \in Profiles, NEW budget \in Nat, budget >= FloorRate
    PROVE  Fit(top, budget).bitrate <= budget
  <1>1. budget >= 25
    BY DEF FloorRate
  <1>2. PICK f : /\ f[0] = top /\ Fit(top, budget) = f[9]
                 /\ \A k \in 0 .. 9 : f[k] \in Profiles
                 /\ \A k \in 1 .. 9 : f[k] = FitStep(top, budget, f[k - 1])
    BY FitInSteps
  <1>3. /\ f[0] \in Profiles /\ f[1] \in Profiles /\ f[2] \in Profiles /\ f[3] \in Profiles
        /\ f[4] \in Profiles /\ f[5] \in Profiles /\ f[6] \in Profiles /\ f[7] \in Profiles
        /\ f[8] \in Profiles
    BY <1>2
  <1>4. /\ f[1] = FitStep(top, budget, f[0]) /\ f[2] = FitStep(top, budget, f[1])
        /\ f[3] = FitStep(top, budget, f[2]) /\ f[4] = FitStep(top, budget, f[3])
        /\ f[5] = FitStep(top, budget, f[4]) /\ f[6] = FitStep(top, budget, f[5])
        /\ f[7] = FitStep(top, budget, f[6]) /\ f[8] = FitStep(top, budget, f[7])
        /\ f[9] = FitStep(top, budget, f[8])
    BY <1>2
  <1>5. \A p \in Profiles : p.height \in Nat /\ p.fps \in Nat
    BY ProfileFields
  <1>6. Sunk(f[0], budget, f[0].height, f[0].fps)
    BY <1>3, <1>5 DEF Sunk
  <1>7. Sunk(f[1], budget, 2160, 60)
    BY <1>1, <1>3, <1>4, <1>5, <1>6, HeightsSink, FpsSink, SinksFurther
  <1>8. Sunk(f[2], budget, 1440, 30)
    BY <1>1, <1>3, <1>4, <1>5, <1>7, HeightsSink, FpsSink, SinksFurther
  <1>9. Sunk(f[3], budget, 1080, 24)
    BY <1>1, <1>3, <1>4, <1>5, <1>8, HeightsSink, FpsSink, SinksFurther
  <1>10. Sunk(f[4], budget, 720, 15)
    BY <1>1, <1>3, <1>4, <1>5, <1>9, HeightsSink, FpsSink, SinksFurther
  <1>11. Sunk(f[5], budget, 480, 10)
    BY <1>1, <1>3, <1>4, <1>5, <1>10, HeightsSink, FpsSink, SinksFurther
  <1>12. Sunk(f[6], budget, 360, 5)
    BY <1>1, <1>3, <1>4, <1>5, <1>11, HeightsSink, FpsSink, SinksFurther
  <1>13. \A p \in Profiles : p.fps <= 5 => LowerFps(p.fps) <= 5
    BY <1>5, FpsSink
  <1>14. Sunk(f[7], budget, 240, 5)
    BY <1>1, <1>3, <1>4, <1>5, <1>12, <1>13, HeightsSink, SinksFurther
  <1>15. Sunk(f[8], budget, 144, 5)
    BY <1>1, <1>3, <1>4, <1>5, <1>13, <1>14, HeightsSink, SinksFurther
  <1>16. f[9].bitrate <= budget
    <2> DEFINE p == f[8]
               q == FitStep(top, budget, p)
    <2>1. \/ q.bitrate <= budget
          \/ /\ p.bitrate > budget /\ q.height = LowerHeight(p.height) /\ q.fps = LowerFps(p.fps)
             /\ ~(q.height = p.height /\ q.fps = p.fps)
      BY <1>1, <1>3, FitStepSinks
    <2>2. p.bitrate \in Nat /\ p.height \in Nat /\ p.height >= 144 /\ p.fps \in Nat /\ p.fps >= 5
      BY <1>3, ProfileFields
    <2>3. f[9] = q /\ Sunk(p, budget, 144, 5)
      BY <1>4, <1>15
    <2> HIDE DEF p, q
    <2>4. p.height = 144 /\ p.fps = 5 => LowerHeight(p.height) = 144 /\ LowerFps(p.fps) = 5
      <3>1. LowerHeight(144) \in Nat /\ LowerHeight(144) >= 144 /\ LowerHeight(144) <= 144
        BY HeightStepsDown
      <3>2. LowerFps(5) \in FpsSteps /\ LowerFps(5) <= 5
        BY FpsStepsDown
      <3> QED BY <3>1, <3>2, SMT DEF FpsSteps
    <2>5. CASE q.bitrate <= budget
      BY <2>3, <2>5
    <2>6. CASE p.bitrate > budget /\ q.height = LowerHeight(p.height) /\ q.fps = LowerFps(p.fps)
               /\ ~(q.height = p.height /\ q.fps = p.fps)
      <3>1. p.height <= 144 /\ p.fps <= 5
        BY <2>2, <2>3, <2>6 DEF Sunk
      <3>2. p.height = 144 /\ p.fps = 5
        BY <2>2, <3>1
      <3> QED BY <2>4, <2>6, <3>2
    <2> QED BY <2>1, <2>5, <2>6
  <1> QED BY <1>2, <1>16

(***************************************************************************)
(* Where profiles, codecs and encoders come from.                          *)
(***************************************************************************)
\* The settings a host may apply are no smaller than the last step of the ladder.
HostRange == Settings \subseteq Wishes /\ \A probe \in Probes : probe.rate \in Nat

\* The parts of TypeOK that an action disturbs or leaves alone together.
HostOK ==
    /\ applied \in Wishes /\ updating \in Updates \cup {None} /\ capacity \in 1 .. Slots
    /\ window \in [Clients -> Windows \cup {None}]
SlotsOK ==
    /\ profile \in [Groups -> Profiles] /\ ceiling \in [Groups -> Profiles]
    /\ requested \in [Groups -> Codecs] /\ codec \in [Groups -> Codecs]
    /\ encoder \in [Groups -> Encoders \cup {None}] /\ draining \subseteq running
AtOK   == at \in [Clients -> Groups]
TaskOK == task \in [Handlers -> Tasks \cup {None}]

LEMMA TypeParts ==
    /\ TypeOK <=> HostOK /\ SlotsOK /\ AtOK /\ TaskOK
    /\ TypeOK' <=> HostOK' /\ SlotsOK' /\ AtOK' /\ TaskOK'
  BY DEF TypeOK, HostOK, SlotsOK, AtOK, TaskOK

LEMMA HostUnchanged == HostOK /\ UNCHANGED <<applied, updating, capacity, window>> => HostOK'
  BY DEF HostOK

LEMMA SlotsUnchanged == SlotsOK /\ UNCHANGED slots => SlotsOK'
  BY DEF SlotsOK, slots, running

LEMMA EncodersUnchanged == UNCHANGED encoder => running' = running
  BY DEF running

LEMMA DrainingKeepsTypes ==
    ASSUME SlotsOK, UNCHANGED <<profile, ceiling, requested, codec>>,
           encoder' \in [Groups -> Encoders \cup {None}], draining' \subseteq running'
    PROVE  SlotsOK'
  BY DEF SlotsOK

LEMMA AtUnchanged == AtOK /\ UNCHANGED at => AtOK'
  BY DEF AtOK

LEMMA TaskUnchanged == TaskOK /\ UNCHANGED task => TaskOK'
  BY DEF TaskOK

\* What is not an encoder is None.
LEMMA EncoderIsSomething == \A e \in Encoders : e # None
  BY QualityAssumption

LEMMA StartableHasLevel ==
    ASSUME NEW c \in Codecs, NEW p, Startable(c, p)
    PROVE  NewEncoder(c, p) \in Encoders
  <1>1. Required(c, p) \in Nat
    BY RequiredIsLevel DEF Startable
  <1> QED BY <1>1 DEF NewEncoder, Encoders

\* choose_codec: one of the candidates, or the policy.
LEMMA ChosenIsCodec == ASSUME NEW told, NEW refused PROVE ChooseCodec(told, refused) \in Codecs
  <1> DEFINE candidates == IF Policy = "auto" THEN <<"h265", "h264", "vp8", "vp9">> ELSE <<Policy>>
             usable == {n \in DOMAIN candidates :
                           /\ candidates[n] \in (HostCodecs \cup {"vp8", InitialCodec}) \ refused
                           /\ candidates[n] \in told \/ (told = {} /\ candidates[n] = "h264")}
  <1>1. candidates \in Seq(Codecs)
    <2>1. <<"h265", "h264", "vp8", "vp9">> \in Seq(Codecs)
      BY DEF Codecs
    <2>2. <<Policy>> \in Seq(Codecs)
      BY QualityAssumption
    <2> QED BY <2>1, <2>2
  <1> HIDE DEF candidates
  <1>2. DOMAIN candidates \subseteq Nat /\ \A n \in DOMAIN candidates : candidates[n] \in Codecs
    BY <1>1
  <1>3. usable # {} => Min(usable) \in DOMAIN candidates
    BY <1>2, LeastMember
  <1>4. ChooseCodec(told, refused) = IF usable = {} THEN Policy ELSE candidates[Min(usable)]
    BY DEF ChooseCodec, candidates
  <1> HIDE DEF usable
  <1> QED BY <1>2, <1>3, <1>4, QualityAssumption

LEMMA CodecOfIsCodec ==
    ASSUME SlotsOK, NEW g \in Groups
    PROVE  CodecOf(g) \in Codecs
  <1>1. g \in running => encoder[g] \in Encoders
    BY DEF SlotsOK, running
  <1> QED BY <1>1 DEF SlotsOK, CodecOf, Encoders

LEMMA VisibleGroups ==
    Visible \subseteq Groups /\ Vacant \subseteq Groups /\ running \subseteq Groups /\ Primary \in Groups
  <1>1. Visible \subseteq Groups /\ Vacant \subseteq Groups /\ running \subseteq Groups
    BY DEF Visible, Vacant, running
  <1>2. Visible # {} => Min(Visible) \in Visible
    BY <1>1, SlotsAreNumbered, LeastMember
  <1> QED BY <1>1, <1>2, SlotsAreNumbered DEF Primary

\* The least and the greatest of some groups are groups.
LEMMA EndsOfGroups ==
    ASSUME NEW S \in SUBSET Groups, S # {}
    PROVE  Min(S) \in S /\ Max(S) \in S /\ Min(S) \in Groups /\ Max(S) \in Groups
  <1>1. Slots - 1 \in Nat /\ S \subseteq 0 .. Slots - 1 /\ S \subseteq Nat
    BY SlotsAreNumbered DEF Groups
  <1> QED BY <1>1, LeastMember, GreatestMember

LEMMA TypeStart == HostRange /\ Init => TypeOK
  <1> SUFFICES ASSUME HostRange, Init PROVE TypeOK
    OBVIOUS
  <1>1. applied \in Wishes /\ updating = None /\ capacity = Budget(applied)
    BY DEF Init, HostRange
  <1>2. HostOK
    BY <1>1, BudgetInSlots DEF HostOK, Init
  <1>3. profile \in [Groups -> Profiles] /\ ceiling \in [Groups -> Profiles]
    BY <1>1, RungsAreProfiles DEF Init
  <1>4. codec \in [Groups -> Codecs] /\ requested \in [Groups -> Codecs] /\ codec[0] \in Codecs
    BY QualityAssumption, SlotsAreNumbered DEF Init, InitialCodec, Codecs
  <1>5. NewEncoder(codec[0], profile[0]) \in Encoders
    BY <1>4, StartableHasLevel DEF Init
  <1>6. encoder = [g \in Groups |-> IF g = 0 THEN NewEncoder(codec[0], profile[0]) ELSE None]
    BY DEF Init
  <1>7. encoder \in [Groups -> Encoders \cup {None}] /\ draining = {}
    BY <1>5, <1>6 DEF Init
  <1>8. SlotsOK
    BY <1>3, <1>4, <1>7 DEF SlotsOK
  <1>9. AtOK /\ TaskOK
    BY SlotsAreNumbered DEF Init, AtOK, TaskOK
  <1> QED BY <1>2, <1>8, <1>9, TypeParts

(***************************************************************************)
(* The locals of a handler.                                                *)
(***************************************************************************)
Kinds == {"bootstrap", "failure", "offer", "observe"}
Steps == {"select", "test", "write", "shape", "activate", "starting", "assign"}

LEMMA TaskFields ==
    ASSUME NEW t \in Tasks
    PROVE  /\ t.client \in Clients /\ t.preferred \in Groups /\ t.group \in Groups
           /\ t.instead \in Groups \cup {None} /\ t.codec \in Codecs /\ t.kind \in Kinds
           /\ t.top \in Profiles /\ t.fit \in Profiles /\ t.new \in Encoders \cup {None}
  BY DEF Tasks, Kinds

LEMMA TaskMoves ==
    ASSUME NEW t \in Tasks, NEW step \in Steps, NEW g \in Groups, NEW i \in Groups \cup {None},
           NEW e \in Encoders \cup {None}
    PROVE  /\ [t EXCEPT !.step = step, !.group = g, !.new = e] \in Tasks
           /\ [t EXCEPT !.step = step, !.group = g, !.instead = i] \in Tasks
           /\ [t EXCEPT !.step = step, !.new = e] \in Tasks
  BY DEF Tasks, Steps

LEMMA GoesOn ==
    ASSUME TaskOK, NEW h \in Handlers, task[h] # None, NEW step \in Steps, NEW g \in Groups,
           Goes(h, step, g) \/ Ends(h)
    PROVE  TaskOK'
  <1>1. task[h] \in Tasks
    BY DEF TaskOK
  <1>2. [task[h] EXCEPT !.step = step, !.group = g, !.new = None] \in Tasks
    BY <1>1, TaskMoves
  <1>3. \/ task' = [task EXCEPT ![h] = [task[h] EXCEPT !.step = step, !.group = g, !.new = None]]
        \/ task' = [task EXCEPT ![h] = None]
    BY DEF Goes, Ends
  <1> QED BY <1>2, <1>3 DEF TaskOK

LEMMA ReturnsOn ==
    ASSUME TaskOK, NEW h \in Handlers, task[h] # None, NEW step \in Steps, Returns(h, step)
    PROVE  TaskOK'
  BY GoesOn, VisibleGroups DEF Returns

LEMMA ChosenIsStep == \A h : Chosen(h) \in Steps
  BY DEF Chosen, Steps

LEMMA AssignsGroup ==
    ASSUME AtOK, NEW c, NEW g \in Groups, Assign(c, g)
    PROVE  AtOK'
  BY DEF AtOK, Assign

LEMMA MovesToGroup ==
    ASSUME AtOK, NEW c, NEW k, NEW w, NEW degraded, Moves(c, k, w, degraded)
    PROVE  AtOK'
  <1> DEFINE lower  == Below(c, Peers(k))
             higher == Above(c, Peers(k))
  <1>1. lower \in SUBSET Groups /\ higher \in SUBSET Groups
    BY VisibleGroups DEF Below, Above, Peers
  <1>2. \/ lower # {} /\ Assign(c, Min(lower))
        \/ higher # {} /\ Assign(c, Max(higher))
        \/ UNCHANGED at
    BY DEF Moves
  <1> HIDE DEF lower, higher
  <1> QED BY <1>1, <1>2, EndsOfGroups, AssignsGroup, AtUnchanged

LEMMA GivesUpOn ==
    ASSUME TaskOK, AtOK, NEW h \in Handlers, task[h] # None, NEW step \in Steps, GivesUp(h, step)
    PROVE  TaskOK' /\ AtOK'
  BY ReturnsOn, MovesToGroup, AtUnchanged DEF GivesUp

LEMMA LocalsAreTyped ==
    ASSUME SlotsOK, NEW c \in Clients, NEW kind \in Kinds, NEW step \in Steps, NEW g \in Groups
    PROVE  LET locals == Locals(c, kind, step, g)
           IN /\ locals \in Tasks
              /\ \A k \in Codecs : [locals EXCEPT !.codec = k] \in Tasks
              /\ \A k \in Codecs, p \in Profiles : [locals EXCEPT !.codec = k, !.fit = p] \in Tasks
              /\ \A k \in Codecs, w \in Windows \cup {None} :
                    [locals EXCEPT !.codec = k, !.seen = w] \in Tasks
  <1>1. profile[g] \in Profiles /\ CodecOf(g) \in Codecs
    BY CodecOfIsCodec DEF SlotsOK
  <1>2. Locals(c, kind, step, g) \in Tasks
    BY <1>1 DEF Locals, Tasks, Kinds, Steps
  <1> QED BY <1>2 DEF Tasks

LEMMA BeginsTyped ==
    ASSUME TaskOK, NEW h \in Handlers, NEW locals \in Tasks, Begins(h, locals)
    PROVE  TaskOK'
  BY DEF TaskOK, Begins

(***************************************************************************)
(* Every action keeps the types.                                           *)
(***************************************************************************)
LEMMA TuneKeepsTypes == ASSUME TypeOK, Tune PROVE TypeOK'
  <1> SUFFICES ASSUME NEW g \in Groups, TuneDown(g) \/ TuneUp(g) PROVE TypeOK'
    BY DEF Tune
  <1>0. HostOK /\ SlotsOK /\ AtOK /\ TaskOK
    BY TypeParts
  <1>1. profile[g] \in Profiles /\ ceiling[g] \in Profiles
    BY <1>0 DEF SlotsOK
  <1>2. LoweredTune(profile[g]) \in Profiles /\ RaisedTune(profile[g], ceiling[g]) \in Profiles
    BY <1>1, LoweredTuneShrinks, RaisedTuneIsProfile
  <1>3. /\ \/ profile' = [profile EXCEPT ![g] = LoweredTune(profile[g])]
           \/ profile' = [profile EXCEPT ![g] = RaisedTune(profile[g], ceiling[g])]
        /\ UNCHANGED <<applied, updating, capacity, window, ceiling, requested, codec, encoder, draining,
                       at, task>>
    BY DEF TuneDown, TuneUp, TuneRest, viewers
  <1>4. profile' \in [Groups -> Profiles]
    BY <1>0, <1>2, <1>3 DEF SlotsOK
  <1>5. running' = running
    BY <1>3, EncodersUnchanged
  <1>6. SlotsOK'
    BY <1>0, <1>3, <1>4, <1>5 DEF SlotsOK
  <1> QED BY <1>0, <1>3, <1>6, TypeParts, HostUnchanged, AtUnchanged, TaskUnchanged

LEMMA MaintainKeepsTypes == ASSUME TypeOK, Maintain PROVE TypeOK'
  <1> SUFFICES ASSUME NEW g \in Groups, Merge(g) \/ Drain(g) \/ Revive(g) PROVE TypeOK'
    BY DEF Maintain
  <1>0. HostOK /\ SlotsOK /\ AtOK /\ TaskOK
    BY TypeParts
  <1>1. HostOK' /\ TaskOK' /\ UNCHANGED <<profile, ceiling, requested, codec>>
    BY <1>0, HostUnchanged, TaskUnchanged DEF Merge, Drain, Revive, maintainRest
  <1>2. CASE Merge(g)
    <2> DEFINE similar == {k \in Visible \ {g} :
                              CodecOf(k) = CodecOf(g) /\ Similar(profile[g], profile[k])}
               size(k) == Cardinality(Members(k))
               largest == {k \in similar : \A i \in similar : size(k) >= size(i)}
    <2>1. similar \in SUBSET Groups /\ largest \in SUBSET Groups
      BY VisibleGroups
    <2>2. /\ similar # {} /\ size(Max(largest)) >= size(g) /\ g \in Visible
          /\ at' = [c \in Clients |-> IF at[c] = g THEN Max(largest) ELSE at[c]]
          /\ draining' = draining \cup {g} /\ encoder' = encoder
      BY <1>2 DEF Merge
    <2>3. largest # {}
      <3> DEFINE n == Cardinality(Clients)
                 sizes == {size(k) : k \in similar}
      <3>1. n \in Nat /\ \A k : size(k) \in 0 .. n
        <4>1. \A k : Members(k) \subseteq Clients
          BY DEF Members
        <4> QED BY <4>1, QualityAssumption, FS_Subset, FS_CardinalityType
      <3> HIDE DEF n
      <3>2. sizes \subseteq 0 .. n /\ sizes # {}
        BY <2>2, <3>1
      <3>3. Max(sizes) \in sizes /\ \A x \in sizes : Max(sizes) >= x
        BY <3>1, <3>2, GreatestMember
      <3>4. PICK k \in similar : size(k) = Max(sizes)
        BY <3>3
      <3>5. \A i \in similar : size(k) >= size(i)
        BY <3>3, <3>4
      <3> QED BY <3>5
    <2> HIDE DEF largest
    <2>4. Max(largest) \in Groups
      BY <2>1, <2>3, EndsOfGroups
    <2>5. AtOK'
      BY <2>2, <2>4, <1>0 DEF AtOK
    <2>6. running' = running /\ g \in running
      BY <2>2, EncodersUnchanged DEF Visible
    <2>7. SlotsOK'
      BY <1>0, <1>1, <2>2, <2>6, DrainingKeepsTypes DEF SlotsOK
    <2> QED BY <1>1, <2>5, <2>7, TypeParts
  <1>3. CASE Drain(g)
    <2>1. /\ at' = at
          /\ \/ draining' = draining \cup {g} /\ encoder' = encoder /\ g \in running
             \/ draining' = draining \ {g} /\ encoder' = [encoder EXCEPT ![g] = None]
      BY <1>3 DEF Drain
    <2>2. encoder' \in [Groups -> Encoders \cup {None}] /\ draining \subseteq running
      BY <1>0, <2>1 DEF SlotsOK
    <2>3. draining' \subseteq running'
      BY <2>1, <2>2 DEF running
    <2>4. SlotsOK'
      BY <1>0, <1>1, <2>2, <2>3, DrainingKeepsTypes
    <2> QED BY <1>1, <2>1, <2>4, <1>0, TypeParts, AtUnchanged
  <1>4. CASE Revive(g)
    <2>1. at' = at /\ draining' = draining \ {g} /\ encoder' = encoder
      BY <1>4 DEF Revive
    <2>2. running' = running
      BY <2>1, EncodersUnchanged
    <2>3. SlotsOK'
      BY <1>0, <1>1, <2>1, <2>2, DrainingKeepsTypes DEF SlotsOK
    <2> QED BY <1>1, <2>1, <2>3, <1>0, TypeParts, AtUnchanged
  <1> QED BY <1>2, <1>3, <1>4

LEMMA ViewerKeepsTypes == ASSUME TypeOK, NEW c \in Clients, Viewer(c) PROVE TypeOK'
  <1>0. HostOK /\ SlotsOK /\ AtOK /\ TaskOK
    BY TypeParts
  <1>1. CASE Measure(c) \/ Settle(c)
    <2>1. /\ UNCHANGED <<applied, updating, capacity, slots, at, task>>
          /\ window' = window \/ \E w \in Windows \cup {None} : window' = [window EXCEPT ![c] = w]
      BY <1>1 DEF Measure, Settle, viewers
    <2>2. HostOK'
      BY <1>0, <2>1 DEF HostOK
    <2> QED BY <1>0, <2>1, <2>2, TypeParts, SlotsUnchanged, AtUnchanged, TaskUnchanged
  <1>2. CASE EnsureClient(c)
    <2>1. Assign(c, Primary) /\ UNCHANGED <<applied, updating, capacity, window, slots, task>>
      BY <1>2 DEF EnsureClient
    <2>2. AtOK'
      BY <1>0, <2>1, AssignsGroup, VisibleGroups
    <2> QED BY <1>0, <2>1, <2>2, TypeParts, HostUnchanged, SlotsUnchanged, TaskUnchanged
  <1>3. CASE ObserveMoves(c)
    <2>1. /\ Moves(c, CodecOf(at[c]), window[c], Degraded(c))
          /\ UNCHANGED <<applied, updating, capacity, window, slots, task>>
      BY <1>3 DEF ObserveMoves, observeRest, beginRest
    <2>2. AtOK'
      BY <1>0, <2>1, MovesToGroup
    <2> QED BY <1>0, <2>1, <2>2, TypeParts, HostUnchanged, SlotsUnchanged, TaskUnchanged
  <1> QED BY <1>1, <1>2, <1>3 DEF Viewer

\* What the probe of a viewer leaves of a group is a profile.
LEMMA BootstrapKeepsTypes ==
    ASSUME HostRange, TypeOK, NEW c \in Clients, NEW h \in Handlers, Bootstrap(c, h)
    PROVE  TypeOK'
  <1> DEFINE affordable(probe) ==
                 {g \in Groups : g < capacity /\ probe.rate * 100 >= profile[g].bitrate * 125}
             preferred(probe) == IF affordable(probe) = {} \/ probe.rate = 0 \/ probe.late
                                 THEN capacity - 1 ELSE Min(affordable(probe))
             budget(probe) == Max({(probe.rate * 65) \div 100, FloorRate})
             locals(probe) == [Locals(c, "bootstrap", "select", preferred(probe)) EXCEPT
                                   !.codec = ChooseCodec(Supported[c], rejected[c]),
                                   !.fit = Fit(profile[preferred(probe)], budget(probe))]
  <1>0. HostOK /\ SlotsOK /\ AtOK /\ TaskOK
    BY TypeParts
  <1>1. UNCHANGED <<applied, updating, capacity, window, slots, at>>
    BY DEF Bootstrap, beginRest, viewers
  <1>2. PICK probe \in Probes : Begins(h, locals(probe))
    BY Zenon DEF Bootstrap
  <1>3. preferred(probe) \in Groups
    <2>1. affordable(probe) \in SUBSET Groups
      OBVIOUS
    <2>2. capacity - 1 \in Groups
      BY <1>0, SlotsAreNumbered DEF HostOK, Groups
    <2> HIDE DEF affordable
    <2> QED BY <2>1, <2>2, EndsOfGroups
  <1>4. budget(probe) \in Nat
    <2> DEFINE part == (probe.rate * 65) \div 100
    <2>1. probe.rate * 65 \in Nat
      BY DEF HostRange
    <2>2. part \in Nat
      BY <2>1, DivisionIsNatural
    <2> HIDE DEF part
    <2>3. Max({part, FloorRate}) \in Nat
      BY <2>2, GreaterOf DEF FloorRate
    <2> QED BY <2>3 DEF part
  <1> HIDE DEF preferred, budget
  <1>5. profile[preferred(probe)] \in Profiles
    BY <1>0, <1>3 DEF SlotsOK
  <1>6. Fit(profile[preferred(probe)], budget(probe)) \in Profiles
    BY <1>4, <1>5, FitIsProfile
  <1>7. locals(probe) \in Tasks
    BY <1>0, <1>3, <1>6, ChosenIsCodec, LocalsAreTyped DEF Kinds, Steps
  <1> HIDE DEF locals
  <1>8. TaskOK'
    BY <1>0, <1>2, <1>7, BeginsTyped
  <1> QED BY <1>0, <1>1, <1>8, TypeParts, HostUnchanged, SlotsUnchanged, AtUnchanged

LEMMA BeginningKeepsTypes ==
    ASSUME TypeOK, NEW c \in Clients, NEW h \in Handlers,
           CodecFailure(c, h) \/ Offer(c, h) \/ ObserveStarts(c, h)
    PROVE  TypeOK'
  <1>0. HostOK /\ SlotsOK /\ AtOK /\ TaskOK /\ at[c] \in Groups
    BY TypeParts DEF AtOK
  <1>1. CASE CodecFailure(c, h)
    <2> DEFINE next == ChooseCodec(supported[c], rejected[c] \cup {CodecOf(at[c])})
               locals == [Locals(c, "failure", "select", at[c]) EXCEPT !.codec = next]
    <2>1. /\ UNCHANGED task \/ Begins(h, locals)
          /\ UNCHANGED <<applied, updating, capacity, window, slots, at>>
      BY <1>1 DEF CodecFailure, beginRest
    <2>2. locals \in Tasks
      BY <1>0, ChosenIsCodec, LocalsAreTyped DEF Kinds, Steps
    <2> HIDE DEF locals
    <2>3. TaskOK'
      BY <1>0, <2>1, <2>2, BeginsTyped, TaskUnchanged
    <2> QED BY <1>0, <2>1, <2>3, TypeParts, HostUnchanged, SlotsUnchanged, AtUnchanged
  <1>2. CASE Offer(c, h)
    <2> DEFINE g == IF at[c] \in Visible THEN at[c] ELSE Primary
               locals == Locals(c, "offer", "activate", g)
    <2>1. /\ UNCHANGED at \/ Assign(c, g)
          /\ Begins(h, locals)
          /\ UNCHANGED <<applied, updating, capacity, window, slots>>
      BY <1>2 DEF Offer, beginRest
    <2>2. g \in Groups
      BY <1>0, VisibleGroups
    <2> HIDE DEF g
    <2>3. locals \in Tasks
      BY <1>0, <2>2, LocalsAreTyped DEF Kinds, Steps
    <2> HIDE DEF locals
    <2>4. TaskOK' /\ AtOK'
      BY <1>0, <2>1, <2>2, <2>3, BeginsTyped, AssignsGroup, AtUnchanged
    <2> QED BY <1>0, <2>1, <2>4, TypeParts, HostUnchanged, SlotsUnchanged
  <1>3. CASE ObserveStarts(c, h)
    <2> DEFINE below == Below(c, Vacant)
               g == Min(below)
               locals == [Locals(c, "observe", "test", g) EXCEPT
                             !.codec = CodecOf(at[c]), !.seen = window[c]]
    <2>1. /\ below # {} /\ Begins(h, locals)
          /\ UNCHANGED <<applied, updating, capacity, window, slots, at>>
      BY <1>3 DEF ObserveStarts, observeRest, beginRest
    <2>2. below \in SUBSET Groups
      BY VisibleGroups DEF Below
    <2> HIDE DEF below
    <2>3. g \in Groups
      BY <2>1, <2>2, EndsOfGroups
    <2> HIDE DEF g
    <2>4. CodecOf(at[c]) \in Codecs /\ window[c] \in Windows \cup {None}
      BY <1>0, CodecOfIsCodec DEF HostOK
    <2>5. locals \in Tasks
      BY <1>0, <2>3, <2>4, LocalsAreTyped DEF Kinds, Steps
    <2> HIDE DEF locals
    <2>6. TaskOK'
      BY <1>0, <2>1, <2>5, BeginsTyped
    <2> QED BY <1>0, <2>1, <2>6, TypeParts, HostUnchanged, SlotsUnchanged, AtUnchanged
  <1> QED BY <1>1, <1>2, <1>3

\* Choosing and testing a group touches the locals only; giving up may move the viewer.
LEMMA ChoosingKeepsTypes ==
    ASSUME TypeOK, NEW h \in Handlers, Select(h) \/ Test(h)
    PROVE  TypeOK'
  <1>0. HostOK /\ SlotsOK /\ AtOK /\ TaskOK
    BY TypeParts
  <1>1. UNCHANGED <<applied, updating, capacity, window, slots>>
    BY DEF Select, Test, taskRest
  <1> DEFINE t == task[h]
  <1>2. t # None /\ t \in Tasks
    BY <1>0 DEF Select, Test, Doing, TaskOK
  <1>3. t.group \in Groups /\ t.preferred \in Groups /\ t.instead \in Groups \cup {None}
    BY <1>2, TaskFields
  <1>4. CASE Select(h)
    <2> DEFINE exact == {g \in running : Matches(g, t.codec, t.fit, t.top)}
                            \cap (Visible \cup {t.preferred})
               tests(g, instead) == task' = [task EXCEPT ![h] =
                                        [t EXCEPT !.step = "test", !.group = g, !.instead = instead]]
    <2>1. /\ UNCHANGED at
          /\ \/ tests(t.preferred, t.preferred)
             \/ Goes(h, Chosen(h), t.preferred)
             \/ exact # {} /\ Goes(h, Chosen(h), Min(exact))
             \/ Vacant # {} /\ tests(Min(Vacant), None)
             \/ Returns(h, Chosen(h))
      BY <1>4 DEF Select
    <2>2. exact \in SUBSET Groups /\ Vacant \in SUBSET Groups
      BY VisibleGroups
    <2> HIDE DEF exact
    <2>3. /\ exact # {} => Min(exact) \in Groups
          /\ Vacant # {} => Min(Vacant) \in Groups
      BY <2>2, EndsOfGroups
    <2>4. ASSUME NEW g \in Groups, NEW i \in Groups \cup {None}, tests(g, i)
          PROVE  TaskOK'
      <3>1. [t EXCEPT !.step = "test", !.group = g, !.instead = i] \in Tasks
        BY <1>2, TaskMoves DEF Steps
      <3> QED BY <1>0, <2>4, <3>1 DEF TaskOK
    <2> HIDE DEF tests
    <2>5. TaskOK'
      BY <1>0, <1>2, <1>3, <2>1, <2>3, <2>4, ChosenIsStep, GoesOn, ReturnsOn
    <2> QED BY <1>0, <1>1, <2>1, <2>5, TypeParts, HostUnchanged, SlotsUnchanged, AtUnchanged
  <1>5. CASE Test(h)
    <2>1. \/ UNCHANGED at /\ Goes(h, "write", t.group)
          \/ UNCHANGED at /\ t.instead # None /\ Goes(h, Chosen(h), t.instead)
          \/ GivesUp(h, Chosen(h))
      BY <1>5 DEF Test
    <2>2. "write" \in Steps /\ Chosen(h) \in Steps
      BY ChosenIsStep DEF Steps
    <2>3. TaskOK' /\ AtOK'
      BY <1>0, <1>2, <1>3, <2>1, <2>2, GoesOn, GivesUpOn, AtUnchanged
    <2> QED BY <1>0, <1>1, <2>3, TypeParts, HostUnchanged, SlotsUnchanged
  <1> QED BY <1>4, <1>5

\* What is written into a slot is what the probe, or the present group, offered.
LEMMA WritingKeepsTypes ==
    ASSUME TypeOK, NEW h \in Handlers, Write(h) \/ Shape(h)
    PROVE  TypeOK'
  <1>0. HostOK /\ SlotsOK /\ AtOK /\ TaskOK
    BY TypeParts
  <1>1. UNCHANGED <<applied, updating, capacity, window, encoder, draining, at>>
    BY DEF Write, Shape, taskRest
  <1> DEFINE t == task[h]
  <1>2. t # None /\ t \in Tasks
    BY <1>0 DEF Write, Shape, Doing, TaskOK
  <1>3. t.group \in Groups /\ t.codec \in Codecs /\ t.fit \in Profiles /\ t.top \in Profiles
    BY <1>2, TaskFields
  <1>4. \/ Goes(h, Chosen(h), t.group)
        \/ Goes(h, "activate", t.group)
    BY DEF Write, Shape
  <1>5. TaskOK'
    BY <1>0, <1>2, <1>3, <1>4, ChosenIsStep, GoesOn DEF Steps
  <1>6. running' = running
    BY <1>1, EncodersUnchanged
  <1>7. /\ profile' = profile \/ profile' = [profile EXCEPT ![t.group] = t.fit]
        /\ ceiling' = ceiling \/ ceiling' = [ceiling EXCEPT ![t.group] = t.top]
        /\ requested' = requested \/ requested' = [requested EXCEPT ![t.group] = t.codec]
        /\ codec' = codec \/ codec' = [codec EXCEPT ![t.group] = t.codec]
    BY DEF Write, Shape
  <1> HIDE DEF t
  <1>8. /\ profile' \in [Groups -> Profiles] /\ ceiling' \in [Groups -> Profiles]
        /\ requested' \in [Groups -> Codecs] /\ codec' \in [Groups -> Codecs]
    BY <1>0, <1>3, <1>7 DEF SlotsOK
  <1>9. SlotsOK'
    BY <1>0, <1>1, <1>6, <1>8 DEF SlotsOK
  <1> QED BY <1>0, <1>1, <1>5, <1>9, TypeParts, HostUnchanged, AtUnchanged

LEMMA ActivatingKeepsTypes ==
    ASSUME TypeOK, NEW h \in Handlers, Activate(h) \/ StartFails(h)
    PROVE  TypeOK'
  <1>0. HostOK /\ SlotsOK /\ AtOK /\ TaskOK
    BY TypeParts
  <1>1. UNCHANGED <<applied, updating, capacity, window, slots>>
    BY DEF Activate, StartFails, taskRest
  <1> DEFINE t == task[h]
             e == NewEncoder(requested[t.group], profile[t.group])
  <1>2. t # None /\ t \in Tasks
    BY <1>0 DEF Activate, StartFails, Starting, Doing, TaskOK
  <1>3. t.group \in Groups
    BY <1>2, TaskFields
  <1>4. "assign" \in Steps /\ "starting" \in Steps
    BY DEF Steps
  <1>5. CASE UNCHANGED at /\ (Ends(h) \/ Goes(h, "assign", t.group))
    <2>1. TaskOK'
      BY <1>0, <1>2, <1>3, <1>4, <1>5, GoesOn
    <2> QED BY <1>0, <1>1, <1>5, <2>1, TypeParts, HostUnchanged, SlotsUnchanged, AtUnchanged
  <1>6. CASE /\ UNCHANGED at /\ Startable(requested[t.group], profile[t.group])
             /\ task' = [task EXCEPT ![h] = [t EXCEPT !.step = "starting", !.new = e]]
    <2>1. requested[t.group] \in Codecs
      BY <1>0, <1>3 DEF SlotsOK
    <2>2. e \in Encoders
      BY <1>6, <2>1, StartableHasLevel
    <2> HIDE DEF e
    <2>3. [t EXCEPT !.step = "starting", !.new = e] \in Tasks
      BY <1>2, <1>3, <1>4, <2>2, TaskMoves
    <2>4. TaskOK'
      BY <1>0, <1>6, <2>3 DEF TaskOK
    <2> QED BY <1>0, <1>1, <1>6, <2>4, TypeParts, HostUnchanged, SlotsUnchanged, AtUnchanged
  <1>7. CASE GivesUp(h, "assign")
    <2>1. TaskOK' /\ AtOK'
      BY <1>0, <1>2, <1>4, <1>7, GivesUpOn
    <2> QED BY <1>0, <1>1, <2>1, TypeParts, HostUnchanged, SlotsUnchanged
  <1> QED BY <1>5, <1>6, <1>7 DEF Activate, StartFails

LEMMA AssigningKeepsTypes ==
    ASSUME TypeOK, NEW h \in Handlers, Assigns(h)
    PROVE  TypeOK'
  <1>0. HostOK /\ SlotsOK /\ AtOK /\ TaskOK
    BY TypeParts
  <1>1. /\ UNCHANGED <<applied, updating, capacity, window, slots>>
        /\ Assign(task[h].client, task[h].group) /\ Ends(h)
    BY DEF Assigns
  <1>2. task[h] \in Tasks
    BY <1>0 DEF Assigns, Doing, TaskOK
  <1>3. task[h].group \in Groups
    BY <1>2, TaskFields
  <1>4. AtOK' /\ TaskOK'
    BY <1>0, <1>1, <1>3, AssignsGroup DEF Ends, TaskOK
  <1> QED BY <1>0, <1>1, <1>4, TypeParts, HostUnchanged, SlotsUnchanged

\* lifecycle_lock: who starts an encoder is alone with it, and the group has none.
LocksOK ==
    /\ \A h \in Handlers :
          Starting(h) => task[h].new # None /\ task[h].group \notin running /\ ~Replacing
    /\ \A h, i \in Handlers : Starting(h) /\ Starting(i) => h = i

LEMMA DeliveryKeepsTypes ==
    ASSUME TypeOK, LocksOK, NEW h \in Handlers, Started(h)
    PROVE  TypeOK'
  <1>0. HostOK /\ SlotsOK /\ AtOK /\ TaskOK
    BY TypeParts
  <1> DEFINE t == task[h]
  <1>1. /\ UNCHANGED <<applied, updating, capacity, window, profile, ceiling, requested, at>>
        /\ encoder' = [encoder EXCEPT ![t.group] = t.new]
        /\ codec' = [codec EXCEPT ![t.group] = t.new.codec]
        /\ draining' = draining \ {t.group}
        /\ Ends(h) \/ Goes(h, "assign", t.group)
    BY DEF Started, taskRest
  <1>2. t # None /\ t \in Tasks /\ t.new # None
    BY <1>0 DEF Started, Starting, LocksOK, TaskOK
  <1>3. t.group \in Groups /\ t.new \in Encoders
    BY <1>2, TaskFields
  <1>4. TaskOK'
    BY <1>0, <1>1, <1>2, <1>3, GoesOn DEF Steps
  <1> HIDE DEF t
  <1>5. encoder' \in [Groups -> Encoders \cup {None}] /\ codec' \in [Groups -> Codecs]
    BY <1>0, <1>1, <1>3 DEF SlotsOK, Encoders
  <1>6. draining' \subseteq running'
    BY <1>0, <1>1, <1>3 DEF SlotsOK, running
  <1>7. SlotsOK'
    BY <1>0, <1>1, <1>5, <1>6 DEF SlotsOK
  <1> QED BY <1>0, <1>1, <1>4, <1>7, TypeParts, HostUnchanged, AtUnchanged

LEMMA HandlerKeepsTypes ==
    ASSUME HostRange, TypeOK, LocksOK, NEW h \in Handlers, Handler(h)
    PROVE  TypeOK'
  <1>1. CASE Step(h)
    BY <1>1, ChoosingKeepsTypes, WritingKeepsTypes, ActivatingKeepsTypes, DeliveryKeepsTypes,
       AssigningKeepsTypes DEF Step
  <1>2. ASSUME NEW c \in Clients,
               Bootstrap(c, h) \/ CodecFailure(c, h) \/ Offer(c, h) \/ ObserveStarts(c, h)
        PROVE  TypeOK'
    BY <1>2, BootstrapKeepsTypes, BeginningKeepsTypes
  <1> QED BY <1>1, <1>2 DEF Handler

(***************************************************************************)
(* The host.                                                               *)
(***************************************************************************)
LEMMA ReconfigureKeepsTypes ==
    ASSUME TypeOK, NEW s \in Wishes, NEW new \in [Groups -> Encoders \cup {None}],
           Reconfigure(s, new)
    PROVE  SlotsOK' /\ AtOK' /\ TaskOK' /\ capacity' \in 1 .. Slots /\ window' = window
  <1>0. HostOK /\ SlotsOK /\ AtOK /\ TaskOK
    BY TypeParts
  <1> DEFINE gone     == IF Budget(s) < capacity THEN {g \in Groups : g >= Budget(s)} ELSE {}
             staying  == {g \in running \ draining : g < Budget(s)}
             fallback == IF staying = {} THEN 0 ELSE Min(staying)
  <1>1. /\ capacity' = Budget(s) /\ profile' = Rungs(s) /\ ceiling' = Rungs(s)
        /\ encoder' = [g \in Groups |-> IF g \in gone THEN None
                                        ELSE IF new[g] # None THEN new[g] ELSE encoder[g]]
        /\ codec' = [g \in Groups |-> IF new[g] # None THEN new[g].codec ELSE codec[g]]
        /\ draining' = draining \ gone
        /\ at' = [c \in Clients |-> IF at[c] \in gone THEN fallback ELSE at[c]]
        /\ UNCHANGED <<requested, window, task>>
    BY DEF Reconfigure
  <1>2. capacity' \in 1 .. Slots
    BY <1>1, BudgetInSlots
  <1>3. profile' \in [Groups -> Profiles] /\ ceiling' \in [Groups -> Profiles]
    BY <1>1, RungsAreProfiles
  <1>4. staying \in SUBSET Groups
    BY VisibleGroups
  <1> HIDE DEF gone, staying
  <1>5. fallback \in Groups
    BY <1>4, EndsOfGroups, SlotsAreNumbered
  <1> HIDE DEF fallback
  <1>6. AtOK'
    BY <1>0, <1>1, <1>5 DEF AtOK
  <1>7. encoder' \in [Groups -> Encoders \cup {None}] /\ codec' \in [Groups -> Codecs]
    BY <1>0, <1>1 DEF SlotsOK, Encoders
  <1>8. draining' \subseteq running'
    BY <1>0, <1>1 DEF SlotsOK, running
  <1>9. SlotsOK'
    BY <1>0, <1>1, <1>3, <1>7, <1>8 DEF SlotsOK
  <1> QED BY <1>0, <1>1, <1>2, <1>6, <1>9, TaskUnchanged

LEMMA NoneNewTyped == NoneNew \in [Groups -> Encoders \cup {None}]
  BY DEF NoneNew

LEMMA RenewalTyped ==
    ASSUME NEW s \in Wishes, NEW restart \in BOOLEAN, NEW undo \in Wishes \cup {None}
    PROVE  Renewal(s, restart, undo) \in Updates
  BY RungsAreProfiles DEF Renewal, Updates

LEMMA UpdateFields ==
    ASSUME NEW u \in Updates
    PROVE  /\ u.to \in Wishes /\ u.rungs \in [Groups -> Profiles] /\ u.restart \in BOOLEAN
           /\ u.undo \in Wishes \cup {None} /\ u.new \in [Groups -> Encoders \cup {None}] \cup {None}
           /\ \A new \in [Groups -> Encoders \cup {None}] : [u EXCEPT !.new = new] \in Updates
  BY DEF Updates

LEMMA UndoKeepsTypes ==
    ASSUME TypeOK, updating # None, Undo
    PROVE  TypeOK'
  <1>0. HostOK /\ SlotsOK /\ AtOK /\ TaskOK
    BY TypeParts
  <1> DEFINE u == updating
  <1>1. u \in Updates
    BY <1>0 DEF HostOK
  <1>2. u.undo \in Wishes \cup {None}
    BY <1>1, UpdateFields
  <1>3. /\ applied' = applied \/ (u.undo # None /\ applied' = u.undo)
        /\ updating' = None \/ (u.undo # None /\ updating' = Renewal(u.undo, TRUE, None))
        /\ UNCHANGED <<capacity, window, slots, at, task>>
    BY DEF Undo, hostRest, viewers
  <1> HIDE DEF u
  <1>4. HostOK'
    BY <1>0, <1>2, <1>3, RenewalTyped DEF HostOK
  <1> QED BY <1>0, <1>3, <1>4, TypeParts, SlotsUnchanged, AtUnchanged, TaskUnchanged

LEMMA UpdateKeepsTypes ==
    ASSUME HostRange, TypeOK,
           (\E s \in Settings : UpdateBegins(s)) \/ UpdateStarts \/ UpdateFinishes \/ UpdateFails
    PROVE  TypeOK'
  <1>0. HostOK /\ SlotsOK /\ AtOK /\ TaskOK
    BY TypeParts
  <1> DEFINE u == updating
  <1>1. u # None => u \in Updates
    BY <1>0 DEF HostOK
  <1>2. ASSUME NEW s \in Settings, UpdateBegins(s) PROVE TypeOK'
    <2>1. /\ \/ applied' = s /\ \E restart \in BOOLEAN : updating' = Renewal(s, restart, applied)
             \/ applied' = applied /\ updating' = Renewal(applied, TRUE, None)
          /\ UNCHANGED <<capacity, window, slots, at, task>>
      BY <1>2 DEF UpdateBegins, hostRest, viewers, CaptureChanges, ProfileChanges
    <2>2. s \in Wishes /\ applied \in Wishes
      BY <1>0 DEF HostRange, HostOK
    <2>3. HostOK'
      BY <1>0, <2>1, <2>2, RenewalTyped DEF HostOK
    <2> QED BY <1>0, <2>1, <2>3, TypeParts, SlotsUnchanged, AtUnchanged, TaskUnchanged
  <1>3. ASSUME u # None, updating' = None, applied' = applied,
               NEW new \in [Groups -> Encoders \cup {None}], Reconfigure(u.to, new)
        PROVE  TypeOK'
    <2>1. u.to \in Wishes
      BY <1>1, <1>3, UpdateFields
    <2>2. SlotsOK' /\ AtOK' /\ TaskOK' /\ capacity' \in 1 .. Slots /\ window' = window
      BY <1>3, <2>1, ReconfigureKeepsTypes
    <2>3. HostOK'
      BY <1>0, <1>3, <2>2 DEF HostOK
    <2> QED BY <2>2, <2>3, TypeParts
  <1>4. CASE UpdateStarts
    <2> DEFINE kept == {g \in running \ draining : g < Budget(u.to)}
               news == [g \in Groups |-> IF g \in kept THEN NewEncoder(requested[g], u.rungs[g])
                                         ELSE None]
    <2>1. CASE Reconfigure(u.to, NoneNew) /\ updating' = None /\ applied' = applied
      BY <1>3, <1>4, <2>1, NoneNewTyped DEF UpdateStarts
    <2>2. CASE /\ \A g \in kept : Startable(requested[g], u.rungs[g])
               /\ updating' = [u EXCEPT !.new = news] /\ UNCHANGED <<applied, hostRest>>
      <3>1. u # None
        BY <1>4 DEF UpdateStarts
      <3>2. \A g \in kept : NewEncoder(requested[g], u.rungs[g]) \in Encoders
        <4>1. \A g \in kept : requested[g] \in Codecs
          BY <1>0 DEF SlotsOK, running
        <4> QED BY <2>2, <4>1, StartableHasLevel
      <3> HIDE DEF kept
      <3>3. news \in [Groups -> Encoders \cup {None}]
        BY <3>2
      <3> HIDE DEF news
      <3>4. updating' \in Updates
        BY <1>1, <2>2, <3>1, <3>3, UpdateFields
      <3>5. UNCHANGED <<applied, capacity, window, slots, at, task>>
        BY <2>2 DEF hostRest, viewers
      <3>6. HostOK'
        BY <1>0, <3>4, <3>5 DEF HostOK
      <3> QED BY <1>0, <3>5, <3>6, TypeParts, SlotsUnchanged, AtUnchanged, TaskUnchanged
    <2>3. CASE u # None /\ Undo
      BY <2>3, UndoKeepsTypes
    <2> QED BY <1>4, <2>1, <2>2, <2>3 DEF UpdateStarts
  <1>5. CASE UpdateFinishes
    <2>1. /\ u # None /\ u.new # None /\ Reconfigure(u.to, u.new)
          /\ updating' = None /\ applied' = applied
      BY <1>5 DEF UpdateFinishes, Replacing
    <2>2. u.new \in [Groups -> Encoders \cup {None}]
      BY <1>1, <2>1, UpdateFields
    <2> QED BY <1>3, <2>1, <2>2
  <1>6. CASE UpdateFails
    BY <1>6, UndoKeepsTypes DEF UpdateFails, Replacing
  <1> QED BY <1>2, <1>4, <1>5, <1>6

LEMMA WishWithRate ==
    ASSUME NEW s \in Wishes, NEW r \in Nat, r >= 25
    PROVE  [s EXCEPT !.bitrate = r] \in Wishes
  <1> DEFINE q == [s EXCEPT !.bitrate = r]
  <1>1. q \in [height : Nat, fps : Nat, bitrate : Nat, automatic : BOOLEAN, adaptive : BOOLEAN,
               groups : (Nat \ {0}) \cup {None}]
    BY DEF Wishes
  <1>2. q.height = s.height /\ q.fps = s.fps /\ q.bitrate = r
    BY DEF Wishes
  <1> HIDE DEF q
  <1>3. q \in Wishes
    BY <1>1, <1>2 DEF Wishes, FloorRate
  <1> QED BY <1>3 DEF q

\* adaptive_loop: the rate is clamped to the floor and to what was configured.
LEMMA AdaptKeepsTypes ==
    ASSUME TypeOK, NEW s \in Wishes, AdaptRate(s.bitrate)
    PROVE  TypeOK'
  <1> DEFINE rate   == applied.bitrate
             lower  == (rate * 3) \div 4
             higher == Min({rate * 11, Saturated}) \div 10
             target(aim) == Min({Max({aim, FloorRate}), s.bitrate})
  <1>0. HostOK /\ SlotsOK /\ AtOK /\ TaskOK
    BY TypeParts
  <1>1. rate \in Nat /\ s.bitrate \in Nat /\ s.bitrate >= 25
    BY <1>0 DEF HostOK, Wishes, FloorRate
  <1>2. PICK aim \in {rate, lower, higher} :
            /\ applied' = [applied EXCEPT !.bitrate = target(aim)] /\ updating' = updating
            /\ Reconfigure([applied EXCEPT !.bitrate = target(aim)], NoneNew)
    BY DEF AdaptRate
  <1> HIDE DEF rate
  <1>3. aim \in Nat
    <2>1. (rate * 3) \div 4 \in Nat
      BY <1>1
    <2>2. Min({rate * 11, Saturated}) \in Nat
      <3>1. rate * 11 \in Nat /\ Saturated \in Nat
        BY <1>1 DEF Saturated
      <3> QED BY <3>1, LesserOf
    <2>3. Min({rate * 11, Saturated}) \div 10 \in Nat
      BY <2>2, DivisionIsNatural
    <2> QED BY <1>1, <1>2, <2>1, <2>3
  <1>4. target(aim) \in Nat /\ target(aim) >= 25
    <2> DEFINE m == Max({aim, FloorRate})
    <2>1. m = IF aim >= FloorRate THEN aim ELSE FloorRate
      <3>1. FloorRate \in Int /\ aim \in Int
        BY <1>3 DEF FloorRate
      <3> QED BY <3>1, GreaterOf
    <2>2. m \in Nat /\ m >= 25
      BY <1>3, <2>1 DEF FloorRate
    <2> HIDE DEF m
    <2>3. Min({m, s.bitrate}) \in Nat /\ Min({m, s.bitrate}) >= 25
      BY <1>1, <2>2, LesserOf
    <2> QED BY <2>3 DEF m
  <1> HIDE DEF target
  <1>5. applied' \in Wishes
    BY <1>0, <1>2, <1>4, WishWithRate DEF HostOK
  <1>6. SlotsOK' /\ AtOK' /\ TaskOK' /\ capacity' \in 1 .. Slots /\ window' = window
    BY <1>2, <1>5, NoneNewTyped, ReconfigureKeepsTypes
  <1>7. HostOK'
    BY <1>0, <1>2, <1>5, <1>6 DEF HostOK
  <1> QED BY <1>6, <1>7, TypeParts

LEMMA TypeStep == HostRange /\ TypeOK /\ LocksOK /\ [Next]_vars => TypeOK'
  <1> SUFFICES ASSUME HostRange, TypeOK, LocksOK, [Next]_vars PROVE TypeOK'
    OBVIOUS
  <1>1. CASE Tune \/ Maintain
    BY <1>1, TuneKeepsTypes, MaintainKeepsTypes
  <1>2. CASE Host
    <2>1. ASSUME NEW s \in Settings, AdaptRate(s.bitrate) PROVE TypeOK'
      BY <2>1, AdaptKeepsTypes DEF HostRange
    <2> QED BY <1>2, <2>1, UpdateKeepsTypes DEF Host
  <1>3. CASE UNCHANGED vars
    <2>1. UNCHANGED <<applied, updating, capacity, window, slots, at, task>>
      BY <1>3 DEF vars, viewers
    <2> QED BY <2>1, TypeParts, HostUnchanged, SlotsUnchanged, AtUnchanged, TaskUnchanged
  <1> QED BY <1>1, <1>2, <1>3, ViewerKeepsTypes, HandlerKeepsTypes DEF Next

(***************************************************************************)
(* Who may replace an encoder.                                             *)
(***************************************************************************)
LEMMA LocksStart == Init => LocksOK
  BY DEF Init, LocksOK, Starting, Replacing

\* Nobody starts anything while the groups end or are reconfigured.
LEMMA FreeIsNobody == LifecycleFree => ~Replacing /\ \A h \in Handlers : ~Starting(h)
  BY DEF LifecycleFree


LEMMA LocksIdle ==
    ASSUME \A i \in Handlers : ~Starting(i)'
    PROVE  LocksOK'
  BY DEF LocksOK

\* Nobody else begins to start, no group gets an encoder and no update its replacements.
LEMMA LocksShrink ==
    ASSUME LocksOK, \A i \in Handlers : Starting(i)' => Starting(i) /\ task'[i] = task[i],
           encoder' = encoder, Replacing' => Replacing
    PROVE  LocksOK'
  <1>1. running' = running
    BY EncodersUnchanged
  <1> QED BY <1>1 DEF LocksOK

LEMMA GoesBesides ==
    ASSUME TaskOK, NEW h \in Handlers, task[h] # None, NEW step \in Steps \ {"starting"}, NEW g,
           Goes(h, step, g) \/ Ends(h)
    PROVE  \A i \in Handlers : Starting(i)' => Starting(i) /\ task'[i] = task[i]
  <1> SUFFICES ASSUME NEW i \in Handlers, Starting(i)'
               PROVE  Starting(i) /\ task'[i] = task[i]
    OBVIOUS
  <1>1. task[h] \in Tasks
    BY DEF TaskOK
  <1>2. [task[h] EXCEPT !.step = step, !.group = g, !.new = None].step = step
    BY <1>1 DEF Tasks
  <1>3. \/ task' = [task EXCEPT ![h] = [task[h] EXCEPT !.step = step, !.group = g, !.new = None]]
        \/ task' = [task EXCEPT ![h] = None]
    BY DEF Goes, Ends
  <1>4. i # h
    BY <1>2, <1>3 DEF Starting, TaskOK, Steps
  <1>5. task'[i] = task[i]
    BY <1>3, <1>4 DEF TaskOK
  <1> QED BY <1>5 DEF Starting

LEMMA ReturnsBesides ==
    ASSUME TaskOK, NEW h \in Handlers, task[h] # None, NEW step \in Steps \ {"starting"},
           Returns(h, step)
    PROVE  \A i \in Handlers : Starting(i)' => Starting(i) /\ task'[i] = task[i]
  BY GoesBesides DEF Returns

LEMMA BeginsBesides ==
    ASSUME TaskOK, NEW h \in Handlers, NEW locals, locals.step # "starting", Begins(h, locals)
    PROVE  \A i \in Handlers : Starting(i)' => Starting(i) /\ task'[i] = task[i]
  BY DEF Begins, Starting, TaskOK

LEMMA BeginningKeepsLocks ==
    ASSUME TypeOK, LocksOK, NEW c \in Clients, NEW h \in Handlers,
           Bootstrap(c, h) \/ CodecFailure(c, h) \/ Offer(c, h) \/ ObserveStarts(c, h)
    PROVE  LocksOK'
  <1>1. TaskOK
    BY TypeParts
  <1>2. UNCHANGED <<encoder, updating>>
    BY DEF Bootstrap, CodecFailure, Offer, ObserveStarts, observeRest, beginRest, slots
  <1>3. Replacing' = Replacing
    BY <1>2 DEF Replacing
  <1>4. UNCHANGED task \/ \E locals : locals.step # "starting" /\ Begins(h, locals)
    <2>1. CASE Bootstrap(c, h)
      <3> DEFINE affordable(probe) ==
                     {g \in Groups : g < capacity /\ probe.rate * 100 >= profile[g].bitrate * 125}
                 preferred(probe) == IF affordable(probe) = {} \/ probe.rate = 0 \/ probe.late
                                     THEN capacity - 1 ELSE Min(affordable(probe))
                 budget(probe) == Max({(probe.rate * 65) \div 100, FloorRate})
                 fit(probe) == Fit(profile[preferred(probe)], budget(probe))
                 locals(probe) == [Locals(c, "bootstrap", "select", preferred(probe)) EXCEPT
                                       !.codec = ChooseCodec(Supported[c], rejected[c]),
                                       !.fit = fit(probe)]
      <3>1. PICK probe \in Probes : Begins(h, locals(probe))
        BY <2>1, Zenon DEF Bootstrap
      <3> HIDE DEF preferred, fit
      <3>2. locals(probe).step = "select"
        BY DEF Locals
      <3> HIDE DEF locals
      <3> QED BY <3>1, <3>2
    <2>2. CASE CodecFailure(c, h)
      <3> DEFINE next == ChooseCodec(supported[c], rejected[c] \cup {CodecOf(at[c])})
                 locals == [Locals(c, "failure", "select", at[c]) EXCEPT !.codec = next]
      <3>1. UNCHANGED task \/ Begins(h, locals)
        BY <2>2 DEF CodecFailure
      <3>2. locals.step = "select"
        BY DEF Locals
      <3> HIDE DEF locals
      <3> QED BY <3>1, <3>2
    <2>3. CASE Offer(c, h)
      <3>1. \E g : Begins(h, Locals(c, "offer", "activate", g))
        BY <2>3, Zenon DEF Offer
      <3>2. \A g : Locals(c, "offer", "activate", g).step = "activate"
        BY DEF Locals
      <3> QED BY <3>1, <3>2
    <2>4. CASE ObserveStarts(c, h)
      <3> DEFINE locals == [Locals(c, "observe", "test", Min(Below(c, Vacant))) EXCEPT
                               !.codec = CodecOf(at[c]), !.seen = window[c]]
      <3>1. Begins(h, locals)
        BY <2>4 DEF ObserveStarts
      <3>2. locals.step = "test"
        BY DEF Locals
      <3> HIDE DEF locals
      <3> QED BY <3>1, <3>2
    <2> QED BY <2>1, <2>2, <2>3, <2>4
  <1>5. \A i \in Handlers : Starting(i)' => Starting(i) /\ task'[i] = task[i]
    <2>1. UNCHANGED task => \A i \in Handlers : Starting(i)' => Starting(i) /\ task'[i] = task[i]
      BY DEF Starting
    <2> QED BY <1>1, <1>4, <2>1, BeginsBesides
  <1> QED BY <1>2, <1>3, <1>5, LocksShrink

\* activate_group: under the lock, after a second look.
LEMMA StepKeepsLocks ==
    ASSUME TypeOK, LocksOK, NEW h \in Handlers, Step(h)
    PROVE  LocksOK'
  <1> DEFINE t == task[h]
             Besides == \A i \in Handlers : Starting(i)' => Starting(i) /\ task'[i] = task[i]
             e == NewEncoder(requested[t.group], profile[t.group])
  <1>0. HostOK /\ SlotsOK /\ AtOK /\ TaskOK
    BY TypeParts
  <1>1. t # None /\ t \in Tasks
    BY <1>0 DEF Step, Select, Test, Write, Shape, Activate, Started, StartFails, Assigns, Starting,
           Doing, TaskOK
  <1>2. Replacing' = Replacing
    BY DEF Step, Select, Test, Write, Shape, Activate, Started, StartFails, Assigns, taskRest, Replacing
  <1>3. \A step \in Steps \ {"starting"} : \A g :
            Goes(h, step, g) \/ Ends(h) \/ Returns(h, step) \/ GivesUp(h, step) => Besides
    BY <1>0, <1>1, GoesBesides, ReturnsBesides DEF GivesUp
  <1>4. {"test", "write", "shape", "activate", "assign"} \subseteq Steps \ {"starting"}
        /\ Chosen(h) \in Steps \ {"starting"}
    BY DEF Steps, Chosen
  <1>5. CASE Besides /\ encoder' = encoder
    BY <1>2, <1>5, LocksShrink
  <1>6. CASE Select(h)
    <2>1. encoder' = encoder
      BY <1>6 DEF Select, slots
    <2>2. CASE \E g, i : task' = [task EXCEPT ![h] =
                              [t EXCEPT !.step = "test", !.group = g, !.instead = i]]
      <3>1. PICK g, i : task' = [task EXCEPT ![h] =
                                    [t EXCEPT !.step = "test", !.group = g, !.instead = i]]
        BY <2>2
      <3>2. [t EXCEPT !.step = "test", !.group = g, !.instead = i].step = "test"
        BY <1>1 DEF Tasks
      <3> HIDE DEF t
      <3>3. Besides
        BY <1>0, <3>1, <3>2 DEF Starting, TaskOK
      <3> QED BY <1>5, <2>1, <3>3
    <2>3. CASE (\E g : Goes(h, Chosen(h), g)) \/ Returns(h, Chosen(h))
      BY <1>3, <1>4, <1>5, <2>1, <2>3
    <2> QED BY <1>6, <2>2, <2>3, Zenon DEF Select
  <1>7. CASE Test(h)
    <2>1. (\E g : Goes(h, "write", g) \/ Goes(h, Chosen(h), g)) \/ GivesUp(h, Chosen(h))
      BY <1>7, Zenon DEF Test
    <2>2. encoder' = encoder
      BY <1>7 DEF Test, slots
    <2> QED BY <1>3, <1>4, <1>5, <2>1, <2>2
  <1>8. CASE Write(h) \/ Shape(h) \/ Assigns(h)
    <2>1. (\E g : Goes(h, Chosen(h), g) \/ Goes(h, "activate", g)) \/ Ends(h)
      BY <1>8, Zenon DEF Write, Shape, Assigns
    <2>2. encoder' = encoder
      BY <1>8 DEF Write, Shape, Assigns, slots
    <2> QED BY <1>3, <1>4, <1>5, <2>1, <2>2
  <1>9. CASE Activate(h)
    <2>1. encoder' = encoder
      BY <1>9 DEF Activate, slots
    <2>2. CASE (\E g : Goes(h, "assign", g)) \/ Ends(h) \/ GivesUp(h, "assign")
      BY <1>3, <1>4, <1>5, <2>1, <2>2
    <2>3. CASE /\ LifecycleFree /\ t.group \notin running
               /\ Startable(requested[t.group], profile[t.group])
               /\ task' = [task EXCEPT ![h] = [t EXCEPT !.step = "starting", !.new = e]]
      <3>1. ~Replacing /\ \A i \in Handlers : ~Starting(i)
        BY <2>3, FreeIsNobody
      <3>2. e # None
        <4>1. requested[t.group] \in Codecs
          BY <1>0, <1>1, TaskFields DEF SlotsOK
        <4>2. e \in Encoders
          BY <2>3, <4>1, StartableHasLevel
        <4> QED BY <4>2, EncoderIsSomething
      <3> HIDE DEF e
      <3>3. task'[h].new = e /\ task'[h].group = t.group
        BY <1>0, <1>1, <2>3 DEF TaskOK, Tasks
      <3>4. \A i \in Handlers \ {h} : ~Starting(i)'
        BY <1>0, <2>3, <3>1 DEF TaskOK, Starting
      <3>5. running' = running
        BY <2>1, EncodersUnchanged
      <3> QED BY <1>2, <2>3, <3>1, <3>2, <3>3, <3>4, <3>5 DEF LocksOK
    <2> QED BY <1>9, <2>2, <2>3, Zenon DEF Activate
  <1>10. CASE Started(h)
    <2>1. Ends(h) \/ Goes(h, "assign", t.group)
      BY <1>10 DEF Started
    <2>2. Besides
      BY <1>3, <1>4, <2>1
    <2>3. \A i \in Handlers : Starting(i)' => i = h
      BY <1>10, <2>2 DEF Started, LocksOK
    <2>4. ~Starting(h)'
      <3>1. [t EXCEPT !.step = "assign", !.group = t.group, !.new = None].step = "assign"
        BY <1>1 DEF Tasks
      <3> QED BY <1>0, <2>1, <3>1 DEF Ends, Goes, Starting, TaskOK
    <2> QED BY <2>3, <2>4, LocksIdle
  <1>11. CASE StartFails(h)
    <2>1. GivesUp(h, "assign") /\ encoder' = encoder
      BY <1>11 DEF StartFails, slots
    <2> QED BY <1>3, <1>4, <1>5, <2>1
  <1> QED BY <1>6, <1>7, <1>8, <1>9, <1>10, <1>11 DEF Step

LEMMA LocksStep == TypeOK /\ LocksOK /\ [Next]_vars => LocksOK'
  <1> SUFFICES ASSUME TypeOK, LocksOK, [Next]_vars PROVE LocksOK'
    OBVIOUS
  <1>1. ASSUME \A i \in Handlers : ~Starting(i), UNCHANGED task PROVE LocksOK'
    BY <1>1, LocksIdle DEF Starting
  <1>2. ASSUME UNCHANGED <<encoder, task>>, Replacing' => Replacing PROVE LocksOK'
    BY <1>2, LocksShrink DEF Starting
  <1>3. CASE Tune \/ Maintain
    <2>1. LifecycleFree /\ UNCHANGED task
      BY <1>3 DEF Tune, TuneDown, TuneUp, Tunes, TuneRest, Maintain, Merge, Drain, Revive, Maintains,
                  maintainRest
    <2> QED BY <1>1, <2>1, FreeIsNobody
  <1>4. CASE Host
    <2>1. ASSUME NEW s \in Settings, UpdateBegins(s) PROVE LocksOK'
      <3>1. UNCHANGED <<encoder, task>>
        BY <2>1 DEF UpdateBegins, hostRest, slots
      <3>2. ~Replacing'
        BY <2>1 DEF UpdateBegins, Renewal, Replacing
      <3> QED BY <1>2, <3>1, <3>2
    <2>2. ASSUME NEW s \in Settings, AdaptRate(s.bitrate) PROVE LocksOK'
      <3>1. LifecycleFree /\ UNCHANGED task
        BY <2>2 DEF AdaptRate, Reconfigure
      <3> QED BY <1>1, <3>1, FreeIsNobody
    <2>3. CASE UpdateStarts
      <3>1. LifecycleFree /\ UNCHANGED task
        BY <2>3 DEF UpdateStarts, Reconfigure, Undo, hostRest
      <3> QED BY <1>1, <3>1, FreeIsNobody
    <2>4. CASE UpdateFinishes \/ UpdateFails
      <3>1. Replacing /\ UNCHANGED task
        BY <2>4 DEF UpdateFinishes, UpdateFails, Reconfigure, Undo, hostRest
      <3> QED BY <1>1, <3>1 DEF LocksOK
    <2> QED BY <1>4, <2>1, <2>2, <2>3, <2>4 DEF Host
  <1>5. ASSUME NEW c \in Clients, Viewer(c) PROVE LocksOK'
    <2>1. UNCHANGED <<encoder, task, updating>>
      BY <1>5 DEF Viewer, Measure, Settle, EnsureClient, ObserveMoves, observeRest, beginRest, slots
    <2> QED BY <1>2, <2>1 DEF Replacing
  <1>6. ASSUME NEW h \in Handlers, Handler(h) PROVE LocksOK'
    BY <1>6, StepKeepsLocks, BeginningKeepsLocks DEF Handler
  <1>7. CASE UNCHANGED vars
    <2>1. UNCHANGED <<encoder, task, updating>>
      BY <1>7 DEF vars, slots
    <2> QED BY <1>2, <2>1 DEF Replacing
  <1> QED BY <1>3, <1>4, <1>5, <1>6, <1>7 DEF Next

\* server.rs: TranscodeGroup, ClientGroupState, group_settings. Every profile, codec, level and group
\* number has its type, also those that a handler carries along while others change the slots.
THEOREM TypesAreKept == ASSUME HostRange PROVE Spec => []TypeOK
  BY TypeStart, TypeStep, LocksStart, LocksStep, PTL DEF Spec

\* No mix of settings, probes, tuning and merges takes a group below 144 lines, five
\* pictures per second or 250 kbit/s.
AboveTheFloors ==
    \A g \in Groups :
        profile[g].height >= 144 /\ profile[g].fps >= 5 /\ profile[g].bitrate >= FloorRate

\* server.rs: group_settings, fit_profile_to_delivery_budget, tune, adaptive_loop. With a host that
\* offers no less itself, no group is ever asked for less than the last step of the ladder.
THEOREM ProfilesKeepTheFloors == ASSUME HostRange PROVE Spec => []AboveTheFloors
  <1>1. TypeOK => AboveTheFloors
    <2> SUFFICES ASSUME TypeOK, NEW g \in Groups
                 PROVE  /\ profile[g].height >= 144 /\ profile[g].fps >= 5
                        /\ profile[g].bitrate >= FloorRate
      BY DEF AboveTheFloors
    <2>1. profile[g] \in Profiles
      BY DEF TypeOK
    <2> QED BY <2>1, ProfileFields
  <1> QED BY <1>1, TypesAreKept, PTL

\* A group that is lowered stays within the level its encoder was started with.
LoweringStaysEncodable ==
    [][\A g \in Groups : TuneDown(g) /\ Encodable(g) => Encodable(g)']_vars

\* server.rs: tune; media.rs: run_shared_source_encoder. On the way down the encoder never refuses
\* its new settings: what they need rises with the lines, the pictures and the rate. On the way up
\* it may, see ClimbStaysEncodable.
THEOREM LoweringKeepsTheLevel == ASSUME HostRange PROVE Spec => LoweringStaysEncodable
  <1>1. TypeOK /\ [Next]_vars => \A g \in Groups : TuneDown(g) /\ Encodable(g) => Encodable(g)'
    <2> SUFFICES ASSUME TypeOK, NEW g \in Groups, TuneDown(g), Encodable(g)
                 PROVE  Encodable(g)'
      OBVIOUS
    <2>0. SlotsOK
      BY TypeParts
    <2>1. profile[g] \in Profiles /\ encoder[g] \in Encoders /\ g \in running
      BY <2>0 DEF SlotsOK, running, Encodable
    <2>2. LoweredTune(profile[g]) \in Profiles /\ AtMost(LoweredTune(profile[g]), profile[g])
      BY <2>1, LoweredTuneShrinks
    <2>3. encoder' = encoder /\ profile'[g] = LoweredTune(profile[g])
      BY <2>0 DEF TuneDown, TuneRest, SlotsOK
    <2>4. running' = running
      BY <2>3, EncodersUnchanged
    <2>5. encoder[g].level \in Nat
      BY <2>1 DEF Encoders
    <2>6. Required(encoder[g].codec, LoweredTune(profile[g])) \in 0 .. encoder[g].level
      BY <2>1, <2>2, <2>5, RequiredShrinks DEF Encodable
    <2> QED BY <2>1, <2>3, <2>4, <2>6 DEF Encodable
  <1> QED BY <1>1, TypesAreKept, PTL DEF LoweringStaysEncodable, Spec

LEMMA EncodersStayInStep ==
    ASSUME TypeOK, LocksOK, [Next]_vars
    PROVE  \A g \in running : encoder'[g] \in {encoder[g], None} \/ UpdateFinishes
  <1> SUFFICES ASSUME NEW g \in running, ~UpdateFinishes
               PROVE  encoder'[g] \in {encoder[g], None}
    OBVIOUS
  <1>0. SlotsOK /\ TaskOK /\ g \in Groups
    BY TypeParts DEF running
  <1>1. CASE encoder' = encoder
    BY <1>1
  <1>2. ASSUME NEW k \in Groups, Drain(k) PROVE encoder'[g] \in {encoder[g], None}
    <2>1. encoder' = encoder \/ encoder' = [encoder EXCEPT ![k] = None]
      BY <1>2 DEF Drain
    <2> QED BY <1>0, <2>1 DEF SlotsOK
  <1>3. ASSUME NEW s, Reconfigure(s, NoneNew) PROVE encoder'[g] \in {encoder[g], None}
    BY <1>0, <1>3 DEF Reconfigure, NoneNew
  <1>4. ASSUME NEW h \in Handlers, Started(h) PROVE encoder'[g] \in {encoder[g], None}
    <2>1. encoder' = [encoder EXCEPT ![task[h].group] = task[h].new] /\ task[h].group \notin running
      BY <1>4 DEF Started, LocksOK
    <2> QED BY <1>0, <2>1 DEF SlotsOK
  <1>5. CASE Tune \/ Maintain
    BY <1>1, <1>2, <1>5 DEF Tune, TuneDown, TuneUp, TuneRest, Maintain, Merge, Revive
  <1>6. CASE Host
    <2>1. ASSUME NEW s \in Settings, UpdateBegins(s) \/ AdaptRate(s.bitrate)
          PROVE  encoder'[g] \in {encoder[g], None}
      BY <1>1, <1>3, <2>1 DEF UpdateBegins, hostRest, slots, AdaptRate
    <2>2. CASE UpdateStarts \/ UpdateFails
      BY <1>1, <1>3, <2>2 DEF UpdateStarts, UpdateFails, Undo, hostRest, slots
    <2> QED BY <1>6, <2>1, <2>2 DEF Host
  <1>7. ASSUME NEW c \in Clients, Viewer(c) PROVE encoder' = encoder
    BY <1>7 DEF Viewer, Measure, Settle, EnsureClient, ObserveMoves, observeRest, beginRest, slots
  <1>8. ASSUME NEW h \in Handlers, Handler(h) PROVE encoder'[g] \in {encoder[g], None}
    <2>1. CASE Step(h) /\ ~Started(h)
      <3>1. encoder' = encoder
        BY <2>1 DEF Step, Select, Test, Write, Shape, Activate, StartFails, Assigns, slots
      <3> QED BY <3>1
    <2>2. ASSUME NEW c \in Clients,
                 Bootstrap(c, h) \/ CodecFailure(c, h) \/ Offer(c, h) \/ ObserveStarts(c, h)
          PROVE  encoder' = encoder
      BY <2>2 DEF Bootstrap, CodecFailure, Offer, ObserveStarts, observeRest, beginRest, slots
    <2> QED BY <1>4, <1>8, <2>1, <2>2 DEF Handler, Step
  <1>9. CASE UNCHANGED vars
    BY <1>9 DEF vars, slots
  <1> QED BY <1>5, <1>6, <1>7, <1>8, <1>9 DEF Next

\* server.rs: activate_group, reconfigure_and_restart. Two handlers may write into the slot that the
\* other is about to start, but only one starts it, and no encoder that is in use is replaced by one
\* that comes late: what a viewer receives keeps its codec and its level until the host renews all.
THEOREM EncodersAreNotReplaced == ASSUME HostRange PROVE Spec => EncodersStay
  <1>1. Spec => [](TypeOK /\ LocksOK)
    BY TypeStart, TypeStep, LocksStart, LocksStep, PTL DEF Spec
  <1>2. TypeOK /\ LocksOK /\ [Next]_vars =>
            \A g \in running : encoder'[g] \in {encoder[g], None} \/ UpdateFinishes
    BY EncodersStayInStep
  <1> QED BY <1>1, <1>2, PTL DEF Spec, EncodersStay

LEMMA FallbackStart == HostRange /\ Init => FallbackServes
  <1> SUFFICES ASSUME HostRange, Init PROVE FallbackServes
    OBVIOUS
  <1>1. TypeOK
    BY TypeStart
  <1>2. codec[0] \in Codecs /\ 0 \in Groups /\ 0 < capacity
    BY <1>1, TypeParts, SlotsAreNumbered DEF SlotsOK, HostOK
  <1>3. NewEncoder(codec[0], profile[0]) # None
    BY <1>2, StartableHasLevel, EncoderIsSomething DEF Init
  <1> QED BY <1>2, <1>3 DEF Init, FallbackServes, Visible, running

LEMMA FallbackStep == HostRange /\ TypeOK /\ LocksOK /\ FallbackServes /\ [Next]_vars => FallbackServes'
  <1> SUFFICES ASSUME HostRange, TypeOK, LocksOK, FallbackServes, [Next]_vars
               PROVE  FallbackServes'
    OBVIOUS
  <1>0. 0 \in Groups /\ encoder[0] # None /\ 0 \notin draining /\ 0 < capacity
    BY SlotsAreNumbered DEF FallbackServes, Visible, running
  <1>1. SlotsOK /\ TaskOK /\ HostOK
    BY TypeParts
  <1>2. ASSUME encoder'[0] # None, 0 \notin draining', 0 < capacity' PROVE FallbackServes'
    BY <1>0, <1>2 DEF FallbackServes, Visible, running
  <1>3. CASE UNCHANGED <<encoder, draining, capacity>>
    BY <1>0, <1>2, <1>3
  <1>4. ASSUME NEW s \in Wishes, NEW new \in [Groups -> Encoders \cup {None}], Reconfigure(s, new)
        PROVE  FallbackServes'
    <2>1. Budget(s) \in 1 .. Slots
      BY BudgetInSlots
    <2> DEFINE gone == IF Budget(s) < capacity THEN {g \in Groups : g >= Budget(s)} ELSE {}
    <2>2. 0 \notin gone
      BY <2>1
    <2>3. /\ capacity' = Budget(s) /\ draining' = draining \ gone
          /\ encoder' = [g \in Groups |-> IF g \in gone THEN None
                                          ELSE IF new[g] # None THEN new[g] ELSE encoder[g]]
      BY <1>4 DEF Reconfigure
    <2> HIDE DEF gone
    <2>4. encoder'[0] # None
      BY <1>0, <2>2, <2>3
    <2> QED BY <1>0, <1>2, <2>1, <2>3, <2>4, SlotsAreNumbered
  <1>5. CASE Tune
    BY <1>3, <1>5 DEF Tune, TuneDown, TuneUp, TuneRest
  <1>6. ASSUME NEW g \in Groups, Merge(g) \/ Drain(g) \/ Revive(g) PROVE FallbackServes'
    <2>1. capacity' = capacity
      BY <1>6 DEF Merge, Drain, Revive, maintainRest
    <2>2. /\ draining' \subseteq draining \cup {g} /\ g # 0
          /\ encoder' = encoder \/ encoder' = [encoder EXCEPT ![g] = None]
      BY <1>6 DEF Merge, Drain, Revive
    <2> QED BY <1>0, <1>1, <1>2, <2>1, <2>2 DEF SlotsOK
  <1>7. CASE Host
    <2>1. ASSUME NEW s \in Settings, UpdateBegins(s) PROVE FallbackServes'
      BY <1>3, <2>1 DEF UpdateBegins, hostRest, slots
    <2>2. ASSUME NEW s \in Settings, AdaptRate(s.bitrate) PROVE FallbackServes'
      <3>1. PICK r : /\ applied' = [applied EXCEPT !.bitrate = r]
                     /\ Reconfigure([applied EXCEPT !.bitrate = r], NoneNew)
        BY <2>2 DEF AdaptRate
      <3>2. applied' \in Wishes
        <4>1. TypeOK'
          BY TypeStep
        <4> QED BY <4>1, TypeParts DEF HostOK
      <3> QED BY <1>4, <3>1, <3>2, NoneNewTyped
    <2>3. CASE UpdateStarts \/ UpdateFinishes \/ UpdateFails
      <3>1. updating \in Updates
        BY <1>1, <2>3 DEF UpdateStarts, UpdateFinishes, UpdateFails, Replacing, HostOK
      <3>2. updating.to \in Wishes
        BY <3>1, UpdateFields
      <3>3. \/ Reconfigure(updating.to, NoneNew)
            \/ Reconfigure(updating.to, updating.new) /\ updating.new # None
            \/ UNCHANGED <<encoder, draining, capacity>>
        BY <2>3 DEF UpdateStarts, UpdateFinishes, UpdateFails, Replacing, Undo, hostRest, slots
      <3>4. updating.new # None => updating.new \in [Groups -> Encoders \cup {None}]
        BY <3>1, UpdateFields
      <3> QED BY <1>3, <1>4, <3>2, <3>3, <3>4, NoneNewTyped
    <2> QED BY <1>7, <2>1, <2>2, <2>3 DEF Host
  <1>8. ASSUME NEW c \in Clients, Viewer(c) PROVE FallbackServes'
    BY <1>3, <1>8 DEF Viewer, Measure, Settle, EnsureClient, ObserveMoves, observeRest, beginRest, slots
  <1>9. ASSUME NEW h \in Handlers, Handler(h) PROVE FallbackServes'
    <2>1. CASE Started(h)
      <3>1. /\ encoder' = [encoder EXCEPT ![task[h].group] = task[h].new]
            /\ task[h].new # None /\ draining' \subseteq draining /\ capacity' = capacity
        BY <2>1 DEF Started, LocksOK, taskRest
      <3> QED BY <1>0, <1>1, <1>2, <3>1 DEF SlotsOK
    <2>2. CASE Step(h) /\ ~Started(h)
      <3>1. UNCHANGED <<encoder, draining, capacity>>
        BY <2>2 DEF Step, Select, Test, Write, Shape, Activate, StartFails, Assigns, slots, taskRest
      <3> QED BY <1>3, <3>1
    <2>3. ASSUME NEW c \in Clients,
                 Bootstrap(c, h) \/ CodecFailure(c, h) \/ Offer(c, h) \/ ObserveStarts(c, h)
          PROVE  UNCHANGED <<encoder, draining, capacity>>
      BY <2>3 DEF Bootstrap, CodecFailure, Offer, ObserveStarts, observeRest, beginRest, slots
    <2> QED BY <1>3, <1>9, <2>1, <2>2, <2>3 DEF Handler
  <1>10. CASE UNCHANGED vars
    BY <1>3, <1>10 DEF vars, slots
  <1> QED BY <1>5, <1>6, <1>7, <1>8, <1>9, <1>10 DEF Next, Maintain

\* server.rs: primary_group_id, ensure_client, reconfigure_locked, maintain. The group that a viewer
\* falls back to when its own has ended is never without an encoder: not by draining, not by a smaller
\* budget, not by an update that fails and is undone.
THEOREM FallbackNeverEnds == ASSUME HostRange PROVE Spec => []FallbackServes
  BY TypeStart, TypeStep, LocksStart, LocksStep, FallbackStart, FallbackStep, PTL DEF Spec

================================================================================
