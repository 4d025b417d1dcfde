---------------------------- MODULE LayoutProofs ----------------------------
(***************************************************************************)
(* Proofs about the layout of struct gpu_sample: Offsets is a fold over    *)
(* the ten fields, computed here field by field, for C and for the format  *)
(* string of Python, to show that both put every field at the same bytes.  *)
(***************************************************************************)
EXTENDS Sensors, FiniteFolds, TLAPS

(* One step of Offsets, its start, and its fold, with names. *)
Put(acc, f) ==
  LET o == RoundUp(acc.size, f[3])
  IN  [at |-> acc.at \cup {<<f[1], o, f[2]>>}, size |-> o + f[2]]

Unplaced == [at |-> {}, size |-> 0]

Placing(layout) ==
  CHOOSE g : g = [s \in SUBSET DOMAIN layout |->
                    IF s = {} THEN Unplaced
                    ELSE Put(g[s \ {Max(s)}], layout[Max(s)])]

LEMMA OffsetsArePlaced ==
  ASSUME NEW layout
  PROVE  Offsets(layout) =
           [Placing(layout)[DOMAIN layout] EXCEPT
              !.size = RoundUp(@, Max({layout[i][3] : i \in 1..Len(layout)}))]
BY DEF Offsets, FoldLeft, MapThenFoldSet, Placing, Put, Unplaced

Ten == 1..10

LEMMA TenIsFinite == Ten \in FiniteSubsetsOf(Ten)
<1>1. \A m, n \in Int : IsFiniteSet(m..n)
  BY FS_Interval
<1>2. 1 \in Int /\ 10 \in Int
  OBVIOUS
<1>3. IsFiniteSet(Ten)
  BY <1>1, <1>2, Zenon DEF Ten
<1> QED BY <1>3 DEF FiniteSubsetsOf

(* Every finite set of integers but the empty one has a greatest element. *)
LEMMA Greatest ==
  ASSUME NEW s \in FiniteSubsetsOf(Int), s # {}
  PROVE  \E x \in s : \A y \in s : x >= y
<1> DEFINE Q == {r \in SUBSET Int : r # {} => \E x \in r : \A y \in r : x >= y}
<1>1. ASSUME NEW r \in FiniteSubsetsOf(Int), \A x \in r : r \ {x} \in Q
      PROVE  r \in Q
  <2>1. r \in SUBSET Int
    BY DEF FiniteSubsetsOf
  <2>2. ASSUME NEW n \in r
        PROVE  \E x \in r : \A y \in r : x >= y
    <3>1. CASE r \ {n} = {}
      BY <2>1, <3>1
    <3>2. CASE r \ {n} # {}
      <4>1. PICK x \in r \ {n} : \A y \in r \ {n} : x >= y
        BY <1>1, <3>2
      <4>2. CASE x >= n
        BY <2>1, <4>1, <4>2
      <4>3. CASE n >= x
        BY <2>1, <4>1, <4>3
      <4> QED BY <2>1, <4>2, <4>3
    <3> QED BY <3>1, <3>2
  <2> QED BY <2>1, <2>2
<1>2. FiniteSubsetsOf(Int) \subseteq Q
  <2> HIDE DEF Q
  <2> QED BY <1>1, FiniteInduction
<1> QED BY <1>2

LEMMA MaxOfTen ==
  /\ \A s \in SUBSET Ten : s # {} => Max(s) \in s
  /\ \A k \in Ten : Max(1..k) = k
<1>1. ASSUME NEW s \in SUBSET Ten
      PROVE  s \in FiniteSubsetsOf(Int)
  <2>1. IsFiniteSet(s)
    BY TenIsFinite, FS_Subset DEF FiniteSubsetsOf
  <2> QED BY <2>1 DEF Ten, FiniteSubsetsOf
<1>2. ASSUME NEW s \in SUBSET Ten, s # {}
      PROVE  Max(s) \in s
  <2>1. \E x \in s : \A y \in s : x >= y
    BY <1>1, <1>2, Greatest
  <2> QED BY <2>1 DEF Max
<1>3. ASSUME NEW k \in Ten
      PROVE  Max(1..k) = k
  <2>1. k \in 1..k /\ \A y \in 1..k : k >= y
    BY DEF Ten
  <2>2. \A x \in 1..k : (\A y \in 1..k : x >= y) => x = k
    BY <2>1 DEF Ten
  <2> QED BY <2>1, <2>2 DEF Max
<1> QED BY <1>2, <1>3

(* What the layouts have in common: ten fields whose sizes are numbers and *)
(* whose alignments are positive.                                          *)
Layout(l) ==
  /\ DOMAIN l = Ten
  /\ \A i \in Ten : l[i][2] \in Nat /\ l[i][3] \in Nat \ {0}

(* The fold's recursion has a solution, so Placing is one. *)
Placed(l) == [at : SUBSET {<<l[i][1], o, l[i][2]>> : i \in Ten, o \in Nat}, size : Nat]

LEMMA PutType ==
  ASSUME NEW l, Layout(l), NEW i \in Ten, NEW acc \in Placed(l)
  PROVE  Put(acc, l[i]) \in Placed(l)
<1>1. RoundUp(acc.size, l[i][3]) \in Nat
  <2>1. PICK n \in Nat : n = acc.size
    BY DEF Placed
  <2>2. PICK d \in Nat \ {0} : d = l[i][3]
    BY DEF Layout
  <2>3. (n + d - 1) \div d \in Nat
    OBVIOUS
  <2>4. ((n + d - 1) \div d) * d \in Nat
    BY <2>3
  <2> QED BY <2>1, <2>2, <2>4 DEF RoundUp
<1> QED BY <1>1 DEF Put, Placed, Layout

LEMMA PlacingRecursion ==
  ASSUME NEW l, Layout(l), NEW g, g = Placing(l), NEW s \in SUBSET Ten
  PROVE  g[s] = IF s = {} THEN Unplaced ELSE Put(g[s \ {Max(s)}], l[Max(s)])
<1> DEFINE c == [r \in SUBSET Ten |-> Max(r)]
           F == [p \in Ten \X Placed(l) |-> Put(p[2], l[p[1]])]
<1>1. Picks(c, Ten)
  BY MaxOfTen DEF Picks
<1>2. \A i \in Ten : \A a \in Placed(l) :
        F[<<i, a>>] = Put(a, l[i]) /\ F[<<i, a>>] \in Placed(l)
  BY PutType
<1>3. Unplaced \in Placed(l)
  BY DEF Unplaced, Placed
<1>4. Ten \in FiniteSubsetsOf(Ten)
  BY TenIsFinite
<1>5. \A r \in SUBSET Ten : c[r] = Max(r)
  OBVIOUS
<1> HIDE DEF c, F
<1>6. PICK h : Obeys(h, Ten, c, F, Unplaced)
  BY <1>1, <1>4, FoldExists
<1>7. ASSUME NEW r \in SUBSET Ten
      PROVE  h[r] \in Placed(l)
  BY <1>1, <1>2, <1>3, <1>4, <1>6, FoldType
<1>8. ASSUME NEW r \in SUBSET Ten
      PROVE  h[r] = IF r = {} THEN Unplaced
                    ELSE Put(h[r \ {Max(r)}], l[Max(r)])
  <2>1. h[r] = IF r = {} THEN Unplaced ELSE F[<<c[r], h[r \ {c[r]}]>>]
    BY <1>6, ObeysAt
  <2>2. r # {} => Max(r) \in Ten /\ h[r \ {Max(r)}] \in Placed(l)
    BY <1>7, MaxOfTen
  <2>3. r # {} => F[<<Max(r), h[r \ {Max(r)}]>>] = Put(h[r \ {Max(r)}], l[Max(r)])
    BY <1>2, <2>2
  <2> QED BY <1>5, <2>1, <2>3
<1>9. h = [r \in SUBSET DOMAIN l |->
             IF r = {} THEN Unplaced ELSE Put(h[r \ {Max(r)}], l[Max(r)])]
  <2>1. h = [r \in SUBSET Ten |-> h[r]]
    BY <1>6 DEF Obeys
  <2> QED BY <1>8, <2>1 DEF Layout
<1>10. g = [r \in SUBSET DOMAIN l |->
              IF r = {} THEN Unplaced ELSE Put(g[r \ {Max(r)}], l[Max(r)])]
  BY <1>9, Zenon DEF Placing
<1> QED BY <1>10 DEF Layout

(* One field after the other. *)
LEMMA PlacingStep ==
  ASSUME NEW l, Layout(l), NEW g, g = Placing(l), NEW k \in Ten
  PROVE  g[1..k] = Put(g[1..(k - 1)], l[k])
<1>1. 1..k \in SUBSET Ten /\ 1..k # {} /\ Max(1..k) = k
  <2>1. 1..k \in SUBSET Ten /\ k \in 1..k
    BY DEF Ten
  <2>2. Max(1..k) = k
    BY MaxOfTen
  <2> QED BY <2>1, <2>2
<1>2. (1..k) \ {k} = 1..(k - 1)
  BY DEF Ten
<1>3. g[1..k] = Put(g[(1..k) \ {Max(1..k)}], l[Max(1..k)])
  BY <1>1, PlacingRecursion
<1> QED BY <1>1, <1>2, <1>3

(* Where the fields of struct gpu_sample are, and its size. *)
Places == <<0, 8, 12, 16, 24, 28, 32, 36, 40, 41, 48>>

(* A layout with every field at its place, none moved by its alignment. *)
Tight(l) ==
  \A k \in Ten : /\ RoundUp(Places[k], l[k][3]) = Places[k]
                 /\ Places[k] + l[k][2] = Places[k + 1]

PlacedUpTo(l, k) ==
  [at |-> {<<l[i][1], Places[i], l[i][2]>> : i \in 1..k}, size |-> Places[k + 1]]

LEMMA TightStep ==
  ASSUME NEW l, Layout(l), Tight(l), NEW g, g = Placing(l), NEW k \in Ten,
         g[1..(k - 1)] = PlacedUpTo(l, k - 1)
  PROVE  g[1..k] = PlacedUpTo(l, k)
<1>1. g[1..k] = Put(PlacedUpTo(l, k - 1), l[k])
  BY PlacingStep
<1>2. (k - 1) + 1 = k /\ 1..k = 1..(k - 1) \cup {k}
  BY DEF Ten
<1> DEFINE F(i) == <<l[i][1], Places[i], l[i][2]>>
<1>3. {F(i) : i \in 1..k} = {F(i) : i \in 1..(k - 1)} \cup {F(k)}
  <2> HIDE DEF F
  <2> QED BY <1>2
<1>4. PlacedUpTo(l, k - 1) = [at |-> {F(i) : i \in 1..(k - 1)}, size |-> Places[k]]
  BY <1>2 DEF PlacedUpTo
<1>5. RoundUp(Places[k], l[k][3]) = Places[k] /\ Places[k] + l[k][2] = Places[k + 1]
  BY DEF Tight
<1>6. Put(PlacedUpTo(l, k - 1), l[k]) =
        [at |-> {F(i) : i \in 1..(k - 1)} \cup {F(k)}, size |-> Places[k + 1]]
  <2> PICK before : before = {F(i) : i \in 1..(k - 1)}
    OBVIOUS
  <2>1. PlacedUpTo(l, k - 1).at = before /\ PlacedUpTo(l, k - 1).size = Places[k]
    BY <1>4
  <2> QED BY <1>5, <2>1 DEF Put
<1> QED BY <1>1, <1>3, <1>6 DEF PlacedUpTo

LEMMA TightLayout ==
  ASSUME NEW l, Layout(l), Tight(l)
  PROVE  Placing(l)[Ten] = PlacedUpTo(l, 10)
<1>1. PICK g : g = Placing(l)
  OBVIOUS
<1> DEFINE Good(k) == g[1..k] = PlacedUpTo(l, k)
<1>2. \A k \in Ten : Good(k - 1) => Good(k)
  BY <1>1, TightStep
<1>3. Good(0)
  <2>1. g[{}] = Unplaced
    BY <1>1, PlacingRecursion
  <2>2. 1..0 = {} /\ Places[0 + 1] = 0
    BY DEF Places
  <2> QED BY <2>1, <2>2 DEF PlacedUpTo, Unplaced
<1> HIDE DEF Good
<1>4. Good(2)
  <2>1. 1 \in Ten /\ 2 \in Ten /\ 1 - 1 = 0 /\ 2 - 1 = 1
    BY DEF Ten
  <2> QED BY <1>2, <1>3, <2>1, Zenon
<1>5. Good(4)
  <2>1. 3 \in Ten /\ 4 \in Ten /\ 3 - 1 = 2 /\ 4 - 1 = 3
    BY DEF Ten
  <2> QED BY <1>2, <1>4, <2>1, Zenon
<1>6. Good(6)
  <2>1. 5 \in Ten /\ 6 \in Ten /\ 5 - 1 = 4 /\ 6 - 1 = 5
    BY DEF Ten
  <2> QED BY <1>2, <1>5, <2>1, Zenon
<1>7. Good(8)
  <2>1. 7 \in Ten /\ 8 \in Ten /\ 7 - 1 = 6 /\ 8 - 1 = 7
    BY DEF Ten
  <2> QED BY <1>2, <1>6, <2>1, Zenon
<1>8. Good(10)
  <2>1. 9 \in Ten /\ 10 \in Ten /\ 9 - 1 = 8 /\ 10 - 1 = 9
    BY DEF Ten
  <2> QED BY <1>2, <1>7, <2>1, Zenon
<1> QED BY <1>1, <1>8 DEF Good, Ten

(* What is in the two layouts: the same fields of the same widths, whose   *)
(* alignment is the width in C (but for the padding) and 1 in Python.      *)
Names == <<"timestamp_ns", "temp_millideg", "fan_rpm", "power_uw",
           "core_freq_mhz", "mem_freq_mhz", "gpu_util_pct", "mem_util_pct",
           "throttle_reasons", "_pad">>
Widths == <<8, 4, 4, 8, 4, 4, 4, 4, 1, 7>>

LEMMA TenIs ==
  \A i : i \in Ten <=> i \in {1, 2, 3, 4, 5, 6, 7, 8, 9, 10}
BY DEF Ten

LEMMA WidthsFit ==
  \A i \in Ten : /\ Widths[i] \in Nat \ {0} /\ Places[i] \in Nat
                 /\ Places[i] + Widths[i] = Places[i + 1]
BY TenIs DEF Widths, Places

LEMMA CLayoutIs ==
  /\ DOMAIN CLayout = Ten /\ Len(CLayout) = 10
  /\ \A i \in Ten : CLayout[i][1] = Names[i] /\ CLayout[i][2] = Widths[i]
  /\ \A i \in Ten : CLayout[i][3] = IF i = 10 THEN 1 ELSE Widths[i]
<1>1. DOMAIN CLayout = Ten /\ Len(CLayout) = 10
  BY DEF CLayout, Ten
<1>2. \A i \in Ten : CLayout[i] = <<Names[i], Widths[i], IF i = 10 THEN 1 ELSE Widths[i]>>
  BY TenIs DEF CLayout, Names, Widths
<1> QED BY <1>1, <1>2

LEMMA PyLayoutIs ==
  /\ DOMAIN PyLayout = Ten /\ Len(PyLayout) = 10
  /\ \A i \in Ten : PyLayout[i][1] = Names[i] /\ PyLayout[i][2] = Widths[i]
  /\ \A i \in Ten : PyLayout[i][3] = 1
<1>1. DOMAIN PyLayout = Ten /\ Len(PyLayout) = 10
  BY DEF PyLayout, Ten
<1>2. \A i \in Ten : PyLayout[i] = <<Names[i], Widths[i], 1>>
  BY TenIs DEF PyLayout, Names, Widths
<1> QED BY <1>1, <1>2

LEMMA CIsTight == Layout(CLayout) /\ Tight(CLayout)
<1>1. \A i \in Ten : CLayout[i][2] \in Nat /\ CLayout[i][3] \in Nat \ {0}
  BY CLayoutIs, WidthsFit
<1>2. \A i \in Ten : RoundUp(Places[i], IF i = 10 THEN 1 ELSE Widths[i]) = Places[i]
  BY TenIs DEF RoundUp, Places, Widths
<1> QED BY <1>1, <1>2, CLayoutIs, WidthsFit DEF Layout, Tight

LEMMA PyIsTight == Layout(PyLayout) /\ Tight(PyLayout)
<1>1. \A i \in Ten : PyLayout[i][2] \in Nat /\ PyLayout[i][3] \in Nat \ {0}
  BY PyLayoutIs, WidthsFit
<1>2. \A i \in Ten : RoundUp(Places[i], 1) = Places[i]
  BY WidthsFit DEF RoundUp
<1> QED BY <1>1, <1>2, PyLayoutIs, WidthsFit DEF Layout, Tight

LEMMA MaxIs ==
  ASSUME NEW S \in SUBSET Int, NEW n \in S, \A y \in S : n >= y
  PROVE  Max(S) = n
<1>1. \A x \in S : (\A y \in S : x >= y) => x = n
  OBVIOUS
<1> QED BY <1>1 DEF Max

Fields == {<<Names[i], Places[i], Widths[i]>> : i \in Ten}

(* C puts every field of struct gpu_sample where the format string of      *)
(* consumer.py looks for it, and both take 48 bytes: the alignment of C    *)
(* moves no field (gpu_telem_uapi.h:35-47, consumer.py:53-55).             *)
THEOREM OffsetsAre ==
  /\ COffsets.at = Fields /\ COffsets.size = 48
  /\ PyOffsets.at = Fields /\ PyOffsets.size = 48
<1>1. Places[10 + 1] = 48
  BY DEF Places
<1>2. /\ PlacedUpTo(CLayout, 10) = [at |-> Fields, size |-> 48]
      /\ PlacedUpTo(PyLayout, 10) = [at |-> Fields, size |-> 48]
  <2>1. {<<CLayout[i][1], Places[i], CLayout[i][2]>> : i \in 1..10} = Fields
    BY CLayoutIs DEF Fields, Ten
  <2>2. {<<PyLayout[i][1], Places[i], PyLayout[i][2]>> : i \in 1..10} = Fields
    BY PyLayoutIs DEF Fields, Ten
  <2> QED BY <1>1, <2>1, <2>2, Zenon DEF PlacedUpTo
<1>3. Max({CLayout[i][3] : i \in 1..Len(CLayout)}) = 8
  <2> DEFINE S == {CLayout[i][3] : i \in 1..Len(CLayout)}
  <2>1. 8 \in S /\ \A y \in S : y \in {8, 4, 1}
    BY CLayoutIs, TenIs DEF Ten, Widths
  <2> HIDE DEF S
  <2>2. \A y \in S : y \in Int /\ 8 >= y
    BY <2>1
  <2>3. Max(S) = 8
    BY <2>1, <2>2, MaxIs
  <2> QED BY <2>3 DEF S
<1>4. Max({PyLayout[i][3] : i \in 1..Len(PyLayout)}) = 1
  <2>1. {PyLayout[i][3] : i \in 1..Len(PyLayout)} = {1}
    BY PyLayoutIs, TenIs DEF Ten
  <2>2. 1 \in {1} /\ {1} \subseteq Int /\ \A y \in {1} : 1 >= y
    OBVIOUS
  <2>3. Max({1}) = 1
    BY <2>2, MaxIs
  <2> QED BY <2>1, <2>3
<1>5. RoundUp(48, 8) = 48 /\ RoundUp(48, 1) = 48
  BY DEF RoundUp
<1>6. COffsets = [at |-> Fields, size |-> 48]
  <2>1. COffsets = [PlacedUpTo(CLayout, 10) EXCEPT !.size = RoundUp(@, 8)]
    BY <1>3, CLayoutIs, CIsTight, TightLayout, OffsetsArePlaced DEF COffsets
  <2> QED BY <1>2, <1>5, <2>1
<1>7. PyOffsets = [at |-> Fields, size |-> 48]
  <2>1. PyOffsets = [PlacedUpTo(PyLayout, 10) EXCEPT !.size = RoundUp(@, 1)]
    BY <1>4, PyLayoutIs, PyIsTight, TightLayout, OffsetsArePlaced DEF PyOffsets
  <2> QED BY <1>2, <1>5, <2>1
<1> QED BY <1>6, <1>7

(* No two fields are at one place, so Python finds under each name what C  *)
(* has put there under that name.                                          *)
LEMMA UnpackedIs ==
  ASSUME NEW x, NEW s \in Sensor
  PROVE  Unpacked(s, x) = {x[s]}
<1>1. \A i, j \in Ten : Places[i] = Places[j] => i = j
  BY TenIs DEF Places
<1>2. ASSUME NEW t \in Sensor, FieldOf[t] = FieldOf[s]
      PROVE  t = s
  BY <1>2 DEF FieldOf, Sensor
<1>3. \E i \in Ten : Names[i] = FieldOf[s]
  <2>1. 2 \in Ten /\ 3 \in Ten /\ 4 \in Ten /\ 5 \in Ten
    BY TenIs
  <2> QED BY <2>1 DEF Names, FieldOf, Sensor
<1> DEFINE Found(t) == \E f \in COffsets.at, g \in PyOffsets.at :
              f[1] = FieldOf[t] /\ g[1] = FieldOf[s] /\ f[2] = g[2] /\ f[3] = g[3]
<1>4. ASSUME NEW t \in Sensor, Found(t)
      PROVE  t = s
  <2>1. PICK f \in Fields, g \in Fields :
           f[1] = FieldOf[t] /\ g[1] = FieldOf[s] /\ f[2] = g[2]
    BY <1>4, OffsetsAre
  <2>2. PICK i \in Ten : f = <<Names[i], Places[i], Widths[i]>>
    BY DEF Fields
  <2>3. PICK j \in Ten : g = <<Names[j], Places[j], Widths[j]>>
    BY DEF Fields
  <2>4. i = j
    BY <1>1, <2>1, <2>2, <2>3
  <2> QED BY <1>2, <2>1, <2>2, <2>3, <2>4
<1>5. Found(s)
  <2>1. PICK i \in Ten : Names[i] = FieldOf[s]
    BY <1>3
  <2>2. PICK f \in Fields : f = <<Names[i], Places[i], Widths[i]>>
    BY DEF Fields
  <2>3. f[1] = FieldOf[s]
    BY <2>1, <2>2
  <2> QED BY <2>3, OffsetsAre
<1> HIDE DEF Found
<1>6. {t \in Sensor : Found(t)} = {s}
  BY <1>4, <1>5
<1>7. {x[t] : t \in {t \in Sensor : Found(t)}} = {x[s]}
  BY <1>6
<1> QED BY <1>7 DEF Unpacked, Found
=============================================================================
