--------------------------- MODULE ShowControl_proofs --------------------------
(***************************************************************************)
(* ShowControl for every set of cue definitions, scenes and levels: the    *)
(* fields keep their shape, overrides stay active, active cues stay in a   *)
(* definite order, and every weight stays between dark and full.           *)
(***************************************************************************)
EXTENDS ShowControl, FiniteSets, SequenceTheorems, FiniteSetTheorems, WellFoundedInduction, TLAPS

--------------------------------------------------------------------------------
(* Least numbers, induction and recursion over a range of numbers.             *)

(* A finite set of numbers has a least one: the member before which the        *)
(* fewest others lie.                                                          *)
LEMMA LeastExists ==
  ASSUME NEW S, S \subseteq Int, IsFiniteSet(S), S # {}
  PROVE  \E x \in S : \A y \in S : x <= y
<1>. DEFINE UpTo(x) == {y \in S : y <= x}
            Starts == {UpTo(x) : x \in S}
<1>1. PICK A \in Starts : \A B \in Starts : <<B, A>> \notin StrictSubsetOrdering(S)
  <2>1. IsWellFoundedOn(StrictSubsetOrdering(S), FiniteSubsetsOf(S))
    BY FS_StrictSubsetOrderingWellFounded
  <2>2. Starts \subseteq FiniteSubsetsOf(S)
    BY FS_Subset DEF FiniteSubsetsOf
  <2>3. Starts # {}
    OBVIOUS
  <2>. HIDE DEF Starts
  <2>. QED BY <2>1, <2>2, <2>3, WFMin
<1>2. PICK x \in S : A = UpTo(x)
  OBVIOUS
<1>3. \A y \in S : x <= y
  <2>. SUFFICES ASSUME NEW y \in S, ~ (x <= y) PROVE FALSE
    OBVIOUS
  <2>1. x \in Int /\ y \in Int /\ \A z \in S : z \in Int
    OBVIOUS
  <2>2. y <= y /\ x <= x /\ \A z \in S : z <= y => z <= x
    BY <2>1
  <2>3. UpTo(y) \in SUBSET S /\ UpTo(x) \in SUBSET S /\ UpTo(y) \in Starts
    OBVIOUS
  <2>4. UpTo(y) \subseteq UpTo(x)
    BY <2>2
  <2>5. x \in UpTo(x) /\ x \notin UpTo(y)
    BY <2>2
  <2>. HIDE DEF UpTo, Starts
  <2>6. <<UpTo(y), A>> \in StrictSubsetOrdering(S)
    BY <1>2, <2>3, <2>4, <2>5 DEF StrictSubsetOrdering
  <2>. QED BY <1>1, <2>3, <2>6
<1>. QED BY <1>3

(* A set that has 0 and, with every number, the next one has all up to a       *)
(* bound: else the least it lacks would follow one it has.                     *)
LEMMA Induction ==
  ASSUME NEW n \in Nat, NEW P, 0 \in P, \A i \in 1 .. n : i - 1 \in P => i \in P
  PROVE  0 .. n \subseteq P
<1>. DEFINE Lacks == {i \in 0 .. n : i \notin P}
<1>1. SUFFICES ASSUME Lacks # {} PROVE FALSE
  OBVIOUS
<1>2. IsFiniteSet(Lacks) /\ Lacks \subseteq Int
  <2>1. Lacks \subseteq 0 .. n /\ 0 .. n \subseteq Int
    OBVIOUS
  <2>2. IsFiniteSet(0 .. n)
    BY FS_Interval
  <2>. HIDE DEF Lacks
  <2>. QED BY <2>1, <2>2, FS_Subset
<1>3. PICK i \in Lacks : \A j \in Lacks : i <= j
  <2>. HIDE DEF Lacks
  <2>. QED BY <1>1, <1>2, LeastExists
<1>4. i \in 1 .. n
  <2>1. i \in 0 .. n /\ i # 0
    OBVIOUS
  <2>. QED BY <2>1
<1>5. i - 1 \in 0 .. n /\ ~ (i <= i - 1)
  BY <1>4
<1>. QED BY <1>3, <1>4, <1>5

\* n steps from states to states, and the states they lead through.
Steps(n, S) == [1 .. n -> [S -> S]]

IsRun(f, n, S, base, step) ==
  f \in [0 .. n -> S] /\ f[0] = base /\ \A i \in 1 .. n : f[i] = step[i][f[i - 1]]

(* A step for every number up to a bound, from a state to a state, makes a     *)
(* run of states.                                                              *)
LEMMA Recursion ==
  ASSUME NEW n \in Nat, NEW S, NEW base \in S, NEW step \in Steps(n, S)
  PROVE  \E f : IsRun(f, n, S, base, step)
<1>. DEFINE Run(f, m) == f \in [0 .. m -> S] /\ f[0] = base /\ \A i \in 1 .. m : f[i] = step[i][f[i - 1]]
            P == {m \in 0 .. n : \E f : Run(f, m)}
<1>1. 0 \in P
  <2>. DEFINE f == [i \in 0 .. 0 |-> base]
  <2>1. f \in [0 .. 0 -> S] /\ f[0] = base /\ 1 .. 0 = {}
    OBVIOUS
  <2>. HIDE DEF f
  <2>2. Run(f, 0)
    BY <2>1
  <2>. HIDE DEF Run
  <2>. QED BY <2>2
<1>2. ASSUME NEW m \in 1 .. n, m - 1 \in P
      PROVE  m \in P
  <2>1. PICK f : Run(f, m - 1)
    BY <1>2
  <2>. DEFINE g == [i \in 0 .. m |-> IF i = m THEN step[m][f[m - 1]] ELSE f[i]]
  <2>2. m - 1 \in Nat /\ m \in Nat /\ m - 1 \in 0 .. m - 1
    OBVIOUS
  <2>3. \A i \in 0 .. m : i # m => i \in 0 .. m - 1
    BY <2>2
  <2>4. step[m][f[m - 1]] \in S
    BY <2>1, <2>2 DEF Steps
  <2>5. g \in [0 .. m -> S]
    BY <2>1, <2>3, <2>4
  <2>6. g[0] = base /\ g[m] = step[m][f[m - 1]]
    BY <2>1, <2>2
  <2>7. \A i \in 1 .. m - 1 : g[i] = f[i] /\ g[i - 1] = f[i - 1]
    BY <2>2
  <2>8. g[m - 1] = f[m - 1]
    BY <2>2
  <2>9. \A i \in 1 .. m : g[i] = step[i][g[i - 1]]
    <3>1. TAKE i \in 1 .. m
    <3>2. CASE i = m
      BY <2>6, <2>8, <3>2
    <3>3. CASE i # m
      <4>1. i \in 1 .. m - 1
        BY <2>2, <3>3
      <4>2. f[i] = step[i][f[i - 1]]
        BY <2>1, <4>1
      <4>. QED BY <2>7, <4>1, <4>2
    <3>. QED BY <3>2, <3>3
  <2>. HIDE DEF g
  <2>10. Run(g, m)
    BY <2>5, <2>6, <2>9
  <2>11. m \in 0 .. n
    OBVIOUS
  <2>. QED BY <2>10, <2>11
<1>3. n \in P
  <2>1. n \in 0 .. n
    OBVIOUS
  <2>. HIDE DEF P
  <2>2. 0 .. n \subseteq P
    BY <1>1, <1>2, Induction
  <2>. QED BY <2>1, <2>2
<1>4. PICK f : Run(f, n)
  BY <1>3
<1>5. IsRun(f, n, S, base, step)
  BY <1>4 DEF IsRun
<1>. HIDE DEF Run, P
<1>. QED BY <1>5

--------------------------------------------------------------------------------
(* A proper part of a weight lies between nothing and the whole.               *)
LEMMA ShareBounds ==
  ASSUME NEW w \in Nat, NEW d \in Nat \ {0}, NEW n \in 0 .. d
  PROVE  Share(w, n, d) \in 0 .. w
<1>. DEFINE q == (w * n) \div d
<1>1. w * n \in Nat /\ w * n <= w * d /\ w * d \in Nat
  <2>1. w * d = w * n + w * (d - n) /\ w * (d - n) \in Nat /\ w * n \in Nat /\ w * d \in Nat
    OBVIOUS
  <2>. QED BY <2>1
<1>2. q \in Int /\ q * d <= w * n /\ w * n < q * d + d
  BY <1>1
<1>3. q >= 0
  BY <1>1, <1>2
<1>4. q <= w
  <2>1. SUFFICES ASSUME q >= w + 1 PROVE FALSE
    BY <1>2
  <2>2. q * d >= w * d + d
    BY <2>1, <1>2
  <2>. QED BY <2>2, <1>1, <1>2
<1>. QED BY <1>2, <1>3, <1>4 DEF Share

--------------------------------------------------------------------------------
(* The inductive invariant.                                                    *)

ShowInv == TypeOK /\ OverrideIsActive /\ ActiveOrder

LEMMA ConstantTypes ==
  /\ MaxCues \in Nat /\ MaxScenes \in Nat /\ MaxSeq \in Nat
  /\ MaxLag \in Nat /\ Horizon \in Nat /\ MaxLag <= Horizon
  /\ Full \in Nat \ {0} /\ Levels \subseteq 1 .. Full
BY ShowAssumption

(* A defined cue has a definition, whose times are natural numbers.            *)
LEMMA DefinedCue ==
  ASSUME TypeOK, NEW c \in Defined
  PROVE  /\ c \in Cue
         /\ cues[c] \in CueDefs
         /\ cues[c].fadeIn \in Nat /\ cues[c].hold \in Nat /\ cues[c].fadeOut \in Nat
<1>1. cues \in Seq(CueDefs) /\ Len(cues) \in Nat /\ Len(cues) <= MaxCues /\ c \in 1 .. Len(cues)
  BY LenProperties DEF TypeOK, Defined
<1>2. c \in Cue
  BY <1>1, ConstantTypes DEF Cue
<1>3. cues[c] \in CueDefs
  BY <1>1, ElementOfSeq
<1>. QED BY <1>2, <1>3, ShowAssumption DEF CueAssumption

(* An unreleased cue's weight stays between dark and full at every time.       *)
LEMMA RiseBounds ==
  ASSUME NEW d, d.fadeIn \in Nat, d.hold \in Nat, d.fadeOut \in Nat, NEW e \in Int
  PROVE  Rise(d, e) \in 0 .. Full
<1>. USE ConstantTypes
<1>1. CASE e < 0
  BY <1>1 DEF Rise, HeldEnd
<1>2. CASE e >= 0 /\ e < d.fadeIn
  <2>1. Share(Full, e, d.fadeIn) \in 0 .. Full
    BY <1>2, ShareBounds
  <2>. QED BY <1>2, <2>1 DEF Rise, HeldEnd
<1>3. CASE e >= d.fadeIn /\ (d.hold = 0 \/ e < HeldEnd(d))
  BY <1>3 DEF Rise, HeldEnd
<1>4. CASE d.hold > 0 /\ e >= HeldEnd(d) /\ e < TotalTime(d)
  <2>1. /\ d.fadeOut \in Nat \ {0} /\ TotalTime(d) - e \in 0 .. d.fadeOut
        /\ ~ (e < 0) /\ ~ (e < d.fadeIn) /\ ~ (e < HeldEnd(d))
    BY <1>4 DEF TotalTime, HeldEnd
  <2>2. Share(Full, TotalTime(d) - e, d.fadeOut) \in 0 .. Full
    BY <2>1, ShareBounds
  <2>. QED BY <1>4, <2>1, <2>2 DEF Rise
<1>5. CASE /\ ~ (e < 0) /\ ~ (e < d.fadeIn)
           /\ ~ (e >= d.fadeIn /\ (d.hold = 0 \/ e < HeldEnd(d)))
           /\ ~ (d.hold > 0 /\ e >= HeldEnd(d) /\ e < TotalTime(d))
  BY <1>5 DEF Rise
<1>. QED BY <1>1, <1>2, <1>3, <1>4, <1>5

(* A falling cue's weight stays between dark and where it was released.        *)
LEMMA FallBounds ==
  ASSUME NEW d, d.fadeOut \in Nat, NEW w \in Nat, NEW e \in Nat
  PROVE  Fall(d, w, e) \in 0 .. w
<1>1. CASE e < d.fadeOut
  <2>1. d.fadeOut \in Nat \ {0} /\ d.fadeOut - e \in 0 .. d.fadeOut
    BY <1>1
  <2>. QED BY <1>1, <2>1, ShareBounds DEF Fall
<1>2. CASE ~ (e < d.fadeOut)
  BY <1>2 DEF Fall
<1>. QED BY <1>1, <1>2

(* A cue that is not falling has a weight in range at every time, a falling    *)
(* one at the time of the frame.                                               *)
LEMMA WeightBounds ==
  ASSUME TypeOK, NEW c \in Defined, NEW lag \in 0 .. MaxLag,
         c \in released => lag = 0
  PROVE  Weight(c, lag) \in 0 .. Full
<1>. USE ConstantTypes
<1>1. c \in Cue /\ level[c] \in 0 .. Full /\ goAge[c] \in Nat /\ relAge[c] \in Nat
      /\ relWeight[c] \in 0 .. Full
  BY DefinedCue DEF TypeOK
<1>2. CASE c \in manual
  BY <1>1, <1>2 DEF Weight
<1>3. CASE c \in active \ (manual \cup released)
  <2>1. Rise(cues[c], goAge[c] - lag) \in 0 .. Full
    BY <1>1, DefinedCue, RiseBounds
  <2>. QED BY <1>3, <2>1 DEF Weight
<1>4. CASE c \in (active \cap released) \ manual
  <2>1. lag = 0 /\ relAge[c] - lag \in Nat
    BY <1>1, <1>4
  <2>2. Fall(cues[c], relWeight[c], relAge[c] - lag) \in 0 .. relWeight[c]
    <3>1. cues[c].fadeOut \in Nat /\ relWeight[c] \in Nat
      BY <1>1, DefinedCue
    <3>. QED BY <2>1, <3>1, FallBounds
  <2>. QED BY <1>1, <1>4, <2>2 DEF Weight
<1>5. CASE c \notin manual /\ c \notin active
  BY <1>5 DEF Weight
<1>. QED BY <1>2, <1>3, <1>4, <1>5

LEMMA InitShow == Init => ShowInv
<1>. SUFFICES ASSUME Init PROVE ShowInv
  OBVIOUS
<1>1. PICK show \in Shows : cues = show.cues /\ scenes = show.scenes
  BY DEF Init
<1>2. TypeOK
  BY <1>1, ConstantTypes, ShowAssumption DEF Init, TypeOK, Defined
<1>3. OverrideIsActive /\ ActiveOrder
  BY DEF Init, OverrideIsActive, ActiveOrder
<1>. QED BY <1>2, <1>3 DEF ShowInv

--------------------------------------------------------------------------------
(* Activations.                                                                *)

(* A listed cue has a place in the list.                                       *)
LEMMA PlaceOfListed ==
  ASSUME NEW S, NEW ids \in Seq(S), NEW c \in Listed(ids)
  PROVE  /\ PlaceIn(ids, c) \in 1 .. Len(ids)
         /\ ids[PlaceIn(ids, c)] = c
<1>1. PICK i \in DOMAIN ids : ids[i] = c
  BY DEF Listed
<1>2. PlaceIn(ids, c) \in DOMAIN ids /\ ids[PlaceIn(ids, c)] = c
  BY <1>1 DEF PlaceIn
<1>. QED BY <1>2, LenProperties

(* Activating a list of defined cues keeps the invariant: the numbers it hands *)
(* out are new, and different cues get different ones.                         *)
LEMMA GoEachKeepsInv ==
  ASSUME ShowInv, NEW S, NEW ids \in Seq(S), Listed(ids) \subseteq Defined,
         NEW lag \in 0 .. MaxLag, GoEach(ids, lag)
  PROVE  ShowInv'
<1>. USE ConstantTypes
<1>1. Len(ids) \in Nat /\ nextSeq \in Nat /\ nextSeq' = nextSeq + Len(ids)
  BY LenProperties DEF ShowInv, TypeOK, GoEach
<1>2. ASSUME NEW c \in Listed(ids)
      PROVE  /\ PlaceIn(ids, c) \in Nat /\ 1 <= PlaceIn(ids, c) /\ PlaceIn(ids, c) <= Len(ids)
             /\ ids[PlaceIn(ids, c)] = c /\ c \in Cue
             /\ seq'[c] = nextSeq + PlaceIn(ids, c) - 1
  <2>1. c \in Cue
    BY DefinedCue DEF ShowInv
  <2>. QED BY <1>1, <2>1, PlaceOfListed DEF GoEach
<1>3. \A c \in Cue : c \notin Listed(ids) => seq'[c] = seq[c]
  BY DEF GoEach
<1>4. TypeOK'
  <2>1. seq' \in [Cue -> Nat]
    <3>1. ASSUME NEW c \in Cue PROVE seq'[c] \in Nat
      <4>1. CASE c \in Listed(ids)
        BY <1>1, <1>2, <4>1
      <4>2. CASE c \notin Listed(ids)
        BY <1>3, <4>2 DEF ShowInv, TypeOK
      <4>. QED BY <4>1, <4>2
    <3>2. DOMAIN seq' = Cue /\ seq' = [c \in Cue |-> seq'[c]]
      BY DEF GoEach
    <3>. QED BY <3>1, <3>2
  <2>2. goAge' \in [Cue -> 0 .. Horizon]
    BY DEF ShowInv, TypeOK, GoEach
  <2>. QED BY <1>1, <2>1, <2>2 DEF ShowInv, TypeOK, GoEach, Defined
<1>5. OverrideIsActive'
  BY DEF ShowInv, OverrideIsActive, GoEach
<1>6. ActiveOrder'
  <2>1. ASSUME NEW c \in active' PROVE seq'[c] < nextSeq' /\ c \in Cue
    <3>1. CASE c \in Listed(ids)
      BY <1>1, <1>2, <3>1
    <3>2. CASE c \notin Listed(ids)
      <4>1. c \in active /\ c \in Cue
        BY <3>2, DefinedCue DEF GoEach, ShowInv, TypeOK
      <4>2. seq[c] < nextSeq /\ seq[c] \in Nat
        BY <4>1 DEF ShowInv, ActiveOrder, TypeOK
      <4>. QED BY <1>1, <1>3, <3>2, <4>1, <4>2
    <3>. QED BY <3>1, <3>2
  <2>2. ASSUME NEW c \in active', NEW d \in active', seq'[c] = seq'[d] PROVE c = d
    <3>1. ASSUME NEW x \in active' \ Listed(ids) PROVE x \in active /\ seq'[x] = seq[x] /\ seq[x] \in Nat /\ seq[x] < nextSeq
      BY <1>3, <2>1, <3>1 DEF GoEach, ShowInv, ActiveOrder, TypeOK
    <3>2. CASE c \in Listed(ids) /\ d \in Listed(ids)
      <4>1. PlaceIn(ids, c) = PlaceIn(ids, d)
        BY <1>1, <1>2, <2>2, <3>2
      <4>. QED BY <1>2, <3>2, <4>1
    <3>3. CASE c \in Listed(ids) /\ d \notin Listed(ids)
      BY <1>1, <1>2, <2>2, <3>1, <3>3
    <3>4. CASE c \notin Listed(ids) /\ d \in Listed(ids)
      BY <1>1, <1>2, <2>2, <3>1, <3>4
    <3>5. CASE c \notin Listed(ids) /\ d \notin Listed(ids)
      BY <2>2, <3>1, <3>5 DEF ShowInv, ActiveOrder
    <3>. QED BY <3>2, <3>3, <3>4, <3>5
  <2>. QED BY <2>1, <2>2 DEF ActiveOrder
<1>. QED BY <1>4, <1>5, <1>6 DEF ShowInv

(* A release only starts falls: it records weights that are in range.          *)
LEMMA ReleaseEachKeepsInv ==
  ASSUME ShowInv, NEW ids, NEW lag \in 0 .. MaxLag, ReleaseEach(ids, lag)
  PROVE  ShowInv'
<1>. USE ConstantTypes
<1>. DEFINE falling == (Listed(ids) \cap active) \ released
<1>1. /\ released' = released \cup falling
      /\ relAge' = [c \in Cue |-> IF c \in falling THEN lag ELSE relAge[c]]
      /\ relWeight' = [c \in Cue |-> IF c \in falling THEN Weight(c, lag) ELSE relWeight[c]]
      /\ UNCHANGED <<cues, scenes, active, manual, level, goAge, seq, nextSeq>>
  BY DEF ReleaseEach
<1>2. ASSUME NEW c \in falling PROVE c \in Defined /\ Weight(c, lag) \in 0 .. Full
  BY WeightBounds DEF ShowInv, TypeOK
<1>. HIDE DEF falling
<1>3. released' \subseteq Defined
  BY <1>1, <1>2 DEF ShowInv, TypeOK
<1>4. relAge' \in [Cue -> 0 .. Horizon] /\ relWeight' \in [Cue -> 0 .. Full]
  BY <1>1, <1>2 DEF ShowInv, TypeOK
<1>5. TypeOK'
  BY <1>1, <1>3, <1>4 DEF ShowInv, TypeOK, Defined
<1>6. OverrideIsActive' /\ ActiveOrder'
  BY <1>1 DEF ShowInv, OverrideIsActive, ActiveOrder
<1>. QED BY <1>5, <1>6 DEF ShowInv

(* A cue by itself is a list of one defined cue.                               *)
LEMMA SingleCue ==
  ASSUME NEW c \in Defined
  PROVE  <<c>> \in Seq(Defined) /\ Listed(<<c>>) \subseteq Defined
BY DEF Listed

(* A scene of the table is a list of defined cues.                             *)
LEMMA SceneOfTable ==
  ASSUME TypeOK, NEW s \in DOMAIN scenes
  PROVE  scenes[s] \in Seq(Cue) /\ Listed(scenes[s]) \subseteq Defined
<1>1. scenes[s] \in SceneLists
  BY LenProperties, ElementOfSeq DEF TypeOK
<1>. QED BY <1>1, ShowAssumption DEF SceneAssumption, Cue, TypeOK

LEMMA RaiseLevelKeepsInv ==
  ASSUME ShowInv, NEW c \in Cue, NEW v \in Levels, RaiseLevel(c, v)
  PROVE  ShowInv'
<1>. USE ConstantTypes
<1>1. c \in Defined /\ v \in 0 .. Full /\ nextSeq \in Nat /\ seq \in [Cue -> Nat]
  BY DEF RaiseLevel, ShowInv, TypeOK
<1>2. TypeOK'
  <2>1. level' \in [Cue -> 0 .. Full] /\ seq' \in [Cue -> Nat] /\ nextSeq' \in Nat
    BY <1>1 DEF RaiseLevel, ShowInv, TypeOK
  <2>. QED BY <1>1, <2>1 DEF RaiseLevel, ShowInv, TypeOK, Defined
<1>3. OverrideIsActive'
  BY DEF RaiseLevel, ShowInv, OverrideIsActive
<1>4. ActiveOrder'
  <2>1. CASE c \in active
    <3>1. active' = active /\ seq' = seq /\ nextSeq' = nextSeq
      BY <1>1, <2>1 DEF RaiseLevel
    <3>. QED BY <3>1 DEF ShowInv, ActiveOrder
  <2>2. CASE c \notin active
    <3>1. seq'[c] = nextSeq /\ nextSeq' = nextSeq + 1
      BY <1>1, <2>2 DEF RaiseLevel
    <3>2. ASSUME NEW d \in active' \ {c}
          PROVE d \in active /\ seq'[d] = seq[d] /\ seq[d] \in Nat /\ seq[d] < nextSeq
      BY <1>1, DefinedCue DEF RaiseLevel, ShowInv, ActiveOrder, TypeOK
    <3>. QED BY <1>1, <3>1, <3>2 DEF ShowInv, ActiveOrder
  <2>. QED BY <2>1, <2>2
<1>. QED BY <1>2, <1>3, <1>4 DEF ShowInv

(* Steps that only make fewer cues active, and override none that is not.      *)
LEMMA FewerActive ==
  ASSUME ShowInv, active' \subseteq active, seq' = seq, nextSeq' = nextSeq
  PROVE  ActiveOrder'
BY DEF ShowInv, ActiveOrder

LEMMA DropLevelKeepsInv ==
  ASSUME ShowInv, NEW c \in Cue, DropLevel(c)
  PROVE  ShowInv'
<1>1. TypeOK'
  BY ConstantTypes DEF DropLevel, ShowInv, TypeOK, Defined
<1>2. OverrideIsActive'
  BY DEF DropLevel, ShowInv, OverrideIsActive
<1>3. ActiveOrder'
  BY FewerActive DEF DropLevel
<1>. QED BY <1>1, <1>2, <1>3 DEF ShowInv

LEMMA StopAllKeepsInv ==
  ASSUME ShowInv, StopAll
  PROVE  ShowInv'
<1>1. TypeOK'
  BY DEF StopAll, ShowInv, TypeOK, Defined
<1>2. OverrideIsActive' /\ ActiveOrder'
  BY DEF StopAll, OverrideIsActive, ActiveOrder
<1>. QED BY <1>1, <1>2 DEF ShowInv

(* A frame retires no cue that a fader holds.                                  *)
LEMMA EvaluateKeepsInv ==
  ASSUME ShowInv, Evaluate
  PROVE  ShowInv'
<1>1. TypeOK'
  BY DEF Evaluate, Evaluated, ShowInv, TypeOK, Defined
<1>2. OverrideIsActive'
  BY DEF Evaluate, Evaluated, Alive, ShowInv, OverrideIsActive
<1>3. ActiveOrder'
  BY FewerActive DEF Evaluate, Evaluated
<1>. QED BY <1>1, <1>2, <1>3 DEF ShowInv

LEMMA AdvanceKeepsInv ==
  ASSUME ShowInv, NEW d \in Nat, Advance(d)
  PROVE  ShowInv'
<1>. USE ConstantTypes
<1>1. ASSUME NEW age \in 0 .. Horizon PROVE Older(age, d) \in 0 .. Horizon
  BY DEF Older
<1>2. goAge' \in [Cue -> 0 .. Horizon] /\ relAge' \in [Cue -> 0 .. Horizon]
  BY <1>1 DEF Advance, ShowInv, TypeOK
<1>3. TypeOK'
  BY <1>2 DEF Advance, ShowInv, TypeOK, Defined
<1>4. OverrideIsActive' /\ ActiveOrder'
  BY DEF Advance, ShowInv, OverrideIsActive, ActiveOrder
<1>. QED BY <1>3, <1>4 DEF ShowInv

(* A new definition leaves the cues there are defined.                         *)
LEMMA AddCueKeepsInv ==
  ASSUME ShowInv, NEW d \in CueDefs, AddCue(d)
  PROVE  ShowInv'
<1>. USE ConstantTypes
<1>1. cues \in Seq(CueDefs) /\ Len(cues) \in Nat /\ Len(cues) < MaxCues
      /\ cues' = Append(cues, d)
  BY LenProperties DEF AddCue, ShowInv, TypeOK
<1>2. cues' \in Seq(CueDefs) /\ Len(cues') = Len(cues) + 1
  BY <1>1, AppendProperties
<1>3. Defined \subseteq Defined'
  BY <1>1, <1>2, LenProperties DEF Defined
<1>4. UNCHANGED <<scenes, active, released, manual, level,
                  goAge, relAge, relWeight, seq, nextSeq>>
  BY DEF AddCue
<1>5. TypeOK'
  BY <1>1, <1>2, <1>3, <1>4 DEF ShowInv, TypeOK
<1>6. OverrideIsActive' /\ ActiveOrder'
  BY <1>4 DEF ShowInv, OverrideIsActive, ActiveOrder
<1>. QED BY <1>5, <1>6 DEF ShowInv

LEMMA AddSceneKeepsInv ==
  ASSUME ShowInv, NEW ids \in SceneLists, AddScene(ids)
  PROVE  ShowInv'
<1>. USE ConstantTypes
<1>1. /\ scenes \in Seq(SceneLists) /\ Len(scenes) \in Nat /\ Len(scenes) < MaxScenes
      /\ scenes' = Append(scenes, ids) /\ Listed(ids) \subseteq Defined
  BY LenProperties DEF AddScene, ShowInv, TypeOK
<1>2. scenes' \in Seq(SceneLists) /\ Len(scenes') = Len(scenes) + 1
  BY <1>1, AppendProperties
<1>3. ASSUME NEW s \in DOMAIN scenes' PROVE Listed(scenes'[s]) \subseteq Defined
  <2>1. s \in 1 .. Len(scenes) + 1
    BY <1>2, LenProperties
  <2>2. CASE s = Len(scenes) + 1
    BY <1>1, <2>2, AppendProperties
  <2>3. CASE s \in 1 .. Len(scenes)
    <3>1. scenes'[s] = scenes[s] /\ s \in DOMAIN scenes
      BY <1>1, <2>3, AppendProperties, LenProperties
    <3>. QED BY <3>1 DEF ShowInv, TypeOK
  <2>. QED BY <1>1, <2>1, <2>2, <2>3
<1>4. UNCHANGED <<cues, active, released, manual, level,
                  goAge, relAge, relWeight, seq, nextSeq>>
  BY DEF AddScene
<1>5. TypeOK'
  BY <1>1, <1>2, <1>3, <1>4 DEF ShowInv, TypeOK, Defined
<1>6. OverrideIsActive' /\ ActiveOrder'
  BY <1>4 DEF ShowInv, OverrideIsActive, ActiveOrder
<1>. QED BY <1>5, <1>6 DEF ShowInv

--------------------------------------------------------------------------------
(* Every step.                                                                 *)

LEMMA OperateKeepsInv == ShowInv /\ Operate => ShowInv'
<1>. SUFFICES ASSUME ShowInv, Operate PROVE ShowInv'
  OBVIOUS
<1>0. TypeOK
  BY DEF ShowInv
<1>1. CASE \E d \in CueDefs : AddCue(d)
  BY <1>1, AddCueKeepsInv
<1>2. CASE \E ids \in SceneLists : AddScene(ids)
  BY <1>2, AddSceneKeepsInv
<1>3. ASSUME NEW c \in Cue, NEW lag \in 0 .. MaxLag, Go(c, lag) PROVE ShowInv'
  BY <1>3, SingleCue, GoEachKeepsInv DEF Go
<1>4. ASSUME NEW c \in Cue, NEW lag \in 0 .. MaxLag, Release(c, lag) PROVE ShowInv'
  BY <1>4, ReleaseEachKeepsInv DEF Release
<1>5. ASSUME NEW c \in Cue, NEW v \in Levels, RaiseLevel(c, v) PROVE ShowInv'
  BY <1>5, RaiseLevelKeepsInv
<1>6. ASSUME NEW c \in Cue, DropLevel(c) PROVE ShowInv'
  BY <1>6, DropLevelKeepsInv
<1>7. ASSUME NEW s \in 1 .. MaxScenes, NEW lag \in 0 .. MaxLag, GoScene(s, lag) PROVE ShowInv'
  BY <1>0, <1>7, SceneOfTable, GoEachKeepsInv DEF GoScene
<1>8. ASSUME NEW s \in 1 .. MaxScenes, NEW lag \in 0 .. MaxLag, ReleaseScene(s, lag)
      PROVE ShowInv'
  BY <1>8, ReleaseEachKeepsInv DEF ReleaseScene
<1>9. CASE StopAll
  BY <1>9, StopAllKeepsInv
<1>. QED BY <1>1, <1>2, <1>3, <1>4, <1>5, <1>6, <1>7, <1>8, <1>9 DEF Operate

LEMMA NextKeepsInv == ShowInv /\ [Next]_vars => ShowInv'
<1>. SUFFICES ASSUME ShowInv, [Next]_vars PROVE ShowInv'
  OBVIOUS
<1>1. CASE Operate
  BY <1>1, OperateKeepsInv
<1>2. CASE Evaluate
  BY <1>2, EvaluateKeepsInv
<1>3. CASE Advance(1)
  BY <1>3, AdvanceKeepsInv
<1>4. CASE UNCHANGED vars
  BY <1>4 DEF vars, ShowInv, TypeOK, Defined, OverrideIsActive, ActiveOrder
<1>. QED BY <1>1, <1>2, <1>3, <1>4 DEF Next

--------------------------------------------------------------------------------
(* Brightness.                                                                 *)

(* More parts of a weight are at least as much.                                *)
LEMMA ShareGrows ==
  ASSUME NEW w \in Nat, NEW d \in Nat \ {0}, NEW m \in 0 .. d, NEW n \in 0 .. d, m <= n
  PROVE  Share(w, m, d) <= Share(w, n, d)
<1>. DEFINE p == (w * m) \div d
            q == (w * n) \div d
<1>1. w * m \in Nat /\ w * n \in Nat /\ w * m <= w * n
  <2>1. w * n = w * m + w * (n - m) /\ w * (n - m) \in Nat /\ w * m \in Nat /\ w * n \in Nat
    OBVIOUS
  <2>. QED BY <2>1
<1>2. p \in Int /\ p * d <= w * m /\ q \in Int /\ w * n < q * d + d
  BY <1>1
<1>3. SUFFICES ASSUME p >= q + 1 PROVE FALSE
  BY <1>2 DEF Share
<1>4. p * d >= q * d + d
  BY <1>2, <1>3
<1>. QED BY <1>1, <1>2, <1>4

(* A falling cue only gets darker.                                             *)
LEMMA FallFalls ==
  ASSUME NEW d, d.fadeOut \in Nat, NEW w \in Nat, NEW e \in Nat, NEW f \in Nat, e <= f
  PROVE  Fall(d, w, f) <= Fall(d, w, e)
<1>1. CASE f < d.fadeOut
  <2>1. /\ d.fadeOut \in Nat \ {0}
        /\ d.fadeOut - f \in 0 .. d.fadeOut /\ d.fadeOut - e \in 0 .. d.fadeOut
        /\ d.fadeOut - f <= d.fadeOut - e /\ e < d.fadeOut
    BY <1>1
  <2>. QED BY <1>1, <2>1, ShareGrows DEF Fall
<1>2. CASE ~ (f < d.fadeOut)
  <2>1. Fall(d, w, f) = 0
    BY <1>2 DEF Fall
  <2>. QED BY <2>1, FallBounds
<1>. QED BY <1>1, <1>2

(* The weights a falling cue has in a step.                                    *)
LEMMA FallingWeight ==
  ASSUME NEW c, Falling(c)
  PROVE  Weight(c, 0) = Fall(cues[c], relWeight[c], relAge[c] - 0)
BY DEF Falling, Weight

LEMMA FallingWeightNext ==
  ASSUME NEW c, Falling(c)'
  PROVE  Weight(c, 0)' = Fall(cues'[c], relWeight'[c], relAge'[c] - 0)
BY DEF Falling, Weight, Fall, Share

(* What a step has to do with a falling cue: leave its release alone, but for  *)
(* its age, or be the release.                                                 *)
LEMMA StillFalling ==
  ASSUME TypeOK, TypeOK', NEW c \in Cue, Falling(c), Falling(c)',
         cues'[c] = cues[c], relWeight'[c] = relWeight[c], relAge'[c] >= relAge[c]
  PROVE  Weight(c, 0)' <= Weight(c, 0)
<1>1. c \in Defined
  BY DEF Falling, TypeOK
<1>2. /\ cues[c].fadeOut \in Nat /\ relWeight[c] \in Nat
      /\ relAge[c] \in Nat /\ relAge'[c] \in Nat
  <2>1. cues[c].fadeOut \in Nat
    BY <1>1, DefinedCue
  <2>2. relWeight[c] \in 0 .. Full /\ relAge[c] \in 0 .. Horizon
    BY DEF TypeOK
  <2>3. relAge'[c] \in 0 .. Horizon
    BY DEF TypeOK
  <2>. QED BY <2>1, <2>2, <2>3, ConstantTypes
<1>3. Fall(cues[c], relWeight[c], relAge'[c]) <= Fall(cues[c], relWeight[c], relAge[c])
  BY <1>2, FallFalls
<1>4. relAge[c] - 0 = relAge[c] /\ relAge'[c] - 0 = relAge'[c]
  BY <1>2
<1>. QED BY <1>3, <1>4, FallingWeight, FallingWeightNext

Darkening(c) ==
  \E lag \in IF Falling(c) THEN {0} ELSE 0 .. MaxLag : Weight(c, 0)' <= Weight(c, lag)

LEMMA ReleaseDarkens ==
  ASSUME ShowInv, ShowInv', NEW ids, NEW lag \in 0 .. MaxLag, ReleaseEach(ids, lag),
         NEW c \in Cue, Falling(c)'
  PROVE  Darkening(c)
<1>. DEFINE falling == (Listed(ids) \cap active) \ released
<1>0. TypeOK /\ TypeOK'
  BY DEF ShowInv
<1>1. CASE c \in falling
  <2>1. c \in Defined /\ c \notin released /\ ~ Falling(c)
    BY <1>0, <1>1 DEF TypeOK, Falling
  <2>2. cues' = cues /\ relWeight'[c] = Weight(c, lag) /\ relAge'[c] = lag
    BY <1>1 DEF ReleaseEach
  <2>3. Weight(c, lag) \in 0 .. Full
    BY <1>0, <2>1, WeightBounds
  <2>4. cues[c].fadeOut \in Nat /\ Weight(c, lag) \in Nat /\ lag \in Nat
    BY <1>0, <2>1, <2>3, DefinedCue, ConstantTypes
  <2>5. Fall(cues[c], Weight(c, lag), lag) <= Weight(c, lag)
    BY <2>4, FallBounds
  <2>6. Weight(c, 0)' = Fall(cues[c], Weight(c, lag), lag)
    <3>1. lag - 0 = lag
      BY <2>4
    <3>. QED BY <2>2, <3>1, FallingWeightNext
  <2>7. Weight(c, 0)' <= Weight(c, lag)
    BY <2>5, <2>6
  <2>. QED BY <2>1, <2>7 DEF Darkening
<1>2. CASE c \notin falling
  <2>1. /\ cues'[c] = cues[c] /\ relWeight'[c] = relWeight[c] /\ relAge'[c] = relAge[c]
        /\ Falling(c)
    BY <1>2 DEF ReleaseEach, Falling
  <2>2. relAge[c] \in Int
    BY <1>0, ConstantTypes DEF TypeOK
  <2>3. Weight(c, 0)' <= Weight(c, 0)
    BY <1>0, <2>1, <2>2, StillFalling
  <2>. QED BY <2>1, <2>3 DEF Darkening
<1>. QED BY <1>1, <1>2

(* Any other step leaves the releases alone, but for their age.                *)
LEMMA OtherwiseDarkens ==
  ASSUME ShowInv, ShowInv', NEW c \in Cue, Falling(c)', Falling(c),
         cues'[c] = cues[c], relWeight'[c] = relWeight[c],
         relAge'[c] = relAge[c] \/ relAge'[c] >= relAge[c]
  PROVE  Darkening(c)
<1>0. TypeOK /\ TypeOK'
  BY DEF ShowInv
<1>1. relAge[c] \in Int
  <2>1. relAge[c] \in 0 .. Horizon
    BY <1>0 DEF TypeOK
  <2>. QED BY <2>1, ConstantTypes
<1>2. Weight(c, 0)' <= Weight(c, 0)
  BY <1>0, <1>1, StillFalling
<1>. QED BY <1>2 DEF Darkening

LEMMA StepDarkens ==
  ASSUME ShowInv, ShowInv', [Next]_vars, NEW c \in Cue, Falling(c)'
  PROVE  Darkening(c)
<1>0. TypeOK /\ TypeOK'
  BY DEF ShowInv
<1>1. ASSUME NEW d \in CueDefs, AddCue(d) PROVE Darkening(c)
  <2>1. Falling(c) /\ relWeight'[c] = relWeight[c] /\ relAge'[c] = relAge[c]
    BY <1>1 DEF AddCue, Falling
  <2>2. c \in 1 .. Len(cues)
    BY <1>0, <2>1, LenProperties DEF Falling, TypeOK, Defined
  <2>3. cues'[c] = cues[c]
    BY <1>0, <1>1, <2>2, AppendProperties DEF AddCue, TypeOK
  <2>. QED BY <2>1, <2>3, OtherwiseDarkens
<1>2. ASSUME NEW ids \in SceneLists, AddScene(ids) PROVE Darkening(c)
  BY <1>2, OtherwiseDarkens DEF AddScene, Falling
<1>3. ASSUME NEW ids, NEW lag, GoEach(ids, lag) PROVE Darkening(c)
  <2>1. Falling(c) /\ cues' = cues /\ relWeight' = relWeight /\ relAge' = relAge
    <3>1. c \in released /\ c \notin Listed(ids)
      BY <1>3 DEF GoEach, Falling
    <3>. QED BY <1>3, <3>1 DEF GoEach, Falling
  <2>. QED BY <2>1, OtherwiseDarkens
<1>4. ASSUME NEW b \in Cue, NEW v \in Levels, RaiseLevel(b, v) PROVE Darkening(c)
  BY <1>4, OtherwiseDarkens DEF RaiseLevel, Falling
<1>5. ASSUME NEW b \in Cue, DropLevel(b) PROVE Darkening(c)
  BY <1>5, OtherwiseDarkens DEF DropLevel, Falling
<1>6. CASE StopAll
  BY <1>6 DEF StopAll, Falling
<1>7. CASE Operate
  <2>1. ASSUME NEW b \in Cue, NEW lag \in 0 .. MaxLag, Go(b, lag) \/ Release(b, lag)
        PROVE  Darkening(c)
    BY <1>3, <2>1, ReleaseDarkens DEF Go, Release
  <2>2. ASSUME NEW s \in 1 .. MaxScenes, NEW lag \in 0 .. MaxLag,
               GoScene(s, lag) \/ ReleaseScene(s, lag)
        PROVE  Darkening(c)
    BY <1>3, <2>2, ReleaseDarkens DEF GoScene, ReleaseScene
  <2>. QED BY <1>1, <1>2, <1>4, <1>5, <1>6, <1>7, <2>1, <2>2 DEF Operate
<1>8. CASE Evaluate
  BY <1>8, OtherwiseDarkens DEF Evaluate, Evaluated, Falling
<1>9. CASE Advance(1)
  <2>1. Falling(c) /\ cues' = cues /\ relWeight' = relWeight
    BY <1>9 DEF Advance, Falling
  <2>2. relAge'[c] = Older(relAge[c], 1) /\ relAge[c] \in 0 .. Horizon
    BY <1>0, <1>9 DEF Advance, TypeOK
  <2>3. relAge'[c] >= relAge[c]
    BY <2>2, ConstantTypes DEF Older
  <2>. QED BY <2>1, <2>3, OtherwiseDarkens
<1>10. CASE UNCHANGED vars
  BY <1>10, OtherwiseDarkens DEF vars, Falling
<1>. QED BY <1>7, <1>8, <1>9, <1>10 DEF Next

--------------------------------------------------------------------------------
(* Theorems.                                                                   *)

(* The inductive invariant of every show.                                      *)
THEOREM ShowInvariant == Spec => []ShowInv
<1>. QED BY InitShow, NextKeepsInv, PTL DEF Spec

(* The controller's fields keep their shape, whatever scripts and faders do.   *)
THEOREM ShowTypeCorrect == Spec => []TypeOK
<1>1. ShowInv => TypeOK
  BY DEF ShowInv
<1>. QED BY <1>1, ShowInvariant, PTL

(* A cue a fader holds is always counted as active.                            *)
THEOREM OverrideStaysActive == Spec => []OverrideIsActive
<1>1. ShowInv => OverrideIsActive
  BY DEF ShowInv
<1>. QED BY <1>1, ShowInvariant, PTL

(* Cues active at once have different activation numbers, all handed out.      *)
THEOREM ActiveCuesAreOrdered == Spec => []ActiveOrder
<1>1. ShowInv => ActiveOrder
  BY DEF ShowInv
<1>. QED BY <1>1, ShowInvariant, PTL

(* However envelopes are interrupted, no cue is darker than dark or brighter   *)
(* than full.                                                                  *)
THEOREM WeightsStayInRange == Spec => []WeightInRange
<1>1. ShowInv => WeightInRange
  <2>. SUFFICES ASSUME ShowInv, NEW c \in Defined PROVE Weight(c, 0) \in 0 .. Full
    BY DEF WeightInRange
  <2>1. TypeOK /\ 0 \in 0 .. MaxLag
    BY ConstantTypes DEF ShowInv
  <2>. QED BY <2>1, WeightBounds
<1>. QED BY <1>1, ShowInvariant, PTL

(* A released cue never brightens until a go or a fader takes it over, however *)
(* its release, its fades and the frames interleave.                           *)
THEOREM ReleasesOnlyDarken == Spec => ReleaseNeverBrightens
<1>1. ShowInv /\ ShowInv' /\ [Next]_vars =>
        [\A c \in Cue : Falling(c)' =>
           \E lag \in IF Falling(c) THEN {0} ELSE 0 .. MaxLag :
             Weight(c, 0)' <= Weight(c, lag)]_vars
  BY StepDarkens DEF Darkening
<1>. QED BY <1>1, ShowInvariant, PTL DEF Spec, ReleaseNeverBrightens
================================================================================
