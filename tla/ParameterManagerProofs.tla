------------------------ MODULE ParameterManagerProofs ------------------------
(***************************************************************************)
(* Proofs about ParameterManager, for any components, numbers of           *)
(* parameters, values, retry limits, batch size and bounds.                *)
(*                                                                         *)
(* The walks over the parameters (the queue of indices, the retries, the   *)
(* cache) are folds.  A fold is a choice of a function on the sets of      *)
(* positions, so that first comes, by induction over the number of steps,  *)
(* that the function exists and that what each step leaves in a set the    *)
(* whole walk leaves there.  An operator cannot be a parameter of a lemma  *)
(* that is cited, so that the second is proved once for each walk.         *)
(*                                                                         *)
(* The handlers are operators on the manager's record; each keeps Good,    *)
(* the invariant of the record together with what the vehicle has and has  *)
(* said.  A step is one handler and the vehicle's answer to its requests.  *)
(***************************************************************************)
EXTENDS ParameterManager, FiniteSetTheorems, WellFoundedInduction, TLAPS

-----------------------------------------------------------------------------
(* Folds.                                                                  *)

\* Ordinary induction, over a set of numbers.
LEMMA Induction ==
  ASSUME NEW N \in SUBSET Nat, 0 \in N, \A k \in N : k + 1 \in N
  PROVE  N = Nat
<1> SUFFICES ASSUME Nat \ N # {} PROVE FALSE
  OBVIOUS
<1>1. IsWellFoundedOn(OpToRel(<, Nat), Nat)
  BY NatLessThanWellFounded
<1>2. PICK x \in Nat \ N : \A y \in Nat \ N : ~ (<<y, x>> \in OpToRel(<, Nat))
  BY <1>1, WFMin
<1>3. x \in Nat /\ x # 0
  OBVIOUS
<1>4. x - 1 \in Nat /\ x - 1 < x /\ (x - 1) + 1 = x
  BY <1>3
<1>5. x - 1 \in N
  BY <1>2, <1>3, <1>4 DEF OpToRel
<1>6. (x - 1) + 1 \in N
  BY <1>5
<1> QED BY <1>4, <1>6

\* A non-empty set of the numbers up to k has a greatest.
LEMMA GreatestIsIn ==
  ASSUME NEW k \in Nat, NEW t \in SUBSET (1 .. k), t # {}
  PROVE  /\ Max(t) \in t
         /\ \A i \in t : i <= Max(t)
<1> DEFINE down == {m \in Nat : k - m \in t}
<1>1. \E x \in t : \A y \in t : x >= y
  <2>1. IsWellFoundedOn(OpToRel(<, Nat), Nat)
    BY NatLessThanWellFounded
  <2>2. down \in SUBSET Nat
    OBVIOUS
  <2>3. down # {}
    <3>1. PICK x \in t : TRUE
      OBVIOUS
    <3>2. x \in Nat /\ x <= k
      OBVIOUS
    <3>3. k - x \in Nat /\ k - (k - x) = x
      BY <3>2
    <3> QED BY <3>3
  <2>4. PICK m \in down : \A j \in down : ~ (<<j, m>> \in OpToRel(<, Nat))
    BY <2>1, <2>2, <2>3, WFMin
  <2>5. \A y \in t : k - m >= y
    <3> SUFFICES ASSUME NEW y \in t, y > k - m PROVE FALSE
      OBVIOUS
    <3>1. k - y \in Nat /\ k - (k - y) = y /\ k - y < m
      OBVIOUS
    <3>2. k - y \in down
      BY <3>1
    <3> QED BY <2>4, <3>1, <3>2 DEF OpToRel
  <2> QED BY <2>4, <2>5
<1> QED BY <1>1 DEF Max

\* What a fold over n steps obeys: G is the step, b what it starts from.
IsFold(f, n, b, G) ==
  \A t \in SUBSET (1 .. n) :
    f[t] = IF t = {} THEN b ELSE G[f[t \ {Max(t)}], Max(t)]

\* A fold that starts in S and whose steps stay in S exists, with values in S.
LEMMA FoldExists ==
  ASSUME NEW n \in Nat, NEW S, NEW b \in S, NEW G \in [S \X (1 .. n) -> S]
  PROVE  \E f \in [SUBSET (1 .. n) -> S] : IsFold(f, n, b, G)
<1> DEFINE Q(k) == \E f \in [SUBSET (1 .. k) -> S] : IsFold(f, k, b, G)
           N == {k \in Nat : k <= n => Q(k)}
<1>1. Q(0)
  <2> DEFINE f == [t \in SUBSET (1 .. 0) |-> b]
  <2>1. 1 .. 0 = {}
    OBVIOUS
  <2>2. f \in [SUBSET (1 .. 0) -> S] /\ IsFold(f, 0, b, G)
    BY <2>1 DEF IsFold
  <2> QED BY <2>2
<1>2. ASSUME NEW k \in Nat, k + 1 <= n, Q(k) PROVE Q(k + 1)
  <2>1. PICK f \in [SUBSET (1 .. k) -> S] : IsFold(f, k, b, G)
    BY <1>2
  <2> DEFINE g == [t \in SUBSET (1 .. k + 1) |->
                     IF k + 1 \in t THEN G[f[t \ {k + 1}], k + 1] ELSE f[t]]
  <2>2. \A t \in SUBSET (1 .. k + 1) : t \ {k + 1} \in SUBSET (1 .. k)
    OBVIOUS
  <2>3. \A t \in SUBSET (1 .. k + 1) : k + 1 \notin t => t \in SUBSET (1 .. k)
    BY <2>2
  <2>4. g \in [SUBSET (1 .. k + 1) -> S]
    <3>1. k + 1 \in 1 .. n
      BY <1>2
    <3>2. ASSUME NEW t \in SUBSET (1 .. k + 1) PROVE g[t] \in S
      <4>1. CASE k + 1 \in t
        <5>1. f[t \ {k + 1}] \in S
          BY <2>1, <2>2
        <5> QED BY <3>1, <4>1, <5>1
      <4>2. CASE k + 1 \notin t
        BY <2>1, <2>3, <4>2
      <4> QED BY <4>1, <4>2
    <3> QED BY <3>2
  <2>5. ASSUME NEW t \in SUBSET (1 .. k + 1)
        PROVE  g[t] = IF t = {} THEN b ELSE G[g[t \ {Max(t)}], Max(t)]
    <3>1. CASE k + 1 \in t
      <4>1. k + 1 \in Nat /\ t # {}
        BY <1>2, <3>1
      <4>2. Max(t) \in 1 .. k + 1 /\ k + 1 <= Max(t)
        BY <3>1, <4>1, GreatestIsIn
      <4>3. Max(t) = k + 1
        BY <1>2, <4>2
      <4>4. g[t \ {k + 1}] = f[t \ {k + 1}]
        BY <2>2
      <4> QED BY <3>1, <4>3, <4>4
    <3>2. CASE k + 1 \notin t
      <4>1. t \in SUBSET (1 .. k)
        BY <2>3, <3>2
      <4>2. g[t] = f[t]
        BY <3>2
      <4>3. f[t] = IF t = {} THEN b ELSE G[f[t \ {Max(t)}], Max(t)]
        BY <2>1, <4>1 DEF IsFold
      <4>4. g[t \ {Max(t)}] = f[t \ {Max(t)}]
        BY <3>2
      <4> QED BY <4>2, <4>3, <4>4
    <3> QED BY <3>1, <3>2
  <2>6. IsFold(g, k + 1, b, G)
    BY <2>5 DEF IsFold
  <2> QED BY <2>4, <2>6
<1> HIDE DEF Q
<1>3. N = Nat
  <2>1. 0 \in N
    BY <1>1
  <2>2. ASSUME NEW k \in N PROVE k + 1 \in N
    BY <1>2
  <2>3. N \in SUBSET Nat
    OBVIOUS
  <2> HIDE DEF N
  <2> QED BY <2>1, <2>2, <2>3, Induction
<1>4. Q(n)
  BY <1>3
<1> QED BY <1>4 DEF Q

\* Parameters are finite in number, so the order is a sequence.
LEMMA OrderIsFinite == Cardinality(Params) \in Nat
<1>1. ASSUME NEW c \in Components PROVE IsFiniteSet(ParamsOf(c))
  <2>1. IsFiniteSet({c})
    BY FS_Singleton
  <2>2. Count[c] - 1 \in Int
    BY ParameterAssumption
  <2>3. IsFiniteSet(0 .. Count[c] - 1)
    BY <2>2, FS_Interval
  <2> QED BY <2>1, <2>3, FS_Product DEF ParamsOf
<1>2. IsFiniteSet({ParamsOf(c) : c \in Components})
  <2>1. IsFiniteSet(Components)
    BY ParameterAssumption
  <2>2. [c \in Components |-> ParamsOf(c)]
          \in Surjection(Components, {ParamsOf(c) : c \in Components})
    BY DEF Surjection
  <2> HIDE DEF Components
  <2> QED BY <2>1, <2>2, FS_Surjection
<1>3. IsFiniteSet(Params)
  BY <1>1, <1>2, FS_UNION DEF Params
<1> QED BY <1>3, FS_CardinalityType

\* What each step leaves in a set, the whole fold leaves there.
LEMMA FoldStays ==
  ASSUME NEW n \in Nat, NEW S, NEW f, f[{}] \in S,
         \A t \in SUBSET (1 .. n) : t # {} /\ f[t \ {Max(t)}] \in S => f[t] \in S
  PROVE  f[1 .. n] \in S
<1> DEFINE Q(k) == \A t \in SUBSET (1 .. k) : f[t] \in S
           N == {k \in Nat : k <= n => Q(k)}
<1>1. Q(0)
  <2>1. \A t \in SUBSET (1 .. 0) : t = {}
    OBVIOUS
  <2> QED BY <2>1
<1>2. ASSUME NEW k \in Nat, k + 1 <= n, Q(k) PROVE Q(k + 1)
  <2> SUFFICES ASSUME NEW t \in SUBSET (1 .. k + 1), t # {} PROVE f[t] \in S
    OBVIOUS
  <2>1. t \in SUBSET (1 .. n)
    BY <1>2
  <2>2. k + 1 \in Nat
    BY <1>2
  <2>3. Max(t) \in t /\ \A i \in t : i <= Max(t)
    BY <2>2, GreatestIsIn
  <2>4. t \ {Max(t)} \in SUBSET (1 .. k)
    <3> DEFINE m == Max(t)
    <3> HIDE DEF m
    <3>1. m \in 1 .. k + 1 /\ \A i \in t : i <= m
      BY <2>3 DEF m
    <3>2. \A i \in t \ {m} : i \in 1 .. k
      BY <1>2, <3>1
    <3> QED BY <3>2 DEF m
  <2>5. f[t \ {Max(t)}] \in S
    BY <1>2, <2>4
  <2> QED BY <2>1, <2>5
<1> HIDE DEF Q
<1>3. N = Nat
  <2>1. 0 \in N
    BY <1>1
  <2>2. ASSUME NEW k \in N PROVE k + 1 \in N
    BY <1>2
  <2>3. N \in SUBSET Nat
    OBVIOUS
  <2> HIDE DEF N
  <2> QED BY <2>1, <2>2, <2>3, Induction
<1>4. Q(n)
  BY <1>3
<1> QED BY <1>4 DEF Q

\* What FillIndex keeps, the walk keeps.
LEMMA FillIndexFold ==
  ASSUME NEW I, NEW s \in I, \A t \in I : \A p : FillIndex(t, p) \in I
  PROVE  FoldLeft(FillIndex, s, InOrder) \in I
<1> DEFINE n == Cardinality(Params)
           Is(it) == it = [t \in SUBSET DOMAIN InOrder |->
                             IF t = {} THEN s
                             ELSE FillIndex(it[t \ {Max(t)}], InOrder[Max(t)])]
           G == [x \in I \X (1 .. n) |-> FillIndex(x[1], InOrder[x[2]])]
<1>1. n \in Nat /\ DOMAIN InOrder = 1 .. n
  BY OrderIsFinite DEF InOrder
<1>2. FoldLeft(FillIndex, s, InOrder) = (CHOOSE it : Is(it))[DOMAIN InOrder]
  BY DEF FoldLeft, MapThenFoldSet
<1> HIDE DEF n
<1>3. \E it : Is(it)
  <2>1. G \in [I \X (1 .. n) -> I]
    OBVIOUS
  <2>2. \A t \in I, i \in 1 .. n : G[t, i] = FillIndex(t, InOrder[i])
    OBVIOUS
  <2> HIDE DEF G
  <2>3. PICK f \in [SUBSET (1 .. n) -> I] : IsFold(f, n, s, G)
    BY <1>1, <2>1, FoldExists
  <2>4. ASSUME NEW t \in SUBSET (1 .. n), t # {}
        PROVE  f[t] = FillIndex(f[t \ {Max(t)}], InOrder[Max(t)])
    <3>1. Max(t) \in 1 .. n
      BY <1>1, <2>4, GreatestIsIn
    <3>2. f[t \ {Max(t)}] \in I
      BY <2>3
    <3>3. f[t] = G[f[t \ {Max(t)}], Max(t)]
      BY <2>3, <2>4 DEF IsFold
    <3> QED BY <2>2, <3>1, <3>2, <3>3
  <2>5. f[{}] = s
    BY <2>3 DEF IsFold
  <2> QED BY <1>1, <2>3, <2>4, <2>5
<1>4. PICK f : Is(f) /\ f = CHOOSE it : Is(it)
  BY <1>3
<1>5. f[{}] = s
  BY <1>4
<1>6. ASSUME NEW t \in SUBSET (1 .. n), t # {}, f[t \ {Max(t)}] \in I
      PROVE  f[t] \in I
  <2>1. f[t] = FillIndex(f[t \ {Max(t)}], InOrder[Max(t)])
    BY <1>1, <1>4, <1>6
  <2> QED BY <1>6, <2>1
<1>7. f[1 .. n] \in I
  BY <1>1, <1>5, <1>6, FoldStays
<1> QED BY <1>1, <1>2, <1>4, <1>7


\* Partial functions that lose some points, gain others, or change at one.
LEMMA WithoutIs ==
  ASSUME NEW S, NEW T, NEW f \in PartialFunctions(S, T), NEW P
  PROVE  Without(f, P) \in PartialFunctions(S, T)
<1>1. PICK D \in SUBSET S : f \in [D -> T]
  BY DEF PartialFunctions
<1>2. Without(f, P) \in [D \ P -> T] /\ D \ P \in SUBSET S
  BY <1>1 DEF Without, Restrict
<1> QED BY <1>2 DEF PartialFunctions

\* A partial function that gains points.
LEMMA WithIs ==
  ASSUME NEW S, NEW T, NEW f \in PartialFunctions(S, T),
         NEW g \in PartialFunctions(S, T)
  PROVE  With(f, g) \in PartialFunctions(S, T)
<1>1. PICK D \in SUBSET S : f \in [D -> T]
  BY DEF PartialFunctions
<1>2. PICK E \in SUBSET S : g \in [E -> T]
  BY DEF PartialFunctions
<1>3. With(f, g) \in [D \cup E -> T] /\ D \cup E \in SUBSET S
  BY <1>1, <1>2 DEF With
<1> QED BY <1>3 DEF PartialFunctions

\* A partial function that changes at one point.
LEMMA ExceptIs ==
  ASSUME NEW S, NEW T, NEW f \in PartialFunctions(S, T),
         NEW x \in DOMAIN f, NEW v \in T
  PROVE  [f EXCEPT ![x] = v] \in PartialFunctions(S, T)
<1>1. PICK D \in SUBSET S : f \in [D -> T]
  BY DEF PartialFunctions
<1>2. [f EXCEPT ![x] = v] \in [D -> T]
  BY <1>1
<1> QED BY <1>2 DEF PartialFunctions

\* A constant is one.
LEMMA ConstantIs ==
  ASSUME NEW S, NEW T, NEW P \in SUBSET S, NEW v \in T
  PROVE  [x \in P |-> v] \in PartialFunctions(S, T)
<1>1. [x \in P |-> v] \in [P -> T]
  OBVIOUS
<1> QED BY <1>1 DEF PartialFunctions

\* Its points and values.
LEMMA ValuesOfPartial ==
  ASSUME NEW S, NEW T, NEW f \in PartialFunctions(S, T)
  PROVE  DOMAIN f \subseteq S /\ \A x \in DOMAIN f : f[x] \in T
BY DEF PartialFunctions

-----------------------------------------------------------------------------
(* The invariant.                                                          *)

Requests ==
  [kind : {"list"}, param : Nat] \cup [kind : {"read", "set"}, param : Params]

PMs ==
  [initialTimer : BOOLEAN, listRetries : 0 .. MaxListRetry + 1,
   waitTimer : BOOLEAN, waitingForDefault : BOOLEAN, tryftp : BOOLEAN,
   px4 : BOOLEAN, cached : BOOLEAN, known : SUBSET Components,
   waitIndex : PartialFunctions(Params, 0 .. MaxIndexRetry),
   waitName : PartialFunctions(Params, 0 .. MaxReadWriteRetry),
   waitWrite : PartialFunctions(Params, 0 .. MaxReadWriteRetry),
   batchActive : BOOLEAN, batch : SUBSET Nat, failed : BOOLEAN,
   facts : PartialFunctions(Params, Values), loaded : BOOLEAN,
   missing : BOOLEAN, file : {Empty} \cup [ParamsOf(Autopilot) -> Values],
   heard : BOOLEAN, progress : BOOLEAN, out : SUBSET Requests,
   requested : BOOLEAN, told : BOOLEAN, left : BOOLEAN,
   forgotten : SUBSET Params, reported : SUBSET Params, stale : SUBSET Params,
   partial : BOOLEAN]

\* The queue of indices keeps to its size.
QueueFits(s) == IsFiniteSet(s.batch) /\ Cardinality(s.batch) <= MaxBatchSize + 1

\* Facts are of components that have been heard of, or were read from a file in
\* part, writes are of facts, and a finished load has one or the other of the
\* autopilot.
Grounded(s) ==
  /\ \A p \in DOMAIN s.facts : p[1] \in s.known \/ (p[1] = Autopilot /\ s.partial)
  /\ DOMAIN s.waitWrite \subseteq DOMAIN s.facts
  /\ s.loaded => Autopilot \in s.known \/ s.partial

\* As long as nothing has been given up, every parameter of a component that
\* has been heard of is there or waited for - but for those in hole, and those
\* that a file lacked.
Accounted(s, hole) ==
  ~s.failed => \A c \in s.known :
                 \/ ParamsOf(c) \subseteq DOMAIN s.facts \cup DOMAIN s.waitIndex \cup hole
                 \/ c = Autopilot /\ s.partial

\* What is sent to be written waits for its answer, or has just been given up,
\* or is of a component without waiting lists.
Sets(s) == {p \in Params : [kind |-> "set", param |-> p] \in s.out}

\* Parameters that the vehicle may have changed, or not, unknown to the manager.
Open(s) == DOMAIN s.waitWrite \cup s.reported \cup s.forgotten

SetsWait(s) == \A p \in Sets(s) : p \in DOMAIN s.facts /\ p \in Open(s)

\* Of the others all that the vehicle has said and that is still on its way is
\* so, and so are the facts but for those of an older file or cache.
Agree(s) ==
  \A p \in Params \ Open(s) :
    /\ p \in DOMAIN s.facts \ s.stale => s.facts[p] = value[p]
    /\ \A m \in Range(air[p]) : m.value = value[p]

Complete(s) ==
  \A c \in s.known \cup {Autopilot} :
    ParamsOf(c) \subseteq DOMAIN s.facts \/ (c = Autopilot /\ s.partial)

\* A load that has ended since loaded was before is complete or said not to be.
TellsMissing(s, before) == ~before /\ s.loaded => s.missing \/ Complete(s)

Good(s, before, hole) ==
  /\ s \in PMs
  /\ QueueFits(s) /\ Grounded(s) /\ Accounted(s, hole) /\ SetsWait(s)
  /\ Agree(s) /\ TellsMissing(s, before)

Messages == [value : Values, indexed : BOOLEAN]

Vehicle ==
  /\ value \in [Params -> Values]
  /\ air \in [Params -> Seq(Messages)]
  /\ \A p \in Params : Len(air[p]) <= MaxAir
  /\ hash \in {"none", "match", "differ"}

IInv == Good(pm, pm.loaded, {}) /\ pm.out = {} /\ Vehicle

-----------------------------------------------------------------------------
(* The handlers' parts keep it.                                            *)

\* _checkInitialLoadComplete: nothing waits, so what has not been given up is there.
LEMMA CheckKeeps ==
  ASSUME NEW s, NEW before \in BOOLEAN, Good(s, before, {})
  PROVE  /\ Good(_checkInitialLoadComplete(s), before, {})
         /\ _checkInitialLoadComplete(s).known = s.known
         /\ Open(_checkInitialLoadComplete(s)) = Open(s)
         /\ Sets(_checkInitialLoadComplete(s)) = Sets(s)
<1> DEFINE t == [s EXCEPT !.loaded = TRUE, !.missing = s.failed]
<1>1. CASE s.loaded \/ s.waitIndex # Empty \/ ~HasDefault(s)
  BY <1>1 DEF _checkInitialLoadComplete
<1>2. CASE ~(s.loaded \/ s.waitIndex # Empty \/ ~HasDefault(s))
  <2>1. _checkInitialLoadComplete(s) = t
    BY <1>2 DEF _checkInitialLoadComplete
  <2>2. t \in PMs
    BY DEF Good, PMs
  <2>3. /\ t.known = s.known /\ t.facts = s.facts /\ t.waitWrite = s.waitWrite
        /\ t.reported = s.reported /\ t.forgotten = s.forgotten
        /\ t.stale = s.stale /\ t.batch = s.batch /\ t.failed = s.failed
        /\ t.waitIndex = s.waitIndex /\ t.out = s.out
        /\ t.missing = s.failed /\ t.partial = s.partial
    BY DEF Good, PMs
  <2>4. Autopilot \in s.known \/ s.partial
    BY <1>2 DEF Good, Grounded, HasDefault, ParamsOf
  <2>5. ~s.failed => Complete(s)
    <3>1. DOMAIN s.waitIndex = {}
      BY <1>2 DEF Empty
    <3> QED BY <2>4, <3>1 DEF Good, Accounted, Complete
  <2> HIDE DEF t
  <2>6. Sets(t) = Sets(s)
    BY <2>3 DEF Sets
  <2>7. QueueFits(t) /\ Grounded(t) /\ Accounted(t, {}) /\ SetsWait(t)
    BY <2>3, <2>4, <2>6 DEF Good, QueueFits, Grounded, Accounted, SetsWait, Open
  <2>8. Open(t) = Open(s) /\ Agree(t)
    BY <2>3 DEF Good, Agree, Open
  <2>9. TellsMissing(t, before)
    BY <2>3, <2>5 DEF TellsMissing, Complete
  <2> QED BY <2>1, <2>2, <2>3, <2>7, <2>6, <2>8, <2>9 DEF Good
<1> QED BY <1>1, <1>2

\* A parameter is one of its component.
LEMMA ParamIs ==
  ASSUME NEW p \in Params
  PROVE  p[1] \in Components /\ Index(p) \in Nat /\ p \in ParamsOf(p[1])
BY DEF Params, ParamsOf, Index

\* The parameters of a component are parameters.
LEMMA OwnAreParams ==
  ASSUME NEW c \in Components
  PROVE  ParamsOf(c) \subseteq Params /\ \A p \in ParamsOf(c) : p[1] = c
BY DEF Params, ParamsOf

\* One index of the walk: given up, asked again, or left alone.
LEMMA FillIndexKeeps ==
  ASSUME NEW s, NEW before \in BOOLEAN, NEW hole, Good(s, before, hole), NEW p
  PROVE  /\ Good(FillIndex(s, p), before, hole)
         /\ FillIndex(s, p).known = s.known /\ FillIndex(s, p).stale = s.stale
         /\ Open(FillIndex(s, p)) = Open(s)
         /\ Sets(FillIndex(s, p)) = Sets(s)
<1>1. CASE \/ p \notin DOMAIN s.waitIndex
           \/ Index(p) \in s.batch
           \/ Cardinality(s.batch) > MaxBatchSize
  BY <1>1 DEF FillIndex
<1>2. CASE ~ (\/ p \notin DOMAIN s.waitIndex
              \/ Index(p) \in s.batch
              \/ Cardinality(s.batch) > MaxBatchSize)
  <2>1. /\ s \in PMs /\ s.waitIndex \in PartialFunctions(Params, 0 .. MaxIndexRetry)
        /\ s.batch \in SUBSET Nat /\ s.out \in SUBSET Requests
        /\ IsFiniteSet(s.batch)
    BY DEF Good, PMs, QueueFits
  <2>2. p \in Params /\ Index(p) \in Nat
    BY <1>2, <2>1, ValuesOfPartial, ParamIs
  <2>3. s.waitIndex[p] \in 0 .. MaxIndexRetry
    BY <1>2, <2>1, ValuesOfPartial
  <2>4. CASE s.waitIndex[p] + 1 > MaxIndexRetry
    <3> DEFINE w == Without(s.waitIndex, {p})
               t == [s EXCEPT !.failed = TRUE, !.waitIndex = w]
    <3>1. w \in PartialFunctions(Params, 0 .. MaxIndexRetry)
      BY <2>1, WithoutIs
    <3>2. FillIndex(s, p) = t
      BY <1>2, <2>4 DEF FillIndex
    <3> HIDE DEF w
    <3>3. t \in PMs
      BY <2>1, <3>1 DEF PMs
    <3>4. /\ t.known = s.known /\ t.facts = s.facts /\ t.waitWrite = s.waitWrite
          /\ t.reported = s.reported /\ t.forgotten = s.forgotten
          /\ t.stale = s.stale /\ t.batch = s.batch /\ t.failed
          /\ t.out = s.out /\ t.missing = s.missing /\ t.loaded = s.loaded
          /\ t.partial = s.partial
      BY <2>1 DEF PMs
    <3> HIDE DEF t
    <3>5. Sets(t) = Sets(s)
      BY <3>4 DEF Sets
    <3>6. QueueFits(t) /\ Grounded(t) /\ Accounted(t, hole) /\ SetsWait(t)
      BY <3>4, <3>5 DEF Good, QueueFits, Grounded, Accounted, SetsWait, Open
    <3>7. Open(t) = Open(s) /\ Agree(t)
      BY <3>4 DEF Good, Agree, Open
    <3>8. TellsMissing(t, before)
      BY <3>4 DEF Good, TellsMissing, Complete
    <3> QED BY <3>2, <3>3, <3>4, <3>6, <3>5, <3>7, <3>8 DEF Good
  <2>5. CASE ~ (s.waitIndex[p] + 1 > MaxIndexRetry)
    <3> DEFINE w == [s.waitIndex EXCEPT ![p] = @ + 1]
               b == s.batch \cup {Index(p)}
               o == s.out \cup {[kind |-> "read", param |-> p]}
               t == [s EXCEPT !.waitIndex = w, !.batch = b, !.out = o]
    <3>1. DOMAIN w = DOMAIN s.waitIndex
      OBVIOUS
    <3>2. w \in PartialFunctions(Params, 0 .. MaxIndexRetry)
      <4>1. MaxIndexRetry \in Nat
        BY ParameterAssumption
      <4>2. s.waitIndex[p] + 1 \in 0 .. MaxIndexRetry
        BY <2>3, <2>5, <4>1
      <4>3. p \in DOMAIN s.waitIndex
        BY <1>2
      <4> QED BY <2>1, <4>2, <4>3, ExceptIs
    <3>3. b \in SUBSET Nat /\ IsFiniteSet(b) /\ Cardinality(b) <= MaxBatchSize + 1
      <4>1. MaxBatchSize \in Nat
        BY ParameterAssumption
      <4>2. Cardinality(b) = Cardinality(s.batch) + 1 /\ IsFiniteSet(b)
        <5>1. Index(p) \notin s.batch
          BY <1>2
        <5>2. /\ IsFiniteSet(s.batch \cup {Index(p)})
              /\ Cardinality(s.batch \cup {Index(p)}) =
                   IF Index(p) \in s.batch THEN Cardinality(s.batch)
                   ELSE Cardinality(s.batch) + 1
          BY <2>1, FS_AddElement
        <5> QED BY <5>1, <5>2
      <4>3. Cardinality(s.batch) \in Nat
        BY <2>1, FS_CardinalityType
      <4> QED BY <1>2, <2>1, <2>2, <4>1, <4>2, <4>3
    <3>4. o \in SUBSET Requests
      BY <2>1, <2>2 DEF Requests
    <3>5. FillIndex(s, p) = t
      BY <1>2, <2>1, <2>5 DEF FillIndex, Ask, PMs
    <3>6. \A q : [kind |-> "set", param |-> q] \in o =>
                  [kind |-> "set", param |-> q] \in s.out
      OBVIOUS
    <3>7. s.out \subseteq o
      OBVIOUS
    <3> HIDE DEF w, b, o
    <3>8. t \in PMs
      BY <2>1, <3>2, <3>3, <3>4 DEF PMs
    <3>9. /\ t.known = s.known /\ t.facts = s.facts /\ t.waitWrite = s.waitWrite
          /\ t.reported = s.reported /\ t.forgotten = s.forgotten
          /\ t.stale = s.stale /\ t.batch = b /\ t.failed = s.failed
          /\ t.out = o /\ t.missing = s.missing /\ t.loaded = s.loaded
          /\ t.partial = s.partial
          /\ t.waitIndex = w
      BY <2>1 DEF PMs
    <3> HIDE DEF t
    <3>10. Sets(t) = Sets(s)
      BY <3>6, <3>9, <3>7 DEF Sets
    <3>11. QueueFits(t) /\ Grounded(t) /\ Accounted(t, hole) /\ SetsWait(t)
      BY <3>1, <3>3, <3>9, <3>10 DEF Good, QueueFits, Grounded, Accounted, SetsWait, Open
    <3>12. Open(t) = Open(s) /\ Agree(t)
      BY <3>9 DEF Good, Agree, Open
    <3>13. TellsMissing(t, before)
      BY <3>9 DEF Good, TellsMissing, Complete
    <3> QED BY <3>5, <3>8, <3>9, <3>11, <3>10, <3>12, <3>13 DEF Good
  <2> QED BY <2>4, <2>5
<1> QED BY <1>1, <1>2

\* The whole walk.
LEMMA FillKeeps ==
  ASSUME NEW s, NEW before \in BOOLEAN, NEW hole, Good(s, before, hole),
         NEW waitingParamTimeout \in BOOLEAN
  PROVE  /\ Good(_fillIndexBatchQueue(s, waitingParamTimeout), before, hole)
         /\ _fillIndexBatchQueue(s, waitingParamTimeout).known = s.known
         /\ _fillIndexBatchQueue(s, waitingParamTimeout).stale = s.stale
         /\ Open(_fillIndexBatchQueue(s, waitingParamTimeout)) = Open(s)
         /\ Sets(_fillIndexBatchQueue(s, waitingParamTimeout)) = Sets(s)
<1> DEFINE u == IF waitingParamTimeout THEN [s EXCEPT !.batch = {}] ELSE s
           I == {t \in PMs : /\ Good(t, before, hole)
                             /\ t.known = s.known /\ t.stale = s.stale
                             /\ Open(t) = Open(s) /\ Sets(t) = Sets(s)}
<1>1. u \in I
  <2>1. CASE ~waitingParamTimeout
    BY <2>1 DEF Good
  <2>2. CASE waitingParamTimeout
    <3> DEFINE t == [s EXCEPT !.batch = {}]
    <3>1. t \in PMs
      BY DEF Good, PMs
    <3>2. /\ t.known = s.known /\ t.facts = s.facts /\ t.waitWrite = s.waitWrite
          /\ t.reported = s.reported /\ t.forgotten = s.forgotten
          /\ t.stale = s.stale /\ t.batch = {} /\ t.failed = s.failed
          /\ t.out = s.out /\ t.missing = s.missing /\ t.loaded = s.loaded
          /\ t.partial = s.partial
          /\ t.waitIndex = s.waitIndex
      BY DEF Good, PMs
    <3> HIDE DEF t
    <3>3. QueueFits(t)
      <4>1. IsFiniteSet({}) /\ Cardinality({}) = 0
        BY FS_EmptySet
      <4> QED BY <3>2, <4>1, ParameterAssumption DEF QueueFits
    <3>4. Sets(t) = Sets(s)
      BY <3>2 DEF Sets
    <3>5. Grounded(t) /\ Accounted(t, hole) /\ SetsWait(t)
      BY <3>2, <3>4 DEF Good, Grounded, Accounted, SetsWait, Open
    <3>6. Open(t) = Open(s) /\ Agree(t)
      BY <3>2 DEF Good, Agree, Open
    <3>7. TellsMissing(t, before)
      BY <3>2 DEF Good, TellsMissing, Complete
    <3>8. t \in I
      BY <3>1, <3>2, <3>3, <3>5, <3>4, <3>6, <3>7 DEF Good
    <3> QED BY <2>2, <3>8 DEF t
  <2> QED BY <2>1, <2>2
<1>2. \A t \in I : \A p : FillIndex(t, p) \in I
  <2> SUFFICES ASSUME NEW t \in I, NEW p PROVE FillIndex(t, p) \in I
    OBVIOUS
  <2>1. Good(FillIndex(t, p), before, hole)
    BY FillIndexKeeps
  <2>2. /\ FillIndex(t, p).known = t.known /\ FillIndex(t, p).stale = t.stale
        /\ Open(FillIndex(t, p)) = Open(t)
        /\ Sets(FillIndex(t, p)) = Sets(t)
    BY FillIndexKeeps
  <2> QED BY <2>1, <2>2 DEF Good
<1>3. CASE s.batchActive
  <2>1. _fillIndexBatchQueue(s, waitingParamTimeout) = FoldLeft(FillIndex, u, InOrder)
    BY <1>3 DEF _fillIndexBatchQueue
  <2> HIDE DEF u, I
  <2>2. FoldLeft(FillIndex, u, InOrder) \in I
    BY <1>1, <1>2, FillIndexFold
  <2> QED BY <2>1, <2>2 DEF I
<1>4. CASE ~s.batchActive
  BY <1>4 DEF _fillIndexBatchQueue
<1> QED BY <1>3, <1>4

\* Components that have been heard of are waited for once more, or one that is
\* heard of for the first time.
LEMMA WaitForAllKeeps ==
  ASSUME NEW s, NEW before \in BOOLEAN, NEW hole, Good(s, before, hole),
         NEW comps \in SUBSET s.known, hole \subseteq UNION {ParamsOf(c) : c \in comps},
         s.loaded => before
  PROVE  /\ Good(WaitForAll(s, comps), before, {})
         /\ WaitForAll(s, comps).known = s.known
         /\ WaitForAll(s, comps).stale = s.stale
         /\ Open(WaitForAll(s, comps)) = Open(s)
         /\ Sets(WaitForAll(s, comps)) = Sets(s)
<1> DEFINE P == UNION {ParamsOf(c) : c \in comps}
           w == With(s.waitIndex, [p \in P |-> 0])
           part == s.partial /\ Autopilot \notin comps
           t == [s EXCEPT !.waitIndex = w, !.partial = part]
<1>1. /\ s \in PMs /\ s.waitIndex \in PartialFunctions(Params, 0 .. MaxIndexRetry)
      /\ s.known \in SUBSET Components /\ s.partial \in BOOLEAN
  BY DEF Good, PMs
<1>2. [p \in P |-> 0] \in PartialFunctions(Params, 0 .. MaxIndexRetry)
  <2>1. P \in SUBSET Params
    BY <1>1 DEF Params
  <2>2. 0 \in 0 .. MaxIndexRetry
    BY ParameterAssumption
  <2> QED BY <2>1, <2>2, ConstantIs
<1>3. /\ w \in PartialFunctions(Params, 0 .. MaxIndexRetry)
      /\ DOMAIN w = DOMAIN s.waitIndex \cup P
  <2>1. w \in PartialFunctions(Params, 0 .. MaxIndexRetry)
    BY <1>1, <1>2, WithIs
  <2> QED BY <2>1 DEF With
<1>4. WaitForAll(s, comps) = t
  BY <1>1 DEF WaitForAll, PMs
<1>5. P = UNION {ParamsOf(c) : c \in comps}
  OBVIOUS
<1>6. hole \subseteq P
  OBVIOUS
<1>14. part \in BOOLEAN /\ part = (s.partial /\ Autopilot \notin comps)
  BY <1>1
<1> HIDE DEF P, w, part
<1>15. s \in PMs /\ w \in PartialFunctions(Params, 0 .. MaxIndexRetry) /\ part \in BOOLEAN
  BY <1>1, <1>3, <1>14
<1>7. t \in PMs
  BY ONLY <1>15 DEF PMs
<1>8. /\ t.known = s.known /\ t.facts = s.facts /\ t.waitWrite = s.waitWrite
      /\ t.reported = s.reported /\ t.forgotten = s.forgotten
      /\ t.stale = s.stale /\ t.batch = s.batch /\ t.failed = s.failed
      /\ t.out = s.out /\ t.missing = s.missing /\ t.loaded = s.loaded
      /\ t.partial = part
      /\ t.waitIndex = w
  BY <1>1 DEF PMs
<1> HIDE DEF t
<1>10. Sets(t) = Sets(s)
  BY <1>8 DEF Sets
<1>11. QueueFits(t) /\ Grounded(t) /\ Accounted(t, {}) /\ SetsWait(t)
  <2>1. QueueFits(t) /\ SetsWait(t)
    BY <1>8, <1>10 DEF Good, QueueFits, SetsWait, Open
  <2>2. Grounded(t)
    BY <1>8, <1>14 DEF Good, Grounded
  <2>3. Accounted(t, {})
    <3> SUFFICES ASSUME ~t.failed, NEW c \in t.known
                 PROVE  \/ ParamsOf(c) \subseteq DOMAIN t.facts \cup DOMAIN t.waitIndex
                        \/ c = Autopilot /\ t.partial
      BY DEF Accounted
    <3>1. \/ ParamsOf(c) \subseteq DOMAIN s.facts \cup DOMAIN s.waitIndex \cup hole
          \/ c = Autopilot /\ s.partial
      BY <1>8 DEF Good, Accounted
    <3>2. CASE c \in comps
      <4>1. ParamsOf(c) \subseteq P
        BY <1>5, <3>2
      <4> QED BY <1>3, <1>8, <4>1
    <3>3. CASE c \notin comps
      BY <1>3, <1>6, <1>8, <1>14, <3>1, <3>3
    <3> QED BY <3>2, <3>3
  <2> QED BY <2>1, <2>2, <2>3
<1>12. Open(t) = Open(s) /\ Agree(t)
  BY <1>8 DEF Good, Agree, Open
<1>13. TellsMissing(t, before)
  BY <1>8 DEF TellsMissing
<1> QED BY <1>4, <1>7, <1>8, <1>11, <1>10, <1>12, <1>13 DEF Good

\* A component that has been heard of.
LEMMA SeenKeeps ==
  ASSUME NEW s, NEW before \in BOOLEAN, Good(s, before, {}), NEW c \in Components,
         ~before /\ s.loaded => c \in s.known
  PROVE  /\ Good(Seen(s, c), before, {})
         /\ c \in Seen(s, c).known /\ Seen(s, c).stale = s.stale
         /\ Open(Seen(s, c)) = Open(s)
         /\ Sets(Seen(s, c)) = Sets(s)
<1> DEFINE k == s.known \cup {c}
           t == [s EXCEPT !.initialTimer = FALSE, !.known = k]
<1>1. s \in PMs /\ k \in SUBSET Components
  BY DEF Good, PMs
<1>2. Seen(s, c) = IF c \in s.known THEN t ELSE WaitForAll(t, {c})
  BY DEF Seen
<1>3. c \in k /\ s.known \subseteq k /\ \A d \in k : d \in s.known \/ d = c
  OBVIOUS
<1>4. ~before /\ s.loaded => k = s.known
  OBVIOUS
<1> HIDE DEF k
<1>5. t \in PMs
  BY <1>1 DEF PMs
<1>6. /\ t.known = k /\ t.facts = s.facts /\ t.waitWrite = s.waitWrite
      /\ t.reported = s.reported /\ t.forgotten = s.forgotten
      /\ t.stale = s.stale /\ t.batch = s.batch /\ t.failed = s.failed
      /\ t.out = s.out /\ t.missing = s.missing /\ t.loaded = s.loaded
      /\ t.partial = s.partial
      /\ t.waitIndex = s.waitIndex
  BY <1>1 DEF PMs
<1> HIDE DEF t
<1>7. Sets(t) = Sets(s)
  BY <1>6 DEF Sets
<1>8. QueueFits(t) /\ Grounded(t) /\ SetsWait(t)
  BY <1>3, <1>6, <1>7 DEF Good, QueueFits, Grounded, SetsWait, Open
<1>9. Open(t) = Open(s) /\ Agree(t)
  BY <1>6 DEF Good, Agree, Open
<1>10. TellsMissing(t, before)
  BY <1>4, <1>6 DEF Good, TellsMissing, Complete
<1>11. Accounted(t, IF c \in s.known THEN {} ELSE ParamsOf(c))
  BY <1>3, <1>6 DEF Good, Accounted
<1>12. CASE c \in s.known
  BY <1>2, <1>3, <1>5, <1>6, <1>8, <1>7, <1>9, <1>10, <1>11, <1>12 DEF Good
<1>13. CASE c \notin s.known
  <2> DEFINE hole == ParamsOf(c)
             comps == {c}
             r == WaitForAll(t, comps)
  <2>1. Good(t, before, hole)
    BY <1>5, <1>8, <1>9, <1>10, <1>11, <1>13 DEF Good
  <2>2. /\ hole \subseteq UNION {ParamsOf(d) : d \in comps}
        /\ comps \in SUBSET t.known /\ (t.loaded => before)
    BY <1>3, <1>4, <1>6, <1>13
  <2>4. Seen(s, c) = r
    BY <1>2, <1>13
  <2> HIDE DEF hole, comps
  <2>3. /\ Good(r, before, {}) /\ r.known = t.known /\ r.stale = t.stale
        /\ Open(r) = Open(t) /\ Sets(r) = Sets(t)
    BY <2>1, <2>2, WaitForAllKeeps
  <2> HIDE DEF r
  <2> QED BY <1>3, <1>6, <1>7, <1>9, <2>3, <2>4
<1> QED BY <1>12, <1>13

\* A value that arrives: it is the vehicle's, unless something about the
\* parameter is pending.
LEMMA ReceivedKeeps ==
  ASSUME NEW s, NEW before \in BOOLEAN, NEW p \in Params, NEW v \in Values,
         Good(s, before, {p}), p[1] \in s.known,
         p \in Open(s) \cup s.stale \/ v = value[p], Sets(s) = {}
  PROVE  /\ Good(Received(s, p, v), before, {})
         /\ Sets(Received(s, p, v)) = {}
         /\ Received(s, p, v).stale = s.stale
         /\ Received(s, p, v).known = s.known
<1> DEFINE names  == Without(s.waitName, {p})
           writes == Without(s.waitWrite, {p})
           missed == s.forgotten \cup Mistaken(s, p, v)
           facts  == With(s.facts, [q \in {p} |-> v])
           left   == [s EXCEPT !.waitName = names, !.waitWrite = writes,
                               !.forgotten = missed]
           timed  == Waiting(left) \/ ~HasDefault(left)
           t      == [left EXCEPT !.waitTimer = timed, !.facts = facts]
<1>1. /\ s \in PMs /\ s.forgotten \in SUBSET Params
      /\ s.waitName \in PartialFunctions(Params, 0 .. MaxReadWriteRetry)
      /\ s.waitWrite \in PartialFunctions(Params, 0 .. MaxReadWriteRetry)
      /\ s.facts \in PartialFunctions(Params, Values)
  BY DEF Good, PMs
<1>2. Received(s, p, v) = _checkInitialLoadComplete(t)
  BY <1>1 DEF Received, PMs
<1>3. names \in PartialFunctions(Params, 0 .. MaxReadWriteRetry)
  BY <1>1, WithoutIs
<1>4. /\ writes \in PartialFunctions(Params, 0 .. MaxReadWriteRetry)
      /\ DOMAIN writes = DOMAIN s.waitWrite \ {p}
  <2>1. writes \in PartialFunctions(Params, 0 .. MaxReadWriteRetry)
    BY <1>1, WithoutIs
  <2> QED BY <2>1 DEF Without, Restrict
<1>5. [q \in {p} |-> v] \in PartialFunctions(Params, Values)
  BY ConstantIs
<1>6. /\ facts \in PartialFunctions(Params, Values)
      /\ DOMAIN facts = DOMAIN s.facts \cup {p}
      /\ facts[p] = v
      /\ \A q \in DOMAIN s.facts \ {p} : facts[q] = s.facts[q]
  <2>1. facts \in PartialFunctions(Params, Values)
    BY <1>1, <1>5, WithIs
  <2>2. facts = [q \in DOMAIN s.facts \cup {p} |-> IF q \in {p} THEN v ELSE s.facts[q]]
    BY DEF With
  <2> QED BY <2>1, <2>2
<1>7. /\ missed \in SUBSET Params /\ s.forgotten \subseteq missed
      /\ p \in DOMAIN s.waitWrite /\ p \notin missed =>
           v = value[p] /\ \A m \in Range(air[p]) : m.value = v
  <2>1. Mistaken(s, p, v) \subseteq {p}
    BY DEF Mistaken
  <2>2. ASSUME p \in DOMAIN s.waitWrite, p \notin missed
        PROVE  v = value[p] /\ \A m \in Range(air[p]) : m.value = v
    <3>1. {s.facts[p], value[p]} \cup {m.value : m \in Range(air[p])} = {v}
      BY <2>2 DEF Mistaken
    <3> QED BY <3>1
  <2> QED BY <1>1, <2>1, <2>2
<1>8. timed \in BOOLEAN
  BY DEF Waiting, HasDefault
<1> HIDE DEF names, writes, missed, facts, timed
<1>9. t \in PMs
  <2>1. left \in PMs
    BY <1>1, <1>3, <1>4, <1>7 DEF PMs
  <2> HIDE DEF left
  <2> QED BY <2>1, <1>6, <1>8 DEF PMs
<1>10. /\ t.known = s.known /\ t.facts = facts /\ t.waitWrite = writes
       /\ t.reported = s.reported /\ t.forgotten = missed
       /\ t.stale = s.stale /\ t.batch = s.batch /\ t.failed = s.failed
       /\ t.out = s.out /\ t.missing = s.missing /\ t.loaded = s.loaded
       /\ t.partial = s.partial
       /\ t.waitIndex = s.waitIndex
  BY <1>1 DEF PMs
<1> HIDE DEF left, t
<1>11. QueueFits(t) /\ Grounded(t) /\ Accounted(t, {})
  BY <1>4, <1>6, <1>10 DEF Good, QueueFits, Grounded, Accounted
<1>12. Sets(t) = {} /\ SetsWait(t)
  BY <1>10 DEF Sets, SetsWait
<1>13. Agree(t)
  <2> SUFFICES ASSUME NEW q \in Params \ Open(t)
               PROVE  /\ q \in DOMAIN t.facts \ t.stale => t.facts[q] = value[q]
                      /\ \A m \in Range(air[q]) : m.value = value[q]
    BY DEF Agree
  <2>1. CASE q # p
    <3>1. q \notin Open(s)
      BY <1>4, <1>7, <1>10, <2>1 DEF Open
    <3> QED BY <1>6, <1>10, <2>1, <3>1 DEF Good, Agree
  <2>2. CASE q = p /\ p \in DOMAIN s.waitWrite
    BY <1>6, <1>7, <1>10, <2>2 DEF Open
  <2>3. CASE q = p /\ p \notin DOMAIN s.waitWrite
    <3>1. p \notin Open(s)
      BY <1>7, <1>10, <2>3 DEF Open
    <3> QED BY <1>6, <1>10, <2>3, <3>1 DEF Good, Agree
  <2> QED BY <2>1, <2>2, <2>3
<1>14. TellsMissing(t, before)
  BY <1>6, <1>10 DEF Good, TellsMissing, Complete
<1>15. Good(t, before, {})
  BY <1>9, <1>11, <1>12, <1>13, <1>14 DEF Good
<1>16. _checkInitialLoadComplete(t).stale = t.stale
  BY <1>9 DEF _checkInitialLoadComplete, PMs
<1>17. _checkInitialLoadComplete(t).known = t.known
  BY <1>15, CheckKeeps
<1> QED BY <1>2, <1>10, <1>12, <1>15, <1>16, <1>17, CheckKeeps

\* All fields but the timers and what only decides on them.
Books(s) ==
  <<s.known, s.facts, s.waitWrite, s.reported, s.forgotten, s.stale, s.batch,
    s.failed, s.out, s.missing, s.loaded, s.partial, s.waitIndex>>

\* What touches no book keeps Good.
LEMMA OnlyTimers ==
  ASSUME NEW s, NEW before, NEW hole, Good(s, before, hole),
         NEW t \in PMs, Books(t) = Books(s)
  PROVE  Good(t, before, hole) /\ Open(t) = Open(s) /\ Sets(t) = Sets(s)
<1>1. /\ t.known = s.known /\ t.facts = s.facts /\ t.waitWrite = s.waitWrite
      /\ t.reported = s.reported /\ t.forgotten = s.forgotten
      /\ t.stale = s.stale /\ t.batch = s.batch /\ t.failed = s.failed
      /\ t.out = s.out /\ t.missing = s.missing /\ t.loaded = s.loaded
      /\ t.partial = s.partial
      /\ t.waitIndex = s.waitIndex
  BY DEF Books
<1>2. Sets(t) = Sets(s) /\ Open(t) = Open(s)
  BY <1>1 DEF Sets, Open
<1>3. QueueFits(t) /\ Grounded(t) /\ Accounted(t, hole) /\ SetsWait(t)
  BY <1>1, <1>2 DEF Good, QueueFits, Grounded, Accounted, SetsWait, Open
<1>4. Agree(t)
  BY <1>1, <1>2 DEF Good, Agree
<1>5. TellsMissing(t, before)
  BY <1>1 DEF Good, TellsMissing, Complete
<1> QED BY <1>2, <1>3, <1>4, <1>5 DEF Good

\* _handleParamValue, for a value of the vehicle or one that is taken from it
\* by mistake of a parameter that is open anyway.
LEMMA HandleKeeps ==
  ASSUME NEW s, NEW before \in BOOLEAN, NEW p \in Params, NEW v \in Values,
         NEW indexed \in BOOLEAN,
         Good(s, before, {}), p \in Open(s) \cup s.stale \/ v = value[p], Sets(s) = {},
         ~before /\ s.loaded => p[1] \in s.known
  PROVE  /\ Good(_handleParamValue(s, p, v, indexed), before, {})
         /\ Sets(_handleParamValue(s, p, v, indexed)) = {}
         /\ _handleParamValue(s, p, v, indexed).stale = s.stale
         /\ \/ _handleParamValue(s, p, v, indexed) = s
            \/ p[1] \in _handleParamValue(s, p, v, indexed).known
<1>1. CASE ~indexed /\ s.initialTimer
  BY <1>1 DEF _handleParamValue
<1>2. CASE ~(~indexed /\ s.initialTimer)
  <2> DEFINE seen == Seen(s, p[1])
             w    == Without(seen.waitIndex, {p})
             b    == seen.batch \ {Index(p)}
             took == [seen EXCEPT !.waitIndex = w, !.batch = b]
             f    == _fillIndexBatchQueue(took, FALSE)
             r    == IF indexed /\ p \in DOMAIN seen.waitIndex THEN f ELSE seen
  <2>1. _handleParamValue(s, p, v, indexed) = Received(r, p, v)
    BY <1>2 DEF _handleParamValue
  <2>2. /\ Good(seen, before, {}) /\ p[1] \in seen.known
        /\ seen.stale = s.stale /\ Open(seen) = Open(s) /\ Sets(seen) = {}
    BY SeenKeeps, ParamIs
  <2> HIDE DEF seen
  <2>3. /\ seen \in PMs
        /\ seen.waitIndex \in PartialFunctions(Params, 0 .. MaxIndexRetry)
        /\ seen.batch \in SUBSET Nat
    BY <2>2 DEF Good, PMs
  <2>4. w \in PartialFunctions(Params, 0 .. MaxIndexRetry)
    BY <2>3, WithoutIs
  <2>5. DOMAIN w = DOMAIN seen.waitIndex \ {p}
    BY DEF Without, Restrict
  <2>6. b \in SUBSET Nat /\ IsFiniteSet(b) /\ Cardinality(b) <= MaxBatchSize + 1
    <3>1. /\ IsFiniteSet(seen.batch) /\ Cardinality(seen.batch) <= MaxBatchSize + 1
          /\ MaxBatchSize \in Nat
      BY <2>2, ParameterAssumption DEF Good, QueueFits
    <3>2. IsFiniteSet(b) /\ Cardinality(b) <= Cardinality(seen.batch)
      BY <3>1, FS_Subset
    <3>3. Cardinality(b) \in Nat /\ Cardinality(seen.batch) \in Nat
      BY <3>1, <3>2, FS_CardinalityType
    <3> HIDE DEF b
    <3>4. Cardinality(b) <= MaxBatchSize + 1
      BY <3>1, <3>2, <3>3
    <3> QED BY <2>3, <3>2, <3>4 DEF b
  <2> HIDE DEF w, b
  <2>7. took \in PMs
    BY <2>3, <2>4, <2>6 DEF PMs
  <2>8. /\ took.known = seen.known /\ took.facts = seen.facts
        /\ took.waitWrite = seen.waitWrite /\ took.reported = seen.reported
        /\ took.forgotten = seen.forgotten /\ took.stale = seen.stale
        /\ took.batch = b /\ took.failed = seen.failed /\ took.out = seen.out
        /\ took.missing = seen.missing /\ took.loaded = seen.loaded
        /\ took.partial = seen.partial
        /\ took.waitIndex = w
    BY <2>3 DEF PMs
  <2> HIDE DEF took
  <2>9. /\ QueueFits(took) /\ Grounded(took) /\ Accounted(took, {p})
        /\ Sets(took) = {} /\ SetsWait(took)
    <3>1. QueueFits(took) /\ Grounded(took) /\ Accounted(took, {p})
      BY <2>2, <2>5, <2>6, <2>8 DEF Good, QueueFits, Grounded, Accounted
    <3>2. Sets(took) = {}
      BY <2>2, <2>8 DEF Sets
    <3> QED BY <3>1, <3>2 DEF SetsWait
  <2>10. Open(took) = Open(s) /\ Agree(took)
    BY <2>2, <2>8 DEF Good, Agree, Open
  <2>11. TellsMissing(took, before)
    BY <2>2, <2>8 DEF Good, TellsMissing, Complete
  <2>12. Good(took, before, {p})
    BY <2>7, <2>9, <2>10, <2>11 DEF Good
  <2>13. /\ Good(f, before, {p}) /\ f.known = seen.known /\ f.stale = s.stale
         /\ Open(f) = Open(s) /\ Sets(f) = {}
    BY <2>2, <2>8, <2>9, <2>10, <2>12, FillKeeps
  <2>14. Good(seen, before, {p})
    BY <2>2 DEF Good, Accounted
  <2> HIDE DEF f
  <2>15. /\ Good(r, before, {p}) /\ r.known = seen.known /\ r.stale = s.stale
         /\ Open(r) = Open(s) /\ Sets(r) = {}
    BY <2>2, <2>13, <2>14
  <2> HIDE DEF r
  <2> QED BY <2>1, <2>2, <2>15, ReceivedKeeps
<1> QED BY <1>1, <1>2

\* What FromCache keeps, the walk keeps.
LEMMA FromCacheFold ==
  ASSUME NEW I, NEW s \in I, \A t \in I : \A p : FromCache(t, p) \in I
  PROVE  FoldLeft(FromCache, s, InOrder) \in I
<1> DEFINE n == Cardinality(Params)
           Is(it) == it = [t \in SUBSET DOMAIN InOrder |->
                             IF t = {} THEN s
                             ELSE FromCache(it[t \ {Max(t)}], InOrder[Max(t)])]
           G == [x \in I \X (1 .. n) |-> FromCache(x[1], InOrder[x[2]])]
<1>1. n \in Nat /\ DOMAIN InOrder = 1 .. n
  BY OrderIsFinite DEF InOrder
<1>2. FoldLeft(FromCache, s, InOrder) = (CHOOSE it : Is(it))[DOMAIN InOrder]
  BY DEF FoldLeft, MapThenFoldSet
<1> HIDE DEF n
<1>3. \E it : Is(it)
  <2>1. G \in [I \X (1 .. n) -> I]
    OBVIOUS
  <2>2. \A t \in I, i \in 1 .. n : G[t, i] = FromCache(t, InOrder[i])
    OBVIOUS
  <2> HIDE DEF G
  <2>3. PICK f \in [SUBSET (1 .. n) -> I] : IsFold(f, n, s, G)
    BY <1>1, <2>1, FoldExists
  <2>4. ASSUME NEW t \in SUBSET (1 .. n), t # {}
        PROVE  f[t] = FromCache(f[t \ {Max(t)}], InOrder[Max(t)])
    <3>1. Max(t) \in 1 .. n
      BY <1>1, <2>4, GreatestIsIn
    <3>2. f[t \ {Max(t)}] \in I
      BY <2>3
    <3>3. f[t] = G[f[t \ {Max(t)}], Max(t)]
      BY <2>3, <2>4 DEF IsFold
    <3> QED BY <2>2, <3>1, <3>2, <3>3
  <2>5. f[{}] = s
    BY <2>3 DEF IsFold
  <2> QED BY <1>1, <2>3, <2>4, <2>5
<1>4. PICK f : Is(f) /\ f = CHOOSE it : Is(it)
  BY <1>3
<1>5. f[{}] = s
  BY <1>4
<1>6. ASSUME NEW t \in SUBSET (1 .. n), t # {}, f[t \ {Max(t)}] \in I
      PROVE  f[t] \in I
  <2>1. f[t] = FromCache(f[t \ {Max(t)}], InOrder[Max(t)])
    BY <1>1, <1>4, <1>6
  <2> QED BY <1>6, <2>1
<1>7. f[1 .. n] \in I
  BY <1>1, <1>5, <1>6, FoldStays
<1> QED BY <1>1, <1>2, <1>4, <1>7

\* A cache that is used, or not.
LEMMA HashCheckKeeps ==
  ASSUME NEW s, NEW matches \in BOOLEAN, Good(s, s.loaded, {}), Sets(s) = {}
  PROVE  /\ Good(HashCheck(s, matches), s.loaded, {})
         /\ Sets(HashCheck(s, matches)) = {}
<1> DEFINE own == ParamsOf(Autopilot)
<1>1. s \in PMs /\ s.waitTimer \in BOOLEAN /\ s.left \in BOOLEAN
  BY DEF Good, PMs
<1>2. s.stale \in SUBSET Params /\ s.forgotten \in SUBSET Params /\ s.loaded \in BOOLEAN
  BY DEF Good, PMs
<1>3. own \subseteq Params /\ \A p \in own : p[1] = Autopilot
  BY OwnAreParams DEF Components
<1> DEFINE stopped == [s EXCEPT !.initialTimer = FALSE]
<1>4. CASE s.loaded
  <2>1. HashCheck(s, matches) = stopped
    BY <1>4 DEF HashCheck
  <2>2. stopped \in PMs /\ Books(stopped) = Books(s)
    BY <1>1 DEF PMs, Books
  <2> HIDE DEF stopped
  <2> QED BY <2>1, <2>2, OnlyTimers
<1>5. CASE ~s.loaded /\ matches
  <2> DEFINE st == s.stale \cup {p \in own : value[p] # 0}
             fo == s.forgotten \cup (own \cap DOMAIN s.waitWrite)
             u  == [stopped EXCEPT !.stale = st, !.forgotten = fo]
             I  == {t \in PMs : /\ Good(t, s.loaded, {}) /\ Sets(t) = {}
                                /\ t.loaded => Autopilot \in t.known
                                /\ \A p \in own : value[p] # 0 => p \in t.stale}
  <2>1. HashCheck(s, matches) = FoldLeft(FromCache, u, InOrder)
    BY <1>1, <1>5 DEF HashCheck, _tryCacheHashLoad, PMs
  <2>2. st \in SUBSET Params /\ fo \in SUBSET Params
    BY <1>2, <1>3
  <2>3. /\ s.stale \subseteq st /\ s.forgotten \subseteq fo
        /\ \A p \in own : value[p] # 0 => p \in st
    OBVIOUS
  <2> HIDE DEF st, fo, own
  <2>4. u \in PMs
    BY <1>1, <2>2 DEF PMs
  <2>5. /\ u.known = s.known /\ u.facts = s.facts /\ u.waitWrite = s.waitWrite
        /\ u.reported = s.reported /\ u.forgotten = fo
        /\ u.stale = st /\ u.batch = s.batch /\ u.failed = s.failed
        /\ u.out = s.out /\ u.missing = s.missing /\ u.loaded = s.loaded
        /\ u.partial = s.partial
        /\ u.waitIndex = s.waitIndex
    BY <1>1 DEF PMs
  <2> HIDE DEF u
  <2>6. Sets(u) = {}
    BY <2>5 DEF Sets
  <2>7. QueueFits(u) /\ Grounded(u) /\ Accounted(u, {}) /\ SetsWait(u)
    BY <2>5, <2>6 DEF Good, QueueFits, Grounded, Accounted, SetsWait, Open
  <2>8. Open(s) \subseteq Open(u)
    BY <2>3, <2>5 DEF Open
  <2>9. Agree(u)
    BY <2>3, <2>5, <2>8 DEF Good, Agree
  <2>10. TellsMissing(u, s.loaded)
    BY <2>5 DEF TellsMissing
  <2>11. u \in I
    BY <1>5, <2>3, <2>4, <2>5, <2>6, <2>7, <2>9, <2>10 DEF Good
  <2>12. \A t \in I : \A p : FromCache(t, p) \in I
    <3> SUFFICES ASSUME NEW t \in I, NEW p PROVE FromCache(t, p) \in I
      OBVIOUS
    <3>1. CASE p \notin own
      BY <3>1 DEF FromCache, own
    <3>2. CASE p \in own
      <4> DEFINE yes == TRUE
                 zero == 0
                 h == _handleParamValue(t, p, zero, yes)
      <4>1. p \in Params /\ p[1] = Autopilot /\ zero \in Values /\ yes \in BOOLEAN
        BY <1>3, <3>2, ParameterAssumption
      <4>2. p \in Open(t) \cup t.stale \/ zero = value[p]
        BY <3>2
      <4>3. ~s.loaded /\ t.loaded => p[1] \in t.known
        BY <4>1
      <4>4. Good(t, s.loaded, {}) /\ Sets(t) = {}
        OBVIOUS
      <4>5. FromCache(t, p) = h
        BY <3>2 DEF FromCache, own
      <4> HIDE DEF yes, zero
      <4>6. /\ Good(h, s.loaded, {}) /\ Sets(h) = {} /\ h.stale = t.stale
            /\ (h = t \/ p[1] \in h.known)
        BY ONLY <1>2, <4>1, <4>2, <4>3, <4>4, HandleKeeps
      <4> HIDE DEF h
      <4> QED BY <4>1, <4>5, <4>6 DEF Good
    <3> QED BY <3>1, <3>2
  <2> HIDE DEF I
  <2>13. FoldLeft(FromCache, u, InOrder) \in I
    BY <2>11, <2>12, FromCacheFold
  <2> QED BY <2>1, <2>13 DEF I
<1>6. CASE ~s.loaded /\ ~matches
  <2> DEFINE l == s.left \/ ~s.waitTimer
  <2>1. HashCheck(s, matches) = [stopped EXCEPT !.left = l]
    BY <1>1, <1>6 DEF HashCheck, PMs
  <2>2. l \in BOOLEAN
    BY <1>1
  <2> HIDE DEF l
  <2>3. [stopped EXCEPT !.left = l] \in PMs
    BY <1>1, <2>2 DEF PMs
  <2>4. Books([stopped EXCEPT !.left = l]) = Books(s)
    BY <1>1 DEF PMs, Books
  <2> HIDE DEF stopped
  <2> QED BY <2>1, <2>3, <2>4, OnlyTimers
<1> QED BY <1>2, <1>4, <1>5, <1>6

-----------------------------------------------------------------------------
(* Time-outs and requests.                                                 *)

\* A request that writes nothing.
LEMMA AskKeeps ==
  ASSUME NEW s, NEW before, NEW hole, Good(s, before, hole),
         NEW kind, NEW p, kind # "set", [kind |-> kind, param |-> p] \in Requests
  PROVE  /\ Good(Ask(s, kind, p), before, hole)
         /\ Sets(Ask(s, kind, p)) = Sets(s)
<1> DEFINE o == s.out \cup {[kind |-> kind, param |-> p]}
           t == [s EXCEPT !.out = o]
<1>1. s \in PMs /\ o \in SUBSET Requests
  BY DEF Good, PMs
<1>2. Ask(s, kind, p) = t
  BY DEF Ask
<1>3. \A q : [kind |-> "set", param |-> q] \in o <=>
              [kind |-> "set", param |-> q] \in s.out
  OBVIOUS
<1> HIDE DEF o
<1>4. t \in PMs
  BY <1>1 DEF PMs
<1>5. /\ t.known = s.known /\ t.facts = s.facts /\ t.waitWrite = s.waitWrite
      /\ t.reported = s.reported /\ t.forgotten = s.forgotten
      /\ t.stale = s.stale /\ t.batch = s.batch /\ t.failed = s.failed
      /\ t.out = o /\ t.missing = s.missing /\ t.loaded = s.loaded
      /\ t.partial = s.partial
      /\ t.waitIndex = s.waitIndex
  BY <1>1 DEF PMs
<1> HIDE DEF t
<1>6. Sets(t) = Sets(s) /\ Open(t) = Open(s)
  BY <1>3, <1>5 DEF Sets, Open
<1>7. QueueFits(t) /\ Grounded(t) /\ Accounted(t, hole) /\ SetsWait(t)
  BY <1>5, <1>6 DEF Good, QueueFits, Grounded, Accounted, SetsWait, Open
<1>8. Agree(t)
  BY <1>5, <1>6 DEF Good, Agree
<1>9. TellsMissing(t, before)
  BY <1>5 DEF Good, TellsMissing, Complete
<1> QED BY <1>2, <1>4, <1>6, <1>7, <1>8, <1>9 DEF Good

\* A write that is sent again waits, one that is given up is reported.
LEMMA RetryWriteKeeps ==
  ASSUME NEW s, NEW before, Good(s, before, {}), NEW p
  PROVE  Good(RetryWrite(s, p), before, {})
<1>1. CASE p \notin DOMAIN s.waitWrite \/ Cardinality(s.out) > MaxBatchSize
  BY <1>1 DEF RetryWrite
<1>2. CASE ~(p \notin DOMAIN s.waitWrite \/ Cardinality(s.out) > MaxBatchSize)
  <2>1. /\ s \in PMs /\ s.out \in SUBSET Requests /\ s.reported \in SUBSET Params
        /\ s.waitWrite \in PartialFunctions(Params, 0 .. MaxReadWriteRetry)
    BY DEF Good, PMs
  <2>2. p \in DOMAIN s.waitWrite
    BY <1>2
  <2>3. p \in Params /\ s.waitWrite[p] \in 0 .. MaxReadWriteRetry
    BY <2>1, <2>2, ValuesOfPartial
  <2>4. p \in DOMAIN s.facts
    BY <2>2 DEF Good, Grounded
  <2>5. CASE s.waitWrite[p] + 1 <= MaxReadWriteRetry
    <3> DEFINE w == [s.waitWrite EXCEPT ![p] = @ + 1]
               o == s.out \cup {[kind |-> "set", param |-> p]}
               t == [s EXCEPT !.waitWrite = w, !.out = o]
    <3>1. RetryWrite(s, p) = t
      BY <1>2, <2>1, <2>5 DEF RetryWrite, Ask, PMs
    <3>2. DOMAIN w = DOMAIN s.waitWrite
      OBVIOUS
    <3>3. w \in PartialFunctions(Params, 0 .. MaxReadWriteRetry)
      <4>1. s.waitWrite[p] + 1 \in 0 .. MaxReadWriteRetry
        BY <2>3, <2>5
      <4> QED BY <2>1, <2>2, <4>1, ExceptIs
    <3>4. o \in SUBSET Requests
      BY <2>1, <2>3 DEF Requests
    <3>5. \A q : [kind |-> "set", param |-> q] \in o =>
                  q = p \/ [kind |-> "set", param |-> q] \in s.out
      OBVIOUS
    <3> HIDE DEF w, o
    <3>6. t \in PMs
      BY <2>1, <3>3, <3>4 DEF PMs
    <3>7. /\ t.known = s.known /\ t.facts = s.facts /\ t.waitWrite = w
          /\ t.reported = s.reported /\ t.forgotten = s.forgotten
          /\ t.stale = s.stale /\ t.batch = s.batch /\ t.failed = s.failed
          /\ t.out = o /\ t.missing = s.missing /\ t.loaded = s.loaded
          /\ t.partial = s.partial
          /\ t.waitIndex = s.waitIndex
      BY <2>1 DEF PMs
    <3> HIDE DEF t
    <3>8. Sets(t) \subseteq Sets(s) \cup {p} /\ Open(t) = Open(s)
      BY <3>2, <3>5, <3>7 DEF Sets, Open
    <3>9. QueueFits(t) /\ Grounded(t) /\ Accounted(t, {}) /\ SetsWait(t)
      BY <2>2, <2>4, <3>2, <3>7, <3>8 DEF Good, QueueFits, Grounded, Accounted, SetsWait, Open
    <3>10. Agree(t)
      BY <3>7, <3>8 DEF Good, Agree
    <3>11. TellsMissing(t, before)
      BY <3>7 DEF Good, TellsMissing, Complete
    <3> QED BY <3>1, <3>6, <3>9, <3>10, <3>11 DEF Good
  <2>6. CASE ~(s.waitWrite[p] + 1 <= MaxReadWriteRetry)
    <3> DEFINE w == Without(s.waitWrite, {p})
               g == s.reported \cup {p}
               t == [s EXCEPT !.waitWrite = w, !.reported = g]
    <3>1. RetryWrite(s, p) = t
      BY <1>2, <2>1, <2>6 DEF RetryWrite, PMs
    <3>2. DOMAIN w = DOMAIN s.waitWrite \ {p}
      BY DEF Without, Restrict
    <3>3. w \in PartialFunctions(Params, 0 .. MaxReadWriteRetry)
      BY <2>1, WithoutIs
    <3>4. g \in SUBSET Params /\ g = s.reported \cup {p}
      BY <2>1, <2>3
    <3> HIDE DEF w, g
    <3>5. t \in PMs
      BY <2>1, <3>3, <3>4 DEF PMs
    <3>6. /\ t.known = s.known /\ t.facts = s.facts /\ t.waitWrite = w
          /\ t.reported = g /\ t.forgotten = s.forgotten
          /\ t.stale = s.stale /\ t.batch = s.batch /\ t.failed = s.failed
          /\ t.out = s.out /\ t.missing = s.missing /\ t.loaded = s.loaded
          /\ t.partial = s.partial
          /\ t.waitIndex = s.waitIndex
      BY <2>1 DEF PMs
    <3> HIDE DEF t
    <3>7. Sets(t) = Sets(s) /\ Open(t) = Open(s)
      BY <2>2, <3>2, <3>4, <3>6 DEF Sets, Open
    <3>8. QueueFits(t) /\ Grounded(t) /\ Accounted(t, {}) /\ SetsWait(t)
      BY <3>2, <3>4, <3>6, <3>7 DEF Good, QueueFits, Grounded, Accounted, SetsWait, Open
    <3>9. Agree(t)
      BY <3>6, <3>7 DEF Good, Agree
    <3>10. TellsMissing(t, before)
      BY <3>6 DEF Good, TellsMissing, Complete
    <3> QED BY <3>1, <3>5, <3>8, <3>9, <3>10 DEF Good
  <2> QED BY <2>5, <2>6
<1> QED BY <1>1, <1>2

\* A read by name that is sent again or given up.
LEMMA RetryNameKeeps ==
  ASSUME NEW s, NEW before, Good(s, before, {}), NEW p
  PROVE  Good(RetryName(s, p), before, {})
<1>1. CASE p \notin DOMAIN s.waitName \/ Cardinality(s.out) > MaxBatchSize
  BY <1>1 DEF RetryName
<1>2. CASE ~(p \notin DOMAIN s.waitName \/ Cardinality(s.out) > MaxBatchSize)
  <2>1. s \in PMs /\ s.waitName \in PartialFunctions(Params, 0 .. MaxReadWriteRetry)
    BY DEF Good, PMs
  <2>2. p \in DOMAIN s.waitName
    BY <1>2
  <2>3. p \in Params /\ s.waitName[p] \in 0 .. MaxReadWriteRetry
    BY <2>1, <2>2, ValuesOfPartial
  <2>4. \A w \in PartialFunctions(Params, 0 .. MaxReadWriteRetry) :
          Good([s EXCEPT !.waitName = w], before, {})
    <3> TAKE w \in PartialFunctions(Params, 0 .. MaxReadWriteRetry)
    <3>1. [s EXCEPT !.waitName = w] \in PMs
      BY <2>1 DEF PMs
    <3>2. Books([s EXCEPT !.waitName = w]) = Books(s)
      BY <2>1 DEF PMs, Books
    <3> QED BY <3>1, <3>2, OnlyTimers
  <2>5. CASE s.waitName[p] + 1 <= MaxReadWriteRetry
    <3> DEFINE w == [s.waitName EXCEPT ![p] = @ + 1]
    <3>1. w \in PartialFunctions(Params, 0 .. MaxReadWriteRetry)
      <4>1. s.waitName[p] + 1 \in 0 .. MaxReadWriteRetry
        BY <2>3, <2>5
      <4> QED BY <2>1, <2>2, <4>1, ExceptIs
    <3>2. RetryName(s, p) = Ask([s EXCEPT !.waitName = w], "read", p)
      BY <1>2, <2>1, <2>5 DEF RetryName, PMs
    <3>3. [kind |-> "read", param |-> p] \in Requests
      BY <2>3 DEF Requests
    <3> HIDE DEF w
    <3> QED BY <2>4, <3>1, <3>2, <3>3, AskKeeps
  <2>6. CASE ~(s.waitName[p] + 1 <= MaxReadWriteRetry)
    <3>1. Without(s.waitName, {p}) \in PartialFunctions(Params, 0 .. MaxReadWriteRetry)
      BY <2>1, WithoutIs
    <3> QED BY <1>2, <2>4, <2>6, <3>1 DEF RetryName
  <2> QED BY <2>5, <2>6
<1> QED BY <1>1, <1>2

\* What RetryWrite keeps, the walk keeps.
LEMMA RetryWriteFold ==
  ASSUME NEW I, NEW s \in I, \A t \in I : \A p : RetryWrite(t, p) \in I
  PROVE  FoldLeft(RetryWrite, s, InOrder) \in I
<1> DEFINE n == Cardinality(Params)
           Is(it) == it = [t \in SUBSET DOMAIN InOrder |->
                             IF t = {} THEN s
                             ELSE RetryWrite(it[t \ {Max(t)}], InOrder[Max(t)])]
           G == [x \in I \X (1 .. n) |-> RetryWrite(x[1], InOrder[x[2]])]
<1>1. n \in Nat /\ DOMAIN InOrder = 1 .. n
  BY OrderIsFinite DEF InOrder
<1>2. FoldLeft(RetryWrite, s, InOrder) = (CHOOSE it : Is(it))[DOMAIN InOrder]
  BY DEF FoldLeft, MapThenFoldSet
<1> HIDE DEF n
<1>3. \E it : Is(it)
  <2>1. G \in [I \X (1 .. n) -> I]
    OBVIOUS
  <2>2. \A t \in I, i \in 1 .. n : G[t, i] = RetryWrite(t, InOrder[i])
    OBVIOUS
  <2> HIDE DEF G
  <2>3. PICK f \in [SUBSET (1 .. n) -> I] : IsFold(f, n, s, G)
    BY <1>1, <2>1, FoldExists
  <2>4. ASSUME NEW t \in SUBSET (1 .. n), t # {}
        PROVE  f[t] = RetryWrite(f[t \ {Max(t)}], InOrder[Max(t)])
    <3>1. Max(t) \in 1 .. n
      BY <1>1, <2>4, GreatestIsIn
    <3>2. f[t \ {Max(t)}] \in I
      BY <2>3
    <3>3. f[t] = G[f[t \ {Max(t)}], Max(t)]
      BY <2>3, <2>4 DEF IsFold
    <3> QED BY <2>2, <3>1, <3>2, <3>3
  <2>5. f[{}] = s
    BY <2>3 DEF IsFold
  <2> QED BY <1>1, <2>3, <2>4, <2>5
<1>4. PICK f : Is(f) /\ f = CHOOSE it : Is(it)
  BY <1>3
<1>5. f[{}] = s
  BY <1>4
<1>6. ASSUME NEW t \in SUBSET (1 .. n), t # {}, f[t \ {Max(t)}] \in I
      PROVE  f[t] \in I
  <2>1. f[t] = RetryWrite(f[t \ {Max(t)}], InOrder[Max(t)])
    BY <1>1, <1>4, <1>6
  <2> QED BY <1>6, <2>1
<1>7. f[1 .. n] \in I
  BY <1>1, <1>5, <1>6, FoldStays
<1> QED BY <1>1, <1>2, <1>4, <1>7

\* What RetryName keeps, the walk keeps.
LEMMA RetryNameFold ==
  ASSUME NEW I, NEW s \in I, \A t \in I : \A p : RetryName(t, p) \in I
  PROVE  FoldLeft(RetryName, s, InOrder) \in I
<1> DEFINE n == Cardinality(Params)
           Is(it) == it = [t \in SUBSET DOMAIN InOrder |->
                             IF t = {} THEN s
                             ELSE RetryName(it[t \ {Max(t)}], InOrder[Max(t)])]
           G == [x \in I \X (1 .. n) |-> RetryName(x[1], InOrder[x[2]])]
<1>1. n \in Nat /\ DOMAIN InOrder = 1 .. n
  BY OrderIsFinite DEF InOrder
<1>2. FoldLeft(RetryName, s, InOrder) = (CHOOSE it : Is(it))[DOMAIN InOrder]
  BY DEF FoldLeft, MapThenFoldSet
<1> HIDE DEF n
<1>3. \E it : Is(it)
  <2>1. G \in [I \X (1 .. n) -> I]
    OBVIOUS
  <2>2. \A t \in I, i \in 1 .. n : G[t, i] = RetryName(t, InOrder[i])
    OBVIOUS
  <2> HIDE DEF G
  <2>3. PICK f \in [SUBSET (1 .. n) -> I] : IsFold(f, n, s, G)
    BY <1>1, <2>1, FoldExists
  <2>4. ASSUME NEW t \in SUBSET (1 .. n), t # {}
        PROVE  f[t] = RetryName(f[t \ {Max(t)}], InOrder[Max(t)])
    <3>1. Max(t) \in 1 .. n
      BY <1>1, <2>4, GreatestIsIn
    <3>2. f[t \ {Max(t)}] \in I
      BY <2>3
    <3>3. f[t] = G[f[t \ {Max(t)}], Max(t)]
      BY <2>3, <2>4 DEF IsFold
    <3> QED BY <2>2, <3>1, <3>2, <3>3
  <2>5. f[{}] = s
    BY <2>3 DEF IsFold
  <2> QED BY <1>1, <2>3, <2>4, <2>5
<1>4. PICK f : Is(f) /\ f = CHOOSE it : Is(it)
  BY <1>3
<1>5. f[{}] = s
  BY <1>4
<1>6. ASSUME NEW t \in SUBSET (1 .. n), t # {}, f[t \ {Max(t)}] \in I
      PROVE  f[t] \in I
  <2>1. f[t] = RetryName(f[t \ {Max(t)}], InOrder[Max(t)])
    BY <1>1, <1>4, <1>6
  <2> QED BY <1>6, <2>1
<1>7. f[1 .. n] \in I
  BY <1>1, <1>5, <1>6, FoldStays
<1> QED BY <1>1, <1>2, <1>4, <1>7

\* Writes, or reads when there are none.
LEMMA RetryNamedKeeps ==
  ASSUME NEW s, NEW before, Good(s, before, {})
  PROVE  Good(RetryNamed(s), before, {})
<1> DEFINE I == {t \in PMs : Good(t, before, {})}
<1>1. s \in I
  BY DEF Good
<1>2. \A t \in I : [t EXCEPT !.waitTimer = TRUE] \in I
  <2> SUFFICES ASSUME NEW t \in I PROVE [t EXCEPT !.waitTimer = TRUE] \in I
    OBVIOUS
  <2>1. [t EXCEPT !.waitTimer = TRUE] \in PMs
    BY DEF PMs
  <2>2. Books([t EXCEPT !.waitTimer = TRUE]) = Books(t)
    BY DEF PMs, Books
  <2> QED BY <2>1, <2>2, OnlyTimers
<1>3. \A t \in I : \A p : RetryWrite(t, p) \in I
  BY RetryWriteKeeps DEF Good
<1>4. \A t \in I : \A p : RetryName(t, p) \in I
  BY RetryNameKeeps DEF Good
<1> HIDE DEF I
<1>5. FoldLeft(RetryWrite, s, InOrder) \in I
  BY <1>1, <1>3, RetryWriteFold
<1>6. FoldLeft(RetryName, s, InOrder) \in I
  BY <1>1, <1>4, RetryNameFold
<1>7. RetryNamed(s) \in I
  BY <1>1, <1>2, <1>5, <1>6 DEF RetryNamed
<1> QED BY <1>7 DEF I

\* The time-out of what is waited for.
LEMMA WaitingParamTimeoutKeeps ==
  ASSUME NEW s, NEW before \in BOOLEAN, Good(s, before, {})
  PROVE  Good(_waitingParamTimeout(s), before, {})
<1> DEFINE I == {t \in PMs : Good(t, before, {})}
           start   == [s EXCEPT !.batchActive = TRUE, !.waitTimer = FALSE]
           filled  == _fillIndexBatchQueue(start, TRUE)
           settled == [filled EXCEPT !.waitingForDefault = FALSE]
           checked == _checkInitialLoadComplete(settled)
<1>1. ASSUME NEW t \in I
      PROVE  /\ [t EXCEPT !.batchActive = TRUE, !.waitTimer = FALSE] \in I
             /\ [t EXCEPT !.waitingForDefault = FALSE] \in I
             /\ [t EXCEPT !.waitTimer = TRUE] \in I
             /\ [t EXCEPT !.waitTimer = TRUE, !.waitingForDefault = TRUE] \in I
             /\ [t EXCEPT !.left = TRUE] \in I
  <2>1. ASSUME NEW u \in PMs, Books(u) = Books(t) PROVE u \in I
    BY <2>1, OnlyTimers
  <2>2. t \in PMs
    OBVIOUS
  <2>3. /\ [t EXCEPT !.batchActive = TRUE, !.waitTimer = FALSE] \in PMs
        /\ [t EXCEPT !.waitingForDefault = FALSE] \in PMs
    BY ONLY <2>2 DEF PMs
  <2>4. /\ [t EXCEPT !.waitTimer = TRUE] \in PMs
         /\ [t EXCEPT !.left = TRUE] \in PMs
    BY ONLY <2>2 DEF PMs
  <2>5. [t EXCEPT !.waitTimer = TRUE, !.waitingForDefault = TRUE] \in PMs
    BY ONLY <2>2 DEF PMs
  <2>6. /\ Books([t EXCEPT !.batchActive = TRUE, !.waitTimer = FALSE]) = Books(t)
         /\ Books([t EXCEPT !.waitingForDefault = FALSE]) = Books(t)
    BY ONLY <2>2 DEF PMs, Books
  <2>7. /\ Books([t EXCEPT !.waitTimer = TRUE]) = Books(t)
        /\ Books([t EXCEPT !.waitTimer = TRUE, !.waitingForDefault = TRUE]) = Books(t)
        /\ Books([t EXCEPT !.left = TRUE]) = Books(t)
    BY ONLY <2>2 DEF PMs, Books
  <2> HIDE DEF I
  <2> QED BY <2>1, <2>3, <2>4, <2>5, <2>6, <2>7
<1>2. \A t \in I : Good(t, before, {})
  OBVIOUS
<1>3. \A t : Good(t, before, {}) => t \in I
  BY DEF Good
<1> HIDE DEF I
<1>4. start \in I
  BY <1>1, <1>3
<1> HIDE DEF start
<1>5. filled \in I
  <2> DEFINE yes == TRUE
  <2>1. yes \in BOOLEAN
    OBVIOUS
  <2>2. filled = _fillIndexBatchQueue(start, yes)
    OBVIOUS
  <2> HIDE DEF yes, filled
  <2> QED BY <1>2, <1>3, <1>4, <2>1, <2>2, FillKeeps
<1> HIDE DEF filled
<1>6. checked \in I
  BY <1>1, <1>2, <1>3, <1>5, CheckKeeps
<1> HIDE DEF settled, checked
<1>7. \A t \in I : RetryNamed(t) \in I
  BY <1>2, <1>3, RetryNamedKeeps
<1>8. _waitingParamTimeout(s) =
        IF filled.batch # {} THEN [checked EXCEPT !.waitTimer = TRUE]
        ELSE IF HasDefault(s) THEN RetryNamed(checked)
        ELSE IF ~s.waitingForDefault
             THEN [filled EXCEPT !.waitTimer = TRUE, !.waitingForDefault = TRUE]
             ELSE RetryNamed([checked EXCEPT !.left = TRUE])
  BY DEF _waitingParamTimeout, checked, settled, filled, start
<1>9. _waitingParamTimeout(s) \in I
  BY <1>1, <1>5, <1>6, <1>7, <1>8
<1> QED BY <1>2, <1>9

-----------------------------------------------------------------------------
(* The load.                                                               *)

\* A file overwrites facts of the autopilot, and what differs from the vehicle
\* is stale.  If it fails to parse that is all; otherwise writes that wait are
\* forgotten.
LEMMA ParseKeeps ==
  ASSUME NEW s, NEW before \in BOOLEAN, Good(s, before, {}), Sets(s) = {},
         NEW file \in PartialFunctions(ParamsOf(Autopilot), Values),
         NEW fails \in BOOLEAN
  PROVE  /\ Good(_parseParamFile(s, file, fails), before, {})
         /\ Sets(_parseParamFile(s, file, fails)) = {}
<1> DEFINE own   == ParamsOf(Autopilot)
           facts == With(s.facts, file)
           older == s.stale \cup {p \in DOMAIN file : file[p] # value[p]}
           read  == [s EXCEPT !.facts = facts, !.stale = older]
<1>1. /\ s \in PMs /\ s.known \in SUBSET Components
      /\ s.forgotten \in SUBSET Params /\ s.stale \in SUBSET Params
      /\ s.waitIndex \in PartialFunctions(Params, 0 .. MaxIndexRetry)
      /\ s.waitName \in PartialFunctions(Params, 0 .. MaxReadWriteRetry)
      /\ s.waitWrite \in PartialFunctions(Params, 0 .. MaxReadWriteRetry)
      /\ s.facts \in PartialFunctions(Params, Values) /\ s.partial \in BOOLEAN
  BY DEF Good, PMs
<1>2. Autopilot \in Components /\ own \subseteq Params /\ \A p \in own : p[1] = Autopilot
  BY OwnAreParams DEF Components
<1>3. DOMAIN file \subseteq own /\ \A p \in DOMAIN file : file[p] \in Values
  BY ValuesOfPartial
<1>4. /\ facts \in PartialFunctions(Params, Values)
      /\ DOMAIN facts = DOMAIN s.facts \cup DOMAIN file
      /\ \A p \in DOMAIN file : facts[p] = file[p]
      /\ \A p \in DOMAIN s.facts \ DOMAIN file : facts[p] = s.facts[p]
  <2>1. file \in PartialFunctions(Params, Values)
    BY <1>2 DEF PartialFunctions
  <2>2. facts \in PartialFunctions(Params, Values)
    BY <1>1, <2>1, WithIs
  <2>3. facts = [p \in DOMAIN s.facts \cup DOMAIN file |->
                   IF p \in DOMAIN file THEN file[p] ELSE s.facts[p]]
    BY DEF With
  <2> QED BY <2>2, <2>3
<1>5. /\ older \in SUBSET Params
      /\ older = s.stale \cup {p \in DOMAIN file : file[p] # value[p]}
  BY <1>1, <1>2, <1>3
<1>6. _parseParamFile(s, file, fails) =
        IF fails THEN [read EXCEPT !.partial = s.partial \/ Autopilot \notin s.known]
        ELSE _checkInitialLoadComplete(
               [read EXCEPT !.known = s.known \cup {Autopilot},
                            !.waitIndex = Without(s.waitIndex, own),
                            !.waitName = Without(s.waitName, own),
                            !.waitWrite = Without(s.waitWrite, own),
                            !.forgotten = s.forgotten \cup (own \cap DOMAIN s.waitWrite),
                            !.partial = DOMAIN file # own])
  BY <1>1 DEF _parseParamFile, PMs
<1>7. own = ParamsOf(Autopilot)
  OBVIOUS
<1> HIDE DEF own, facts, older
<1>8. read \in PMs
  BY ONLY <1>1, <1>4, <1>5 DEF PMs
\* Whatever else changes, what the facts and the vehicle have agrees.
<1>9. ASSUME NEW t, t.facts = facts, t.stale = older, Open(s) \subseteq Open(t)
      PROVE  Agree(t)
  <2> SUFFICES ASSUME NEW p \in Params \ Open(t)
               PROVE  /\ p \in DOMAIN t.facts \ t.stale => t.facts[p] = value[p]
                      /\ \A m \in Range(air[p]) : m.value = value[p]
    BY DEF Agree
  <2>1. p \notin Open(s)
    BY <1>9
  <2>2. p \in DOMAIN file \ older => file[p] = value[p]
    BY <1>5
  <2> QED BY <1>4, <1>5, <1>9, <2>1, <2>2 DEF Good, Agree
<1>10. CASE fails
  <2> DEFINE part == s.partial \/ Autopilot \notin s.known
             t    == [read EXCEPT !.partial = part]
  <2>1. part \in BOOLEAN /\ (s.partial => part) /\ (Autopilot \in s.known \/ part)
    BY <1>1
  <2>2. _parseParamFile(s, file, fails) = t
    BY <1>6, <1>10
  <2> HIDE DEF part
  <2>3. t \in PMs
    BY ONLY <1>8, <2>1 DEF PMs
  <2>4. /\ t.known = s.known /\ t.facts = facts /\ t.waitWrite = s.waitWrite
        /\ t.reported = s.reported /\ t.forgotten = s.forgotten
        /\ t.stale = older /\ t.batch = s.batch /\ t.failed = s.failed
        /\ t.out = s.out /\ t.missing = s.missing /\ t.loaded = s.loaded
        /\ t.partial = part
        /\ t.waitIndex = s.waitIndex
    BY ONLY <1>1 DEF PMs
  <2> HIDE DEF read, t
  <2>5. QueueFits(t) /\ Accounted(t, {})
    BY <1>4, <2>1, <2>4 DEF Good, QueueFits, Accounted
  <2>6. Grounded(t)
    BY <1>2, <1>3, <1>4, <2>1, <2>4 DEF Good, Grounded
  <2>7. Sets(t) = {} /\ SetsWait(t)
    BY <2>4 DEF Sets, SetsWait
  <2>8. Agree(t)
    BY <1>9, <2>4 DEF Open
  <2>9. TellsMissing(t, before)
    BY <1>4, <2>1, <2>4 DEF Good, TellsMissing, Complete
  <2> QED BY <2>2, <2>3, <2>5, <2>6, <2>7, <2>8, <2>9 DEF Good
<1>11. CASE ~fails
  <2> DEFINE known   == s.known \cup {Autopilot}
             indices == Without(s.waitIndex, own)
             names   == Without(s.waitName, own)
             writes  == Without(s.waitWrite, own)
             missed  == s.forgotten \cup (own \cap DOMAIN s.waitWrite)
             part    == DOMAIN file # own
             t == [read EXCEPT !.known = known, !.waitIndex = indices,
                               !.waitName = names, !.waitWrite = writes,
                               !.forgotten = missed, !.partial = part]
  <2>1. _parseParamFile(s, file, fails) = _checkInitialLoadComplete(t)
    BY <1>6, <1>11
  <2>2. indices \in PartialFunctions(Params, 0 .. MaxIndexRetry)
    BY <1>1, WithoutIs
  <2>3. names \in PartialFunctions(Params, 0 .. MaxReadWriteRetry)
    BY <1>1, WithoutIs
  <2>4. writes \in PartialFunctions(Params, 0 .. MaxReadWriteRetry)
    BY <1>1, WithoutIs
  <2>5. /\ DOMAIN indices = DOMAIN s.waitIndex \ own
        /\ DOMAIN writes = DOMAIN s.waitWrite \ own
    BY DEF Without, Restrict
  <2>6. /\ known \in SUBSET Components /\ known = s.known \cup {Autopilot}
        /\ missed \in SUBSET Params
        /\ missed = s.forgotten \cup (own \cap DOMAIN s.waitWrite)
        /\ part \in BOOLEAN /\ (~part => DOMAIN file = own)
    BY <1>1, <1>2
  <2> HIDE DEF known, indices, names, writes, missed, part
  <2>7. t \in PMs
    <3> DEFINE k == [read EXCEPT !.known = known]
               u == [k EXCEPT !.waitIndex = indices, !.waitName = names]
    <3>1. t = [u EXCEPT !.waitWrite = writes, !.forgotten = missed, !.partial = part]
      OBVIOUS
    <3> HIDE DEF read, t
    <3>2. k \in PMs
      BY ONLY <1>8, <2>6 DEF PMs
    <3> HIDE DEF k
    <3>3. u \in PMs
      BY ONLY <3>2, <2>2, <2>3 DEF PMs
    <3> HIDE DEF u
    <3> QED BY ONLY <3>1, <3>3, <2>4, <2>6 DEF PMs
  <2>8. /\ t.known = known /\ t.facts = facts /\ t.waitWrite = writes
        /\ t.reported = s.reported /\ t.forgotten = missed
        /\ t.stale = older /\ t.batch = s.batch /\ t.failed = s.failed
        /\ t.out = s.out /\ t.missing = s.missing /\ t.loaded = s.loaded
        /\ t.partial = part
        /\ t.waitIndex = indices
    BY ONLY <1>1 DEF PMs
  <2> HIDE DEF read, t
  <2>9. QueueFits(t) /\ Grounded(t)
    <3>1. QueueFits(t)
      BY <2>8 DEF Good, QueueFits
    <3>2. \A p \in DOMAIN facts : p[1] \in known \/ (p[1] = Autopilot /\ part)
      BY <1>2, <1>3, <1>4, <2>6 DEF Good, Grounded
    <3>3. DOMAIN writes \subseteq DOMAIN facts
      BY <1>4, <2>5 DEF Good, Grounded
    <3> QED BY <2>6, <2>8, <3>1, <3>2, <3>3 DEF Grounded
  <2>10. Accounted(t, {})
    <3> SUFFICES ASSUME ~t.failed, NEW c \in t.known
                 PROVE  \/ ParamsOf(c) \subseteq DOMAIN t.facts \cup DOMAIN t.waitIndex
                        \/ c = Autopilot /\ t.partial
      BY DEF Accounted
    <3>1. CASE c = Autopilot
      BY <1>4, <1>7, <2>6, <2>8, <3>1
    <3>2. CASE c # Autopilot
      <4>1. c \in s.known /\ c \in Components
        BY <1>1, <2>6, <2>8, <3>2
      <4>2. \A p \in ParamsOf(c) : p \notin own
        BY <1>2, <3>2, <4>1, OwnAreParams
      <4>3. ParamsOf(c) \subseteq DOMAIN s.facts \cup DOMAIN s.waitIndex
        BY <2>8, <3>2, <4>1 DEF Good, Accounted
      <4> QED BY <1>4, <2>5, <2>8, <4>2, <4>3
    <3> QED BY <3>1, <3>2
  <2>11. Sets(t) = {} /\ SetsWait(t)
    BY <2>8 DEF Sets, SetsWait
  <2>12. Agree(t)
    BY <1>9, <2>5, <2>6, <2>8 DEF Open
  <2>13. TellsMissing(t, before)
    BY <1>4, <1>7, <2>6, <2>8 DEF Good, TellsMissing, Complete
  <2>14. Good(t, before, {})
    BY <2>7, <2>9, <2>10, <2>11, <2>12, <2>13 DEF Good
  <2> QED BY <2>1, <2>11, <2>14, CheckKeeps
<1> QED BY <1>10, <1>11

\* What the vehicle writes to its file.
LEMMA FileIs ==
  ASSUME Vehicle
  PROVE  File \in [ParamsOf(Autopilot) -> Values]
BY OwnAreParams DEF Vehicle, File, Components

\* refreshAllParameters, by FTP or by a list.
LEMMA RefreshKeeps ==
  ASSUME NEW s, NEW before \in BOOLEAN, Good(s, before, {}), Vehicle,
         s.loaded => before, NEW comp \in Components \cup {CompIdAll}
  PROVE  /\ Good(refreshAllParameters(s, comp), before, {})
         /\ Sets(refreshAllParameters(s, comp)) = Sets(s)
<1> DEFINE i     == s.initialTimer \/ ~s.loaded
           l     == s.left \/ Waiting(s)
           timed == [s EXCEPT !.initialTimer = i, !.requested = TRUE]
           byFtp == [timed EXCEPT !.waitTimer = FALSE, !.left = l]
<1>1. s \in PMs
  BY DEF Good
<1>2. i \in BOOLEAN /\ l \in BOOLEAN
  BY <1>1 DEF PMs, Waiting
<1>3. CASE s.tryftp /\ comp \in {CompIdAll, Autopilot} /\ s.file = Empty
  <2> DEFINE f == File
             t == [byFtp EXCEPT !.file = f, !.heard = TRUE, !.progress = TRUE]
  <2>1. refreshAllParameters(s, comp) = t
    BY <1>1, <1>3 DEF refreshAllParameters, PMs
  <2>2. f \in [ParamsOf(Autopilot) -> Values]
    BY FileIs
  <2> HIDE DEF f, i, l
  <2>3. timed \in PMs /\ Books(timed) = Books(s)
    BY ONLY <1>1, <1>2 DEF PMs, Books
  <2> HIDE DEF timed
  <2>4. byFtp \in PMs
    BY ONLY <1>2, <2>3 DEF PMs
  <2>5. Books(byFtp) = Books(timed)
    BY ONLY <2>3 DEF PMs, Books
  <2> HIDE DEF byFtp
  <2>6. byFtp \in PMs /\ Books(byFtp) = Books(s)
    BY <2>3, <2>4, <2>5
  <2>7. t \in PMs /\ Books(t) = Books(byFtp)
    BY ONLY <2>2, <2>6 DEF PMs, Books
  <2> HIDE DEF t
  <2> QED BY <2>1, <2>6, <2>7, OnlyTimers
<1>4. CASE s.tryftp /\ comp \in {CompIdAll, Autopilot} /\ s.file # Empty
  <2> DEFINE t == [byFtp EXCEPT !.heard = FALSE]
  <2>1. refreshAllParameters(s, comp) = t
    BY <1>1, <1>4 DEF refreshAllParameters, PMs
  <2> HIDE DEF i, l
  <2>2. timed \in PMs /\ Books(timed) = Books(s)
    BY ONLY <1>1, <1>2 DEF PMs, Books
  <2> HIDE DEF timed
  <2>3. byFtp \in PMs
    BY ONLY <1>2, <2>2 DEF PMs
  <2>4. Books(byFtp) = Books(timed)
    BY ONLY <2>2 DEF PMs, Books
  <2> HIDE DEF byFtp
  <2>5. byFtp \in PMs /\ Books(byFtp) = Books(s)
    BY <2>2, <2>3, <2>4
  <2>6. t \in PMs /\ Books(t) = Books(byFtp)
    BY ONLY <2>5 DEF PMs, Books
  <2> HIDE DEF t
  <2> QED BY <2>1, <2>5, <2>6, OnlyTimers
<1>5. CASE ~(s.tryftp /\ comp \in {CompIdAll, Autopilot})
  <2> DEFINE all == IF comp = CompIdAll THEN s.known ELSE s.known \cap {comp}
             w   == WaitForAll(timed, all)
             list == "list"
  <2>1. refreshAllParameters(s, comp) = Ask(w, list, comp)
    BY <1>1, <1>5 DEF refreshAllParameters, PMs
  <2>2. all \in SUBSET s.known
    OBVIOUS
  <2>3. list # "set" /\ [kind |-> list, param |-> comp] \in Requests
    <3>1. comp \in Nat
      BY ParameterAssumption DEF CompIdAll
    <3> QED BY <3>1 DEF Requests
  <2> HIDE DEF all, list, i
  <2>4. timed \in PMs /\ Books(timed) = Books(s)
    BY ONLY <1>1, <1>2 DEF PMs, Books
  <2> HIDE DEF timed
  <2>5. Good(timed, before, {}) /\ Sets(timed) = Sets(s)
    BY <2>4, OnlyTimers
  <2>6. Good(w, before, {}) /\ Sets(w) = Sets(s)
    <3> DEFINE hole == {}
    <3>1. hole \subseteq UNION {ParamsOf(c) : c \in all} /\ Good(timed, before, hole)
      BY <2>5
    <3> HIDE DEF hole
    <3>2. all \in SUBSET timed.known /\ (timed.loaded => before)
      BY <2>2, <2>4 DEF Books
    <3> QED BY <2>5, <3>1, <3>2, WaitForAllKeeps
  <2> HIDE DEF w
  <2> QED BY <2>1, <2>3, <2>6, AskKeeps
<1> QED BY <1>3, <1>4, <1>5

\* The time-out of the request for the list.
LEMMA InitialRequestTimeoutKeeps ==
  ASSUME NEW s, NEW before \in BOOLEAN, Good(s, before, {}), Vehicle,
         s.loaded => before, NEW linked \in BOOLEAN
  PROVE  /\ Good(_initialRequestTimeout(s, linked), before, {})
         /\ Sets(_initialRequestTimeout(s, linked)) = Sets(s)
<1> DEFINE tries == IF s.listRetries > MaxListRetry THEN s.listRetries
                    ELSE s.listRetries + 1
           next  == [s EXCEPT !.listRetries = tries, !.initialTimer = FALSE]
           r     == IF linked THEN refreshAllParameters(next, CompIdAll) ELSE next
           timed == [r EXCEPT !.initialTimer = TRUE]
           told  == [next EXCEPT !.told = TRUE]
<1>1. s \in PMs
  BY DEF Good
<1>2. tries \in 0 .. MaxListRetry + 1
  BY <1>1, ParameterAssumption DEF PMs
<1>3. _initialRequestTimeout(s, linked) = IF tries <= MaxListRetry THEN timed ELSE told
  BY DEF _initialRequestTimeout
<1> HIDE DEF tries
<1>4. next \in PMs /\ Books(next) = Books(s)
  BY ONLY <1>1, <1>2 DEF PMs, Books
<1> HIDE DEF next
<1>5. Good(next, before, {}) /\ Sets(next) = Sets(s) /\ (next.loaded => before)
  BY <1>4, OnlyTimers DEF Books
<1>6. Good(r, before, {}) /\ Sets(r) = Sets(s)
  BY <1>5, RefreshKeeps
<1> HIDE DEF r
<1>7. r \in PMs
  BY <1>6 DEF Good
<1>8. timed \in PMs /\ Books(timed) = Books(r)
  BY ONLY <1>7 DEF PMs, Books
<1>9. told \in PMs /\ Books(told) = Books(next)
  BY ONLY <1>4 DEF PMs, Books
<1> HIDE DEF timed, told
<1> QED BY <1>3, <1>5, <1>6, <1>8, <1>9, OnlyTimers

\* The end of a download, however it ends.
LEMMA FtpDownloadCompleteKeeps ==
  ASSUME NEW s, NEW before \in BOOLEAN, Good(s, before, {}), Vehicle, Sets(s) = {},
         s.loaded => before, NEW outcome \in Outcomes, NEW linked \in BOOLEAN,
         NEW file \in PartialFunctions(ParamsOf(Autopilot), Values)
  PROVE  /\ Good(_ftpDownloadComplete(s, outcome, file, linked), before, {})
         /\ Sets(_ftpDownloadComplete(s, outcome, file, linked)) = {}
<1> DEFINE off      == [s EXCEPT !.heard = FALSE, !.progress = FALSE]
           fallBack == [off EXCEPT !.tryftp = FALSE, !.listRetries = 0]
           again    == [fallBack EXCEPT !.initialTimer = TRUE]
           retry    == [off EXCEPT !.initialTimer = TRUE]
           parsed   == _parseParamFile(fallBack, file, TRUE)
           part     == [parsed EXCEPT !.initialTimer = TRUE]
<1>1. s \in PMs
  BY DEF Good
<1>2. _ftpDownloadComplete(s, outcome, file, linked) \in
        {_parseParamFile(off, file, FALSE), _initialRequestTimeout(fallBack, linked),
         part, again, retry}
  BY DEF _ftpDownloadComplete
<1>3. off \in PMs /\ Books(off) = Books(s)
  BY ONLY <1>1 DEF PMs, Books
<1> HIDE DEF off
<1>4. fallBack \in PMs /\ Books(fallBack) = Books(off)
  <2>1. 0 \in 0 .. MaxListRetry + 1
    BY ParameterAssumption
  <2> QED BY ONLY <1>3, <2>1 DEF PMs, Books
<1>5. retry \in PMs /\ Books(retry) = Books(off)
  BY ONLY <1>3 DEF PMs, Books
<1> HIDE DEF fallBack, retry
<1>6. again \in PMs /\ Books(again) = Books(fallBack)
  BY ONLY <1>4 DEF PMs, Books
<1> HIDE DEF again
<1>7. \A t \in {off, fallBack, again, retry} : Good(t, before, {}) /\ Sets(t) = {}
  BY <1>3, <1>4, <1>5, <1>6, OnlyTimers
<1>8. /\ Good(_parseParamFile(off, file, FALSE), before, {})
      /\ Sets(_parseParamFile(off, file, FALSE)) = {}
  <2> DEFINE no == FALSE
  <2>1. no \in BOOLEAN
    OBVIOUS
  <2> HIDE DEF no
  <2>2. /\ Good(_parseParamFile(off, file, no), before, {})
        /\ Sets(_parseParamFile(off, file, no)) = {}
    BY <1>7, <2>1, ParseKeeps
  <2> QED BY <2>2 DEF no
<1>10. Good(parsed, before, {}) /\ Sets(parsed) = {}
  <2> DEFINE yes == TRUE
  <2>1. yes \in BOOLEAN
    OBVIOUS
  <2> HIDE DEF yes
  <2>2. /\ Good(_parseParamFile(fallBack, file, yes), before, {})
        /\ Sets(_parseParamFile(fallBack, file, yes)) = {}
    BY <1>7, <2>1, ParseKeeps
  <2> QED BY <2>2 DEF yes
<1> HIDE DEF parsed
<1>11. Good(part, before, {}) /\ Sets(part) = {}
  <2>1. parsed \in PMs
    BY <1>10 DEF Good
  <2>2. part \in PMs /\ Books(part) = Books(parsed)
    BY ONLY <2>1 DEF PMs, Books
  <2> HIDE DEF part
  <2> QED BY <1>10, <2>2, OnlyTimers
<1> HIDE DEF part
<1>9. /\ Good(_initialRequestTimeout(fallBack, linked), before, {})
      /\ Sets(_initialRequestTimeout(fallBack, linked)) = {}
  <2>1. fallBack.loaded => before
    BY <1>3, <1>4 DEF Books
  <2> QED BY <1>7, <2>1, InitialRequestTimeoutKeeps
<1> QED BY <1>2, <1>7, <1>8, <1>9, <1>11

\* The progress of a download.
LEMMA ProgressKeeps ==
  ASSUME NEW s, NEW before, Good(s, before, {})
  PROVE  Good(Progress(s), before, {})
<1> DEFINE l == s.left \/ ~s.heard \/ Waiting(s)
           t == [s EXCEPT !.initialTimer = FALSE, !.left = l]
<1>1. s \in PMs
  BY DEF Good
<1>2. l \in BOOLEAN
  BY <1>1 DEF PMs, Waiting
<1>3. Progress(s) = t
  BY DEF Progress
<1> HIDE DEF l
<1>5. t \in PMs
  BY ONLY <1>1, <1>2 DEF PMs
<1>6. Books(t) = Books(s)
  BY ONLY <1>1 DEF PMs, Books
<1>4. t \in PMs /\ Books(t) = Books(s)
  BY <1>5, <1>6
<1> HIDE DEF t
<1> QED BY <1>3, <1>4, OnlyTimers

-----------------------------------------------------------------------------
(* The steps keep the invariant.                                           *)

\* How a step ends: the requests leave, and what the vehicle changes has been
\* asked of it, and what it says is so.
LEMMA EndKeeps ==
  ASSUME NEW s, NEW before \in BOOLEAN, Good(s, before, {}),
         NEW S \in SUBSET s.stale, pm' = [s EXCEPT !.out = {}, !.stale = S],
         \A p \in s.stale \ S : s.facts[p] = value'[p],
         value' \in [Params -> Values],
         \A p \in Params \ Sets(s) : value'[p] = value[p],
         air' \in [Params -> Seq(Messages)],
         \A p \in Params : Len(air'[p]) <= MaxAir,
         \A p \in Params : \A m \in Range(air'[p]) :
           m \in Range(air[p]) \/ m.value = value'[p],
         hash' \in {"none", "match", "differ"}
  PROVE  IInv' /\ TellsMissing(pm', before)
<1>1. s \in PMs /\ S \in SUBSET Params
  BY DEF Good, PMs
<1>2. pm' \in PMs
  BY <1>1 DEF PMs
<1>3. /\ pm'.known = s.known /\ pm'.facts = s.facts /\ pm'.waitWrite = s.waitWrite
      /\ pm'.reported = s.reported /\ pm'.forgotten = s.forgotten
      /\ pm'.stale = S /\ pm'.batch = s.batch /\ pm'.failed = s.failed
      /\ pm'.out = {} /\ pm'.missing = s.missing /\ pm'.loaded = s.loaded
      /\ pm'.partial = s.partial
      /\ pm'.waitIndex = s.waitIndex
  BY <1>1 DEF PMs
<1>4. QueueFits(pm') /\ Grounded(pm') /\ Accounted(pm', {}) /\ SetsWait(pm')
  BY <1>3 DEF Good, QueueFits, Grounded, Accounted, SetsWait, Sets
<1>5. Open(pm') = Open(s)
  BY <1>3 DEF Open
<1>6. Agree(pm)'
  <2>1. ASSUME NEW p \in Params \ Open(pm')
        PROVE  /\ p \in DOMAIN pm'.facts \ pm'.stale => pm'.facts[p] = value'[p]
               /\ \A m \in Range(air'[p]) : m.value = value'[p]
    <3>1. p \notin Open(s)
      BY <1>5, <2>1
    <3>2. p \notin Sets(s)
      BY <3>1 DEF Good, SetsWait, Open
    <3>3. value'[p] = value[p]
      BY <3>2
    <3>4. p \in DOMAIN s.facts \ s.stale => s.facts[p] = value[p]
      BY <3>1 DEF Good, Agree
    <3>5. \A m \in Range(air[p]) : m.value = value[p]
      BY <3>1 DEF Good, Agree
    <3> QED BY <1>3, <3>3, <3>4, <3>5
  <2> QED BY <2>1 DEF Agree, Open
<1>7. TellsMissing(pm', before) /\ TellsMissing(pm', pm'.loaded)
  BY <1>3 DEF Good, TellsMissing, Complete
<1>8. Vehicle'
  BY DEF Vehicle, Messages
<1> QED BY <1>2, <1>3, <1>4, <1>6, <1>7, <1>8 DEF IInv, Good, PMs, QueueFits,
      Grounded, Accounted, SetsWait, Sets, TellsMissing, Complete

\* PARAM_VALUEs on their way, but for some that have arrived or are lost.
StillOnTheirWay(still) ==
  /\ still \in [Params -> Seq(Messages)]
  /\ \A p \in Params : Len(still[p]) <= MaxAir
  /\ \A p \in Params : Range(still[p]) \subseteq Range(air[p])

\* What is on its way is still so, and so is the rest once a first has gone.
LEMMA StillAre ==
  ASSUME Vehicle
  PROVE  /\ StillOnTheirWay(air)
         /\ \A p \in Params :
              air[p] # <<>> => StillOnTheirWay([air EXCEPT ![p] = Tail(@)])
<1>1. StillOnTheirWay(air)
  BY DEF StillOnTheirWay, Vehicle
<1>2. ASSUME NEW p \in Params, air[p] # <<>>
      PROVE  StillOnTheirWay([air EXCEPT ![p] = Tail(@)])
  <2> DEFINE q == air[p]
  <2>1. q \in Seq(Messages) /\ q # <<>> /\ Len(q) <= MaxAir
    BY <1>2 DEF Vehicle
  <2>2. MaxAir \in Nat
    BY ParameterAssumption
  <2> HIDE DEF q
  <2>3. Tail(q) \in Seq(Messages) /\ Len(Tail(q)) <= MaxAir
    BY <2>1, <2>2
  <2>4. Range(Tail(q)) \subseteq Range(q)
    BY <2>1 DEF Range
  <2> QED BY <2>3, <2>4 DEF StillOnTheirWay, Vehicle, q
<1> QED BY <1>1, <1>2

\* One more message.
LEMMA AppendIs ==
  ASSUME NEW q \in Seq(Messages), NEW m \in Messages
  PROVE  /\ Append(q, m) \in Seq(Messages) /\ Len(Append(q, m)) = Len(q) + 1
         /\ \A n \in Range(Append(q, m)) : n \in Range(q) \/ n = m
BY DEF Range

\* A step whose handler keeps Good keeps the invariant: the vehicle changes
\* what it has been asked to change, and answers with what it has.
LEMMA ReplyKeeps ==
  ASSUME NEW s, NEW before \in BOOLEAN, Good(s, before, {}), Vehicle,
         NEW still, StillOnTheirWay(still),
         NEW coming \in {"none", "match", "differ"}, Reply(s, still, coming)
  PROVE  IInv' /\ TellsMissing(pm', before)
<1>1. PICK requests \in SUBSET s.out :
        /\ pm' = [s EXCEPT !.out = {}, !.stale = {p \in @ : s.facts[p] # value'[p]}]
        /\ value' = AfterSets(s, requests)
        /\ air' = [p \in Params |->
                     IF Len(still[p]) < MaxAir
                        /\ \E request \in requests : Answered(request, p)
                     THEN Append(still[p], [value |-> value'[p], indexed |-> TRUE])
                     ELSE still[p]]
        /\ hash' = IF ~s.px4 \/ \A r \in requests : r.kind # "list" THEN coming
                   ELSE IF s.cached /\ \A p \in ParamsOf(Autopilot) : value[p] = 0
                        THEN "match" ELSE "differ"
  BY DEF Reply
<1>2. \A p \in Params : [kind |-> "set", param |-> p] \in requests =>
        p \in Sets(s) /\ p \in DOMAIN s.facts /\ s.facts[p] \in Values
  <2>1. s.facts \in PartialFunctions(Params, Values)
    BY DEF Good, PMs
  <2>2. \A p \in DOMAIN s.facts : s.facts[p] \in Values
    BY <2>1, ValuesOfPartial
  <2> QED BY <2>2 DEF Good, SetsWait, Sets
<1>3. value' \in [Params -> Values] /\ \A p \in Params \ Sets(s) : value'[p] = value[p]
  BY <1>1, <1>2 DEF AfterSets, Vehicle
<1>4. ASSUME NEW p \in Params
      PROVE  /\ air'[p] \in Seq(Messages) /\ Len(air'[p]) <= MaxAir
             /\ \A m \in Range(air'[p]) : m \in Range(air[p]) \/ m.value = value'[p]
  <2> DEFINE q == still[p]
             m == [value |-> value'[p], indexed |-> TRUE]
  <2>1. /\ q \in Seq(Messages) /\ Len(q) \in Nat /\ Len(q) <= MaxAir
        /\ Range(q) \subseteq Range(air[p])
    BY DEF StillOnTheirWay
  <2>2. m \in Messages /\ m.value = value'[p]
    BY <1>3 DEF Messages
  <2>3. (air'[p] = Append(q, m) /\ Len(q) < MaxAir) \/ air'[p] = q
    BY <1>1
  <2> HIDE DEF q, m
  <2>4. CASE air'[p] = q
    BY <2>1, <2>4
  <2>5. CASE air'[p] = Append(q, m) /\ Len(q) < MaxAir
    <3>1. /\ Append(q, m) \in Seq(Messages) /\ Len(Append(q, m)) = Len(q) + 1
          /\ \A n \in Range(Append(q, m)) : n \in Range(q) \/ n = m
      BY <2>1, <2>2, AppendIs
    <3>2. MaxAir \in Nat
      BY ParameterAssumption
    <3>3. Len(q) + 1 <= MaxAir
      BY <2>1, <2>5, <3>2
    <3> QED BY <2>1, <2>2, <2>5, <3>1, <3>3
  <2> QED BY <2>3, <2>4, <2>5
<1>5. air' \in [Params -> Seq(Messages)]
  BY <1>1, <1>4
<1>6. hash' \in {"none", "match", "differ"}
  BY <1>1
<1> DEFINE S == {p \in s.stale : s.facts[p] # value'[p]}
<1>7. S \in SUBSET s.stale /\ \A p \in s.stale \ S : s.facts[p] = value'[p]
  OBVIOUS
<1>8. pm' = [s EXCEPT !.out = {}, !.stale = S]
  <2>1. s \in PMs
    BY DEF Good
  <2> QED BY <1>1, <2>1 DEF PMs
<1> HIDE DEF S
<1> QED BY <1>3, <1>4, <1>5, <1>6, <1>7, <1>8, EndKeeps

\* The hash that is on its way stays so unless a new one is announced.
LEMMA StepKeeps ==
  ASSUME NEW s, NEW before \in BOOLEAN, Good(s, before, {}), Vehicle,
         NEW still, StillOnTheirWay(still), Step(s, still)
  PROVE  IInv' /\ TellsMissing(pm', before)
BY ReplyKeeps DEF Step, Vehicle

\* Between two steps nothing is asked.
LEMMA NothingAsked ==
  ASSUME IInv
  PROVE  /\ pm \in PMs /\ Good(pm, pm.loaded, {}) /\ Sets(pm) = {} /\ Vehicle
         /\ pm.loaded \in BOOLEAN
BY DEF IInv, Sets, Good, PMs

\* The program asks for all parameters.
LEMMA RefreshAllKeeps ==
  ASSUME IInv, NEW comp \in Components \cup {CompIdAll}, RefreshAll(comp)
  PROVE  IInv' /\ TellsMissing(pm', pm.loaded)
<1>1. Good(refreshAllParameters(pm, comp), pm.loaded, {})
  BY NothingAsked, RefreshKeeps
<1>2. Step(refreshAllParameters(pm, comp), air)
  BY DEF RefreshAll
<1> QED BY <1>1, <1>2, NothingAsked, StillAre, StepKeeps

\* The program asks for one.
LEMMA RefreshParameterKeeps ==
  ASSUME IInv, NEW p \in Params, RefreshParameter(p)
  PROVE  IInv' /\ TellsMissing(pm', pm.loaded)
<1> DEFINE w == With(pm.waitName, [q \in {p} |-> 0])
           t == [pm EXCEPT !.waitName = w, !.waitTimer = TRUE]
           read == "read"
<1>1. pm \in PMs /\ pm.waitName \in PartialFunctions(Params, 0 .. MaxReadWriteRetry)
  BY NothingAsked DEF PMs
<1>2. w \in PartialFunctions(Params, 0 .. MaxReadWriteRetry)
  <2>1. 0 \in 0 .. MaxReadWriteRetry
    BY ParameterAssumption
  <2>2. [q \in {p} |-> 0] \in PartialFunctions(Params, 0 .. MaxReadWriteRetry)
    BY <2>1, ConstantIs
  <2> QED BY <1>1, <2>2, WithIs
<1>3. Step(Ask(IF p[1] \in pm.known THEN t ELSE pm, read, p), air)
  <2>1. t = [pm EXCEPT !.waitName = With(@, [q \in {p} |-> 0]), !.waitTimer = TRUE]
    BY <1>1 DEF PMs
  <2> HIDE DEF t
  <2> QED BY <2>1 DEF RefreshParameter
<1>4. read # "set" /\ [kind |-> read, param |-> p] \in Requests
  BY DEF Requests
<1> HIDE DEF w, read
<1>5. t \in PMs
  BY ONLY <1>1, <1>2 DEF PMs
<1>6. Books(t) = Books(pm)
  BY ONLY <1>1 DEF PMs, Books
<1> HIDE DEF t
<1> DEFINE u == IF p[1] \in pm.known THEN t ELSE pm
<1>7. Good(u, pm.loaded, {})
  BY <1>5, <1>6, NothingAsked, OnlyTimers
<1> HIDE DEF u
<1>8. Good(Ask(u, read, p), pm.loaded, {})
  BY <1>4, <1>7, AskKeeps
<1>9. Step(Ask(u, read, p), air)
  BY <1>3 DEF u
<1> QED BY <1>8, <1>9, NothingAsked, StillAre, StepKeeps

\* The program writes one: it is open from now on, whether or not it waits.
LEMMA WriteKeeps ==
  ASSUME IInv, NEW p \in Params, NEW v \in Values, Write(p, v)
  PROVE  IInv' /\ TellsMissing(pm', pm.loaded)
<1> DEFINE f == [pm.facts EXCEPT ![p] = v]
           k == p[1] \in pm.known
           w == IF k THEN With(pm.waitWrite, [q \in {p} |-> 0]) ELSE pm.waitWrite
           g == IF k THEN pm.forgotten ELSE pm.forgotten \cup {p}
           i == k \/ pm.waitTimer
           o == pm.out \cup {[kind |-> "set", param |-> p]}
           t == [pm EXCEPT !.facts = f, !.waitTimer = i, !.waitWrite = w,
                           !.forgotten = g, !.out = o]
<1>1. /\ pm \in PMs /\ pm.out = {} /\ pm.facts \in PartialFunctions(Params, Values)
      /\ pm.waitWrite \in PartialFunctions(Params, 0 .. MaxReadWriteRetry)
      /\ pm.forgotten \in SUBSET Params /\ pm.waitTimer \in BOOLEAN
  BY DEF IInv, Good, PMs
<1>2. p \in DOMAIN pm.facts
  BY DEF Write
<1>3. f \in PartialFunctions(Params, Values)
  BY <1>1, <1>2, ExceptIs
<1>4. DOMAIN f = DOMAIN pm.facts /\ \A q \in DOMAIN pm.facts \ {p} : f[q] = pm.facts[q]
  OBVIOUS
<1>5. w \in PartialFunctions(Params, 0 .. MaxReadWriteRetry)
  <2>1. 0 \in 0 .. MaxReadWriteRetry
    BY ParameterAssumption
  <2>2. [q \in {p} |-> 0] \in PartialFunctions(Params, 0 .. MaxReadWriteRetry)
    BY <2>1, ConstantIs
  <2> QED BY <1>1, <2>2, WithIs
<1>6. /\ DOMAIN w = DOMAIN pm.waitWrite \cup (IF k THEN {p} ELSE {})
      /\ g = pm.forgotten \cup (IF k THEN {} ELSE {p})
      /\ g \in SUBSET Params /\ i \in BOOLEAN
  BY <1>1 DEF With
<1>7. o \in SUBSET Requests /\ \A q : [kind |-> "set", param |-> q] \in o => q = p
  BY <1>1 DEF Requests
<1>8. Step(t, air)
  <2> DEFINE set == [pm EXCEPT !.facts[p] = v]
  <2>1. Step(Ask(IF k THEN [set EXCEPT !.waitTimer = TRUE,
                                       !.waitWrite = With(@, [q \in {p} |-> 0])]
                 ELSE [set EXCEPT !.forgotten = @ \cup {p}], "set", p), air)
    BY DEF Write
  <2>2. CASE k
    <3>1. Ask([set EXCEPT !.waitTimer = TRUE,
                          !.waitWrite = With(@, [q \in {p} |-> 0])], "set", p) = t
      BY <1>1, <2>2 DEF Ask, PMs
    <3> QED BY <2>1, <2>2, <3>1
  <2>3. CASE ~k
    <3>1. Ask([set EXCEPT !.forgotten = @ \cup {p}], "set", p) = t
      BY <1>1, <2>3 DEF Ask, PMs
    <3> QED BY <2>1, <2>3, <3>1
  <2> QED BY <2>2, <2>3
<1> HIDE DEF f, k, w, g, i, o
<1>9. t \in PMs
  <2> DEFINE u == [pm EXCEPT !.facts = f, !.waitTimer = i]
  <2>1. u \in PMs
    BY ONLY <1>1, <1>3, <1>6 DEF PMs
  <2>2. t = [u EXCEPT !.waitWrite = w, !.forgotten = g, !.out = o]
    OBVIOUS
  <2> HIDE DEF u, t
  <2> QED BY ONLY <2>1, <2>2, <1>5, <1>6, <1>7 DEF PMs
<1>10. /\ t.known = pm.known /\ t.facts = f /\ t.waitWrite = w
       /\ t.reported = pm.reported /\ t.forgotten = g
       /\ t.stale = pm.stale /\ t.batch = pm.batch /\ t.failed = pm.failed
       /\ t.out = o /\ t.missing = pm.missing /\ t.loaded = pm.loaded
       /\ t.partial = pm.partial
       /\ t.waitIndex = pm.waitIndex
  BY ONLY <1>1 DEF PMs
<1> HIDE DEF t
<1>11. Good(pm, pm.loaded, {})
  BY DEF IInv
<1>12. Sets(t) \subseteq {p} /\ Open(t) = Open(pm) \cup {p}
  BY <1>6, <1>7, <1>10 DEF Sets, Open
<1>13. QueueFits(t) /\ Grounded(t) /\ Accounted(t, {}) /\ SetsWait(t)
  BY <1>2, <1>4, <1>6, <1>10, <1>11, <1>12
     DEF Good, QueueFits, Grounded, Accounted, SetsWait
<1>14. Agree(t)
  BY <1>4, <1>10, <1>11, <1>12 DEF Good, Agree
<1>15. TellsMissing(t, pm.loaded)
  BY <1>10 DEF TellsMissing
<1>16. Good(t, pm.loaded, {})
  BY <1>9, <1>13, <1>14, <1>15 DEF Good
<1> QED BY <1>8, <1>16, NothingAsked, StillAre, StepKeeps

\* A PARAM_VALUE arrives.
LEMMA DeliverKeeps ==
  ASSUME IInv, NEW p \in Params, Deliver(p)
  PROVE  IInv' /\ TellsMissing(pm', pm.loaded)
<1> DEFINE rest == [air EXCEPT ![p] = Tail(@)]
           q == air[p]
           v == Head(q).value
           i == Head(q).indexed
<1>1. StillOnTheirWay(rest)
  BY NothingAsked, StillAre DEF Deliver
<1>2. Step(pm, rest) \/ Step(_handleParamValue(pm, p, v, i), rest)
  BY DEF Deliver
<1>3. q \in Seq(Messages) /\ q # <<>>
  BY NothingAsked DEF Vehicle, Deliver
<1>4. v \in Values /\ i \in BOOLEAN /\ p \notin Open(pm) => v = value[p]
  <2>1. Head(q) \in Messages /\ Head(q) \in Range(q)
    <3> HIDE DEF q
    <3> QED BY <1>3 DEF Range
  <2>2. p \notin Open(pm) => Head(q).value = value[p]
    BY <2>1, NothingAsked DEF Good, Agree
  <2> HIDE DEF q
  <2> QED BY <2>1, <2>2 DEF Messages
<1>5. v \in Values /\ i \in BOOLEAN
  <2>1. Head(q) \in Messages
    <3> HIDE DEF q
    <3> QED BY <1>3
  <2> HIDE DEF q
  <2> QED BY <2>1 DEF Messages
<1> HIDE DEF v, i, rest, q
<1>6. Good(_handleParamValue(pm, p, v, i), pm.loaded, {})
  BY <1>4, <1>5, NothingAsked, HandleKeeps
<1> QED BY <1>1, <1>2, <1>6, NothingAsked, StepKeeps

\* A _HASH_CHECK arrives; a cache that is used may ask for what it lacks.
LEMMA DeliverHashKeeps ==
  ASSUME IInv, DeliverHash
  PROVE  IInv' /\ TellsMissing(pm', pm.loaded)
<1> DEFINE m == (hash = "match")
           s == HashCheck(pm, m)
           none == "none"
<1>1. m \in BOOLEAN /\ none \in {"none", "match", "differ"}
  OBVIOUS
<1>2. Reply(s, air, none)
  BY DEF DeliverHash
<1> HIDE DEF m, none
<1>3. Good(s, pm.loaded, {})
  BY <1>1, NothingAsked, HashCheckKeeps
<1> HIDE DEF s
<1> QED BY <1>1, <1>2, <1>3, NothingAsked, StillAre, ReplyKeeps

\* What leaves the manager alone.
LEMMA AsideKeeps ==
  ASSUME IInv, UNCHANGED <<pm, value>>,
         air' \in [Params -> Seq(Messages)],
         \A p \in Params : Len(air'[p]) <= MaxAir,
         \A p \in Params : \A m \in Range(air'[p]) :
           m \in Range(air[p]) \/ m.value = value[p],
         hash' \in {"none", "match", "differ"}
  PROVE  IInv' /\ TellsMissing(pm', pm.loaded)
<1>1. pm \in PMs /\ pm.out = {}
  BY NothingAsked DEF IInv
<1>2. pm' = [pm EXCEPT !.out = {}, !.stale = pm.stale]
  <2>1. [pm EXCEPT !.out = pm.out, !.stale = pm.stale] = pm
    BY <1>1 DEF PMs
  <2> QED BY <1>1, <2>1
<1>3. value' \in [Params -> Values] /\ \A p \in Params \ Sets(pm) : value'[p] = value[p]
  BY NothingAsked DEF Vehicle
<1> DEFINE S == pm.stale
<1>4. S \in SUBSET pm.stale /\ \A p \in pm.stale \ S : pm.facts[p] = value'[p]
  OBVIOUS
<1>5. pm' = [pm EXCEPT !.out = {}, !.stale = S]
  BY <1>2
<1> HIDE DEF S
<1> QED BY <1>3, <1>4, <1>5, NothingAsked, EndKeeps

\* A PARAM_VALUE is lost.
LEMMA LoseKeeps ==
  ASSUME IInv, NEW p \in Params, Lose(p)
  PROVE  IInv' /\ TellsMissing(pm', pm.loaded)
<1>1. StillOnTheirWay([air EXCEPT ![p] = Tail(@)])
  BY NothingAsked, StillAre DEF Lose
<1>2. StillOnTheirWay(air')
  BY <1>1 DEF Lose
<1> QED BY <1>2, NothingAsked, AsideKeeps DEF Lose, StillOnTheirWay, Vehicle

\* The vehicle tells a value unasked.
LEMMA StreamKeeps ==
  ASSUME IInv, NEW p \in Params, Stream(p)
  PROVE  IInv' /\ TellsMissing(pm', pm.loaded)
<1> DEFINE q == air[p]
           m == [value |-> value[p], indexed |-> FALSE]
<1>1. q \in Seq(Messages) /\ m \in Messages /\ m.value = value[p]
  BY NothingAsked DEF Vehicle, Messages
<1>2. air' = [air EXCEPT ![p] = Append(q, m)] /\ Len(q) < MaxAir
  BY DEF Stream
<1> HIDE DEF q, m
<1>3. /\ Append(q, m) \in Seq(Messages) /\ Len(Append(q, m)) = Len(q) + 1
      /\ \A n \in Range(Append(q, m)) : n \in Range(q) \/ n = m
  BY <1>1, AppendIs
<1>4. Len(Append(q, m)) <= MaxAir
  <2>1. MaxAir \in Nat /\ Len(q) \in Nat
    BY <1>1, ParameterAssumption
  <2>2. Len(q) + 1 <= MaxAir
    BY <1>2, <2>1
  <2> QED BY <1>3, <2>2
<1>5. air' \in [Params -> Seq(Messages)] /\ \A r \in Params : Len(air'[r]) <= MaxAir
  BY <1>2, <1>3, <1>4, NothingAsked DEF Vehicle
<1>6. \A r \in Params : \A n \in Range(air'[r]) :
        n \in Range(air[r]) \/ n.value = value[r]
  <2> SUFFICES ASSUME NEW r \in Params, NEW n \in Range(air'[r])
               PROVE  n \in Range(air[r]) \/ n.value = value[r]
    OBVIOUS
  <2>1. CASE r = p
    <3>1. air'[p] = Append(q, m)
      BY <1>2, NothingAsked DEF Vehicle
    <3> QED BY <1>1, <1>3, <2>1, <3>1 DEF q
  <2>2. CASE r # p
    <3>1. air'[r] = air[r]
      BY <1>2, <2>2, NothingAsked DEF Vehicle
    <3> QED BY <3>1
  <2> QED BY <2>1, <2>2
<1> QED BY <1>5, <1>6, NothingAsked, AsideKeeps DEF Stream, Vehicle

\* A download ends, listened for or not.
LEMMA FtpEndsKeeps ==
  ASSUME IInv, FtpEnds
  PROVE  IInv' /\ TellsMissing(pm', pm.loaded)
<1> DEFINE empty == Empty
           over == [pm EXCEPT !.file = empty]
<1>1. PICK outcome \in Outcomes, linked \in BOOLEAN :
        \E file \in ReadFrom(outcome, pm.file) :
          Step(IF pm.heard THEN _ftpDownloadComplete(over, outcome, file, linked)
               ELSE over, air)
  BY DEF FtpEnds
<1>10. PICK file \in ReadFrom(outcome, pm.file) :
         Step(IF pm.heard THEN _ftpDownloadComplete(over, outcome, file, linked)
              ELSE over, air)
  BY <1>1
<1>2. file \in PartialFunctions(ParamsOf(Autopilot), Values)
  <2>1. /\ pm.file \in [ParamsOf(Autopilot) -> Values]
        /\ File \in [ParamsOf(Autopilot) -> Values]
    BY NothingAsked, FileIs DEF FtpEnds, PMs
  <2>2. \A h \in [ParamsOf(Autopilot) -> Values] :
          h \in PartialFunctions(ParamsOf(Autopilot), Values)
    BY DEF PartialFunctions
  <2>3. \A A, V : Empty \in PartialFunctions(A, V)
    BY DEF Empty, PartialFunctions
  <2>4. ReadFrom(outcome, pm.file) \subseteq
          {pm.file, File, Empty} \cup PartialFunctions(ParamsOf(Autopilot), Values)
    BY DEF ReadFrom, Outcomes
  <2> HIDE DEF over
  <2> QED BY <2>1, <2>2, <2>3, <2>4
<1>3. empty \in {Empty} \cup [ParamsOf(Autopilot) -> Values]
  OBVIOUS
<1> HIDE DEF empty
<1>4. over \in PMs /\ Books(over) = Books(pm)
  BY <1>3, NothingAsked DEF PMs, Books
<1> HIDE DEF over
<1>5. /\ Good(over, pm.loaded, {}) /\ Sets(over) = {}
      /\ over.loaded => pm.loaded
  BY <1>4, NothingAsked, OnlyTimers DEF Books
<1>6. Good(_ftpDownloadComplete(over, outcome, file, linked), pm.loaded, {})
  BY <1>2, <1>5, NothingAsked, FtpDownloadCompleteKeeps
<1>7. StillOnTheirWay(air)
  BY NothingAsked, StillAre
<1>8. CASE pm.heard
  BY <1>10, <1>6, <1>7, <1>8, NothingAsked, StepKeeps
<1>9. CASE ~pm.heard
  BY <1>10, <1>5, <1>7, <1>9, NothingAsked, StepKeeps
<1> QED BY <1>8, <1>9

\* Any step.
LEMMA NextKeeps ==
  ASSUME IInv, Next
  PROVE  IInv' /\ TellsMissing(pm', pm.loaded)
<1>1. CASE \E comp \in Components \cup {CompIdAll} : RefreshAll(comp)
  BY <1>1, RefreshAllKeeps
<1>2. CASE \E p \in Params : RefreshParameter(p) \/ Deliver(p) \/ Lose(p) \/ Stream(p)
  BY <1>2, RefreshParameterKeeps, DeliverKeeps, LoseKeeps, StreamKeeps
<1>3. CASE \E p \in Params, v \in Values : Write(p, v)
  BY <1>3, WriteKeeps
<1>4. CASE DeliverHash
  BY <1>4, DeliverHashKeeps
<1>5. CASE LoseHash
  BY <1>5, NothingAsked, AsideKeeps DEF LoseHash, Vehicle
<1>6. CASE InitialRequestTimeout
  <2>1. PICK linked \in BOOLEAN : Step(_initialRequestTimeout(pm, linked), air)
    BY <1>6 DEF InitialRequestTimeout
  <2>2. Good(_initialRequestTimeout(pm, linked), pm.loaded, {})
    BY NothingAsked, InitialRequestTimeoutKeeps
  <2> QED BY <2>1, <2>2, NothingAsked, StillAre, StepKeeps
<1>7. CASE WaitingParamTimeout
  <2>1. Good(_waitingParamTimeout(pm), pm.loaded, {})
    BY NothingAsked, WaitingParamTimeoutKeeps
  <2> QED BY <1>7, <2>1, NothingAsked, StillAre, StepKeeps DEF WaitingParamTimeout
<1>8. CASE FtpProgress
  <2>1. Good(Progress(pm), pm.loaded, {})
    BY NothingAsked, ProgressKeeps
  <2> QED BY <1>8, <2>1, NothingAsked, StillAre, StepKeeps DEF FtpProgress
<1>9. CASE FtpEnds
  BY <1>9, FtpEndsKeeps
<1> QED BY <1>1, <1>2, <1>3, <1>4, <1>5, <1>6, <1>7, <1>8, <1>9 DEF Next

\* The invariant holds at the start.
LEMMA Initially ==
  ASSUME Init
  PROVE  IInv
<1>1. PICK apm \in BOOLEAN, cached \in BOOLEAN :
       pm = [initialTimer |-> FALSE, listRetries |-> 0, waitTimer |-> FALSE,
             waitingForDefault |-> FALSE, tryftp |-> apm, px4 |-> ~apm,
             cached |-> cached, known |-> {}, waitIndex |-> Empty, waitName |-> Empty,
             waitWrite |-> Empty, batchActive |-> FALSE, batch |-> {},
             failed |-> FALSE, facts |-> Empty, loaded |-> FALSE,
             missing |-> FALSE, file |-> Empty, heard |-> FALSE,
             progress |-> FALSE, out |-> {}, requested |-> FALSE,
             told |-> FALSE, left |-> FALSE, forgotten |-> {},
             reported |-> {}, stale |-> {}, partial |-> FALSE]
  BY DEF Init
<1>2. \A S, T : Empty \in PartialFunctions(S, T)
  BY DEF Empty, PartialFunctions
<1>3. 0 \in 0 .. MaxListRetry + 1
  BY ParameterAssumption
<1>4. pm \in PMs
  BY <1>1, <1>2, <1>3 DEF PMs
<1>5. DOMAIN Empty = {}
  BY DEF Empty
<1>6. QueueFits(pm)
  <2>1. IsFiniteSet({}) /\ Cardinality({}) = 0
    BY FS_EmptySet
  <2> QED BY <1>1, <2>1, ParameterAssumption DEF QueueFits
<1>7. Grounded(pm) /\ Accounted(pm, {}) /\ SetsWait(pm) /\ TellsMissing(pm, pm.loaded)
  BY <1>1, <1>5 DEF Grounded, Accounted, SetsWait, Sets, TellsMissing
<1>8. Vehicle
  <2>1. air \in [Params -> Seq(Messages)] /\ \A p \in Params : Len(air[p]) = 0
    BY DEF Init
  <2> QED BY <2>1, ParameterAssumption DEF Init, Vehicle
<1>9. Agree(pm)
  BY <1>1, <1>5 DEF Init, Agree, Range
<1> QED BY <1>1, <1>4, <1>6, <1>7, <1>8, <1>9 DEF IInv, Good

\* The invariant is at least the type.
LEMMA TypeIs ==
  ASSUME IInv
  PROVE  TypeOK
<1>1. pm \in PMs
  BY NothingAsked
<1>2. pm.waitWrite \in PartialFunctions(DOMAIN pm.facts, 0 .. MaxReadWriteRetry)
  <2>1. PICK D \in SUBSET Params : pm.waitWrite \in [D -> 0 .. MaxReadWriteRetry]
    BY <1>1 DEF PMs, PartialFunctions
  <2>2. D \subseteq DOMAIN pm.facts
    BY <2>1 DEF IInv, Good, Grounded
  <2> QED BY <2>1, <2>2 DEF PartialFunctions
<1>3. /\ pm.waitIndex \in PartialFunctions(Params, 0 .. MaxIndexRetry)
      /\ pm.waitName \in PartialFunctions(Params, 0 .. MaxReadWriteRetry)
      /\ pm.facts \in PartialFunctions(Params, Values)
      /\ pm.listRetries \in 0 .. MaxListRetry + 1
  BY <1>1 DEF PMs
<1>4. Cardinality(pm.batch) <= MaxBatchSize + 1 /\ pm.out = {}
  BY DEF IInv, Good, QueueFits
<1> QED BY <1>2, <1>3, <1>4, NothingAsked DEF TypeOK, Vehicle

\* The retry counts, the queue and the lists keep to their bounds, every write
\* that waits is of a fact, and the parameters of which nothing is pending agree
\* with the vehicle together with all that is on its way - whatever files are
\* read, whole, damaged or as far as they can be parsed.
THEOREM Invariance == Spec => []IInv
<1>1. Init => IInv
  BY Initially
<1>2. IInv /\ [Next]_vars => IInv'
  <2>1. IInv /\ UNCHANGED vars => IInv'
    BY DEF vars, IInv, Good, QueueFits, Grounded, Accounted, SetsWait, Sets, Agree,
           Open, TellsMissing, Complete, Vehicle
  <2> QED BY <2>1, NextKeeps
<1> QED BY <1>1, <1>2, PTL DEF Spec

\* When nothing about a parameter is pending or on its way its fact is the
\* vehicle's value, also after a file that failed half way, for any parameters,
\* values and bounds - but where a write was given up, answered by another value,
\* or not waited for, and where a value of an older or damaged file or an older
\* cache differs.
THEOREM SettledFactsAgreeHolds == Spec => []SettledFactsAgree
<1>1. IInv => SettledFactsAgree
  <2> SUFFICES ASSUME IInv PROVE SettledFactsAgree
    OBVIOUS
  <2>1. pm.facts \in PartialFunctions(Params, Values)
    BY NothingAsked DEF PMs
  <2>2. DOMAIN pm.facts \subseteq Params
    BY <2>1, ValuesOfPartial
  <2>3. Agree(pm)
    BY DEF IInv, Good
  <2> QED BY <2>2, <2>3, TypeIs DEF SettledFactsAgree, Agree, Open
<1> QED BY <1>1, Invariance, PTL

\* A load that ends without missing parameters has all parameters of the
\* autopilot and of every component that has been heard of - but for the
\* autopilot's when its facts are of a file read in part.
THEOREM MissingIsToldHolds == Spec => MissingIsTold
<1> DEFINE A == ~pm.loaded /\ pm'.loaded /\ ~pm'.missing =>
                  \A c \in pm'.known \cup {Autopilot} :
                    \/ ParamsOf(c) \subseteq DOMAIN pm'.facts
                    \/ c = Autopilot /\ pm'.partial
<1>1. IInv /\ [Next]_vars => [A]_vars
  <2> SUFFICES ASSUME IInv, Next PROVE A
    BY DEF vars
  <2>1. TellsMissing(pm', pm.loaded)
    BY NextKeeps
  <2> QED BY <2>1 DEF TellsMissing, Complete
<1> QED BY <1>1, Invariance, PTL DEF Spec, MissingIsTold
=============================================================================
