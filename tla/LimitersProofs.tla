--------------------------- MODULE LimitersProofs ---------------------------
(***************************************************************************)
(* Proofs about Limiters, for any configuration, paths and bounds.         *)
(*                                                                         *)
(* The argument: the shutdown only notifies limiters that are in the map,  *)
(* each under the path it was added for, so a limiter whose refill task    *)
(* has stopped is one of those it got to.                                  *)
(* And a request is charged to one limiter, among those that the           *)
(* configuration gives its path: so what the requests of some paths got,   *)
(* with what their limiters have left, stays within what these have had.   *)
(* This is about sums over sets, whose lemmas are proved by induction over *)
(* subsets of a finite set.                                                *)
(***************************************************************************)
EXTENDS Limiters, Integers, FiniteSetTheorems, FunctionTheorems, WellFoundedInduction, TLAPS

Configurables == {PathOf(i) : i \in Ids}

\* The map only has limiters that were added, each under its own path, and all
\* of them once requests come in.
ManagerInv ==
    /\ phase \in {"starting", "serving", "closing"}
    /\ added \in 0..Len(Configured)
    /\ DOMAIN limiters = {PathOf(i) : i \in 1..added}
    /\ \A p \in DOMAIN limiters : limiters[p] \in 1..added /\ PathOf(limiters[p]) = p
    /\ phase # "starting" => added = Len(Configured)
    /\ told > 0 => phase = "closing"
    /\ told \in 0..Len(hashOrder)
    /\ hashOrder \in [1..Len(hashOrder) -> Configurables]
    /\ Len(hashOrder) \in Nat

\* A refill task is told to stop by the shutdown alone.
Told == {hashOrder[n] : n \in 1..told}

RefillInv ==
    /\ refiller \in [Ids -> {"none", "busy", "select", "stopped", "panicked"}]
    /\ woken \in [Ids -> BOOLEAN]
    /\ \A i \in Ids : i <= added <=> refiller[i] # "none"
    /\ \A i \in Ids : woken[i] \/ refiller[i] = "stopped" => PathOf(i) \in Told
    /\ \A i \in Ids : refiller[i] = "panicked" => NeverRefilled(i)

BucketInv ==
    /\ tokens \in [Ids -> Nat] /\ \A i \in Ids : tokens[i] <= Size(i)
    /\ refilled \in [Ids -> Nat]
    /\ \A i \in Ids : refilled[i] <= MaxRefills + (IF refiller[i] = "busy" THEN 0 ELSE 1)
    /\ \A i \in Ids : refiller[i] = "none" => refilled[i] = 0

LEMMA ConfigurablesFinite == IsFiniteSet(Configurables) /\ Cardinality(Configurables) \in Nat
<1> DEFINE f == [i \in Ids |-> PathOf(i)]
<1>1. IsFiniteSet(Ids)
  BY LimitersAssumption, FS_Interval
<1>2. f \in Surjection(Ids, Configurables)
  BY DEF Surjection, Configurables
<1>3. IsFiniteSet(Configurables)
  BY <1>1, <1>2, FS_Surjection
<1> QED BY <1>3, FS_CardinalityType

LEMMA InitManager == Init => ManagerInv /\ RefillInv /\ BucketInv
<1> SUFFICES ASSUME Init PROVE ManagerInv /\ RefillInv /\ BucketInv
  OBVIOUS
<1>1. hashOrder \in [1..Cardinality(Configurables) -> Configurables]
  BY DEF Init, SetToSeqs, Configurables
<1>2. Len(hashOrder) = Cardinality(Configurables)
  BY <1>1, ConfigurablesFinite
<1>3. ManagerInv
  BY <1>1, <1>2, ConfigurablesFinite, LimitersAssumption DEF Init, ManagerInv
<1>4. RefillInv
  BY LimitersAssumption DEF Init, RefillInv
<1>5. BucketInv
  BY LimitersAssumption DEF Init, BucketInv
<1> QED BY <1>3, <1>4, <1>5

-----------------------------------------------------------------------------
LimitersInv == ManagerInv /\ RefillInv /\ BucketInv

LEMMA AddStep == ASSUME LimitersInv, AddLimiter PROVE LimitersInv'
<1> DEFINE i == added + 1
<1>0. /\ added \in Nat /\ i \in 1..Len(Configured) /\ Ids = 1..Len(Configured)
      /\ Len(Configured) \in Nat /\ phase = "starting" /\ told \in Nat
      /\ added' = i /\ UNCHANGED <<phase, hashOrder, told, tokens, refilled, woken>>
      /\ refiller' = [refiller EXCEPT ![i] = IF NeverRefilled(i) THEN "panicked" ELSE "busy"]
  BY LimitersAssumption DEF AddLimiter, LimitersInv, ManagerInv
<1>1. limiters' = [p \in DOMAIN limiters \union {PathOf(i)} |->
                      IF p = PathOf(i) THEN i ELSE limiters[p]]
  BY DEF AddLimiter
<1>2. /\ DOMAIN limiters' = {PathOf(j) : j \in 1..i}
      /\ \A p \in DOMAIN limiters' : limiters'[p] \in 1..i /\ PathOf(limiters'[p]) = p
  <2>1. 1..i = (1..added) \union {i} /\ 1..added \subseteq 1..i
    BY <1>0
  <2> QED BY <1>1, <2>1 DEF LimitersInv, ManagerInv
<1>3. ManagerInv'
  BY <1>0, <1>2 DEF LimitersInv, ManagerInv
<1>4. RefillInv'
  <2>1. refiller[i] = "none"
    BY <1>0 DEF LimitersInv, RefillInv
  <2>2. Told' = Told
    BY <1>0 DEF Told
  <2> QED BY <1>0, <2>1, <2>2 DEF LimitersInv, RefillInv
<1>5. BucketInv'
  <2>1. refiller[i] = "none"
    BY <1>0 DEF LimitersInv, RefillInv
  <2> QED BY <1>0, <2>1, LimitersAssumption DEF LimitersInv, RefillInv, BucketInv
<1> QED BY <1>3, <1>4, <1>5 DEF LimitersInv

LEMMA RequestStep ==
    ASSUME LimitersInv, NEW path \in Paths, Admit(path) \/ Refuse(path)
    PROVE  LimitersInv'
<1>1. UNCHANGED <<manager, refilled, refiller, woken>>
  BY DEF Admit, Refuse, buckets
<1>2. tokens' \in [Ids -> Nat] /\ \A i \in Ids : tokens'[i] <= Size(i)
  <2>1. CASE Refuse(path)
    BY <2>1 DEF Refuse, buckets, LimitersInv, BucketInv
  <2>2. CASE Admit(path)
    <3>1. /\ \A i \in GetLimiter(path) : tokens[i] > 0
          /\ tokens' = [i \in Ids |-> IF i \in GetLimiter(path) THEN tokens[i] - 1 ELSE tokens[i]]
      BY <2>2 DEF Admit
    <3>2. ASSUME NEW i \in Ids PROVE tokens'[i] \in Nat /\ tokens'[i] <= Size(i)
      BY <3>1, LimitersAssumption DEF LimitersInv, BucketInv
    <3> QED BY <3>1, <3>2
  <2> QED BY <2>1, <2>2
<1>3. ManagerInv' /\ RefillInv'
  BY <1>1 DEF manager, LimitersInv, ManagerInv, RefillInv, Told
<1>4. BucketInv'
  BY <1>1, <1>2 DEF LimitersInv, BucketInv
<1> QED BY <1>3, <1>4 DEF LimitersInv

LEMMA RefillStep == ASSUME LimitersInv, NEW i \in Ids, RefillTask(i) PROVE LimitersInv'
<1>0. /\ UNCHANGED manager
      /\ tokens \in [Ids -> Nat] /\ \A j \in Ids : tokens[j] <= Size(j)
      /\ Size(i) \in Nat /\ MaxRefills \in Nat
      /\ refilled \in [Ids -> Nat] /\ refilled[i] \in Nat
      /\ refiller \in [Ids -> {"none", "busy", "select", "stopped", "panicked"}]
      /\ woken \in [Ids -> BOOLEAN]
  BY LimitersAssumption
  DEF RefillTask, Tick, Refill, Stop, LimitersInv, RefillInv, BucketInv
<1>1. ManagerInv'
  BY <1>0 DEF manager, LimitersInv, ManagerInv
<1>2. Told' = Told /\ added' = added
  BY <1>0 DEF manager, Told
<1>3. CASE Tick(i)
  <2>1. /\ refiller[i] = "select" /\ refilled[i] < MaxRefills
        /\ refiller' = [refiller EXCEPT ![i] = "busy"]
        /\ woken' = [woken EXCEPT ![i] = FALSE]
        /\ UNCHANGED <<tokens, refilled>>
    BY <1>3 DEF Tick
  <2>2. RefillInv'
    BY <1>0, <1>2, <2>1 DEF LimitersInv, RefillInv
  <2>3. BucketInv'
    BY <1>0, <2>1 DEF LimitersInv, BucketInv
  <2> QED BY <1>1, <2>2, <2>3 DEF LimitersInv
<1>4. CASE Refill(i)
  <2>1. /\ refiller[i] = "busy"
        /\ tokens' = [tokens EXCEPT ![i] = IF tokens[i] < Size(i) THEN tokens[i] + 1 ELSE Size(i)]
        /\ refilled' = [refilled EXCEPT ![i] = refilled[i] + 1]
        /\ refiller' = [refiller EXCEPT ![i] = "select"]
        /\ woken' = woken
    BY <1>4 DEF Refill
  <2>2. RefillInv'
    BY <1>0, <1>2, <2>1 DEF LimitersInv, RefillInv
  <2>3. tokens' \in [Ids -> Nat] /\ \A j \in Ids : tokens'[j] <= Size(j)
    BY <1>0, <2>1
  <2>4. refilled[i] <= MaxRefills
    BY <1>0, <2>1 DEF LimitersInv, BucketInv
  <2>5. /\ refilled' \in [Ids -> Nat]
        /\ \A j \in Ids : refilled'[j] <= MaxRefills + (IF refiller'[j] = "busy" THEN 0 ELSE 1)
        /\ \A j \in Ids : refiller'[j] = "none" => refilled'[j] = 0
    BY <1>0, <2>1, <2>4 DEF LimitersInv, BucketInv
  <2> QED BY <1>1, <2>2, <2>3, <2>5 DEF LimitersInv, BucketInv
<1>5. CASE Stop(i)
  <2>1. /\ refiller[i] = "select" /\ woken[i]
        /\ refiller' = [refiller EXCEPT ![i] = "stopped"]
        /\ woken' = [woken EXCEPT ![i] = FALSE]
        /\ UNCHANGED <<tokens, refilled>>
    BY <1>5 DEF Stop
  <2>2. RefillInv'
    BY <1>0, <1>2, <2>1 DEF LimitersInv, RefillInv
  <2>3. BucketInv'
    BY <1>0, <2>1 DEF LimitersInv, BucketInv
  <2> QED BY <1>1, <2>2, <2>3 DEF LimitersInv
<1> QED BY <1>3, <1>4, <1>5 DEF RefillTask

LEMMA ShutdownStep ==
    ASSUME LimitersInv, Listen \/ BeginShutdown \/ NotifyNext
    PROVE  LimitersInv'
<1>1. CASE Listen \/ BeginShutdown
  <2>1. /\ phase' \in {"serving", "closing"}
        /\ told > 0 => phase' = "closing"
        /\ phase' # "starting" => added = Len(Configured)
        /\ UNCHANGED <<added, limiters, hashOrder, told, tokens, refilled, refiller, woken>>
    BY <1>1 DEF Listen, BeginShutdown, buckets, LimitersInv, ManagerInv
  <2>2. ManagerInv'
    BY <2>1 DEF LimitersInv, ManagerInv
  <2>3. RefillInv' /\ BucketInv'
    BY <2>1 DEF LimitersInv, RefillInv, BucketInv, Told
  <2> QED BY <2>2, <2>3 DEF LimitersInv
<1>2. CASE NotifyNext
  <2> DEFINE p == hashOrder[told + 1]
             i == limiters[p]
  <2>0. /\ told \in Nat /\ Len(hashOrder) \in Nat /\ told + 1 \in 1..Len(hashOrder)
        /\ told' = told + 1 /\ woken' = [woken EXCEPT ![i] = refiller[i] = "select"]
        /\ UNCHANGED <<phase, added, limiters, hashOrder, tokens, refilled, refiller>>
        /\ phase = "closing"
    BY <1>2 DEF NotifyNext, LimitersInv, ManagerInv
  <2>1. p \in DOMAIN limiters
    BY <2>0, LimitersAssumption DEF LimitersInv, ManagerInv, Configurables
  <2>2. i \in Ids /\ PathOf(i) = p
    <3>1. i \in 1..added /\ PathOf(i) = p /\ added \in 0..Len(Configured)
      BY <2>1 DEF LimitersInv, ManagerInv
    <3>2. Ids = 1..Len(Configured) /\ Len(Configured) \in Nat
      BY LimitersAssumption
    <3> HIDE DEF i, p
    <3> QED BY <3>1, <3>2
  <2>3. Told' = Told \union {p}
    <3>1. 1..told + 1 = (1..told) \union {told + 1}
      BY <2>0
    <3> QED BY <2>0, <3>1 DEF Told
  <2>4. ManagerInv'
    BY <2>0 DEF LimitersInv, ManagerInv
  <2>5. RefillInv'
    BY <2>0, <2>2, <2>3 DEF LimitersInv, RefillInv
  <2>6. BucketInv'
    BY <2>0 DEF LimitersInv, BucketInv
  <2> QED BY <2>4, <2>5, <2>6 DEF LimitersInv
<1> QED BY <1>1, <1>2

LEMMA LimitersStep == LimitersInv /\ [Next]_vars => LimitersInv'
<1> SUFFICES ASSUME LimitersInv, [Next]_vars PROVE LimitersInv'
  OBVIOUS
<1>1. CASE UNCHANGED vars
  BY <1>1 DEF vars, manager, buckets, LimitersInv, ManagerInv, RefillInv, BucketInv, Told
<1> QED BY <1>1, AddStep, RequestStep, RefillStep, ShutdownStep DEF Next

LEMMA LimitersInvariant == Spec => []LimitersInv
<1>1. Init => LimitersInv
  BY InitManager DEF LimitersInv
<1> QED BY <1>1, LimitersStep, PTL DEF Spec

\* TypeOK: a bucket never holds more than its size, the map only has limiters that
\* were added, under their own paths, and these have refill tasks.
THEOREM TypeCorrect == Spec => []TypeOK
<1>1. LimitersInv => TypeOK
  <2> SUFFICES ASSUME LimitersInv PROVE TypeOK
    OBVIOUS
  <2>1. \A i \in Ids : tokens[i] \in 0..Size(i) /\ refilled[i] \in 0..MaxRefills + 1
    BY LimitersAssumption DEF LimitersInv, BucketInv
  <2>2. \A i \in Ids : refiller[i] \in {"busy", "select", "stopped", "panicked"} <=> i <= added
    BY DEF LimitersInv, RefillInv
  <2> QED BY <2>1, <2>2 DEF LimitersInv, ManagerInv, RefillInv, BucketInv, TypeOK
<1> QED BY LimitersInvariant, <1>1, PTL

\* ChargedAreRefilled: a limiter that requests are charged to has a refill task
\* until the shutdown has got to it, whatever limiters it has replaced, unless
\* its own interval is 0.
THEOREM RefilledCorrect == Spec => []ChargedAreRefilled
<1>1. LimitersInv => ChargedAreRefilled
  <2> SUFFICES ASSUME LimitersInv, NEW p \in DOMAIN limiters,
                      \A n \in 1..told : hashOrder[n] # p, ~NeverRefilled(limiters[p])
               PROVE  refiller[limiters[p]] \in {"busy", "select"}
    BY DEF ChargedAreRefilled
  <2>1. limiters[p] \in Ids /\ limiters[p] <= added /\ PathOf(limiters[p]) = p
    BY LimitersAssumption DEF LimitersInv, ManagerInv
  <2>2. p \notin Told
    BY DEF Told
  <2> QED BY <2>1, <2>2 DEF LimitersInv, RefillInv
<1> QED BY LimitersInvariant, <1>1, PTL

-----------------------------------------------------------------------------
(* Sums over finite sets. *)

Some(T) == CHOOSE x \in T : TRUE

LEMMA SetInduction ==
    ASSUME NEW S, 0 \in S, \A n \in Nat : n \in S => n + 1 \in S
    PROVE  Nat \subseteq S
<1> SUFFICES ASSUME Nat \ S # {} PROVE FALSE
  OBVIOUS
<1>1. PICK n \in Nat \ S : \A m \in Nat \ S : <<m, n>> \notin OpToRel(<, Nat)
  BY NatLessThanWellFounded, WFMin
<1>2. \A m \in Nat \ S : ~ (m < n)
  BY <1>1 DEF OpToRel
<1>3. n # 0 /\ n - 1 \in Nat /\ (n - 1) + 1 = n
  OBVIOUS
<1>4. n - 1 \in S
  BY <1>2, <1>3
<1> QED BY <1>3, <1>4

\* What holds of a set when it holds of the set without one element of its own.
LEMMA SubsetInduction ==
    ASSUME NEW S, IsFiniteSet(S), NEW Q, {} \in Q,
           \A T \in SUBSET S : T # {} /\ T \ {Some(T)} \in Q => T \in Q
    PROVE  SUBSET S \subseteq Q
<1> DEFINE N == {n \in Nat : \A T \in SUBSET S : Cardinality(T) = n => T \in Q}
<1>1. \A T \in SUBSET S : IsFiniteSet(T) /\ Cardinality(T) \in Nat
  BY FS_Subset, FS_CardinalityType
<1>2. 0 \in N
  BY <1>1, FS_EmptySet
<1>3. ASSUME NEW n \in Nat, n \in N PROVE n + 1 \in N
  <2> SUFFICES ASSUME NEW T \in SUBSET S, Cardinality(T) = n + 1 PROVE T \in Q
    OBVIOUS
  <2>1. T # {}
    BY <1>1, FS_EmptySet
  <2>2. Some(T) \in T
    BY <2>1 DEF Some
  <2>3. T \ {Some(T)} \in SUBSET S /\ Cardinality(T \ {Some(T)}) = n
    BY <1>1, <2>2, FS_RemoveElement
  <2> QED BY <1>3, <2>1, <2>3
<1>4. Nat \subseteq N
  <2> HIDE DEF N
  <2> QED BY <1>2, <1>3, SetInduction
<1> QED BY <1>1, <1>4

\* The sum of f over S, as MapThenSumSet has it.
Total(f, S) ==
    LET total[T \in SUBSET S] == IF T = {} THEN 0 ELSE f[Some(T)] + total[T \ {Some(T)}]
    IN  total[S]

\* The sums over the subsets, each from a smaller one.
LEMMA TotalUnfold ==
    ASSUME NEW f, NEW S, IsFiniteSet(S)
    PROVE  \E g : /\ g[{}] = 0
                  /\ \A T \in SUBSET S : T # {} => g[T] = f[Some(T)] + g[T \ {Some(T)}]
                  /\ Total(f, S) = g[S]
<1> DEFINE Value(g, T) == IF T = {} THEN 0 ELSE f[Some(T)] + g[T \ {Some(T)}]
           Is(g)       == g = [T \in SUBSET S |-> IF T = {} THEN 0
                                                  ELSE f[Some(T)] + g[T \ {Some(T)}]]
           Upto(g, n)  == \A T \in SUBSET S : Cardinality(T) <= n => g[T] = Value(g, T)
           N == {n \in Nat : \E g : Upto(g, n)}
           t == CHOOSE g : Is(g)
<1>1. \A T \in SUBSET S : IsFiniteSet(T) /\ Cardinality(T) \in Nat
                          /\ Cardinality(T) <= Cardinality(S)
  BY FS_Subset, FS_CardinalityType
<1>2. \A T \in SUBSET S : T # {} => /\ T \ {Some(T)} \in SUBSET S
                                    /\ Cardinality(T \ {Some(T)}) = Cardinality(T) - 1
                                    /\ Cardinality(T) # 0
  <2> SUFFICES ASSUME NEW T \in SUBSET S, T # {}
               PROVE  /\ T \ {Some(T)} \in SUBSET S
                      /\ Cardinality(T \ {Some(T)}) = Cardinality(T) - 1
                      /\ Cardinality(T) # 0
    OBVIOUS
  <2>1. Some(T) \in T
    BY DEF Some
  <2> QED BY <1>1, <2>1, FS_RemoveElement, FS_EmptySet
<1>3. 0 \in N
  <2> DEFINE g == [T \in SUBSET S |-> 0]
  <2>1. \A T \in SUBSET S : Cardinality(T) <= 0 => T = {}
    <3> TAKE T \in SUBSET S
    <3>1. Cardinality(T) \in Nat /\ (T # {} => Cardinality(T) # 0)
      BY <1>1, <1>2
    <3> QED BY <3>1
  <2>2. Upto(g, 0)
    BY <2>1
  <2> QED BY <2>2
<1>4. ASSUME NEW n \in Nat, n \in N PROVE n + 1 \in N
  <2>1. PICK g : Upto(g, n)
    BY <1>4
  <2> DEFINE h == [T \in SUBSET S |-> Value(g, T)]
  <2>2. ASSUME NEW T \in SUBSET S, Cardinality(T) <= n + 1 PROVE h[T] = Value(h, T)
    <3>1. CASE T = {}
      BY <3>1
    <3>2. CASE T # {}
      <4>1. T \ {Some(T)} \in SUBSET S /\ Cardinality(T \ {Some(T)}) <= n
        BY <1>1, <1>2, <2>2, <3>2
      <4>2. h[T \ {Some(T)}] = g[T \ {Some(T)}]
        BY <2>1, <4>1
      <4> QED BY <3>2, <4>2
    <3> QED BY <3>1, <3>2
  <2> HIDE DEF h, Value
  <2>3. Upto(h, n + 1)
    BY <2>2
  <2> HIDE DEF Upto
  <2> QED BY <2>3
<1>5. PICK g : Upto(g, Cardinality(S))
  <2>1. Nat \subseteq N
    <3> HIDE DEF N
    <3> QED BY <1>3, <1>4, SetInduction
  <2>2. Cardinality(S) \in Nat
    BY <1>1
  <2> HIDE DEF Upto
  <2> QED BY <2>1, <2>2
<1>6. \E h : Is(h)
  <2> DEFINE h == [T \in SUBSET S |-> g[T]]
  <2>1. ASSUME NEW T \in SUBSET S PROVE g[T] = IF T = {} THEN 0 ELSE f[Some(T)] + h[T \ {Some(T)}]
    BY <1>1, <1>2, <1>5
  <2>2. Is(h)
    BY <2>1
  <2> HIDE DEF Is
  <2> QED BY <2>2
<1>7. Is(t)
  <2> HIDE DEF Is
  <2> QED BY <1>6
<1>8. Total(f, S) = t[S]
  BY DEF Total
<1> HIDE DEF t
<1>9. t[{}] = 0 /\ \A T \in SUBSET S : T # {} => t[T] = f[Some(T)] + t[T \ {Some(T)}]
  BY <1>7
<1> QED BY <1>8, <1>9

\* A sum of natural numbers is one.
LEMMA TotalNat ==
    ASSUME NEW f, NEW S, IsFiniteSet(S), \A x \in S : f[x] \in Nat
    PROVE  Total(f, S) \in Nat
<1>1. PICK g : /\ g[{}] = 0
               /\ \A T \in SUBSET S : T # {} => g[T] = f[Some(T)] + g[T \ {Some(T)}]
               /\ Total(f, S) = g[S]
  BY TotalUnfold
<1> DEFINE Q == {T \in SUBSET S : g[T] \in Nat}
<1>2. {} \in Q
  BY <1>1
<1>3. ASSUME NEW T \in SUBSET S, T # {}, T \ {Some(T)} \in Q PROVE T \in Q
  <2>1. Some(T) \in S
    BY <1>3 DEF Some
  <2>2. f[Some(T)] \in Nat /\ g[T \ {Some(T)}] \in Nat
    BY <1>3, <2>1
  <2>3. g[T] = f[Some(T)] + g[T \ {Some(T)}]
    BY <1>1, <1>3
  <2> QED BY <2>2, <2>3
<1>4. SUBSET S \subseteq Q
  <2> HIDE DEF Q
  <2> QED BY <1>2, <1>3, SubsetInduction
<1> QED BY <1>1, <1>4

\* A sum changes by what one of its terms changes by, if that is in it.
LEMMA TotalMoves ==
    ASSUME NEW S, IsFiniteSet(S), NEW f, \A y \in S : f[y] \in Nat,
           NEW x, NEW d \in Int, NEW h, \A y \in S : h[y] = f[y] + (IF y = x THEN d ELSE 0)
    PROVE  Total(h, S) = Total(f, S) + (IF x \in S THEN d ELSE 0)
<1>1. PICK a : /\ a[{}] = 0
               /\ \A T \in SUBSET S : T # {} => a[T] = f[Some(T)] + a[T \ {Some(T)}]
               /\ Total(f, S) = a[S]
  BY TotalUnfold
<1>2. PICK b : /\ b[{}] = 0
               /\ \A T \in SUBSET S : T # {} => b[T] = h[Some(T)] + b[T \ {Some(T)}]
               /\ Total(h, S) = b[S]
  BY TotalUnfold
<1> DEFINE Q == {T \in SUBSET S : a[T] \in Nat /\ b[T] = a[T] + (IF x \in T THEN d ELSE 0)}
<1>3. {} \in Q
  BY <1>1, <1>2
<1>4. ASSUME NEW T \in SUBSET S, T # {}, T \ {Some(T)} \in Q PROVE T \in Q
  <2> DEFINE s == Some(T)
             R == T \ {s}
  <2>1. s \in T /\ s \in S
    BY <1>4 DEF Some
  <2>2. a[T] = f[s] + a[R] /\ b[T] = h[s] + b[R]
    BY <1>1, <1>2, <1>4
  <2>3. f[s] \in Nat /\ h[s] = f[s] + (IF s = x THEN d ELSE 0)
    BY <2>1
  <2>4. a[R] \in Nat /\ b[R] = a[R] + (IF x \in R THEN d ELSE 0)
    BY <1>4
  <2>5. x \in R <=> x \in T /\ x # s
    OBVIOUS
  <2> HIDE DEF s, R
  <2>6. a[T] \in Nat
    BY <2>2, <2>3, <2>4
  <2>7. b[T] = a[T] + (IF x \in T THEN d ELSE 0)
    BY <2>1, <2>2, <2>3, <2>4, <2>5
  <2> QED BY <2>6, <2>7
<1>5. SUBSET S \subseteq Q
  <2> HIDE DEF Q
  <2> QED BY <1>3, <1>4, SubsetInduction
<1> QED BY <1>1, <1>2, <1>5

\* Equal terms make equal sums.
LEMMA TotalSame ==
    ASSUME NEW S, IsFiniteSet(S), NEW f, \A y \in S : f[y] \in Nat, NEW h, \A y \in S : h[y] = f[y]
    PROVE  Total(h, S) = Total(f, S)
<1>1. \A y \in S : h[y] = f[y] + (IF y = S THEN 0 ELSE 0)
  OBVIOUS
<1>2. Total(f, S) \in Nat /\ 0 \in Int
  BY TotalNat
<1>3. Total(h, S) = Total(f, S) + (IF S \in S THEN 0 ELSE 0)
  BY <1>1, <1>2, TotalMoves
<1> QED BY <1>2, <1>3

-----------------------------------------------------------------------------
(* The limits. *)

\* The map has the last limiter that was added for each of its paths, and the order
\* in which it is iterated has every path.
LookupInv ==
    /\ \A p \in DOMAIN limiters : \A j \in 1..added : PathOf(j) = p => j <= limiters[p]
    /\ \A q \in Configurables : \E n \in 1..Len(hashOrder) : hashOrder[n] = q

LEMMA LookupInit == Init => LookupInv
<1> SUFFICES ASSUME Init PROVE LookupInv
  OBVIOUS
<1> DEFINE n == Cardinality(Configurables)
<1>1. n \in Nat /\ IsFiniteSet(Configurables)
  BY ConfigurablesFinite
<1>2. hashOrder \in [1..n -> Configurables] /\ \A i, j \in 1..n : i # j => hashOrder[i] # hashOrder[j]
  BY DEF Init, SetToSeqs, Configurables
<1>3. Len(hashOrder) = n
  BY <1>1, <1>2
<1>4. IsFiniteSet(1..n) /\ Cardinality(1..n) = n
  BY <1>1, FS_Interval
<1>5. hashOrder \in Injection(1..n, Configurables)
  BY <1>2 DEF Injection, IsInjective
<1> HIDE DEF n
<1>6. hashOrder \in Surjection(1..n, Configurables)
  BY <1>1, <1>4, <1>5, FS_Injection DEF n
<1>7. \A q \in Configurables : \E i \in 1..n : hashOrder[i] = q
  BY <1>6 DEF Surjection
<1>8. DOMAIN limiters = {}
  BY DEF Init
<1> QED BY <1>3, <1>7, <1>8 DEF LookupInv

LEMMA LookupStep == LimitersInv /\ LookupInv /\ [Next]_vars => LookupInv'
<1> SUFFICES ASSUME LimitersInv, LookupInv, [Next]_vars PROVE LookupInv'
  OBVIOUS
<1>1. CASE AddLimiter
  <2> DEFINE i == added + 1
  <2>1. /\ added' = i /\ hashOrder' = hashOrder /\ added \in Nat
        /\ limiters' = [p \in DOMAIN limiters \union {PathOf(i)} |->
                           IF p = PathOf(i) THEN i ELSE limiters[p]]
    BY <1>1, LimitersAssumption DEF AddLimiter, LimitersInv, ManagerInv
  <2>2. 1..i = 1..added \union {i}
    BY <2>1
  <2>3. ASSUME NEW p \in DOMAIN limiters', NEW j \in 1..i, PathOf(j) = p PROVE j <= limiters'[p]
    <3>1. CASE p = PathOf(i)
      BY <2>1, <2>3, <3>1
    <3>2. CASE p # PathOf(i)
      <4>1. p \in DOMAIN limiters /\ limiters'[p] = limiters[p]
        BY <2>1, <3>2
      <4>2. j \in 1..added
        BY <2>2, <2>3, <3>2
      <4> QED BY <2>3, <4>1, <4>2 DEF LookupInv
    <3> QED BY <3>1, <3>2
  <2> QED BY <2>1, <2>3 DEF LookupInv
<1>2. CASE UNCHANGED <<added, limiters, hashOrder>>
  BY <1>2 DEF LookupInv
<1>3. AddLimiter \/ UNCHANGED <<added, limiters, hashOrder>>
  BY DEF Next, Listen, BeginShutdown, NotifyNext, Admit, Refuse, RefillTask, Tick, Refill, Stop,
         vars, manager
<1> QED BY <1>1, <1>2, <1>3

LEMMA LimitersForAre ==
    ASSUME NEW path
    PROVE  LimitersFor(path) \in SUBSET Ids /\ IsFiniteSet(LimitersFor(path))
<1>1. IsFiniteSet(Ids)
  BY LimitersAssumption, FS_Interval
<1>2. \A p : LastFor(p) \subseteq Ids
  BY DEF LastFor
<1>3. LimitersFor(path) \subseteq Ids
  BY <1>2 DEF LimitersFor
<1> QED BY <1>1, <1>3, FS_Subset

\* Once all have been added, the limiter in the map is the last one for its path.
LEMMA ChargedIsLast ==
    ASSUME LimitersInv, LookupInv, phase # "starting", NEW p \in DOMAIN limiters
    PROVE  limiters[p] \in LastFor(p)
<1>1. added = Len(Configured) /\ Ids = 1..added /\ added \in Nat
  BY LimitersAssumption DEF LimitersInv, ManagerInv
<1>2. limiters[p] \in 1..added /\ PathOf(limiters[p]) = p
  BY DEF LimitersInv, ManagerInv
<1>3. \A j \in 1..added : PathOf(j) = p => j <= limiters[p]
  BY DEF LookupInv
<1>4. \A j \in Ids : j > limiters[p] => PathOf(j) # p
  BY <1>1, <1>2, <1>3
<1> QED BY <1>1, <1>2, <1>4 DEF LastFor

\* A request is charged to one limiter at most.
LEMMA ChargedToOne ==
    ASSUME LimitersInv, NEW path
    PROVE  GetLimiter(path) = {} \/ \E i : GetLimiter(path) = {i}
<1> DEFINE prefixes == {n \in DOMAIN hashOrder :
                           hashOrder[n] \in DOMAIN limiters /\ IsPrefix(hashOrder[n], path)}
           firsts   == {n \in prefixes : \A m \in prefixes : n <= m}
<1>1. DOMAIN hashOrder \subseteq Nat
  BY DEF LimitersInv, ManagerInv
<1>2. GetLimiter(path) = IF path \in DOMAIN limiters THEN {limiters[path]}
                         ELSE {limiters[hashOrder[n]] : n \in firsts}
  BY DEF GetLimiter
<1>3. \A m, n \in firsts : m = n
  BY <1>1
<1>4. CASE path \in DOMAIN limiters
  BY <1>2, <1>4
<1>5. CASE path \notin DOMAIN limiters /\ firsts # {}
  <2>1. PICK n \in firsts : TRUE
    BY <1>5
  <2> HIDE DEF firsts
  <2>2. firsts = {n}
    BY <1>3, <2>1
  <2>3. GetLimiter(path) = {limiters[hashOrder[n]]}
    BY <1>2, <1>5, <2>2
  <2> QED BY <2>3
<1>6. CASE path \notin DOMAIN limiters /\ firsts = {}
  <2> HIDE DEF firsts
  <2> QED BY <1>2, <1>6
<1> QED BY <1>4, <1>5, <1>6

LEMMA LeastOf ==
    ASSUME NEW S \in SUBSET Nat, S # {}
    PROVE  \E n \in S : \A m \in S : n <= m
<1>1. PICK n \in S : \A m \in S : <<m, n>> \notin OpToRel(<, Nat)
  BY NatLessThanWellFounded, WFMin
<1>2. \A m \in S : ~ (m < n)
  BY <1>1 DEF OpToRel
<1> QED BY <1>2

LEMMA PrefixOf ==
    ASSUME NEW p, p \in Seq(Range(p)), NEW path, path \in Seq(Range(path))
    PROVE  IsPrefix(p, path) <=> p \in Prefixes(path)
<1>1. Len(p) \in Nat /\ Len(path) \in Nat
  OBVIOUS
<1>2. SubSeq(p, 1, Len(p)) = p
  OBVIOUS
<1>3. ASSUME IsPrefix(p, path) PROVE p \in Prefixes(path)
  <2>1. Len(p) \in 0..Len(path) /\ p = SubSeq(path, 1, Len(p))
    BY <1>1, <1>2, <1>3 DEF IsPrefix
  <2> QED BY <2>1 DEF Prefixes
<1>4. ASSUME p \in Prefixes(path) PROVE IsPrefix(p, path)
  <2>1. PICK l \in 0..Len(path) : p = SubSeq(path, 1, l)
    BY <1>4 DEF Prefixes
  <2>2. Len(SubSeq(path, 1, l)) = l
    BY <1>1
  <2>3. Len(p) = l
    BY <2>1, <2>2
  <2> QED BY <1>1, <1>2, <2>1, <2>3 DEF IsPrefix
<1> QED BY <1>3, <1>4

\* A request whose path has limiters is charged to one of them.
LEMMA ChargedRight ==
    ASSUME LimitersInv, LookupInv, phase # "starting", NEW path \in Paths, LimitersFor(path) # {}
    PROVE  GetLimiter(path) # {} /\ GetLimiter(path) \subseteq LimitersFor(path)
<1> DEFINE prefixes == {n \in DOMAIN hashOrder :
                           hashOrder[n] \in DOMAIN limiters /\ IsPrefix(hashOrder[n], path)}
           firsts   == {n \in prefixes : \A m \in prefixes : n <= m}
<1>1. GetLimiter(path) = IF path \in DOMAIN limiters THEN {limiters[path]}
                         ELSE {limiters[hashOrder[n]] : n \in firsts}
  BY DEF GetLimiter
<1>2. DOMAIN limiters = Configurables
  <2>1. added = Len(Configured) /\ Ids = 1..Len(Configured)
    BY LimitersAssumption DEF LimitersInv, ManagerInv
  <2> QED BY <2>1 DEF LimitersInv, ManagerInv, Configurables
<1>3. \A p : LastFor(p) # {} => p \in Configurables
  BY DEF LastFor, Configurables
<1>4. CASE path \in DOMAIN limiters
  <2>1. limiters[path] \in LastFor(path)
    BY <1>4, ChargedIsLast
  <2> QED BY <1>1, <1>4, <2>1 DEF LimitersFor
<1>5. CASE path \notin DOMAIN limiters
  <2>1. LimitersFor(path) = UNION {LastFor(p) : p \in Prefixes(path)}
    BY <1>2, <1>3, <1>5 DEF LimitersFor
  <2>2. path \in Seq(Range(path)) /\ \A p \in Configurables : p \in Seq(Range(p))
    BY LimitersAssumption DEF Configurables
  <2>3. DOMAIN hashOrder = 1..Len(hashOrder) /\ \A n \in DOMAIN hashOrder : hashOrder[n] \in Configurables
    BY DEF LimitersInv, ManagerInv
  <2>4. firsts # {}
    <3>1. PICK p \in Prefixes(path) : LastFor(p) # {}
      BY <2>1
    <3>2. p \in Configurables /\ IsPrefix(p, path)
      BY <1>3, <2>2, <3>1, PrefixOf
    <3>3. PICK n \in 1..Len(hashOrder) : hashOrder[n] = p
      BY <3>2 DEF LookupInv
    <3>4. n \in prefixes
      BY <1>2, <2>3, <3>2, <3>3
    <3>5. prefixes \in SUBSET Nat
      BY <2>3
    <3> HIDE DEF prefixes
    <3> QED BY <3>4, <3>5, LeastOf
  <2>5. ASSUME NEW n \in firsts PROVE limiters[hashOrder[n]] \in LimitersFor(path)
    <3>1. n \in DOMAIN hashOrder /\ hashOrder[n] \in DOMAIN limiters /\ IsPrefix(hashOrder[n], path)
      OBVIOUS
    <3>2. hashOrder[n] \in Prefixes(path)
      BY <1>2, <2>2, <3>1, PrefixOf
    <3>3. limiters[hashOrder[n]] \in LastFor(hashOrder[n])
      BY <3>1, ChargedIsLast
    <3> QED BY <2>1, <3>2, <3>3
  <2> HIDE DEF firsts
  <2> QED BY <1>1, <1>5, <2>4, <2>5
<1> QED BY <1>4, <1>5

\* What the requests of some paths got, and what their limiters still have, is
\* within what these have had.
AllFor(covered) == UNION {LimitersFor(p) : p \in covered}

Held(covered) ==
    Total(admitted, covered) + Total(tokens, AllFor(covered)) <= Total(Supply, AllFor(covered))

Coverable == SUBSET {p \in Paths : LimitersFor(p) # {}}

HoldInv ==
    /\ admitted \in [Paths -> Nat]
    /\ \A covered \in Coverable : Held(covered)

LEMMA AllForAre ==
    ASSUME NEW covered \in Coverable
    PROVE  IsFiniteSet(covered) /\ covered \subseteq Paths
           /\ IsFiniteSet(AllFor(covered)) /\ AllFor(covered) \subseteq Ids
<1>1. covered \subseteq Paths
  BY DEF Coverable
<1>2. IsFiniteSet(covered)
  BY <1>1, LimitersAssumption, FS_Subset
<1>3. AllFor(covered) \subseteq Ids
  BY LimitersForAre DEF AllFor
<1>4. IsFiniteSet(Ids)
  BY LimitersAssumption, FS_Interval
<1> QED BY <1>1, <1>2, <1>3, <1>4, FS_Subset

LEMMA TermsAreNat ==
    ASSUME LimitersInv, HoldInv, NEW covered \in Coverable
    PROVE  /\ \A p \in covered : admitted[p] \in Nat
           /\ \A i \in AllFor(covered) : tokens[i] \in Nat /\ Supply[i] \in Nat
           /\ Total(admitted, covered) \in Nat
           /\ Total(tokens, AllFor(covered)) \in Nat
           /\ Total(Supply, AllFor(covered)) \in Nat
<1>1. \A p \in covered : admitted[p] \in Nat
  BY AllForAre DEF HoldInv
<1>2. \A i \in Ids : tokens[i] \in Nat /\ refilled[i] \in Nat /\ Size(i) \in Nat
  BY LimitersAssumption DEF LimitersInv, BucketInv
<1>3. \A i \in AllFor(covered) : tokens[i] \in Nat /\ Supply[i] \in Nat
  BY <1>2, AllForAre DEF Supply
<1> QED BY <1>1, <1>3, AllForAre, TotalNat

LEMMA HoldInit == Init => HoldInv
<1> SUFFICES ASSUME Init PROVE HoldInv
  OBVIOUS
<1>1. admitted \in [Paths -> Nat]
  BY DEF Init
<1>2. ASSUME NEW covered \in Coverable PROVE Held(covered)
  <2>0. IsFiniteSet(covered) /\ covered \subseteq Paths
        /\ IsFiniteSet(AllFor(covered)) /\ AllFor(covered) \subseteq Ids
    BY AllForAre
  <2>1. Total(admitted, covered) = 0
    <3>1. PICK g : /\ g[{}] = 0
                   /\ \A T \in SUBSET covered : T # {} => g[T] = admitted[Some(T)] + g[T \ {Some(T)}]
                   /\ Total(admitted, covered) = g[covered]
      BY <2>0, TotalUnfold
    <3> DEFINE Q == {T \in SUBSET covered : g[T] = 0}
    <3>2. {} \in Q
      BY <3>1
    <3>3. ASSUME NEW T \in SUBSET covered, T # {}, T \ {Some(T)} \in Q PROVE T \in Q
      <4>1. Some(T) \in Paths
        BY <2>0, <3>3 DEF Some
      <4>2. admitted[Some(T)] = 0
        BY <4>1 DEF Init
      <4>3. g[T] = admitted[Some(T)] + g[T \ {Some(T)}]
        BY <3>1, <3>3
      <4> QED BY <3>3, <4>2, <4>3
    <3>4. SUBSET covered \subseteq Q
      <4> HIDE DEF Q
      <4> QED BY <2>0, <3>2, <3>3, SubsetInduction
    <3> QED BY <3>1, <3>4
  <2>2. \A i \in AllFor(covered) : Supply[i] \in Nat /\ tokens[i] = Supply[i]
    BY <2>0, LimitersAssumption DEF Init, Supply
  <2>3. Total(tokens, AllFor(covered)) = Total(Supply, AllFor(covered))
        /\ Total(Supply, AllFor(covered)) \in Nat
    BY <2>0, <2>2, TotalSame, TotalNat
  <2> QED BY <2>1, <2>3 DEF Held
<1> QED BY <1>1, <1>2 DEF HoldInv

LEMMA HoldAdmit ==
    ASSUME LimitersInv, LookupInv, HoldInv, NEW path \in Paths, Admit(path)
    PROVE  HoldInv'
<1>0. /\ phase # "starting" /\ Supply' = Supply
      /\ \A i \in GetLimiter(path) : tokens[i] > 0
      /\ tokens' = [i \in Ids |-> IF i \in GetLimiter(path) THEN tokens[i] - 1 ELSE tokens[i]]
      /\ admitted' = [admitted EXCEPT ![path] = admitted[path] + 1]
  BY DEF Admit, Request, Supply
<1>1. admitted' \in [Paths -> Nat]
  BY <1>0 DEF HoldInv
<1>2. ASSUME NEW covered \in Coverable PROVE Held(covered)'
  <2> DEFINE all == AllFor(covered)
  <2>0. /\ IsFiniteSet(covered) /\ covered \subseteq Paths
        /\ IsFiniteSet(all) /\ all \subseteq Ids
    BY AllForAre
  <2>1. /\ \A p \in covered : admitted[p] \in Nat
        /\ \A i \in all : tokens[i] \in Nat
        /\ Total(admitted, covered) \in Nat /\ Total(tokens, all) \in Nat /\ Total(Supply, all) \in Nat
    BY TermsAreNat
  <2>2. Total(admitted, covered) + Total(tokens, all) <= Total(Supply, all)
    BY DEF HoldInv, Held
  <2>3. Total(admitted', covered) = Total(admitted, covered) + (IF path \in covered THEN 1 ELSE 0)
    <3>1. \A p \in covered : admitted'[p] = admitted[p] + (IF p = path THEN 1 ELSE 0)
      BY <1>0, <2>0, <2>1 DEF HoldInv
    <3>2. 1 \in Int
      OBVIOUS
    <3> QED BY <2>0, <2>1, <3>1, <3>2, TotalMoves
  <2>4. path \in covered => GetLimiter(path) # {} /\ GetLimiter(path) \subseteq all
    <3> SUFFICES ASSUME path \in covered PROVE GetLimiter(path) # {} /\ GetLimiter(path) \subseteq all
      OBVIOUS
    <3>1. LimitersFor(path) # {}
      BY DEF Coverable
    <3>2. LimitersFor(path) \subseteq all
      BY DEF AllFor
    <3> QED BY <1>0, <3>1, <3>2, ChargedRight
  <2> HIDE DEF all
  <2>5. CASE GetLimiter(path) = {}
    <3>1. \A i \in all : tokens'[i] = tokens[i]
      BY <1>0, <2>0, <2>5
    <3>2. Total(tokens', all) = Total(tokens, all)
      BY <2>0, <2>1, <3>1, TotalSame
    <3>3. path \notin covered
      BY <2>4, <2>5
    <3>4. Total(admitted', covered) + Total(tokens', all) <= Total(Supply', all)
      BY <1>0, <2>1, <2>2, <2>3, <3>2, <3>3
    <3> QED BY <3>4 DEF Held, all
  <2>6. ASSUME NEW i, GetLimiter(path) = {i} PROVE Held(covered)'
    <3>1. \A j \in all : tokens'[j] = tokens[j] + (IF j = i THEN -1 ELSE 0)
      BY <1>0, <2>0, <2>1, <2>6
    <3>2. -1 \in Int
      OBVIOUS
    <3>3. Total(tokens', all) = Total(tokens, all) + (IF i \in all THEN -1 ELSE 0)
      BY <2>0, <2>1, <3>1, <3>2, TotalMoves
    <3>4. path \in covered => i \in all
      BY <2>4, <2>6
    <3>5. Total(admitted', covered) + Total(tokens', all) <= Total(Supply', all)
      BY <1>0, <2>1, <2>2, <2>3, <3>3, <3>4
    <3> QED BY <3>5 DEF Held, all
  <2> QED BY <2>5, <2>6, ChargedToOne
<1> QED BY <1>1, <1>2 DEF HoldInv

LEMMA HoldRefill ==
    ASSUME LimitersInv, HoldInv, NEW i \in Ids, Refill(i)
    PROVE  HoldInv'
<1>0. /\ admitted' = admitted
      /\ tokens' = [tokens EXCEPT ![i] = IF tokens[i] < Size(i) THEN tokens[i] + 1 ELSE Size(i)]
      /\ refilled' = [refilled EXCEPT ![i] = refilled[i] + 1]
  BY DEF Refill, history
<1>1. /\ tokens \in [Ids -> Nat] /\ refilled \in [Ids -> Nat] /\ tokens[i] <= Size(i)
      /\ \A j \in Ids : Size(j) \in Nat
  BY LimitersAssumption DEF LimitersInv, BucketInv
<1> DEFINE d == IF tokens[i] < Size(i) THEN 1 ELSE 0
<1>2. d \in {0, 1} /\ \A j \in Ids : /\ tokens'[j] = tokens[j] + (IF j = i THEN d ELSE 0)
                                     /\ Supply'[j] = Supply[j] + (IF j = i THEN 1 ELSE 0)
  BY <1>0, <1>1 DEF Supply
<1> HIDE DEF d
<1>3. ASSUME NEW covered \in Coverable PROVE Held(covered)'
  <2> DEFINE all == AllFor(covered)
  <2>0. IsFiniteSet(all) /\ all \subseteq Ids
    BY AllForAre
  <2>1. /\ \A j \in all : tokens[j] \in Nat /\ Supply[j] \in Nat
        /\ Total(admitted, covered) \in Nat /\ Total(tokens, all) \in Nat /\ Total(Supply, all) \in Nat
    BY TermsAreNat
  <2>2. Total(admitted, covered) + Total(tokens, all) <= Total(Supply, all)
    BY DEF HoldInv, Held
  <2> HIDE DEF all
  <2>3. d \in Int /\ 1 \in Int
    BY <1>2
  <2>4. Total(tokens', all) = Total(tokens, all) + (IF i \in all THEN d ELSE 0)
    BY <1>2, <2>0, <2>1, <2>3, TotalMoves
  <2>5. Total(Supply', all) = Total(Supply, all) + (IF i \in all THEN 1 ELSE 0)
    BY <1>2, <2>0, <2>1, <2>3, TotalMoves
  <2>6. Total(admitted', covered) + Total(tokens', all) <= Total(Supply', all)
    BY <1>0, <1>2, <2>1, <2>2, <2>4, <2>5
  <2> QED BY <2>6 DEF Held, all
<1> QED BY <1>0, <1>3 DEF HoldInv

LEMMA HoldStep == LimitersInv /\ LookupInv /\ HoldInv /\ [Next]_vars => HoldInv'
<1> SUFFICES ASSUME LimitersInv, LookupInv, HoldInv, [Next]_vars PROVE HoldInv'
  OBVIOUS
<1>1. CASE UNCHANGED <<tokens, refilled, admitted>>
  BY <1>1 DEF HoldInv, Held, Supply
<1>2. \/ \E path \in Paths : Admit(path)
      \/ \E i \in Ids : Refill(i)
      \/ UNCHANGED <<tokens, refilled, admitted>>
  BY DEF Next, AddLimiter, Listen, BeginShutdown, NotifyNext, Refuse, RefillTask, Tick, Stop,
         vars, buckets, history
<1> QED BY <1>1, <1>2, HoldAdmit, HoldRefill

\* LimitsHold: the requests of any set of paths that have limiters get through on
\* the tokens of the limiters that the configuration gives these paths.
THEOREM LimitsCorrect == Spec => []LimitsHold
<1>1. Init => LookupInv /\ HoldInv
  BY LookupInit, HoldInit
<1>2. LimitersInv /\ LookupInv /\ HoldInv /\ [Next]_vars => (LookupInv /\ HoldInv)'
  BY LookupStep, HoldStep
<1>3. LimitersInv /\ HoldInv => LimitsHold
  <2> SUFFICES ASSUME LimitersInv, HoldInv, NEW covered \in Coverable
               PROVE  MapThenSumSet(LAMBDA p : admitted[p], covered)
                          <= MapThenSumSet(LAMBDA i : Supply[i], AllFor(covered))
    BY DEF LimitsHold, Coverable, AllFor
  <2>1. MapThenSumSet(LAMBDA p : admitted[p], covered) = Total(admitted, covered)
    BY DEF MapThenSumSet, MapThenFoldSet, Total, Some
  <2>2. MapThenSumSet(LAMBDA i : Supply[i], AllFor(covered)) = Total(Supply, AllFor(covered))
    BY DEF MapThenSumSet, MapThenFoldSet, Total, Some
  <2>3. Total(admitted, covered) <= Total(Supply, AllFor(covered))
    BY TermsAreNat DEF HoldInv, Held
  <2> QED BY <2>1, <2>2, <2>3
<1> QED BY <1>1, <1>2, <1>3, LimitersInvariant, PTL DEF Spec
=============================================================================
