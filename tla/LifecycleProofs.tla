--------------------------- MODULE LifecycleProofs ---------------------------
(***************************************************************************)
(* Proofs about Lifecycle, for any number of requests and any time-out.    *)
(*                                                                         *)
(* The argument: a task counts itself in when it enters the counted        *)
(* points, and out when it leaves them, or else it is one of the lost.     *)
(***************************************************************************)
EXTENDS Lifecycle, FiniteSetTheorems, TLAPS

IInv == TypeOK /\ OngoingConserved

LEMMA CountedFinite == IsFiniteSet(Counted) /\ Cardinality(Counted) \in Nat
BY LifecycleAssumption, FS_Subset, FS_CardinalityType DEF Counted

LEMMA InitIInv == Init => IInv
<1> SUFFICES ASSUME Init PROVE IInv
  OBVIOUS
<1>1. Counted = {}
  BY DEF Init, Counted, CountedPoints
<1>2. OngoingConserved
  BY <1>1, FS_EmptySet DEF Init, OngoingConserved
<1>3. TypeOK
  BY LifecycleAssumption DEF Init, TypeOK, Points
<1> QED BY <1>2, <1>3 DEF IInv

\* How a move of one task changes the counted tasks.
LEMMA CountedMoves ==
    ASSUME TypeOK, NEW r \in Slots, NEW from \in Points, NEW to \in Points, Moves(r, from, to)
    PROVE  /\ from \in CountedPoints <=> r \in Counted
           /\ Counted' = IF to \in CountedPoints THEN Counted \union {r} ELSE Counted \ {r}
BY DEF TypeOK, Moves, Counted

\* A move within the counted points, or outside of them, leaves them as they are.
LEMMA SameCounted ==
    ASSUME TypeOK, NEW r \in Slots, NEW from \in Points, NEW to \in Points, Moves(r, from, to),
           from \in CountedPoints <=> to \in CountedPoints
    PROVE  Counted' = Counted
BY CountedMoves

LEMMA OneMore ==
    ASSUME TypeOK, NEW r \in Slots, NEW from \in Points, NEW to \in Points, Moves(r, from, to),
           from \notin CountedPoints, to \in CountedPoints
    PROVE  Cardinality(Counted') = Cardinality(Counted) + 1
<1>1. r \notin Counted /\ Counted' = Counted \union {r}
  BY CountedMoves
<1> QED BY <1>1, CountedFinite, FS_AddElement

LEMMA OneLess ==
    ASSUME TypeOK, NEW r \in Slots, NEW from \in Points, NEW to \in Points, Moves(r, from, to),
           from \in CountedPoints, to \notin CountedPoints
    PROVE  Cardinality(Counted') = Cardinality(Counted) - 1
<1>1. r \in Counted /\ Counted' = Counted \ {r}
  BY CountedMoves
<1> QED BY <1>1, CountedFinite, FS_RemoveElement

LEMMA AtTyped ==
    ASSUME TypeOK, NEW r \in Slots, NEW from \in Points, NEW to \in Points, Moves(r, from, to)
    PROVE  at' \in [Slots -> Points]
BY DEF TypeOK, Moves

-----------------------------------------------------------------------------
LEMMA TaskStep == ASSUME IInv, NEW r \in Slots, Receive(r) \/ Task(r) PROVE IInv'
<1> USE DEF metrics, server, Ends
<1>0. TypeOK /\ OngoingConserved
  BY DEF IInv
<1>1. CASE CountIn(r)
  <2>0. {"spawned", "counted"} \subseteq Points /\ "spawned" \notin CountedPoints /\ "counted" \in CountedPoints
    BY DEF Points, CountedPoints
  <2>1. Cardinality(Counted)' = Cardinality(Counted) + 1
    BY <1>0, <1>1, <2>0, OneMore DEF CountIn
  <2>2. at' \in [Slots -> Points]
    BY <1>0, <1>1, <2>0, AtTyped DEF CountIn
  <2>3. OngoingConserved'
    BY <1>0, <1>1, <2>1, CountedFinite DEF CountIn, OngoingConserved, TypeOK
  <2> QED BY <1>0, <1>1, <2>2, <2>3 DEF CountIn, IInv, TypeOK
<1>2. CASE CountOut(r)
  <2>0. {"returned", "uncounted"} \subseteq Points /\ "returned" \in CountedPoints /\ "uncounted" \notin CountedPoints
    BY DEF Points, CountedPoints
  <2>1. Cardinality(Counted)' = Cardinality(Counted) - 1
    BY <1>0, <1>2, <2>0, OneLess DEF CountOut
  <2>2. at' \in [Slots -> Points]
    BY <1>0, <1>2, <2>0, AtTyped DEF CountOut
  <2>3. OngoingConserved'
    BY <1>0, <1>2, <2>1, CountedFinite DEF CountOut, OngoingConserved, TypeOK
  <2>4. Cardinality(Counted)' \in Nat
    BY CountedFinite, FS_Subset, FS_CardinalityType, LifecycleAssumption DEF Counted
  <2>5. ongoing' \in Nat
    BY <1>0, <1>2, <2>3, <2>4 DEF CountOut, OngoingConserved, TypeOK
  <2> QED BY <1>0, <1>2, <2>2, <2>3, <2>5 DEF CountOut, IInv, TypeOK
<1>3. CASE RejectBot(r) \/ Panic(r)
  <2>0. {"entered", "working", "none"} \subseteq Points /\ {"entered", "working"} \subseteq CountedPoints
        /\ "none" \notin CountedPoints
    BY DEF Points, CountedPoints
  <2>5. Moves(r, "entered", "none") \/ Moves(r, "working", "none")
    BY <1>3 DEF RejectBot, Panic
  <2>1. Cardinality(Counted)' = Cardinality(Counted) - 1
    BY <1>0, <2>5, <2>0, OneLess
  <2>2. at' \in [Slots -> Points]
    BY <1>0, <2>5, <2>0, AtTyped
  <2>3. OngoingConserved'
    BY <1>0, <1>3, <2>1, CountedFinite DEF RejectBot, Panic, OngoingConserved, TypeOK
  <2> QED BY <1>0, <1>3, <2>2, <2>3 DEF RejectBot, Panic, IInv, TypeOK
<1>4. CASE Receive(r) \/ GaugeIn(r) \/ AnswerAtOnce(r) \/ Measure(r) \/ SetGauge(r) \/ Answer(r) \/ GaugeOut(r)
  <2>1. \E from, to \in Points :
            Moves(r, from, to) /\ (from \in CountedPoints <=> to \in CountedPoints)
    BY <1>4 DEF Receive, GaugeIn, AnswerAtOnce, Measure, SetGauge, Answer, GaugeOut, Points, CountedPoints
  <2>2. Counted' = Counted /\ at' \in [Slots -> Points]
    BY <1>0, <2>1, SameCounted, AtTyped
  <2>3. ongoing' = ongoing /\ lost' = lost
    BY <1>4 DEF Receive, GaugeIn, AnswerAtOnce, Measure, SetGauge, Answer, GaugeOut
  <2>4. OngoingConserved'
    BY <1>0, <2>2, <2>3 DEF OngoingConserved
  <2>5. loaded' \in [Slots -> Nat]
    BY <1>0, <1>4 DEF TypeOK, Receive, GaugeIn, AnswerAtOnce, Measure, SetGauge, Answer, GaugeOut
  <2>6. gauge' \in Int /\ received' \in Nat /\ awaited' = awaited
    BY <1>0, <1>4 DEF TypeOK, Receive, GaugeIn, AnswerAtOnce, Measure, SetGauge, Answer, GaugeOut
  <2>7. UNCHANGED server
    BY <1>4 DEF Receive, GaugeIn, AnswerAtOnce, Measure, SetGauge, Answer, GaugeOut
  <2> QED BY <1>0, <2>2, <2>3, <2>4, <2>5, <2>6, <2>7 DEF IInv, TypeOK
<1> QED BY <1>1, <1>2, <1>3, <1>4 DEF Task

LEMMA ServerStep == ASSUME IInv, CtrlC \/ Poll \/ StopTaking \/ Close \/ CloseOnTasks PROVE IInv'
<1>1. UNCHANGED <<at, ongoing, metrics, received, lost>>
  BY DEF CtrlC, Poll, StopTaking, Close, CloseOnTasks
<1>2. /\ phase' \in {"serving", "draining", "drained", "closing", "closed"}
      /\ waited' \in 0..ShutdownTimeout + 1
      /\ awaited' \subseteq Slots
  BY LifecycleAssumption
  DEF CtrlC, Poll, StopTaking, Close, CloseOnTasks, server, IInv, TypeOK, Counted
<1> QED BY <1>1, <1>2 DEF IInv, TypeOK, OngoingConserved, Counted, metrics

LEMMA IInvStep == IInv /\ [Next]_vars => IInv'
<1> SUFFICES ASSUME IInv, [Next]_vars PROVE IInv'
  OBVIOUS
<1>1. CASE UNCHANGED vars
  BY <1>1 DEF vars, metrics, server, IInv, TypeOK, OngoingConserved, Counted
<1> QED BY <1>1, TaskStep, ServerStep DEF Next

-----------------------------------------------------------------------------
\* TypeOK: ongoing_requests never falls below 0, and the polling never goes on
\* after its time-out.
THEOREM TypeCorrect == Spec => []TypeOK
<1>1. IInv => TypeOK
  BY DEF IInv
<1> QED BY InitIInv, IInvStep, <1>1, PTL DEF Spec

\* OngoingConserved: the counter is the counted tasks and the lost ones.
THEOREM OngoingCorrect == Spec => []OngoingConserved
<1>1. IInv => OngoingConserved
  BY DEF IInv
<1> QED BY InitIInv, IInvStep, <1>1, PTL DEF Spec

-----------------------------------------------------------------------------
(* The polling. *)

\* The requests awaited are counted ones, and none is left when the polling has
\* ended before its time.
DrainInv == IInv /\ awaited \subseteq Counted /\ DrainWaits

\* A counter that is read as 0 is the counter of no task.
LEMMA NoneIsNone == ASSUME IInv, ~(ongoing > 0) PROVE Counted = {}
<1>1. Cardinality(Counted) = 0
  BY CountedFinite DEF IInv, TypeOK, OngoingConserved
<1> QED BY <1>1, CountedFinite, FS_EmptySet

\* A request stays awaited until it is counted no more.
LEMMA TaskKeepsAwaited ==
    ASSUME DrainInv, NEW r \in Slots, Receive(r) \/ Task(r)
    PROVE  awaited' \subseteq Counted' /\ awaited' \subseteq awaited
<1> USE DEF CountedPoints, Points
<1>1. CASE \/ Receive(r) \/ CountIn(r) \/ GaugeIn(r) \/ AnswerAtOnce(r) \/ Measure(r)
           \/ SetGauge(r) \/ Answer(r) \/ GaugeOut(r)
  <2>1. \E from, to \in Points :
            Moves(r, from, to) /\ (from \in CountedPoints => to \in CountedPoints)
    BY <1>1 DEF Receive, CountIn, GaugeIn, AnswerAtOnce, Measure, SetGauge, Answer, GaugeOut
  <2>2. Counted \subseteq Counted'
    BY <2>1, CountedMoves DEF DrainInv, IInv
  <2>3. awaited' = awaited
    BY <1>1 DEF Receive, CountIn, GaugeIn, AnswerAtOnce, Measure, SetGauge, Answer, GaugeOut
  <2> QED BY <2>2, <2>3 DEF DrainInv
<1>2. CASE RejectBot(r) \/ Panic(r) \/ CountOut(r)
  <2>1. \E from, to \in Points : Moves(r, from, to) /\ to \notin CountedPoints
    BY <1>2 DEF RejectBot, Panic, CountOut
  <2>2. Counted' = Counted \ {r}
    BY <2>1, CountedMoves DEF DrainInv, IInv
  <2>3. awaited' = awaited \ {r}
    BY <1>2 DEF RejectBot, Panic, CountOut, Ends
  <2> QED BY <2>2, <2>3 DEF DrainInv
<1> QED BY <1>1, <1>2 DEF Task

LEMMA DrainStep == DrainInv /\ [Next]_vars => DrainInv'
<1> SUFFICES ASSUME DrainInv, [Next]_vars PROVE DrainInv'
  OBVIOUS
<1>0. IInv /\ IInv'
  BY IInvStep DEF DrainInv
<1>1. ASSUME NEW r \in Slots, Receive(r) \/ Task(r) PROVE DrainInv'
  <2>1. UNCHANGED server
    BY <1>1 DEF Receive, Task, CountIn, GaugeIn, RejectBot, AnswerAtOnce, Measure, SetGauge,
                Answer, Panic, CountOut, GaugeOut
  <2> QED BY <1>0, <1>1, <2>1, TaskKeepsAwaited DEF DrainInv, DrainWaits, server
<1>2. CASE CtrlC
  BY <1>0, <1>2 DEF CtrlC, DrainInv, DrainWaits, Counted
<1>3. CASE Poll
  <2>1. Counted' = Counted /\ awaited' = awaited
    BY <1>3 DEF Poll, Counted
  <2>2. phase' = "drained" => Counted = {} \/ waited' > ShutdownTimeout
    BY <1>0, <1>3, NoneIsNone, LifecycleAssumption DEF Poll, IInv, TypeOK
  <2>3. phase' \in {"draining", "drained"}
    BY <1>3 DEF Poll
  <2>4. waited' \in Int /\ ShutdownTimeout \in Int
    BY <1>0, LifecycleAssumption DEF IInv, TypeOK
  <2> QED BY <1>0, <2>1, <2>2, <2>3, <2>4 DEF DrainInv, DrainWaits
<1>4. CASE StopTaking \/ Close \/ CloseOnTasks
  BY <1>0, <1>4 DEF StopTaking, Close, CloseOnTasks, DrainInv, DrainWaits, Counted
<1>5. CASE UNCHANGED vars
  BY <1>0, <1>5 DEF vars, server, DrainInv, DrainWaits, Counted
<1> QED BY <1>1, <1>2, <1>3, <1>4, <1>5 DEF Next

\* DrainWaits: a request that had counted itself in when CTRL+C came is out, or
\* the time of the polling is over, when the polling ends.
THEOREM DrainCorrect == Spec => []DrainWaits
<1>1. Init => DrainInv
  BY InitIInv DEF Init, DrainInv, DrainWaits
<1>2. DrainInv => DrainWaits
  BY DEF DrainInv
<1> QED BY <1>1, DrainStep, <1>2, PTL DEF Spec

-----------------------------------------------------------------------------
(* The gauge. *)

\* What a task is about to set the gauge to counts one too many, itself, and the
\* tasks and the lost ones of some moment before.
GaugeInv ==
    /\ IInv
    /\ GaugeDriftBounded
    /\ \A r \in Slots : at[r] = "measured" =>
          loaded[r] >= 2 /\ loaded[r] <= Cardinality(Slots) + lost + 1

LEMMA SetsFinite ==
    /\ IsFiniteSet(Gauged) /\ Cardinality(Gauged) \in Nat
    /\ Cardinality(Slots) \in Nat
    /\ Cardinality(Gauged) <= Cardinality(Slots)
    /\ Cardinality(Counted) <= Cardinality(Slots)
BY LifecycleAssumption, FS_Subset, FS_CardinalityType DEF Gauged, Counted

GaugedPoints == {"entered", "measured", "working", "returned", "uncounted"}

\* What the move of a task does to the tasks on the gauge.
LEMMA GaugeMoves ==
    ASSUME IInv, NEW r \in Slots, NEW from \in Points, NEW to \in Points, Moves(r, from, to)
    PROVE  Cardinality(Gauged)' = Cardinality(Gauged)
                + (IF to \in GaugedPoints THEN 1 ELSE 0) - (IF from \in GaugedPoints THEN 1 ELSE 0)
<1>0. /\ at[r] = from /\ at'[r] = to
      /\ \A q \in Slots \ {r} : at'[q] = at[q]
  BY DEF Moves, IInv, TypeOK
<1>1. /\ r \in Gauged <=> from \in GaugedPoints
      /\ Gauged' = IF to \in GaugedPoints THEN Gauged \union {r} ELSE Gauged \ {r}
  BY <1>0 DEF Gauged, GaugedPoints
<1>2. CASE r \in Gauged
  <2>1. Gauged \union {r} = Gauged /\ Cardinality(Gauged \ {r}) = Cardinality(Gauged) - 1
    BY <1>2, SetsFinite, FS_RemoveElement
  <2>2. CASE to \in GaugedPoints
    BY <1>1, <1>2, <2>1, <2>2, SetsFinite
  <2>3. CASE ~(to \in GaugedPoints)
    <3>1. Gauged' = Gauged \ {r}
      BY <1>1, <2>3
    <3> QED BY <1>1, <1>2, <2>1, <2>3, <3>1, SetsFinite
  <2> QED BY <2>2, <2>3
<1>3. CASE r \notin Gauged
  <2>1. Gauged \ {r} = Gauged /\ Cardinality(Gauged \union {r}) = Cardinality(Gauged) + 1
    BY <1>3, SetsFinite, FS_AddElement
  <2>2. CASE to \in GaugedPoints
    <3>1. Gauged' = Gauged \union {r}
      BY <1>1, <2>2
    <3> QED BY <1>1, <1>3, <2>1, <2>2, <3>1, SetsFinite
  <2>3. CASE ~(to \in GaugedPoints)
    BY <1>1, <1>3, <2>1, <2>3, SetsFinite
  <2> QED BY <2>2, <2>3
<1> QED BY <1>2, <1>3

LEMMA GaugeStep == GaugeInv /\ [Next]_vars => GaugeInv'
<1> SUFFICES ASSUME GaugeInv, [Next]_vars PROVE GaugeInv'
  OBVIOUS
<1> USE DEF metrics, server
<1> DEFINE G == Cardinality(Gauged)
           N == Cardinality(Slots)
           Lawful(l, n) == l >= 2 /\ l <= N + n + 1
<1>0. /\ IInv /\ IInv'
      /\ gauge \in Int /\ lost \in Nat /\ ongoing \in Nat
      /\ at \in [Slots -> Points] /\ loaded \in [Slots -> Nat]
      /\ G \in Nat /\ N \in Nat /\ G <= N
  BY IInvStep, SetsFinite DEF GaugeInv, IInv, TypeOK
<1>1. CASE UNCHANGED <<at, gauge, loaded, lost>>
  BY <1>0, <1>1 DEF GaugeInv, GaugeDriftBounded, Gauged
<1>2. ASSUME NEW r \in Slots, Receive(r) \/ Task(r) PROVE GaugeInv'
  <2>0. \A q \in Slots \ {r} : at'[q] = at[q]
    BY <1>0, <1>2 DEF Moves, Receive, Task, CountIn, GaugeIn, RejectBot, AnswerAtOnce, Measure,
                      SetGauge, Answer, Panic, CountOut, GaugeOut
  <2>1. CASE \/ Receive(r) \/ CountIn(r) \/ AnswerAtOnce(r) \/ Answer(r) \/ CountOut(r)
    <3>1. PICK from \in Points, to \in Points :
              /\ Moves(r, from, to)
              /\ from \in GaugedPoints <=> to \in GaugedPoints
              /\ to # "measured"
      BY <2>1 DEF Receive, CountIn, AnswerAtOnce, Answer, CountOut, Points, CountedPoints,
                  GaugedPoints
    <3>2. G' = G
      BY <1>0, <3>1, GaugeMoves
    <3>3. at'[r] # "measured"
      BY <1>0, <3>1 DEF Moves
    <3>4. UNCHANGED <<gauge, loaded, lost>>
      BY <2>1 DEF Receive, CountIn, AnswerAtOnce, Answer, CountOut
    <3> QED BY <1>0, <2>0, <3>2, <3>3, <3>4 DEF GaugeInv, GaugeDriftBounded
  <2>2. CASE GaugeIn(r)
    <3>1. G' = G + 1
      BY <1>0, <2>2, GaugeMoves DEF GaugeIn, Points, CountedPoints, GaugedPoints
    <3>2. at'[r] = "entered" /\ gauge' = gauge + 1 /\ UNCHANGED <<loaded, lost>>
      BY <1>0, <2>2 DEF GaugeIn, Moves
    <3> QED BY <1>0, <2>0, <3>1, <3>2 DEF GaugeInv, GaugeDriftBounded
  <2>3. CASE GaugeOut(r)
    <3>1. G' = G - 1
      BY <1>0, <2>3, GaugeMoves DEF GaugeOut, Points, CountedPoints, GaugedPoints
    <3>2. at'[r] = "none" /\ gauge' = gauge - 1 /\ UNCHANGED <<loaded, lost>>
      BY <1>0, <2>3 DEF GaugeOut, Moves
    <3> QED BY <1>0, <2>0, <3>1, <3>2 DEF GaugeInv, GaugeDriftBounded
  <2>4. CASE RejectBot(r) \/ Panic(r)
    <3>1. PICK from \in {"entered", "working"} : Moves(r, from, "none")
      BY <2>4 DEF RejectBot, Panic
    <3>2. G' = G - 1
      BY <1>0, <3>1, GaugeMoves DEF Points, CountedPoints, GaugedPoints
    <3>3. at'[r] = "none" /\ lost' = lost + 1 /\ UNCHANGED <<gauge, loaded>>
      BY <1>0, <2>4 DEF RejectBot, Panic, Moves
    <3>4. GaugeDriftBounded'
      BY <1>0, <3>2, <3>3 DEF GaugeInv, GaugeDriftBounded
    <3>5. \A q \in Slots : at'[q] = "measured" => Lawful(loaded'[q], lost')
      BY <1>0, <2>0, <3>3 DEF GaugeInv
    <3> QED BY <1>0, <3>4, <3>5 DEF GaugeInv
  <2>5. CASE Measure(r)
    <3>1. G' = G
      BY <1>0, <2>5, GaugeMoves DEF Measure, Points, CountedPoints, GaugedPoints
    <3>2. loaded' = [loaded EXCEPT ![r] = ongoing + 1] /\ UNCHANGED <<gauge, lost>>
      BY <2>5 DEF Measure
    <3>3. ongoing >= 1 + lost /\ ongoing <= N + lost
      <4>1. r \in Counted
        BY <2>5 DEF Measure, Moves, Counted, CountedPoints
      <4>2. Cardinality(Counted) # 0
        BY <4>1, CountedFinite, FS_EmptySet
      <4> QED BY <1>0, <4>2, CountedFinite, SetsFinite DEF IInv, OngoingConserved
    <3>4. \A q \in Slots : at'[q] = "measured" => Lawful(loaded'[q], lost')
      <4>1. Lawful(ongoing + 1, lost)
        BY <1>0, <3>3
      <4> QED BY <1>0, <2>0, <3>2, <4>1 DEF GaugeInv
    <3> QED BY <1>0, <3>1, <3>2, <3>4 DEF GaugeInv, GaugeDriftBounded
  <2>6. CASE SetGauge(r)
    <3>1. G' = G /\ G >= 1
      <4>1. G' = G
        BY <1>0, <2>6, GaugeMoves DEF SetGauge, Points, CountedPoints, GaugedPoints
      <4>2. r \in Gauged
        BY <2>6 DEF SetGauge, Moves, Gauged
      <4>3. G # 0
        BY <4>2, SetsFinite, FS_EmptySet
      <4> QED BY <1>0, <4>1, <4>3
    <3>2. /\ at[r] = "measured" /\ at'[r] = "working" /\ gauge' = loaded[r] /\ lost' = lost
          /\ loaded' = [loaded EXCEPT ![r] = 0]
      BY <1>0, <2>6 DEF SetGauge, Moves
    <3>3. Lawful(loaded[r], lost)
      BY <3>2 DEF GaugeInv
    <3>4. GaugeDriftBounded'
      BY <1>0, <3>1, <3>2, <3>3 DEF GaugeDriftBounded
    <3> QED BY <1>0, <2>0, <3>2, <3>4 DEF GaugeInv
  <2> QED BY <1>2, <2>1, <2>2, <2>3, <2>4, <2>5, <2>6 DEF Task
<1>3. CASE CtrlC \/ Poll \/ StopTaking \/ Close \/ CloseOnTasks
  BY <1>1, <1>3 DEF CtrlC, Poll, StopTaking, Close, CloseOnTasks
<1>4. CASE UNCHANGED vars
  BY <1>1, <1>4 DEF vars
<1> QED BY <1>2, <1>3, <1>4 DEF Next

\* GaugeDriftBounded: a gauge that is set to stale counts is off by no more than the
\* requests that are worked on at a time and those that were lost, for ever.
THEOREM GaugeCorrect == Spec => []GaugeDriftBounded
<1>1. Init => GaugeInv
  <2> SUFFICES ASSUME Init PROVE GaugeInv
    OBVIOUS
  <2>1. Gauged = {} /\ \A r \in Slots : at[r] # "measured"
    BY DEF Init, Gauged
  <2>2. Cardinality(Gauged) = 0
    BY <2>1, FS_EmptySet
  <2>3. GaugeDriftBounded
    BY <2>2, SetsFinite DEF Init, GaugeDriftBounded
  <2> QED BY <2>1, <2>3, InitIInv DEF GaugeInv
<1>2. GaugeInv => GaugeDriftBounded
  BY DEF GaugeInv
<1> QED BY <1>1, GaugeStep, <1>2, PTL DEF Spec
=============================================================================
