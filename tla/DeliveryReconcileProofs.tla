----------------------- MODULE DeliveryReconcileProofs -----------------------
(* Theorems about DeliveryReconcile, for any cameras, any lookback, settle   *)
(* time, match window and clock skew, and any number of triggers and passes. *)
EXTENDS DeliveryReconcile, WellFoundedInduction, TLAPS

\* TypeOK without the last verified trigger and the watermark, which no gap
\* depends on.
TypeInv ==
  /\ now \in Times
  /\ fired \in [Cameras -> SUBSET Times]
  /\ owed \in [Cameras -> SUBSET Times]
  /\ received \in [Cameras -> SUBSET Times]
  /\ turn \in DOMAIN Order
  /\ moment \in Moments
  /\ gap \in [Cameras -> [Times -> {None, "missing", "matched"}]]
  /\ first \in [Cameras -> Moments]
  /\ checked \in [Cameras -> Moments]
  /\ passes \in [Cameras -> SUBSET Times]

\* The moments of passes, in their order: the camera under way comes last.
ClockInv ==
  /\ moment # None => moment <= now
  /\ \A c \in Cameras : \A m \in passes[c] :
       m <= now /\ (moment # None => m <= moment)

\* The passes that looked at an instant; the latest of them exists.
Looks(c, t) == {m \in passes[c] : m - Lookback <= t /\ t <= m - Settle}
HasLatest(S) == S # {} => \E m \in S : \A k \in S : k <= m

LooksInv ==
  \A c \in Cameras :
    /\ first[c] = None <=> passes[c] = {}
    /\ first[c] # None => checked[c] \in passes[c]
    /\ \A t \in Times : HasLatest(Looks(c, t))

\* A gap has an examined trigger, a resolved one a delivery, an open one none
\* that any pass could have known, and an examined loss has an open one.
GapOf(c, t) ==
  /\ gap[c][t] # None => t \in fired[c] \cap Examined(c)
  /\ gap[c][t] = "matched" => Delivered(c, t)
  /\ gap[c][t] = "missing" =>
       \A r \in received[c], m \in Looks(c, t) : Near(r, t) => r >= m
  /\ t \in fired[c] \cap Examined(c) /\ ~Delivered(c, t) => gap[c][t] = "missing"

GapInv == \A c \in Cameras, t \in Times : GapOf(c, t)

Inv == TypeInv /\ ClockInv /\ LooksInv /\ GapInv

-----------------------------------------------------------------------------
LEMMA Constants ==
  /\ Times \subseteq Nat /\ None \notin Times /\ None \notin Int
  /\ None # "missing" /\ None # "matched"
  /\ Len(Order) \in Nat \ {0} /\ DOMAIN Order = 1..Len(Order)
  /\ \A i \in DOMAIN Order : Order[i] \in Cameras
BY ReconcileAssumption DEF ReconcileAssumption, Times, Cameras

LEMMA InitInv == Init => Inv
<1> SUFFICES ASSUME Init PROVE Inv
  OBVIOUS
<1> USE Constants, ReconcileAssumption DEF ReconcileAssumption
<1>1. TypeInv
  BY DEF Init, TypeInv, Times, Moments
<1>2. ClockInv
  BY DEF Init, ClockInv
<1>3. LooksInv
  BY DEF Init, LooksInv, Looks, HasLatest
<1>4. GapInv
  BY DEF Init, GapInv, GapOf, Examined
<1> QED BY <1>1, <1>2, <1>3, <1>4 DEF Inv

\* A trigger that fires now was looked at by no pass yet.
LEMMA FireKeepsInv == ASSUME Inv, NEW c \in Cameras, Fire(c) PROVE Inv'
<1> USE Constants, ReconcileAssumption DEF ReconcileAssumption, Inv
<1>1. PICK t \in (now..(now + Skew)) \cap Times :
        /\ fired' = [fired EXCEPT ![c] = @ \cup {t}]
        /\ owed' = [owed EXCEPT ![c] = @ \cup {t}]
  BY DEF Fire
<1>2. UNCHANGED <<now, received, turn, moment, gap, first, checked, passes>>
  BY DEF Fire, stateVars
<1>3. TypeInv'
  BY <1>1, <1>2 DEF TypeInv
<1>4. ClockInv' /\ LooksInv'
  BY <1>2 DEF ClockInv, LooksInv, Looks
<1>5. t \notin Examined(c)
  BY DEF TypeInv, ClockInv, Examined
<1>6. GapInv'
  <2> SUFFICES ASSUME NEW d \in Cameras, NEW s \in Times PROVE GapOf(d, s)'
    BY DEF GapInv
  <2>1. GapOf(d, s)
    BY DEF GapInv
  <2>2. Examined(d)' = Examined(d) /\ Looks(d, s)' = Looks(d, s)
    BY <1>2 DEF Examined, Looks
  <2>3. Delivered(d, s)' <=> Delivered(d, s)
    BY <1>2 DEF Delivered
  <2>4. fired[d] \subseteq fired'[d] /\ fired'[d] \cap Examined(d) = fired[d] \cap Examined(d)
    BY <1>1, <1>5 DEF TypeInv
  <2> QED BY <1>2, <2>1, <2>2, <2>3, <2>4 DEF GapOf
<1> QED BY <1>3, <1>4, <1>6

\* A delivery that arrives now comes after every pass.
LEMMA ArriveKeepsInv == ASSUME Inv, NEW c \in Cameras, Arrive(c) PROVE Inv'
<1> USE Constants, ReconcileAssumption DEF ReconcileAssumption, Inv
<1>1. /\ received' = [received EXCEPT ![c] = @ \cup {now}]
      /\ \E t \in owed[c] : owed' = [owed EXCEPT ![c] = @ \ {t}]
  BY DEF Arrive
<1>2. UNCHANGED <<now, fired, turn, moment, gap, first, checked, passes>>
  BY DEF Arrive, stateVars
<1>3. TypeInv'
  BY <1>1, <1>2 DEF TypeInv
<1>4. ClockInv' /\ LooksInv'
  BY <1>2 DEF ClockInv, LooksInv, Looks
<1>5. GapInv'
  <2> SUFFICES ASSUME NEW d \in Cameras, NEW s \in Times PROVE GapOf(d, s)'
    BY DEF GapInv
  <2>1. GapOf(d, s)
    BY DEF GapInv
  <2>2. Examined(d)' = Examined(d) /\ Looks(d, s)' = Looks(d, s)
    BY <1>2 DEF Examined, Looks
  <2>3. received[d] \subseteq received'[d] /\ received'[d] \subseteq received[d] \cup {now}
    BY <1>1 DEF TypeInv
  <2>4. Delivered(d, s) => Delivered(d, s)'
    BY <2>3 DEF Delivered
  <2>5. \A m \in Looks(d, s) : now >= m
    BY DEF ClockInv, Looks
  <2> QED BY <1>2, <2>1, <2>2, <2>3, <2>4, <2>5 DEF GapOf
<1> QED BY <1>3, <1>4, <1>5

\* A completed look: what it compares decides the gaps of its camera.
LEMMA CompareKeepsInv == ASSUME Inv, Compare PROVE Inv'
<1> USE Constants, ReconcileAssumption DEF ReconcileAssumption, Inv
<1>1. PICK c \in Cameras : c = Order[turn]
  BY DEF TypeInv
<1> DEFINE edges == Edges(c, moment)
           heard == DeliveriesBetween(c, moment - Lookback - Slack, moment + Slack)
           matched == {t \in edges : \E r \in heard : Near(r, t)}
<1>2. moment \in Times /\ moment # None
  BY DEF TypeInv, Compare, Moments
<1>3. /\ gap' = [gap EXCEPT ![c] = [t \in Times |->
           IF t \in matched THEN ResolveGap(gap[c][t])
           ELSE IF t \in edges THEN RecordGap(gap[c][t]) ELSE gap[c][t]]]
      /\ first' = [first EXCEPT ![c] = IF first[c] = None THEN moment ELSE first[c]]
      /\ checked' = [checked EXCEPT ![c] = moment]
      /\ passes' = [passes EXCEPT ![c] = passes[c] \cup {moment}]
      /\ moment' = None
      /\ UNCHANGED <<now, fired, owed, received>>
  BY <1>1, <1>2 DEF Compare, MarkChecked, TypeInv, worldVars
<1>4. turn' \in DOMAIN Order
  BY DEF Compare, NextCamera, TypeInv
<1> HIDE DEF edges, heard, matched
<1>5. TypeInv'
  <2>1. gap' \in [Cameras -> [Times -> {None, "missing", "matched"}]]
    BY <1>2, <1>3 DEF TypeInv, ResolveGap, RecordGap
  <2>2. /\ first' \in [Cameras -> Moments] /\ checked' \in [Cameras -> Moments]
        /\ passes' \in [Cameras -> SUBSET Times]
    BY <1>2, <1>3 DEF TypeInv, Moments
  <2> QED BY <1>3, <1>4, <2>1, <2>2 DEF TypeInv, Moments
<1>6. ClockInv'
  BY <1>2, <1>3 DEF ClockInv, TypeInv
<1>7. \A d \in Cameras \ {c} : /\ gap'[d] = gap[d] /\ first'[d] = first[d]
                               /\ checked'[d] = checked[d] /\ passes'[d] = passes[d]
  BY <1>2, <1>3 DEF TypeInv
<1>8. passes'[c] = passes[c] \cup {moment} /\ checked'[c] = moment /\ first'[c] # None
  BY <1>2, <1>3 DEF TypeInv, Moments
<1>9. \A m \in passes'[c] : m \in Nat /\ m <= moment
  <2>1. ASSUME NEW m \in passes[c] PROVE m \in Nat /\ m <= moment
    BY <1>2 DEF ClockInv, TypeInv
  <2>2. moment \in Nat /\ moment <= moment
    BY <1>2
  <2> QED BY <1>8, <2>1, <2>2
<1>10. LooksInv'
  <2> SUFFICES ASSUME NEW d \in Cameras
               PROVE  /\ first'[d] = None <=> passes'[d] = {}
                      /\ first'[d] # None => checked'[d] \in passes'[d]
                      /\ \A t \in Times : HasLatest(Looks(d, t)')
    BY DEF LooksInv, HasLatest
  <2>1. CASE d # c
    BY <1>7, <2>1 DEF LooksInv, Looks, HasLatest
  <2>2. CASE d = c
    <3>1. ASSUME NEW t \in Times PROVE HasLatest(Looks(c, t)')
      <4>1. HasLatest(Looks(c, t))
        BY <1>2 DEF LooksInv
      <4>2. \A k \in Looks(c, t)' : k <= moment
        BY <1>9 DEF Looks
      <4>3. CASE moment \in Looks(c, t)'
        BY <4>2, <4>3 DEF HasLatest
      <4>4. CASE moment \notin Looks(c, t)'
        <5>1. Looks(c, t)' = Looks(c, t)
          BY <1>2, <1>8, <4>4 DEF Looks
        <5> QED BY <4>1, <5>1
      <4> QED BY <4>3, <4>4
    <3> QED BY <1>8, <2>2, <3>1
  <2> QED BY <2>1, <2>2
<1>11. ASSUME NEW t \in Times PROVE GapOf(c, t)'
  <2>1. GapOf(c, t)
    BY <1>2 DEF GapInv
  <2>2. gap'[c][t] = IF t \in matched THEN ResolveGap(gap[c][t])
                     ELSE IF t \in edges THEN RecordGap(gap[c][t]) ELSE gap[c][t]
    BY <1>2, <1>3 DEF TypeInv
  <2>3. Delivered(c, t)' <=> Delivered(c, t)
    BY <1>3 DEF Delivered
  <2>4. /\ t \in Examined(c) => t \in Examined(c)'
        /\ Looks(c, t) \subseteq Looks(c, t)'
    BY <1>2, <1>3, <1>8 DEF Examined, Looks, TypeInv
  <2>5. t \in edges <=> /\ first[c] # None /\ t \in fired[c] /\ t >= first[c]
                        /\ moment - Lookback <= t /\ t <= moment - Settle
    BY DEF edges, Edges
  <2>6. CASE t \in edges
    <3>1. t \in fired'[c] /\ t \in Examined(c)'
      BY <1>2, <1>3, <1>8, <2>5, <2>6 DEF Examined, TypeInv, Moments
    <3>2. CASE t \in matched
      <4>1. Delivered(c, t)
        BY <3>2 DEF matched, heard, DeliveriesBetween, Delivered
      <4>2. gap'[c][t] # "missing"
        BY <2>2, <3>2 DEF ResolveGap
      <4> QED BY <2>3, <3>1, <4>1, <4>2 DEF GapOf
    <3>3. CASE t \notin matched
      <4>1. ASSUME NEW r \in received[c], Near(r, t) PROVE \A m \in Looks(c, t)' : r >= m
        <5>1. r \notin heard
          BY <2>6, <3>3, <4>1 DEF matched
        <5>2. r > moment + Slack
          BY <1>2, <2>5, <2>6, <4>1, <5>1 DEF heard, DeliveriesBetween, Near, TypeInv
        <5>3. \A m \in Looks(c, t)' : m <= moment
          BY <1>9 DEF Looks
        <5>4. r \in Nat /\ moment \in Nat /\ \A m \in Looks(c, t)' : m \in Nat
          BY <1>2, <1>9 DEF TypeInv, Looks
        <5> QED BY <5>2, <5>3, <5>4
      <4>2. gap'[c][t] = IF gap[c][t] = None THEN "missing" ELSE gap[c][t]
        BY <2>2, <2>6, <3>3 DEF RecordGap
      <4>3. gap[c][t] \in {None, "missing", "matched"}
        BY <1>2 DEF TypeInv
      <4>4. gap'[c][t] \in {"missing", "matched"}
        BY <4>2, <4>3
      <4>5. gap'[c][t] = "matched" => Delivered(c, t)
        BY <2>1, <4>2 DEF GapOf
      <4> QED BY <1>3, <2>3, <3>1, <4>1, <4>4, <4>5 DEF GapOf
    <3> QED BY <3>2, <3>3
  <2>7. CASE t \notin edges
    <3>1. gap'[c][t] = gap[c][t]
      BY <2>2, <2>7 DEF matched
    <3>2. t \in fired[c] \cap Examined(c) => Looks(c, t)' = Looks(c, t)
      BY <1>2, <1>8, <2>5, <2>7 DEF Examined, Looks, TypeInv
    <3>3. t \in fired[c] \cap Examined(c)' => t \in Examined(c)
      <4> SUFFICES ASSUME t \in fired[c], t \in Examined(c)' PROVE t \in Examined(c)
        OBVIOUS
      <4>1. PICK m \in passes'[c] : m - Lookback <= t /\ t <= m - Settle
        BY DEF Examined
      <4>2. t >= first'[c]
        BY DEF Examined
      <4>3. CASE first[c] = None
        <5>1. passes[c] = {} /\ first'[c] = moment
          BY <1>2, <1>3, <4>3 DEF LooksInv, TypeInv
        <5>2. m = moment
          BY <1>8, <4>1, <5>1
        <5>3. t \in Nat /\ moment \in Nat /\ t >= moment /\ t <= moment - Settle
          BY <1>2, <4>1, <4>2, <5>1, <5>2
        <5> QED BY <5>3
      <4>4. CASE first[c] # None
        <5>1. first'[c] = first[c]
          BY <1>2, <1>3, <4>4 DEF TypeInv
        <5> QED BY <1>8, <2>5, <2>7, <4>1, <4>2, <4>4, <5>1 DEF Examined
      <4> QED BY <4>3, <4>4
    <3> QED BY <1>3, <2>1, <2>3, <2>4, <3>1, <3>2, <3>3 DEF GapOf
  <2> QED BY <2>6, <2>7
<1>12. GapInv'
  <2> SUFFICES ASSUME NEW d \in Cameras, NEW t \in Times, d # c PROVE GapOf(d, t)'
    BY <1>11 DEF GapInv
  <2>1. GapOf(d, t)
    BY DEF GapInv
  <2> QED BY <1>3, <1>7, <2>1 DEF GapOf, Examined, Delivered, Looks
<1> QED BY <1>5, <1>6, <1>10, <1>12

LEMMA NextKeepsInv == Inv /\ [Next]_vars => Inv'
<1> SUFFICES ASSUME Inv, [Next]_vars PROVE Inv'
  OBVIOUS
<1> USE Constants, ReconcileAssumption DEF ReconcileAssumption
<1>1. ASSUME NEW c \in Cameras, Fire(c) PROVE Inv'
  BY <1>1, FireKeepsInv
<1>2. ASSUME NEW c \in Cameras, Arrive(c) PROVE Inv'
  BY <1>2, ArriveKeepsInv
<1>3. CASE Compare
  BY <1>3, CompareKeepsInv
<1>4. CASE AskHistory \/ Unavailable \/ Abort \/ Tick \/ UNCHANGED vars
  <2>1. /\ UNCHANGED <<fired, owed, received, gap, first, checked, passes>>
        /\ now' \in Times /\ now' >= now
        /\ moment' = None \/ moment' = now' \/ (moment' = moment)
        /\ turn' \in DOMAIN Order
    BY <1>4 DEF AskHistory, Unavailable, Abort, Tick, vars, worldVars, stateVars, NextCamera,
       Inv, TypeInv, Times
  <2>2. TypeInv'
    BY <2>1 DEF Inv, TypeInv, Moments
  <2>3. ClockInv'
    BY <2>1 DEF Inv, ClockInv, TypeInv, Moments
  <2>4. LooksInv' /\ GapInv'
    BY <2>1 DEF Inv, LooksInv, GapInv, GapOf, Looks, Examined, Delivered, Near, HasLatest
  <2> QED BY <2>2, <2>3, <2>4 DEF Inv
<1> QED BY <1>1, <1>2, <1>3, <1>4 DEF Next

LEMMA SpecInv == Spec => []Inv
BY InitInv, NextKeepsInv, PTL DEF Spec

-----------------------------------------------------------------------------
\* Every loss a pass looked at has an open gap, every open gap is of a trigger
\* no pass could have known to be delivered, and nothing else has a row.
THEOREM GapsStayExact == Spec => []GapsAreExact
<1>1. Inv => GapsAreExact
  <2> SUFFICES ASSUME Inv, NEW c \in Cameras, NEW t \in Times, gap[c][t] = "missing"
               PROVE  \A r \in received[c] : Near(r, t) => r >= Max(Looks(c, t))
    BY DEF GapsAreExact, Inv, GapInv, GapOf, Looks
  <2>1. GapOf(c, t) /\ HasLatest(Looks(c, t))
    BY DEF Inv, GapInv, LooksInv
  <2>2. Looks(c, t) # {}
    BY <2>1, ReconcileAssumption DEF GapOf, Examined, Looks, ReconcileAssumption
  <2>3. PICK m \in Looks(c, t) : \A k \in Looks(c, t) : m >= k
    BY <2>1, <2>2, Constants DEF HasLatest, Inv, TypeInv, Looks
  <2>4. Max(Looks(c, t)) \in Looks(c, t)
    BY <2>3 DEF Max
  <2> QED BY <2>1, <2>4 DEF GapOf
<1> QED BY <1>1, SpecInv, PTL

\* A pipeline reported healthy hides no loss older than the staleness limit,
\* whatever passes failed meanwhile.
THEOREM PipelineStatusStaysHonest == Spec => []PipelineStatusIsHonest
<1>1. Inv => PipelineStatusIsHonest
  <2> SUFFICES ASSUME Inv, NEW c \in Cameras, PipelineStatus(c) = "healthy",
                      NEW t \in fired[c], t >= first[c], now - Lookback <= t,
                      t <= now - StaleAfter - Settle, ~Delivered(c, t)
               PROVE  FALSE
    BY DEF PipelineStatusIsHonest
  <2> USE Constants, ReconcileAssumption DEF ReconcileAssumption
  <2>1. /\ first[c] # None /\ ~(now - checked[c] > StaleAfter)
        /\ OpenGaps(c, now - Lookback, now) = {}
    BY DEF PipelineStatus
  <2>2. checked[c] \in passes[c] /\ checked[c] <= now
    BY <2>1 DEF Inv, LooksInv, ClockInv
  <2>3. t \in Times /\ t \in Nat /\ now \in Nat /\ checked[c] \in Nat
    BY <2>2 DEF Inv, TypeInv
  <2>4. checked[c] - Lookback <= t /\ t <= checked[c] - Settle
    BY <2>1, <2>2, <2>3
  <2>5. t \in Examined(c)
    BY <2>1, <2>2, <2>3, <2>4 DEF Examined
  <2>6. gap[c][t] = "missing"
    BY <2>3, <2>5 DEF Inv, GapInv, GapOf
  <2> QED BY <2>1, <2>3, <2>6 DEF OpenGaps
<1> QED BY <1>1, SpecInv, PTL

\* Over a period that passes looked at, complete = true says that every
\* trigger in it was delivered.
THEOREM CompleteStaysTrueWhereExamined == Spec => []CompleteWhereExamined
<1>1. Inv => CompleteWhereExamined
  <2> SUFFICES ASSUME Inv, NEW watching \in SUBSET Cameras, NEW p \in Periods,
                      \A c \in watching : p[1]..p[2] \subseteq Examined(c),
                      PipelineComplete(watching, p[1], p[2]) = "true"
               PROVE  TrueOf(watching, p)
    BY DEF CompleteWhereExamined
  <2> SUFFICES ASSUME NEW c \in watching, NEW t \in fired[c] \cap (p[1]..p[2]),
                      ~Delivered(c, t)
               PROVE  FALSE
    BY DEF TrueOf
  <2>1. OpenGaps(c, p[1], p[2]) = {}
    BY DEF PipelineComplete
  <2>2. t \in Times /\ t \in Examined(c) /\ p[1] <= t /\ t <= p[2]
    BY DEF Inv, TypeInv, Periods
  <2>3. gap[c][t] = "missing"
    BY <2>2 DEF Inv, GapInv, GapOf
  <2> QED BY <2>1, <2>2, <2>3 DEF OpenGaps
<1> QED BY <1>1, SpecInv, PTL
-----------------------------------------------------------------------------
(* What the rows of a camera say of its passes.                              *)

\* The trigger last verified was looked at and delivered.
VerifiedIsDelivered ==
  \A c \in Cameras : verified[c] # None =>
    verified[c] \in fired[c] \cap Examined(c) /\ Delivered(c, verified[c])

\* The watermark is what the latest pass settled, and nothing of a camera is
\* known before its first pass.
WatermarkIsLastLook ==
  \A c \in Cameras :
    IF passes[c] = {} THEN first[c] = None /\ checked[c] = None /\ through[c] = None
    ELSE /\ first[c] \in passes[c] /\ checked[c] \in passes[c]
         /\ \A m \in passes[c] : first[c] <= m /\ m <= checked[c]
         /\ through[c] = checked[c] - Settle

WatermarkInv ==
  /\ VerifiedIsDelivered
  /\ WatermarkIsLastLook
  /\ verified = [c \in Cameras |-> verified[c]]
  /\ through = [c \in Cameras |-> through[c]]

\* The latest of the moments of a set.
LEMMA LatestOf ==
  ASSUME NEW S \in SUBSET Times, S # {}
  PROVE  Max(S) \in S /\ \A t \in S : t <= Max(S)
<1> USE ReconcileAssumption DEF ReconcileAssumption, Times
<1>1. PICK R : R = OpToRel(<, Nat)
  OBVIOUS
<1>2. \A x, y \in Nat : <<x, y>> \in R <=> x < y
  BY <1>1 DEF OpToRel
<1>3. IsWellFoundedOn(R, Nat)
  BY <1>1, NatLessThanWellFounded
<1>4. PICK D : D = {MaxTime - t : t \in S}
  OBVIOUS
<1>5. D \in SUBSET Nat /\ D # {}
  <2>1. ASSUME NEW t \in S PROVE MaxTime - t \in Nat
    <3>1. t \in 0..MaxTime
      OBVIOUS
    <3> QED BY <3>1
  <2> QED BY <1>4, <2>1
<1>6. PICK d \in D : \A e \in D : ~ (<<e, d>> \in R)
  BY <1>3, <1>5, WFMin
<1>7. PICK m \in S : d = MaxTime - m
  BY <1>4
<1>8. \A t \in S : m >= t
  <2> SUFFICES ASSUME NEW t \in S PROVE m >= t
    OBVIOUS
  <2>1. MaxTime - t \in D /\ MaxTime - t \in Nat /\ d \in Nat
    BY <1>4, <1>5
  <2>2. ~(MaxTime - t < d)
    BY <1>2, <1>6, <2>1
  <2> QED BY <1>7, <2>1, <2>2
<1>9. Max(S) \in S /\ \A t \in S : Max(S) >= t
  BY <1>8 DEF Max
<1> QED BY <1>9

\* A trigger once examined stays so, and a delivery once received.
LEMMA LooksAreKept ==
  ASSUME Inv, Inv', \A c \in Cameras : /\ fired[c] \subseteq fired'[c]
                                       /\ received[c] \subseteq received'[c]
                                       /\ passes[c] \subseteq passes'[c]
                                       /\ first[c] # None => first'[c] = first[c]
  PROVE  \A c \in Cameras : \A t \in fired[c] \cap Examined(c) :
           /\ t \in fired'[c] \cap Examined(c)'
           /\ Delivered(c, t) => Delivered(c, t)'
  BY DEF Examined, Delivered

\* A completed look verifies only triggers it found a delivery for.
LEMMA CompareKeepsWatermark == ASSUME Inv, Inv', WatermarkInv, Compare PROVE WatermarkInv'
<1> USE Constants, ReconcileAssumption DEF ReconcileAssumption, Inv
<1>1. PICK c \in Cameras : c = Order[turn]
  BY DEF TypeInv
<1>2. moment \in Times /\ moment # None /\ moment \in Nat
  BY DEF TypeInv, Compare, Moments
<1>3. PICK edges : edges = Edges(c, moment)
  OBVIOUS
<1>4. PICK heard : heard = DeliveriesBetween(c, moment - Lookback - Slack, moment + Slack)
  OBVIOUS
<1>5. PICK matched : matched = {t \in edges : \E r \in heard : Near(r, t)}
  OBVIOUS
<1>6. /\ first' = [first EXCEPT ![c] = IF first[c] = None THEN moment ELSE first[c]]
      /\ checked' = [checked EXCEPT ![c] = moment]
      /\ passes' = [passes EXCEPT ![c] = passes[c] \cup {moment}]
      /\ verified' = [verified EXCEPT ![c] = LastVerified(c, matched)]
      /\ through' = [through EXCEPT ![c] =
           IF first[c] # None /\ through[c] > moment - Settle THEN through[c] ELSE moment - Settle]
      /\ UNCHANGED <<now, fired, owed, received>>
  BY <1>1, <1>3, <1>4, <1>5 DEF Compare, MarkChecked, worldVars
<1>7. \A d \in Cameras \ {c} : /\ first'[d] = first[d] /\ checked'[d] = checked[d]
                               /\ passes'[d] = passes[d] /\ verified'[d] = verified[d]
                               /\ through'[d] = through[d]
  BY <1>6 DEF TypeInv, WatermarkInv
<1>8. /\ first'[c] = IF first[c] = None THEN moment ELSE first[c]
      /\ checked'[c] = moment /\ passes'[c] = passes[c] \cup {moment}
      /\ verified'[c] = LastVerified(c, matched)
      /\ through'[c] = IF first[c] # None /\ through[c] > moment - Settle
                         THEN through[c] ELSE moment - Settle
  BY <1>6 DEF TypeInv, WatermarkInv
<1>9. WatermarkIsLastLook'
  <2>1. \A m \in passes[c] : m \in Nat /\ m <= moment
    BY <1>2 DEF ClockInv, TypeInv
  <2>2. moment \in passes'[c] /\ \A m \in passes'[c] : m \in Nat /\ m <= moment
    BY <1>2, <1>8, <2>1
  <2>3. CASE passes[c] = {}
    <3>1. first'[c] = moment /\ through'[c] = moment - Settle /\ passes'[c] = {moment}
      BY <1>8, <2>3 DEF WatermarkInv, WatermarkIsLastLook
    <3>2. passes'[c] # {} /\ first'[c] \in passes'[c] /\ checked'[c] \in passes'[c]
      BY <1>8, <3>1
    <3>3. \A m \in passes'[c] : first'[c] <= m /\ m <= checked'[c]
      BY <1>2, <1>8, <3>1
    <3>4. through'[c] = checked'[c] - Settle
      BY <1>8, <3>1
    <3> QED BY <1>7, <3>2, <3>3, <3>4 DEF WatermarkInv, WatermarkIsLastLook
  <2>4. CASE passes[c] # {}
    <3>1. /\ first[c] \in passes[c] /\ checked[c] \in passes[c]
          /\ \A m \in passes[c] : first[c] <= m
          /\ through[c] = checked[c] - Settle
      BY <2>4 DEF WatermarkInv, WatermarkIsLastLook
    <3>2. first[c] # None /\ first[c] \in Nat /\ first[c] <= moment
      BY <2>1, <2>4, <3>1 DEF LooksInv
    <3>3. through'[c] = moment - Settle
      BY <1>2, <1>8, <2>1, <3>1
    <3>4. first'[c] = first[c] /\ first[c] \in passes'[c] /\ \A m \in passes'[c] : first[c] <= m
      BY <1>8, <3>1, <3>2
    <3> QED BY <1>7, <1>8, <2>2, <3>3, <3>4 DEF WatermarkInv, WatermarkIsLastLook
  <2> QED BY <2>3, <2>4
<1>10. \A d \in Cameras : \A t \in fired[d] \cap Examined(d) :
         /\ t \in fired'[d] \cap Examined(d)'
         /\ Delivered(d, t) => Delivered(d, t)'
  <2>1. \A d \in Cameras : passes[d] \subseteq passes'[d] /\ (first[d] # None => first'[d] = first[d])
    BY <1>7, <1>8
  <2> QED BY <1>6, <2>1, LooksAreKept
<1>11. \A t \in matched : t \in fired'[c] \cap Examined(c)' /\ Delivered(c, t)' /\ t \in Times
  <2> SUFFICES ASSUME NEW t \in matched
               PROVE  t \in fired'[c] \cap Examined(c)' /\ Delivered(c, t)' /\ t \in Times
    OBVIOUS
  <2>1. /\ t \in fired[c] /\ first[c] # None /\ t >= first[c]
        /\ moment - Lookback <= t /\ t <= moment - Settle
        /\ \E r \in received[c] : Near(r, t)
    BY <1>3, <1>4, <1>5 DEF Edges, DeliveriesBetween
  <2>2. t \in Times
    BY <2>1 DEF TypeInv
  <2>3. first'[c] = first[c] /\ moment \in passes'[c]
    BY <1>8, <2>1
  <2>4. Examined(c)' = {s \in Times : first'[c] # None /\ s >= first'[c] /\
                          \E m \in passes'[c] : m - Lookback <= s /\ s <= m - Settle}
    BY DEF Examined
  <2> QED BY <1>6, <2>1, <2>2, <2>3, <2>4 DEF Delivered
<1>12. verified'[c] # None =>
         verified'[c] \in fired'[c] \cap Examined(c)' /\ Delivered(c, verified[c])'
  <2> SUFFICES ASSUME verified'[c] # None
               PROVE  verified'[c] \in fired'[c] \cap Examined(c)' /\ Delivered(c, verified[c])'
    OBVIOUS
  <2>1. PICK known : known = IF verified[c] = None THEN {} ELSE {verified[c]}
    OBVIOUS
  <2>2. verified'[c] = Max(matched \cup known) /\ matched \cup known # {}
    BY <1>8, <2>1 DEF LastVerified
  <2>3. \A t \in known : t \in fired[c] \cap Examined(c) /\ Delivered(c, t)
    BY <2>1 DEF WatermarkInv, VerifiedIsDelivered
  <2>4. matched \cup known \in SUBSET Times
    BY <1>11, <2>3 DEF Examined
  <2>5. verified'[c] \in matched \cup known
    BY <2>2, <2>4, LatestOf
  <2>6. PICK t : t = verified'[c]
    OBVIOUS
  <2>7. t \in fired'[c] \cap Examined(c)' /\ Delivered(c, t)'
    BY <1>10, <1>11, <2>3, <2>5, <2>6
  <2> QED BY <2>6, <2>7 DEF Delivered
<1>13. VerifiedIsDelivered'
  <2> SUFFICES ASSUME NEW d \in Cameras, d # c, verified'[d] # None
               PROVE  verified'[d] \in fired'[d] \cap Examined(d)' /\ Delivered(d, verified[d])'
    BY <1>12 DEF VerifiedIsDelivered
  <2>1. verified[d] \in fired[d] \cap Examined(d) /\ Delivered(d, verified[d]) /\ verified'[d] = verified[d]
    BY <1>7 DEF WatermarkInv, VerifiedIsDelivered
  <2>2. Delivered(d, verified[d])' => Delivered(d, verified[d])'
    BY <2>1 DEF Delivered
  <2> QED BY <1>10, <2>1
<1> QED BY <1>6, <1>9, <1>13 DEF WatermarkInv

LEMMA StepKeepsWatermark == Inv /\ Inv' /\ WatermarkInv /\ [Next]_vars => WatermarkInv'
<1> SUFFICES ASSUME Inv, Inv', WatermarkInv, [Next]_vars PROVE WatermarkInv'
  OBVIOUS
<1>1. CASE Compare
  BY <1>1, CompareKeepsWatermark
<1>2. CASE ~Compare
  <2>1. /\ UNCHANGED <<first, checked, through, verified, passes>>
        /\ \A c \in Cameras : fired[c] \subseteq fired'[c] /\ received[c] \subseteq received'[c]
    <3>1. ASSUME NEW c \in Cameras, Fire(c)
          PROVE  /\ UNCHANGED <<first, checked, through, verified, passes>>
                 /\ \A d \in Cameras : fired[d] \subseteq fired'[d] /\ received[d] \subseteq received'[d]
      BY <3>1 DEF Fire, stateVars, Inv, TypeInv
    <3>2. ASSUME NEW c \in Cameras, Arrive(c)
          PROVE  /\ UNCHANGED <<first, checked, through, verified, passes>>
                 /\ \A d \in Cameras : fired[d] \subseteq fired'[d] /\ received[d] \subseteq received'[d]
      BY <3>2 DEF Arrive, stateVars, Inv, TypeInv
    <3>3. CASE AskHistory \/ Unavailable \/ Abort \/ Tick \/ UNCHANGED vars
      BY <3>3 DEF AskHistory, Unavailable, Abort, Tick, vars, worldVars, stateVars
    <3> QED BY <1>2, <3>1, <3>2, <3>3 DEF Next
  <2>2. WatermarkIsLastLook'
    BY <2>1 DEF WatermarkInv, WatermarkIsLastLook
  <2>3. \A c \in Cameras : \A t \in fired[c] \cap Examined(c) :
          /\ t \in fired'[c] \cap Examined(c)'
          /\ Delivered(c, t) => Delivered(c, t)'
    BY <2>1, LooksAreKept
  <2>4. VerifiedIsDelivered'
    <3> SUFFICES ASSUME NEW c \in Cameras, verified[c] # None
                 PROVE  verified[c] \in fired'[c] \cap Examined(c)' /\ Delivered(c, verified[c])'
      BY <2>1 DEF VerifiedIsDelivered
    <3>1. PICK t : t = verified[c]
      OBVIOUS
    <3>2. t \in fired[c] \cap Examined(c) /\ Delivered(c, t)
      BY <3>1 DEF WatermarkInv, VerifiedIsDelivered
    <3>3. t \in fired'[c] \cap Examined(c)' /\ Delivered(c, t)'
      BY <2>3, <3>2
    <3> QED BY <2>1, <3>1, <3>3 DEF Delivered
  <2> QED BY <2>1, <2>2, <2>4 DEF WatermarkInv
<1> QED BY <1>1, <1>2

LEMMA SpecWatermark == Spec => []WatermarkInv
<1>1. Init => WatermarkInv
  BY DEF Init, WatermarkInv, VerifiedIsDelivered, WatermarkIsLastLook
<1> QED BY <1>1, StepKeepsWatermark, SpecInv, PTL DEF Spec

\* Whatever passes fail or are cut short, the watermark of a camera is what its
\* latest completed look settled, its beginning the first one's moment, and the
\* delivery last verified is a trigger some pass looked at and found delivered.
THEOREM WatermarkStaysTrue == Spec => [](VerifiedIsDelivered /\ WatermarkIsLastLook)
<1>1. WatermarkInv => VerifiedIsDelivered /\ WatermarkIsLastLook
  BY DEF WatermarkInv
<1> QED BY <1>1, SpecWatermark, PTL

\* Every variable of the reconciler keeps its type.
THEOREM TypesStayCorrect == Spec => []TypeOK
<1>1. Inv /\ WatermarkInv => TypeOK
  <2> SUFFICES ASSUME Inv, WatermarkInv PROVE TypeOK
    OBVIOUS
  <2> USE Constants, ReconcileAssumption DEF ReconcileAssumption
  <2>1. \A c \in Cameras : verified[c] \in Moments
    BY DEF WatermarkInv, VerifiedIsDelivered, Examined, Moments
  <2>2. ASSUME NEW c \in Cameras PROVE through[c] \in (-Settle..MaxTime) \cup {None}
    <3>1. CASE passes[c] = {}
      BY <3>1 DEF WatermarkInv, WatermarkIsLastLook
    <3>2. CASE passes[c] # {}
      <4>1. checked[c] \in 0..MaxTime /\ through[c] = checked[c] - Settle
        BY <3>2 DEF WatermarkInv, WatermarkIsLastLook, Inv, TypeInv, Times
      <4> QED BY <4>1
    <3> QED BY <3>1, <3>2
  <2>3. verified \in [Cameras -> Moments] /\ through \in [Cameras -> (-Settle..MaxTime) \cup {None}]
    <3>1. verified = [c \in Cameras |-> verified[c]] /\ through = [c \in Cameras |-> through[c]]
      BY DEF WatermarkInv, TypeOK
    <3> QED BY <2>1, <2>2, <3>1
  <2> QED BY <2>3 DEF Inv, TypeInv, TypeOK
<1> QED BY <1>1, SpecInv, SpecWatermark, PTL
=============================================================================
