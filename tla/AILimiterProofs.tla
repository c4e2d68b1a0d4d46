-------------------------- MODULE AILimiterProofs --------------------------
(***************************************************************************)
(* What the limiter of AI summaries keeps for any number of tabs, any limit,*)
(* window, cooldown and clock bound.  The inductive invariant is IInv: the  *)
(* entry agrees with the requests that were let through (Agrees), the       *)
(* window before the current one held fewer than a full count after its     *)
(* first request (Before), and no older request is within reach of the      *)
(* current window (Past).                                                   *)
(***************************************************************************)
EXTENDS AILimiter, FiniteSetTheorems, TLAPS

(* The requests of the current window, and those after the first one of the  *)
(* window before it.                                                         *)
Current == {b \in granted : limit.start <= b}
Earlier == {b \in granted : previous < b /\ b < limit.start}

Agrees ==
  /\ limit = NoEntry => granted = {}
  /\ limit # NoEntry =>
       /\ limit.last <= clock
       /\ limit.start <= limit.last
       /\ limit.start \in granted
       /\ \A b \in granted : b <= limit.last
       /\ Cardinality(Current) = limit.count

Before == limit # NoEntry => Cardinality(Earlier) <= MaxRequests - 1

Past ==
  limit # NoEntry =>
    \A b \in granted : b < limit.start /\ b <= previous => b + Window < limit.start

IInv == TypeOK /\ Agrees /\ Before /\ Past /\ Spaced /\ WindowBudget

------------------------------------------------------------------------------
LEMMA GrantedFinite ==
  ASSUME TypeOK
  PROVE  \A S \in SUBSET granted :
           /\ IsFiniteSet(S)
           /\ Cardinality(S) \in Nat
           /\ \A T \in SUBSET S : Cardinality(T) <= Cardinality(S)
<1>1. MaxClock \in Nat
  BY LimiterAssumption
<1>2. IsFiniteSet(0..MaxClock)
  BY <1>1, FS_Interval
<1>3. granted \in SUBSET (0..MaxClock)
  BY DEF TypeOK, Seconds
<1> SUFFICES ASSUME NEW S \in SUBSET granted
             PROVE  /\ IsFiniteSet(S)
                    /\ Cardinality(S) \in Nat
                    /\ \A T \in SUBSET S : Cardinality(T) <= Cardinality(S)
  OBVIOUS
<1>4. IsFiniteSet(S)
  <2>1. S \in SUBSET (0..MaxClock)
    BY <1>3
  <2> QED
    BY <2>1, <1>2, FS_Subset
<1> QED
  BY <1>4, FS_Subset, FS_CardinalityType

(* The cardinality of a union is at most the sum.                            *)
LEMMA UnionBound ==
  ASSUME NEW S, NEW T, IsFiniteSet(S), IsFiniteSet(T)
  PROVE  /\ IsFiniteSet(S \cup T)
         /\ Cardinality(S \cup T) <= Cardinality(S) + Cardinality(T)
<1>1. IsFiniteSet(S \cap T)
  BY FS_Subset
<1>2. /\ Cardinality(S) \in Nat
      /\ Cardinality(T) \in Nat
      /\ Cardinality(S \cap T) \in Nat
  BY <1>1, FS_CardinalityType
<1>3. /\ IsFiniteSet(S \cup T)
      /\ Cardinality(S \cup T) = Cardinality(S) + Cardinality(T) - Cardinality(S \cap T)
  BY FS_Union
<1> QED
  BY <1>2, <1>3

(* The entry of a user who has one.                                          *)
LEMMA EntryType ==
  ASSUME TypeOK, limit # NoEntry
  PROVE  /\ limit \in Entry
         /\ limit.last \in Nat /\ limit.start \in Nat /\ limit.count \in Nat
         /\ limit.count <= MaxRequests
         /\ limit = [last |-> limit.last, count |-> limit.count, start |-> limit.start]
BY LimiterAssumption DEF TypeOK, Entry, Seconds

LEMMA NotAnEntry ==
  ASSUME NEW l \in Nat, NEW c \in Nat, NEW s \in Nat
  PROVE  [last |-> l, count |-> c, start |-> s] # NoEntry
BY LimiterAssumption

------------------------------------------------------------------------------
(* A request that is let through comes a cooldown after all earlier ones.    *)
LEMMA LaterThanAll ==
  ASSUME IInv, ~Refused
  PROVE  \A b \in granted : b + Cooldown <= clock
<1>1. CASE limit = NoEntry
  BY <1>1 DEF IInv, Agrees
<1>2. CASE limit # NoEntry
  <2>1. /\ limit.last \in Nat /\ clock \in Nat /\ Cooldown \in Nat
        /\ granted \in SUBSET Nat
    BY <1>2, EntryType, LimiterAssumption DEF IInv, TypeOK, Seconds
  <2>2. ~(clock - limit.last < Cooldown)
    BY <1>2 DEF Refused, CoolingDown
  <2>3. \A b \in granted : b <= limit.last
    BY <1>2 DEF IInv, Agrees
  <2> QED
    BY <2>1, <2>2, <2>3
<1> QED
  BY <1>1, <1>2

(* What the entry is after a request was let through.                        *)
LEMMA CountedCases ==
  ASSUME IInv, ~Refused, limit' = Counted
  PROVE  \/ /\ OpensWindow
            /\ limit' = [last |-> clock, count |-> 1, start |-> clock]
         \/ /\ ~OpensWindow
            /\ limit # NoEntry
            /\ limit.count + 1 <= MaxRequests
            /\ limit' = [last |-> clock, count |-> limit.count + 1, start |-> limit.start]
<1>1. CASE OpensWindow
  BY <1>1 DEF Counted, Fresh
<1>2. CASE ~OpensWindow
  <2>1. limit # NoEntry
    BY <1>2 DEF OpensWindow
  <2>2. ~WindowOver
    BY <1>2, <2>1 DEF OpensWindow, Refused
  <2>3. ~(limit.count >= MaxRequests)
    BY <2>1, <2>2 DEF Refused, UsedUp
  <2>4. limit.count + 1 <= MaxRequests
    BY <2>1, <2>3, EntryType, LimiterAssumption DEF IInv
  <2>5. limit' = [last |-> clock, count |-> limit.count + 1, start |-> limit.start]
    BY <1>2, <2>1, EntryType DEF Counted, IInv
  <2> QED
    BY <1>2, <2>1, <2>4, <2>5
<1> QED
  BY <1>1, <1>2

LEMMA AllowTypeOK ==
  ASSUME IInv, NEW t \in Tabs, Allow(t)
  PROVE  TypeOK'
<1>1. clock \in Seconds /\ clock' = clock
  BY DEF IInv, TypeOK, Allow
<1>2. granted' \in SUBSET Seconds
  BY <1>1 DEF IInv, TypeOK, Allow
<1>3. call' \in [Tabs -> Call]
  <2>1. PICK pc \in {"invalid", "badKey", "upstream"} :
               call' = [call EXCEPT ![t] = [pc |-> pc, since |-> clock]]
    BY DEF Allow
  <2>2. [pc |-> pc, since |-> clock] \in Call
    BY <1>1 DEF Call, Outcomes
  <2> QED
    BY <2>1, <2>2 DEF IInv, TypeOK
<1>4. limit' \in Entry
  <2>1. ~Refused /\ limit' = Counted
    BY DEF Allow
  <2>2. CASE limit' = [last |-> clock, count |-> 1, start |-> clock]
    BY <2>2, <1>1, LimiterAssumption DEF Entry
  <2>3. CASE /\ limit # NoEntry
             /\ limit.count + 1 <= MaxRequests
             /\ limit' = [last |-> clock, count |-> limit.count + 1, start |-> limit.start]
    <3>1. limit \in Entry
      BY <2>3, EntryType DEF IInv
    <3>2. limit.count + 1 \in 1..MaxRequests
      BY <2>3, <3>1, LimiterAssumption DEF Entry
    <3> QED
      BY <2>3, <3>1, <3>2, <1>1 DEF Entry
  <2> QED
    BY <2>1, <2>2, <2>3, CountedCases
<1>5. previous' \in Seconds
  <2>1. CASE limit # NoEntry
    BY <2>1, EntryType DEF IInv, TypeOK, Allow, Entry
  <2>2. CASE limit = NoEntry
    BY <2>2 DEF IInv, TypeOK, Allow
  <2> QED
    BY <2>1, <2>2
<1> QED
  BY <1>1, <1>2, <1>3, <1>4, <1>5 DEF TypeOK

LEMMA AllowAgrees ==
  ASSUME IInv, NEW t \in Tabs, Allow(t)
  PROVE  Agrees' /\ Before' /\ Past'
<1> USE LimiterAssumption
<1>1. /\ TypeOK /\ ~Refused /\ limit' = Counted
      /\ granted' = granted \cup {clock} /\ clock' = clock
      /\ previous' = IF OpensWindow /\ limit # NoEntry THEN limit.start ELSE previous
      /\ clock \in Nat /\ previous \in Nat /\ granted \in SUBSET Nat
  BY DEF Allow, IInv, TypeOK, Seconds
<1>2. \A b \in granted : b < clock
  BY <1>1, LaterThanAll
<1>3. CASE /\ OpensWindow
           /\ limit' = [last |-> clock, count |-> 1, start |-> clock]
  <2>1. limit' # NoEntry
    BY <1>1, <1>3, NotAnEntry
  <2>2. limit'.last = clock /\ limit'.count = 1 /\ limit'.start = clock
    BY <1>3
  <2>3. Current' = {clock}
    <3>1. Current' = {b \in granted \cup {clock} : clock <= b}
      BY <1>1, <2>2 DEF Current
    <3>2. \A b \in granted : b \in Nat /\ ~(clock <= b)
      BY <1>1, <1>2
    <3>3. clock <= clock
      BY <1>1
    <3> QED
      BY <3>1, <3>2, <3>3
  <2>4. Agrees'
    <3>1. Cardinality(Current') = limit'.count
      BY <2>2, <2>3, FS_Singleton
    <3>2. /\ limit'.last <= clock' /\ limit'.start <= limit'.last
          /\ limit'.start \in granted'
          /\ \A b \in granted' : b <= limit'.last
      BY <1>1, <1>2, <2>2
    <3> QED
      BY <2>1, <3>1, <3>2 DEF Agrees
  <2>5. CASE limit = NoEntry
    <3>1. granted' = {clock}
      BY <1>1, <2>5 DEF IInv, Agrees
    <3>2. Earlier' = {}
      BY <1>1, <2>2, <3>1 DEF Earlier
    <3>3. Before'
      BY <3>2, FS_EmptySet DEF Before
    <3>4. Past'
      BY <1>1, <2>2, <3>1 DEF Past
    <3> QED
      BY <2>4, <3>3, <3>4
  <2>6. CASE limit # NoEntry
    <3>1. /\ limit.start \in Nat /\ limit.start \in granted
          /\ limit.count \in Nat /\ limit.count <= MaxRequests
          /\ Cardinality(Current) = limit.count
      BY <2>6, EntryType DEF IInv, Agrees
    <3>2. previous' = limit.start
      BY <1>1, <1>3, <2>6
    <3>3. Earlier' = Current \ {limit.start}
      <4>1. Earlier' = {b \in granted \cup {clock} : limit.start < b /\ b < clock}
        BY <1>1, <2>2, <3>2 DEF Earlier
      <4>2. \A b \in granted : b < clock /\ (limit.start < b <=> limit.start <= b /\ b # limit.start)
        BY <1>1, <1>2, <3>1
      <4>3. ~(clock < clock)
        BY <1>1
      <4> QED
        BY <4>1, <4>2, <4>3 DEF Current
    <3>4. limit.start \in Current /\ IsFiniteSet(Current)
      BY <1>1, <3>1, GrantedFinite DEF Current
    <3>5. Cardinality(Earlier') = Cardinality(Current) - 1
      BY <3>3, <3>4, FS_RemoveElement
    <3>6. Before'
      BY <3>1, <3>5 DEF Before
    <3>7. limit.start + Window < clock
      BY <1>1, <1>3, <2>6, <3>1 DEF OpensWindow, WindowOver
    <3>8. Past'
      BY <1>1, <1>2, <2>2, <3>1, <3>2, <3>7 DEF Past
    <3> QED
      BY <2>4, <3>6, <3>8
  <2> QED
    BY <2>5, <2>6
<1>4. CASE /\ ~OpensWindow
           /\ limit # NoEntry
           /\ limit.count + 1 <= MaxRequests
           /\ limit' = [last |-> clock, count |-> limit.count + 1, start |-> limit.start]
  <2>1. /\ limit.last \in Nat /\ limit.start \in Nat /\ limit.count \in Nat
        /\ limit.start <= limit.last /\ limit.start \in granted
        /\ Cardinality(Current) = limit.count
    BY <1>1, <1>4, EntryType DEF IInv, Agrees
  <2>2. /\ limit'.last = clock /\ limit'.count = limit.count + 1
        /\ limit'.start = limit.start /\ limit' # NoEntry /\ previous' = previous
    BY <1>1, <1>4, <2>1, NotAnEntry
  <2>3. limit.start < clock
    BY <1>2, <2>1
  <2>4. Current' = Current \cup {clock} /\ clock \notin Current
    BY <1>1, <1>2, <2>1, <2>2, <2>3 DEF Current
  <2>5. IsFiniteSet(Current)
    BY <1>1, GrantedFinite DEF Current
  <2>6. Cardinality(Current') = limit'.count
    <3>1. Cardinality(Current \cup {clock}) = Cardinality(Current) + 1
      BY <2>4, <2>5, FS_AddElement
    <3> QED
      BY <2>1, <2>2, <2>4, <3>1
  <2>7. Agrees'
    BY <1>1, <1>2, <2>1, <2>2, <2>3, <2>6 DEF Agrees
  <2>8. Earlier' = Earlier
    BY <1>1, <2>1, <2>2, <2>3 DEF Earlier
  <2>9. Before'
    BY <1>4, <2>8 DEF Before, IInv
  <2>10. Past'
    BY <1>1, <1>4, <2>1, <2>2, <2>3 DEF Past, IInv
  <2> QED
    BY <2>7, <2>9, <2>10
<1> QED
  BY <1>1, <1>3, <1>4, CountedCases

LEMMA AllowSpaced ==
  ASSUME IInv, NEW t \in Tabs, Allow(t)
  PROVE  Spaced'
<1>1. /\ ~Refused /\ granted' = granted \cup {clock}
      /\ clock \in Nat /\ granted \in SUBSET Nat /\ Cooldown \in Nat
  BY LimiterAssumption DEF Allow, IInv, TypeOK, Seconds
<1>2. \A b \in granted : b + Cooldown <= clock
  BY <1>1, LaterThanAll
<1> QED
  BY <1>1, <1>2 DEF Spaced, IInv

(* Twice the limit, less one: what the entry allows in reach of the latest   *)
(* request, read off the other invariants of the state.                      *)
Settled == TypeOK /\ Agrees /\ Before /\ Past

InReach ==
  limit # NoEntry =>
    \A a \in granted : limit.last <= a + Window =>
      Cardinality({b \in granted : a <= b /\ b <= a + Window}) <= 2 * MaxRequests - 1

LEMMA ReachBound == Settled => InReach
<1> SUFFICES ASSUME TypeOK, Agrees, Before, Past, limit # NoEntry,
                    NEW a \in granted, limit.last <= a + Window
             PROVE  Cardinality({b \in granted : a <= b /\ b <= a + Window})
                      <= 2 * MaxRequests - 1
  BY DEF Settled, InReach
<1> DEFINE Reach == {b \in granted : a <= b /\ b <= a + Window}
<1>1. /\ limit.last \in Nat /\ limit.start \in Nat
      /\ limit.count \in Nat /\ limit.count <= MaxRequests
      /\ previous \in Nat /\ granted \in SUBSET Nat /\ a \in Nat
      /\ Window \in Nat /\ MaxRequests \in Nat
  BY EntryType, LimiterAssumption DEF TypeOK, Seconds
<1>2. /\ limit.start <= limit.last
      /\ Cardinality(Current) = limit.count
      /\ Cardinality(Earlier) <= MaxRequests - 1
  BY DEF Agrees, Before
<1>3. Reach \subseteq Earlier \cup Current
  <2>1. limit.start <= a + Window
    BY <1>1, <1>2
  <2> SUFFICES ASSUME NEW b \in granted, a <= b PROVE b \in Earlier \cup Current
    OBVIOUS
  <2>2. CASE limit.start <= b
    BY <2>2 DEF Current
  <2>3. CASE ~(limit.start <= b)
    <3>1. a < limit.start
      BY <1>1, <2>3
    <3>2. previous < a
      BY <1>1, <2>1, <3>1 DEF Past
    <3>3. previous < b /\ b < limit.start
      BY <1>1, <2>3, <3>2
    <3> QED
      BY <3>3 DEF Earlier
  <2> QED
    BY <1>1, <2>2, <2>3
<1>4. /\ IsFiniteSet(Earlier) /\ IsFiniteSet(Current)
      /\ Cardinality(Earlier) \in Nat
      /\ Earlier \cup Current \in SUBSET granted
  BY GrantedFinite DEF Earlier, Current
<1>5. /\ Cardinality(Reach) \in Nat
      /\ Cardinality(Earlier \cup Current) \in Nat
      /\ Cardinality(Reach) <= Cardinality(Earlier \cup Current)
  BY <1>3, <1>4, GrantedFinite
<1>6. Cardinality(Earlier \cup Current) <= Cardinality(Earlier) + Cardinality(Current)
  BY <1>4, UnionBound
<1> QED
  BY <1>1, <1>2, <1>4, <1>5, <1>6

LEMMA ReachBoundNext == Settled' => InReach'
BY ReachBound, PTL

LEMMA AllowBudget ==
  ASSUME IInv, NEW t \in Tabs, Allow(t)
  PROVE  WindowBudget'
<1>1. TypeOK' /\ Agrees' /\ Before' /\ Past'
  BY AllowTypeOK, AllowAgrees
<1>2. /\ ~Refused /\ granted' = granted \cup {clock} /\ limit' = Counted
      /\ clock \in Nat /\ granted \in SUBSET Nat /\ Window \in Nat
  BY LimiterAssumption DEF Allow, IInv, TypeOK, Seconds
<1>3. limit' # NoEntry /\ limit'.last = clock
  <2>1. CASE limit' = [last |-> clock, count |-> 1, start |-> clock]
    BY <1>2, <2>1, NotAnEntry
  <2>2. CASE /\ limit # NoEntry
             /\ limit' = [last |-> clock, count |-> limit.count + 1, start |-> limit.start]
    <3>1. limit.count + 1 \in Nat /\ limit.start \in Nat
      BY <2>2, EntryType DEF IInv
    <3> QED
      BY <1>2, <2>2, <3>1, NotAnEntry
  <2> QED
    BY <1>2, <2>1, <2>2, CountedCases
<1> SUFFICES ASSUME NEW a \in granted'
             PROVE  Cardinality({b \in granted' : a <= b /\ b <= a + Window})
                      <= 2 * MaxRequests - 1
  BY DEF WindowBudget
<1>4. CASE clock <= a + Window
  <2>1. (limit.last <= a + Window)'
    BY <1>3, <1>4
  <2> QED
    BY <1>1, <1>3, <2>1, ReachBoundNext DEF Settled, InReach
<1>5. CASE ~(clock <= a + Window)
  <2>1. a \in granted
    BY <1>2, <1>5
  <2>2. {b \in granted' : a <= b /\ b <= a + Window}
          = {b \in granted : a <= b /\ b <= a + Window}
    BY <1>2, <1>5
  <2> QED
    BY <2>1, <2>2 DEF IInv, WindowBudget
<1> QED
  BY <1>4, <1>5

------------------------------------------------------------------------------
LEMMA InitIInv == Init => IInv
<1> SUFFICES ASSUME Init PROVE IInv
  OBVIOUS
<1>1. TypeOK
  BY LimiterAssumption DEF Init, TypeOK, Seconds, Call
<1>2. Agrees /\ Before /\ Past /\ Spaced /\ WindowBudget
  BY DEF Init, Agrees, Before, Past, Spaced, WindowBudget
<1> QED
  BY <1>1, <1>2 DEF IInv

LEMMA FinishTypeOK ==
  ASSUME TypeOK, NEW t \in Tabs, NEW outcome \in Outcomes \cup {"idle"}, Finish(t, outcome)
  PROVE  call' \in [Tabs -> Call]
BY DEF TypeOK, Finish, Call, Outcomes

(* A step that leaves the entry and the record of grants alone.              *)
LEMMA EntryKept ==
  ASSUME IInv, UNCHANGED <<limit, granted, previous>>,
         clock' \in Seconds, clock <= clock', call' \in [Tabs -> Call]
  PROVE  IInv'
<1>1. TypeOK'
  BY DEF IInv, TypeOK
<1>2. Agrees'
  <2>1. CASE limit # NoEntry
    <3>1. limit.last \in Nat /\ clock \in Nat /\ clock' \in Nat
      BY <2>1, EntryType, LimiterAssumption DEF IInv, TypeOK, Seconds
    <3> QED
      BY <2>1, <3>1 DEF IInv, Agrees, Current
  <2>2. CASE limit = NoEntry
    BY <2>2 DEF IInv, Agrees, Current
  <2> QED
    BY <2>1, <2>2
<1>3. Before' /\ Past' /\ Spaced' /\ WindowBudget'
  BY DEF IInv, Before, Earlier, Past, Spaced, WindowBudget
<1> QED
  BY <1>1, <1>2, <1>3 DEF IInv

LEMMA RestartKeeps ==
  ASSUME IInv, Restart
  PROVE  IInv'
<1>1. TypeOK'
  BY LimiterAssumption DEF IInv, TypeOK, Restart, Seconds, Call, Outcomes
<1>2. Agrees' /\ Before' /\ Past' /\ Spaced' /\ WindowBudget'
  BY DEF Restart, Agrees, Before, Past, Spaced, WindowBudget
<1> QED
  BY <1>1, <1>2 DEF IInv

LEMMA NextIInv == IInv /\ [Next]_vars => IInv'
<1> SUFFICES ASSUME IInv, [Next]_vars PROVE IInv'
  OBVIOUS
<1> USE LimiterAssumption
<1>0. clock \in Seconds /\ clock <= clock /\ TypeOK /\ call \in [Tabs -> Call]
  BY DEF IInv, TypeOK, Seconds
<1>1. ASSUME NEW t \in Tabs, Send(t) PROVE IInv'
  <2>1. call' \in [Tabs -> Call]
    BY <1>0, <1>1 DEF Send, Call
  <2> QED
    BY <1>0, <1>1, <2>1, EntryKept DEF Send
<1>2. ASSUME NEW t \in Tabs, Refuse(t) PROVE IInv'
  <2>1. call' \in [Tabs -> Call]
    BY <1>0, <1>2, FinishTypeOK DEF Refuse, Refusal, Outcomes
  <2> QED
    BY <1>0, <1>2, <2>1, EntryKept DEF Refuse
<1>3. ASSUME NEW t \in Tabs, Allow(t) PROVE IInv'
  BY <1>3, AllowTypeOK, AllowAgrees, AllowSpaced, AllowBudget DEF IInv
<1>4. ASSUME NEW t \in Tabs, Answer(t) PROVE IInv'
  <2>1. PICK outcome \in {"ok", "failed"} :
          Finish(t, IF clock - call[t].since > WriteTimeout THEN "lost" ELSE outcome)
    BY <1>4 DEF Answer
  <2>2. call' \in [Tabs -> Call]
    BY <1>0, <2>1, FinishTypeOK DEF Outcomes
  <2> QED
    BY <1>0, <1>4, <2>2, EntryKept DEF Answer
<1>5. ASSUME NEW t \in Tabs, Leave(t) PROVE IInv'
  <2>1. call' \in [Tabs -> Call]
    BY <1>0, <1>5, FinishTypeOK DEF Leave
  <2> QED
    BY <1>0, <1>5, <2>1, EntryKept DEF Leave
<1>6. ASSUME Restart PROVE IInv'
  BY <1>6, RestartKeeps
<1>7. ASSUME Tick PROVE IInv'
  <2>1. clock' \in Seconds /\ clock <= clock'
    BY <1>0, <1>7 DEF Tick, Seconds
  <2> QED
    BY <1>0, <1>7, <2>1, EntryKept DEF Tick
<1>8. ASSUME UNCHANGED vars PROVE IInv'
  BY <1>0, <1>8, EntryKept DEF vars
<1> QED
  BY <1>1, <1>2, <1>3, <1>4, <1>5, <1>6, <1>7, <1>8 DEF Next

LEMMA Inductive == Spec => []IInv
BY InitIInv, NextIInv, PTL DEF Spec

(* Every variable keeps its type; the count never passes the limit.          *)
THEOREM TypeCorrect == Spec => []TypeOK
<1>1. IInv => TypeOK
  BY DEF IInv
<1> QED
  BY <1>1, Inductive, PTL

(* Two requests let through by the running server are a cooldown apart.      *)
THEOREM SpacedCorrect == Spec => []Spaced
<1>1. IInv => Spaced
  BY DEF IInv
<1> QED
  BY <1>1, Inductive, PTL

(* No stretch of one window's length holds twice the limit, wherever it      *)
(* begins: the fixed window of the code against the sliding one it names.    *)
THEOREM BudgetCorrect == Spec => []WindowBudget
<1>1. IInv => WindowBudget
  BY DEF IInv
<1> QED
  BY <1>1, Inductive, PTL
=============================================================================
