-------------------------- MODULE RateLimiterProofs --------------------------
(***************************************************************************)
(* What the rate limiter keeps for any number of requests, addresses and    *)
(* trackers, any capacity, rate and clock bound.  The inductive invariant   *)
(* is IInv: who owns a tracker (Owned), that its times are in order         *)
(* (Stamped), what one tracker gave out (Conserved) and what an address got *)
(* from its trackers one after the other (Budget).                          *)
(***************************************************************************)
EXTENDS RateLimiter, TLAPS

(* The map and the requests hold trackers that were made, for that address.  *)
Owned ==
  /\ \A ip \in Addresses : clients[ip] # NoTracker =>
       clients[ip] \in allocated /\ tracker[clients[ip]].ip = ip
  /\ \A r \in Requests : At(r, "take") =>
       req[r].held \in allocated /\ tracker[req[r].held].ip = req[r].ip

Stamped ==
  \A k \in allocated :
    tracker[k].born <= tracker[k].lastRefill /\ tracker[k].lastRefill <= clock

(* An address without a tracker has left room for a full bucket.             *)
Room(ip) ==
  IF clients[ip] = NoTracker
  THEN TicksPerToken * granted[ip] <= clock
  ELSE TicksPerToken * granted[ip] + tracker[clients[ip]].credits
         <= Capacity + tracker[clients[ip]].lastRefill

Budget == \A ip \in Addresses \ split : Room(ip)

IInv == TypeOK /\ Owned /\ Stamped /\ Conserved /\ Budget

------------------------------------------------------------------------------
LEMMA CapacityType == Capacity \in Nat /\ Capacity >= TicksPerToken
BY ConstantAssumption DEF Capacity

LEMMA Distribute ==
  ASSUME NEW n \in Nat
  PROVE  /\ TicksPerToken * n \in Nat
         /\ TicksPerToken * (n + 1) = TicksPerToken * n + TicksPerToken
BY ConstantAssumption

(* A refill never exceeds the capacity, nor what the bucket held and earned. *)
LEMMA RefillBounds ==
  ASSUME NEW k \in Trackers, tracker[k] \in Tracker, clock \in Nat,
         tracker[k].lastRefill <= clock
  PROVE  /\ Refilled(k) \in 0..Capacity
         /\ Refilled(k) <= tracker[k].credits + (clock - tracker[k].lastRefill)
BY CapacityType DEF Refilled, Least, Tracker

After(k) == IF Refilled(k) >= TicksPerToken THEN Pay(k) ELSE Deny(k)

(* Taking a token only moves credits to grants.                              *)
LEMMA TakeKeepsSum ==
  ASSUME NEW k \in Trackers, tracker[k] \in Tracker, clock \in Nat,
         tracker[k].lastRefill <= clock
  PROVE  /\ After(k) \in Tracker
         /\ After(k).lastRefill = clock
         /\ After(k).ip = tracker[k].ip
         /\ After(k).born = tracker[k].born
         /\ TicksPerToken * After(k).grants + After(k).credits
              = TicksPerToken * tracker[k].grants + Refilled(k)
         /\ After(k).credits = IF Refilled(k) >= TicksPerToken
                               THEN Refilled(k) - TicksPerToken ELSE Refilled(k)
<1>1. Refilled(k) \in 0..Capacity /\ Capacity \in Nat
  BY RefillBounds, CapacityType
<1>2. tracker[k].grants \in Nat /\ TicksPerToken \in Nat \ {0}
  BY ConstantAssumption DEF Tracker
<1>3. TicksPerToken * (tracker[k].grants + 1) = TicksPerToken * tracker[k].grants + TicksPerToken
  BY <1>2, Distribute
<1>4. TicksPerToken * tracker[k].grants \in Nat
  BY <1>2, Distribute
<1>5. CASE Refilled(k) >= TicksPerToken
  <2>1. After(k) = Pay(k)
    BY <1>5 DEF After
  <2>2. Pay(k) \in Tracker
    <3>1. Refilled(k) - TicksPerToken \in 0..Capacity /\ tracker[k].grants + 1 \in Nat
      BY <1>1, <1>2, <1>5
    <3> QED BY <3>1 DEF Pay, Tracker
  <2>3. /\ Pay(k).lastRefill = clock /\ Pay(k).ip = tracker[k].ip
        /\ Pay(k).born = tracker[k].born
        /\ Pay(k).grants = tracker[k].grants + 1
        /\ Pay(k).credits = Refilled(k) - TicksPerToken
    BY DEF Pay, Tracker
  <2> QED BY <1>1, <1>2, <1>3, <1>4, <1>5, <2>1, <2>2, <2>3
<1>6. CASE ~(Refilled(k) >= TicksPerToken)
  <2>1. After(k) = Deny(k)
    BY <1>6 DEF After
  <2>2. Deny(k) \in Tracker
    BY <1>1, <1>2 DEF Deny, Tracker
  <2>3. /\ Deny(k).lastRefill = clock /\ Deny(k).ip = tracker[k].ip
        /\ Deny(k).born = tracker[k].born
        /\ Deny(k).grants = tracker[k].grants
        /\ Deny(k).credits = Refilled(k)
    BY DEF Deny, Tracker
  <2> QED BY <1>1, <1>2, <1>4, <1>6, <2>1, <2>2, <2>3
<1> QED BY <1>5, <1>6

LEMMA FreshFacts ==
  ASSUME NEW ip \in Addresses, clock \in Nat
  PROVE  /\ Fresh(ip) \in Tracker
         /\ Fresh(ip).credits = Capacity /\ Fresh(ip).lastRefill = clock
         /\ Fresh(ip).born = clock /\ Fresh(ip).grants = 0 /\ Fresh(ip).ip = ip
BY CapacityType DEF Fresh, Tracker

------------------------------------------------------------------------------
LEMMA InitIInv == Init => IInv
<1> SUFFICES ASSUME Init PROVE IInv OBVIOUS
<1>1. TypeOK
  BY ConstantAssumption, CapacityType DEF Init, TypeOK, Tracker, Request
<1>2. Owned
  BY DEF Init, Owned, At
<1>3. Stamped /\ Conserved
  BY DEF Init, Stamped, Conserved
<1>4. Budget
  BY ConstantAssumption DEF Init, Budget, Room
<1> QED BY <1>1, <1>2, <1>3, <1>4 DEF IInv

(* Steps that change neither the map nor the trackers.                       *)
LEMMA ArriveKeeps == ASSUME IInv, NEW r \in Requests, Arrive(r) PROVE IInv'
<1>1. PICK ip \in Addresses :
        req' = [req EXCEPT ![r] = [pc |-> "find", ip |-> ip, held |-> NoTracker, wait |-> 0]]
  BY DEF Arrive, Step
<1>2. UNCHANGED <<clock, clients, allocated, tracker, granted, split>>
  BY DEF Arrive
<1>3. TypeOK'
  BY <1>1, <1>2 DEF IInv, TypeOK, Request
<1>4. Owned'
  BY <1>1, <1>2 DEF IInv, Owned, At, TypeOK
<1>5. Stamped' /\ Conserved' /\ Budget'
  BY <1>2 DEF IInv, Stamped, Conserved, Budget, Room
<1> QED BY <1>3, <1>4, <1>5 DEF IInv

LEMMA FindKeeps == ASSUME IInv, NEW r \in Requests, Find(r) PROVE IInv'
<1> DEFINE k == clients[req[r].ip]
<1>1. UNCHANGED <<clock, clients, allocated, tracker, granted, split>>
  BY DEF Find
<1>2. req[r] \in Request /\ req[r].ip \in Addresses /\ k \in Trackers \cup {NoTracker}
  BY DEF IInv, TypeOK, Request
<1>3. req' = [req EXCEPT ![r] = IF k # NoTracker THEN [req[r] EXCEPT !.pc = "take", !.held = k]
                                                 ELSE [req[r] EXCEPT !.pc = "make"]]
  BY DEF Find, Hold, Step
<1>4. TypeOK'
  BY <1>1, <1>2, <1>3 DEF IInv, TypeOK, Request
<1>5. Owned'
  <2>1. \A q \in Requests : At(q, "take")' =>
          req'[q].held \in allocated /\ tracker[req'[q].held].ip = req'[q].ip
    BY <1>2, <1>3 DEF IInv, Owned, At, TypeOK, Request
  <2> QED BY <1>1, <2>1 DEF IInv, Owned, At
<1>6. Stamped' /\ Conserved' /\ Budget'
  BY <1>1 DEF IInv, Stamped, Conserved, Budget, Room
<1> QED BY <1>4, <1>5, <1>6 DEF IInv

LEMMA MakeKeeps == ASSUME IInv, NEW r \in Requests, Make(r) PROVE IInv'
<1> DEFINE ip == req[r].ip
<1>1. req[r] \in Request /\ ip \in Addresses /\ clock \in Nat
  BY DEF IInv, TypeOK, Request
<1>2. UNCHANGED <<clock, granted, split>>
  BY DEF Make
<1>3. CASE clients[ip] # NoTracker
  <2>1. UNCHANGED <<clients, allocated, tracker>>
    BY <1>3 DEF Make
  <2>2. req' = [req EXCEPT ![r] = [req[r] EXCEPT !.pc = "take", !.held = clients[ip]]]
    BY <1>3 DEF Make, Hold, Step
  <2>3. TypeOK'
    BY <1>1, <1>2, <1>3, <2>1, <2>2 DEF IInv, TypeOK, Request
  <2>4. \A q \in Requests : At(q, "take")' =>
          req'[q].held \in allocated /\ tracker[req'[q].held].ip = req'[q].ip
    BY <1>1, <1>3, <2>2 DEF IInv, Owned, At, TypeOK, Request
  <2>5. Owned'
    BY <2>1, <2>4 DEF IInv, Owned, At
  <2>6. Stamped' /\ Conserved' /\ Budget'
    BY <1>2, <2>1 DEF IInv, Stamped, Conserved, Budget, Room
  <2> QED BY <2>3, <2>5, <2>6 DEF IInv
<1>4. CASE clients[ip] = NoTracker
  <2>1. PICK k \in Trackers \ allocated :
          /\ tracker' = [tracker EXCEPT ![k] = Fresh(ip)]
          /\ clients' = [clients EXCEPT ![ip] = k]
          /\ allocated' = allocated \cup {k}
          /\ req' = [req EXCEPT ![r] = [req[r] EXCEPT !.pc = "take", !.held = k]]
    BY <1>4 DEF Make, Hold, Step
  <2>2. /\ Fresh(ip) \in Tracker
        /\ Fresh(ip).credits = Capacity /\ Fresh(ip).lastRefill = clock
        /\ Fresh(ip).born = clock /\ Fresh(ip).grants = 0 /\ Fresh(ip).ip = ip
    BY <1>1, FreshFacts
  <2> HIDE DEF ip
  <2>3. tracker'[k] = Fresh(ip) /\ \A h \in allocated : tracker'[h] = tracker[h]
    BY <2>1 DEF IInv, TypeOK
  <2>4. clients'[ip] = k /\ \A a \in Addresses \ {ip} : clients'[a] = clients[a]
    BY <1>1, <2>1 DEF IInv, TypeOK
  <2>5. TypeOK'
    BY <1>1, <1>2, <2>1, <2>2 DEF IInv, TypeOK, Request
  <2>6. Owned'
    <3>1. ASSUME NEW a \in Addresses, clients'[a] # NoTracker
          PROVE  clients'[a] \in allocated' /\ tracker'[clients'[a]].ip = a
      BY <2>1, <2>2, <2>3, <2>4, <3>1 DEF IInv, Owned
    <3>2. ASSUME NEW q \in Requests, At(q, "take")'
          PROVE  req'[q].held \in allocated' /\ tracker'[req'[q].held].ip = req'[q].ip
      <4>1. CASE q = r
        BY <1>1, <2>1, <2>2, <2>3, <4>1 DEF IInv, TypeOK, Request, ip
      <4>2. CASE q # r
        <5>1. req'[q] = req[q]
          BY <2>1, <4>2 DEF IInv, TypeOK
        <5>2. At(q, "take")
          BY <3>2, <5>1 DEF At
        <5>3. req[q].held \in allocated /\ tracker[req[q].held].ip = req[q].ip
          BY <5>2 DEF IInv, Owned
        <5>4. tracker'[req[q].held] = tracker[req[q].held] /\ req[q].held \in allocated'
          BY <2>1, <2>3, <5>3
        <5> QED BY <5>1, <5>3, <5>4
      <4> QED BY <4>1, <4>2
    <3> QED BY <3>1, <3>2 DEF Owned
  <2>7. Stamped'
    BY <1>1, <1>2, <2>1, <2>2, <2>3 DEF IInv, Stamped
  <2>8. Conserved'
    <3>1. TicksPerToken * 0 = 0
      BY ConstantAssumption
    <3>2. TicksPerToken * tracker'[k].grants + tracker'[k].credits
            <= Capacity + (tracker'[k].lastRefill - tracker'[k].born)
      BY <1>1, <2>2, <2>3, <3>1, CapacityType
    <3> QED BY <2>1, <2>3, <3>2 DEF IInv, Conserved
  <2>9. Budget'
    <3>1. ASSUME NEW a \in Addresses \ split PROVE Room(a)'
      <4>1. CASE a = ip
        <5>1. TicksPerToken * granted[a] <= clock /\ TicksPerToken * granted[a] \in Nat
          BY <1>4, <3>1, <4>1, Distribute DEF IInv, Budget, Room, TypeOK, ip
        <5>2. clients'[a] = k /\ k # NoTracker
          BY <2>4, <4>1, ConstantAssumption
        <5>3. TicksPerToken * granted'[a] + tracker'[k].credits <= Capacity + tracker'[k].lastRefill
          BY <1>1, <1>2, <2>2, <2>3, <5>1, CapacityType
        <5> QED BY <5>2, <5>3 DEF Room
      <4>2. CASE a # ip
        <5>1. clients'[a] = clients[a] /\ (clients[a] # NoTracker => tracker'[clients[a]] = tracker[clients[a]])
          BY <2>3, <2>4, <4>2 DEF IInv, Owned
        <5> QED BY <1>2, <3>1, <5>1 DEF IInv, Budget, Room
      <4> QED BY <4>1, <4>2
    <3> QED BY <1>2, <3>1 DEF Budget
  <2> QED BY <2>5, <2>6, <2>7, <2>8, <2>9 DEF IInv
<1> QED BY <1>3, <1>4

LEMMA TakeKeeps == ASSUME IInv, NEW r \in Requests, Take(r) PROVE IInv'
<1> DEFINE ip == req[r].ip
           k  == req[r].held
           pass == Refilled(k) >= TicksPerToken
<1>1. /\ req[r] \in Request /\ ip \in Addresses /\ clock \in Nat
      /\ k \in allocated /\ tracker[k].ip = ip
      /\ k \in Trackers /\ tracker[k] \in Tracker
      /\ tracker[k].lastRefill <= clock /\ tracker[k].born <= tracker[k].lastRefill
  BY DEF IInv, TypeOK, Request, Take, Owned, Stamped
<1>2. /\ tracker' = [tracker EXCEPT ![k] = After(k)]
      /\ granted' = IF pass THEN [granted EXCEPT ![ip] = @ + 1] ELSE granted
      /\ split' = IF clients[ip] # k THEN split \cup {ip} ELSE split
      /\ UNCHANGED <<clock, clients, allocated>>
  BY DEF Take, After
<1>3. \E pc \in {"passed", "refused"}, w \in Nat :
        req' = [req EXCEPT ![r] = [req[r] EXCEPT !.pc = pc, !.held = NoTracker, !.wait = w]]
  <2>1. RetryAfter(Refilled(k)) \in Nat
    BY <1>1, RefillBounds, CapacityType, ConstantAssumption DEF RetryAfter, Most
  <2>2. (IF pass THEN 0 ELSE RetryAfter(Refilled(k))) \in Nat
    BY <2>1
  <2>3. (IF pass THEN "passed" ELSE "refused") \in {"passed", "refused"}
    OBVIOUS
  <2>4. req' = [req EXCEPT ![r] = [req[r] EXCEPT
                  !.pc = IF pass THEN "passed" ELSE "refused", !.held = NoTracker,
                  !.wait = IF pass THEN 0 ELSE RetryAfter(Refilled(k))]]
    BY DEF Take, Step
  <2> QED BY <2>2, <2>3, <2>4
<1>4. PICK pc \in {"passed", "refused"}, w \in Nat :
        req' = [req EXCEPT ![r] = [req[r] EXCEPT !.pc = pc, !.held = NoTracker, !.wait = w]]
  BY <1>3
<1>5. /\ After(k) \in Tracker
      /\ After(k).lastRefill = clock
      /\ After(k).ip = ip
      /\ After(k).born = tracker[k].born
      /\ TicksPerToken * After(k).grants + After(k).credits
           = TicksPerToken * tracker[k].grants + Refilled(k)
      /\ After(k).credits = IF pass THEN Refilled(k) - TicksPerToken ELSE Refilled(k)
  BY <1>1, TakeKeepsSum
<1>6. /\ Refilled(k) \in 0..Capacity /\ Capacity \in Nat /\ TicksPerToken \in Nat
      /\ Refilled(k) <= tracker[k].credits + (clock - tracker[k].lastRefill)
  BY <1>1, RefillBounds, CapacityType, ConstantAssumption
<1> HIDE DEF ip, k, pass
<1>7. tracker'[k] = After(k) /\ \A h \in Trackers \ {k} : tracker'[h] = tracker[h]
  BY <1>1, <1>2 DEF IInv, TypeOK
<1>8. granted' \in [Addresses -> Nat] /\ \A a \in Addresses \ {ip} : granted'[a] = granted[a]
  BY <1>1, <1>2 DEF IInv, TypeOK
<1>9. TypeOK'
  <2>1. req' \in [Requests -> Request]
    BY <1>1, <1>4 DEF IInv, TypeOK, Request
  <2>2. tracker' \in [Trackers -> Tracker] /\ split' \subseteq Addresses
    BY <1>1, <1>2, <1>5 DEF IInv, TypeOK
  <2> QED BY <1>2, <1>8, <2>1, <2>2 DEF IInv, TypeOK
<1>10. Owned'
  <2>1. ASSUME NEW a \in Addresses, clients'[a] # NoTracker
        PROVE  clients'[a] \in allocated' /\ tracker'[clients'[a]].ip = a
    <3>1. clients[a] \in allocated /\ tracker[clients[a]].ip = a /\ clients[a] \in Trackers
      BY <1>2, <2>1 DEF IInv, Owned, TypeOK
    <3> QED BY <1>1, <1>2, <1>5, <1>7, <3>1
  <2>2. ASSUME NEW q \in Requests, At(q, "take")'
        PROVE  req'[q].held \in allocated' /\ tracker'[req'[q].held].ip = req'[q].ip
    <3>1. q # r
      BY <1>1, <1>4, <2>2 DEF At, IInv, TypeOK, Request
    <3>2. req'[q] = req[q]
      BY <1>4, <3>1 DEF IInv, TypeOK
    <3>3. At(q, "take")
      BY <2>2, <3>2 DEF At
    <3>4. req[q].held \in allocated /\ tracker[req[q].held].ip = req[q].ip /\ req[q].held \in Trackers
      BY <3>3 DEF IInv, Owned, TypeOK
    <3> QED BY <1>1, <1>2, <1>5, <1>7, <3>2, <3>4
  <2> QED BY <2>1, <2>2 DEF Owned
<1>11. Stamped'
  <2>1. ASSUME NEW h \in allocated
        PROVE  tracker'[h].born <= tracker'[h].lastRefill /\ tracker'[h].lastRefill <= clock
    <3>1. CASE h = k
      BY <1>1, <1>5, <1>7, <3>1 DEF Tracker
    <3>2. CASE h # k
      BY <1>7, <3>2 DEF IInv, Stamped, TypeOK
    <3> QED BY <3>1, <3>2
  <2> QED BY <1>2, <2>1 DEF Stamped
<1>12. Conserved'
  <2>1. ASSUME NEW h \in allocated
        PROVE  TicksPerToken * tracker'[h].grants + tracker'[h].credits
                 <= Capacity + (tracker'[h].lastRefill - tracker'[h].born)
    <3>1. CASE h = k
      <4>1. TicksPerToken * tracker[k].grants + tracker[k].credits
              <= Capacity + (tracker[k].lastRefill - tracker[k].born)
        BY <1>1 DEF IInv, Conserved
      <4>2. TicksPerToken * tracker[k].grants \in Nat /\ TicksPerToken * After(k).grants \in Nat
        BY <1>1, <1>5, Distribute DEF Tracker
      <4>3. /\ tracker[k].credits \in Nat /\ tracker[k].lastRefill \in Nat /\ tracker[k].born \in Nat
            /\ After(k).credits \in Nat
        BY <1>1, <1>5, <1>6 DEF Tracker
      <4> QED BY <1>1, <1>5, <1>6, <1>7, <3>1, <4>1, <4>2, <4>3
    <3>2. CASE h # k
      BY <1>7, <3>2 DEF IInv, Conserved, TypeOK
    <3> QED BY <3>1, <3>2
  <2> QED BY <1>2, <2>1 DEF Conserved
<1>13. Budget'
  <2>1. ASSUME NEW a \in Addresses \ split' PROVE Room(a)'
    <3>1. a \in Addresses \ split /\ Room(a)
      BY <1>2, <2>1 DEF IInv, Budget
    <3>2. CASE a = ip
      <4>1. clients[ip] = k
        BY <1>2, <2>1, <3>2
      <4>2. k # NoTracker
        BY <1>1, ConstantAssumption
      <4>3. TicksPerToken * granted[ip] + tracker[k].credits <= Capacity + tracker[k].lastRefill
        BY <3>1, <3>2, <4>1, <4>2 DEF Room
      <4>4. /\ granted[ip] \in Nat
            /\ TicksPerToken * granted[ip] \in Nat
            /\ TicksPerToken * (granted[ip] + 1) = TicksPerToken * granted[ip] + TicksPerToken
        BY <1>1, Distribute DEF IInv, TypeOK
      <4>5. granted'[ip] = IF pass THEN granted[ip] + 1 ELSE granted[ip]
        BY <1>1, <1>2 DEF IInv, TypeOK
      <4>6. TicksPerToken * granted'[ip] + After(k).credits = TicksPerToken * granted[ip] + Refilled(k)
        BY <1>5, <1>6, <4>4, <4>5
      <4>7. TicksPerToken * granted'[ip] + After(k).credits <= Capacity + After(k).lastRefill
        <5>1. tracker[k].credits \in Nat /\ tracker[k].lastRefill \in Nat
          BY <1>1 DEF Tracker
        <5> QED BY <1>1, <1>5, <1>6, <4>3, <4>4, <4>6, <5>1
      <4> QED BY <1>2, <1>7, <3>2, <4>1, <4>2, <4>7 DEF Room
    <3>3. CASE a # ip
      <4>1. clients[a] # NoTracker => clients[a] \in Trackers \ {k}
        BY <1>1, <3>1, <3>3 DEF IInv, Owned, TypeOK
      <4>2. clients[a] # NoTracker => tracker'[clients[a]] = tracker[clients[a]]
        BY <1>7, <4>1
      <4> QED BY <1>2, <1>8, <3>1, <3>3, <4>2 DEF Room
    <3> QED BY <3>2, <3>3
  <2> QED BY <2>1 DEF Budget
<1> QED BY <1>9, <1>10, <1>11, <1>12, <1>13 DEF IInv

(* An idle bucket is full by now, so its address has room for another.       *)
LEMMA IdleIsFull ==
  ASSUME IInv, NEW k \in allocated, Idle(k)
  PROVE  Refilled(k) = Capacity /\ Capacity + tracker[k].lastRefill <= clock
<1>1. tracker[k] \in Tracker /\ clock \in Nat
  BY DEF IInv, TypeOK
<1> QED BY <1>1, CapacityType, ConstantAssumption DEF Idle, Refilled, Least, Tracker

LEMMA PruneKeeps == ASSUME IInv, Prune PROVE IInv'
<1>1. /\ UNCHANGED <<clock, allocated, tracker, req, granted, split>>
      /\ \A ip \in Addresses : clients'[ip] \in {clients[ip], NoTracker}
      /\ clients' \in [Addresses -> Trackers \cup {NoTracker}]
  BY DEF Prune, IInv, TypeOK
<1>2. TypeOK'
  BY <1>1 DEF IInv, TypeOK
<1>3. Owned'
  BY <1>1 DEF IInv, Owned, At
<1>4. Stamped' /\ Conserved'
  BY <1>1 DEF IInv, Stamped, Conserved
<1>5. Budget'
  <2>1. ASSUME NEW a \in Addresses \ split PROVE Room(a)'
    <3>1. Room(a)
      BY DEF IInv, Budget
    <3>2. CASE clients'[a] = clients[a]
      BY <1>1, <3>1, <3>2 DEF Room
    <3>3. CASE clients'[a] # clients[a]
      <4>1. clients[a] # NoTracker /\ clients'[a] = NoTracker /\ Idle(clients[a])
        BY <3>3 DEF Prune
      <4>2. clients[a] \in allocated /\ clients[a] \in Trackers
        BY <4>1 DEF IInv, Owned, TypeOK
      <4>3. Capacity + tracker[clients[a]].lastRefill <= clock
        BY <4>1, <4>2, IdleIsFull
      <4>4. tracker[clients[a]] \in Tracker /\ clock \in Nat /\ TicksPerToken * granted[a] \in Nat
        BY <4>2, Distribute DEF IInv, TypeOK
      <4>5. tracker[clients[a]].credits \in Nat /\ tracker[clients[a]].lastRefill \in Nat
        BY <4>4, CapacityType DEF Tracker
      <4>6. TicksPerToken * granted[a] <= clock
        BY <3>1, <4>1, <4>3, <4>4, <4>5, CapacityType DEF Room
      <4> QED BY <1>1, <4>1, <4>6 DEF Room
    <3> QED BY <3>2, <3>3
  <2> QED BY <1>1, <2>1 DEF Budget
<1> QED BY <1>2, <1>3, <1>4, <1>5 DEF IInv

LEMMA TickKeeps == ASSUME IInv, Tick PROVE IInv'
<1>1. /\ clock' = clock + 1 /\ clock < MaxClock /\ clock \in Nat /\ MaxClock \in Nat
      /\ UNCHANGED <<clients, allocated, tracker, req, granted, split>>
  BY ConstantAssumption DEF Tick, IInv, TypeOK
<1>2. TypeOK'
  BY <1>1 DEF IInv, TypeOK
<1>3. Owned' /\ Conserved'
  BY <1>1 DEF IInv, Owned, Conserved, At
<1>4. Stamped'
  BY <1>1 DEF IInv, Stamped, TypeOK, Tracker
<1>5. Budget'
  <2>1. ASSUME NEW a \in Addresses \ split PROVE Room(a)'
    <3>1. Room(a) /\ TicksPerToken * granted[a] \in Nat
      BY Distribute DEF IInv, Budget, TypeOK
    <3> QED BY <1>1, <3>1 DEF Room
  <2> QED BY <1>1, <2>1 DEF Budget
<1> QED BY <1>2, <1>3, <1>4, <1>5 DEF IInv

LEMMA StepKeeps == IInv /\ [Next]_vars => IInv'
<1> SUFFICES ASSUME IInv, [Next]_vars PROVE IInv' OBVIOUS
<1>1. ASSUME NEW r \in Requests, Arrive(r) \/ Find(r) \/ Make(r) \/ Take(r) PROVE IInv'
  BY <1>1, ArriveKeeps, FindKeeps, MakeKeeps, TakeKeeps
<1>2. CASE Prune
  BY <1>2, PruneKeeps
<1>3. CASE Tick
  BY <1>3, TickKeeps
<1>4. CASE UNCHANGED vars
  BY <1>4 DEF vars, IInv, TypeOK, Owned, Stamped, Conserved, Budget, Room, At
<1> QED BY <1>1, <1>2, <1>3, <1>4 DEF Next

------------------------------------------------------------------------------
THEOREM Inductive == Spec => []IInv
BY InitIInv, StepKeeps, PTL DEF Spec

(* The types hold, and with them the bounds of every bucket: never below     *)
(* zero, never above the capacity.                                           *)
THEOREM TypeCorrect == Spec => []TypeOK
<1>1. IInv => TypeOK
  BY DEF IInv
<1> QED BY <1>1, Inductive, PTL

(* No bucket gives out more than it was filled with, for any interleaving of *)
(* the requests that share it.                                               *)
THEOREM ConservedCorrect == Spec => []Conserved
<1>1. IInv => Conserved
  BY DEF IInv
<1> QED BY <1>1, Inductive, PTL

(* An address none of whose requests used a pruned tracker gets one bucket   *)
(* and what one bucket earns, however often its trackers are pruned.         *)
THEOREM BudgetCorrect == Spec => []AddressBudget
<1>1. IInv => AddressBudget
  <2> SUFFICES ASSUME IInv, NEW a \in Addresses \ split
               PROVE  TicksPerToken * granted[a] <= Capacity + clock
    BY DEF AddressBudget
  <2>1. Room(a) /\ TicksPerToken * granted[a] \in Nat /\ clock \in Nat
    BY Distribute DEF IInv, Budget, TypeOK
  <2>2. CASE clients[a] = NoTracker
    BY <2>1, <2>2, CapacityType DEF Room
  <2>3. CASE clients[a] # NoTracker
    <3>1. clients[a] \in allocated /\ tracker[clients[a]] \in Tracker
      BY <2>3 DEF IInv, Owned, TypeOK
    <3>2. tracker[clients[a]].lastRefill <= clock
      BY <3>1 DEF IInv, Stamped
    <3>3. tracker[clients[a]].credits \in Nat /\ tracker[clients[a]].lastRefill \in Nat
      BY <3>1, CapacityType DEF Tracker
    <3> QED BY <2>1, <2>3, <3>2, <3>3, CapacityType DEF Room
  <2> QED BY <2>2, <2>3
<1> QED BY <1>1, Inductive, PTL

(* The map's tracker of an address is only taken away when its bucket would  *)
(* be full: neither pruning nor two requests making one at once gains tokens.*)
THEOREM PruneCorrect == Spec => PruneIsFair
<1>1. IInv /\ [Next]_vars =>
        [\A ip \in Addresses : clients[ip] # NoTracker /\ clients'[ip] # clients[ip]
           => clients'[ip] = NoTracker /\ Refilled(clients[ip]) = Capacity]_vars
  <2> SUFFICES ASSUME IInv, Next, NEW ip \in Addresses,
                      clients[ip] # NoTracker, clients'[ip] # clients[ip]
               PROVE  clients'[ip] = NoTracker /\ Refilled(clients[ip]) = Capacity
    OBVIOUS
  <2>1. ASSUME NEW r \in Requests, Make(r) PROVE FALSE
    BY <2>1 DEF Make, IInv, TypeOK
  <2>2. CASE Prune
    <3>1. clients'[ip] = NoTracker /\ Idle(clients[ip])
      BY <2>2 DEF Prune
    <3>2. clients[ip] \in allocated
      BY DEF IInv, Owned
    <3> QED BY <3>1, <3>2, IdleIsFull
  <2> QED BY <2>1, <2>2 DEF Next, Arrive, Find, Take, Tick
<1> QED BY <1>1, Inductive, PTL DEF Spec, PruneIsFair
=============================================================================
