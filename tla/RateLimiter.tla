----------------------------- MODULE RateLimiter -----------------------------
(***************************************************************************)
(* The token-bucket limiter in front of the API.  A request finds or makes  *)
(* the tracker of its client address under the limiter's lock, lets go of   *)
(* that lock, and then takes a token under the tracker's own lock; a timer  *)
(* prunes idle trackers meanwhile.  Trackers are objects: a request may     *)
(* still hold one the map no longer has.                                    *)
(* Time is counted in ticks.  A token is TicksPerToken credits and a bucket *)
(* earns one credit per tick, so the code's fractions of a token are whole  *)
(* numbers of credits; the rounding of its floats is left out.              *)
(***************************************************************************)
EXTENDS Integers

CONSTANTS Requests,       \* goroutines serving requests
          Addresses,      \* client addresses
          Trackers,       \* clientTracker objects the run can allocate
          Tokens,         \* capacity, in tokens
          TicksPerToken,  \* 1 / refillRate
          TicksPerSecond,
          MaxAge,         \* age beyond which an idle tracker is pruned
          MaxClock,       \* bound on the ticks that pass
          NoTracker, NoAddress

Capacity == Tokens * TicksPerToken

(* Pruning waits 15 minutes, and every bucket fills within one.              *)
ASSUME ConstantAssumption ==
  /\ Tokens \in Nat \ {0} /\ TicksPerToken \in Nat \ {0}
  /\ TicksPerSecond \in Nat \ {0} /\ MaxClock \in Nat
  /\ MaxAge \in Nat /\ MaxAge >= Capacity
  /\ NoTracker \notin Trackers

VARIABLES
  clock,
  clients,    \* the map: [Addresses -> Trackers \cup {NoTracker}]
  allocated,  \* trackers made so far
  tracker,    \* [Trackers -> Tracker]
  req,        \* [Requests -> Request]
  granted,    \* history: requests let through, [Addresses -> Nat]
  split       \* history: addresses that used a tracker not in the map

vars == <<clock, clients, allocated, tracker, req, granted, split>>

Tracker == [credits : 0..Capacity, lastRefill : Nat,
            ip : Addresses \cup {NoAddress},   \* history: the client it was
            born : Nat, grants : Nat]          \* made for, when, tokens taken

Request == [pc : {"idle", "find", "make", "take", "passed", "refused"},
            ip : Addresses, held : Trackers \cup {NoTracker},
            wait : Nat]                        \* retry_after_seconds

Step(r, change) == req' = [req EXCEPT ![r] = change]
At(r, pc)       == req[r].pc = pc

Least(a, b) == IF a < b THEN a ELSE b
Most(a, b)  == IF a > b THEN a ELSE b

(* variant: the refill is not capped                                         *)
RefilledUncapped(k) == tracker[k].credits + (clock - tracker[k].lastRefill)

(* What a bucket holds once refilled for the time that has passed.           *)
Refilled(k) == Least(Capacity, tracker[k].credits + (clock - tracker[k].lastRefill))

Fresh(ip) == [credits |-> Capacity, lastRefill |-> clock, ip |-> ip,
              born |-> clock, grants |-> 0]

------------------------------------------------------------------------------
Arrive(r) ==
  /\ req[r].pc \in {"idle", "passed", "refused"}
  /\ \E ip \in Addresses :
       Step(r, [pc |-> "find", ip |-> ip, held |-> NoTracker, wait |-> 0])
  /\ UNCHANGED <<clock, clients, allocated, tracker, granted, split>>

Hold(r, k) == Step(r, [req[r] EXCEPT !.pc = "take", !.held = k])

(* getClient under the read lock.                                            *)
Find(r) ==
  LET k == clients[req[r].ip] IN
  /\ At(r, "find")
  /\ IF k # NoTracker THEN Hold(r, k) ELSE Step(r, [req[r] EXCEPT !.pc = "make"])
  /\ UNCHANGED <<clock, clients, allocated, tracker, granted, split>>

(* variant: no second look at the map under the write lock                   *)
MakeUnchecked(r) ==
  /\ At(r, "make")
  /\ \E k \in Trackers \ allocated :
       /\ tracker' = [tracker EXCEPT ![k] = Fresh(req[r].ip)]
       /\ clients' = [clients EXCEPT ![req[r].ip] = k]
       /\ allocated' = allocated \cup {k}
       /\ Hold(r, k)
  /\ UNCHANGED <<clock, granted, split>>

(* getClient under the write lock: look again, or make a full bucket.        *)
Make(r) ==
  LET found == clients[req[r].ip] IN
  /\ At(r, "make")
  /\ \/ /\ found # NoTracker
        /\ Hold(r, found)
        /\ UNCHANGED <<clients, allocated, tracker>>
     \/ /\ found = NoTracker
        /\ \E k \in Trackers \ allocated :
             /\ tracker' = [tracker EXCEPT ![k] = Fresh(req[r].ip)]
             /\ clients' = [clients EXCEPT ![req[r].ip] = k]
             /\ allocated' = allocated \cup {k}
             /\ Hold(r, k)
  /\ UNCHANGED <<clock, granted, split>>

(* The wait told to a refused client: whole seconds, cut off, one at least.  *)
RetryAfter(credits) == Most(1, (TicksPerToken - credits) \div TicksPerSecond)

(* variant: the refill is not stamped when a token is taken                  *)
PayUnstamped(k) == [tracker[k] EXCEPT !.credits = Refilled(k) - TicksPerToken,
                                      !.grants = @ + 1]

Pay(k) == [tracker[k] EXCEPT !.credits = Refilled(k) - TicksPerToken,
                             !.lastRefill = clock, !.grants = @ + 1]

Deny(k) == [tracker[k] EXCEPT !.credits = Refilled(k), !.lastRefill = clock]

(* allow under the tracker's lock.                                           *)
Take(r) ==
  LET k    == req[r].held
      ip   == req[r].ip
      pass == Refilled(k) >= TicksPerToken IN
  /\ At(r, "take")
  /\ tracker' = [tracker EXCEPT ![k] = IF pass THEN Pay(k) ELSE Deny(k)]
  /\ granted' = IF pass THEN [granted EXCEPT ![ip] = @ + 1] ELSE granted
  /\ split' = IF clients[ip] # k THEN split \cup {ip} ELSE split
  /\ Step(r, [req[r] EXCEPT !.pc = IF pass THEN "passed" ELSE "refused",
                            !.held = NoTracker,
                            !.wait = IF pass THEN 0 ELSE RetryAfter(Refilled(k))])
  /\ UNCHANGED <<clock, clients, allocated>>

(* variant: a tracker is pruned as soon as it holds a token again            *)
IdleTooSoon(k) == clock - tracker[k].lastRefill > TicksPerToken

Idle(k) == clock - tracker[k].lastRefill > MaxAge

(* pruneClients holds the limiter's lock throughout and each tracker's lock  *)
(* while it looks at it; a request between two trackers could as well have   *)
(* run before or after.                                                      *)
Prune ==
  /\ clients' = [ip \in Addresses |->
       IF clients[ip] # NoTracker /\ Idle(clients[ip]) THEN NoTracker ELSE clients[ip]]
  /\ UNCHANGED <<clock, allocated, tracker, req, granted, split>>

Tick ==
  /\ clock < MaxClock
  /\ clock' = clock + 1
  /\ UNCHANGED <<clients, allocated, tracker, req, granted, split>>

Init ==
  /\ clock = 0
  /\ clients = [ip \in Addresses |-> NoTracker]
  /\ allocated = {}
  /\ tracker = [k \in Trackers |->
       [credits |-> 0, lastRefill |-> 0, ip |-> NoAddress, born |-> 0, grants |-> 0]]
  /\ req \in [Requests -> [pc : {"idle"}, ip : Addresses, held : {NoTracker}, wait : {0}]]
  /\ granted = [ip \in Addresses |-> 0]
  /\ split = {}

Next ==
  \/ \E r \in Requests : Arrive(r) \/ Find(r) \/ Make(r) \/ Take(r)
  \/ Prune
  \/ Tick

Spec == Init /\ [][Next]_vars

------------------------------------------------------------------------------
(* The types of the variables; a bucket never holds a negative number of     *)
(* credits, nor more than its capacity.                                      *)
TypeOK ==
  /\ clock \in 0..MaxClock
  /\ clients \in [Addresses -> Trackers \cup {NoTracker}]
  /\ allocated \subseteq Trackers
  /\ tracker \in [Trackers -> Tracker]
  /\ req \in [Requests -> Request]
  /\ granted \in [Addresses -> Nat]
  /\ split \subseteq Addresses

(* No bucket gives out what it did not have: the tokens taken from a tracker *)
(* and those left in it are at most a full bucket and what it has earned     *)
(* since it was made, whichever requests shared it.                          *)
Conserved ==
  \A k \in allocated :
    TicksPerToken * tracker[k].grants + tracker[k].credits
      <= Capacity + (tracker[k].lastRefill - tracker[k].born)

(* Trackers are not swapped under a client: the map's tracker of an address  *)
(* is only ever taken away, never replaced, and only when its bucket would   *)
(* be full by now, so that the full bucket made next is no gain.             *)
PruneIsFair ==
  [][\A ip \in Addresses : clients[ip] # NoTracker /\ clients'[ip] # clients[ip]
       => clients'[ip] = NoTracker /\ Refilled(clients[ip]) = Capacity]_vars

(* Across all its trackers, an address never gets more than one bucket and   *)
(* what one bucket earns, unless a request used a tracker that was pruned    *)
(* while the request held it.                                                *)
AddressBudget ==
  \A ip \in Addresses \ split : TicksPerToken * granted[ip] <= Capacity + clock

------------------------------------------------------------------------------
(* The comment on the wait: "until at least 1 token is available".  False:   *)
(* the fraction of a second is cut off.                                      *)
WaitSuffices ==
  [][\A r \in Requests : At(r, "take") /\ req'[r].pc = "refused"
       => tracker'[req[r].held].credits + TicksPerSecond * req'[r].wait
            >= TicksPerToken]_vars
==============================================================================
