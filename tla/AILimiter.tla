------------------------------ MODULE AILimiter ------------------------------
(***************************************************************************)
(* POST /api/ai/synthesize for one user: the limiter of                      *)
(* internal/handler/ai.go, which keeps one window per user in memory, the   *)
(* checks of the request, the call to Gemini with its own timeout, and the  *)
(* server's write timeout, after which an answer no longer reaches the      *)
(* browser.  A user may ask from several tabs.                               *)
(***************************************************************************)
EXTENDS Integers, FiniteSets

CONSTANTS
  Tabs,             \* the user's open review pages
  MaxRequests,      \* 6: requests per window
  Window,           \* 60: seconds a window lasts
  Cooldown,         \* 3: seconds between two requests
  WriteTimeout,     \* 15: seconds the server has to write an answer
  UpstreamTimeout,  \* 60: seconds the HTTP client waits for Gemini
  MaxClock,         \* bound: the last second of a run
  NoEntry           \* the user has no entry in the limiter's map

ASSUME LimiterAssumption ==
  /\ MaxRequests \in Nat \ {0}
  /\ Window \in Nat /\ Cooldown \in Nat \ {0}
  /\ WriteTimeout \in Nat /\ UpstreamTimeout \in Nat /\ MaxClock \in Nat
  /\ NoEntry \notin [last : Nat, count : Nat, start : Nat]

VARIABLES
  clock,     \* time.Now(), in seconds
  limit,     \* h.limits[userID]
  call,      \* call[t]: the request of tab t, and how it ended
  granted,   \* history: when a request was let through, since the server started
  previous   \* history: when the window before the current one began

vars == <<clock, limit, call, granted, previous>>

Seconds == 0..MaxClock
Entry   == [last : Seconds, count : 1..MaxRequests, start : Seconds]

(* How a request ends, as the browser tells it: the two refusals of the      *)
(* limiter, a request over the bounds of the handler, a key that is missing  *)
(* or malformed, an error of Gemini, an answer that came too late to be      *)
(* written, a summary.                                                       *)
Outcomes == {"cooldown", "quota", "invalid", "badKey", "failed", "lost", "ok"}
Call     == [pc : {"idle", "sent", "upstream"} \cup Outcomes, since : Seconds]

Finish(t, outcome) == call' = [call EXCEPT ![t].pc = outcome]

------------------------------------------------------------------------------
(* A page asks for a summary, for the first time or again.                   *)
Send(t) ==
  /\ call[t].pc \in {"idle"} \cup Outcomes
  /\ call' = [call EXCEPT ![t].pc = "sent"]
  /\ UNCHANGED <<clock, limit, granted, previous>>

Fresh == [last |-> clock, count |-> 1, start |-> clock]

CoolingDown == clock - limit.last < Cooldown
WindowOver  == clock - limit.start > Window

(* variant: off by one                                                       *)
UsedUpLate == limit.count > MaxRequests

UsedUp == limit.count >= MaxRequests

(* A new window: the first request of a user, or the first one after the     *)
(* window ended.                                                             *)
OpensWindow == limit = NoEntry \/ (~CoolingDown /\ WindowOver)

(* variant: the time of the last request is not kept                         *)
CountedUnstamped ==
  IF OpensWindow THEN Fresh ELSE [limit EXCEPT !.count = limit.count + 1]

(* variant: a new window keeps the beginning of the old one                  *)
CountedSameWindow ==
  IF limit = NoEntry THEN Fresh
  ELSE IF OpensWindow THEN [limit EXCEPT !.count = 1, !.last = clock]
  ELSE [limit EXCEPT !.count = limit.count + 1, !.last = clock]

(* The entry after a request that is let through.                            *)
Counted ==
  IF OpensWindow THEN Fresh
  ELSE [limit EXCEPT !.count = limit.count + 1, !.last = clock]

Refusal == IF CoolingDown THEN "cooldown" ELSE "quota"
Refused == limit # NoEntry /\ (CoolingDown \/ (~WindowOver /\ UsedUp))

(* allowRequest says no: nothing is recorded.                                *)
Refuse(t) ==
  /\ call[t].pc = "sent"
  /\ Refused
  /\ Finish(t, Refusal)
  /\ UNCHANGED <<clock, limit, granted, previous>>

(* allowRequest says yes, and the request is paid for before it is looked    *)
(* at: it may still fail the bounds or the check of the key.                 *)
Allow(t) ==
  /\ call[t].pc = "sent"
  /\ ~Refused
  /\ limit' = Counted
  /\ previous' = IF OpensWindow /\ limit # NoEntry THEN limit.start ELSE previous
  /\ granted' = granted \cup {clock}
  /\ \E pc \in {"invalid", "badKey", "upstream"} :
       call' = [call EXCEPT ![t] = [pc |-> pc, since |-> clock]]
  /\ UNCHANGED clock

(* Gemini answers, or fails, or the client gives up on it; what is written   *)
(* after the write timeout is lost.                                          *)
Answer(t) ==
  /\ call[t].pc = "upstream"
  /\ \E outcome \in {"ok", "failed"} :
       Finish(t, IF clock - call[t].since > WriteTimeout THEN "lost" ELSE outcome)
  /\ UNCHANGED <<clock, limit, granted, previous>>

(* The page is left or reloaded; its request is cancelled.                   *)
Leave(t) ==
  /\ call[t].pc \in {"sent", "upstream"}
  /\ Finish(t, "idle")
  /\ UNCHANGED <<clock, limit, granted, previous>>

(* The server restarts: the map was in memory.                               *)
Restart ==
  /\ limit' = NoEntry
  /\ call' = [t \in Tabs |->
                IF call[t].pc \in {"sent", "upstream"} THEN [call[t] EXCEPT !.pc = "lost"]
                ELSE call[t]]
  /\ granted' = {} /\ previous' = 0
  /\ UNCHANGED clock

(* A second passes; no call to Gemini lasts longer than its timeout.         *)
Tick ==
  /\ clock < MaxClock
  /\ \A t \in Tabs : call[t].pc = "upstream" => clock - call[t].since < UpstreamTimeout
  /\ clock' = clock + 1
  /\ UNCHANGED <<limit, call, granted, previous>>

Init ==
  /\ clock = 0
  /\ limit = NoEntry
  /\ call = [t \in Tabs |-> [pc |-> "idle", since |-> 0]]
  /\ granted = {}
  /\ previous = 0

Next ==
  \/ \E t \in Tabs : Send(t) \/ Refuse(t) \/ Allow(t) \/ Answer(t) \/ Leave(t)
  \/ Restart
  \/ Tick

Spec == Init /\ [][Next]_vars

------------------------------------------------------------------------------
(* Every variable keeps its type; the count never passes the limit.          *)
TypeOK ==
  /\ clock \in Seconds
  /\ limit \in Entry \cup {NoEntry}
  /\ call \in [Tabs -> Call]
  /\ granted \in SUBSET Seconds
  /\ previous \in Seconds

(* Two requests that were let through are a cooldown apart, whatever tabs    *)
(* they came from (ai.go: "Minimum 3 seconds between consecutive requests"). *)
Spaced == \A a, b \in granted : a < b => b - a >= Cooldown

(* How many requests really fit into 60 seconds, wherever these begin: the   *)
(* end of one window and the whole of the next.                              *)
WindowBudget ==
  \A a \in granted :
    Cardinality({b \in granted : a <= b /\ b <= a + Window}) <= 2 * MaxRequests - 1

(* What the comment of allowRequest promises: "a sliding window rate         *)
(* limiter", "Maximum 6 requests per 60-second window".                      *)
SlidingWindow ==
  \A a \in granted :
    Cardinality({b \in granted : a <= b /\ b < a + Window}) <= MaxRequests

==============================================================================
