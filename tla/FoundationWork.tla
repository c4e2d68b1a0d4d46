---------------------------- MODULE FoundationWork ----------------------------
(***************************************************************************)
(* Which entries are foundation work, and how much of all work that is:      *)
(* the classification of the browser (lib/foundationWorkUtils.js), the       *)
(* breakdown printed in the review pack (lib/reviewPackUtils.js) and the     *)
(* count of the server (sql/query.sql, service/team.go), over the same       *)
(* entries of one person, who writes them one after the other.               *)
(***************************************************************************)
EXTENDS Integers, Sequences, FiniteSets

CONSTANTS
  Entries,     \* the entries written, each [category, tags, words]
  MaxEntries   \* bound: entries written

VARIABLE journals   \* the entries of the period, oldest first

(* FOUNDATION_PILLARS, in the order in which they are tried.                 *)
Pillars == <<"debt", "resilience", "mentorship", "governance">>

PillarTags ==
  [debt       |-> {"refactor", "tech-debt", "database", "performance"},
   resilience |-> {"incident", "devops", "infrastructure", "monitoring", "hotfix"},
   mentorship |-> {"mentoring", "onboarding", "code-review", "unblocking", "hiring"},
   governance |-> {"architecture", "security", "compliance", "audit"}]

PillarCategory == [debt |-> "maintenance", resilience |-> "debugging",
                   mentorship |-> "meeting", governance |-> "request"]

(* What an entry without a category of its own falls back to.                *)
Fallback == [maintenance |-> "debt", meeting |-> "mentorship", other |-> "resilience"]

WorkTags   == UNION {PillarTags[p] : p \in DOMAIN PillarTags} \cup {"feature"}
Categories == {"none", "general", "development", "maintenance", "request", "meeting",
               "business_trip", "other"}

(* words are the pillars whose keywords the text of the entry contains.      *)
Entry == [category : Categories, tags : SUBSET WorkTags, words : SUBSET DOMAIN PillarTags]

------------------------------------------------------------------------------
(* classifyJournal.                                                          *)
Matches(e, p) ==
  \/ e.tags \cap PillarTags[p] # {}
  \/ e.category = PillarCategory[p]
  \/ e.category \in {"none", "general", "other"} /\ p \in e.words

(* variant: nothing is caught by its category alone                          *)
MatchedStrictly(e) == {p \in DOMAIN PillarTags : Matches(e, p)}

Matched(e) ==
  LET found == {p \in DOMAIN PillarTags : Matches(e, p)}
  IN  IF found = {} /\ e.category \in DOMAIN Fallback THEN {Fallback[e.category]}
      ELSE found

IsFoundation(e) == Matched(e) # {}

(* primaryPillar: the first one in their order.                              *)
Primary(e, p) ==
  \E k \in DOMAIN Pillars :
    /\ Pillars[k] = p /\ p \in Matched(e)
    /\ \A j \in 1..(k - 1) : Pillars[j] \notin Matched(e)

(* variant: an entry counts for every pillar it matches                      *)
PillarCountOfAll(p) == Cardinality({i \in DOMAIN journals : p \in Matched(journals[i])})

(* calculateFoundationMetrics: an entry counts for the first pillar alone.   *)
PillarCount(p) == Cardinality({i \in DOMAIN journals : Primary(journals[i], p)})

FoundationCount == Cardinality({i \in DOMAIN journals : IsFoundation(journals[i])})

Total == Len(journals)

(* Math.round(x / total * 100), and the truncation of the server.            *)
Rounded(x)   == IF Total = 0 THEN 0 ELSE (200 * x + Total) \div (2 * Total)
Truncated(x) == IF Total = 0 THEN 0 ELSE (100 * x) \div Total

Iwq == Rounded(FoundationCount)

------------------------------------------------------------------------------
(* calculateContributionBreakdown: support work by category alone.           *)
CategoryOf(e) == IF e.category = "none" THEN "general" ELSE e.category

ShadowCategories == {"maintenance", "request", "meeting", "other"}

CategoryCount(c) == Cardinality({i \in DOMAIN journals : CategoryOf(journals[i]) = c})

ShadowCount ==
  Cardinality({i \in DOMAIN journals : CategoryOf(journals[i]) \in ShadowCategories})

------------------------------------------------------------------------------
(* GetUserIWQTrend, GetTeamFoundationStats: a list of tags of their own.     *)
ServerTags ==
  {"mentoring", "refactor", "tech-debt", "incident", "architecture", "infrastructure",
   "security", "performance", "devops", "monitoring", "hotfix", "onboarding",
   "code-review", "unblocking", "compliance", "audit"}

ServerFoundation(e) ==
  e.category \in {"maintenance", "meeting", "other"} \/ e.tags \cap ServerTags # {}

ServerCount == Cardinality({i \in DOMAIN journals : ServerFoundation(journals[i])})

ServerIwq == Truncated(ServerCount)

------------------------------------------------------------------------------
Write ==
  /\ Total < MaxEntries
  /\ \E e \in Entries : journals' = Append(journals, e)

Withdraw == Total > 0 /\ journals' = Tail(journals)

FoundationInit == journals = <<>>
FoundationNext == Write \/ Withdraw

------------------------------------------------------------------------------
(* Every foundation entry is counted under one pillar and no other, so the   *)
(* table of pillars in the pack adds up to the number it is introduced with. *)
PillarsPartition ==
  PillarCount("debt") + PillarCount("resilience") + PillarCount("mentorship")
    + PillarCount("governance") = FoundationCount

(* The share of support work the pack gives by category never exceeds the    *)
(* one it gives by pillar, since every support category belongs to a pillar; *)
(* and nobody is shown less foundation work on the own review page than the  *)
(* manager is shown of the same entries: what the server counts the browser  *)
(* counts too, and the server rounds down.                                   *)
SharesOrdered == ShadowCount <= FoundationCount /\ ServerIwq <= Iwq
==============================================================================
