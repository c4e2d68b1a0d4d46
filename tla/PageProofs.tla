------------------------------ MODULE PageProofs ------------------------------
(***************************************************************************)
(* What the lists, the entry page and the parts of the review page keep, for *)
(* any rows, filters, entries, achievements, periods and bounds: the         *)
(* invariant of each page, as in AppProofs, holds whenever the page is       *)
(* mounted and is kept by each of its steps.                                 *)
(***************************************************************************)
EXTENDS AppProofs, FiniteSetTheorems

(* The pages count as the theorems about finite sets do: each has the        *)
(* operator from the same module.                                            *)
LEMMA SameCount ==
  ASSUME NEW S
  PROVE  /\ Archive!Cardinality(S) = Cardinality(S)
         /\ Calendar!Cardinality(S) = Cardinality(S)
         /\ Foundation!Cardinality(S) = Cardinality(S)
         /\ Packed!Cardinality(S) = Cardinality(S)
BY DEF Archive!Cardinality, Calendar!Cardinality, Foundation!Cardinality,
       Packed!Cardinality, Cardinality

------------------------------------------------------------------------------
(* The journal page.  As long as nothing went amiss, either the one load     *)
(* under way is of the filters on the page, or the list is, and what is      *)
(* still to be fetched, or was, are the details of that list.                *)
Settled(l) ==
  ~l.amiss =>
    \/ /\ l.fetching = {}
       /\ \E k \in Archive!Loads : l.asked = {k} /\ k.by = l.by
    \/ /\ l.asked = {} /\ ~l.loading
       /\ l.entries \in Archive!Loads /\ l.entries.by = l.by
       /\ l.fetching \subseteq {l.entries}
       /\ l.fetching = {} /\ l.by # {} => l.details = l.entries

ListInv(l) == l \in Archive!List /\ Settled(l)

(* A load returns no more than was asked for: no two of the newest rows have *)
(* the same number of newer ones, and each has fewer than the limit.         *)
LEMMA NewestBounded ==
  ASSUME NEW by \in SUBSET Rows
  PROVE  Cardinality(Archive!Newest(by)) <= Limit
<1> DEFINE N == Archive!Newest(by)
           Newer(j) == {k \in by : k > j}
           f == [j \in N |-> Cardinality(Newer(j))]
           T == 0..(Limit - 1)
<1>1. IsFiniteSet(by) /\ by \subseteq Nat /\ Limit \in Nat
  BY FiltersAssumption, FS_Subset
<1>2. IsFiniteSet(N) /\ N \subseteq by
  BY <1>1, FS_Subset DEF Archive!Newest
<1>3. \A j \in by : IsFiniteSet(Newer(j)) /\ Cardinality(Newer(j)) \in Nat
  <2> TAKE j \in by
  <2>1. Newer(j) \in SUBSET by
    OBVIOUS
  <2> QED
    BY <1>1, <2>1, FS_Subset, FS_CardinalityType
<1>4. f \in [N -> T]
  <2>1. \A j \in N : j \in by /\ Cardinality(Newer(j)) < Limit
    <3>1. N = {j \in by : Cardinality(Newer(j)) < Limit}
      <4>1. \A j \in by : Archive!Cardinality(Newer(j)) = Cardinality(Newer(j))
        BY SameCount
      <4>2. N = {j \in by : Archive!Cardinality(Newer(j)) < Limit}
        BY DEF Archive!Newest
      <4> HIDE DEF N, Newer
      <4> QED
        BY <4>1, <4>2
    <3> HIDE DEF N, Newer
    <3> QED
      BY <3>1
  <2>2. \A j \in N : Cardinality(Newer(j)) \in T
    <3> SUFFICES ASSUME NEW j \in N PROVE Cardinality(Newer(j)) \in T
      OBVIOUS
    <3>1. Cardinality(Newer(j)) \in Nat /\ Cardinality(Newer(j)) < Limit
      BY <1>3, <2>1
    <3> DEFINE c == Cardinality(Newer(j))
    <3> HIDE DEF c
    <3>2. c \in Nat /\ c < Limit
      BY <3>1 DEF c
    <3>3. c \in T
      BY <1>1, <3>2
    <3> QED
      BY <3>3 DEF c
  <2> HIDE DEF Newer, N, T
  <2> QED
    BY <2>2
<1>5. \A i, j \in N : i < j => f[j] < f[i]
  <2> SUFFICES ASSUME NEW i \in N, NEW j \in N, i < j PROVE f[j] < f[i]
    OBVIOUS
  <2>1. /\ i \in Nat /\ j \in Nat /\ i \in by /\ j \in by
    BY <1>1, <1>2
  <2>2. j \notin Newer(j) /\ Newer(j) \cup {j} \in SUBSET Newer(i)
    <3>1. \A k \in by : k \in Nat
      BY <1>1
    <3>2. \A k \in Newer(j) \cup {j} : k \in by /\ k > i
      BY <2>1, <3>1
    <3>3. ~(j > j)
      BY <2>1
    <3> QED
      BY <3>2, <3>3
  <2>3. /\ Cardinality(Newer(j) \cup {j}) = Cardinality(Newer(j)) + 1
    BY <1>3, <2>1, <2>2, FS_AddElement
  <2>4. Cardinality(Newer(j) \cup {j}) <= Cardinality(Newer(i))
    BY <1>3, <2>1, <2>2, FS_Subset
  <2>5. f[i] = Cardinality(Newer(i)) /\ f[j] = Cardinality(Newer(j))
    OBVIOUS
  <2>6. Cardinality(Newer(i)) \in Nat /\ Cardinality(Newer(j)) \in Nat
    BY <1>3, <2>1
  <2> HIDE DEF Newer, f
  <2> QED
    BY <2>3, <2>4, <2>5, <2>6
<1>6. IsFiniteSet(T) /\ Cardinality(T) = Limit
  <2>1. 0 \in Int /\ Limit - 1 \in Int
    BY <1>1
  <2>2. Cardinality(T) = IF 0 > Limit - 1 THEN 0 ELSE (Limit - 1) - 0 + 1
    BY <2>1, FS_Interval
  <2> QED
    BY <1>1, <2>1, <2>2, FS_Interval
<1>7. Cardinality(N) \in Nat
  BY <1>2, FS_CardinalityType
<1>8. ASSUME Cardinality(T) < Cardinality(N) PROVE FALSE
  <2>1. PICK x, y \in N : x # y /\ f[x] = f[y]
    <3> HIDE DEF f, N, T
    <3> QED
      BY <1>2, <1>4, <1>6, <1>8, FS_PigeonHole
  <2>2. x \in Nat /\ y \in Nat /\ f[x] \in Int
    <3> HIDE DEF f, N
    <3> QED
      BY <1>1, <1>2, <1>4, <2>1
  <2> HIDE DEF f, N
  <2> QED
    BY <1>5, <2>1, <2>2
<1> HIDE DEF N, T
<1>9. Cardinality(N) <= Limit
  BY <1>1, <1>6, <1>7, <1>8
<1> QED
  BY <1>9 DEF N

LEMMA ChoicesAreRows == Archive!Choices \subseteq SUBSET Rows
BY FiltersAssumption DEF Archive!Choices

LEMMA ListMountedRight == ListInv(Archive!ListMounted)
<1> DEFINE k == [n |-> 1, by |-> Rows]
<1>1. MaxLists \in Nat \ {0}
  BY BoundsAssumption
<1>2. k \in Archive!Loads /\ Rows \in Archive!Choices /\ k.by = Rows
  BY <1>1 DEF Archive!Loads, Archive!Choices
<1>3. Archive!ListMounted =
        [by |-> Rows, mode |-> "gallery", newest |-> 1, asked |-> {k}, loading |-> TRUE,
         entries |-> None, details |-> None, fetching |-> {}, amiss |-> FALSE]
  <2> DEFINE e == [by |-> Rows, mode |-> "gallery", newest |-> 0, asked |-> {},
                   loading |-> TRUE, entries |-> None, details |-> None,
                   fetching |-> {}, amiss |-> FALSE]
  <2>1. /\ e.newest + 1 = 1 /\ e.asked \cup {k} = {k}
        /\ (e.amiss \/ e.asked # {} \/ e.fetching # {}) = FALSE
    OBVIOUS
  <2>2. Archive!ListMounted =
          [e EXCEPT !.by = Rows, !.newest = e.newest + 1, !.loading = TRUE,
             !.asked = e.asked \cup {[n |-> e.newest + 1, by |-> Rows]},
             !.amiss = e.amiss \/ e.asked # {} \/ e.fetching # {}]
    BY DEF Archive!ListMounted, Archive!Asking
  <2> QED
    BY <2>1, <2>2
<1> HIDE DEF k
<1>4. Archive!ListMounted \in Archive!List
  BY <1>1, <1>2, <1>3 DEF Archive!List
<1>5. Settled(Archive!ListMounted)
  BY <1>2, <1>3 DEF Settled
<1> QED
  BY <1>4, <1>5 DEF ListInv

LEMMA FilterKeeps ==
  ASSUME ListInv(list), Archive!Filter
  PROVE  ListInv(list')
<1>1. list \in Archive!List /\ MaxLists \in Nat /\ list.newest < MaxLists
  BY BoundsAssumption DEF ListInv, Archive!Filter
<1>2. PICK by \in Archive!Choices : list' = Archive!Asking(list, by)
  BY DEF Archive!Filter
<1> DEFINE k == [n |-> list.newest + 1, by |-> by]
           n == list.newest + 1
           a == list.asked \cup {k}
           m == list.amiss \/ list.asked # {} \/ list.fetching # {}
<1>3. /\ k \in Archive!Loads /\ k.by = by
      /\ n \in 0..MaxLists /\ m \in BOOLEAN
  BY <1>1 DEF Archive!List, Archive!Loads
<1>4. a \in SUBSET Archive!Loads
  BY <1>1, <1>3 DEF Archive!List
<1>5. list' = [list EXCEPT !.by = by, !.newest = n, !.loading = TRUE, !.asked = a, !.amiss = m]
  BY <1>1, <1>2 DEF Archive!Asking, Archive!List
<1>6. ~m => a = {k} /\ list.fetching = {}
  OBVIOUS
<1> HIDE DEF k, n, a, m
<1>7. /\ list' \in Archive!List
      /\ list'.by = by /\ list'.asked = a /\ list'.amiss = m /\ list'.fetching = list.fetching
  BY <1>1, <1>3, <1>4, <1>5 DEF Archive!List
<1> QED
  BY <1>3, <1>6, <1>7 DEF ListInv, Settled

LEMMA ListAnswersKeeps ==
  ASSUME ListInv(list), Archive!ListAnswers
  PROVE  ListInv(list')
<1>1. list \in Archive!List
  BY DEF ListInv
<1>2. PICK l \in list.asked :
        \/ list' = Archive!ListedNow(l)
        \/ list' = [list EXCEPT !.asked = @ \ {l}, !.loading = FALSE, !.amiss = TRUE]
  BY DEF Archive!ListAnswers
<1> DEFINE a == list.asked \ {l}
           f == IF l.by = {} THEN list.fetching ELSE list.fetching \cup {l}
<1>3. /\ l \in Archive!Loads /\ a \in SUBSET Archive!Loads /\ f \in SUBSET Archive!Loads
  BY <1>1 DEF Archive!List
<1>4. CASE list' = Archive!ListedNow(l)
  <2>1. list' = [list EXCEPT !.asked = a, !.loading = FALSE, !.entries = l, !.fetching = f]
    BY <1>1, <1>4 DEF Archive!ListedNow, Archive!List
  <2>2. ASSUME ~list.amiss
        PROVE  a = {} /\ l.by = list.by /\ f = IF l.by = {} THEN {} ELSE {l}
    BY <2>2 DEF ListInv, Settled
  <2> HIDE DEF a, f
  <2>3. /\ list' \in Archive!List
        /\ list'.asked = a /\ list'.loading = FALSE /\ list'.entries = l /\ list'.fetching = f
        /\ list'.by = list.by /\ list'.amiss = list.amiss
    BY <1>1, <1>3, <2>1 DEF Archive!List
  <2> QED
    BY <1>3, <2>2, <2>3 DEF ListInv, Settled
<1>5. CASE list' = [list EXCEPT !.asked = a, !.loading = FALSE, !.amiss = TRUE]
  <2> HIDE DEF a
  <2>1. list' \in Archive!List /\ list'.amiss
    BY <1>1, <1>3, <1>5 DEF Archive!List
  <2> QED
    BY <2>1 DEF ListInv, Settled
<1> QED
  BY <1>1, <1>2, <1>4, <1>5 DEF Archive!List

LEMMA DetailsArriveKeeps ==
  ASSUME ListInv(list), Archive!DetailsArrive
  PROVE  ListInv(list')
<1>1. list \in Archive!List
  BY DEF ListInv
<1>2. PICK l \in list.fetching :
        list' = [list EXCEPT !.fetching = list.fetching \ {l}, !.details = l]
  BY <1>1 DEF Archive!DetailsArrive, Archive!List
<1> DEFINE f == list.fetching \ {l}
<1>3. l \in Archive!Loads /\ f \in SUBSET Archive!Loads
  BY <1>1 DEF Archive!List
<1>4. ~list.amiss => list.asked = {} /\ l = list.entries /\ f = {}
  BY DEF ListInv, Settled
<1> HIDE DEF f
<1>5. /\ list' \in Archive!List
      /\ list'.asked = list.asked /\ list'.loading = list.loading
      /\ list'.entries = list.entries /\ list'.fetching = f /\ list'.details = l
      /\ list'.by = list.by /\ list'.amiss = list.amiss
  <2>1. l \in Archive!Loads \cup {None}
    BY <1>3
  <2> HIDE DEF Archive!Loads, Archive!Choices
  <2> QED
    BY <1>1, <1>2, <1>3, <2>1 DEF Archive!List, f
<1> QED
  BY <1>4, <1>5 DEF ListInv, Settled

LEMMA ListNextKeeps ==
  ASSUME ListInv(list), Archive!ListNext
  PROVE  ListInv(list')
<1>1. CASE Archive!SwitchView
  <2>1. PICK m \in {"gallery", "list"} : list' = [list EXCEPT !.mode = m]
    BY <1>1 DEF Archive!SwitchView
  <2>2. /\ list' \in Archive!List
        /\ list'.asked = list.asked /\ list'.loading = list.loading
        /\ list'.entries = list.entries /\ list'.details = list.details
        /\ list'.fetching = list.fetching /\ list'.by = list.by /\ list'.amiss = list.amiss
    BY <2>1 DEF ListInv, Archive!List
  <2> QED
    BY <2>2 DEF ListInv, Settled
<1> QED
  BY <1>1, FilterKeeps, ListAnswersKeeps, DetailsArriveKeeps DEF Archive!ListNext

LEMMA ListInvSettles ==
  ASSUME ListInv(list)
  PROVE  Archive!ListSettles
<1> SUFFICES ASSUME ~list.amiss, list.asked = {}, list.fetching = {}
             PROVE  /\ Archive!Shown = Archive!Newest(list.by)
                    /\ Archive!Strip <= Limit
                    /\ \A j \in Archive!Shown : "tags" \in Archive!Card(j)
                    /\ Archive!Screen # "loading"
  BY DEF Archive!ListSettles
<1>1. list \in Archive!List
  BY DEF ListInv
<1>2. /\ ~list.loading /\ list.entries \in Archive!Loads /\ list.entries.by = list.by
      /\ list.by # {} => list.details = list.entries
  BY DEF ListInv, Settled
<1>3. list.entries # None
  <2>1. list.entries \in [n : Nat, by : SUBSET Rows]
    BY <1>2, ChoicesAreRows, BoundsAssumption DEF Archive!Loads
  <2> QED
    BY <2>1, NoneAssumption
<1>4. Archive!Shown = Archive!Newest(list.by)
  BY <1>2, <1>3 DEF Archive!Shown
<1>5. Archive!Strip <= Limit
  <2>1. list.by \in SUBSET Rows
    BY <1>1, ChoicesAreRows DEF Archive!List
  <2> QED
    <3>1. Cardinality(Archive!Newest(list.by)) <= Limit
      BY <2>1, NewestBounded
    <3> QED
      BY <1>4, <3>1, SameCount DEF Archive!Strip
<1>6. ASSUME NEW j \in Archive!Shown PROVE "tags" \in Archive!Card(j)
  <2>1. list.by # {}
    BY <1>4 DEF Archive!Newest
  <2>2. j \in Archive!Detailed
    BY <1>2, <1>3, <1>4, <2>1 DEF Archive!Detailed
  <2> QED
    BY <2>2 DEF Archive!Card
<1>7. Archive!Screen # "loading"
  BY <1>1, <1>2 DEF Archive!Screen, Archive!List
<1> QED
  BY <1>4, <1>5, <1>6, <1>7

------------------------------------------------------------------------------
(* The page of an entry.  As long as nothing is in doubt, one request at     *)
(* most is under way, and it is of the entry of the address.                 *)
WinsIn(v, id) == {w \in Wins : <<id, w>> \in v.linked \/ v.first[w] = id}

Loading(v) ==
  /\ v.loading /\ v.image = None /\ v.calls = {}
  /\ \E l \in Detail!Loads :
       v.loads = {l} /\ l.id = v.id /\ (l.stage = "rest" => v.journal = v.id)

Failed(v) == v.error /\ v.image = None /\ v.calls = {} /\ v.loads = {}

Shows(v) ==
  /\ v.loads = {} /\ v.journal = v.id /\ v.pictures = Pictures[v.id]
  /\ v.image # None => v.image < v.pictures
  /\ \/ v.calls = {} /\ v.wins = WinsIn(v, v.id)
     \/ \E c \in Detail!Calls :
          /\ v.calls = {c} /\ c.id = v.id /\ c.at = v.id
          /\ c.do # "refresh" => v.wins = WinsIn(v, v.id)

Certain(v) == ~v.doubt /\ ~v.gone => Loading(v) \/ Failed(v) \/ Shows(v)

(* A request that changes a link names the achievement.                      *)
Named(c) == c.do \in {"link", "create", "unlink"} => c.win \in Wins

ViewInv(v) == v \in Detail!View /\ (\A c \in v.calls : Named(c)) /\ Certain(v)

LEMMA ViewMountedRight ==
  ASSUME view' \in Detail!ViewMounted
  PROVE  ViewInv(view')
<1>1. PICK id \in Entries, s \in Detail!Archives :
        view' = [id |-> id, newest |-> 1, loading |-> TRUE, error |-> FALSE,
                 loads |-> {[n |-> 1, id |-> id, stage |-> "entry"]},
                 journal |-> None, wins |-> {}, pictures |-> 0, image |-> None,
                 dialog |-> None, chosen |-> None, busy |-> FALSE, calls |-> {},
                 made |-> Made, linked |-> s[1], first |-> s[2], gone |-> FALSE,
                 doubt |-> FALSE]
  BY DEF Detail!ViewMounted
<1> DEFINE l == [n |-> 1, id |-> id, stage |-> "entry"]
<1>2. /\ 1 \in 1..MaxVisits /\ 0 \in Detail!Indexes /\ Made \in SUBSET Wins
      /\ s[1] \in SUBSET (Entries \X Wins) /\ s[2] \in [Wins -> Entries \cup {None}]
  <2>1. 0 \in 0..Pictures[id]
    BY EntriesAssumption
  <2>2. s \in (SUBSET (Entries \X Made)) \X [Wins -> Entries \cup {None}]
    BY DEF Detail!Archives
  <2>3. Made \subseteq Wins
    BY EntriesAssumption
  <2> QED
    BY <2>1, <2>2, <2>3, BoundsAssumption DEF Detail!Indexes
<1>3. l \in Detail!Loads /\ l.id = id /\ l.stage = "entry"
  BY <1>2 DEF Detail!Loads
<1> HIDE DEF l
<1>4. /\ view' \in Detail!View
      /\ view'.loads = {l} /\ view'.id = id /\ view'.loading /\ view'.calls = {}
      /\ view'.image = None
  BY <1>1, <1>2, <1>3 DEF Detail!View, l
<1> QED
  BY <1>3, <1>4 DEF ViewInv, Certain, Loading

LEMMA NavigateKeeps ==
  ASSUME ViewInv(view), Detail!Navigate
  PROVE  ViewInv(view')
<1>1. view \in Detail!View /\ view.newest < MaxVisits /\ MaxVisits \in Nat
  BY BoundsAssumption DEF ViewInv, Detail!Navigate
<1>2. PICK id \in Entries :
        view' = [view EXCEPT !.id = id, !.newest = @ + 1, !.loading = TRUE, !.error = FALSE,
                   !.loads = @ \cup {[n |-> view.newest + 1, id |-> id, stage |-> "entry"]},
                   !.busy = FALSE, !.chosen = None,
                   !.doubt = Detail!Busy \/ view.image # None]
  BY DEF Detail!Navigate
<1> DEFINE l  == [n |-> view.newest + 1, id |-> id, stage |-> "entry"]
           n  == view.newest + 1
           ls == view.loads \cup {l}
           d  == view.loads # {} \/ view.calls # {} \/ view.image # None
<1>3. /\ l \in Detail!Loads /\ l.id = id /\ l.stage = "entry"
      /\ n \in 1..MaxVisits /\ d \in BOOLEAN
  BY <1>1 DEF Detail!View, Detail!Loads
<1>4. /\ ls \in SUBSET Detail!Loads
      /\ ~d => ls = {l} /\ view.calls = {} /\ view.image = None
  BY <1>1, <1>3 DEF Detail!View
<1>5. view' = [view EXCEPT !.id = id, !.newest = n, !.loading = TRUE, !.error = FALSE,
                 !.loads = ls, !.busy = FALSE, !.chosen = None, !.doubt = d]
  BY <1>1, <1>2 DEF Detail!Busy, Detail!View
<1> HIDE DEF l, n, ls, d
<1>6. /\ view' \in Detail!View
      /\ view'.id = id /\ view'.loading /\ view'.loads = ls /\ view'.calls = view.calls
      /\ view'.image = view.image /\ view'.doubt = d
  <2> DEFINE v == [view EXCEPT !.id = id, !.newest = n, !.loading = TRUE, !.error = FALSE,
                     !.loads = ls, !.busy = FALSE, !.chosen = None, !.doubt = d]
  <2>1. v \in Detail!View
    <3> DEFINE w == [view EXCEPT !.id = id, !.newest = n, !.loading = TRUE, !.error = FALSE]
               x == [w EXCEPT !.loads = ls, !.busy = FALSE, !.chosen = None, !.doubt = d]
    <3>1. w \in Detail!View
      BY <1>1, <1>3, ZenonT(60) DEF Detail!View
    <3>2. v = x
      BY <1>1 DEF Detail!View
    <3> HIDE DEF v, w
    <3>3. x \in Detail!View
      BY <1>3, <1>4, <3>1, ZenonT(60) DEF Detail!View
    <3> QED
      BY <3>2, <3>3
  <2>2. /\ v.id = id /\ v.loading /\ v.loads = ls /\ v.calls = view.calls
        /\ v.image = view.image /\ v.doubt = d
    BY <1>1 DEF Detail!View
  <2>3. view' = v
    BY <1>5
  <2> HIDE DEF v
  <2> QED
    BY <2>1, <2>2, <2>3
<1> QED
  BY <1>3, <1>4, <1>6 DEF ViewInv, Certain, Loading

LEMMA EntryArrivesKeeps ==
  ASSUME ViewInv(view), Detail!EntryArrives
  PROVE  ViewInv(view')
<1>1. view \in Detail!View
  BY DEF ViewInv
<1>2. PICK l \in view.loads :
        /\ l.stage = "entry"
        /\ \/ view' = [view EXCEPT !.journal = l.id, !.chosen = None,
                         !.loads = (@ \ {l}) \cup {[l EXCEPT !.stage = "rest"]}]
           \/ view' = [view EXCEPT !.error = TRUE, !.loading = FALSE, !.loads = @ \ {l}]
  BY DEF Detail!EntryArrives
<1> DEFINE r  == [l EXCEPT !.stage = "rest"]
           ls == view.loads \ {l}
           lr == (view.loads \ {l}) \cup {r}
<1>3. /\ l \in Detail!Loads /\ r \in Detail!Loads /\ l.id \in Entries /\ r.id = l.id
      /\ ls \in SUBSET Detail!Loads /\ lr \in SUBSET Detail!Loads
  BY <1>1 DEF Detail!View, Detail!Loads
<1>4. ~view.doubt /\ ~view.gone =>
        /\ view.loading /\ view.image = None /\ view.calls = {}
        /\ ls = {} /\ lr = {r} /\ l.id = view.id
  BY DEF ViewInv, Certain, Loading, Failed, Shows
<1>5. CASE view' = [view EXCEPT !.journal = l.id, !.chosen = None, !.loads = lr]
  <2> HIDE DEF r, lr
  <2>1. /\ view' \in Detail!View
        /\ view'.id = view.id /\ view'.journal = l.id /\ view'.loads = lr
        /\ view'.loading = view.loading /\ view'.calls = view.calls
        /\ view'.image = view.image /\ view'.doubt = view.doubt /\ view'.gone = view.gone
    BY <1>1, <1>3, <1>5 DEF Detail!View
  <2> QED
    BY <1>3, <1>4, <2>1 DEF ViewInv, Certain, Loading
<1>6. CASE view' = [view EXCEPT !.error = TRUE, !.loading = FALSE, !.loads = ls]
  <2> HIDE DEF ls
  <2>1. /\ view' \in Detail!View
        /\ view'.error /\ view'.loads = ls /\ view'.calls = view.calls
        /\ view'.image = view.image /\ view'.doubt = view.doubt /\ view'.gone = view.gone
    BY <1>1, <1>3, <1>6 DEF Detail!View
  <2> QED
    BY <1>4, <2>1 DEF ViewInv, Certain, Failed
<1> QED
  BY <1>1, <1>2, <1>5, <1>6 DEF Detail!View

LEMMA RestArrivesKeeps ==
  ASSUME ViewInv(view), Detail!RestArrives
  PROVE  ViewInv(view')
<1>1. view \in Detail!View
  BY DEF ViewInv
<1>2. PICK l \in view.loads, gotWins \in BOOLEAN, gotPictures \in BOOLEAN :
        /\ l.stage = "rest"
        /\ view' = [view EXCEPT !.loads = @ \ {l}, !.loading = FALSE,
                      !.wins     = IF gotWins THEN Detail!WinsOf(l.id) ELSE @,
                      !.pictures = IF gotPictures THEN Pictures[l.id] ELSE @,
                      !.doubt    = @ \/ ~gotWins \/ ~gotPictures]
  BY DEF Detail!RestArrives
<1> DEFINE ls == view.loads \ {l}
           ws == IF gotWins THEN Detail!WinsOf(l.id) ELSE view.wins
           ps == IF gotPictures THEN Pictures[l.id] ELSE view.pictures
           d  == view.doubt \/ ~gotWins \/ ~gotPictures
<1>3. /\ l.id \in Entries /\ ls \in SUBSET Detail!Loads /\ d \in BOOLEAN
      /\ ws \in SUBSET Wins /\ ps \in Detail!Indexes
  <2>1. l.id \in Entries /\ ls \in SUBSET Detail!Loads
    BY <1>1 DEF Detail!View, Detail!Loads
  <2>2. Pictures[l.id] \in 0..Pictures[l.id]
    BY <2>1, EntriesAssumption
  <2> QED
    BY <1>1, <2>1, <2>2 DEF Detail!View, Detail!WinsOf, Detail!Indexes
<1>4. ~d /\ ~view.gone =>
        /\ view.image = None /\ view.calls = {} /\ ls = {} /\ view.journal = view.id
        /\ ws = WinsIn(view, view.id) /\ ps = Pictures[view.id]
  BY <1>2 DEF ViewInv, Certain, Loading, Failed, Shows, Detail!WinsOf, WinsIn
<1>5. view' = [view EXCEPT !.loads = ls, !.loading = FALSE, !.wins = ws, !.pictures = ps,
                 !.doubt = d]
  BY <1>1, <1>2 DEF Detail!View
<1> HIDE DEF ls, ws, ps, d
<1>6. /\ view' \in Detail!View
      /\ view'.id = view.id /\ view'.journal = view.journal /\ view'.loads = ls
      /\ view'.wins = ws /\ view'.pictures = ps /\ view'.doubt = d
      /\ view'.calls = view.calls /\ view'.image = view.image /\ view'.gone = view.gone
      /\ view'.linked = view.linked /\ view'.first = view.first
  BY <1>1, <1>3, <1>5 DEF Detail!View
<1> QED
  BY <1>4, <1>6 DEF ViewInv, Certain, Shows, WinsIn

LEMMA IdleShows ==
  ASSUME NEW v, Shows(v), v.calls = {}
  PROVE  v.wins = WinsIn(v, v.id)
<1>1. \A c : v.calls # {c}
  OBVIOUS
<1>2. \/ v.calls = {} /\ v.wins = WinsIn(v, v.id)
      \/ \E c \in Detail!Calls : v.calls = {c}
  BY DEF Shows
<1> QED
  BY <1>1, <1>2

(* What changes neither the entry shown nor any request changes nothing.     *)
LEMMA DialogKeeps ==
  ASSUME ViewInv(view), NEW d \in {"link", "confirm", None}, NEW w \in Wins \cup {None},
         view' = [view EXCEPT !.dialog = d, !.chosen = w]
  PROVE  ViewInv(view')
<1>1. view \in Detail!View
  BY DEF ViewInv
<1>2. /\ view' \in Detail!View
      /\ view'.id = view.id /\ view'.journal = view.journal /\ view'.loads = view.loads
      /\ view'.wins = view.wins /\ view'.pictures = view.pictures /\ view'.doubt = view.doubt
      /\ view'.calls = view.calls /\ view'.image = view.image /\ view'.gone = view.gone
      /\ view'.linked = view.linked /\ view'.first = view.first
      /\ view'.loading = view.loading /\ view'.error = view.error
  BY <1>1 DEF Detail!View
<1>3. Certain(view')
  BY <1>2 DEF ViewInv, Certain, Loading, Failed, Shows, WinsIn
<1> QED
  BY <1>2, <1>3 DEF ViewInv

LEMMA ImageKeeps ==
  ASSUME ViewInv(view), NEW i \in Detail!Indexes \cup {None},
         i # None => i < view.pictures,
         i # None => view.image # None \/ ~(view.loading \/ view.error),
         view' = [view EXCEPT !.image = i]
  PROVE  ViewInv(view')
<1>1. view \in Detail!View
  BY DEF ViewInv
<1>2. /\ view' \in Detail!View
      /\ view'.id = view.id /\ view'.journal = view.journal /\ view'.loads = view.loads
      /\ view'.wins = view.wins /\ view'.pictures = view.pictures /\ view'.doubt = view.doubt
      /\ view'.calls = view.calls /\ view'.image = i /\ view'.gone = view.gone
      /\ view'.linked = view.linked /\ view'.first = view.first
      /\ view'.loading = view.loading /\ view'.error = view.error
  BY <1>1 DEF Detail!View
<1>3. Certain(view')
  <2> SUFFICES ASSUME ~view.doubt, ~view.gone
               PROVE  Loading(view') \/ Failed(view') \/ Shows(view')
    BY <1>2 DEF Certain
  <2>1. CASE Shows(view)
    BY <1>2, <2>1 DEF Shows, WinsIn
  <2>2. CASE Loading(view)
    BY <1>2, <2>2 DEF Loading
  <2>3. CASE Failed(view)
    BY <1>2, <2>3 DEF Failed
  <2> QED
    BY <2>1, <2>2, <2>3 DEF ViewInv, Certain
<1> QED
  BY <1>2, <1>3 DEF ViewInv

(* The lightbox turns round at both ends.                                    *)
LEMMA TurnsRound ==
  ASSUME NEW n \in Nat, n # 0, NEW i \in Nat, NEW step \in {1, n - 1}
  PROVE  (i + step + n) % n \in 0..(n - 1)
<1>1. i + step + n \in Nat
  OBVIOUS
<1> QED
  BY <1>1

LEMMA ImagesKeep ==
  ASSUME ViewInv(view), Detail!OpenImage \/ Detail!TurnImage \/ Detail!CloseImage
  PROVE  ViewInv(view')
<1>1. view \in Detail!View
  BY DEF ViewInv
<1>2. \A i \in Detail!Indexes : i \in Nat
  BY EntriesAssumption DEF Detail!Indexes
<1>3. CASE Detail!OpenImage
  <2>1. PICK i \in Detail!Indexes : i < view.pictures /\ view' = [view EXCEPT !.image = i]
    BY <1>3 DEF Detail!OpenImage
  <2> QED
    BY <1>3, <2>1, ImageKeeps DEF Detail!OpenImage, Detail!Plain, Detail!Visible
<1>4. CASE Detail!TurnImage
  <2>1. PICK step \in {1, view.pictures - 1} : view' = [view EXCEPT !.image = Detail!Turned(step)]
    BY <1>4 DEF Detail!TurnImage
  <2> DEFINE i == Detail!Turned(step)
  <2>2. /\ view.image # None /\ view.image \in Nat /\ view.pictures \in Nat
        /\ view.pictures \in Detail!Indexes
    BY <1>1, <1>2, <1>4 DEF Detail!View, Detail!TurnImage
  <2>3. CASE view.pictures = 0
    BY <2>1, <2>3, ImageKeeps DEF Detail!Turned
  <2>4. CASE view.pictures # 0
    <3>1. i = (view.image + step + view.pictures) % view.pictures
      BY <2>4 DEF Detail!Turned
    <3>2. i \in 0..(view.pictures - 1)
      BY <2>2, <2>4, <3>1, TurnsRound
    <3>3. PICK e \in Entries : view.pictures \in 0..Pictures[e]
      BY <2>2 DEF Detail!Indexes
    <3>4. i \in 0..Pictures[e] /\ i < view.pictures
      BY <2>2, <3>2, <3>3, EntriesAssumption
    <3>5. i \in Detail!Indexes
      BY <3>4 DEF Detail!Indexes
    <3>6. view' = [view EXCEPT !.image = i]
      BY <2>1
    <3> HIDE DEF i
    <3>7. PICK j \in Detail!Indexes : j < view.pictures /\ view' = [view EXCEPT !.image = j]
      BY <3>4, <3>5, <3>6
    <3> QED
      BY <2>2, <3>7, ImageKeeps
  <2> QED
    BY <2>3, <2>4
<1>5. CASE Detail!CloseImage
  BY <1>5, ImageKeeps DEF Detail!CloseImage
<1> QED
  BY <1>3, <1>4, <1>5

LEMMA DialogsKeep ==
  ASSUME ViewInv(view),
         \/ Detail!OpenLink \/ Detail!ChooseWin \/ Detail!CloseLink
         \/ Detail!OpenConfirm \/ Detail!CloseConfirm
  PROVE  ViewInv(view')
<1>1. view \in Detail!View
  BY DEF ViewInv
<1>2. PICK d \in {"link", "confirm", None}, w \in Wins \cup {None} :
        view' = [view EXCEPT !.dialog = d, !.chosen = w]
  <2>1. view.dialog \in {"link", "confirm", None} /\ view.chosen \in Wins \cup {None}
    BY <1>1 DEF Detail!View
  <2>2. /\ \A d : [view EXCEPT !.dialog = d] = [view EXCEPT !.dialog = d, !.chosen = view.chosen]
        /\ \A w : [view EXCEPT !.chosen = w] = [view EXCEPT !.dialog = view.dialog, !.chosen = w]
    BY <1>1 DEF Detail!View
  <2>3. CASE Detail!ChooseWin
    <3>1. PICK w \in view.made : view' = [view EXCEPT !.chosen = w]
      BY <2>3 DEF Detail!ChooseWin
    <3>2. w \in Wins
      BY <1>1, <3>1 DEF Detail!View
    <3> QED
      BY <2>1, <2>2, <3>1, <3>2
  <2>4. CASE Detail!OpenLink
    BY <2>4 DEF Detail!OpenLink
  <2>5. CASE Detail!CloseLink \/ Detail!OpenConfirm \/ Detail!CloseConfirm
    BY <2>1, <2>2, <2>5 DEF Detail!CloseLink, Detail!OpenConfirm, Detail!CloseConfirm
  <2> QED
    BY <2>3, <2>4, <2>5
<1> QED
  BY <1>2, DialogKeeps

(* A request is sent from the entry shown; while another is under way, that  *)
(* puts in doubt what comes of them.                                         *)
LEMMA SentKeeps ==
  ASSUME ViewInv(view), Detail!Visible, NEW c \in Detail!Calls, NEW b \in BOOLEAN,
         c.id \in {view.id, view.journal}, c.at = view.id, c.do # "refresh", Named(c),
         view' = [Detail!Sent(c) EXCEPT !.busy = b]
  PROVE  ViewInv(view')
<1>1. view \in Detail!View
  BY DEF ViewInv
<1> DEFINE cs == view.calls \cup {c}
           d  == view.doubt \/ view.loads # {} \/ view.calls # {}
<1>2. cs \in SUBSET Detail!Calls /\ d \in BOOLEAN /\ (\A k \in cs : Named(k))
  BY <1>1 DEF ViewInv, Detail!View
<1>3. ~d => ~view.doubt /\ cs = {c} /\ view.loads = {} /\ view.calls = {}
  OBVIOUS
<1>4. view' = [view EXCEPT !.calls = cs, !.doubt = d, !.busy = b]
  BY <1>1 DEF Detail!Sent, Detail!Busy, Detail!View
<1> HIDE DEF cs, d
<1>5. /\ view' \in Detail!View
      /\ view'.id = view.id /\ view'.journal = view.journal /\ view'.loads = view.loads
      /\ view'.wins = view.wins /\ view'.pictures = view.pictures /\ view'.doubt = d
      /\ view'.calls = cs /\ view'.image = view.image /\ view'.gone = view.gone
      /\ view'.linked = view.linked /\ view'.first = view.first
  <2> DEFINE v == [view EXCEPT !.calls = cs, !.doubt = d, !.busy = b]
  <2>1. v \in Detail!View
    BY <1>1, <1>2, ZenonT(60) DEF Detail!View
  <2>2. /\ v.id = view.id /\ v.journal = view.journal /\ v.loads = view.loads
        /\ v.wins = view.wins /\ v.pictures = view.pictures /\ v.doubt = d
    BY <1>1 DEF Detail!View
  <2>3. /\ v.calls = cs /\ v.image = view.image /\ v.gone = view.gone
        /\ v.linked = view.linked /\ v.first = view.first
    BY <1>1 DEF Detail!View
  <2>4. view' = v
    BY <1>4
  <2> HIDE DEF v
  <2> QED
    BY <2>1, <2>2, <2>3, <2>4
<1>6. ASSUME ~d, ~view.gone PROVE Shows(view')
  <2>1. Shows(view)
    BY <1>3, <1>6 DEF ViewInv, Certain, Loading, Failed, Detail!Visible
  <2>2. c.id = view.id /\ view.wins = WinsIn(view, view.id)
    <3>1. view.journal = view.id /\ view.calls = {}
      BY <1>3, <1>6, <2>1 DEF Shows
    <3> QED
      BY <2>1, <3>1, IdleShows
  <2>3. WinsIn(view', view'.id) = WinsIn(view, view.id)
    BY <1>5 DEF WinsIn
  <2> QED
    BY <1>3, <1>5, <1>6, <2>1, <2>2, <2>3 DEF Shows
<1> QED
  BY <1>2, <1>5, <1>6 DEF ViewInv, Certain

LEMMA SendsKeep ==
  ASSUME ViewInv(view),
         Detail!LinkExisting \/ Detail!CreateNew \/ Detail!Unlink \/ Detail!Delete
  PROVE  ViewInv(view')
<1>1. view \in Detail!View /\ view.busy \in BOOLEAN /\ view.id \in Entries
      /\ view.journal \in Entries \cup {None} /\ view.chosen \in Wins \cup {None}
      /\ view.wins \in SUBSET Wins
  BY DEF ViewInv, Detail!View
<1>2. \A c : Detail!Sent(c) = [Detail!Sent(c) EXCEPT !.busy = view.busy]
  BY <1>1 DEF Detail!Sent, Detail!View
<1>3. CASE Detail!LinkExisting
  <2> DEFINE c == [do |-> "link", id |-> view.journal, at |-> view.id, win |-> view.chosen]
  <2>1. /\ c \in Detail!Calls /\ c.id = view.journal /\ c.at = view.id
        /\ c.do # "refresh" /\ Named(c)
        /\ Detail!Visible /\ view' = [Detail!Sent(c) EXCEPT !.busy = TRUE]
    BY <1>1, <1>3 DEF Detail!LinkExisting, Detail!Visible, Detail!Calls, Named
  <2> HIDE DEF c
  <2> QED
    BY <2>1, SentKeeps
<1>4. CASE Detail!CreateNew
  <2>1. PICK w \in Wins :
          view' = [Detail!Sent([do |-> "create", id |-> view.journal, at |-> view.id, win |-> w])
                     EXCEPT !.busy = TRUE]
    BY <1>4 DEF Detail!CreateNew
  <2> DEFINE c == [do |-> "create", id |-> view.journal, at |-> view.id, win |-> w]
  <2>2. /\ c \in Detail!Calls /\ c.id = view.journal /\ c.at = view.id
        /\ c.do # "refresh" /\ Named(c)
        /\ Detail!Visible /\ view' = [Detail!Sent(c) EXCEPT !.busy = TRUE]
    BY <1>1, <1>4, <2>1 DEF Detail!CreateNew, Detail!Visible, Detail!Calls, Named
  <2> HIDE DEF c
  <2> QED
    BY <2>2, SentKeeps
<1>5. CASE Detail!Unlink
  <2>1. PICK w \in view.wins : view' = Detail!Sent([do |-> "unlink", id |-> view.id, at |-> view.id, win |-> w])
    BY <1>5 DEF Detail!Unlink
  <2> DEFINE c == [do |-> "unlink", id |-> view.id, at |-> view.id, win |-> w]
  <2>2. /\ c \in Detail!Calls /\ c.id = view.id /\ c.at = view.id
        /\ c.do # "refresh" /\ Named(c)
        /\ Detail!Visible /\ view' = Detail!Sent(c)
    BY <1>1, <1>5, <2>1 DEF Detail!Unlink, Detail!Plain, Detail!Visible, Detail!Calls, Named
  <2> HIDE DEF c
  <2> QED
    BY <1>1, <1>2, <2>2, SentKeeps
<1>6. CASE Detail!Delete
  <2> DEFINE c == [do |-> "delete", id |-> view.journal, at |-> view.id, win |-> None]
  <2>1. /\ c \in Detail!Calls /\ c.id = view.journal /\ c.at = view.id
        /\ c.do # "refresh" /\ Named(c)
        /\ Detail!Visible /\ view' = Detail!Sent(c)
    BY <1>1, <1>6 DEF Detail!Delete, Detail!Visible, Detail!Calls, Named
  <2> HIDE DEF c
  <2> QED
    BY <1>1, <1>2, <2>1, SentKeeps
<1> QED
  BY <1>3, <1>4, <1>5, <1>6

(* With one request under way and nothing in doubt, the answer is to it.     *)
LEMMA OneCall ==
  ASSUME ViewInv(view), NEW c \in view.calls, ~view.doubt, ~view.gone
  PROVE  /\ view.loads = {} /\ view.journal = view.id /\ view.pictures = Pictures[view.id]
         /\ view.image # None => view.image < view.pictures
         /\ view.calls = {c} /\ c.id = view.id /\ c.at = view.id
         /\ c.do # "refresh" => view.wins = WinsIn(view, view.id)
<1>1. Shows(view)
  BY DEF ViewInv, Certain, Loading, Failed
<1> QED
  BY <1>1 DEF Shows

LEMMA LinkAnswersKeeps ==
  ASSUME ViewInv(view), Detail!LinkAnswers
  PROVE  ViewInv(view')
<1>1. view \in Detail!View
  BY DEF ViewInv
<1> DEFINE Idle(c)   == [view EXCEPT !.calls = @ \ {c}, !.busy = FALSE]
           Linked(c) == [Idle(c) EXCEPT !.made = @ \cup {c.win}, !.linked = @ \cup {<<c.id, c.win>>},
                           !.first[c.win] = IF c.do = "create" THEN c.id ELSE @]
<1>2. PICK c \in view.calls :
        /\ c.do \in {"link", "create"}
        /\ \/ view' = [Linked(c) EXCEPT !.calls = @ \cup Detail!Refreshed(c),
                         !.dialog = IF @ = "link" THEN None ELSE @]
           \/ view' = Idle(c)
           \/ view' = [Linked(c) EXCEPT !.doubt = TRUE]
  BY DEF Detail!LinkAnswers
<1> DEFINE cs == view.calls \ {c}
           k  == [c EXCEPT !.do = "refresh", !.id = c.at, !.win = None]
           m  == view.made \cup {c.win}
           ln == view.linked \cup {<<c.id, c.win>>}
           f  == [view.first EXCEPT ![c.win] = IF c.do = "create" THEN c.id ELSE @]
           g  == IF view.dialog = "link" THEN None ELSE view.dialog
<1>3. /\ c \in Detail!Calls /\ c.id \in Entries /\ c.at \in Entries
      /\ c.win \in Wins /\ c.do # "refresh"
  BY <1>1, <1>2 DEF Detail!View, Detail!Calls, ViewInv, Named
<1>4. /\ cs \in SUBSET Detail!Calls /\ k \in Detail!Calls /\ k.id = c.at /\ k.at = c.at /\ k.do = "refresh"
      /\ m \in SUBSET Wins /\ ln \in SUBSET (Entries \X Wins)
      /\ f \in [Wins -> Entries \cup {None}] /\ g \in {"link", "confirm", None}
  <2>1. c.id \in Entries \cup {None} /\ view.first \in [Wins -> Entries \cup {None}]
    BY <1>1, <1>3 DEF Detail!View
  <2>2. f \in [Wins -> Entries \cup {None}]
    BY <2>1, <1>3
  <2>3. k \in Detail!Calls /\ k.id = c.at /\ k.at = c.at /\ k.do = "refresh"
    BY <1>3 DEF Detail!Calls
  <2>4. ln \in SUBSET (Entries \X Wins) /\ m \in SUBSET Wins
    BY <1>1, <1>3 DEF Detail!View
  <2>5. cs \in SUBSET Detail!Calls /\ g \in {"link", "confirm", None}
    BY <1>1 DEF Detail!View
  <2> QED
    BY <2>2, <2>3, <2>4, <2>5
<1>5. \A x \in cs : Named(x)
  BY DEF ViewInv
<1>6. Named(k)
  BY <1>4 DEF Named
<1>7. CASE view' = Idle(c)
  <2>1. view' = [view EXCEPT !.calls = cs, !.busy = FALSE]
    BY <1>1, <1>7 DEF Detail!View
  <2>2. ~view.doubt /\ ~view.gone => cs = {}
    BY OneCall
  <2> HIDE DEF cs
  <2>3. /\ view' \in Detail!View
        /\ view'.id = view.id /\ view'.journal = view.journal /\ view'.loads = view.loads
        /\ view'.wins = view.wins /\ view'.pictures = view.pictures /\ view'.doubt = view.doubt
        /\ view'.calls = cs /\ view'.image = view.image /\ view'.gone = view.gone
        /\ view'.linked = view.linked /\ view'.first = view.first
    BY <1>1, <1>4, <2>1 DEF Detail!View
  <2>4. ~view.doubt /\ ~view.gone => Shows(view')
    BY <1>3, <2>2, <2>3, OneCall DEF Shows, WinsIn
  <2> QED
    BY <1>5, <2>3, <2>4 DEF ViewInv, Certain
<1>8. CASE view' = [Linked(c) EXCEPT !.calls = @ \cup Detail!Refreshed(c),
                      !.dialog = IF @ = "link" THEN None ELSE @]
  <2> DEFINE cr == cs \cup {k}
  <2>1. view' = [view EXCEPT !.calls = cr, !.busy = FALSE, !.made = m, !.linked = ln,
                   !.first = f, !.dialog = g]
    <3>1. Detail!Refreshed(c) = {k}
      BY DEF Detail!Refreshed
    <3> DEFINE w == [view EXCEPT !.calls = cs, !.busy = FALSE, !.made = m, !.linked = ln,
                       !.first = f]
    <3>2. Linked(c) = w
      BY <1>1 DEF Detail!View
    <3>3. w.calls = cs /\ w.dialog = view.dialog
      BY <1>1 DEF Detail!View
    <3>4. view' = [w EXCEPT !.calls = cr, !.dialog = g]
      <4> HIDE DEF w, cs, k
      <4> QED
        BY <1>8, <3>1, <3>2, <3>3
    <3> HIDE DEF cr, m, ln, f, g, cs
    <3> QED
      BY <1>1, <3>4 DEF Detail!View
  <2>2. ~view.doubt /\ ~view.gone => cr = {k}
    BY OneCall
  <2>3. cr \in SUBSET Detail!Calls /\ \A x \in cr : Named(x)
    BY <1>4, <1>5, <1>6
  <2> HIDE DEF cr, k, m, ln, f, g
  <2>4. /\ view' \in Detail!View
        /\ view'.id = view.id /\ view'.journal = view.journal /\ view'.loads = view.loads
        /\ view'.pictures = view.pictures /\ view'.doubt = view.doubt
        /\ view'.calls = cr /\ view'.image = view.image /\ view'.gone = view.gone
    <3> DEFINE v == [view EXCEPT !.calls = cr, !.busy = FALSE, !.made = m, !.linked = ln,
                       !.first = f, !.dialog = g]
    <3>1. v \in Detail!View
      BY <1>1, <1>4, <2>3, ZenonT(60) DEF Detail!View
    <3>2. /\ v.id = view.id /\ v.journal = view.journal /\ v.loads = view.loads
          /\ v.pictures = view.pictures /\ v.doubt = view.doubt
          /\ v.calls = cr /\ v.image = view.image /\ v.gone = view.gone
      BY <1>1 DEF Detail!View
    <3> HIDE DEF v
    <3> QED
      BY <2>1, <3>1, <3>2 DEF v
  <2>5. ~view.doubt /\ ~view.gone => Shows(view')
    BY <1>4, <2>2, <2>4, OneCall DEF Shows
  <2> QED
    BY <2>3, <2>4, <2>5 DEF ViewInv, Certain
<1>9. CASE view' = [Linked(c) EXCEPT !.doubt = TRUE]
  <2>1. view' = [view EXCEPT !.calls = cs, !.busy = FALSE, !.made = m, !.linked = ln,
                   !.first = f, !.doubt = TRUE]
    BY <1>1, <1>9 DEF Detail!View
  <2> HIDE DEF cs, m, ln, f
  <2>2. view' \in Detail!View
    BY <1>1, <1>4, <2>1, ZenonT(60) DEF Detail!View
  <2>3. view'.calls = cs /\ view'.doubt
    BY <1>1, <2>1 DEF Detail!View
  <2> QED
    BY <1>5, <2>2, <2>3 DEF ViewInv, Certain
<1> QED
  BY <1>2, <1>7, <1>8, <1>9

LEMMA RefreshAnswersKeeps ==
  ASSUME ViewInv(view), Detail!RefreshAnswers
  PROVE  ViewInv(view')
<1>1. view \in Detail!View
  BY DEF ViewInv
<1>2. PICK c \in view.calls :
        \/ view' = [view EXCEPT !.calls = view.calls \ {c}, !.wins = Detail!WinsOf(c.id)]
        \/ view' = [view EXCEPT !.calls = view.calls \ {c}, !.doubt = TRUE]
  BY <1>1 DEF Detail!RefreshAnswers, Detail!View
<1> DEFINE cs == view.calls \ {c}
           ws == Detail!WinsOf(c.id)
<1>3. /\ cs \in SUBSET Detail!Calls /\ ws \in SUBSET Wins /\ (\A x \in cs : Named(x))
      /\ ws = WinsIn(view, c.id)
  BY <1>1 DEF Detail!View, Detail!WinsOf, ViewInv, WinsIn
<1>4. ~view.doubt /\ ~view.gone => cs = {}
  BY OneCall
<1>5. CASE view' = [view EXCEPT !.calls = cs, !.wins = ws]
  <2> HIDE DEF cs, ws
  <2>1. /\ view' \in Detail!View
        /\ view'.id = view.id /\ view'.journal = view.journal /\ view'.loads = view.loads
        /\ view'.wins = ws /\ view'.pictures = view.pictures /\ view'.doubt = view.doubt
        /\ view'.calls = cs /\ view'.image = view.image /\ view'.gone = view.gone
        /\ view'.linked = view.linked /\ view'.first = view.first
    BY <1>1, <1>3, <1>5 DEF Detail!View
  <2>2. ~view.doubt /\ ~view.gone => Shows(view')
    BY <1>3, <1>4, <2>1, OneCall DEF Shows, WinsIn
  <2> QED
    BY <1>3, <2>1, <2>2 DEF ViewInv, Certain
<1>6. CASE view' = [view EXCEPT !.calls = cs, !.doubt = TRUE]
  <2> HIDE DEF cs
  <2>1. view' \in Detail!View /\ view'.calls = cs /\ view'.doubt
    BY <1>1, <1>3, <1>6 DEF Detail!View
  <2> QED
    BY <1>3, <2>1 DEF ViewInv, Certain
<1> QED
  BY <1>2, <1>5, <1>6

(* What the page drops is what the server dropped, unless the entry was the  *)
(* achievement's first one, of which the server keeps the name.              *)
LEMMA UnlinkAnswersKeeps ==
  ASSUME ViewInv(view), Detail!UnlinkAnswers
  PROVE  ViewInv(view')
<1>1. view \in Detail!View
  BY DEF ViewInv
<1>2. PICK c \in view.calls :
        /\ c.do = "unlink"
        /\ \/ view' = [view EXCEPT !.calls = view.calls \ {c},
                         !.linked = view.linked \ {<<c.id, c.win>>},
                         !.wins = view.wins \ {c.win},
                         !.doubt = view.doubt \/ view.first[c.win] = c.id]
           \/ view' = [view EXCEPT !.calls = view.calls \ {c}]
           \/ view' = [view EXCEPT !.calls = view.calls \ {c},
                         !.linked = view.linked \ {<<c.id, c.win>>}, !.doubt = TRUE]
  BY <1>1 DEF Detail!UnlinkAnswers, Detail!View
<1> DEFINE cs == view.calls \ {c}
           ln == view.linked \ {<<c.id, c.win>>}
           ws == view.wins \ {c.win}
           d  == view.doubt \/ view.first[c.win] = c.id
<1>3. /\ cs \in SUBSET Detail!Calls /\ ws \in SUBSET Wins /\ (\A x \in cs : Named(x))
      /\ ln \in SUBSET (Entries \X Wins) /\ d \in BOOLEAN
      /\ c.win \in Wins /\ c.do # "refresh"
  BY <1>1, <1>2 DEF Detail!View, ViewInv, Named
<1>4. ~view.doubt /\ ~view.gone => cs = {}
  BY OneCall
<1>5. CASE view' = [view EXCEPT !.calls = cs, !.linked = ln, !.wins = ws, !.doubt = d]
  <2>1. ASSUME ~d, ~view.gone
        PROVE  ws = {w \in Wins : <<view.id, w>> \in ln \/ view.first[w] = view.id}
    BY <1>3, <2>1, OneCall DEF WinsIn
  <2>2. ~d => ~view.doubt
    OBVIOUS
  <2> HIDE DEF cs, ln, ws, d
  <2>3. /\ view' \in Detail!View
        /\ view'.id = view.id /\ view'.journal = view.journal /\ view'.loads = view.loads
        /\ view'.wins = ws /\ view'.pictures = view.pictures /\ view'.doubt = d
        /\ view'.calls = cs /\ view'.image = view.image /\ view'.gone = view.gone
        /\ view'.linked = ln /\ view'.first = view.first
    BY <1>1, <1>3, <1>5 DEF Detail!View
  <2>4. ~d /\ ~view.gone => Shows(view')
    BY <1>3, <1>4, <2>1, <2>2, <2>3, OneCall DEF Shows, WinsIn
  <2> QED
    BY <1>3, <2>3, <2>4 DEF ViewInv, Certain
<1>6. CASE view' = [view EXCEPT !.calls = cs]
  <2> HIDE DEF cs
  <2>1. /\ view' \in Detail!View
        /\ view'.id = view.id /\ view'.journal = view.journal /\ view'.loads = view.loads
        /\ view'.wins = view.wins /\ view'.pictures = view.pictures /\ view'.doubt = view.doubt
        /\ view'.calls = cs /\ view'.image = view.image /\ view'.gone = view.gone
        /\ view'.linked = view.linked /\ view'.first = view.first
    BY <1>1, <1>3, <1>6 DEF Detail!View
  <2>2. ~view.doubt /\ ~view.gone => Shows(view')
    BY <1>3, <1>4, <2>1, OneCall DEF Shows, WinsIn
  <2> QED
    BY <1>3, <2>1, <2>2 DEF ViewInv, Certain
<1>7. CASE view' = [view EXCEPT !.calls = cs, !.linked = ln, !.doubt = TRUE]
  <2> HIDE DEF cs, ln
  <2>1. view' \in Detail!View /\ view'.calls = cs /\ view'.doubt
    BY <1>1, <1>3, <1>7 DEF Detail!View
  <2> QED
    BY <1>3, <2>1 DEF ViewInv, Certain
<1> QED
  BY <1>2, <1>5, <1>6, <1>7

LEMMA DeleteAnswersKeeps ==
  ASSUME ViewInv(view), Detail!DeleteAnswers
  PROVE  ViewInv(view')
<1>1. view \in Detail!View
  BY DEF ViewInv
<1>2. PICK c \in view.calls :
        /\ c.do = "delete"
        /\ \/ view' = [view EXCEPT !.calls = {}, !.loads = {}, !.image = None, !.gone = TRUE]
           \/ view' = [view EXCEPT !.calls = view.calls \ {c},
                         !.dialog = IF view.dialog = "confirm" THEN None ELSE view.dialog]
  BY <1>1 DEF Detail!DeleteAnswers, Detail!View
<1>3. CASE view' = [view EXCEPT !.calls = {}, !.loads = {}, !.image = None, !.gone = TRUE]
  <2>1. view' \in Detail!View /\ view'.calls = {} /\ view'.gone
    BY <1>1, <1>3 DEF Detail!View
  <2> QED
    BY <2>1 DEF ViewInv, Certain
<1> DEFINE cs == view.calls \ {c}
           g  == IF view.dialog = "confirm" THEN None ELSE view.dialog
<1>4. /\ cs \in SUBSET Detail!Calls /\ (\A x \in cs : Named(x)) /\ c.do # "refresh"
      /\ g \in {"link", "confirm", None}
  BY <1>1, <1>2 DEF Detail!View, ViewInv
<1>5. ~view.doubt /\ ~view.gone => cs = {}
  BY OneCall
<1>6. CASE view' = [view EXCEPT !.calls = cs, !.dialog = g]
  <2> HIDE DEF cs, g
  <2>1. /\ view' \in Detail!View
        /\ view'.id = view.id /\ view'.journal = view.journal /\ view'.loads = view.loads
        /\ view'.wins = view.wins /\ view'.pictures = view.pictures /\ view'.doubt = view.doubt
        /\ view'.calls = cs /\ view'.image = view.image /\ view'.gone = view.gone
        /\ view'.linked = view.linked /\ view'.first = view.first
    BY <1>1, <1>4, <1>6 DEF Detail!View
  <2>2. ~view.doubt /\ ~view.gone => Shows(view')
    BY <1>4, <1>5, <2>1, OneCall DEF Shows, WinsIn
  <2> QED
    BY <1>4, <2>1, <2>2 DEF ViewInv, Certain
<1> QED
  BY <1>2, <1>3, <1>6

LEMMA ViewNextKeeps ==
  ASSUME ViewInv(view), Detail!ViewNext
  PROVE  ViewInv(view')
BY NavigateKeeps, EntryArrivesKeeps, RestArrivesKeeps, ImagesKeep, DialogsKeep, SendsKeep,
   LinkAnswersKeeps, RefreshAnswersKeeps, UnlinkAnswersKeeps, DeleteAnswersKeeps
   DEF Detail!ViewNext

LEMMA ViewInvSettles ==
  ASSUME ViewInv(view)
  PROVE  Detail!ViewSettles
<1> SUFFICES ASSUME Detail!Visible, ~Detail!Busy, ~view.doubt
             PROVE  /\ Detail!Snippet = [of |-> view.id, wins |-> Detail!WinsOf(view.id)]
                    /\ view.image # None => view.image < Pictures[view.id]
  BY DEF Detail!ViewSettles
<1>1. Shows(view) /\ view.calls = {}
  BY DEF ViewInv, Certain, Loading, Failed, Detail!Visible, Detail!Busy
<1>2. view.wins = WinsIn(view, view.id)
  BY <1>1, IdleShows
<1> QED
  BY <1>1, <1>2 DEF Shows, WinsIn, Detail!WinsOf, Detail!Snippet

------------------------------------------------------------------------------
(* The review pack.  Unless prints overlapped or the theme was changed       *)
(* during one, at most one print is still to clean up, it remembers the      *)
(* theme of the user, and with none the document is in that theme.           *)
Running(s) == {i \in DOMAIN s : ~s[i].cleaned}

PaperOwn(p) ==
  ~p.muddled =>
    /\ \A i \in Running(p.prints) : p.prints[i].old = p.theme
    /\ \A i, j \in Running(p.prints) : i = j
    /\ Running(p.prints) = {} => p.paper = p.theme

PackInv(p) == p \in Packed!Pack /\ PaperOwn(p)

LEMMA PrintingRuns == Packed!Printing <=> Running(pack.prints) # {}
BY DEF Packed!Printing, Packed!Uncleaned, Running

(* The steps that leave theme, document and prints alone.                    *)
LEMMA PackTyped ==
  ASSUME PackInv(pack), pack' \in Packed!Pack,
         pack'.theme = pack.theme, pack'.paper = pack.paper, pack'.prints = pack.prints,
         pack'.muddled = pack.muddled
  PROVE  PackInv(pack')
BY DEF PackInv, PaperOwn

LEMMA ChipsKeep ==
  ASSUME PackInv(pack),
         \/ Packed!OpenPack \/ Packed!ClosePack \/ Packed!Supply \/ Packed!Tick
         \/ Packed!Copy \/ Packed!CopiedFades
  PROVE  PackInv(pack')
<1>1. pack \in Packed!Pack
  BY DEF PackInv
<1>2. CASE Packed!OpenPack \/ Packed!ClosePack
  <2>1. PICK o \in BOOLEAN : pack' = [pack EXCEPT !.open = o]
    BY <1>2 DEF Packed!OpenPack, Packed!ClosePack
  <2> QED
    BY <1>1, <2>1, PackTyped DEF Packed!Pack
<1>3. CASE Packed!Copy \/ Packed!CopiedFades
  <2>1. PICK o \in BOOLEAN : pack' = [pack EXCEPT !.copied = o]
    <3>1. CASE Packed!CopiedFades
      BY <3>1 DEF Packed!CopiedFades
    <3>2. CASE Packed!Copy
      <4>1. PICK ok \in BOOLEAN : pack' = [pack EXCEPT !.copied = @ \/ ok]
        BY <3>2 DEF Packed!Copy
      <4>2. (pack.copied \/ ok) \in BOOLEAN
        OBVIOUS
      <4>3. pack' = [pack EXCEPT !.copied = pack.copied \/ ok]
        BY <1>1, <4>1 DEF Packed!Pack
      <4> QED
        BY <4>2, <4>3
    <3> QED
      BY <1>3, <3>1, <3>2
  <2> QED
    BY <1>1, <2>1, PackTyped DEF Packed!Pack
<1>4. CASE Packed!Supply
  <2>1. CASE \E w, e \in 0..MaxEntries : pack' = [pack EXCEPT !.wins = w, !.entries = e]
    BY <1>1, <2>1, PackTyped DEF Packed!Pack
  <2>2. CASE \E s \in {{}, {"text", "alignment", "metrics"}, Packed!Parts \cup {"text"}} :
                pack' = [pack EXCEPT !.summary = s]
    BY <1>1, <2>2, PackTyped DEF Packed!Pack
  <2> QED
    BY <1>4, <2>1, <2>2 DEF Packed!Supply
<1>5. CASE Packed!Tick
  <2>1. CASE pack' = [pack EXCEPT !.override = IF "synthesis" \in Packed!Included THEN "out"
                                               ELSE "in"]
    <3>1. PICK o \in {"out", "in"} : pack' = [pack EXCEPT !.override = o]
      BY <2>1
    <3> QED
      BY <1>1, <3>1, PackTyped DEF Packed!Pack
  <2>2. ASSUME NEW s \in Packed!Sections \ {"synthesis"},
               pack' = [pack EXCEPT !.ticked = IF s \in @ THEN @ \ {s} ELSE @ \cup {s}]
        PROVE  PackInv(pack')
    <3> DEFINE t == IF s \in pack.ticked THEN pack.ticked \ {s} ELSE pack.ticked \cup {s}
    <3>1. t \in SUBSET (Packed!Sections \ {"synthesis"})
      <4> HIDE DEF Packed!Sections
      <4> QED
        BY <1>1, <2>2 DEF Packed!Pack
    <3>2. pack' = [pack EXCEPT !.ticked = t]
      BY <1>1, <2>2 DEF Packed!Pack
    <3> HIDE DEF t
    <3> QED
      BY <1>1, <3>1, <3>2, PackTyped DEF Packed!Pack
  <2> QED
    BY <1>5, <2>1, <2>2 DEF Packed!Tick
<1> QED
  BY <1>2, <1>3, <1>4, <1>5

LEMMA StartPrintKeeps ==
  ASSUME PackInv(pack), Packed!StartPrint
  PROVE  PackInv(pack')
<1>1. pack \in Packed!Pack
  BY DEF PackInv
<1> DEFINE e == [old |-> pack.paper, cleaned |-> FALSE]
           s == Append(pack.prints, e)
           m == pack.muddled \/ Packed!Printing
<1>2. pack.prints \in Seq(Packed!Printout) /\ e \in Packed!Printout /\ e.old = pack.paper
  BY <1>1 DEF Packed!Pack, Packed!Printout
<1>3. /\ s \in Seq(Packed!Printout) /\ DOMAIN s = 1..(Len(pack.prints) + 1)
      /\ DOMAIN pack.prints = 1..Len(pack.prints)
      /\ \A i \in DOMAIN pack.prints : s[i] = pack.prints[i]
      /\ s[Len(pack.prints) + 1] = e
  <2> HIDE DEF e
  <2> QED
    BY <1>2
<1>4. pack' = [pack EXCEPT !.paper = "light", !.muddled = m, !.prints = s]
  BY <1>1 DEF Packed!StartPrint, Packed!Pack
<1>5. m \in BOOLEAN /\ (~m => ~pack.muddled /\ Running(pack.prints) = {})
  BY <1>1, PrintingRuns DEF Packed!Printing
<1>6. ~m => Running(s) \subseteq {Len(pack.prints) + 1}
  BY <1>3, <1>5 DEF Running
<1>7. Len(pack.prints) + 1 \in Running(s)
  BY <1>2, <1>3 DEF Running
<1> HIDE DEF e, s, m
<1>8. /\ pack' \in Packed!Pack
      /\ pack'.prints = s /\ pack'.muddled = m /\ pack'.theme = pack.theme
  BY <1>1, <1>3, <1>4, <1>5 DEF Packed!Pack, Packed!Themes
<1> QED
  BY <1>2, <1>3, <1>5, <1>6, <1>7, <1>8 DEF PackInv, PaperOwn

LEMMA AfterPrintKeeps ==
  ASSUME PackInv(pack), Packed!AfterPrint
  PROVE  PackInv(pack')
<1>1. pack \in Packed!Pack /\ pack.prints \in Seq(Packed!Printout)
  BY DEF PackInv, Packed!Pack
<1>2. PICK last \in DOMAIN pack.prints :
        /\ Packed!Uncleaned(pack.prints[last])
        /\ pack' = [pack EXCEPT !.paper = pack.prints[last].old,
                      !.prints = [i \in DOMAIN @ |-> [@[i] EXCEPT !.cleaned = TRUE]]]
  BY DEF Packed!AfterPrint
<1> DEFINE s == [i \in DOMAIN pack.prints |-> [pack.prints[i] EXCEPT !.cleaned = TRUE]]
           o == pack.prints[last].old
<1>3. \A i \in DOMAIN pack.prints :
        /\ pack.prints[i] \in Packed!Printout /\ pack.prints[i].old \in Packed!Themes
        /\ [pack.prints[i] EXCEPT !.cleaned = TRUE] \in Packed!Printout
        /\ [pack.prints[i] EXCEPT !.cleaned = TRUE].cleaned
  <2> SUFFICES ASSUME NEW i \in DOMAIN pack.prints
               PROVE  /\ pack.prints[i] \in Packed!Printout /\ pack.prints[i].old \in Packed!Themes
                      /\ [pack.prints[i] EXCEPT !.cleaned = TRUE] \in Packed!Printout
                      /\ [pack.prints[i] EXCEPT !.cleaned = TRUE].cleaned
    OBVIOUS
  <2>1. pack.prints[i] \in Packed!Printout
    BY <1>1
  <2>2. PICK r \in Packed!Printout : r = pack.prints[i]
    BY <2>1
  <2>3. /\ [r EXCEPT !.cleaned = TRUE] \in Packed!Printout /\ r.old \in Packed!Themes
        /\ [r EXCEPT !.cleaned = TRUE].cleaned
    BY DEF Packed!Printout
  <2> QED
    BY <2>2, <2>3
<1>4. s \in Seq(Packed!Printout)
  <2>1. /\ DOMAIN pack.prints = 1..Len(pack.prints) /\ Len(pack.prints) \in Nat
    BY <1>1
  <2>2. s \in [1..Len(pack.prints) -> Packed!Printout]
    BY <1>3, <2>1
  <2> HIDE DEF s
  <2> QED
    BY <2>1, <2>2
<1>5. o \in Packed!Themes /\ (\A i \in DOMAIN s : s[i].cleaned)
  BY <1>3
<1>6. pack' = [pack EXCEPT !.paper = o, !.prints = s]
  BY <1>1, <1>2 DEF Packed!Pack
<1>7. ~pack.muddled => o = pack.theme
  BY <1>2 DEF PackInv, PaperOwn, Running, Packed!Uncleaned
<1> HIDE DEF s, o
<1>8. /\ pack' \in Packed!Pack
      /\ pack'.prints = s /\ pack'.paper = o /\ pack'.muddled = pack.muddled
      /\ pack'.theme = pack.theme
  BY <1>1, <1>4, <1>5, <1>6 DEF Packed!Pack
<1>9. Running(s) = {}
  BY <1>5 DEF Running
<1> QED
  BY <1>7, <1>8, <1>9 DEF PackInv, PaperOwn

LEMMA PrintTimerKeeps ==
  ASSUME PackInv(pack), Packed!PrintTimer
  PROVE  PackInv(pack')
<1>1. pack \in Packed!Pack /\ pack.prints \in Seq(Packed!Printout) /\ pack.prints # <<>>
  BY DEF PackInv, Packed!Pack, Packed!PrintTimer
<1> DEFINE s == Tail(pack.prints)
           p == pack.prints[1]
           o == IF p.cleaned THEN pack.paper ELSE p.old
<1>2. /\ s \in Seq(Packed!Printout) /\ p \in Packed!Printout /\ Head(pack.prints) = p
      /\ 1 \in DOMAIN pack.prints
      /\ \A i \in DOMAIN s : i + 1 \in DOMAIN pack.prints /\ s[i] = pack.prints[i + 1]
      /\ \A i \in DOMAIN s : i \in Nat /\ i # 0
      /\ \A i \in DOMAIN pack.prints : i # 1 => i - 1 \in DOMAIN s /\ pack.prints[i] = s[i - 1]
  BY <1>1
<1>3. o \in Packed!Themes
  BY <1>1, <1>2 DEF Packed!Printout, Packed!Pack
<1>4. pack' = [pack EXCEPT !.paper = o, !.prints = s]
  BY <1>1, <1>2 DEF Packed!PrintTimer, Packed!Cleanup, Packed!Pack
<1>5. /\ \A i \in Running(s) : i + 1 \in Running(pack.prints) /\ s[i] = pack.prints[i + 1]
      /\ \A i \in Running(s) : i \in Nat /\ i # 0
      /\ ~p.cleaned => 1 \in Running(pack.prints)
      /\ p.cleaned /\ Running(s) = {} => Running(pack.prints) = {}
  <2> HIDE DEF s
  <2> QED
    BY <1>2 DEF Running
<1> HIDE DEF s
<1>6. ASSUME ~pack.muddled
      PROVE  /\ \A i \in Running(s) : s[i].old = pack.theme
             /\ \A i, j \in Running(s) : i = j
             /\ Running(s) = {} => o = pack.theme
  <2>1. \A i \in Running(s) : s[i].old = pack.theme
    BY <1>5, <1>6 DEF PackInv, PaperOwn
  <2>2. \A i, j \in Running(s) : i = j
    <3> SUFFICES ASSUME NEW i \in Running(s), NEW j \in Running(s) PROVE i = j
      OBVIOUS
    <3>1. i + 1 = j + 1 /\ i \in Nat /\ j \in Nat
      BY <1>5, <1>6 DEF PackInv, PaperOwn
    <3> QED
      BY <3>1
  <2>3. CASE p.cleaned
    BY <1>5, <1>6, <2>1, <2>2, <2>3 DEF PackInv, PaperOwn
  <2>4. CASE ~p.cleaned
    BY <1>5, <1>6, <2>1, <2>2, <2>4 DEF PackInv, PaperOwn
  <2> QED
    BY <2>3, <2>4
<1> HIDE DEF o
<1>7. /\ pack' \in Packed!Pack
      /\ pack'.prints = s /\ pack'.paper = o /\ pack'.muddled = pack.muddled
      /\ pack'.theme = pack.theme
  BY <1>1, <1>2, <1>3, <1>4 DEF Packed!Pack
<1> QED
  BY <1>6, <1>7 DEF PackInv, PaperOwn

LEMMA ToggleThemeKeeps ==
  ASSUME PackInv(pack), Packed!ToggleTheme
  PROVE  PackInv(pack')
<1>1. pack \in Packed!Pack
  BY DEF PackInv
<1>2. PICK t \in Packed!Themes :
        pack' = [pack EXCEPT !.theme = t, !.paper = t, !.muddled = Packed!Printing]
  BY DEF Packed!ToggleTheme
<1>3. PICK m \in BOOLEAN : m <=> Packed!Printing
  OBVIOUS
<1>4. Packed!Printing \in BOOLEAN
  BY DEF Packed!Printing
<1>5. pack' = [pack EXCEPT !.theme = t, !.paper = t, !.muddled = m]
  BY <1>2, <1>3, <1>4
<1>6. /\ pack' \in Packed!Pack
      /\ pack'.prints = pack.prints /\ pack'.paper = t /\ pack'.theme = t /\ pack'.muddled = m
  BY <1>1, <1>5 DEF Packed!Pack
<1> QED
  BY <1>3, <1>6, PrintingRuns DEF PackInv, PaperOwn

LEMMA PackNextKeeps ==
  ASSUME PackInv(pack), Packed!PackNext
  PROVE  PackInv(pack')
BY ChipsKeep, StartPrintKeeps, AfterPrintKeeps, PrintTimerKeeps, ToggleThemeKeeps
   DEF Packed!PackNext

LEMMA PackMountedRight ==
  ASSUME pack' \in Packed!PackMounted
  PROVE  PackInv(pack')
<1>1. PICK t \in Packed!Themes :
        pack' = [open |-> FALSE, override |-> "unset",
                 ticked |-> Packed!Sections \ {"synthesis"},
                 summary |-> {}, wins |-> 0, entries |-> 0, copied |-> FALSE,
                 theme |-> t, paper |-> t, prints |-> <<>>, muddled |-> FALSE]
  BY DEF Packed!PackMounted
<1>2. 0 \in 0..MaxEntries
  BY BoundsAssumption
<1>3. /\ pack' \in Packed!Pack
      /\ pack'.prints = <<>> /\ pack'.paper = t /\ pack'.theme = t
  BY <1>1, <1>2 DEF Packed!Pack
<1> QED
  BY <1>3 DEF PackInv, PaperOwn, Running

(* What the two pieces of code decide of each section is the same.           *)
LEMMA SectionsSame ==
  ASSUME pack \in Packed!Pack
  PROVE  Packed!SectionsAgree
<1>1. \A s : Packed!OnSheet(s) <=> Packed!InMarkdown(s)
  BY DEF Packed!OnSheet, Packed!InMarkdown
<1>2. Packed!SheetTitles = Packed!MarkdownTitles
  <2>1. {i \in DOMAIN Packed!Order : Packed!OnSheet(Packed!Order[i])}
          = {i \in DOMAIN Packed!Order : Packed!InMarkdown(Packed!Order[i])}
    BY <1>1
  <2> QED
    BY <2>1 DEF Packed!SheetTitles, Packed!MarkdownTitles
<1>3. Packed!SheetSummary \subseteq Packed!MarkdownSummary
  BY DEF Packed!SheetSummary, Packed!MarkdownSummary
<1>4. Packed!SheetEntries.listed + Packed!SheetEntries.more = Packed!MarkdownEntries
  <2>1. pack.entries \in Nat /\ SheetLimit \in Nat
    BY SheetAssumption DEF Packed!Pack
  <2> QED
    BY <2>1 DEF Packed!SheetEntries, Packed!MarkdownEntries
<1> QED
  BY <1>2, <1>3, <1>4 DEF Packed!SectionsAgree

------------------------------------------------------------------------------
(* The achievements page.  As long as nothing is in doubt, one thing at most *)
(* is under way: a load that will bring what the server has; the loop, whose *)
(* links made so far are on the server; or a request of the page, which      *)
(* already shows what the server has, as it does with none under way.        *)
Clear(s) ==
  ~s.doubt =>
    \/ /\ s.job = None /\ s.making = {} /\ s.call = None
       /\ \E l \in 1..MaxShelfLoads : s.loads = {l}
    \/ /\ s.loads = {} /\ s.making = {} /\ s.call = None /\ s.job # None
       /\ {s.job.win} \X (s.job.all \ s.job.todo) \subseteq s.server.links
    \/ /\ s.loads = {} /\ s.job = None /\ (s.making = {} \/ s.call = None)
       /\ s.page = s.server

ShelfInv(s) == s \in Shelf!Shelf /\ Clear(s)

(* The two promises, of a state and of the step that leads to it.            *)
LinkedStep ==
  /\ shelf.job # None /\ shelf'.job = None /\ ~shelf'.doubt =>
       {shelf.job.win} \X shelf.job.all \subseteq shelf'.server.links

JobRec  == [win : Wins, all : SUBSET Entries, todo : SUBSET Entries]
CallRec == [do : {"unlink", "delete"}, win : Wins, entry : Entries \cup {None}]

(* Steps that touch the dialog alone.                                        *)
LEMMA ShelfDialogKeeps ==
  ASSUME ShelfInv(shelf),
         \/ Shelf!OpenLink \/ Shelf!OpenCreate \/ Shelf!Pick \/ Shelf!CloseDialog
  PROVE  ShelfInv(shelf') /\ LinkedStep
<1>1. shelf \in Shelf!Shelf
  BY DEF ShelfInv
<1>2. PICK d \in Wins \cup {"new", None}, p \in SUBSET Entries :
        shelf' = [shelf EXCEPT !.dialog = d, !.picked = p]
  <2>1. CASE Shelf!OpenLink
    <3>1. PICK w \in shelf.page.wins : shelf' = [shelf EXCEPT !.dialog = w, !.picked = {}]
      BY <2>1 DEF Shelf!OpenLink
    <3>2. w \in Wins
      BY <1>1 DEF Shelf!Shelf, Shelf!List
    <3> QED
      BY <3>1, <3>2
  <2>2. CASE Shelf!OpenCreate \/ Shelf!CloseDialog
    BY <2>2 DEF Shelf!OpenCreate, Shelf!CloseDialog
  <2>3. CASE Shelf!Pick
    <3>1. PICK e \in Entries :
            shelf' = [shelf EXCEPT !.picked = IF e \in @ THEN @ \ {e} ELSE @ \cup {e}]
      BY <2>3 DEF Shelf!Pick
    <3> DEFINE p == IF e \in shelf.picked THEN shelf.picked \ {e} ELSE shelf.picked \cup {e}
    <3>2. p \in SUBSET Entries /\ shelf.dialog \in Wins \cup {"new", None}
      BY <1>1 DEF Shelf!Shelf
    <3>3. shelf' = [shelf EXCEPT !.dialog = shelf.dialog, !.picked = p]
      BY <1>1, <3>1 DEF Shelf!Shelf
    <3> QED
      BY <3>2, <3>3
  <2> QED
    BY <2>1, <2>2, <2>3
<1>3. /\ shelf' \in Shelf!Shelf
      /\ shelf'.doubt = shelf.doubt /\ shelf'.job = shelf.job /\ shelf'.making = shelf.making
      /\ shelf'.call = shelf.call /\ shelf'.loads = shelf.loads
      /\ shelf'.page = shelf.page /\ shelf'.server = shelf.server
  BY <1>1, <1>2 DEF Shelf!Shelf
<1> QED
  BY <1>3 DEF ShelfInv, Clear, LinkedStep

LEMMA ShelfListArrivesKeeps ==
  ASSUME ShelfInv(shelf), Shelf!ListArrives
  PROVE  ShelfInv(shelf') /\ LinkedStep
<1>1. shelf \in Shelf!Shelf
  BY DEF ShelfInv
<1>2. PICK l \in shelf.loads, p \in {shelf.server, [shelf.server EXCEPT !.links = {}], shelf.page},
           d \in BOOLEAN :
        /\ shelf' = [shelf EXCEPT !.loads = shelf.loads \ {l}, !.loading = FALSE, !.page = p,
                      !.doubt = d]
        /\ ~d => p = shelf.server /\ ~shelf.doubt
  <2>1. PICK l \in shelf.loads :
          LET s == [shelf EXCEPT !.loads = @ \ {l}, !.loading = FALSE]
          IN  \/ shelf' = [s EXCEPT !.page = shelf.server]
              \/ shelf' = [s EXCEPT !.page = [shelf.server EXCEPT !.links = {}], !.doubt = TRUE]
              \/ shelf' = [s EXCEPT !.doubt = TRUE]
    BY DEF Shelf!ListArrives
  <2> DEFINE F(p, d) == [shelf EXCEPT !.loads = shelf.loads \ {l}, !.loading = FALSE,
                           !.page = p, !.doubt = d]
             b == [shelf.server EXCEPT !.links = {}]
  <2>2. \/ shelf' = F(shelf.server, shelf.doubt)
        \/ shelf' = F(b, TRUE)
        \/ shelf' = F(shelf.page, TRUE)
    <3> HIDE DEF b
    <3> QED
      BY <1>1, <2>1 DEF Shelf!Shelf, b
  <2>3. shelf.doubt \in BOOLEAN
    BY <1>1 DEF Shelf!Shelf
  <2> HIDE DEF b
  <2> QED
    BY <2>2, <2>3 DEF b
<1> DEFINE ls == shelf.loads \ {l}
<1>3. ls \in SUBSET (1..MaxShelfLoads) /\ p \in Shelf!List
  <2>1. shelf.server \in Shelf!List /\ shelf.page \in Shelf!List
    BY <1>1 DEF Shelf!Shelf
  <2>2. [shelf.server EXCEPT !.links = {}] \in Shelf!List
    BY <2>1 DEF Shelf!List
  <2> QED
    BY <1>1, <2>1, <2>2 DEF Shelf!Shelf
<1>4. ~shelf.doubt => ls = {} /\ shelf.job = None /\ shelf.making = {} /\ shelf.call = None
  BY DEF ShelfInv, Clear
<1> HIDE DEF ls
<1>5. /\ shelf' \in Shelf!Shelf
      /\ shelf'.doubt = d /\ shelf'.job = shelf.job /\ shelf'.making = shelf.making
      /\ shelf'.call = shelf.call /\ shelf'.loads = ls
      /\ shelf'.page = p /\ shelf'.server = shelf.server
  BY <1>1, <1>2, <1>3 DEF Shelf!Shelf, ls
<1> QED
  BY <1>2, <1>4, <1>5 DEF ShelfInv, Clear, LinkedStep

LEMMA SubmitsKeep ==
  ASSUME ShelfInv(shelf), Shelf!SubmitLinks \/ Shelf!SubmitNew \/ Shelf!Unlink \/ Shelf!Delete
  PROVE  ShelfInv(shelf') /\ LinkedStep
<1>1. shelf \in Shelf!Shelf
  BY DEF ShelfInv
<1>2. PICK P \in BOOLEAN : P <=> Shelf!Pending
  OBVIOUS
<1>3. Shelf!Pending = P
  BY <1>2 DEF Shelf!Pending
<1>4. ~P => shelf.loads = {} /\ shelf.job = None /\ shelf.making = {} /\ shelf.call = None
  BY <1>2 DEF Shelf!Pending
<1>5. CASE Shelf!SubmitLinks
  <2> DEFINE j == [win |-> shelf.dialog, all |-> shelf.picked, todo |-> shelf.picked]
  <2>1. shelf' = [shelf EXCEPT !.doubt = P, !.job = j] /\ shelf.job = None
    BY <1>3, <1>5 DEF Shelf!SubmitLinks
  <2>2. j \in JobRec /\ j # None /\ j.all \ j.todo = {}
    BY <1>1, <1>5, NoneAssumption DEF Shelf!SubmitLinks, Shelf!Shelf, JobRec
  <2> HIDE DEF j
  <2>3. /\ shelf' \in Shelf!Shelf
        /\ shelf'.doubt = P /\ shelf'.job = j /\ shelf'.making = shelf.making
        /\ shelf'.call = shelf.call /\ shelf'.loads = shelf.loads
        /\ shelf'.page = shelf.page /\ shelf'.server = shelf.server
    <3> DEFINE v == [shelf EXCEPT !.doubt = P, !.job = j]
    <3>1. v \in Shelf!Shelf
      BY <1>1, <2>2, ZenonT(60) DEF Shelf!Shelf, JobRec
    <3>2. /\ v.doubt = P /\ v.job = j /\ v.making = shelf.making
          /\ v.call = shelf.call /\ v.loads = shelf.loads
          /\ v.page = shelf.page /\ v.server = shelf.server
      BY <1>1 DEF Shelf!Shelf
    <3> HIDE DEF v
    <3> QED
      BY <2>1, <3>1, <3>2 DEF v
  <2> QED
    BY <1>4, <2>1, <2>2, <2>3 DEF ShelfInv, Clear, LinkedStep
<1> DEFINE d == shelf.doubt \/ P
<1>6. d \in BOOLEAN /\ (~d => ~shelf.doubt /\ shelf.page = shelf.server)
  BY <1>1, <1>4 DEF ShelfInv, Clear, Shelf!Shelf
<1>7. CASE Shelf!SubmitNew
  <2>1. shelf' = [shelf EXCEPT !.making = shelf.picked, !.doubt = d]
    BY <1>1, <1>3, <1>7 DEF Shelf!SubmitNew, Shelf!Shelf
  <2> HIDE DEF d
  <2>2. /\ shelf' \in Shelf!Shelf
        /\ shelf'.doubt = d /\ shelf'.job = shelf.job /\ shelf'.making = shelf.picked
        /\ shelf'.call = shelf.call /\ shelf'.loads = shelf.loads
        /\ shelf'.page = shelf.page /\ shelf'.server = shelf.server
    BY <1>1, <1>6, <2>1 DEF Shelf!Shelf
  <2> QED
    BY <1>4, <1>6, <2>2 DEF ShelfInv, Clear, LinkedStep, d
<1>8. CASE Shelf!Unlink \/ Shelf!Delete
  <2>1. PICK c \in CallRec : shelf' = [shelf EXCEPT !.call = c, !.doubt = d]
    <3>1. CASE Shelf!Unlink
      <4>0. PICK w \in shelf.page.wins :
              \E e \in Shelf!Shown(w) :
                shelf' = [shelf EXCEPT !.call = [do |-> "unlink", win |-> w, entry |-> e],
                            !.doubt = @ \/ Shelf!Pending]
        BY <3>1 DEF Shelf!Unlink
      <4>1. PICK e \in Shelf!Shown(w) :
              shelf' = [shelf EXCEPT !.call = [do |-> "unlink", win |-> w, entry |-> e],
                          !.doubt = @ \/ Shelf!Pending]
        BY <4>0
      <4>2. w \in Wins /\ e \in Entries \cup {None}
        BY <1>1 DEF Shelf!Shelf, Shelf!List, Shelf!Shown
      <4>3. [do |-> "unlink", win |-> w, entry |-> e] \in CallRec
        BY <4>2 DEF CallRec
      <4>4. shelf' = [shelf EXCEPT !.call = [do |-> "unlink", win |-> w, entry |-> e], !.doubt = d]
        BY <1>1, <1>3, <4>1 DEF Shelf!Shelf
      <4> QED
        BY <4>3, <4>4
    <3>2. CASE Shelf!Delete
      <4>1. PICK w \in shelf.page.wins :
              shelf' = [shelf EXCEPT !.call = [do |-> "delete", win |-> w, entry |-> None],
                          !.doubt = @ \/ Shelf!Pending]
        BY <3>2 DEF Shelf!Delete
      <4>2. [do |-> "delete", win |-> w, entry |-> None] \in CallRec
        BY <1>1 DEF Shelf!Shelf, Shelf!List, CallRec
      <4>3. shelf' = [shelf EXCEPT !.call = [do |-> "delete", win |-> w, entry |-> None],
                        !.doubt = d]
        BY <1>1, <1>3, <4>1 DEF Shelf!Shelf
      <4> QED
        BY <4>2, <4>3
    <3> QED
      BY <1>8, <3>1, <3>2
  <2> HIDE DEF d
  <2>2. /\ shelf' \in Shelf!Shelf
        /\ shelf'.doubt = d /\ shelf'.job = shelf.job /\ shelf'.making = shelf.making
        /\ shelf'.call = c /\ shelf'.loads = shelf.loads
        /\ shelf'.page = shelf.page /\ shelf'.server = shelf.server
    BY <1>1, <1>6, <2>1 DEF Shelf!Shelf, CallRec
  <2> QED
    BY <1>4, <1>6, <2>2 DEF ShelfInv, Clear, LinkedStep, d
<1> QED
  BY <1>5, <1>7, <1>8

(* The shelf as the parts of an answer leave it.                             *)
LEMMA AskedShape ==
  ASSUME NEW z \in Shelf!Shelf, z.newest < MaxShelfLoads
  PROVE  LET s == Shelf!Asked(z) IN
         /\ s \in Shelf!Shelf
         /\ s.server = z.server /\ s.page = z.page /\ s.job = z.job
         /\ s.making = z.making /\ s.call = z.call
         /\ s.loads = z.loads \cup {z.newest + 1} /\ z.newest + 1 \in 1..MaxShelfLoads
         /\ ~s.doubt => /\ ~z.doubt /\ z.loads = {} /\ z.job = None /\ z.making = {}
                        /\ z.call = None
<1> DEFINE n == z.newest + 1
           ls == z.loads \cup {n}
           d == z.doubt \/ z.loads # {} \/ z.job # None \/ z.making # {} \/ z.call # None
<1>1. MaxShelfLoads \in Nat
  BY BoundsAssumption
<1>2. n \in 1..MaxShelfLoads /\ d \in BOOLEAN
  BY <1>1 DEF Shelf!Shelf
<1>3. ls \in SUBSET (1..MaxShelfLoads)
  BY <1>2 DEF Shelf!Shelf
<1>4. Shelf!Asked(z) = [z EXCEPT !.newest = n, !.loading = TRUE, !.loads = ls, !.doubt = d]
  BY DEF Shelf!Asked, Shelf!Shelf
<1> HIDE DEF n, ls, d
<1>5. LET s == Shelf!Asked(z) IN
      /\ s \in Shelf!Shelf
      /\ s.server = z.server /\ s.page = z.page /\ s.job = z.job
      /\ s.making = z.making /\ s.call = z.call /\ s.loads = ls /\ s.doubt = d
  BY <1>2, <1>3, <1>4 DEF Shelf!Shelf
<1> QED
  BY <1>2, <1>5 DEF n, ls, d

LEMMA WithLinkShape ==
  ASSUME NEW z \in Shelf!Shelf, NEW w \in Wins, NEW e \in Entries
  PROVE  LET s == Shelf!WithLink(z, w, e) IN
         /\ s \in Shelf!Shelf
         /\ s.server.links = z.server.links \cup {<<w, e>>}
         /\ s.newest = z.newest /\ s.job = z.job /\ s.making = z.making
         /\ s.call = z.call /\ s.loads = z.loads /\ s.doubt = z.doubt
<1> DEFINE x == [z.server EXCEPT !.links = z.server.links \cup {<<w, e>>}]
<1>1. z.server \in Shelf!List
  BY DEF Shelf!Shelf
<1>2. x \in Shelf!List /\ x.links = z.server.links \cup {<<w, e>>}
  BY <1>1 DEF Shelf!List
<1>3. Shelf!WithLink(z, w, e) = [z EXCEPT !.server = x]
  BY DEF Shelf!WithLink, Shelf!Shelf, Shelf!List
<1> HIDE DEF x, Shelf!List
<1>4. LET s == Shelf!WithLink(z, w, e) IN
      /\ s \in Shelf!Shelf /\ s.server = x
      /\ s.newest = z.newest /\ s.job = z.job /\ s.making = z.making
      /\ s.call = z.call /\ s.loads = z.loads /\ s.doubt = z.doubt
  BY <1>2, <1>3 DEF Shelf!Shelf
<1> QED
  BY <1>2, <1>4

LEMMA SteppedShape ==
  ASSUME NEW z \in Shelf!Shelf, z.newest < MaxShelfLoads, z.job \in JobRec, z.job # None,
         NEW e \in z.job.todo
  PROVE  LET s == Shelf!Stepped(z, e) IN
         /\ s \in Shelf!Shelf /\ s.server = z.server
         /\ \/ /\ z.job.todo = {e}
               /\ s.job = None /\ s.making = z.making /\ s.call = z.call
               /\ s.loads = z.loads \cup {z.newest + 1} /\ z.newest + 1 \in 1..MaxShelfLoads
               /\ ~s.doubt => /\ ~z.doubt /\ z.loads = {} /\ z.making = {} /\ z.call = None
            \/ /\ s.job # None /\ s.job.win = z.job.win /\ s.job.all = z.job.all
               /\ s.job.todo = z.job.todo \ {e}
               /\ s.making = z.making /\ s.call = z.call /\ s.loads = z.loads
               /\ s.doubt = z.doubt
<1>1. CASE z.job.todo = {e}
  <2> DEFINE y == [z EXCEPT !.job.todo = {}]
             d == IF z.dialog = "new" THEN z.dialog ELSE None
             p == IF z.dialog = "new" THEN z.picked ELSE {}
             x == [z EXCEPT !.job = None, !.dialog = d, !.picked = p]
  <2>1. y = [z EXCEPT !.job = [z.job EXCEPT !.todo = {}]]
    BY DEF JobRec
  <2>2. y.dialog = z.dialog /\ y.picked = z.picked
        /\ [y EXCEPT !.job = None, !.dialog = d, !.picked = p] = x
    BY <2>1 DEF Shelf!Shelf
  <2>3. Shelf!Stepped(z, e) = Shelf!Asked(x)
    <3>1. Shelf!LoopDone(y) = Shelf!Asked([y EXCEPT !.job = None, !.dialog = d, !.picked = p])
      <4>1. [y EXCEPT !.job = None, !.dialog = IF @ = "new" THEN @ ELSE None,
                      !.picked = IF y.dialog = "new" THEN @ ELSE {}]
              = [y EXCEPT !.job = None, !.dialog = d, !.picked = p]
        BY <2>1, <2>2 DEF Shelf!Shelf
      <4> QED
        BY <4>1 DEF Shelf!LoopDone
    <3> HIDE DEF y, x, d, p
    <3> QED
      BY <1>1, <2>2, <3>1 DEF Shelf!Stepped, y
  <2>4. d \in Wins \cup {"new", None} /\ p \in SUBSET Entries
    BY DEF Shelf!Shelf
  <2> HIDE DEF d, p
  <2>5. /\ x \in Shelf!Shelf /\ x.job = None
        /\ x.server = z.server /\ x.page = z.page /\ x.newest = z.newest
        /\ x.making = z.making /\ x.call = z.call /\ x.loads = z.loads /\ x.doubt = z.doubt
    BY <2>4 DEF Shelf!Shelf
  <2> HIDE DEF x, y
  <2> QED
    BY <1>1, <2>3, <2>5, AskedShape
<1>2. CASE z.job.todo # {e}
  <2> DEFINE j == [z.job EXCEPT !.todo = z.job.todo \ {e}]
  <2>1. /\ j \in JobRec /\ j # None /\ j.win = z.job.win /\ j.all = z.job.all
        /\ j.todo = z.job.todo \ {e}
    BY NoneAssumption DEF JobRec
  <2>2. Shelf!Stepped(z, e) = [z EXCEPT !.job = j]
    BY <1>2 DEF Shelf!Stepped, JobRec, Shelf!Shelf
  <2> HIDE DEF j
  <2>3. LET s == Shelf!Stepped(z, e) IN
        /\ s \in Shelf!Shelf /\ s.server = z.server /\ s.job = j
        /\ s.making = z.making /\ s.call = z.call /\ s.loads = z.loads /\ s.doubt = z.doubt
    BY <2>1, <2>2 DEF Shelf!Shelf, JobRec
  <2> QED
    BY <2>1, <2>3
<1> QED
  BY <1>1, <1>2

LEMMA StoppedShape ==
  ASSUME NEW z \in Shelf!Shelf, NEW e
  PROVE  LET s == Shelf!Stopped(z, e) IN s \in Shelf!Shelf /\ s.doubt
<1>1. Shelf!Stopped(z, e) = [z EXCEPT !.job = None, !.doubt = TRUE]
  BY DEF Shelf!Stopped
<1> QED
  BY <1>1 DEF Shelf!Shelf

LEMMA LinkStepKeeps ==
  ASSUME ShelfInv(shelf), Shelf!LinkStep
  PROVE  ShelfInv(shelf') /\ LinkedStep
<1>1. PICK z \in Shelf!Shelf : z = shelf
  BY DEF ShelfInv
<1>2. z.job \in JobRec /\ z.job # None /\ z.newest < MaxShelfLoads
  BY <1>1 DEF Shelf!LinkStep, Shelf!CanAsk, Shelf!Shelf, JobRec
<1>3. PICK e \in z.job.todo :
        \/ shelf' = Shelf!Stepped(Shelf!WithLink(z, z.job.win, e), e)
        \/ shelf' = Shelf!Stopped(z, e)
        \/ shelf' = Shelf!Stopped(Shelf!WithLink(z, z.job.win, e), e)
  BY <1>1 DEF Shelf!LinkStep
<1>4. e \in Entries /\ z.job.win \in Wins
  BY <1>2 DEF JobRec
<1>5. PICK y \in Shelf!Shelf :
        /\ y = Shelf!WithLink(z, z.job.win, e)
        /\ y.server.links = z.server.links \cup {<<z.job.win, e>>}
        /\ y.newest = z.newest /\ y.job = z.job /\ y.making = z.making
        /\ y.call = z.call /\ y.loads = z.loads /\ y.doubt = z.doubt
  BY <1>4, WithLinkShape
<1>6. CASE shelf' = Shelf!Stopped(z, e) \/ shelf' = Shelf!Stopped(y, e)
  BY <1>6, StoppedShape DEF ShelfInv, Clear, LinkedStep
<1>7. CASE shelf' = Shelf!Stepped(y, e)
  <2>1. /\ shelf' \in Shelf!Shelf /\ shelf'.server = y.server
        /\ \/ /\ z.job.todo = {e}
              /\ shelf'.job = None /\ shelf'.making = z.making /\ shelf'.call = z.call
              /\ shelf'.loads = z.loads \cup {z.newest + 1}
              /\ z.newest + 1 \in 1..MaxShelfLoads
              /\ ~shelf'.doubt => /\ ~z.doubt /\ z.loads = {} /\ z.making = {}
                                  /\ z.call = None
           \/ /\ shelf'.job # None /\ shelf'.job.win = z.job.win
              /\ shelf'.job.all = z.job.all /\ shelf'.job.todo = z.job.todo \ {e}
              /\ shelf'.making = z.making /\ shelf'.call = z.call
              /\ shelf'.loads = z.loads /\ shelf'.doubt = z.doubt
    BY <1>2, <1>5, <1>7, SteppedShape
  <2>2. ~z.doubt =>
          /\ z.loads = {} /\ z.making = {} /\ z.call = None
          /\ {z.job.win} \X (z.job.all \ z.job.todo) \subseteq z.server.links
    BY <1>1, <1>2 DEF ShelfInv, Clear
  <2>3. ~z.doubt => {z.job.win} \X (z.job.all \ (z.job.todo \ {e})) \subseteq y.server.links
    BY <1>5, <2>2
  <2> QED
    BY <1>1, <2>1, <2>2, <2>3 DEF ShelfInv, Clear, LinkedStep
<1> QED
  BY <1>3, <1>5, <1>6, <1>7

LEMMA NewAnswersKeeps ==
  ASSUME ShelfInv(shelf), Shelf!NewAnswers
  PROVE  ShelfInv(shelf') /\ LinkedStep
<1>1. shelf \in Shelf!Shelf /\ shelf.making # {} /\ shelf.newest < MaxShelfLoads
  BY DEF ShelfInv, Shelf!NewAnswers, Shelf!CanAsk
<1>2. ~shelf.doubt =>
        shelf.loads = {} /\ shelf.job = None /\ shelf.call = None /\ shelf.page = shelf.server
  BY <1>1 DEF ShelfInv, Clear
<1>3. CASE shelf' = [shelf EXCEPT !.making = {}]
  <2>1. /\ shelf' \in Shelf!Shelf
        /\ shelf'.doubt = shelf.doubt /\ shelf'.job = shelf.job /\ shelf'.making = {}
        /\ shelf'.call = shelf.call /\ shelf'.loads = shelf.loads
        /\ shelf'.page = shelf.page /\ shelf'.server = shelf.server
    BY <1>1, <1>3 DEF Shelf!Shelf
  <2> QED
    BY <1>2, <2>1 DEF ShelfInv, Clear, LinkedStep
<1>4. ASSUME NEW w \in Wins \ shelf.made, NEW e \in shelf.making,
             NEW es \in SUBSET shelf.making,
             \/ shelf' = Shelf!Asked([Shelf!WithNew(shelf, w, e, es) EXCEPT
                                     !.dialog = IF @ = "new" THEN None ELSE @,
                                     !.picked = IF shelf.dialog = "new" THEN {} ELSE @])
             \/ shelf' = [Shelf!WithNew(shelf, w, e, es) EXCEPT !.doubt = TRUE]
      PROVE  ShelfInv(shelf') /\ LinkedStep
  <2> DEFINE m == shelf.made \cup {w}
             x == [wins |-> shelf.server.wins \cup {w}, first |-> [shelf.server.first EXCEPT ![w] = e],
                   links |-> shelf.server.links \cup ({w} \X es)]
             s == [shelf EXCEPT !.making = {}, !.made = m, !.server = x]
             d == IF shelf.dialog = "new" THEN None ELSE shelf.dialog
             p == IF shelf.dialog = "new" THEN {} ELSE shelf.picked
             t == [s EXCEPT !.dialog = d, !.picked = p]
  <2>1. /\ w \in Wins /\ e \in Entries /\ es \in SUBSET Entries /\ m \in SUBSET Wins
        /\ d \in Wins \cup {"new", None} /\ p \in SUBSET Entries
        /\ shelf.server \in Shelf!List
    BY <1>1 DEF Shelf!Shelf
  <2>2. x \in Shelf!List
    BY <2>1 DEF Shelf!List
  <2>3. s = Shelf!WithNew(shelf, w, e, es)
    BY <1>1 DEF Shelf!Shelf, Shelf!WithNew
  <2>4. t = [s EXCEPT !.dialog = IF @ = "new" THEN None ELSE @,
                      !.picked = IF shelf.dialog = "new" THEN {} ELSE @]
    <3> HIDE DEF x, m
    <3> QED
      BY <1>1 DEF Shelf!Shelf
  <2>5. shelf' = Shelf!Asked(t) \/ shelf' = [s EXCEPT !.doubt = TRUE]
    <3> HIDE DEF s, t
    <3> QED
      BY <1>4, <2>3, <2>4
  <2> HIDE DEF x, m, d, p
  <2>6. /\ t \in Shelf!Shelf /\ t.newest < MaxShelfLoads
        /\ t.job = shelf.job /\ t.making = {} /\ t.call = shelf.call
        /\ t.loads = shelf.loads /\ t.doubt = shelf.doubt
    BY <1>1, <2>1, <2>2 DEF Shelf!Shelf
  <2>7. [s EXCEPT !.doubt = TRUE] \in Shelf!Shelf /\ [s EXCEPT !.doubt = TRUE].doubt
    BY <1>1, <2>1, <2>2 DEF Shelf!Shelf
  <2> HIDE DEF s, t
  <2>8. CASE shelf' = Shelf!Asked(t)
    <3>1. /\ shelf' \in Shelf!Shelf
          /\ shelf'.job = shelf.job /\ shelf'.making = {} /\ shelf'.call = shelf.call
          /\ shelf'.loads = shelf.loads \cup {t.newest + 1} /\ t.newest + 1 \in 1..MaxShelfLoads
          /\ ~shelf'.doubt => ~shelf.doubt
      <4>1. PICK r \in Shelf!Shelf : r = t
        BY <2>6
      <4> QED
        BY <2>6, <2>8, <4>1, AskedShape
    <3> QED
      BY <1>2, <3>1 DEF ShelfInv, Clear, LinkedStep
  <2> QED
    BY <2>5, <2>7, <2>8 DEF ShelfInv, Clear, LinkedStep
<1> QED
  BY <1>3, <1>4 DEF Shelf!NewAnswers

(* What an answer takes away: the page and the server alike, but for a first *)
(* entry that was unlinked.                                                  *)
LEMMA TakenAlike ==
  ASSUME NEW l \in Shelf!List, NEW c \in CallRec
  PROVE  /\ Shelf!Without(l, c) \in Shelf!List /\ Shelf!Dropped(l, c) \in Shelf!List
         /\ ~(c.do = "unlink" /\ l.first[c.win] = c.entry) =>
              Shelf!Dropped(l, c) = Shelf!Without(l, c)
<1> DEFINE W == Shelf!Without(l, c)
           f == IF W.first[c.win] = c.entry THEN None ELSE W.first[c.win]
           g == [W.first EXCEPT ![c.win] = f]
<1>1. c.win \in Wins
  BY DEF CallRec
<1>2. /\ W \in Shelf!List
      /\ c.do = "unlink" => W.first = l.first
      /\ c.do # "unlink" => W.first[c.win] = None
  <2>1. CASE c.do = "unlink"
    <3>1. W = [l EXCEPT !.links = l.links \ {<<c.win, c.entry>>}]
      BY <2>1 DEF Shelf!Without, Shelf!List
    <3> QED
      BY <2>1, <3>1 DEF Shelf!List
  <2>2. CASE c.do # "unlink"
    <3> DEFINE h == [l.first EXCEPT ![c.win] = None]
    <3>1. W = [l EXCEPT !.wins = l.wins \ {c.win}, !.links = l.links \ ({c.win} \X Entries),
                        !.first = h]
      BY <2>2 DEF Shelf!Without, Shelf!List
    <3>2. h \in [Wins -> Entries \cup {None}] /\ h[c.win] = None
      BY <1>1 DEF Shelf!List
    <3> HIDE DEF h, W
    <3> QED
      BY <2>2, <3>1, <3>2 DEF Shelf!List
  <2> QED
    BY <2>1, <2>2
<1>3. Shelf!Dropped(l, c) = [W EXCEPT !.first = g]
  <2> HIDE DEF W
  <2> QED
    BY <1>1, <1>2 DEF Shelf!Dropped, Shelf!List, W
<1> HIDE DEF W
<1>4. g \in [Wins -> Entries \cup {None}] /\ f \in Entries \cup {None}
  BY <1>1, <1>2 DEF Shelf!List
<1>5. f = W.first[c.win] => g = W.first
  BY <1>1, <1>2 DEF Shelf!List
<1>6. g = W.first => [W EXCEPT !.first = g] = W
  BY <1>2 DEF Shelf!List
<1>7. ~(c.do = "unlink" /\ l.first[c.win] = c.entry) => f = W.first[c.win]
  BY <1>2
<1> HIDE DEF f, g
<1>8. [W EXCEPT !.first = g] \in Shelf!List
  BY <1>2, <1>4 DEF Shelf!List
<1> QED
  BY <1>2, <1>3, <1>5, <1>6, <1>7, <1>8 DEF W

LEMMA CallAnswersKeeps ==
  ASSUME ShelfInv(shelf), Shelf!CallAnswers
  PROVE  ShelfInv(shelf') /\ LinkedStep
<1>1. PICK z \in Shelf!Shelf : z = shelf
  BY DEF ShelfInv
<1>2. PICK c \in CallRec : c = z.call
  BY <1>1 DEF Shelf!CallAnswers, Shelf!Shelf, CallRec
<1>3. z.call # None /\ z.server \in Shelf!List /\ z.page \in Shelf!List
  BY <1>1 DEF Shelf!CallAnswers, Shelf!Shelf
<1> DEFINE x == Shelf!Without(z.server, c)
           y == Shelf!Dropped(z.page, c)
           d == z.doubt \/ (c.do = "unlink" /\ z.server.first[c.win] = c.entry)
<1>4. /\ x \in Shelf!List /\ y \in Shelf!List /\ d \in BOOLEAN
      /\ ~d /\ z.page = z.server => y = x
  BY <1>1, <1>3, TakenAlike DEF Shelf!Shelf
<1>5. \/ shelf' = [z EXCEPT !.call = None, !.server = x, !.page = y, !.doubt = d]
      \/ shelf' = [z EXCEPT !.call = None]
      \/ shelf' = [z EXCEPT !.call = None, !.server = x, !.doubt = TRUE]
  <2>1. \/ shelf' = [shelf EXCEPT !.call = None, !.server = Shelf!Without(@, shelf.call),
                    !.page = Shelf!Dropped(@, shelf.call),
                    !.doubt = @ \/ (shelf.call.do = "unlink"
                                     /\ shelf.server.first[shelf.call.win] = shelf.call.entry)]
        \/ shelf' = [shelf EXCEPT !.call = None]
        \/ shelf' = [shelf EXCEPT !.call = None, !.server = Shelf!Without(@, shelf.call),
                       !.doubt = TRUE]
    BY DEF Shelf!CallAnswers
  <2> QED
    BY <1>1, <1>2, <2>1 DEF Shelf!Shelf
<1>6. ~z.doubt => z.loads = {} /\ z.job = None /\ z.making = {} /\ z.page = z.server
  BY <1>1, <1>3 DEF ShelfInv, Clear
<1>7. ~d => ~z.doubt
  OBVIOUS
<1> HIDE DEF x, y, d, Shelf!List
<1>8. CASE shelf' = [z EXCEPT !.call = None, !.server = x, !.page = y, !.doubt = d]
  <2>1. /\ shelf' \in Shelf!Shelf
        /\ shelf'.doubt = d /\ shelf'.job = z.job /\ shelf'.making = z.making
        /\ shelf'.loads = z.loads /\ shelf'.page = y /\ shelf'.server = x
    BY <1>4, <1>8 DEF Shelf!Shelf
  <2> QED
    BY <1>1, <1>4, <1>6, <1>7, <2>1 DEF ShelfInv, Clear, LinkedStep
<1>9. CASE shelf' = [z EXCEPT !.call = None]
  <2>1. /\ shelf' \in Shelf!Shelf
        /\ shelf'.doubt = z.doubt /\ shelf'.job = z.job /\ shelf'.making = z.making
        /\ shelf'.loads = z.loads /\ shelf'.page = z.page /\ shelf'.server = z.server
    BY <1>9 DEF Shelf!Shelf
  <2> QED
    BY <1>1, <1>6, <2>1 DEF ShelfInv, Clear, LinkedStep
<1>10. CASE shelf' = [z EXCEPT !.call = None, !.server = x, !.doubt = TRUE]
  <2>1. shelf' \in Shelf!Shelf /\ shelf'.doubt
    BY <1>4, <1>10 DEF Shelf!Shelf
  <2> QED
    BY <2>1 DEF ShelfInv, Clear, LinkedStep
<1> QED
  BY <1>5, <1>8, <1>9, <1>10

LEMMA ShelfNextKeeps ==
  ASSUME ShelfInv(shelf), Shelf!ShelfNext
  PROVE  ShelfInv(shelf') /\ LinkedStep
BY ShelfDialogKeeps, ShelfListArrivesKeeps, SubmitsKeep, LinkStepKeeps, NewAnswersKeeps,
   CallAnswersKeeps DEF Shelf!ShelfNext

LEMMA ShelfMountedRight ==
  ASSUME shelf' \in Shelf!ShelfMounted
  PROVE  ShelfInv(shelf')
<1>1. PICK s \in Shelf!Archives :
        shelf' = [server |-> [wins |-> Made, links |-> s[1], first |-> s[2]], made |-> Made,
                  page |-> [wins |-> {}, links |-> {}, first |-> [w \in Wins |-> None]],
                  newest |-> 1, loads |-> {1}, loading |-> TRUE,
                  dialog |-> None, picked |-> {}, job |-> None, making |-> {}, call |-> None,
                  doubt |-> FALSE]
  BY DEF Shelf!ShelfMounted
<1> DEFINE x == [wins |-> Made, links |-> s[1], first |-> s[2]]
           y == [wins |-> {}, links |-> {}, first |-> [w \in Wins |-> None]]
<1>2. x \in Shelf!List /\ y \in Shelf!List /\ Made \in SUBSET Wins /\ 1 \in 1..MaxShelfLoads
  <2>1. s \in (SUBSET (Made \X Entries)) \X [Wins -> Entries \cup {None}]
    BY DEF Shelf!Archives
  <2>2. Made \subseteq Wins
    BY EntriesAssumption
  <2> QED
    BY <2>1, <2>2, BoundsAssumption DEF Shelf!List
<1> HIDE DEF x, y, Shelf!List
<1>3. /\ shelf' \in Shelf!Shelf
      /\ shelf'.doubt = FALSE /\ shelf'.job = None /\ shelf'.making = {}
      /\ shelf'.call = None /\ shelf'.loads = {1}
  BY <1>1, <1>2 DEF Shelf!Shelf, x, y
<1> QED
  BY <1>2, <1>3 DEF ShelfInv, Clear

------------------------------------------------------------------------------
(* Foundation work.  Whatever an entry is, the first pillar it matches is    *)
(* one, and it has one if it matches any; so the pillars' entries part the   *)
(* foundation entries among them.                                            *)
Under(p) == {i \in DOMAIN journals : Foundation!Primary(journals[i], p)}

Names == {"debt", "resilience", "mentorship", "governance"}

LEMMA PillarNames ==
  /\ DOMAIN Foundation!PillarTags = Names /\ DOMAIN Foundation!Pillars = 1..4
  /\ Foundation!Pillars[1] = "debt" /\ Foundation!Pillars[2] = "resilience"
  /\ Foundation!Pillars[3] = "mentorship" /\ Foundation!Pillars[4] = "governance"
BY DEF Foundation!PillarTags, Foundation!Pillars, Names

LEMMA MatchedNames ==
  ASSUME NEW e
  PROVE  Foundation!Matched(e) \subseteq Names
<1>1. e.category \in DOMAIN Foundation!Fallback => Foundation!Fallback[e.category] \in Names
  BY DEF Foundation!Fallback, Names
<1> QED
  BY <1>1, PillarNames DEF Foundation!Matched

LEMMA OnePillar ==
  ASSUME NEW e
  PROVE  /\ \A p, q \in Names : Foundation!Primary(e, p) /\ Foundation!Primary(e, q) => p = q
         /\ (\E p \in Names : Foundation!Primary(e, p)) <=> Foundation!IsFoundation(e)
<1> DEFINE M == Foundation!Matched(e)
           P == Foundation!Pillars
<1>1. \A p : Foundation!Primary(e, p) <=>
              \E k \in 1..4 : P[k] = p /\ p \in M /\ \A j \in 1..(k - 1) : P[j] \notin M
  BY PillarNames DEF Foundation!Primary
<1>2. M \subseteq Names /\ (Foundation!IsFoundation(e) <=> M # {})
  BY MatchedNames DEF Foundation!IsFoundation
<1>3. /\ P[1] = "debt" /\ P[2] = "resilience" /\ P[3] = "mentorship" /\ P[4] = "governance"
  BY PillarNames
<1> HIDE DEF M, P
<1>4. /\ Foundation!Primary(e, "debt") <=> "debt" \in M
      /\ Foundation!Primary(e, "resilience") <=> "resilience" \in M /\ "debt" \notin M
      /\ Foundation!Primary(e, "mentorship") <=>
           "mentorship" \in M /\ "debt" \notin M /\ "resilience" \notin M
      /\ Foundation!Primary(e, "governance") <=>
           "governance" \in M /\ "debt" \notin M /\ "resilience" \notin M /\ "mentorship" \notin M
  <2>1. \A p : Foundation!Primary(e, p) <=>
          \/ P[1] = p /\ p \in M
          \/ P[2] = p /\ p \in M /\ P[1] \notin M
          \/ P[3] = p /\ p \in M /\ P[1] \notin M /\ P[2] \notin M
          \/ P[4] = p /\ p \in M /\ P[1] \notin M /\ P[2] \notin M /\ P[3] \notin M
    BY <1>1
  <2> QED
    BY <1>3, <2>1
<1>5. \A p, q \in Names : Foundation!Primary(e, p) /\ Foundation!Primary(e, q) => p = q
  BY <1>4 DEF Names
<1>6. (\E p \in Names : Foundation!Primary(e, p)) <=> M # {}
  BY <1>2, <1>4 DEF Names
<1> QED
  BY <1>2, <1>5, <1>6

LEMMA PillarsPart ==
  ASSUME IsFiniteSet(DOMAIN journals)
  PROVE  Foundation!PillarsPartition
<1> DEFINE A == Under("debt")
           B == Under("resilience")
           C == Under("mentorship")
           D == Under("governance")
           F == {i \in DOMAIN journals : Foundation!IsFoundation(journals[i])}
<1>1. /\ A \cap B = {} /\ (A \cup B) \cap C = {} /\ ((A \cup B) \cup C) \cap D = {}
      /\ ((A \cup B) \cup C) \cup D = F
  <2>1. \A i \in DOMAIN journals :
          /\ \A p, q \in Names : i \in Under(p) /\ i \in Under(q) => p = q
          /\ (\E p \in Names : i \in Under(p)) <=> i \in F
    <3> SUFFICES ASSUME NEW i \in DOMAIN journals
                 PROVE  /\ \A p, q \in Names : i \in Under(p) /\ i \in Under(q) => p = q
                        /\ (\E p \in Names : i \in Under(p)) <=> i \in F
      OBVIOUS
    <3>1. PICK e : e = journals[i]
      OBVIOUS
    <3>2. /\ \A p : i \in Under(p) <=> Foundation!Primary(e, p)
          /\ i \in F <=> Foundation!IsFoundation(e)
      BY <3>1 DEF Under
    <3> HIDE DEF F
    <3> QED
      BY <3>2, OnePillar
  <2>2. \A p : Under(p) \subseteq DOMAIN journals
    BY DEF Under
  <2>3. F \subseteq DOMAIN journals
    OBVIOUS
  <2> HIDE DEF F
  <2> QED
    BY <2>1, <2>2, <2>3 DEF Names
<1>2. /\ IsFiniteSet(A) /\ IsFiniteSet(B) /\ IsFiniteSet(C) /\ IsFiniteSet(D)
      /\ Cardinality(A) \in Nat /\ Cardinality(B) \in Nat /\ Cardinality(C) \in Nat
      /\ Cardinality(D) \in Nat
  <2>1. \A p : IsFiniteSet(Under(p)) /\ Cardinality(Under(p)) \in Nat
    BY FS_Subset, FS_CardinalityType DEF Under
  <2> QED
    BY <2>1
<1> HIDE DEF A, B, C, D, F
<1>3. IsFiniteSet(A \cup B) /\ Cardinality(A \cup B) = Cardinality(A) + Cardinality(B)
  <2>1. Cardinality(A \cap B) = 0
    BY <1>1, FS_EmptySet
  <2>2. /\ IsFiniteSet(A \cup B)
        /\ Cardinality(A \cup B) = Cardinality(A) + Cardinality(B) - Cardinality(A \cap B)
    BY <1>2, FS_Union
  <2> QED
    BY <1>2, <2>1, <2>2
<1>4. /\ IsFiniteSet((A \cup B) \cup C)
      /\ Cardinality((A \cup B) \cup C) = Cardinality(A \cup B) + Cardinality(C)
  <2>1. Cardinality((A \cup B) \cap C) = 0
    BY <1>1, FS_EmptySet
  <2>2. Cardinality(A \cup B) \in Nat
    BY <1>3, FS_CardinalityType
  <2>3. /\ IsFiniteSet((A \cup B) \cup C)
        /\ Cardinality((A \cup B) \cup C)
             = Cardinality(A \cup B) + Cardinality(C) - Cardinality((A \cup B) \cap C)
    BY <1>2, <1>3, FS_Union
  <2> QED
    BY <1>2, <2>1, <2>2, <2>3
<1>5. Cardinality(F) = Cardinality((A \cup B) \cup C) + Cardinality(D)
  <2>1. Cardinality(((A \cup B) \cup C) \cap D) = 0
    BY <1>1, FS_EmptySet
  <2>2. Cardinality((A \cup B) \cup C) \in Nat
    BY <1>4, FS_CardinalityType
  <2>3. Cardinality(((A \cup B) \cup C) \cup D)
          = Cardinality((A \cup B) \cup C) + Cardinality(D)
              - Cardinality(((A \cup B) \cup C) \cap D)
    BY <1>2, <1>4, FS_Union
  <2>4. ((A \cup B) \cup C) \cup D = F
    BY <1>1
  <2> DEFINE G == (A \cup B) \cup C
  <2> HIDE DEF G
  <2>5. Cardinality(F) = Cardinality(G) + Cardinality(D) - 0
    BY <2>1, <2>3, <2>4 DEF G
  <2> QED
    BY <1>2, <2>2, <2>5 DEF G
<1>6. /\ Foundation!PillarCount("debt") = Cardinality(A)
      /\ Foundation!PillarCount("resilience") = Cardinality(B)
      /\ Foundation!PillarCount("mentorship") = Cardinality(C)
      /\ Foundation!PillarCount("governance") = Cardinality(D)
      /\ Foundation!FoundationCount = Cardinality(F)
  BY SameCount DEF Foundation!PillarCount, Foundation!FoundationCount, A, B, C, D, F, Under
<1> QED
  BY <1>2, <1>3, <1>4, <1>5, <1>6 DEF Foundation!PillarsPartition

(* What counts as support by its category, or as foundation work on the      *)
(* server, is foundation work in the browser.                                *)
LEMMA CountedToo ==
  ASSUME NEW e
  PROVE  /\ Foundation!CategoryOf(e) \in Foundation!ShadowCategories => Foundation!IsFoundation(e)
         /\ Foundation!ServerFoundation(e) => Foundation!IsFoundation(e)
<1>1. \A p \in Names : Foundation!Matches(e, p) => Foundation!IsFoundation(e)
  BY PillarNames DEF Foundation!IsFoundation, Foundation!Matched
<1>2. e.category = "maintenance" \/ e.category = "meeting" \/ e.category = "other" =>
        Foundation!IsFoundation(e)
  <2>1. {"maintenance", "meeting", "other"} \subseteq DOMAIN Foundation!Fallback
    BY DEF Foundation!Fallback
  <2> QED
    BY <2>1 DEF Foundation!IsFoundation, Foundation!Matched
<1>3. e.category = "request" => Foundation!IsFoundation(e)
  <2>1. Foundation!PillarCategory["governance"] = "request"
    BY DEF Foundation!PillarCategory
  <2> QED
    BY <1>1, <2>1 DEF Foundation!Matches, Names
<1>4. e.tags \cap Foundation!ServerTags # {} => Foundation!IsFoundation(e)
  <2>1. \A t \in Foundation!ServerTags :
          \E p \in Names : t \in Foundation!PillarTags[p]
    <3>1. /\ Foundation!PillarTags["debt"] =
               {"refactor", "tech-debt", "database", "performance"}
          /\ Foundation!PillarTags["resilience"] =
               {"incident", "devops", "infrastructure", "monitoring", "hotfix"}
          /\ Foundation!PillarTags["mentorship"] =
               {"mentoring", "onboarding", "code-review", "unblocking", "hiring"}
          /\ Foundation!PillarTags["governance"] =
               {"architecture", "security", "compliance", "audit"}
      BY DEF Foundation!PillarTags
    <3>2. Foundation!ServerTags \subseteq
            Foundation!PillarTags["debt"] \cup Foundation!PillarTags["resilience"]
              \cup Foundation!PillarTags["mentorship"] \cup Foundation!PillarTags["governance"]
      BY <3>1 DEF Foundation!ServerTags
    <3> QED
      BY <3>2 DEF Names
  <2> QED
    BY <1>1, <2>1 DEF Foundation!Matches
<1> QED
  BY <1>2, <1>3, <1>4 DEF Foundation!CategoryOf, Foundation!ShadowCategories,
                          Foundation!ServerFoundation

(* Rounding a larger share to the nearest never gives less than truncating a *)
(* smaller one.                                                              *)
LEMMA RoundedNotLess ==
  ASSUME NEW x \in Nat, NEW y \in Nat, NEW t \in Nat \ {0}, x <= y
  PROVE  (100 * x) \div t <= (200 * y + t) \div (2 * t)
<1> DEFINE a == 100 * x
           b == 200 * y + t
           u == 2 * t
           q == a \div t
           r == b \div u
<1>1. a \in Nat /\ b \in Nat /\ u \in Nat \ {0} /\ 2 * a <= b
  OBVIOUS
<1>2. q \in Nat /\ t * q <= a
  <2> HIDE DEF a
  <2> QED
    BY <1>1
<1>3. r \in Int /\ b < u * (r + 1)
  <2> HIDE DEF b, u
  <2> QED
    BY <1>1
<1> HIDE DEF a, b, q, r
<1>4. u * q <= b
  BY <1>1, <1>2
<1> HIDE DEF u
<1>5. ASSUME r + 1 <= q PROVE FALSE
  <2>1. u * (r + 1) <= u * q
    BY <1>1, <1>2, <1>3, <1>5
  <2> QED
    BY <1>1, <1>2, <1>3, <1>4, <2>1
<1>6. q <= r
  BY <1>2, <1>3, <1>5
<1> QED
  BY <1>6 DEF q, r, a, b, u

LEMMA SharesRight ==
  ASSUME NEW S, journals \in Seq(S)
  PROVE  Foundation!SharesOrdered
<1> DEFINE D == DOMAIN journals
           F == {i \in D : Foundation!IsFoundation(journals[i])}
           H == {i \in D : Foundation!CategoryOf(journals[i]) \in Foundation!ShadowCategories}
           G == {i \in D : Foundation!ServerFoundation(journals[i])}
<1>1. D = 1..Len(journals) /\ Len(journals) \in Nat /\ IsFiniteSet(D)
  BY FS_Interval
<1>2. H \subseteq F /\ G \subseteq F
  BY CountedToo
<1>3. F \subseteq D
  OBVIOUS
<1>4. /\ Foundation!ShadowCount = Cardinality(H) /\ Foundation!FoundationCount = Cardinality(F)
      /\ Foundation!ServerCount = Cardinality(G)
  BY SameCount DEF Foundation!ShadowCount, Foundation!FoundationCount, Foundation!ServerCount
<1> HIDE DEF D, F, G, H
<1>5. IsFiniteSet(F) /\ Cardinality(F) \in Nat
  BY <1>1, <1>3, FS_Subset, FS_CardinalityType
<1>6. /\ Cardinality(H) <= Cardinality(F) /\ Cardinality(G) <= Cardinality(F)
      /\ Cardinality(G) \in Nat
  <2>1. IsFiniteSet(G) /\ IsFiniteSet(H)
    BY <1>2, <1>5, FS_Subset
  <2> QED
    BY <1>2, <1>5, <2>1, FS_Subset, FS_CardinalityType
<1>7. Foundation!ServerIwq <= Foundation!Iwq
  <2>1. CASE Len(journals) = 0
    BY <2>1 DEF Foundation!ServerIwq, Foundation!Iwq, Foundation!Truncated,
                Foundation!Rounded, Foundation!Total
  <2>2. CASE Len(journals) # 0
    <3> DEFINE x == Cardinality(G)
               y == Cardinality(F)
               t == Len(journals)
    <3>1. /\ Foundation!ServerIwq = (100 * x) \div t
          /\ Foundation!Iwq = (200 * y + t) \div (2 * t)
      BY <1>4, <2>2 DEF Foundation!ServerIwq, Foundation!Iwq, Foundation!Truncated,
                        Foundation!Rounded, Foundation!Total
    <3>2. x \in Nat /\ y \in Nat /\ t \in Nat \ {0} /\ x <= y
      BY <1>1, <1>5, <1>6, <2>2
    <3> HIDE DEF x, y, t
    <3>3. PICK i \in Nat, j \in Nat, k \in Nat \ {0} : i = x /\ j = y /\ k = t
      BY <3>2
    <3>4. (100 * i) \div k <= (200 * j + k) \div (2 * k)
      <4>1. i <= j
        BY <3>2, <3>3
      <4> QED
        BY <4>1, RoundedNotLess, Zenon
    <3> QED
      BY <3>1, <3>3, <3>4
  <2> QED
    BY <2>1, <2>2
<1> QED
  BY <1>4, <1>6, <1>7 DEF Foundation!SharesOrdered

LEMMA WritingKeeps ==
  ASSUME journals \in Seq(Written), Foundation!FoundationNext
  PROVE  journals' \in Seq(Written)
<1>1. CASE Foundation!Write
  <2>1. PICK e \in Written : journals' = Append(journals, e)
    BY <1>1 DEF Foundation!Write
  <2> QED
    BY <2>1
<1>2. CASE Foundation!Withdraw
  <2>1. Len(journals) > 0 /\ journals' = Tail(journals)
    BY <1>2 DEF Foundation!Withdraw, Foundation!Total
  <2>2. journals # <<>>
    BY <2>1
  <2> QED
    BY <2>1, <2>2
<1> QED
  BY <1>1, <1>2 DEF Foundation!FoundationNext

------------------------------------------------------------------------------
(* The calendar.  The days coloured are the active days from the first to    *)
(* the last one, which the grid takes in for any bounds.                     *)
CalendarInv(c) == c \in Calendar!Calendar /\ IsFiniteSet(c.wins)

LEMMA CellTyped ==
  ASSUME CalendarInv(calendar), NEW d \in Int
  PROVE  Calendar!CellOf(d) \in Calendar!Cell
<1>1. Calendar!CountOf(d) \in 0..Most /\ 0 \in 0..Most
  <2>1. calendar.entries \in [Days -> 0..Most] /\ Most \in Nat
    BY BoundsAssumption DEF CalendarInv, Calendar!Calendar
  <2> QED
    BY <2>1 DEF Calendar!CountOf
<1>2. Calendar!Cardinality({w \in calendar.wins : Calendar!WinDay(w) = d}) \in Nat
  <2> DEFINE W == {w \in calendar.wins : Calendar!WinDay(w) = d}
  <2>1. W \subseteq calendar.wins
    OBVIOUS
  <2> HIDE DEF W
  <2>2. Cardinality(W) \in Nat
    BY <2>1, FS_Subset, FS_CardinalityType DEF CalendarInv
  <2> QED
    BY <2>2, SameCount DEF W
<1> QED
  BY <1>1, <1>2 DEF Calendar!CellOf, Calendar!Cell

LEMMA DaysTyped ==
  ASSUME CalendarInv(calendar)
  PROVE  /\ calendar.range[1] \in Int /\ calendar.range[2] \in Int
         /\ Calendar!First \in Int /\ Calendar!Last \in Int
         /\ Calendar!Grid \subseteq Int
<1>1. calendar.range \in Ranges
  BY DEF CalendarInv, Calendar!Calendar
<1>2. calendar.range \in Int \X Int
  BY <1>1, DaysAssumption
<1>3. calendar.range[1] \in Int /\ calendar.range[2] \in Int
  BY <1>2
<1>4. Calendar!First \in Int /\ Calendar!Last \in Int
  BY <1>3 DEF Calendar!First, Calendar!Last, Calendar!LocalDay
<1> QED
  BY <1>3, <1>4 DEF Calendar!Grid

LEMMA CalendarNextKeeps ==
  ASSUME CalendarInv(calendar), Calendar!CalendarNext
  PROVE  CalendarInv(calendar')
<1>1. calendar \in Calendar!Calendar /\ IsFiniteSet(calendar.wins)
  BY DEF CalendarInv
<1>2. CASE Calendar!Supply
  <2>1. ASSUME NEW d \in Days, NEW n \in 0..Most,
               calendar' = [calendar EXCEPT !.entries[d] = n]
        PROVE  CalendarInv(calendar')
    <3> DEFINE f == [calendar.entries EXCEPT ![d] = n]
    <3>1. f \in [Days -> 0..Most] /\ calendar' = [calendar EXCEPT !.entries = f]
      BY <1>1, <2>1 DEF Calendar!Calendar
    <3> HIDE DEF f
    <3> QED
      BY <1>1, <3>1 DEF CalendarInv, Calendar!Calendar
  <2>2. ASSUME NEW w \in Calendar!Stamps,
               calendar' = [calendar EXCEPT !.wins = IF @ = {} THEN {w} ELSE @ \ {w}]
        PROVE  CalendarInv(calendar')
    <3> DEFINE W == IF calendar.wins = {} THEN {w} ELSE calendar.wins \ {w}
    <3>1. W \in SUBSET Calendar!Stamps /\ calendar' = [calendar EXCEPT !.wins = W]
      BY <1>1, <2>2 DEF Calendar!Calendar
    <3>2. IsFiniteSet(W)
      BY <1>1, FS_Singleton, FS_Subset
    <3> HIDE DEF W
    <3> QED
      BY <1>1, <3>1, <3>2 DEF CalendarInv, Calendar!Calendar
  <2>3. ASSUME NEW r \in Ranges, calendar' = [calendar EXCEPT !.range = r]
        PROVE  CalendarInv(calendar')
    BY <1>1, <2>3 DEF CalendarInv, Calendar!Calendar
  <2> QED
    BY <1>2, <2>1, <2>2, <2>3 DEF Calendar!Supply
<1>3. CASE Calendar!ClickCell
  <2>1. PICK c \in Calendar!Cells :
          calendar' = [calendar EXCEPT !.selected =
                         IF @ # None /\ calendar.selected.day = c.day THEN None ELSE c]
    BY <1>3 DEF Calendar!ClickCell
  <2>2. c \in Calendar!Cell
    BY CellTyped, DaysTyped DEF Calendar!Cells
  <2>3. PICK s \in Calendar!Cell \cup {None} : calendar' = [calendar EXCEPT !.selected = s]
    <3> DEFINE s == IF calendar.selected # None /\ calendar.selected.day = c.day THEN None ELSE c
    <3>1. calendar' = [calendar EXCEPT !.selected = s]
      BY <1>1, <2>1 DEF Calendar!Calendar
    <3>2. s \in Calendar!Cell \cup {None}
      BY <2>2
    <3> QED
      BY <3>1, <3>2
  <2> QED
    BY <1>1, <2>3 DEF CalendarInv, Calendar!Calendar
<1>4. CASE Calendar!SwitchLens
  <2>1. PICK l \in {"volume", "category"} : calendar' = [calendar EXCEPT !.lens = l]
    BY <1>4 DEF Calendar!SwitchLens
  <2> QED
    BY <1>1, <2>1 DEF CalendarInv, Calendar!Calendar
<1>5. CASE Calendar!ClosePeek
  BY <1>1, <1>5 DEF CalendarInv, Calendar!Calendar, Calendar!ClosePeek
<1> QED
  BY <1>2, <1>3, <1>4, <1>5 DEF Calendar!CalendarNext

LEMMA CalendarMountedRight ==
  ASSUME calendar' \in Calendar!CalendarMounted
  PROVE  CalendarInv(calendar')
<1>1. PICK z \in Calendar!Zones, b \in {"instants", "dates"}, r \in Ranges :
        calendar' = [zone |-> z, bounds |-> b, range |-> r, entries |-> [d \in Days |-> 0],
                     wins |-> {}, lens |-> "volume", selected |-> None]
  BY DEF Calendar!CalendarMounted
<1>2. [d \in Days |-> 0] \in [Days -> 0..Most] /\ {} \in SUBSET Calendar!Stamps
  BY BoundsAssumption
<1>3. calendar' \in Calendar!Calendar /\ calendar'.wins = {}
  BY <1>1, <1>2 DEF Calendar!Calendar
<1> QED
  BY <1>3, FS_EmptySet DEF CalendarInv

(* Whole weeks, whatever the days.                                           *)
LEMMA WholeWeeks ==
  ASSUME NEW a \in Int, NEW b \in Int
  PROVE  Cardinality((a - (a % 7)) .. (b + 6 - (b % 7))) % 7 = 0
<1> DEFINE f == a - (a % 7)
           l == b + 6 - (b % 7)
<1>1. PICK i \in Int, j \in Int : f = 7 * i /\ l = 7 * j + 6
  <2>1. f = 7 * (a \div 7) /\ l = 7 * (b \div 7) + 6 /\ a \div 7 \in Int /\ b \div 7 \in Int
    OBVIOUS
  <2> QED
    BY <2>1
<1>2. Cardinality(f..l) = IF f > l THEN 0 ELSE l - f + 1
  BY <1>1, FS_Interval
<1> HIDE DEF f, l
<1>3. f > l \/ l - f + 1 = 7 * (j - i + 1)
  BY <1>1
<1>4. (7 * (j - i + 1)) % 7 = 0 /\ 0 % 7 = 0
  BY <1>1
<1> QED
  BY <1>2, <1>3, <1>4 DEF f, l

(* A day of the range lies in the grid.                                      *)
LEMMA GridCovers ==
  ASSUME CalendarInv(calendar), NEW d \in Int, Calendar!InRange(d)
  PROVE  d \in Calendar!Grid
<1>1. Calendar!First \in Int /\ Calendar!Last \in Int
  BY DaysTyped
<1>2. PICK a \in Int, b \in Int : a = Calendar!First /\ b = Calendar!Last
  BY <1>1
<1>3. Calendar!Grid = (a - (a % 7)) .. (b + 6 - (b % 7)) /\ a <= d /\ d <= b
  BY <1>2 DEF Calendar!Grid, Calendar!WeekDay, Calendar!InRange
<1>4. a % 7 \in 0..6 /\ b % 7 \in 0..6
  BY <1>2
<1> QED
  BY <1>2, <1>3, <1>4

LEMMA ColouredRight ==
  ASSUME CalendarInv(calendar)
  PROVE  Calendar!Coloured = {d \in Calendar!ActiveDays : Calendar!InRange(d)}
<1>1. /\ calendar.entries \in [Days -> 0..Most] /\ Most \in Nat /\ Days \subseteq Int
  BY BoundsAssumption, DaysAssumption DEF CalendarInv, Calendar!Calendar
<1>2. ASSUME NEW d \in Int
      PROVE  /\ Calendar!CellOf(d).day = d
             /\ Calendar!Level(Calendar!CellOf(d)) > 0 <=>
                  d \in Calendar!ActiveDays /\ Calendar!InRange(d)
  <2>1. Calendar!CellOf(d).day = d /\ Calendar!CellOf(d).count =
          IF Calendar!InRange(d) THEN Calendar!CountOf(d) ELSE 0
    BY DEF Calendar!CellOf
  <2>2. Calendar!CellOf(d).count \in Nat
    <3>1. Calendar!CellOf(d).count \in 0..Most
      BY CellTyped DEF Calendar!Cell
    <3> QED
      BY <1>1, <3>1
  <2>3. Calendar!Level(Calendar!CellOf(d)) > 0 <=> Calendar!CellOf(d).count > 0
    BY <2>2 DEF Calendar!Level
  <2>4. Calendar!CountOf(d) > 0 <=> d \in Calendar!ActiveDays
    BY <1>1 DEF Calendar!CountOf, Calendar!ActiveDays
  <2> QED
    BY <2>1, <2>3, <2>4
<1>3. Calendar!Grid \subseteq Int
  BY DaysTyped
<1>4. Calendar!Coloured =
        {d \in Calendar!Grid : d \in Calendar!ActiveDays /\ Calendar!InRange(d)}
  <2>1. ASSUME NEW d
        PROVE  d \in Calendar!Coloured <=>
                 \E x \in Calendar!Grid :
                   Calendar!CellOf(x).day = d /\ Calendar!Level(Calendar!CellOf(x)) > 0
    BY DEF Calendar!Coloured, Calendar!Cells
  <2> QED
    BY <1>2, <1>3, <2>1
<1>5. \A d \in Calendar!ActiveDays : d \in Int
  BY <1>1 DEF Calendar!ActiveDays
<1> QED
  BY <1>4, <1>5, GridCovers

LEMMA MarkedRight ==
  ASSUME CalendarInv(calendar), NEW w \in calendar.wins, w[2] = "date",
         w[1] \in Int, Calendar!InRange(w[1])
  PROVE  w[1] \in Calendar!Marked
<1> DEFINE d == w[1]
           W == {x \in calendar.wins : Calendar!WinDay(x) = d}
<1>1. Calendar!WinDay(w) = d
  BY DEF Calendar!WinDay
<1>2. w \in W /\ W \subseteq calendar.wins
  BY <1>1
<1> HIDE DEF W
<1>3. Cardinality(W) > 0
  <2>1. IsFiniteSet(W) /\ Cardinality(W) \in Nat
    BY <1>2, FS_Subset, FS_CardinalityType DEF CalendarInv
  <2>2. Cardinality(W) # 0
    BY <1>2, <2>1, FS_EmptySet
  <2> QED
    BY <2>1, <2>2
<1>4. Calendar!CellOf(d).wins > 0 /\ Calendar!CellOf(d).day = d
  <2>1. Calendar!CellOf(d).wins = Calendar!Cardinality(W) /\ Calendar!CellOf(d).day = d
    BY DEF Calendar!CellOf, W
  <2> QED
    BY <1>3, <2>1, SameCount
<1>5. Calendar!CellOf(d) \in Calendar!Cells
  BY GridCovers DEF Calendar!Cells
<1> QED
  BY <1>4, <1>5 DEF Calendar!Marked

LEMMA CalendarInvComplete ==
  ASSUME CalendarInv(calendar)
  PROVE  Calendar!CalendarComplete
<1> DEFINE f == calendar.range[1]
           l == calendar.range[2]
           period == f..l
           shown  == IF Calendar!Early THEN period \ {l} ELSE period
           A == Calendar!ActiveDays
<1>1. /\ f \in Int /\ l \in Int /\ A \subseteq Int
      /\ Calendar!First \in Int /\ Calendar!Last \in Int
  BY DaysTyped, DaysAssumption DEF Calendar!ActiveDays
<1>2. Calendar!Cardinality(Calendar!Grid) % 7 = 0
  <2>1. PICK a \in Int, b \in Int : a = Calendar!First /\ b = Calendar!Last
    BY <1>1
  <2>2. Calendar!Grid = (a - (a % 7)) .. (b + 6 - (b % 7))
    BY <2>1 DEF Calendar!Grid, Calendar!WeekDay
  <2>3. Cardinality(Calendar!Grid) % 7 = 0
    BY <2>2, WholeWeeks
  <2> QED
    BY <2>3, SameCount
<1>3. /\ \A d \in Int : d \in shown => Calendar!InRange(d)
      /\ \A d \in Int : d \in period /\ Calendar!InRange(d) => d \in shown
  BY <1>1 DEF Calendar!InRange, Calendar!First, Calendar!Last, Calendar!LocalDay
<1>4. Calendar!Coloured = {d \in A : Calendar!InRange(d)}
  BY ColouredRight
<1>5. A \cap shown \subseteq Calendar!Coloured
  BY <1>1, <1>3, <1>4
<1>6. ASSUME A \subseteq period
      PROVE  Calendar!Badge.days - Calendar!Cardinality(Calendar!Coloured)
               = Calendar!Cardinality(A \ shown)
  <2>1. IsFiniteSet(A)
    BY <1>1, <1>6, FS_Interval, FS_Subset
  <2>2. Calendar!Coloured = A \cap shown
    BY <1>1, <1>3, <1>4, <1>6
  <2> HIDE DEF shown, A
  <2>3. /\ IsFiniteSet(A \cap shown) /\ IsFiniteSet(A \ shown)
        /\ Cardinality(A \cap shown) \in Nat /\ Cardinality(A \ shown) \in Nat
    <3>1. A \cap shown \subseteq A /\ A \ shown \subseteq A
      OBVIOUS
    <3> QED
      BY <2>1, <3>1, FS_Subset, FS_CardinalityType
  <2>4. Cardinality(A) = Cardinality(A \cap shown) + Cardinality(A \ shown)
    <3>1. (A \cap shown) \cup (A \ shown) = A /\ (A \cap shown) \cap (A \ shown) = {}
      OBVIOUS
    <3>2. Cardinality((A \cap shown) \cup (A \ shown)) =
            Cardinality(A \cap shown) + Cardinality(A \ shown)
              - Cardinality((A \cap shown) \cap (A \ shown))
      BY <2>3, FS_Union
    <3>3. Cardinality((A \cap shown) \cap (A \ shown)) = 0
      BY <3>1, FS_EmptySet
    <3>4. Cardinality((A \cap shown) \cup (A \ shown)) = Cardinality(A)
      BY <3>1
    <3> QED
      BY <2>3, <3>2, <3>3, <3>4
  <2>5. Calendar!Badge.days = Cardinality(A)
    BY SameCount DEF Calendar!Badge, A
  <2> QED
    BY <2>2, <2>3, <2>4, <2>5, SameCount
<1>7. ASSUME NEW w \in calendar.wins, w[2] = "date", w[1] \in shown
      PROVE  w[1] \in Calendar!Marked
  <2>1. w[1] \in Int
    BY <1>1, <1>7
  <2> QED
    BY <1>3, <1>7, <2>1, MarkedRight
<1> QED
  BY <1>2, <1>5, <1>6, <1>7 DEF Calendar!CalendarComplete

------------------------------------------------------------------------------
(* The pages under their router.                                             *)
LEMMA OtherPages ==
  ASSUME [Next]_vars
  PROVE  /\ screen' = "journals" =>
              \/ Mounts("journals")
              \/ screen = "journals" /\ (Archive!ListNext \/ UNCHANGED list)
         /\ screen' = "entry" =>
              \/ Mounts("entry")
              \/ screen = "entry" /\ (Detail!ViewNext \/ UNCHANGED view)
         /\ screen' = "pack" =>
              \/ Mounts("pack")
              \/ screen = "pack" /\ (Packed!PackNext \/ UNCHANGED pack)
         /\ screen' = "achievements" =>
              \/ Mounts("achievements")
              \/ screen = "achievements" /\ (Shelf!ShelfNext \/ UNCHANGED shelf)
         /\ screen' = "calendar" =>
              \/ Mounts("calendar")
              \/ screen = "calendar" /\ (Calendar!CalendarNext \/ UNCHANGED calendar)
         /\ screen' = "foundation" =>
              \/ Mounts("foundation")
              \/ screen = "foundation" /\ (Foundation!FoundationNext \/ UNCHANGED journals)
         /\ screen' = "team" =>
              \/ Mounts("team")
              \/ screen = "team" /\ (Desk!TeamNext \/ UNCHANGED team)
<1>1. CASE SignIn \/ Leave \/ SignOut
  BY <1>1 DEF SignIn, Leave, SignOut
<1>2. CASE Visit
  BY <1>2 DEF Visit
<1>3. CASE UNCHANGED vars
  BY <1>3 DEF vars, parts
<1>4. CASE \/ On("journals") /\ Archive!ListNext
           \/ On("entry") /\ Detail!ViewNext
           \/ On("pack") /\ Packed!PackNext
  BY <1>4 DEF On
<1>5. CASE \/ On("achievements") /\ Shelf!ShelfNext
           \/ On("calendar") /\ Calendar!CalendarNext
           \/ On("foundation") /\ Foundation!FoundationNext
           \/ On("team") /\ Desk!TeamNext
  BY <1>5 DEF On
<1>6. CASE On("review") \/ On("search") \/ On("calibrate")
  BY <1>6 DEF On
<1> QED
  BY <1>1, <1>2, <1>3, <1>4, <1>5, <1>6 DEF Next

OnJournals == screen = "journals" => ListInv(list)
OnEntry    == screen = "entry" => ViewInv(view)
OnPack     == screen = "pack" => PackInv(pack)
OnShelf    == screen = "achievements" => ShelfInv(shelf)
OnCalendar == screen = "calendar" => CalendarInv(calendar)
OnWork     == screen = "foundation" => journals \in Seq(Written)

LEMMA OnJournalsAlways == Spec => []OnJournals
<1>1. Init => OnJournals
  BY DEF Init, OnJournals
<1>2. OnJournals /\ [Next]_vars => OnJournals'
  <2>1. Mounts("journals") => list' = Archive!ListMounted
    BY DEF Mounts
  <2> QED
    BY <2>1, OtherPages, ListNextKeeps, ListMountedRight DEF OnJournals
<1> QED
  BY <1>1, <1>2, PTL DEF Spec

LEMMA OnEntryAlways == Spec => []OnEntry
<1>1. Init => OnEntry
  BY DEF Init, OnEntry
<1>2. OnEntry /\ [Next]_vars => OnEntry'
  <2>1. Mounts("entry") => view' \in Detail!ViewMounted
    BY DEF Mounts
  <2> QED
    BY <2>1, OtherPages, ViewNextKeeps, ViewMountedRight DEF OnEntry
<1> QED
  BY <1>1, <1>2, PTL DEF Spec

LEMMA OnPackAlways == Spec => []OnPack
<1>1. Init => OnPack
  BY DEF Init, OnPack
<1>2. OnPack /\ [Next]_vars => OnPack'
  <2>1. Mounts("pack") => pack' \in Packed!PackMounted
    BY DEF Mounts
  <2> QED
    BY <2>1, OtherPages, PackNextKeeps, PackMountedRight DEF OnPack
<1> QED
  BY <1>1, <1>2, PTL DEF Spec

LEMMA OnShelfAlways == Spec => []OnShelf
<1>1. Init => OnShelf
  BY DEF Init, OnShelf
<1>2. OnShelf /\ [Next]_vars => OnShelf'
  <2>1. Mounts("achievements") => shelf' \in Shelf!ShelfMounted
    BY DEF Mounts
  <2> QED
    BY <2>1, OtherPages, ShelfNextKeeps, ShelfMountedRight DEF OnShelf
<1> QED
  BY <1>1, <1>2, PTL DEF Spec

LEMMA OnCalendarAlways == Spec => []OnCalendar
<1>1. Init => OnCalendar
  BY DEF Init, OnCalendar
<1>2. OnCalendar /\ [Next]_vars => OnCalendar'
  <2>1. Mounts("calendar") => calendar' \in Calendar!CalendarMounted
    BY DEF Mounts
  <2> QED
    BY <2>1, OtherPages, CalendarNextKeeps, CalendarMountedRight DEF OnCalendar
<1> QED
  BY <1>1, <1>2, PTL DEF Spec

LEMMA OnWorkAlways == Spec => []OnWork
<1>1. Init => OnWork
  BY DEF Init, OnWork
<1>2. OnWork /\ [Next]_vars => OnWork'
  <2>1. Mounts("foundation") => journals' = <<>>
    BY DEF Mounts
  <2>2. <<>> \in Seq(Written)
    OBVIOUS
  <2> QED
    BY <2>1, <2>2, OtherPages, WritingKeeps DEF OnWork
<1> QED
  BY <1>1, <1>2, PTL DEF Spec

(* JournalListPage: once all has been answered, the rows shown are the       *)
(* newest of the filters on the page and each has its details.               *)
THEOREM ListCorrect == Spec => []ListSettles
<1>1. OnJournals => ListSettles
  BY ListInvSettles DEF OnJournals, ListSettles
<1> QED
  BY <1>1, OnJournalsAlways, PTL

(* JournalDetailPage: at rest the page shows the entry of the address with   *)
(* the achievements the server links to it.                                  *)
THEOREM ViewCorrect == Spec => []ViewSettles
<1>1. OnEntry => ViewSettles
  BY ViewInvSettles DEF OnEntry, ViewSettles
<1> QED
  BY <1>1, OnEntryAlways, PTL

(* ReviewPackModal: after printing, the document is in the user's theme.     *)
THEOREM PaperCorrect == Spec => []PaperRestored
<1>1. OnPack => PaperRestored
  <2>1. Packed!Printing <=> Running(pack.prints) # {}
    BY PrintingRuns
  <2> QED
    BY <2>1 DEF OnPack, PackInv, PaperOwn, PaperRestored, Packed!PaperRestored
<1> QED
  BY <1>1, OnPackAlways, PTL

(* ReviewPackModal: the sheet printed and the text copied have the same      *)
(* sections under the same numbers.                                          *)
THEOREM SectionsCorrect == Spec => []SectionsAgree
<1>1. OnPack => SectionsAgree
  BY SectionsSame DEF OnPack, PackInv, SectionsAgree
<1> QED
  BY <1>1, OnPackAlways, PTL

(* AchievementsPage: the step that ends the loop leaves every entry picked   *)
(* linked on the server, and at rest the page shows what the server has.     *)
THEOREM EvidenceCorrect == Spec => EvidenceLinked
<1>1. /\ OnShelf /\ OnShelf' /\ [Next]_vars
      => [screen = "achievements" /\ screen' = "achievements" => Shelf!LinkedWhenDone]_vars
  <2> SUFFICES ASSUME OnShelf, Next, screen = "achievements", screen' = "achievements"
               PROVE  Shelf!LinkedWhenDone
    OBVIOUS
  <2>1. Shelf!ShelfNext
    BY DEF Next, On, SignIn, Visit, Leave, SignOut
  <2>2. ShelfInv(shelf') /\ LinkedStep
    BY <2>1, ShelfNextKeeps DEF OnShelf
  <2> QED
    BY <2>2 DEF Shelf!LinkedWhenDone, LinkedStep, ShelfInv, Clear, Shelf!Pending
<1> QED
  BY <1>1, OnShelfAlways, PTL DEF Spec, EvidenceLinked

(* ActivityCalendar: the grid is of whole weeks, and its coloured cells are  *)
(* the days with entries of the period, but for the last one in the west.    *)
THEOREM CalendarCorrect == Spec => []CalendarComplete
<1>1. OnCalendar => CalendarComplete
  BY CalendarInvComplete DEF OnCalendar, CalendarComplete
<1> QED
  BY <1>1, OnCalendarAlways, PTL

(* foundationWorkUtils: the entries of the four pillars add up to the        *)
(* foundation entries, whatever entries are written.                         *)
THEOREM PillarsCorrect == Spec => []PillarsPartition
<1>1. OnWork => PillarsPartition
  <2>1. journals \in Seq(Written) => IsFiniteSet(DOMAIN journals)
    <3> SUFFICES ASSUME journals \in Seq(Written) PROVE IsFiniteSet(DOMAIN journals)
      OBVIOUS
    <3>1. DOMAIN journals = 1..Len(journals) /\ Len(journals) \in Nat
      OBVIOUS
    <3> QED
      BY <3>1, FS_Interval
  <2> QED
    BY <2>1, PillarsPart DEF OnWork, PillarsPartition
<1> QED
  BY <1>1, OnWorkAlways, PTL

(* The share by category never exceeds the one by pillar, nor the server's   *)
(* share the browser's, whatever entries are written.                        *)
THEOREM SharesCorrect == Spec => []SharesOrdered
<1>1. OnWork => SharesOrdered
  BY SharesRight DEF OnWork, SharesOrdered
<1> QED
  BY <1>1, OnWorkAlways, PTL
==============================================================================
