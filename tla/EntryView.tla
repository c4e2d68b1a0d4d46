------------------------------- MODULE EntryView -------------------------------
(***************************************************************************)
(* The page of one journal entry (frontend/src/pages/JournalDetailPage.jsx)  *)
(* with its dialog for linking achievements (LinkToAchievementModal.jsx).    *)
(* The page stays mounted when the address names another entry: it loads     *)
(* the entry, then what belongs to it, and calls nothing back.  What it does *)
(* to an entry is answered while it may already be showing another.          *)
(***************************************************************************)
EXTENDS Naturals, FiniteSets

CONSTANTS
  Ids,        \* entries of the user
  Wins,       \* achievements, made and still to be made
  Made,       \* the achievements made before
  Pictures,   \* how many attachments each entry has
  None,       \* nothing shown, open, chosen
  MaxVisits,  \* bound: addresses visited
  MaxCalls    \* bound: requests under way besides the loads

VARIABLE view   \* the page and what the server has of it, see View

Loads == [n : 1..MaxVisits, id : Ids, stage : {"entry", "rest"}]

(* A call is about the entry id; at is the entry the address named then.     *)
Calls == [do : {"link", "create", "unlink", "refresh", "delete"},
          id : Ids, at : Ids, win : Wins \cup {None}]

Indexes == UNION {0..Pictures[i] : i \in Ids}

View == [id      : Ids,                    \* of the address
         newest  : 1..MaxVisits,           \* loads started
         loads   : SUBSET Loads,           \* loads under way
         loading : BOOLEAN,
         error   : BOOLEAN,
         journal : Ids \cup {None},
         wins    : SUBSET Wins,            \* achievements
         pictures: Indexes,                \* attachments.length
         image   : Indexes \cup {None},    \* activeImageIndex
         dialog  : {"link", "confirm", None},  \* isLinkModalOpen, showDeleteConfirm
         chosen  : Wins \cup {None},       \* selectedAchievementId
         busy    : BOOLEAN,                \* submitting
         calls   : SUBSET Calls,           \* other requests under way
         made    : SUBSET Wins,            \* server: the achievements
         linked  : SUBSET (Ids \X Wins),   \* server: achievement_journals
         first   : [Wins -> Ids \cup {None}],  \* server: achievements.journal_id
         gone    : BOOLEAN,                \* left for the list after a deletion
         doubt   : BOOLEAN]                \* history: see ViewSettles

(* The loading and the error screen take the place of everything else.       *)
Visible == ~view.loading /\ ~view.error /\ view.journal # None /\ ~view.gone
Plain   == Visible /\ view.dialog = None /\ view.image = None
Busy    == view.loads # {} \/ view.calls # {}

(* GetAchievementsByJournal: those linked, and those the entry is first of.  *)
WinsOf(id) == {w \in Wins : <<id, w>> \in view.linked \/ view.first[w] = id}

(* The bar under the title offers a first link, the spotlight of the first   *)
(* achievement another one and its unlinking; the copied snippet names all.  *)
Spotlight == IF view.wins = {} THEN "anchor" ELSE "achievement"
Snippet   == [of |-> view.journal, wins |-> view.wins]

------------------------------------------------------------------------------
(* Another address: the rail, Back or Forward.  The dialog is unmounted with *)
(* the rest of the page, its being open is not forgotten.                    *)
Navigate ==
  /\ ~view.gone /\ view.newest < MaxVisits
  /\ \E id \in Ids \ {view.id} :
       view' = [view EXCEPT !.id = id, !.newest = @ + 1, !.loading = TRUE, !.error = FALSE,
                  !.loads = @ \cup {[n |-> view.newest + 1, id |-> id, stage |-> "entry"]},
                  !.busy = FALSE, !.chosen = None,
                  !.doubt = Busy \/ view.image # None]

(* The entry itself arrives, or cannot be had, and ends the load.            *)
EntryArrives ==
  \E l \in view.loads :
    /\ l.stage = "entry"
    /\ \/ view' = [view EXCEPT !.journal = l.id, !.chosen = None,
                     !.loads = (@ \ {l}) \cup {[l EXCEPT !.stage = "rest"]}]
       \/ view' = [view EXCEPT !.error = TRUE, !.loading = FALSE, !.loads = @ \ {l}]

(* Then its achievements and attachments: what failed stays as it was.       *)
RestArrives ==
  \E l \in view.loads, gotWins, gotPictures \in BOOLEAN :
    /\ l.stage = "rest"
    /\ view' = [view EXCEPT !.loads = @ \ {l}, !.loading = FALSE,
                  !.wins     = IF gotWins THEN WinsOf(l.id) ELSE @,
                  !.pictures = IF gotPictures THEN Pictures[l.id] ELSE @,
                  !.doubt    = @ \/ ~gotWins \/ ~gotPictures]

------------------------------------------------------------------------------
(* The lightbox.                                                             *)
OpenImage ==
  /\ Plain
  /\ \E i \in Indexes : i < view.pictures /\ view' = [view EXCEPT !.image = i]

(* handleNextImage, handlePrevImage and the arrow keys.                      *)
Turned(step) ==
  IF view.pictures = 0 THEN None ELSE (view.image + step + view.pictures) % view.pictures

TurnImage ==
  /\ Visible /\ view.image # None
  /\ \E step \in {1, view.pictures - 1} : view' = [view EXCEPT !.image = Turned(step)]

CloseImage ==
  /\ view.image # None
  /\ view' = [view EXCEPT !.image = None]

------------------------------------------------------------------------------
Sent(c) ==
  [view EXCEPT !.calls = @ \cup {c}, !.doubt = @ \/ Busy]

CanSend == Cardinality(view.calls) < MaxCalls

OpenLink ==
  /\ Plain
  /\ view' = [view EXCEPT !.dialog = "link", !.chosen = None]

(* The list offers what is not linked to the entry as the page knows it.     *)
ChooseWin ==
  /\ Visible /\ view.dialog = "link"
  /\ \E w \in view.made \ view.wins : view' = [view EXCEPT !.chosen = w]

(* handleLinkExisting.                                                       *)
LinkExisting ==
  /\ Visible /\ view.dialog = "link" /\ ~view.busy /\ CanSend
  /\ view.chosen # None
  /\ view' = [Sent([do |-> "link", id |-> view.journal, at |-> view.id, win |-> view.chosen])
                EXCEPT !.busy = TRUE]

(* handleCreateNew: the server makes the achievement with this entry as its  *)
(* first one, and the link.                                                  *)
CreateNew ==
  /\ Visible /\ view.dialog = "link" /\ ~view.busy /\ CanSend
  /\ \E w \in Wins \ view.made :
       view' = [Sent([do |-> "create", id |-> view.journal, at |-> view.id, win |-> w])
                  EXCEPT !.busy = TRUE]

(* Escape and the overlay close the dialog while it submits.                 *)
CloseLink ==
  /\ Visible /\ view.dialog = "link"
  /\ view' = [view EXCEPT !.dialog = None]

(* variant: the page is refreshed only if the dialog is still open           *)
RefreshedIfOpen(c) ==
  IF view.dialog = "link" THEN {[c EXCEPT !.do = "refresh", !.id = c.at, !.win = None]} ELSE {}

(* handleLinkSuccess asks again for the entry that the address named when    *)
(* the link was sent.                                                        *)
Refreshed(c) == {[c EXCEPT !.do = "refresh", !.id = c.at, !.win = None]}

(* Linked; or refused; or linked while the answer is lost.                   *)
LinkAnswers ==
  \E c \in view.calls :
    LET idle   == [view EXCEPT !.calls = @ \ {c}, !.busy = FALSE]
        linked == [idle EXCEPT !.made = @ \cup {c.win}, !.linked = @ \cup {<<c.id, c.win>>},
                     !.first[c.win] = IF c.do = "create" THEN c.id ELSE @]
    IN  /\ c.do \in {"link", "create"}
        /\ \/ view' = [linked EXCEPT !.calls = @ \cup Refreshed(c),
                         !.dialog = IF @ = "link" THEN None ELSE @]
           \/ view' = idle
           \/ view' = [linked EXCEPT !.doubt = TRUE]

RefreshAnswers ==
  \E c \in view.calls :
    /\ c.do = "refresh"
    /\ \/ view' = [view EXCEPT !.calls = @ \ {c}, !.wins = WinsOf(c.id)]
       \/ view' = [view EXCEPT !.calls = @ \ {c}, !.doubt = TRUE]

(* handleUnlinkAchievement names the entry of the address.                   *)
Unlink ==
  /\ Plain /\ Spotlight = "achievement" /\ CanSend
  /\ \E w \in view.wins : view' = Sent([do |-> "unlink", id |-> view.id, at |-> view.id, win |-> w])

(* The page drops the achievement; the archive goes on listing it on its     *)
(* first entry.                                                              *)
UnlinkAnswers ==
  \E c \in view.calls :
    /\ c.do = "unlink"
    /\ \/ view' = [view EXCEPT !.calls = @ \ {c}, !.linked = @ \ {<<c.id, c.win>>},
                     !.wins = @ \ {c.win}, !.doubt = @ \/ view.first[c.win] = c.id]
       \/ view' = [view EXCEPT !.calls = @ \ {c}]
       \/ view' = [view EXCEPT !.calls = @ \ {c}, !.linked = @ \ {<<c.id, c.win>>},
                     !.doubt = TRUE]

------------------------------------------------------------------------------
Deleting == \E c \in view.calls : c.do = "delete"

OpenConfirm == Plain /\ view' = [view EXCEPT !.dialog = "confirm"]

CloseConfirm ==
  /\ Visible /\ view.dialog = "confirm" /\ ~Deleting
  /\ view' = [view EXCEPT !.dialog = None]

(* handleDelete names the entry shown, not that of the address.              *)
Delete ==
  /\ Visible /\ view.dialog = "confirm" /\ ~Deleting /\ CanSend
  /\ view' = Sent([do |-> "delete", id |-> view.journal, at |-> view.id, win |-> None])

DeleteAnswers ==
  \E c \in view.calls :
    /\ c.do = "delete"
    /\ \/ view' = [view EXCEPT !.calls = {}, !.loads = {}, !.image = None, !.gone = TRUE]
       \/ view' = [view EXCEPT !.calls = @ \ {c},
                     !.dialog = IF @ = "confirm" THEN None ELSE @]

(* As the dialogs make them: what has a first entry is linked to it.         *)
Archives ==
  {s \in (SUBSET (Ids \X Made)) \X [Wins -> Ids \cup {None}] :
     \A w \in Wins : IF w \in Made THEN <<s[2][w], w>> \in s[1] ELSE s[2][w] = None}

(* The first visit; the page is left for good after a deletion, whatever was *)
(* still to be answered.                                                     *)
ViewMounted ==
  {[id |-> id, newest |-> 1, loading |-> TRUE, error |-> FALSE,
    loads |-> {[n |-> 1, id |-> id, stage |-> "entry"]},
    journal |-> None, wins |-> {}, pictures |-> 0, image |-> None,
    dialog |-> None, chosen |-> None, busy |-> FALSE, calls |-> {},
    made |-> Made, linked |-> s[1], first |-> s[2], gone |-> FALSE, doubt |-> FALSE] :
     id \in Ids, s \in Archives}

ViewInit == view \in ViewMounted

ViewNext ==
  \/ Navigate \/ EntryArrives \/ RestArrives
  \/ OpenImage \/ TurnImage \/ CloseImage
  \/ OpenLink \/ ChooseWin \/ LinkExisting \/ CreateNew \/ CloseLink
  \/ LinkAnswers \/ RefreshAnswers \/ Unlink \/ UnlinkAnswers
  \/ OpenConfirm \/ CloseConfirm \/ Delete \/ DeleteAnswers

------------------------------------------------------------------------------
(* When every request has been answered, the page shows the entry of its     *)
(* address with the achievements the server has linked to it, whichever      *)
(* dialogs were closed early and whichever entries were visited in between,  *)
(* and a picture that is open is one of its own; unless requests overlapped, *)
(* half of a load failed, an achievement lost its first entry, or an entry   *)
(* was left with a picture open.                                             *)
ViewSettles ==
  Visible /\ ~Busy /\ ~view.doubt =>
    /\ Snippet = [of |-> view.id, wins |-> WinsOf(view.id)]
    /\ view.image # None => view.image < Pictures[view.id]
==============================================================================
