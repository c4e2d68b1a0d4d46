---------------------------- MODULE AchievementDesk ----------------------------
(***************************************************************************)
(* The achievements page (frontend/src/pages/AchievementsPage.jsx) with the  *)
(* dialogs that make an achievement and link entries to one                  *)
(* (CreateAchievementModal.jsx, LinkSupportingEvidenceModal.jsx).  Entries   *)
(* are linked one request after the other; closing the dialog does not stop  *)
(* them, and any of them may fail or lose its answer.                        *)
(***************************************************************************)
EXTENDS Naturals, FiniteSets

CONSTANTS
  Wins,      \* achievements, made and still to be made
  Made,      \* those made before
  Entries,   \* the entries the dialogs list
  None,      \* no dialog, no request
  MaxLoads   \* bound: lists asked for

VARIABLE shelf   \* the page and what the server has of it, see Shelf

(* Achievements with their linked entries and the first one (journal_id), on *)
(* the server or on the page.                                                *)
List  == [wins : SUBSET Wins, links : SUBSET (Wins \X Entries),
          first : [Wins -> Entries \cup {None}]]

Shelf == [server : List,
          made   : SUBSET Wins,                \* achievements ever made
          page   : List,                       \* achievements
          newest : 1..MaxLoads,                \* lists asked for
          loads  : SUBSET (1..MaxLoads),       \* those under way
          loading: BOOLEAN,
          dialog : Wins \cup {"new", None},    \* linkTargetAchievement, isCreateOpen
          picked : SUBSET Entries,             \* selectedIds
          job    : [win : Wins, all : SUBSET Entries, todo : SUBSET Entries] \cup {None},
                                               \* the loop of handleSubmit
          making : SUBSET Entries,             \* a new achievement's entries, {} if none
          call   : [do : {"unlink", "delete"}, win : Wins, entry : Entries \cup {None}]
                     \cup {None},              \* the page's own request
          doubt  : BOOLEAN]                    \* history: see EvidenceLinked

(* existingLinkedIds.                                                        *)
LinksOf(list, w) == {e \in Entries : <<w, e>> \in list.links \/ list.first[w] = e}

(* The pills of a card: the linked entries, or else the first one.           *)
Shown(w) ==
  LET linked == {e \in Entries : <<w, e>> \in shelf.page.links}
  IN  IF linked # {} THEN linked ELSE {shelf.page.first[w]} \ {None}

Listed == ~shelf.loading

Pending == shelf.loads # {} \/ shelf.job # None \/ shelf.making # {} \/ shelf.call # None

(* api.listAchievements({limit: 100}).                                       *)
Asked(s) ==
  [s EXCEPT !.newest = @ + 1, !.loading = TRUE,
     !.loads = @ \cup {s.newest + 1},
     !.doubt = @ \/ s.loads # {} \/ s.job # None \/ s.making # {} \/ s.call # None]

CanAsk == shelf.newest < MaxLoads

(* The list comes whole; or without its links, whose query failed unnoticed; *)
(* or not at all.                                                            *)
ListArrives ==
  \E l \in shelf.loads :
    LET s == [shelf EXCEPT !.loads = @ \ {l}, !.loading = FALSE]
    IN  \/ shelf' = [s EXCEPT !.page = shelf.server]
        \/ shelf' = [s EXCEPT !.page = [shelf.server EXCEPT !.links = {}], !.doubt = TRUE]
        \/ shelf' = [s EXCEPT !.doubt = TRUE]

------------------------------------------------------------------------------
(* The dialogs: nothing is picked when one opens, Escape closes it at any    *)
(* time, and each of them submits once at a time.                            *)
OpenLink ==
  /\ Listed /\ shelf.dialog = None
  /\ \E w \in shelf.page.wins : shelf' = [shelf EXCEPT !.dialog = w, !.picked = {}]

OpenCreate ==
  /\ shelf.dialog = None
  /\ shelf' = [shelf EXCEPT !.dialog = "new", !.picked = {}]

(* toggleSelect: what is linked already cannot be picked.                    *)
Pick ==
  /\ shelf.dialog # None
  /\ \E e \in Entries :
       /\ shelf.dialog # "new" => e \notin LinksOf(shelf.page, shelf.dialog)
       /\ shelf' = [shelf EXCEPT !.picked = IF e \in @ THEN @ \ {e} ELSE @ \cup {e}]

CloseDialog ==
  /\ shelf.dialog # None
  /\ shelf' = [shelf EXCEPT !.dialog = None, !.picked = {}]

SubmitLinks ==
  /\ shelf.dialog \in Wins /\ shelf.picked # {} /\ shelf.job = None
  /\ shelf' = [shelf EXCEPT !.doubt = Pending,
                 !.job = [win |-> shelf.dialog, all |-> shelf.picked, todo |-> shelf.picked]]

WithLink(s, w, e) == [s EXCEPT !.server.links = @ \cup {<<w, e>>}]

(* The last link of the loop succeeded: what was asked is reported as done,  *)
(* the list is asked for again and whatever link dialog is open closes.      *)
LoopDone(s) ==
  Asked([s EXCEPT !.job = None,
           !.dialog = IF @ = "new" THEN @ ELSE None,
           !.picked = IF s.dialog = "new" THEN @ ELSE {}])

Stepped(s, e) ==
  IF s.job.todo = {e} THEN LoopDone([s EXCEPT !.job.todo = {}])
  ELSE [s EXCEPT !.job.todo = @ \ {e}]

(* variant: an error of one link does not stop the loop                      *)
StoppedNot(s, e) == Stepped(s, e)

(* An error ends the loop, and the links made so far stay unannounced.       *)
Stopped(s, e) == [s EXCEPT !.job = None, !.doubt = TRUE]

(* One request of the loop: done; refused; done while its answer is lost.    *)
(* An achievement that is gone can only be refused.                          *)
LinkStep ==
  /\ shelf.job # None /\ CanAsk
  /\ \E e \in shelf.job.todo :
       \/ shelf.job.win \in shelf.server.wins
          /\ shelf' = Stepped(WithLink(shelf, shelf.job.win, e), e)
       \/ shelf' = Stopped(shelf, e)
       \/ shelf.job.win \in shelf.server.wins
          /\ shelf' = Stopped(WithLink(shelf, shelf.job.win, e), e)

(* A title and at least one entry are required.                              *)
SubmitNew ==
  /\ shelf.dialog = "new" /\ shelf.picked # {} /\ shelf.making = {}
  /\ Wins # shelf.made
  /\ shelf' = [shelf EXCEPT !.making = shelf.picked, !.doubt = @ \/ Pending]

(* The server makes the achievement with those of its links that do not fail *)
(* and answers with success all the same.                                    *)
WithNew(s, w, e, es) ==
  [s EXCEPT !.making = {}, !.made = @ \cup {w},
     !.server = [wins  |-> @.wins \cup {w}, links |-> @.links \cup ({w} \X es),
                 first |-> [@.first EXCEPT ![w] = e]]]

NewAnswers ==
  /\ shelf.making # {} /\ CanAsk
  /\ \/ \E w \in Wins \ shelf.made, e \in shelf.making, es \in SUBSET shelf.making :
          \/ shelf' = Asked([WithNew(shelf, w, e, es) EXCEPT
                               !.dialog = IF @ = "new" THEN None ELSE @,
                               !.picked = IF shelf.dialog = "new" THEN {} ELSE @])
          \/ shelf' = [WithNew(shelf, w, e, es) EXCEPT !.doubt = TRUE]
     \/ shelf' = [shelf EXCEPT !.making = {}]

------------------------------------------------------------------------------
(* The list's own buttons, each with the browser's confirmation.             *)
Unlink ==
  /\ Listed /\ shelf.dialog = None /\ shelf.call = None
  /\ \E w \in shelf.page.wins : \E e \in Shown(w) :
       shelf' = [shelf EXCEPT !.call = [do |-> "unlink", win |-> w, entry |-> e],
                   !.doubt = @ \/ Pending]

Delete ==
  /\ Listed /\ shelf.dialog = None /\ shelf.call = None
  /\ \E w \in shelf.page.wins :
       shelf' = [shelf EXCEPT !.call = [do |-> "delete", win |-> w, entry |-> None],
                   !.doubt = @ \/ Pending]

(* What a request takes away: a link, or an achievement with all of its own. *)
Without(list, c) ==
  IF c.do = "unlink" THEN [list EXCEPT !.links = @ \ {<<c.win, c.entry>>}]
  ELSE [list EXCEPT !.wins = @ \ {c.win}, !.links = @ \ ({c.win} \X Entries),
                    !.first[c.win] = None]

(* The page also forgets a first entry that was unlinked, the server does    *)
(* not.                                                                      *)
Dropped(list, c) ==
  [Without(list, c) EXCEPT !.first[c.win] = IF @ = c.entry THEN None ELSE @]

(* The page takes it away once the server says so.                           *)
CallAnswers ==
  /\ shelf.call # None
  /\ \/ shelf' = [shelf EXCEPT !.call = None, !.server = Without(@, shelf.call),
                    !.page = Dropped(@, shelf.call),
                    !.doubt = @ \/ (shelf.call.do = "unlink"
                                     /\ shelf.server.first[shelf.call.win] = shelf.call.entry)]
     \/ shelf' = [shelf EXCEPT !.call = None]
     \/ shelf' = [shelf EXCEPT !.call = None, !.server = Without(@, shelf.call),
                    !.doubt = TRUE]

(* As the dialogs make them: what has a first entry is linked to it.         *)
Archives ==
  {s \in (SUBSET (Made \X Entries)) \X [Wins -> Entries \cup {None}] :
     \A w \in Wins : IF w \in Made THEN <<w, s[2][w]>> \in s[1] ELSE s[2][w] = None}

ShelfMounted ==
  {[server |-> [wins |-> Made, links |-> s[1], first |-> s[2]], made |-> Made,
    page |-> [wins |-> {}, links |-> {}, first |-> [w \in Wins |-> None]],
    newest |-> 1, loads |-> {1}, loading |-> TRUE,
    dialog |-> None, picked |-> {}, job |-> None, making |-> {}, call |-> None,
    doubt |-> FALSE] :
     s \in Archives}

ShelfInit == shelf \in ShelfMounted

ShelfNext ==
  \/ ListArrives \/ OpenLink \/ OpenCreate \/ Pick \/ CloseDialog
  \/ SubmitLinks \/ LinkStep \/ SubmitNew \/ NewAnswers
  \/ Unlink \/ Delete \/ CallAnswers

------------------------------------------------------------------------------
(* When the dialog closes because all is done, all that was picked is linked *)
(* in the archive, however the dialog was closed and opened for others while *)
(* the requests ran; and once everything has been answered the page shows    *)
(* what the server has; both unless requests overlapped, or one failed or    *)
(* lost its answer (the loop of handleSubmit and onSuccess).                 *)
LinkedWhenDone ==
  /\ shelf.job # None /\ shelf'.job = None /\ ~shelf'.doubt =>
       {shelf.job.win} \X shelf.job.all \subseteq shelf'.server.links
  /\ ~Pending' /\ ~shelf'.doubt => shelf'.page = shelf'.server

EvidenceLinked == [][LinkedWhenDone]_shelf
================================================================================
