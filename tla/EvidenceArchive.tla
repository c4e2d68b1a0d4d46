--------------------------- MODULE EvidenceArchive ---------------------------
(***************************************************************************)
(* Journals, achievements and the evidence links between them, as one      *)
(* user's requests drive them.  The handlers run no transaction: every SQL *)
(* statement commits by itself, so a request is a chain of steps, one per  *)
(* statement, and the steps of concurrent requests interleave.  A statement *)
(* may fail, and the server may stop between any two of them.               *)
(***************************************************************************)
CONSTANTS Achs,       \* achievement ids the IDENTITY column can hand out
          Journals,   \* journal ids, likewise
          Clients,    \* requests that can be in flight at once
          NoAch, NoJournal, NoClient

ASSUME NoIdAssumption ==
  NoAch \notin Achs /\ NoJournal \notin Journals /\ NoClient \notin Clients

VARIABLES
  journal,   \* [Journals -> JournalState]: deleted means deleted_at is set
  ach,       \* [Achs -> AchState]: deleted means the row is gone
  primary,   \* [Achs -> Journals \cup {NoJournal}]: achievements.journal_id
  links,     \* achievement_journals: pairs <<achievement, journal>>
  req,       \* [Clients -> Request]: the request each client waits for
  touched    \* history: links of a request's achievement that somebody
             \* else changed while the request was open

vars == <<journal, ach, primary, links, req, touched>>

JournalState == {"none", "live", "deleted"}
AchState     == {"none", "present", "deleted"}

Request ==
  [op    : {"none", "create", "link", "unlink"},
   pc    : {"idle", "insertAch", "attach", "checkAch", "checkJournal",
            "insertLink", "checkOwner", "deleteLink", "ok", "failed"},
   a     : Achs \cup {NoAch},
   cur   : Journals \cup {NoJournal},  \* target of the loop iteration under way
   asked : SUBSET Journals,            \* journals named in the request
   todo  : SUBSET Journals,            \* targets the loop has not reached yet
   gone  : SUBSET Journals]            \* history: deleted when it arrived

Idle == [op |-> "none", pc |-> "idle", a |-> NoAch, cur |-> NoJournal,
         asked |-> {}, todo |-> {}, gone |-> {}]

(* What a journal's page lists: through the primary column or the link table. *)
AchievementsOf(j) ==
  {a \in Achs : ach[a] = "present" /\ (primary[a] = j \/ <<a, j>> \in links)}

------------------------------------------------------------------------------
(* Steps of a request.                                                       *)

Goto(c, pc)  == req' = [req EXCEPT ![c].pc = pc]
At(c, pc)    == req[c].pc = pc

Changed == (links \ links') \cup (links' \ links)

(* Client d settles some links by its own statement; whoever else has a      *)
(* request open on a link that changed remembers the change.                 *)
Remember(d, settled) ==
  touched' = [c \in Clients |->
                IF c = d THEN touched[c] \ settled
                ELSE touched[c] \cup {p \in Changed : p[1] = req[c].a /\ p[2] \in req[c].asked}]

Arrive(c, op, pc, a, js) ==
  /\ At(c, "idle")
  /\ req' = [req EXCEPT ![c] =
               [op |-> op, pc |-> pc, a |-> a, cur |-> NoJournal,
                asked |-> js, todo |-> js,
                gone |-> {j \in js : journal[j] = "deleted"}]]
  /\ UNCHANGED <<journal, ach, primary, links, touched>>

(* A journal or an achievement a page can name: its row has existed.         *)
KnownJournals == {j \in Journals : journal[j] # "none"}
KnownAchs     == {a \in Achs : ach[a] # "none"}

(* Any statement may return an error, which these handlers answer with 500.  *)
StatementFails(c) ==
  /\ req[c].pc \in {"insertAch", "checkAch", "checkJournal", "insertLink",
                    "checkOwner", "deleteLink"}
  /\ Goto(c, "failed")
  /\ UNCHANGED <<journal, ach, primary, links, touched>>

(* The answer reaches the page, which may send another request.              *)
Return(c) ==
  /\ req[c].pc \in {"ok", "failed"}
  /\ req' = [req EXCEPT ![c] = Idle]
  /\ touched' = [touched EXCEPT ![c] = {}]
  /\ UNCHANGED <<journal, ach, primary, links>>

------------------------------------------------------------------------------
(* Journals: one INSERT, one UPDATE of deleted_at.                           *)

CreateJournal(j) ==
  /\ journal[j] = "none"
  /\ journal' = [journal EXCEPT ![j] = "live"]
  /\ UNCHANGED <<ach, primary, links, req, touched>>

SoftDeleteJournal(j) ==
  /\ journal[j] = "live"
  /\ journal' = [journal EXCEPT ![j] = "deleted"]
  /\ UNCHANGED <<ach, primary, links, req, touched>>

------------------------------------------------------------------------------
(* POST /achievements: the row, then one link per journal, errors ignored.   *)

StartCreate(c) ==
  \E js \in SUBSET KnownJournals \ {{}} : Arrive(c, "create", "insertAch", NoAch, js)

(* variant: a request that names its journals only in journal_ids leaves the *)
(* primary column NULL                                                       *)
InsertAchievementNoPrimary(c) ==
  /\ At(c, "insertAch")
  /\ \E a \in Achs :
       /\ ach[a] = "none"
       /\ ach' = [ach EXCEPT ![a] = "present"]
       /\ req' = [req EXCEPT ![c].pc = "attach", ![c].a = a]
  /\ UNCHANGED <<journal, primary, links, touched>>

InsertAchievement(c) ==
  /\ At(c, "insertAch")
  /\ \E a \in Achs, j \in req[c].asked :
       /\ ach[a] = "none"
       /\ ach' = [ach EXCEPT ![a] = "present"]
       /\ primary' = [primary EXCEPT ![a] = j]
       /\ req' = [req EXCEPT ![c] = [@ EXCEPT !.pc = "attach", !.a = a]]
  /\ UNCHANGED <<journal, links, touched>>

(* Both foreign keys hold when the row goes in; without the achievement the  *)
(* statement is an error, and the loop drops it.                             *)
AttachJournal(c) ==
  /\ At(c, "attach")
  /\ \E j \in req[c].todo :
       /\ req' = [req EXCEPT ![c].todo = @ \ {j}]
       /\ \/ /\ ach[req[c].a] = "present"
             /\ links' = links \cup {<<req[c].a, j>>}
             /\ Remember(c, {<<req[c].a, j>>})
          \/ UNCHANGED <<links, touched>>
  /\ UNCHANGED <<journal, ach, primary>>

FinishCreate(c) ==
  /\ At(c, "attach")
  /\ req[c].todo = {}
  /\ Goto(c, "ok")
  /\ UNCHANGED <<journal, ach, primary, links, touched>>

------------------------------------------------------------------------------
(* POST /achievements/:id/journals: per target two reads, then the insert;   *)
(* the first error ends the request and the links already made stay.         *)

StartLink(c) ==
  \E a \in KnownAchs, js \in SUBSET KnownJournals \ {{}} :
    Arrive(c, "link", "checkAch", a, js)

CheckAchievement(c) ==
  /\ At(c, "checkAch")
  /\ \E j \in req[c].todo :
       req' = [req EXCEPT ![c] = [@ EXCEPT
                 !.cur = j,
                 !.pc = IF ach[req[c].a] = "present" THEN "checkJournal" ELSE "failed"]]
  /\ UNCHANGED <<journal, ach, primary, links, touched>>

(* variant: the journal is read without deleted_at IS NULL                   *)
CheckJournalRowOnly(c) ==
  /\ At(c, "checkJournal")
  /\ Goto(c, IF journal[req[c].cur] # "none" THEN "insertLink" ELSE "failed")
  /\ UNCHANGED <<journal, ach, primary, links, touched>>

CheckJournal(c) ==
  /\ At(c, "checkJournal")
  /\ Goto(c, IF journal[req[c].cur] = "live" THEN "insertLink" ELSE "failed")
  /\ UNCHANGED <<journal, ach, primary, links, touched>>

(* variant: the table has no foreign key to achievements                     *)
InsertLinkNoForeignKey(c) ==
  LET left == req[c].todo \ {req[c].cur} IN
  /\ At(c, "insertLink")
  /\ links' = links \cup {<<req[c].a, req[c].cur>>}
  /\ Remember(c, {<<req[c].a, req[c].cur>>})
  /\ req' = [req EXCEPT ![c].todo = left,
                        ![c].pc = IF left = {} THEN "ok" ELSE "checkAch"]
  /\ UNCHANGED <<journal, ach, primary>>

(* variant: the loop drops an insert's error, as the create loop does        *)
InsertLinkErrorDropped(c) ==
  LET link == <<req[c].a, req[c].cur>>
      left == req[c].todo \ {req[c].cur}
  IN
  /\ At(c, "insertLink")
  /\ links' = IF ach[req[c].a] = "present" THEN links \cup {link} ELSE links
  /\ Remember(c, {link} \cap links')
  /\ req' = [req EXCEPT ![c].todo = left,
                        ![c].pc = IF left = {} THEN "ok" ELSE "checkAch"]
  /\ UNCHANGED <<journal, ach, primary>>

InsertLink(c) ==
  LET link == <<req[c].a, req[c].cur>>
      left == req[c].todo \ {req[c].cur}
  IN
  /\ At(c, "insertLink")
  /\ \/ /\ ach[req[c].a] = "present"
        /\ links' = links \cup {link}
        /\ Remember(c, {link})
        /\ req' = [req EXCEPT ![c].todo = left,
                              ![c].pc = IF left = {} THEN "ok" ELSE "checkAch"]
     \/ /\ ach[req[c].a] # "present"
        /\ Goto(c, "failed")
        /\ UNCHANGED <<links, touched>>
  /\ UNCHANGED <<journal, ach, primary>>

------------------------------------------------------------------------------
(* DELETE /achievements/:id/journals/:journalId: only the link table.        *)

StartUnlink(c) ==
  \E a \in KnownAchs, j \in KnownJournals :
    Arrive(c, "unlink", "checkOwner", a, {j})

CheckOwner(c) ==
  /\ At(c, "checkOwner")
  /\ Goto(c, IF ach[req[c].a] = "present" THEN "deleteLink" ELSE "failed")
  /\ UNCHANGED <<journal, ach, primary, links, touched>>

DeleteLink(c) ==
  LET gone == {p \in links : p[1] = req[c].a /\ p[2] \in req[c].asked} IN
  /\ At(c, "deleteLink")
  /\ links' = links \ gone
  /\ Remember(c, gone)
  /\ Goto(c, "ok")
  /\ UNCHANGED <<journal, ach, primary>>

------------------------------------------------------------------------------
(* DELETE /achievements/:id: one statement; the links cascade.               *)

(* variant: achievement_journals has no ON DELETE CASCADE                    *)
NoCascade(a) == {p \in links : FALSE}

Cascade(a) == {p \in links : p[1] = a}

DeleteAchievement(a) ==
  /\ ach[a] = "present"
  /\ ach' = [ach EXCEPT ![a] = "deleted"]
  /\ links' = links \ Cascade(a)
  /\ Remember(NoClient, {})
  /\ UNCHANGED <<journal, primary, req>>

(* The process stops: the open requests die, what is committed stays.        *)
ServerStops ==
  /\ \E c \in Clients : req[c].pc # "idle"
  /\ req' = [c \in Clients |-> Idle]
  /\ touched' = [c \in Clients |-> {}]
  /\ UNCHANGED <<journal, ach, primary, links>>

------------------------------------------------------------------------------
Init ==
  /\ journal = [j \in Journals |-> "none"]
  /\ ach = [a \in Achs |-> "none"]
  /\ primary = [a \in Achs |-> NoJournal]
  /\ links = {}
  /\ req = [c \in Clients |-> Idle]
  /\ touched = [c \in Clients |-> {}]

CreateSteps(c) == StartCreate(c) \/ InsertAchievement(c) \/ AttachJournal(c) \/ FinishCreate(c)
LinkSteps(c)   == StartLink(c) \/ CheckAchievement(c) \/ CheckJournal(c) \/ InsertLink(c)
UnlinkSteps(c) == StartUnlink(c) \/ CheckOwner(c) \/ DeleteLink(c)

Next ==
  \/ \E c \in Clients : \/ CreateSteps(c) \/ LinkSteps(c) \/ UnlinkSteps(c)
                        \/ StatementFails(c) \/ Return(c)
  \/ \E j \in Journals : CreateJournal(j) \/ SoftDeleteJournal(j)
  \/ \E a \in Achs : DeleteAchievement(a)
  \/ ServerStops

Spec == Init /\ [][Next]_vars

------------------------------------------------------------------------------
(* Types, with the one dependency the schema leaves to the code: an          *)
(* achievement has a primary journal from the moment it is recorded.         *)
TypeOK ==
  /\ journal \in [Journals -> JournalState]
  /\ ach \in [Achs -> AchState]
  /\ primary \in [Achs -> Journals \cup {NoJournal}]
  /\ \A a \in Achs : primary[a] = NoJournal <=> ach[a] = "none"
  /\ links \subseteq Achs \X Journals
  /\ req \in [Clients -> Request]
  /\ touched \in [Clients -> SUBSET (Achs \X Journals)]

(* No interleaving of link, create, unlink and delete requests leaves a link *)
(* of an achievement that is gone, or of a journal that never was: the check *)
(* in AddJournalToAchievement may be stale, the foreign key is not.          *)
LinksHaveBothEnds ==
  \A p \in links : ach[p[1]] = "present" /\ journal[p[2]] # "none"

(* A link or unlink request answered with success did what it says, unless   *)
(* another request changed that very link after this one's own statement.    *)
LinkAnswer(c) ==
  \A j \in req[c].asked : LET p == <<req[c].a, j>> IN
    p \in touched[c] \/ (p \in links <=> req[c].op = "link")

AnswersHold ==
  \A c \in Clients :
    req[c].pc = "ok" /\ req[c].op \in {"link", "unlink"} => LinkAnswer(c)

(* A journal that was already deleted when a link request arrived is never   *)
(* linked by it, whatever happens between its checks and its inserts.        *)
AddedBy(c, p) ==
  /\ req'[c] # req[c]
  /\ req[c].a = p[1] /\ p[2] \in req[c].asked
  /\ req[c].op = "create" \/ (req[c].op = "link" /\ p[2] \notin req[c].gone)

LateLinksRefused ==
  [][\A p \in links' \ links : \E c \in Clients : AddedBy(c, p)]_vars

(* The API refines the atomic ledger: every request takes effect at one of   *)
(* its statements, and only on achievements that are present.                *)
Ledger == INSTANCE EvidenceLedger WITH Achs <- Achs, Journals <- Journals,
                                     ach <- ach, links <- links

LedgerSpec == Ledger!Spec

(* "journal unlinked from achievement successfully": once an unlink request  *)
(* that ran by itself is answered so, the journal's page no longer lists the *)
(* achievement.                                                              *)
UnlinkIsVisible ==
  \A c \in Clients :
    /\ req[c].pc = "ok" /\ req[c].op = "unlink" /\ touched[c] = {}
    /\ \A d \in Clients \ {c} : req[d].pc = "idle"
    => \A j \in req[c].asked : req[c].a \notin AchievementsOf(j)
==============================================================================
