------------------------ MODULE EvidenceArchiveProofs ------------------------
(***************************************************************************)
(* For every number of achievements, journals and concurrent requests: the *)
(* invariants, the action property and the refinement of EvidenceArchive.   *)
(***************************************************************************)
EXTENDS EvidenceArchive, TLAPS

(* What a request knows at each point of its handler.                        *)
HoldsAch == {"attach", "checkAch", "checkJournal", "insertLink", "checkOwner",
             "deleteLink"}

LinkPcs == {"checkAch", "checkJournal", "insertLink"}

PcFitsOp(r) ==
  /\ r.pc \in LinkPcs => r.op = "link"
  /\ r.pc \in {"insertAch", "attach"} => r.op = "create"
  /\ r.pc \in {"checkOwner", "deleteLink"} => r.op = "unlink"

OneTarget(r) == r.op = "unlink" => \E j \in Journals : r.asked = {j}

RequestInv(r) ==
  /\ PcFitsOp(r)
  /\ r.pc \in HoldsAch => r.a \in Achs
  /\ r.todo \subseteq r.asked
  /\ \A j \in r.asked : journal[j] # "none"
  /\ \A j \in r.gone : journal[j] = "deleted"
  /\ r.pc \in {"checkJournal", "insertLink"} => r.cur \in r.todo
  /\ r.pc = "insertLink" => r.cur \notin r.gone
  /\ OneTarget(r)

RequestsInv == \A c \in Clients : RequestInv(req[c])

(* A link request has settled every target its loop has passed, an unlink    *)
(* request its only one when it is answered.                                 *)
Settled(c) ==
  /\ req[c].op = "link" /\ req[c].pc \in LinkPcs \cup {"ok"} =>
       \A j \in req[c].asked \ req[c].todo :
         <<req[c].a, j>> \in links \cup touched[c]
  /\ req[c].op = "link" /\ req[c].pc = "ok" => req[c].todo = {}
  /\ req[c].op = "unlink" /\ req[c].pc = "ok" =>
       \A j \in req[c].asked :
         <<req[c].a, j>> \in touched[c] \/ <<req[c].a, j>> \notin links

AllSettled == \A c \in Clients : Settled(c)

IInv == TypeOK /\ RequestsInv /\ LinksHaveBothEnds /\ AllSettled

ClientAction(c) ==
  \/ StartCreate(c) \/ InsertAchievement(c) \/ AttachJournal(c) \/ FinishCreate(c)
  \/ StartLink(c) \/ CheckAchievement(c) \/ CheckJournal(c) \/ InsertLink(c)
  \/ StartUnlink(c) \/ CheckOwner(c) \/ DeleteLink(c)
  \/ StatementFails(c) \/ Return(c)

LEMMA NextCases ==
  Next => \/ \E c \in Clients : ClientAction(c)
          \/ \E j \in Journals : CreateJournal(j) \/ SoftDeleteJournal(j)
          \/ \E a \in Achs : DeleteAchievement(a)
          \/ ServerStops
BY DEF Next, ClientAction, CreateSteps, LinkSteps, UnlinkSteps

LEMMA InitInv == Init => IInv
BY NoIdAssumption
DEF Init, IInv, TypeOK, RequestsInv, RequestInv, PcFitsOp, OneTarget, LinksHaveBothEnds,
    AllSettled, Settled, Idle, Request, JournalState, AchState, HoldsAch, LinkPcs

------------------------------------------------------------------------------
(* Type correctness.                                                         *)

LEMMA TypeStep == IInv /\ [Next]_vars => TypeOK'
<1> SUFFICES ASSUME IInv, [Next]_vars PROVE TypeOK'
  OBVIOUS
<1> USE NoIdAssumption DEF IInv, TypeOK, JournalState, AchState
<1>1. ASSUME NEW c \in Clients, ClientAction(c) PROVE TypeOK'
  <2>1. RequestInv(req[c]) /\ req[c] \in Request
    BY DEF RequestsInv
  <2>2. CASE StartCreate(c) \/ StartLink(c) \/ StartUnlink(c)
    BY <2>2 DEF StartCreate, StartLink, StartUnlink, Arrive, Request, KnownAchs,
                KnownJournals
  <2>3. CASE InsertAchievement(c)
    <3>1. PICK a \in Achs, j \in req[c].asked :
            /\ primary' = [primary EXCEPT ![a] = j]
            /\ ach' = [ach EXCEPT ![a] = "present"]
            /\ req' = [req EXCEPT ![c] = [@ EXCEPT !.pc = "attach", !.a = a]]
      BY <2>3 DEF InsertAchievement
    <3>2. j \in Journals
      BY <2>1 DEF Request
    <3>3. [req[c] EXCEPT !.pc = "attach", !.a = a] \in Request
      BY <2>1 DEF Request
    <3> QED
      BY <2>3, <3>1, <3>2, <3>3 DEF InsertAchievement
  <2>4. CASE AttachJournal(c)
    <3>1. req[c].a \in Achs /\ req[c].todo \in SUBSET Journals
      BY <2>1, <2>4 DEF AttachJournal, Request, RequestInv, HoldsAch, At
    <3>2. PICK j \in req[c].todo :
            /\ req' = [req EXCEPT ![c].todo = @ \ {j}]
            /\ \/ links' = links \cup {<<req[c].a, j>>} /\ Remember(c, {<<req[c].a, j>>})
               \/ UNCHANGED <<links, touched>>
      BY <2>4 DEF AttachJournal
    <3>3. req' \in [Clients -> Request]
      <4>1. [req[c] EXCEPT !.todo = @ \ {j}] \in Request
        BY <2>1 DEF Request
      <4> QED
        BY <3>2, <4>1
    <3>4. links' \subseteq Achs \X Journals
      BY <3>1, <3>2
    <3>5. touched' \in [Clients -> SUBSET (Achs \X Journals)]
      BY <3>1, <3>2, <3>4 DEF Remember, Changed
    <3> QED
      BY <2>4, <3>3, <3>4, <3>5 DEF AttachJournal
  <2>5. CASE FinishCreate(c) \/ CheckJournal(c) \/ CheckOwner(c) \/ StatementFails(c)
    BY <2>1, <2>5 DEF FinishCreate, CheckJournal, CheckOwner, StatementFails, Goto, Request
  <2>6. CASE CheckAchievement(c)
    <3>1. PICK j \in req[c].todo :
            req' = [req EXCEPT ![c] = [@ EXCEPT !.cur = j,
                      !.pc = IF ach[req[c].a] = "present"
                             THEN "checkJournal" ELSE "failed"]]
      BY <2>6 DEF CheckAchievement
    <3>2. [req[c] EXCEPT !.cur = j,
             !.pc = IF ach[req[c].a] = "present" THEN "checkJournal" ELSE "failed"]
            \in Request
      BY <2>1 DEF Request
    <3> QED
      BY <2>6, <3>1, <3>2 DEF CheckAchievement
  <2>7. CASE InsertLink(c)
    BY <2>1, <2>7 DEF InsertLink, Remember, Changed, Request, RequestInv, HoldsAch,
                      At, Goto
  <2>8. CASE DeleteLink(c)
    BY <2>1, <2>8 DEF DeleteLink, Remember, Changed, Request, Goto
  <2>9. CASE Return(c)
    BY <2>9 DEF Return, Idle, Request
  <2> QED
    BY <1>1, <2>2, <2>3, <2>4, <2>5, <2>6, <2>7, <2>8, <2>9 DEF ClientAction
<1>2. ASSUME NEW j \in Journals, CreateJournal(j) \/ SoftDeleteJournal(j) PROVE TypeOK'
  BY <1>2 DEF CreateJournal, SoftDeleteJournal
<1>3. ASSUME NEW a \in Achs, DeleteAchievement(a) PROVE TypeOK'
  BY <1>3 DEF DeleteAchievement, Cascade, Remember, Changed
<1>4. CASE ServerStops
  BY <1>4 DEF ServerStops, Idle, Request
<1>5. CASE UNCHANGED vars
  BY <1>5 DEF vars
<1> QED
  BY <1>1, <1>2, <1>3, <1>4, <1>5, NextCases

------------------------------------------------------------------------------
(* What a request knows stays true while the others run.                     *)

LEMMA RequestsStep == IInv /\ [Next]_vars => RequestsInv'
<1> SUFFICES ASSUME IInv, [Next]_vars, NEW d \in Clients
             PROVE  RequestInv(req[d])'
  BY DEF RequestsInv
<1>0. /\ RequestInv(req[d]) /\ req[d] \in Request
      /\ journal \in [Journals -> JournalState] /\ req \in [Clients -> Request]
  BY DEF IInv, TypeOK, RequestsInv
<1> USE DEF RequestInv, PcFitsOp, OneTarget, HoldsAch, LinkPcs
<1>1. ASSUME req'[d] = req[d], journal' = journal PROVE RequestInv(req[d])'
  BY <1>0, <1>1
<1>2. ASSUME NEW c \in Clients, ClientAction(c) PROVE RequestInv(req[d])'
  <2>0. journal' = journal
    BY <1>2 DEF ClientAction, StartCreate, InsertAchievement, AttachJournal, FinishCreate,
       StartLink, CheckAchievement, CheckJournal, InsertLink, StartUnlink, CheckOwner,
       DeleteLink, StatementFails, Return, Arrive
  <2>1. CASE c # d
    <3>1. req'[d] = req[d]
      BY <1>0, <1>2, <2>1 DEF ClientAction, StartCreate, InsertAchievement, AttachJournal,
         FinishCreate, StartLink, CheckAchievement, CheckJournal, InsertLink, StartUnlink,
         CheckOwner, DeleteLink, StatementFails, Return, Arrive, Goto
    <3> QED
      BY <3>1, <2>0, <1>1
  <2>2. CASE c = d
    <3>1. CASE StartCreate(d) \/ StartLink(d) \/ StartUnlink(d)
      BY <1>0, <2>0, <3>1 DEF StartCreate, StartLink, StartUnlink, Arrive, KnownJournals,
                        KnownAchs
    <3>2. CASE InsertAchievement(d)
      <4>1. PICK a \in Achs :
              req' = [req EXCEPT ![d] = [@ EXCEPT !.pc = "attach", !.a = a]]
        BY <3>2 DEF InsertAchievement
      <4> QED
        BY <1>0, <2>0, <3>2, <4>1 DEF InsertAchievement, At, Request
    <3>3. CASE AttachJournal(d)
      BY <1>0, <2>0, <3>3 DEF AttachJournal, Request, At
    <3>4. CASE FinishCreate(d) \/ CheckOwner(d) \/ StatementFails(d) \/ DeleteLink(d)
      BY <1>0, <2>0, <3>4 DEF FinishCreate, CheckOwner, StatementFails, DeleteLink, Goto,
                        At, Request
    <3>5. CASE CheckAchievement(d)
      BY <1>0, <2>0, <3>5 DEF CheckAchievement, Request, At
    <3>6. CASE CheckJournal(d)
      BY <1>0, <2>0, <3>6 DEF CheckJournal, Request, Goto, At, JournalState
    <3>7. CASE InsertLink(d)
      BY <1>0, <2>0, <3>7 DEF InsertLink, Request, Goto, At
    <3>8. CASE Return(d)
      BY <1>0, <2>0, <3>8 DEF Return, Idle
    <3> QED
      BY <1>2, <2>2, <3>1, <3>2, <3>3, <3>4, <3>5, <3>6, <3>7, <3>8 DEF ClientAction
  <2> QED
    BY <2>1, <2>2
<1>3. ASSUME NEW j \in Journals, CreateJournal(j) \/ SoftDeleteJournal(j)
      PROVE  RequestInv(req[d])'
  BY <1>0, <1>3 DEF CreateJournal, SoftDeleteJournal, JournalState, Request
<1>4. ASSUME NEW a \in Achs, DeleteAchievement(a) PROVE RequestInv(req[d])'
  BY <1>1, <1>4 DEF DeleteAchievement
<1>5. CASE ServerStops
  BY <1>0, <1>5 DEF ServerStops, Idle
<1>6. CASE UNCHANGED vars
  BY <1>1, <1>6 DEF vars
<1> QED
  BY <1>2, <1>3, <1>4, <1>5, <1>6, NextCases

------------------------------------------------------------------------------
(* A link keeps both its ends.                                               *)

LEMMA LinksStep == IInv /\ [Next]_vars => LinksHaveBothEnds'
<1> SUFFICES ASSUME IInv, [Next]_vars PROVE LinksHaveBothEnds'
  OBVIOUS
<1> USE DEF LinksHaveBothEnds
<1>0. LinksHaveBothEnds /\ TypeOK
  BY DEF IInv
<1>1. ASSUME NEW c \in Clients, ClientAction(c) PROVE LinksHaveBothEnds'
  <2>1. RequestInv(req[c]) /\ req[c] \in Request
    BY DEF RequestsInv, IInv, TypeOK
  <2>2. CASE AttachJournal(c)
    BY <1>0, <2>1, <2>2 DEF AttachJournal, RequestInv, TypeOK
  <2>3. CASE InsertLink(c)
    BY <1>0, <2>1, <2>3 DEF InsertLink, RequestInv, At, TypeOK
  <2>4. CASE DeleteLink(c)
    BY <1>0, <2>4 DEF DeleteLink
  <2>5. CASE InsertAchievement(c)
    BY <1>0, <2>5 DEF InsertAchievement, TypeOK, AchState
  <2>6. CASE UNCHANGED <<links, ach, journal>>
    BY <1>0, <2>6
  <2> QED
    BY <1>1, <2>2, <2>3, <2>4, <2>5, <2>6 DEF ClientAction, StartCreate, FinishCreate,
       StartLink, CheckAchievement, CheckJournal, StartUnlink, CheckOwner,
       StatementFails, Return, Arrive
<1>2. ASSUME NEW j \in Journals, CreateJournal(j) \/ SoftDeleteJournal(j)
      PROVE  LinksHaveBothEnds'
  BY <1>0, <1>2 DEF CreateJournal, SoftDeleteJournal, TypeOK, JournalState
<1>3. ASSUME NEW a \in Achs, DeleteAchievement(a) PROVE LinksHaveBothEnds'
  BY <1>0, <1>3 DEF DeleteAchievement, Cascade, TypeOK
<1>4. CASE ServerStops
  BY <1>0, <1>4 DEF ServerStops
<1>5. CASE UNCHANGED vars
  BY <1>0, <1>5 DEF vars
<1> QED
  BY <1>1, <1>2, <1>3, <1>4, <1>5, NextCases

------------------------------------------------------------------------------
(* Answers: what a request settled stays settled or is remembered as touched. *)

(* A step of the others that leaves the request's record alone and records    *)
(* the links it changes keeps the request's account straight.                 *)
LEMMA SettledKept ==
  ASSUME TypeOK, NEW d \in Clients, NEW e, e # d, Settled(d),
         req'[d] = req[d], Remember(e, {}) \/ (\E S : Remember(e, S))
  PROVE  Settled(d)'
<1>1. /\ touched'[d] = touched[d] \cup
           {p \in Changed : p[1] = req[d].a /\ p[2] \in req[d].asked}
      /\ req[d] \in Request
  BY DEF Remember, TypeOK
<1>2. ASSUME NEW j \in req[d].asked
      PROVE  LET p == <<req[d].a, j>> IN
             /\ p \in links \cup touched[d] => p \in links' \cup touched'[d]
             /\ p \in touched[d] \/ p \notin links => p \in touched'[d] \/ p \notin links'
  BY <1>1, <1>2 DEF Changed
<1> QED
  BY <1>1, <1>2 DEF Settled

LEMMA SettledStep == IInv /\ [Next]_vars => AllSettled'
<1> SUFFICES ASSUME IInv, [Next]_vars, NEW d \in Clients PROVE Settled(d)'
  BY DEF AllSettled
<1>0. /\ TypeOK /\ Settled(d)
      /\ RequestInv(req[d]) /\ req[d] \in Request /\ req \in [Clients -> Request]
      /\ touched \in [Clients -> SUBSET (Achs \X Journals)]
  BY DEF IInv, AllSettled, TypeOK, RequestsInv
<1>1. ASSUME req'[d] = req[d], touched'[d] = touched[d], links' = links
      PROVE  Settled(d)'
  BY <1>0, <1>1 DEF Settled
<1>2. ASSUME NEW c \in Clients, ClientAction(c) PROVE Settled(d)'
  <2>1. CASE c # d
    <3>1. req'[d] = req[d]
      BY <1>0, <1>2, <2>1 DEF ClientAction, StartCreate, InsertAchievement, AttachJournal,
         FinishCreate, StartLink, CheckAchievement, CheckJournal, InsertLink, StartUnlink,
         CheckOwner, DeleteLink, StatementFails, Return, Arrive, Goto
    <3>2. CASE AttachJournal(c)
      BY <1>0, <1>1, <2>1, <3>1, <3>2, SettledKept DEF AttachJournal
    <3>3. CASE InsertLink(c)
      BY <1>0, <1>1, <2>1, <3>1, <3>3, SettledKept DEF InsertLink
    <3>4. CASE DeleteLink(c)
      BY <1>0, <1>1, <2>1, <3>1, <3>4, SettledKept DEF DeleteLink
    <3>5. CASE Return(c)
      BY <1>0, <1>1, <2>1, <3>1, <3>5 DEF Return
    <3> QED
      BY <1>1, <1>2, <3>1, <3>2, <3>3, <3>4, <3>5 DEF ClientAction, StartCreate,
         InsertAchievement, FinishCreate, StartLink, CheckAchievement, CheckJournal,
         StartUnlink, CheckOwner, StatementFails, Arrive
  <2>2. CASE c = d
    <3> USE <1>0 DEF Settled, LinkPcs, RequestInv, PcFitsOp
    <3>1. CASE StartCreate(d) \/ StartLink(d) \/ StartUnlink(d)
      BY <3>1 DEF StartCreate, StartLink, StartUnlink, Arrive
    <3>2. CASE InsertAchievement(d)
      <4>1. PICK a \in Achs :
              req' = [req EXCEPT ![d] = [@ EXCEPT !.pc = "attach", !.a = a]]
        BY <3>2 DEF InsertAchievement
      <4> QED
        BY <3>2, <4>1 DEF InsertAchievement, At, Request
    <3>3. CASE AttachJournal(d)
      BY <3>3 DEF AttachJournal, At, Request
    <3>4. CASE FinishCreate(d) \/ CheckOwner(d) \/ StatementFails(d)
      BY <3>4 DEF FinishCreate, CheckOwner, StatementFails, Goto, At, Request
    <3>5. CASE CheckJournal(d)
      BY <3>5 DEF CheckJournal, Goto, At, Request
    <3>9. CASE CheckAchievement(d)
      <4>1. PICK j \in Journals :
              req' = [req EXCEPT ![d] = [@ EXCEPT !.cur = j,
                        !.pc = IF ach[req[d].a] = "present"
                               THEN "checkJournal" ELSE "failed"]]
        BY <3>9 DEF CheckAchievement, Request
      <4> QED
        BY <3>9, <4>1 DEF CheckAchievement, At, Request
    <3>6. CASE InsertLink(d)
      BY <3>6 DEF InsertLink, Remember, Goto, At, Request
    <3>7. CASE DeleteLink(d)
      BY <3>7 DEF DeleteLink, Remember, Goto, At, Request
    <3>8. CASE Return(d)
      BY <3>8 DEF Return, Idle
    <3> QED
      BY <1>2, <2>2, <3>1, <3>2, <3>3, <3>4, <3>5, <3>6, <3>7, <3>8, <3>9
      DEF ClientAction
  <2> QED
    BY <2>1, <2>2
<1>3. ASSUME NEW j \in Journals, CreateJournal(j) \/ SoftDeleteJournal(j)
      PROVE  Settled(d)'
  BY <1>1, <1>3 DEF CreateJournal, SoftDeleteJournal
<1>4. ASSUME NEW a \in Achs, DeleteAchievement(a) PROVE Settled(d)'
  BY <1>0, <1>4, NoIdAssumption, SettledKept DEF DeleteAchievement
<1>5. CASE ServerStops
  BY <1>5 DEF ServerStops, Idle, Settled, LinkPcs
<1>6. CASE UNCHANGED vars
  BY <1>1, <1>6 DEF vars
<1> QED
  BY <1>2, <1>3, <1>4, <1>5, <1>6, NextCases

------------------------------------------------------------------------------
LEMMA IInvStep == IInv /\ [Next]_vars => IInv'
BY TypeStep, RequestsStep, LinksStep, SettledStep DEF IInv

THEOREM Inductive == Spec => []IInv
BY InitInv, IInvStep, PTL DEF Spec

(* Every state is well typed, and an achievement on record has a primary     *)
(* journal.                                                                  *)
THEOREM TypeCorrect == Spec => []TypeOK
<1>1. IInv => TypeOK
  BY DEF IInv
<1> QED
  BY <1>1, Inductive, PTL

(* However link, create, unlink and delete requests interleave, no link      *)
(* outlives its achievement (CheckAchievement and CheckJournal may be stale  *)
(* when InsertLink runs; the foreign key and the cascade decide).            *)
THEOREM LinksCorrect == Spec => []LinksHaveBothEnds
<1>1. IInv => LinksHaveBothEnds
  BY DEF IInv
<1> QED
  BY <1>1, Inductive, PTL

(* A success answer of LinkJournalToAchievement or of                        *)
(* UnlinkJournalFromAchievement tells the truth about the link table.        *)
THEOREM AnswersCorrect == Spec => []AnswersHold
<1>1. IInv => AnswersHold
  BY DEF IInv, AllSettled, Settled, AnswersHold, LinkAnswer
<1> QED
  BY <1>1, Inductive, PTL

(* A link request never links a journal that was deleted when it arrived.    *)
THEOREM LateLinksCorrect == Spec => LateLinksRefused
<1>1. ASSUME IInv, [Next]_vars, NEW p \in links' \ links
      PROVE  \E c \in Clients : AddedBy(c, p)
  <2>1. PICK c \in Clients : AttachJournal(c) \/ InsertLink(c)
    BY <1>1, NextCases DEF ClientAction, StartCreate, InsertAchievement, FinishCreate,
       StartLink, CheckAchievement, CheckJournal, StartUnlink, CheckOwner, DeleteLink,
       StatementFails, Return, Arrive, CreateJournal, SoftDeleteJournal,
       DeleteAchievement, ServerStops, vars
  <2>2. RequestInv(req[c]) /\ req[c] \in Request /\ req \in [Clients -> Request]
    BY <1>1 DEF IInv, TypeOK, RequestsInv
  <2>3. CASE AttachJournal(c)
    <3>1. PICK j \in req[c].todo : /\ req' = [req EXCEPT ![c].todo = @ \ {j}]
                                   /\ p = <<req[c].a, j>>
      BY <1>1, <2>3 DEF AttachJournal
    <3>2. req'[c] # req[c]
      BY <2>2, <3>1 DEF Request
    <3> QED
      BY <2>2, <2>3, <3>1, <3>2 DEF AddedBy, RequestInv, PcFitsOp, AttachJournal, At
  <2>4. CASE InsertLink(c)
    <3>1. p = <<req[c].a, req[c].cur>> /\ req[c].cur \in req[c].todo
      BY <1>1, <2>2, <2>4 DEF InsertLink, RequestInv, At
    <3>2. req'[c] # req[c]
      BY <2>2, <2>4 DEF InsertLink, Goto, At, Request
    <3> QED
      BY <2>2, <2>4, <3>1, <3>2 DEF AddedBy, RequestInv, PcFitsOp, LinkPcs, InsertLink, At
  <2> QED
    BY <2>1, <2>3, <2>4
<1>2. IInv /\ [Next]_vars =>
        [\A p \in links' \ links : \E c \in Clients : AddedBy(c, p)]_vars
  BY <1>1
<1> QED
  BY <1>2, Inductive, PTL DEF Spec, LateLinksRefused

(* The statement-by-statement API implements the atomic ledger.              *)
THEOREM RefinesLedger == Spec => LedgerSpec
<1>1. Init => Ledger!Init
  BY DEF Init, Ledger!Init
<1>2. ASSUME IInv, [Next]_vars PROVE [Ledger!Next]_<<ach, links>>
  <2>1. ASSUME NEW c \in Clients, ClientAction(c) PROVE [Ledger!Next]_<<ach, links>>
    <3>1. RequestInv(req[c]) /\ req[c] \in Request
      BY <1>2 DEF IInv, TypeOK, RequestsInv
    <3>2. CASE InsertAchievement(c)
      BY <3>2 DEF InsertAchievement, Ledger!Next, Ledger!Record
    <3>3. CASE AttachJournal(c)
      BY <3>1, <3>3 DEF AttachJournal, RequestInv, HoldsAch, At, Request, Ledger!Next,
                        Ledger!Link
    <3>4. CASE InsertLink(c)
      BY <3>1, <3>4 DEF InsertLink, RequestInv, HoldsAch, At, Request, Ledger!Next,
                        Ledger!Link
    <3>5. CASE DeleteLink(c)
      <4>1. PICK j \in Journals : req[c].asked = {j}
        BY <3>1, <3>5 DEF DeleteLink, RequestInv, PcFitsOp, OneTarget, At
      <4>2. links' = links \ {<<req[c].a, j>>}
        BY <1>2, <3>5, <4>1 DEF DeleteLink, IInv, TypeOK
      <4> QED
        BY <3>1, <3>5, <4>2 DEF DeleteLink, RequestInv, HoldsAch, At, Ledger!Next,
                                Ledger!Unlink
    <3>6. CASE UNCHANGED <<ach, links>>
      BY <3>6
    <3> QED
      BY <2>1, <3>2, <3>3, <3>4, <3>5, <3>6 DEF ClientAction, StartCreate, FinishCreate,
         StartLink, CheckAchievement, CheckJournal, StartUnlink, CheckOwner,
         StatementFails, Return, Arrive
  <2>2. ASSUME NEW a \in Achs, DeleteAchievement(a) PROVE [Ledger!Next]_<<ach, links>>
    BY <1>2, <2>2 DEF DeleteAchievement, Cascade, Ledger!Next, Ledger!Retire, IInv, TypeOK
  <2> QED
    BY <1>2, <2>1, <2>2, NextCases DEF CreateJournal, SoftDeleteJournal, ServerStops, vars
<1> QED
  BY <1>1, <1>2, Inductive, PTL DEF Spec, LedgerSpec, Ledger!Spec, Ledger!vars
==============================================================================
