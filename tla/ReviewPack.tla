------------------------------ MODULE ReviewPack ------------------------------
(***************************************************************************)
(* The export of a review (components/ui/ReviewPackModal.jsx): the sections  *)
(* to include are ticked, the sheet shows them, and they leave the page as   *)
(* Markdown (lib/reviewPackUtils.js), copied or downloaded, or on paper.     *)
(* Sheet and Markdown are written by two different pieces of code.  Printing *)
(* borrows the theme of the document, which belongs to ThemeContext.jsx.     *)
(***************************************************************************)
EXTENDS Naturals, Sequences, FiniteSets

CONSTANTS
  SheetLimit,  \* entries the sheet lists, 15 in the code
  MaxEntries,  \* bound: entries and achievements of the period
  MaxPrints    \* bound: prints whose timer still runs

VARIABLE pack   \* the dialog, the theme and the prints, see Pack

(* Sections are tried in this order, the optional parts of a summary are     *)
(* those the AI may leave out.                                               *)
Order    == <<"synthesis", "calendar", "achievements", "categories", "journals">>
Sections == {Order[i] : i \in DOMAIN Order}
Parts    == {"alignment", "impacts", "metrics", "blockers", "growth", "insights"}
Themes   == {"dark", "light"}

Printout == [old : Themes, cleaned : BOOLEAN]

Pack == [open     : BOOLEAN,                        \* isOpen
         override : {"unset", "in", "out"},         \* includeSynthesisOverride
         ticked   : SUBSET (Sections \ {"synthesis"}),  \* the other chips
         summary  : {{}, {"text", "alignment", "metrics"}, Parts \cup {"text"}},
                                                    \* aiSynthesis, {} is null
         wins     : 0..MaxEntries,                  \* achievements
         entries  : 0..MaxEntries,                  \* journals
         copied   : BOOLEAN,
         theme    : Themes,                         \* of the ThemeProvider
         paper    : Themes,                         \* data-theme of the document
         prints   : Seq(Printout),                     \* closures of handlePrint
         muddled  : BOOLEAN]                        \* history: see PaperRestored

------------------------------------------------------------------------------
(* The chip of the summary follows the summary until it is clicked.          *)
Included ==
  pack.ticked \cup
  (IF pack.override = "in" \/ (pack.override = "unset" /\ pack.summary # {})
   THEN {"synthesis"} ELSE {})

(* variant: the sheet numbers achievements whether there are any or not      *)
OnSheetUnchecked(s) == s \in Included /\ (s \in {"categories", "journals"} => pack.entries > 0)

(* The sections of the sheet: achievements and entries need some to show,    *)
(* and the breakdown has no rows without entries.                            *)
OnSheet(s) ==
  /\ s \in Included
  /\ s = "achievements" => pack.wins > 0
  /\ s \in {"categories", "journals"} => pack.entries > 0

(* generateReviewPackMarkdown decides for itself.                            *)
InMarkdown(s) ==
  CASE s = "achievements" -> s \in Included /\ pack.wins > 0
    [] s \in {"categories", "journals"} -> s \in Included /\ pack.entries > 0
    [] OTHER -> s \in Included

(* Of the sections at the positions there, each is numbered after those      *)
(* before it.                                                                *)
Numbered(there) == {<<Cardinality(there \cap (1..i)), Order[i]>> : i \in there}

SheetTitles    == Numbered({i \in DOMAIN Order : OnSheet(Order[i])})
MarkdownTitles == Numbered({i \in DOMAIN Order : InMarkdown(Order[i])})

(* The sheet leaves out some of the summary, and without one both carry a    *)
(* sentence made of the counts.                                              *)
SheetSummary ==
  IF pack.summary = {} THEN {"counts"}
  ELSE pack.summary \cap {"text", "alignment", "impacts", "metrics"}

MarkdownSummary == IF pack.summary = {} THEN {"counts"} ELSE pack.summary

(* The sheet lists the first entries and says how many more there are.       *)
SheetEntries == [listed |-> IF pack.entries > SheetLimit THEN SheetLimit ELSE pack.entries,
                 more   |-> IF pack.entries > SheetLimit THEN pack.entries - SheetLimit ELSE 0]

MarkdownEntries == pack.entries

------------------------------------------------------------------------------
(* The dialog stays mounted when it is closed and keeps its chips.           *)
OpenPack  == ~pack.open /\ pack' = [pack EXCEPT !.open = TRUE]
ClosePack == pack.open /\ pack' = [pack EXCEPT !.open = FALSE]

(* The page hands over what it has loaded; it may go on loading meanwhile.   *)
Supply ==
  \/ \E w, e \in 0..MaxEntries : pack' = [pack EXCEPT !.wins = w, !.entries = e]
  \/ \E s \in {{}, {"text", "alignment", "metrics"}, Parts \cup {"text"}} :
       pack' = [pack EXCEPT !.summary = s]

(* Without a summary its chip cannot be clicked.                             *)
Tick ==
  /\ pack.open
  /\ \/ /\ pack.summary # {}
        /\ pack' = [pack EXCEPT !.override = IF "synthesis" \in Included THEN "out" ELSE "in"]
     \/ \E s \in Sections \ {"synthesis"} :
          pack' = [pack EXCEPT !.ticked = IF s \in @ THEN @ \ {s} ELSE @ \cup {s}]

(* handleCopyMarkdown; the clipboard may refuse, by both of its ways.        *)
Copy ==
  /\ pack.open
  /\ \E ok \in BOOLEAN : pack' = [pack EXCEPT !.copied = @ \/ ok]

CopiedFades == pack.copied /\ pack' = [pack EXCEPT !.copied = FALSE]

------------------------------------------------------------------------------
Uncleaned(p) == ~p.cleaned

Printing == \E i \in DOMAIN pack.prints : Uncleaned(pack.prints[i])

(* handlePrint: the theme found is remembered and paper is light.  Where     *)
(* print() does not wait for the dialog, a second print may overlap.         *)
StartPrint ==
  /\ pack.open /\ Len(pack.prints) < MaxPrints
  /\ pack' = [pack EXCEPT !.paper = "light", !.muddled = @ \/ Printing,
                !.prints = Append(@, [old |-> pack.paper, cleaned |-> FALSE])]

(* afterprint: every cleanup that still listens runs, in order.              *)
AfterPrint ==
  \E last \in DOMAIN pack.prints :
    /\ Uncleaned(pack.prints[last])
    /\ \A i \in DOMAIN pack.prints : i > last => ~Uncleaned(pack.prints[i])
    /\ pack' = [pack EXCEPT !.paper = pack.prints[last].old,
                  !.prints = [i \in DOMAIN @ |-> [@[i] EXCEPT !.cleaned = TRUE]]]

(* variant: the cleanup does not remember that it has run                    *)
CleanupAgain(p) == p.old

(* What the cleanup of a timer leaves as the document's theme.               *)
Cleanup(p) == IF p.cleaned THEN pack.paper ELSE p.old

(* The timers of 2.5 seconds run out in the order they were set.             *)
PrintTimer ==
  /\ pack.prints # <<>>
  /\ pack' = [pack EXCEPT !.paper = Cleanup(Head(pack.prints)), !.prints = Tail(@)]

(* The button in the layout, under the dialog; the effect sets the document. *)
ToggleTheme ==
  /\ ~pack.open
  /\ \E t \in Themes \ {pack.theme} :
       pack' = [pack EXCEPT !.theme = t, !.paper = t, !.muddled = Printing]

PackMounted ==
  {[open |-> FALSE, override |-> "unset", ticked |-> Sections \ {"synthesis"},
    summary |-> {}, wins |-> 0, entries |-> 0, copied |-> FALSE,
    theme |-> t, paper |-> t, prints |-> <<>>, muddled |-> FALSE] :
     t \in Themes}

PackInit == pack \in PackMounted

PackNext ==
  \/ OpenPack \/ ClosePack \/ Supply \/ Tick \/ Copy \/ CopiedFades
  \/ StartPrint \/ AfterPrint \/ PrintTimer \/ ToggleTheme

------------------------------------------------------------------------------
(* The paper and the Markdown of a review have the same sections under the   *)
(* same numbers, whatever was ticked, loaded or lost in between, and the     *)
(* paper holds nothing that the Markdown does not.                           *)
SectionsAgree ==
  /\ SheetTitles = MarkdownTitles
  /\ SheetSummary \subseteq MarkdownSummary
  /\ SheetEntries.listed + SheetEntries.more = MarkdownEntries

(* After the last print the document is back in the theme of the user,       *)
(* whichever of event and timer came first, unless a print overlapped        *)
(* another or the theme was changed during one (handlePrint's cleanup).      *)
PaperRestored == ~Printing /\ ~pack.muddled => pack.paper = pack.theme
==============================================================================
