------------------------------- MODULE Pickers -------------------------------
(***************************************************************************)
(* The two lists over the desktop page that are worked with the keyboard:  *)
(* the file picker (Ctrl+P) and the quick launcher (Ctrl+N), with the      *)
(* field for a URL (Ctrl+L) beside them.  Late search results, another     *)
(* active agent and new lists of conversations change what they show while *)
(* the user moves through it.                                              *)
(*                                                                         *)
(* A file is [root, path], found by the server below a search root.        *)
(***************************************************************************)
EXTENDS Naturals, Integers, Sequences, SequencesExt, FiniteSets, Lists

CONSTANTS
  Roots,     \* search roots: the directories of agents
  Names,     \* paths of files below a root
  Queries,   \* what may be typed, to the names it matches; "" matches all
  Recents,   \* the recent files: sequences of [root, path]
  Launchers, \* what the launcher may offer: sequences of sessions and commands
  PickPlans  \* what happens: [does, steps], kinds of steps and their number

NoQuery == "" \* nothing is typed
FileItems == [root : Roots, path : Names]

ASSUME QueriesAssumption ==
  /\ NoQuery \in DOMAIN Queries /\ Queries[NoQuery] = Names
  /\ IsFiniteSet(Names) /\ \A q \in DOMAIN Queries : Queries[q] \subseteq Names
ASSUME RecentsAssumption ==
  /\ Recents \subseteq Seq(FileItems) /\ \A r \in Recents : IsInjective(r)
  /\ \A o \in Launchers : o \in Seq(Range(o))
ASSUME PickPlansAssumption == PickPlans \subseteq [does : SUBSET STRING, steps : Nat]

Lists == {"files", "launcher"}

VARIABLES
  script, spent,
  opened,           \* the dialog that is open: one of Lists, "url" or "none"
  root,             \* searchRoot, the directory of the active or last agent
  recents,
  query, results,   \* of the file picker
  due,              \* its timer: [root, query] to search, in a set
  searches,         \* searches on their way
  offers,           \* of the launcher
  cursor,           \* selected, of each list
  shifted           \* the list may have got shorter under its cursor

searchVars == <<query, results, due, searches>>
pickVars   == <<script, spent, opened, root, recents, searchVars, offers, cursor, shifted>>

PickInit ==
  /\ script \in PickPlans /\ spent = 0
  /\ opened = "none" /\ root \in Roots /\ recents \in Recents
  /\ query = NoQuery /\ results = <<>> /\ due = {} /\ searches = {}
  /\ offers \in Launchers
  /\ cursor = [l \in Lists |-> 0] /\ shifted = [l \in Lists |-> FALSE]

Does(kind) ==
  /\ kind \in script.does /\ spent < script.steps /\ spent' = spent + 1
  /\ UNCHANGED script

-----------------------------------------------------------------------------
(* What is shown *)

Here == [root : {root}, path : Names]
Matching == [root : Roots, path : Queries[query]]

\* buildDisplayList: the recent files that match, those under the root first, and
\* the results that are not among them, read below the root of now.
DisplayList ==
  LET matching == Among(recents, Matching)
      old == Among(matching, Here) \o Among(matching, FileItems \ Here)
      found == [i \in DOMAIN results |-> [root |-> root, path |-> results[i]]]
  IN old \o Among(found, FileItems \ Range(old))

\* The rows of the picker in the order of its two sections; the row at the cursor
\* is the highlighted one.
FileRows ==
  LET recent == Range(recents) \cap Matching
  IN Among(DisplayList, recent) \o Among(DisplayList, FileItems \ recent)

Shown(l) == IF l = "files" THEN Len(DisplayList) ELSE Len(offers)

-----------------------------------------------------------------------------
(* Opening *)

Point(l) == cursor' = [cursor EXCEPT ![l] = 0] /\ shifted' = [shifted EXCEPT ![l] = FALSE]

\* Ctrl+P, Ctrl+N, Ctrl+L toggle their dialog and close the others; Escape closes.
\* The effect resets a list that opens.
Toggle(which) ==
  /\ Does("toggle")
  /\ opened' = IF opened = which THEN "none" ELSE which
  /\ IF opened' = "files" THEN query' = NoQuery /\ results' = <<>> ELSE UNCHANGED <<query, results>>
  /\ IF opened' \in Lists THEN Point(opened') ELSE UNCHANGED <<cursor, shifted>>
  /\ UNCHANGED <<root, recents, due, searches, offers>>

\* Another agent becomes the active or the last one.
Reroot(r) ==
  /\ Does("root")
  /\ r # root /\ root' = r
  /\ IF opened = "files" THEN query' = NoQuery /\ results' = <<>> /\ Point("files")
                         ELSE UNCHANGED <<query, results, cursor, shifted>>
  /\ UNCHANGED <<opened, recents, due, searches, offers>>

-----------------------------------------------------------------------------
(* Typing and searching *)

\* handleChange: nothing but a query that is empty moves the cursor.
TypeQuery(q) ==
  /\ Does("type")
  /\ opened = "files"
  /\ query' = q
  /\ IF q = NoQuery THEN results' = <<>> /\ Point("files") /\ due' = {}
               ELSE /\ due' = {[root |-> root, query |-> q]}
                    /\ shifted' = [shifted EXCEPT !["files"] = TRUE]
                    /\ UNCHANGED <<results, cursor>>
  /\ UNCHANGED <<opened, root, recents, searches, offers>>

Search ==
  /\ due # {} /\ due' = {}
  /\ searches' = searches \cup due
  /\ UNCHANGED <<script, spent, opened, root, recents, query, results, offers, cursor, shifted>>

\* fetchFiles is answered: for what was typed then, below the root of then.
Found(s, ok) ==
  /\ s \in searches /\ searches' = searches \ {s}
  /\ IF ok THEN results' = SetToSeq(Queries[s.query]) /\ Point("files")
           ELSE UNCHANGED <<results, cursor, shifted>>
  /\ UNCHANGED <<script, spent, opened, root, recents, query, due, offers>>

\* Sessions come and go, and a query narrows the launcher: the first leaves its
\* cursor alone.
Offer(o, typed) ==
  /\ Does("offer")
  /\ offers' = o
  /\ IF typed THEN opened = "launcher" /\ Point("launcher")
              ELSE /\ shifted' = [shifted EXCEPT !["launcher"] = TRUE]
                   /\ UNCHANGED cursor
  /\ UNCHANGED <<opened, root, recents, searchVars>>

-----------------------------------------------------------------------------
(* Choosing *)

\* ArrowDown and ArrowUp; in an empty list ArrowDown goes before its start.
MoveCursor(by) ==
  /\ Does("move")
  /\ opened \in Lists
  /\ LET at == cursor[opened] + by
         end == Shown(opened) - 1
     IN cursor' = [cursor EXCEPT ![opened] = IF by > 0 THEN IF at < end THEN at ELSE end
                                                       ELSE IF at > 0 THEN at ELSE 0]
  /\ UNCHANGED <<opened, root, recents, searchVars, offers, shifted>>

\* The mouse is over a row.
Hover(i) ==
  /\ Does("move")
  /\ opened \in Lists /\ i \in 0 .. Shown(opened) - 1
  /\ cursor' = [cursor EXCEPT ![opened] = i]
  /\ UNCHANGED <<opened, root, recents, searchVars, offers, shifted>>

\* Enter, a click: the chosen file is the most recent one from now on.  Nothing
\* comes of Enter when the cursor is at no item.
Pick ==
  /\ Does("enter")
  /\ opened \in Lists /\ cursor[opened] \in 0 .. Shown(opened) - 1
  /\ recents' = IF opened = "launcher" THEN recents
                ELSE LET f == DisplayList[cursor[opened] + 1]
                     IN <<f>> \o Among(recents, FileItems \ {f})
  /\ opened' = "none"
  /\ UNCHANGED <<root, searchVars, offers, cursor, shifted>>

PickNext ==
  \/ \E w \in Lists \cup {"url"} : Toggle(w)
  \/ \E r \in Roots : Reroot(r)
  \/ \E q \in DOMAIN Queries : TypeQuery(q)
  \/ Search \/ \E s \in searches, ok \in BOOLEAN : Found(s, ok)
  \/ \E o \in Launchers, typed \in BOOLEAN : Offer(o, typed)
  \/ \E by \in {-1, 1} : MoveCursor(by)
  \/ \E i \in 0 .. Len(DisplayList) + Len(offers) : Hover(i)
  \/ Pick

-----------------------------------------------------------------------------
(* Correctness *)

\* A file is offered once, however it got into the list: recent, found, or both.
EachFileOnce == IsInjective(DisplayList)

\* Enter opens the highlighted row: the sections are laid out in the order of the
\* list that Enter indexes.
HighlightedIsChosen == FileRows = DisplayList

\* Enter always finds an item in a list that is not empty, after results, a reset
\* or a move; only a list that changed without any of these leaves the cursor
\* behind its end.
CursorOnItem ==
  opened \in Lists =>
    shifted[opened] \/ Shown(opened) = 0 \/ cursor[opened] \in 0 .. Shown(opened) - 1

\* Enter opens what is highlighted, and it is there.
PickInv == EachFileOnce /\ HighlightedIsChosen /\ CursorOnItem

=============================================================================
