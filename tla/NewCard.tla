------------------------------- MODULE NewCard -------------------------------
(***************************************************************************)
(* The sheet of the mobile page that makes a session (AddSheet.tsx) and    *)
(* the picker for its directory (DirPicker.tsx): a form whose proxy comes  *)
(* late from the user's document and is saved into it, and a walk through  *)
(* the directories of the server, whose answers come late, too.            *)
(*                                                                         *)
(* A path is a sequence of names.                                          *)
(***************************************************************************)
EXTENDS Naturals, Sequences, SequencesExt, FiniteSets

CONSTANTS
  SheetTree,      \* directories of the server
  Unreadable, \* those of them that cannot be listed
  Texts,     \* titles and names that may be typed; "" is none
  SheetProxies,   \* "" is none
  CardPlans  \* what happens: [does, steps]

NoPath == <<"(none)">>

ASSUME SheetTreeAssumption ==
  /\ <<>> \in SheetTree /\ NoPath \notin SheetTree /\ Unreadable \subseteq SheetTree
  /\ \A p \in SheetTree : p # <<>> => Front(p) \in SheetTree
ASSUME TextsAssumption == "" \in Texts /\ "" \in SheetProxies
ASSUME CardPlansAssumption == CardPlans \subseteq [does : SUBSET STRING, steps : Nat]

VARIABLES
  course, used,
  document,   \* the user's document: [proxy, rest], rest is what others keep in it
  asking,     \* getConfig is under way
  fields,     \* [chat, title, cwd, worktree, branch, proxy]
  savedProxy,
  pending, failed,
  submitted,  \* what the form showed when it was submitted last
  sending,    \* the submission: [stage, fields], in a set
  granted,    \* requests the server got
  picker,     \* browsing: [open, at, failed, loading]
  walks,      \* browseDir calls: [to, nth]
  overlapped  \* two of them were under way at once

entryVars   == <<asking, fields, savedProxy, pending, failed, submitted, sending, granted>>
pickerVars == <<picker, walks, overlapped>>
sheetVars  == <<course, used, document, entryVars, pickerVars>>

Closed == [open |-> FALSE, at |-> NoPath, failed |-> FALSE, loading |-> FALSE]
Blank  == [chat |-> FALSE, title |-> "", cwd |-> NoPath, worktree |-> TRUE, branch |-> "",
           proxy |-> ""]

SheetInit ==
  /\ course \in CardPlans /\ used = 0
  /\ \E p \in SheetProxies : document = [proxy |-> p, rest |-> TRUE]
  /\ asking = TRUE /\ fields = Blank /\ savedProxy = ""
  /\ pending = FALSE /\ failed = FALSE /\ submitted = Blank /\ sending = {} /\ granted = {}
  /\ picker = Closed /\ walks = {} /\ overlapped = FALSE

\* The sheet closes when its session is made.
OnCourse(kind) ==
  /\ granted = {}
  /\ kind \in course.does /\ used < course.steps /\ used' = used + 1 /\ UNCHANGED course
OffCourse == UNCHANGED <<course, used>>

-----------------------------------------------------------------------------
(* The form *)

\* getConfig is answered: over what was typed by then.
ConfigCame ==
  /\ asking /\ asking' = FALSE
  /\ fields' = [fields EXCEPT !.proxy = document.proxy] /\ savedProxy' = document.proxy
  /\ OffCourse /\ UNCHANGED <<document, pending, failed, submitted, sending, granted, pickerVars>>

Edit(f) ==
  /\ OnCourse("edit") /\ ~picker.open
  /\ fields' = f /\ f # fields
  /\ UNCHANGED <<document, asking, savedProxy, pending, failed, submitted, sending, granted,
                 pickerVars>>

SomeEdit ==
  \/ \E x \in Texts : Edit([fields EXCEPT !.title = x]) \/ Edit([fields EXCEPT !.branch = x])
  \/ \E x \in SheetProxies : Edit([fields EXCEPT !.proxy = x])
  \/ \E x \in SheetTree : Edit([fields EXCEPT !.cwd = x])
  \/ Edit([fields EXCEPT !.worktree = ~@]) \/ Edit([fields EXCEPT !.chat = ~@])

CanSubmit == fields.title # "" /\ fields.cwd # NoPath /\ ~pending

\* The form is submitted; a changed proxy is saved first, as the whole document.
SubmitSheet ==
  /\ OnCourse("submit") /\ ~picker.open
  /\ CanSubmit
  /\ pending' = TRUE /\ failed' = FALSE /\ submitted' = fields
  /\ sending' = sending \cup
       {[stage |-> IF fields.proxy # savedProxy THEN "save" ELSE "create", fields |-> fields]}
  /\ UNCHANGED <<document, asking, fields, savedProxy, granted, pickerVars>>

\* saveConfig: its error status is not looked at.
ProxySaved(s, ok) ==
  /\ s \in sending /\ s.stage = "save"
  /\ document' = IF ok THEN [proxy |-> s.fields.proxy, rest |-> FALSE] ELSE document
  /\ savedProxy' = s.fields.proxy
  /\ sending' = (sending \ {s}) \cup {[s EXCEPT !.stage = "create"]}
  /\ OffCourse /\ UNCHANGED <<asking, fields, pending, failed, submitted, granted, pickerVars>>

\* The title is the name of a chat, too.
Asked(f) == [title |-> f.title, cwd |-> f.cwd, worktree |-> f.worktree, branch |-> f.branch,
             proxy |-> f.proxy, name |-> IF f.chat THEN f.title ELSE ""]

\* createConversation is answered.
Made(s, ok) ==
  /\ s \in sending /\ s.stage = "create"
  /\ sending' = sending \ {s} /\ pending' = FALSE
  /\ IF ok THEN granted' = granted \cup {Asked(s.fields)} /\ UNCHANGED failed
           ELSE failed' = TRUE /\ UNCHANGED granted
  /\ OffCourse /\ UNCHANGED <<document, asking, fields, savedProxy, submitted, pickerVars>>

-----------------------------------------------------------------------------
(* The picker *)

\* browse: the listing goes behind a sign until an answer comes, any answer.
BrowseTo(to) ==
  /\ picker' = [picker EXCEPT !.open = TRUE, !.loading = TRUE, !.failed = FALSE]
  /\ walks' = walks \cup {[to |-> to, nth |-> Cardinality(walks)]}
  /\ overlapped' = (overlapped \/ walks # {})

OpenPicker ==
  /\ OnCourse("browse")
  /\ ~picker.open /\ BrowseTo(IF fields.cwd = NoPath THEN <<>> ELSE fields.cwd)
  /\ UNCHANGED <<document, entryVars>>

\* A directory's row: the rows are there unless it is loading or has failed.
GoInto(p) ==
  /\ OnCourse("browse")
  /\ picker.open /\ ~picker.loading /\ ~picker.failed /\ picker.at # NoPath
  /\ p \in SheetTree \ {<<>>} /\ Front(p) = picker.at
  /\ BrowseTo(p) /\ UNCHANGED <<document, entryVars>>

\* The button upwards stays enabled while it is loading.
GoUp ==
  /\ OnCourse("browse")
  /\ picker.open /\ picker.at \notin {NoPath, <<>>}
  /\ BrowseTo(Front(picker.at)) /\ UNCHANGED <<document, entryVars>>

\* browseDir is answered or fails; answers come in any order.
Walked(w) ==
  /\ w \in walks /\ walks' = walks \ {w}
  /\ picker' = IF ~picker.open THEN picker
               ELSE IF w.to \in Unreadable THEN [picker EXCEPT !.failed = TRUE, !.loading = FALSE]
               ELSE [picker EXCEPT !.at = w.to, !.loading = FALSE]
  /\ OffCourse /\ UNCHANGED <<document, entryVars, overlapped>>

\* The directory that is shown is taken, or none; late answers go to a picker that
\* is gone.
ClosePicker(pick) ==
  /\ OnCourse("browse")
  /\ picker.open /\ (pick => picker.at # NoPath)
  /\ fields' = IF pick THEN [fields EXCEPT !.cwd = picker.at] ELSE fields
  /\ picker' = Closed /\ walks' = {} /\ overlapped' = FALSE
  /\ UNCHANGED <<document, asking, savedProxy, pending, failed, submitted, sending, granted>>

SheetNext ==
  \/ ConfigCame \/ SomeEdit \/ SubmitSheet
  \/ \E s \in sending, ok \in BOOLEAN : ProxySaved(s, ok) \/ Made(s, ok)
  \/ OpenPicker \/ GoUp
  \/ \E p \in SheetTree : GoInto(p)
  \/ \E w \in walks : Walked(w)
  \/ \E pick \in BOOLEAN : ClosePicker(pick)

-----------------------------------------------------------------------------
(* Correctness *)

\* A form makes one session at a time, and says so until it is made.
OneAtATime == Cardinality(sending) <= 1 /\ (pending <=> sending # {})

\* The session that is made is the one the form showed when it was submitted,
\* whatever is typed while the proxy is being saved.
MadeAsSubmitted == \A r \in granted : r = Asked(submitted)

\* A row is tapped only in the directory it is a row of: while another one is on
\* its way there are no rows, and the sign goes with the answer, good or bad.
RowsOrSign == picker.open /\ ~overlapped => (picker.loading <=> walks # {})

\* What the form owes the session that is made.
SheetInv == OneAtATime /\ MadeAsSubmitted /\ RowsOrSign

=============================================================================
