----------------------------- MODULE CreateForm -----------------------------
(***************************************************************************)
(* The dialog that creates a task, or an agent in a task: what its fields  *)
(* hold, the directory browser and the completion of paths, whose answers  *)
(* come late, and the submission, which asks the server whether the        *)
(* directory is a git repository and goes on when the answer is there.     *)
(*                                                                         *)
(* A path is the sequence of its segments; what is typed may end in a      *)
(* segment that is empty or not a name yet.                                *)
(***************************************************************************)
EXTENDS Naturals, Integers, Sequences, SequencesExt, FiniteSets

CONSTANTS
  Tree,     \* the directories
  Repos,    \* those in a git repository
  Typed,    \* paths the user may type
  Tasks,    \* tasks with a + button, to their directories
  Proxies,  \* proxies of the configuration
  FormPlans \* what the user does in the dialog: [does, steps], kinds of steps and their number

TopLevel == "(no task)"
NoWord == "" \* an empty field or segment

ASSUME TreeAssumption ==
  /\ Tree \subseteq Seq(STRING) /\ IsFiniteSet(Tree) /\ <<>> \in Tree
  /\ Repos \subseteq Tree /\ Typed \subseteq Seq(STRING)
ASSUME TasksAssumption == TopLevel \notin DOMAIN Tasks /\ Range(Tasks) \subseteq Tree
ASSUME PlansAssumption == FormPlans \subseteq [does : SUBSET STRING, steps : Nat]

VARIABLES
  plan,
  shown, parent, proxy,  \* the dialog's props: open, parent's id, config.proxy
  form,        \* the fields
  browsing,    \* showBrowser
  hints, listFor,  \* suggestions, and the directory they are of
  showList,
  selected,    \* selectedSuggestion
  timer,       \* autocompleteTimer: what to complete, in a set
  calls,       \* browseDir calls on their way
  checks,      \* submissions that wait for isGitRepo
  created,     \* requests made
  steps

hintVars == <<hints, listFor, showList, selected>>
inputVars == <<form, browsing, timer>>
formVars == <<plan, shown, parent, proxy, inputVars, hintVars, calls, checks, created, steps>>

\* The fields after the effect for open, config.proxy and the parent's directory.
Fresh(p, px) ==
  [title |-> NoWord, mode |-> "terminal", program |-> "zsh", custom |-> NoWord,
   cwd |-> IF p = TopLevel THEN <<>> ELSE Tasks[p], proxy |-> px, worktree |-> TRUE, name |-> NoWord,
   error |-> FALSE]

FormInit ==
  /\ plan \in FormPlans
  /\ shown = FALSE /\ parent = TopLevel /\ proxy \in Proxies
  /\ form = Fresh(TopLevel, NoWord) /\ browsing = FALSE
  /\ hints = <<>> /\ listFor = <<>> /\ showList = FALSE /\ selected = -1
  /\ timer = {} /\ calls = {} /\ checks = {} /\ created = {} /\ steps = 0

Step(kind) ==
  /\ kind \in plan.does /\ steps < plan.steps /\ steps' = steps + 1
  /\ UNCHANGED plan

\* Something the user does in the open dialog.
User(kind) == shown /\ Step(kind) /\ UNCHANGED <<shown, parent, proxy, created>>

Reset(p, px) ==
  /\ form' = Fresh(p, px)
  /\ browsing' = FALSE /\ hints' = <<>> /\ listFor' = <<>> /\ showList' = FALSE
  /\ UNCHANGED selected

-----------------------------------------------------------------------------
(* The props *)

\* onNew, onNewAgent: the parent outlives the close.
OpenDialog(p) ==
  /\ Step("open")
  /\ ~shown /\ shown' = TRUE /\ parent' = p
  /\ Reset(p, proxy)
  /\ UNCHANGED <<proxy, timer, calls, checks, created>>

Close ==
  /\ Step("open")
  /\ shown /\ shown' = FALSE
  /\ UNCHANGED <<parent, proxy, inputVars, hintVars, calls, checks, created>>

\* The configuration is loaded, or something in it changes.
ConfigChanges(px) ==
  /\ proxy' = px
  /\ IF shown /\ px # proxy THEN Reset(parent, px) ELSE UNCHANGED <<form, browsing, hintVars>>
  /\ UNCHANGED <<plan, shown, parent, timer, calls, checks, created, steps>>

-----------------------------------------------------------------------------
(* The fields *)

Set(field, value) ==
  /\ User("text")
  /\ form' = [form EXCEPT ![field] = value]
  /\ UNCHANGED <<browsing, timer, hintVars, calls, checks>>

\* title, proxy, customProgram
SetText == \E f \in {"title", "proxy"}, t \in {NoWord, "x"} : Set(f, t)
SetCustom(t) == form.program = "custom" /\ Set("custom", t)

\* Chat mode snaps the program.
SetMode(m) ==
  /\ User("mode")
  /\ form' = IF m = "chat" THEN [form EXCEPT !.mode = m, !.program = "claude", !.custom = NoWord]
                           ELSE [form EXCEPT !.mode = m]
  /\ UNCHANGED <<browsing, timer, hintVars, calls, checks>>

SetProgram(p) ==
  /\ User("program")
  /\ form' = IF p = "custom" THEN [form EXCEPT !.program = p]
                             ELSE [form EXCEPT !.program = p, !.custom = NoWord]
  /\ UNCHANGED <<browsing, timer, hintVars, calls, checks>>

\* The button of a recent command.
ApplyRecent(cmd) ==
  /\ User("recent")
  /\ form' = [form EXCEPT !.title = cmd.title, !.mode = "terminal", !.program = cmd.program,
                          !.cwd = cmd.cwd, !.worktree = cmd.worktree, !.error = FALSE]
  /\ UNCHANGED <<browsing, timer, hintVars, calls, checks>>

EffectiveProgram(f) ==
  IF f.program = "custom" THEN IF f.custom = NoWord THEN "claude" ELSE f.custom ELSE f.program

\* The card for the worktree is there.
WorktreeOffered == EffectiveProgram(form) = "claude" /\ form.mode = "terminal" /\ parent = TopLevel

SetWorktree(w) ==
  /\ WorktreeOffered
  /\ User("worktree")
  /\ form' = [form EXCEPT !.worktree = w, !.error = FALSE]
  /\ UNCHANGED <<browsing, timer, hintVars, calls, checks>>

SetName(n) ==
  /\ WorktreeOffered /\ form.worktree
  /\ User("worktree")
  /\ form' = [form EXCEPT !.name = n, !.error = FALSE]
  /\ UNCHANGED <<browsing, timer, hintVars, calls, checks>>

-----------------------------------------------------------------------------
(* The working directory *)

\* handleCwdChange
TypeCwd(path) ==
  /\ User("cwd")
  /\ form' = [form EXCEPT !.cwd = path]
  /\ browsing' = FALSE
  /\ timer' = {path}
  /\ UNCHANGED <<hintVars, calls, checks>>

\* autocomplete, when the timer is due: too little to go by, or a look at the
\* directory that is written so far.
Complete ==
  /\ timer # {} /\ timer' = {}
  /\ LET input == CHOOSE p \in timer : TRUE
     IN IF input = <<>> \/ input = <<NoWord>>
        THEN hints' = <<>> /\ listFor' = <<>> /\ showList' = FALSE /\ UNCHANGED <<selected, calls>>
        ELSE calls' = calls \cup {[kind |-> "complete", path |-> input]} /\ UNCHANGED hintVars
  /\ UNCHANGED <<plan, shown, parent, proxy, form, browsing, checks, created, steps>>

\* The directories in dir whose names begin like the typed segment.
Matches(dir, prefix) ==
  SetToSeq({n \in {d[Len(d)] : d \in Tree \ {<<>>}} :
              Append(dir, n) \in Tree /\ (prefix = NoWord \/ prefix = n)})

\* The suggestions arrive, for what was typed then.
Completed(c, ok) ==
  /\ c \in calls /\ c.kind = "complete"
  /\ calls' = calls \ {c}
  /\ IF ok /\ Front(c.path) \in Tree
     THEN /\ hints' = Matches(Front(c.path), Last(c.path)) /\ listFor' = Front(c.path)
          /\ showList' = (hints' # <<>>) /\ selected' = -1
     ELSE UNCHANGED hintVars
  /\ UNCHANGED <<plan, shown, parent, proxy, inputVars, checks, created, steps>>

\* ArrowDown, ArrowUp
Move(by) ==
  /\ showList /\ hints # <<>>
  /\ User("list")
  /\ selected' = IF by > 0 THEN IF selected < Len(hints) - 1 THEN selected + 1 ELSE Len(hints) - 1
                           ELSE IF selected > -1 THEN selected - 1 ELSE -1
  /\ UNCHANGED <<inputVars, hints, listFor, showList, calls, checks>>

\* applySuggestion, with Tab or Enter or the mouse: it replaces the last segment
\* of what is typed by now.
Choose(i) ==
  /\ showList /\ i \in DOMAIN hints
  /\ User("list")
  /\ form' = [form EXCEPT !.cwd = Append(IF @ = <<>> THEN <<>> ELSE Front(@), hints[i])]
  /\ hints' = <<>> /\ listFor' = <<>> /\ showList' = FALSE
  /\ UNCHANGED <<browsing, timer, selected, calls, checks>>

\* Escape, or the field lost the focus
HideList ==
  /\ showList
  /\ User("list")
  /\ showList' = FALSE
  /\ UNCHANGED <<inputVars, hints, listFor, selected, calls, checks>>

\* Browse, Tab, a segment, "..", an entry
Browse(path) ==
  /\ User("browse")
  /\ \/ path = form.cwd
     \/ browsing /\ \/ \E k \in 0 .. Len(form.cwd) : path = SubSeq(form.cwd, 1, k)
                    \/ path \in Tree /\ path # <<>> /\ Front(path) = form.cwd
  /\ calls' = calls \cup {[kind |-> "browse", path |-> path]}
  /\ UNCHANGED <<inputVars, hintVars, checks>>

\* browseDir is answered: the directory becomes the working directory.
Browsed(c, ok) ==
  /\ c \in calls /\ c.kind = "browse"
  /\ calls' = calls \ {c}
  /\ IF ok /\ c.path \in Tree
     THEN /\ form' = [form EXCEPT !.cwd = c.path, !.error = FALSE]
          /\ browsing' = TRUE /\ showList' = FALSE
     ELSE UNCHANGED <<form, browsing, showList>>
  /\ UNCHANGED <<plan, shown, parent, proxy, timer, hints, listFor, selected, checks, created, steps>>

-----------------------------------------------------------------------------
(* Submitting *)

Request(f, p) ==
  LET own == p = TopLevel /\ f.mode = "terminal"
  IN [mode |-> f.mode, program |-> EffectiveProgram(f), cwd |-> f.cwd, parent |-> p,
      worktree |-> own /\ f.worktree,
      name |-> IF own /\ f.worktree THEN f.name ELSE NoWord]

\* onConfigUpdate, if the proxy is not the one of config then (px), onCreate and
\* onClose; checked is what the server said of the directory.
Send(f, p, px, checked, opened) ==
  /\ created' = created \cup {[request |-> Request(f, p), checked |-> checked, opened |-> opened]}
  /\ shown' = FALSE
  /\ proxy' = IF f.proxy # px THEN f.proxy ELSE proxy

NeedsRepo(f, p) ==
  p = TopLevel /\ f.mode = "terminal" /\ f.worktree /\ EffectiveProgram(f) = "claude"

BadName(f) == f.name = "a b"

\* handleSubmit, until its first await: the fields it has read are those it sends.
Submit ==
  /\ Step("submit") /\ shown
  /\ IF NeedsRepo(form, parent)
     THEN IF BadName(form)
          THEN form' = [form EXCEPT !.error = TRUE] /\ UNCHANGED <<checks, created, shown, proxy>>
          ELSE /\ checks' = checks \cup {[form |-> form, parent |-> parent, proxy |-> proxy]}
               /\ UNCHANGED <<form, created, shown, proxy>>
     ELSE /\ Send(form, parent, proxy, "no", parent)
          /\ UNCHANGED <<form, checks>>
  /\ UNCHANGED <<parent, browsing, timer, hintVars, calls>>

\* (Mutant of Checked: the fields are read when the answer is there.)
CheckedLate(s, says) ==
  /\ s \in checks
  /\ checks' = checks \ {s}
  /\ IF says = "answer" /\ s.form.cwd \notin Repos
     THEN form' = [form EXCEPT !.error = TRUE] /\ UNCHANGED <<created, shown, proxy>>
     ELSE Send(form, parent, proxy, says, s.parent) /\ UNCHANGED form
  /\ UNCHANGED <<plan, parent, browsing, timer, hintVars, calls, steps>>

\* isGitRepo answers or fails; a failure counts as a yes.
Checked(s, says) ==
  /\ s \in checks
  /\ checks' = checks \ {s}
  /\ IF says = "answer" /\ s.form.cwd \notin Repos
     THEN form' = [form EXCEPT !.error = TRUE] /\ UNCHANGED <<created, shown, proxy>>
     ELSE Send(s.form, s.parent, s.proxy, says, s.parent) /\ UNCHANGED form
  /\ UNCHANGED <<plan, parent, browsing, timer, hintVars, calls, steps>>

FormNext ==
  \/ \E p \in DOMAIN Tasks \cup {TopLevel} : OpenDialog(p)
  \/ Close \/ \E px \in Proxies : ConfigChanges(px)
  \/ SetText \/ \E t \in {NoWord, "vim"} : SetCustom(t)
  \/ \E m \in {"terminal", "chat"} : SetMode(m)
  \/ \E p \in {"claude", "zsh", "custom"} : SetProgram(p)
  \/ \E w \in BOOLEAN, d \in Tree :
       ApplyRecent([title |-> "x", program |-> "claude", cwd |-> d, worktree |-> w])
  \/ \E w \in BOOLEAN : SetWorktree(w)
  \/ \E n \in {NoWord, "ok", "a b"} : SetName(n)
  \/ \E p \in Typed : TypeCwd(p)
  \/ Complete \/ HideList
  \/ \E c \in calls, ok \in BOOLEAN : Completed(c, ok) \/ Browsed(c, ok)
  \/ \E by \in {-1, 1} : Move(by)
  \/ \E i \in DOMAIN hints : Choose(i)
  \/ \E p \in Tree \cup Typed : Browse(p)
  \/ Submit \/ \E s \in checks, says \in {"answer", "failure"} : Checked(s, says)

-----------------------------------------------------------------------------
(* Correctness *)

\* The highlighted suggestion is one of those that are shown, if any is.
FormTypeOK ==
  /\ plan \in FormPlans /\ steps \in 0 .. plan.steps
  /\ {shown, browsing, showList, form.worktree, form.error} \subseteq BOOLEAN
  /\ parent \in DOMAIN Tasks \cup {TopLevel}
  /\ form.cwd \in Seq(STRING) /\ listFor \in Tree /\ timer \subseteq Typed
  /\ selected >= -1 /\ (showList => selected < Len(hints))

\* A task with a worktree is created in a directory the server found to be in a
\* repository, or could not say, whatever the user does while it looks.
CheckedBeforeCreate ==
  \A c \in created :
    LET r == c.request
    IN r.parent = TopLevel /\ r.mode = "terminal" /\ r.worktree /\ r.program = "claude" =>
         /\ c.checked # "no" /\ r.name # "a b"
         /\ c.checked = "answer" => r.cwd \in Repos

\* "force it off rather than letting an invisible toggle through": neither an
\* agent of a task nor a chat gets a worktree, and an agent is created in the
\* task the dialog was opened for when it was submitted.
NoHiddenWorktree ==
  \A c \in created :
    /\ c.request.parent = c.opened
    /\ c.request.parent # TopLevel \/ c.request.mode = "chat" =>
         ~c.request.worktree /\ c.request.name = NoWord

\* A suggestion leads to a directory that exists, if it was made for what is
\* typed now.
SuggestionExists ==
  [][hints # <<>> /\ hints' = <<>> /\ form.cwd # <<>> /\ listFor = Front(form.cwd)
       /\ form'.cwd # form.cwd => form'.cwd \in Tree]_formVars

\* What the user has filled in is not reset behind his back: not by an answer, a
\* timer or a change elsewhere in the configuration.
FieldsStay ==
  [][shown /\ shown' /\ steps' = steps /\ proxy' = proxy =>
       \A f \in DOMAIN form \ {"cwd", "error"} : form'[f] = form[f]]_formVars

\* What the dialog owes the session that is made.
FormInv == FormTypeOK /\ CheckedBeforeCreate /\ NoHiddenWorktree

=============================================================================
