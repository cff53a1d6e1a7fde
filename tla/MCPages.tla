------------------------------ MODULE MCPages ------------------------------
(***************************************************************************)
(* The web pages for TLC: the desktop page with its tree and panels, the   *)
(* user's document, the form of a new session and the pickers; a terminal's *)
(* size and clipboard, the viewers of files, a web panel; the mobile stack *)
(* of cards and its form.  These parts share no state and a behaviour      *)
(* exercises one of them.  Pure functions are checked on a sample that is  *)
(* chosen at first.                                                        *)
(***************************************************************************)
EXTENDS Desk, UserConfig, CreateForm, Pickers, TermResize, TermClipboard, Viewer, WebPanel,
        MarkdownLinks, CardStack, NewCard

CONSTANTS A, K, N, F1, U1, a1, a2, NoSample

VARIABLES part, sample

\* A task with an agent, and a conversation that may be made.
MCSessions == {(A :> NoConv) @@ (K :> A)}
Idle == [create |-> 0, delete |-> 0, others |-> 0, open |-> 0, files |-> 0, close |-> 0, drag |-> 0,
         toggle |-> 0, fail |-> 0, reload |-> 0]
MCDeskBudgets ==
  {[Idle EXCEPT !.open = 2, !.delete = 1], [Idle EXCEPT !.open = 1, !.files = 1, !.delete = 1],
   [Idle EXCEPT !.create = 1, !.fail = 1, !.reload = 1],
   [Idle EXCEPT !.create = 1, !.others = 1], [Idle EXCEPT !.delete = 1, !.fail = 1],
   [Idle EXCEPT !.open = 1, !.others = 1, !.reload = 1],
   [Idle EXCEPT !.files = 1, !.others = 1, !.toggle = 1],
   [Idle EXCEPT !.open = 1, !.files = 2, !.close = 1],
   [Idle EXCEPT !.create = 1, !.delete = 1, !.fail = 1],
   [Idle EXCEPT !.open = 1, !.files = 1, !.close = 1, !.drag = 1]}

MCDocs == {[NoDoc EXCEPT !.focused = <<a1>>, !.commands = <<"c1">>],
           [NoDoc EXCEPT !.ports = <<80>>, !.files = <<"f1">>, !.focused = <<a2, a1>>]}

\* Directories, what may be typed (not all of it exists), the repositories and the
\* directory of a task.
MCTree  == {<<>>, <<"a">>, <<"a", "b">>, <<"a", "c">>}
MCTyped == {<<"">>, <<"a", "">>, <<"a", "b">>, <<"x", "b">>}
MCRepos == {<<"a", "b">>}
MCTasks == "T" :> <<"a">>
MCFormPlans ==
  {[does |-> {"open", "program", "worktree", "submit", "browse"}, steps |-> 5],
   [does |-> {"open", "cwd", "program", "submit"}, steps |-> 4],
   [does |-> {"open", "cwd", "list"}, steps |-> 5],
   [does |-> {"open", "text", "mode", "recent", "submit"}, steps |-> 4],
   [does |-> {"open", "text", "program"}, steps |-> 4]}

MCQueries   == ("" :> {"n", "m"}) @@ ("n" :> {"n"}) @@ ("z" :> {})
MCRecents   == {<<>>, <<[root |-> "r", path |-> "m"], [root |-> "s", path |-> "n"]>>}
MCLaunchers == {<<>>, <<"x">>, <<"x", "y">>}
MCPickPlans ==
  {[does |-> {"toggle", "type", "root", "move"}, steps |-> 5],
   [does |-> {"toggle", "type", "move", "enter"}, steps |-> 6],
   [does |-> {"toggle", "offer", "move", "enter"}, steps |-> 4]}

-----------------------------------------------------------------------------
Nothing == [room |-> 0, hide |-> 0, fonts |-> 0, drop |-> 0, restart |-> 0, other |-> 0,
            output |-> 0, remount |-> 0]
MCBudgets ==
  {[Nothing EXCEPT !.room = 2], [Nothing EXCEPT !.room = 1, !.hide = 1], [Nothing EXCEPT !.fonts = 1, !.room = 1],
   [Nothing EXCEPT !.restart = 1, !.room = 1], [Nothing EXCEPT !.other = 1, !.hide = 1],
   [Nothing EXCEPT !.output = 1, !.drop = 1],
   [Nothing EXCEPT !.remount = 1, !.other = 1]}

\* Hits[v][ignoreCase][pattern]: versions of a file with three, two and no matches.
Counts(x, y) == ("" :> 0) @@ ("x" :> x) @@ ("y" :> y)
MCHits == <<(FALSE :> Counts(2, 1)) @@ (TRUE :> Counts(1, 1)),
            (FALSE :> Counts(1, 0)) @@ (TRUE :> Counts(0, 0)),
            (FALSE :> Counts(3, 0)) @@ (TRUE :> Counts(3, 0))>>
MCViewPlans ==
  {[kinds |-> ("v" :> "text"), does |-> {"write", "revisit", "refresh", "fail"}, steps |-> 4],
   [kinds |-> ("w" :> "image"), does |-> {"write", "revisit", "refresh", "fail"}, steps |-> 4],
   [kinds |-> ("v" :> "markdown"), does |-> {"write", "refresh", "search", "copy"}, steps |-> 4],
   [kinds |-> ("v" :> "markdown") @@ ("w" :> "text"), does |-> {"refresh", "search", "close"},
    steps |-> 4]}

\* What may be typed into the address field of a web panel, and the page it means.
MCAddresses == ("https://a" :> "https://a") @@ ("a" :> "https://a") @@ ("https://b" :> "https://b")
               @@ (" " :> "(none)")

MCKin == ("a" :> {"b"}) @@ ("b" :> {}) @@ ("c" :> {})
MCStored == {[cards |-> <<>>, active |-> 0], [cards |-> <<"a", "b", "c">>, active |-> 2]}
MCStackPlans ==
  {[does |-> {"sheet", "add", "look", "touch", "remove"}, steps |-> 4],
   [does |-> {"look", "output", "remove", "touch"}, steps |-> 5],
   [does |-> {"touch", "delete", "others", "close", "output", "look"}, steps |-> 4],
   [does |-> {"sheet", "create", "close", "touch", "reload"}, steps |-> 5]}

MCSheetTree       == {<<>>, <<"h">>, <<"h", "p">>, <<"x">>}
MCUnreadable == {<<"x">>}
MCCardPlans ==
  {[does |-> {"edit", "submit"}, steps |-> 4], [does |-> {"edit", "browse"}, steps |-> 5],
   [does |-> {"browse", "edit", "submit"}, steps |-> 4]}

-----------------------------------------------------------------------------
(* Samples: lists of up to three conversations whose parents may be gone,      *)
(* directories of files of one name, and trees with what is expanded in them.  *)

Ids == <<"x", "y", "z">>
ConvLists == UNION {{[i \in 1 .. n |-> [id |-> Ids[i], parent |-> p[i]]] :
                   p \in [1 .. n -> {NoConv, "x", "y", "z", "gone"}]} : n \in 0 .. 3}
Proper == {l \in ConvLists : \A i \in DOMAIN l : l[i].parent # l[i].id}
Dirs == SeqOf({"u", "v"}, 3)
DirLists == {d \in SeqOf(Dirs, 3) : Len(d) >= 2 /\ \A i, j \in DOMAIN d : i # j => d[i] # d[j]}
SomeDirs == {d \in DirLists : Len(d) < 3 \/ \A i \in DOMAIN d : Len(d[i]) <= 2}
TwoTasks == {l \in Proper : /\ Len(l) = 3 /\ l[1].parent = NoConv
                            /\ \A i \in 1 .. 3 : l[i].parent # "gone"}
Moods == [{"x", "y", "z"} -> {"idle", "working", "awaiting_input"}]

TreeSamples ==
  [kind : {"list"}, list : Proper] \cup [kind : {"dirs"}, dirs : SomeDirs]
  \cup [kind : {"tree"}, list : TwoTasks, act : Moods, expanded : SUBSET {"x", "y"},
        owner : {("f" :> "x") @@ ("g" :> o) : o \in {"y", "z", NoConv}}]

\* A tab names a task exactly if the sidebar shows the conversation under it
\* (tasks.ts).
TreesAreComplete == part = "list" /\ sample.kind = "list" => TreeIsComplete(sample.list)

\* Rows of files that have the same name can be told apart (fileDirHints).
HintsAreUnique == part = "list" /\ sample.kind = "dirs" => HintsTellApart(sample.dirs)

\* What waits for the user is seen in the sidebar, whatever is collapsed
\* (TaskTree.tsx, rollUpActivity).
WaitersAreSeen ==
  part = "list" /\ sample.kind = "tree" =>
    AwaitingIsSeen(sample.list, sample.act, sample.expanded, <<"f", "g">>, sample.owner)

\* The sidebar has a place for every session and every file.
TasksShown == TreesAreComplete /\ HintsAreUnique /\ WaitersAreSeen

\* Files deep and shallow, relative paths of files among them, and links.
Parts == SeqOf({"a", "b", "..", ".", NoName}, 3)
LinkSamples ==
  {[file |-> Path(f[1], f[2]), link |-> Path(l[1], l[2])] :
     f \in BOOLEAN \X SeqOf({"a", ".."}, 2), l \in BOOLEAN \X Parts}

\* A link opens the file one arrives at who walks along it (markdownLinks.ts).
LinksAreWalks == part = "links" => LinkIsWalk(sample.file, sample.link)

\* What a panel shows is what its file, its search and its page are.
PanelsTellTrue ==
  ViewerTypeOK /\ RevisitsShow /\ CountIsTrue /\ PaintedIsLive /\ SignGoes /\ LinksAreWalks

\* The forms and the pickers of both pages.
FormsInv == FormInv /\ PickInv /\ SheetInv

\* A terminal keeps its size and gets what was copied in it.
TerminalInv == ResizeInv /\ NewestNotLost

\* What a step of a page may not do, part for part.
PageSteps ==
  AgentsLeft /\ NewContentIsRevealed /\ WatchedStay /\ SuggestionExists /\ FieldsStay /\ PlaceKept

-----------------------------------------------------------------------------
deskPageVars == <<deskVars, configVars, formVars, pickVars>>
paneVars     == <<resizeVars, clipVars, viewerVars, webVars>>
mobileVars   == <<cardVars, sheetVars>>

OfDesk ==
  /\ part = "desk" /\ DeskNext
  /\ UNCHANGED <<configVars, formVars, pickVars, paneVars, mobileVars>>
OfConfig ==
  /\ part = "config" /\ ConfigNext
  /\ UNCHANGED <<deskVars, formVars, pickVars, paneVars, mobileVars>>
OfForm ==
  /\ part = "form" /\ FormNext
  /\ UNCHANGED <<deskVars, configVars, pickVars, paneVars, mobileVars>>
OfPick ==
  /\ part = "pick" /\ PickNext
  /\ UNCHANGED <<deskVars, configVars, formVars, paneVars, mobileVars>>
OfResize ==
  /\ part = "resize" /\ ResizeNext
  /\ UNCHANGED <<clipVars, viewerVars, webVars, deskPageVars, mobileVars>>
OfClip ==
  /\ part = "clip" /\ ClipNext
  /\ UNCHANGED <<resizeVars, viewerVars, webVars, deskPageVars, mobileVars>>
OfViewer ==
  /\ part = "viewer" /\ ViewerNext
  /\ UNCHANGED <<resizeVars, clipVars, webVars, deskPageVars, mobileVars>>
OfWeb ==
  /\ part = "web" /\ WebNext
  /\ UNCHANGED <<resizeVars, clipVars, viewerVars, deskPageVars, mobileVars>>
OfCards ==
  /\ part = "cards" /\ StackNext
  /\ UNCHANGED <<sheetVars, deskPageVars, paneVars>>
OfSheet ==
  /\ part = "sheet" /\ SheetNext
  /\ UNCHANGED <<cardVars, deskPageVars, paneVars>>

\* A part that is not exercised stays in one initial state.
StillDesk   == DeskInit /\ left = CHOOSE b \in MCDeskBudgets : TRUE
StillConfig == ConfigInit /\ store = CHOOSE d \in MCDocs : TRUE
StillForm   == FormInit /\ plan = (CHOOSE p \in MCFormPlans : TRUE) /\ proxy = ""
StillPick   == /\ PickInit /\ script = (CHOOSE p \in MCPickPlans : TRUE)
               /\ root = "r" /\ recents = <<>> /\ offers = <<>>
StillResize == ResizeInit /\ budget = (CHOOSE b \in Budgets : TRUE) /\ room = 3
StillClip   == ClipInit /\ secure
StillViewer == ViewInit /\ play = CHOOSE p \in ViewPlans : TRUE
StillWeb    == WebInit /\ page = CHOOSE p \in WebPages : TRUE
StillCards  == StackInit /\ agenda = (CHOOSE p \in StackPlans : TRUE) /\ running = {} /\ cards = <<>>
StillSheet  == SheetInit /\ course = CHOOSE p \in CardPlans : TRUE

StillDeskPage == StillDesk /\ StillConfig /\ StillForm /\ StillPick
StillPanes    == StillResize /\ StillClip /\ StillViewer /\ StillWeb
StillMobile   == StillCards /\ StillSheet

Init ==
  \/ /\ part = "desk" /\ sample = NoSample
     /\ DeskInit /\ StillConfig /\ StillForm /\ StillPick /\ StillPanes /\ StillMobile
  \/ /\ part = "config" /\ sample = NoSample
     /\ ConfigInit /\ StillDesk /\ StillForm /\ StillPick /\ StillPanes /\ StillMobile
  \/ /\ part = "form" /\ sample = NoSample
     /\ FormInit /\ StillDesk /\ StillConfig /\ StillPick /\ StillPanes /\ StillMobile
  \/ /\ part = "pick" /\ sample = NoSample
     /\ PickInit /\ StillDesk /\ StillConfig /\ StillForm /\ StillPanes /\ StillMobile
  \/ /\ part = "resize" /\ sample = NoSample
     /\ ResizeInit /\ room # 1 \* of two sizes that fit, the larger one first
     /\ StillClip /\ StillViewer /\ StillWeb /\ StillDeskPage /\ StillMobile
  \/ /\ part = "clip" /\ sample = NoSample
     /\ ClipInit /\ StillResize /\ StillViewer /\ StillWeb /\ StillDeskPage /\ StillMobile
  \/ /\ part = "viewer" /\ sample = NoSample
     /\ ViewInit /\ StillResize /\ StillClip /\ StillWeb /\ StillDeskPage /\ StillMobile
  \/ /\ part = "web" /\ sample = NoSample
     /\ WebInit /\ StillResize /\ StillClip /\ StillViewer /\ StillDeskPage /\ StillMobile
  \/ /\ part = "cards" /\ sample = NoSample
     /\ StackInit /\ StillSheet /\ StillDeskPage /\ StillPanes
  \/ /\ part = "sheet" /\ sample = NoSample
     /\ SheetInit /\ StillCards /\ StillDeskPage /\ StillPanes
  \/ /\ \/ part = "list" /\ sample \in TreeSamples
        \/ part = "links" /\ sample \in LinkSamples
     /\ StillDeskPage /\ StillPanes /\ StillMobile

Next ==
  /\ OfDesk \/ OfConfig \/ OfForm \/ OfPick \/ OfResize \/ OfClip \/ OfViewer \/ OfWeb
     \/ OfCards \/ OfSheet
  /\ UNCHANGED <<part, sample>>

vars == <<part, sample, deskPageVars, paneVars, mobileVars>>
Spec == Init /\ [][Next]_vars
=============================================================================
