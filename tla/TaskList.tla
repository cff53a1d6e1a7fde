------------------------------ MODULE TaskList ------------------------------
(***************************************************************************)
(* The pure parts of the desktop: how a flat list of conversations becomes *)
(* tasks with agents, how tabs and files are named, and which panels of a  *)
(* layout go with a conversation.  A conversation list is a sequence of    *)
(* [id, parent], a file [panel, dir]; a layout is its groups of panels     *)
(* from left to right and the agents its files belong to.                  *)
(***************************************************************************)
EXTENDS Naturals, Sequences, SequencesExt, FiniteSets, FiniteSetsExt, Lists

NoConv == "(no conversation)"

\* conversations.find: the first with this id.
Find(list, id) ==
  LET hits == {i \in DOMAIN list : list[i].id = id}
  IN IF hits = {} THEN [id |-> NoConv, parent |-> NoConv] ELSE list[Min(hits)]

\* byId.get: the last with this id.
ById(list, id) ==
  LET hits == {i \in DOMAIN list : list[i].id = id}
  IN IF hits = {} THEN [id |-> NoConv, parent |-> NoConv] ELSE list[Max(hits)]

\* (Mutant of IsRoot: only a conversation without a parent heads a task.)
IsParentless(list, c) == c.parent = NoConv

\* It heads a task unless its parent is there and is parentless itself.
IsRoot(list, c) ==
  LET parent == ById(list, c.parent)
  IN c.parent = NoConv \/ parent.id = NoConv \/ parent.parent # NoConv

GroupIntoTasks(list) ==
  LET roots == SelectSeq(list, LAMBDA c : IsRoot(list, c))
  IN [i \in DOMAIN roots |->
        [root |-> roots[i],
         children |-> SelectSeq(list, LAMBDA c : ~IsRoot(list, c) /\ c.parent = roots[i].id)]]

\* tabTitle: the conversation whose title is put before that of c.
TabPrefix(list, c) ==
  LET parent == Find(list, c.parent)
  IN IF c.parent = NoConv \/ parent.id = NoConv \/ parent.parent # NoConv THEN NoConv
                                                                          ELSE parent.id

\* Every conversation is in the tree once, and a tab names a task exactly if the
\* tree shows it under that task: "a tab never claims a parent the sidebar does
\* not show it under".
TreeIsComplete(list) ==
  LET tasks == GroupIntoTasks(list)
      Shown(c) == {s \in (DOMAIN tasks) \X (0 .. Len(list)) :
                     LET task == tasks[s[1]]
                     IN IF s[2] = 0 THEN task.root = c
                        ELSE s[2] <= Len(task.children) /\ task.children[s[2]] = c}
  IN \A c \in Range(list) :
       /\ Cardinality(Shown(c)) = 1
       /\ \A s \in Shown(c) :
            TabPrefix(list, c) = IF s[2] = 0 THEN NoConv ELSE tasks[s[1]].root.id

-----------------------------------------------------------------------------
(* Hints for files of the same name *)

\* The last k directories, or the whole path, written absolute.
DirSuffix(dir, k) ==
  IF k > Len(dir) THEN [whole |-> TRUE, parts |-> dir]
                  ELSE [whole |-> FALSE, parts |-> SubSeq(dir, Len(dir) - k + 1, Len(dir))]

NoHint == [whole |-> FALSE, parts |-> <<>>]

UniqueDirSuffix(dirs, i) ==
  LET maxDepth == Max({Len(dirs[j]) : j \in DOMAIN dirs}) + 1
      unique == {k \in 1 .. maxDepth :
                   \A j \in DOMAIN dirs : j = i \/ DirSuffix(dirs[j], k) # DirSuffix(dirs[i], k)}
  IN IF unique = {} THEN NoHint ELSE DirSuffix(dirs[i], Min(unique))

\* fileDirHints, of the files of one name; a single file needs none.
FileDirHints(dirs) ==
  [i \in DOMAIN dirs |-> IF Len(dirs) < 2 THEN NoHint ELSE UniqueDirSuffix(dirs, i)]

\* Two files of the same name in different directories never read the same.
HintsTellApart(dirs) ==
  LET hints == FileDirHints(dirs)
  IN \A i, j \in DOMAIN dirs : dirs[i] # dirs[j] => hints[i] # hints[j] /\ hints[i] # NoHint

-----------------------------------------------------------------------------
(* Panels *)

Placeholder == "placeholder:right"

Docked(groups) == UNION Range(groups)

\* The groups that hold something.
NonEmpty(groups) == Among(groups, Range(groups) \ {{}})

\* Groups without some panels; a group that is empty goes.
Without(groups, panels) == NonEmpty([i \in DOMAIN groups |-> groups[i] \ panels])

\* keepPanel
KeepPanel(panel, ids, convs, owner) ==
  IF panel \in convs THEN panel \in ids
  ELSE panel \notin DOMAIN owner \/ owner[panel] = NoConv \/ owner[panel] \in ids

\* sanitizeLayout, with cleanNode for the groups.
SanitizeLayout(layout, ids, convs) ==
  [layout EXCEPT !.groups =
     Without(@, {p \in Docked(@) : ~KeepPanel(p, ids, convs, layout.owner)})]

\* panelIdsClosedByDelete
PanelIdsClosedByDelete(id, list, owner) ==
  LET gone == {id} \cup {c \in DOMAIN list : list[c] = id}
  IN gone \cup {f \in DOMAIN owner : owner[f] \in gone}

\* staleOverrides: rows whose automatic value flipped.
StaleOverrides(prev, next) ==
  {r \in DOMAIN next : r \in DOMAIN prev /\ prev[r] # next[r]}

-----------------------------------------------------------------------------
(* The rows of the tree *)

Activities == {"unknown", "idle", "working", "awaiting_input"}

Attention == [unknown |-> 0, idle |-> 1, working |-> 2, awaiting_input |-> 3]

\* rollUpActivity: what wants the user's attention most.
RollUpActivity(members) ==
  FoldLeft(LAMBDA winner, a : IF Attention[a] > Attention[winner] THEN a ELSE winner,
           "unknown", members)

\* A row [of, level, activity] of a task, an agent or a file; a row that works is
\* dimmed.
Row(of, level, activity) == [of |-> of, level |-> level, activity |-> activity]
Dimmed(row) == row.activity = "working"

\* The rows of files of an agent; owner says whose a file is.
FileRowsOf(agent, level, files, owner) ==
  LET mine == SelectSeq(files, LAMBDA f : owner[f] = agent)
  IN [i \in DOMAIN mine |-> Row(mine[i], level, "idle")]

\* TaskTree: the rows of a task, act is the activity of each conversation.
TaskRows(task, act, expanded, files, owner) ==
  LET root == task.root.id
      ids == [i \in DOMAIN task.children |-> task.children[i].id]
      Agent(c) == <<Row(c, "agent", act[c])>>
                  \o (IF c \in expanded THEN FileRowsOf(c, "agent file", files, owner) ELSE <<>>)
      all == [i \in DOMAIN ids |-> act[ids[i]]]
  IN IF root \in expanded
     THEN <<Row(root, "task", act[root])>> \o FileRowsOf(root, "task file", files, owner)
          \o FlattenSeq([i \in DOMAIN ids |-> Agent(ids[i])])
     ELSE <<Row(root, "task", RollUpActivity(<<act[root]>> \o all))>>

TreeRows(list, act, expanded, files, owner) ==
  LET tasks == GroupIntoTasks(list)
  IN FlattenSeq([i \in DOMAIN tasks |-> TaskRows(tasks[i], act, expanded, files, owner)])

\* A task that needs the user is seen: whatever is collapsed, an agent that awaits
\* input, or the row of the task it is hidden in, stands out and is not dimmed by
\* its busy siblings.  No file has a row unless the row of its agent is there.
AwaitingIsSeen(list, act, expanded, files, owner) ==
  LET rows == TreeRows(list, act, expanded, files, owner)
      At(id) == {i \in DOMAIN rows : rows[i].of = id}
  IN /\ \A c \in Range(list) :
          LET seenAt == IF At(c.id) # {} THEN At(c.id) ELSE At(c.parent)
          IN seenAt # {} /\ (act[c.id] = "awaiting_input" => \E i \in seenAt : ~Dimmed(rows[i]))
     /\ \A f \in Range(files) :
          IF owner[f] \in expanded /\ At(owner[f]) # {} THEN Cardinality(At(f)) = 1 ELSE At(f) = {}
=============================================================================
