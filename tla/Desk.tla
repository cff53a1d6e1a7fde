-------------------------------- MODULE Desk --------------------------------
(***************************************************************************)
(* The desktop page: the polled list of conversations, the dockview panels *)
(* with their restored and saved layout, deletion, and the expanded rows   *)
(* of the task tree, against a server whose sessions other clients create  *)
(* and delete too.                                                         *)
(*                                                                         *)
(* React's effects run before the next event, so an action ends with them  *)
(* (Commit).  A request is processed by the server in one step and         *)
(* answered in a later one.                                                *)
(***************************************************************************)
EXTENDS TaskList, Functions

CONSTANTS
  Convs,      \* conversations that may exist
  Files,      \* file panels that may be opened
  Urls,       \* web panels that may be opened
  Sessions,   \* the server's sessions at first: functions to their parents
  DeskBudgets \* how often each thing happens, see DeskBudgetType

DeskBudgetType ==
  [create : Nat, delete : Nat, others : Nat, open : Nat, files : Nat, close : Nat, drag : Nat,
   toggle : Nat, fail : Nat, reload : Nat]

Panels == Convs \cup Files \cup Urls \cup {Placeholder}
ConvMaps == UNION {[s -> Convs \cup {NoConv}] : s \in SUBSET Convs}

ASSUME DeskAssumption ==
  /\ Sessions \subseteq ConvMaps
  /\ Convs \cap Files = {} /\ Convs \cap Urls = {} /\ Files \cap Urls = {}
  /\ {NoConv, Placeholder} \cap (Convs \cup Files \cup Urls) = {}
ASSUME DeskBudgetsAssumption == DeskBudgets \subseteq DeskBudgetType

VARIABLES
  left,      \* what is left of the budget
  sessions,  \* the server's sessions, to their parents
  born,      \* the sessions there ever were: no uuid is made twice
  saved,     \* the server's layout
  list,      \* conversations, to their parents
  loadedOnce, connected,
  poll,      \* the answer the server gave to the running poll, or Unserved
  op,        \* the running create or delete
  phase,     \* "restoring" the layout, or "ready"
  fetched,   \* the answers for restoring: [layout, ids]
  groups,    \* the docked panels
  owner,     \* of the docked files
  saving,    \* saveTimerRef is set
  posts,     \* saveLayout calls on their way, in the order they were made
  newestLayout, \* where the layout of the page is, see Whereabouts
  override,  \* rows toggled by hand
  wanted,    \* conversations whose tabs the user has open
  reopened   \* tabs the last deletion did not know of, or that were opened since

asked      == <<wanted, reopened>>
serverVars == <<sessions, born, saved>>
listVars   == <<list, loadedOnce, connected>>
dockVars   == <<phase, groups, owner, saving, override>>
postVars   == <<posts, newestLayout>>
deskVars   == <<left, serverVars, listVars, dockVars, poll, op, fetched, postVars, asked>>

NoLayout == [groups |-> <<>>, owner |-> <<>>]
Unserved == [served |-> FALSE, ids |-> <<>>]
Answer(ids) == [served |-> TRUE, ids |-> ids]
NoOp == [kind |-> "none", id |-> NoConv, stage |-> "none", ids |-> <<>>]

DeskInit ==
  /\ left \in DeskBudgets
  /\ sessions \in Sessions /\ born = sessions /\ saved = NoLayout
  /\ list = <<>> /\ loadedOnce = FALSE /\ connected = TRUE
  /\ poll = Unserved /\ op = NoOp
  /\ phase = "restoring" /\ fetched = [served |-> FALSE, layout |-> NoLayout, ids |-> {}]
  /\ groups = <<>> /\ owner = <<>> /\ saving = FALSE
  /\ posts = <<>> /\ newestLayout = "none"
  /\ override = <<>> /\ wanted = {} /\ reopened = {}

\* f with v at k
Put(f, k, v) == [x \in DOMAIN f \cup {k} |-> IF x = k THEN v ELSE f[x]]

Afford(what) ==
  /\ left[what] > 0
  /\ left' = [left EXCEPT ![what] = @ - 1]

-----------------------------------------------------------------------------
(* Where panels go, and the effects that follow every change *)

KindOf(group) ==
  IF group \subseteq Convs THEN "agent" ELSE IF group \cap Convs = {} THEN "file" ELSE "mixed"

First(g, kind) == {i \in DOMAIN g : KindOf(g[i]) = kind /\ \A j \in 1 .. i - 1 : KindOf(g[j]) # kind}

\* addPanel with routePanelPosition: to its own kind, else beside the other one,
\* agents to the left; among mixed groups to the active one.
Placed(g, panel, kind) ==
  LET same == First(g, kind)
      other == First(g, IF kind = "agent" THEN "file" ELSE "agent")
  IN IF same # {} THEN {[g EXCEPT ![i] = @ \cup {panel}] : i \in same}
     ELSE IF other # {} THEN {InsertAt(g, IF kind = "agent" THEN i ELSE i + 1, {panel}) : i \in other}
     ELSE IF g = <<>> THEN {<<{panel}>>}
     ELSE {[g EXCEPT ![i] = @ \cup {panel}] : i \in DOMAIN g}

\* retirePlaceholderIfCoLocated
Retired(g, joiner) ==
  IF \E i \in DOMAIN g : {Placeholder, joiner} \subseteq g[i] THEN Without(g, {Placeholder}) ELSE g

\* (Mutant of TornDown: it does not wait for the first list.)
EagerTornDown(g, o, ids, once, up) ==
  IF ~up THEN {}
  ELSE {p \in Docked(g) : p \in Convs /\ p \notin ids}
         \cup {f \in DOMAIN o : o[f] # NoConv /\ o[f] \notin ids}

\* Panels of sessions that are gone; o has the files the page knows.
TornDown(g, o, ids, once, up) ==
  IF ~once \/ ~up THEN {}
  ELSE {p \in Docked(g) : p \in Convs /\ p \notin ids}
         \cup {f \in DOMAIN o : o[f] # NoConv /\ o[f] \notin ids}

\* The agent-left, files-right split is held open by a placeholder.
Split(g) ==
  LET hasConv == Docked(g) \cap Convs # {}
      hasFile == Docked(g) \cap (Files \cup Urls) # {}
  IN IF ~hasConv THEN {Without(g, {Placeholder})}
     ELSE IF hasFile \/ Placeholder \in Docked(g) THEN {g}
     ELSE Placed(g, Placeholder, "file")

\* autoExpand: a task with open agents or files of its own, an agent with files.
AutoExpand(ids, g, o) ==
  LET HasFiles(c) == c \in Range(o)
      HasContent(c) == c \in Docked(g) \/ HasFiles(c)
      Shown(c) == ids[c] = NoConv \/ ids[c] \notin DOMAIN ids
  IN [c \in DOMAIN ids |->
        HasFiles(c) \/ (Shown(c) /\ \E k \in DOMAIN ids : ids[k] = c /\ HasContent(k))]

\* Before the layout is restored the page is told of no panel.
KnownGroups(g) == IF phase = "ready" THEN g ELSE <<>>
KnownOwner(o) == IF phase = "ready" THEN o ELSE <<>>
AutoExpanded == AutoExpand(list, KnownGroups(groups), KnownOwner(owner))
Expanded(row) == IF row \in DOMAIN override THEN override[row] ELSE AutoExpanded[row]

\* (Mutant of Discard: rows keep what was toggled.)
KeepOverrides(auto) == override' = override

\* Rows whose automatic value flipped go back to it.
Discard(auto) ==
  override' = Restrict(override, DOMAIN override \ StaleOverrides(AutoExpanded, auto))

\* The page after an event: g and o are docked, ids listed, next is the phase.
Commit(g, o, ids, once, up, next) ==
  LET known == next = "ready"
      torn == TornDown(g, IF known THEN o ELSE <<>>, DOMAIN ids, once, up)
      g1 == Without(g, torn)
      o1 == Restrict(o, DOMAIN o \cap Docked(g1))
  IN \E g2 \in IF known THEN Split(g1) ELSE {g1} :
       /\ list' = ids /\ loadedOnce' = once /\ connected' = up
       /\ phase' = next /\ groups' = g2 /\ owner' = o1
       /\ saving' = (saving \/ (phase = "ready" /\ [groups |-> g2, owner |-> o1]
                                                     # [groups |-> groups, owner |-> owner])
                            \/ (known /\ phase # "ready" /\ g2 # g))
       /\ Discard(AutoExpand(ids, IF known THEN g2 ELSE <<>>, IF known THEN o1 ELSE <<>>))

\* An event of the page that only changes panels.
Dock(g, o) ==
  IF phase = "ready" THEN Commit(g, o, list, loadedOnce, connected, phase)
  ELSE /\ groups' = g /\ owner' = o
       /\ UNCHANGED <<listVars, phase, saving, override>>

-----------------------------------------------------------------------------
(* Lists *)

\* A list of conversations arrives.  A tab whose session it lacks is given up.
Apply(ids) ==
  /\ Commit(groups, owner, ids, TRUE, TRUE, phase)
  /\ wanted' = wanted \cap DOMAIN ids
  /\ UNCHANGED reopened

Offline == Commit(groups, owner, list, loadedOnce, FALSE, phase)

ServePoll ==
  /\ ~poll.served
  /\ poll' = Answer(sessions)
  /\ UNCHANGED <<left, serverVars, listVars, dockVars, op, fetched, postVars, asked>>

PollAnswers ==
  /\ poll.served
  /\ Apply(poll.ids)
  /\ poll' = Unserved
  /\ UNCHANGED <<left, serverVars, op, fetched, postVars>>

PollFails ==
  /\ Afford("fail")
  /\ Offline
  /\ poll' = Unserved
  /\ UNCHANGED <<serverVars, op, fetched, postVars, asked>>

-----------------------------------------------------------------------------
(* The layout *)

\* loadLayout and listConversations
ServeRestore ==
  /\ phase = "restoring" /\ ~fetched.served
  /\ fetched' = [served |-> TRUE, layout |-> saved, ids |-> DOMAIN sessions]
  /\ newestLayout' = "stored"
  /\ UNCHANGED <<left, serverVars, listVars, dockVars, poll, op, posts, asked>>

\* handleReady goes on: what is left of the layout replaces what is docked, and
\* from now on changes are saved and the page is told of them.
Restore ==
  /\ phase = "restoring" /\ fetched.served
  /\ LET layout == SanitizeLayout(fetched.layout, fetched.ids, Convs)
         some == Docked(layout.groups) # {}
         g == IF some THEN layout.groups ELSE groups
         o == IF some THEN Restrict(layout.owner, DOMAIN layout.owner \cap Docked(g)) ELSE owner
         restored == Docked(fetched.layout.groups) \cap fetched.ids
     IN /\ Commit(g, o, list, loadedOnce, connected, "ready")
        /\ wanted' = IF some THEN restored ELSE wanted
        /\ reopened' = reopened \cup restored
  /\ UNCHANGED <<left, serverVars, poll, op, fetched, postVars>>

\* A request failed: the page starts with what is docked.
RestoreFails ==
  /\ Afford("fail")
  /\ phase = "restoring"
  /\ Commit(groups, owner, list, loadedOnce, connected, "ready")
  /\ wanted' = {}
  /\ UNCHANGED reopened
  /\ UNCHANGED <<serverVars, poll, op, fetched, postVars>>

SaveTimer ==
  /\ saving /\ saving' = FALSE
  /\ posts' = Append(posts, [groups |-> groups, owner |-> owner]) /\ newestLayout' = "sent"
  /\ UNCHANGED <<left, serverVars, listVars, phase, groups, owner, override, poll, op, fetched,
                 asked>>

\* Nobody waits for a saveLayout: they reach the server in any order ...
PostArrives(k) ==
  /\ k \in DOMAIN posts
  /\ saved' = posts[k] /\ posts' = RemoveAt(posts, k)
  /\ newestLayout' = AfterArrival(newestLayout, posts, k)
  /\ UNCHANGED <<left, sessions, born, listVars, dockVars, poll, op, fetched, asked>>

\* ... and nobody notices that one fails.
PostFails(k) ==
  /\ Afford("fail")
  /\ k \in DOMAIN posts
  /\ posts' = RemoveAt(posts, k)
  /\ newestLayout' = AfterFailure(newestLayout, posts, k)
  /\ UNCHANGED <<serverVars, listVars, dockVars, poll, op, fetched, asked>>

\* The page is loaded anew.  What it was sending is broken off, or still arrives.
Reload ==
  /\ Afford("reload")
  /\ list' = <<>> /\ loadedOnce' = FALSE /\ connected' = TRUE /\ poll' = Unserved /\ op' = NoOp
  /\ phase' = "restoring" /\ fetched' = [served |-> FALSE, layout |-> NoLayout, ids |-> {}]
  /\ groups' = <<>> /\ owner' = <<>> /\ saving' = FALSE /\ override' = <<>>
  /\ wanted' = {} /\ reopened' = {}
  /\ posts' \in {posts, <<>>} /\ newestLayout' = "none"
  /\ UNCHANGED serverVars

-----------------------------------------------------------------------------
(* What the user does *)

\* openTab
OpenTab(c) ==
  /\ Afford("open")
  /\ c \in DOMAIN list /\ c \notin Docked(groups)
  /\ \E g \in Placed(groups, c, "agent") : Dock(g, owner)
  /\ wanted' = IF phase = "ready" THEN wanted \cup {c} ELSE wanted
  /\ reopened' = reopened \cup {c}
  /\ UNCHANGED <<serverVars, poll, op, fetched, postVars>>

\* openFile moors a file to an agent that is listed; openUrl has none.
OpenFile(f) ==
  /\ Afford("files")
  /\ f \notin Docked(groups)
  /\ \E g \in Placed(groups, f, "file"),
        o \in IF f \in Urls \/ list = <<>> THEN {NoConv} ELSE DOMAIN list :
       Dock(Retired(g, f), IF f \in Urls THEN owner ELSE Put(owner, f, o))
  /\ UNCHANGED <<serverVars, poll, op, fetched, postVars, asked>>

\* closePanel, dockview's own button, Ctrl+W
ClosePanel(p) ==
  /\ Afford("close")
  /\ p \in Docked(groups)
  /\ Dock(Without(groups, {p}), Restrict(owner, DOMAIN owner \ {p}))
  /\ wanted' = wanted \ {p}
  /\ UNCHANGED <<reopened, serverVars, poll, op, fetched, postVars>>

\* dockview: the user drags a panel to another group, or to one of its own.
Drag(p, i, own) ==
  /\ Afford("drag")
  /\ phase = "ready"
  /\ p \in Docked(groups) /\ i \in DOMAIN groups /\ p \notin groups[i]
  /\ LET there == IF own THEN InsertAt(groups, i, {p})
                         ELSE [groups EXCEPT ![i] = @ \cup {p}]
         \* where p was stays without it
         moved == NonEmpty([k \in DOMAIN there |-> IF k = i THEN there[k] ELSE there[k] \ {p}])
     IN Dock(moved, owner)
  /\ UNCHANGED <<serverVars, poll, op, fetched, postVars, asked>>

\* A row's chevron
Fold(row) ==
  /\ Afford("toggle")
  /\ row \in DOMAIN list
  /\ override' = Put(override, row, ~Expanded(row))
  /\ UNCHANGED <<serverVars, listVars, phase, groups, owner, saving, poll, op, fetched, postVars,
                 asked>>

-----------------------------------------------------------------------------
(* Creating and deleting *)

Family(id, ids) == {id} \cup {c \in DOMAIN ids : ids[c] = id}
Start(kind, id) == op' = [kind |-> kind, id |-> id, stage |-> "posted", ids |-> <<>>]

\* handleCreate: the request, with a parent that is a task.
Create(id, parent) ==
  /\ Afford("create")
  /\ op = NoOp
  /\ id \notin DOMAIN born
  /\ parent = NoConv \/ (parent \in DOMAIN list /\ list[parent] = NoConv)
  /\ op' = [kind |-> "create", id |-> id, stage |-> "posted", ids |-> [c \in {id} |-> parent]]
  /\ UNCHANGED <<serverVars, listVars, dockVars, poll, fetched, postVars, asked>>

\* handleDeleteConfirm: the panels of the family first, then the request.
ConfirmDelete(id) ==
  /\ Afford("delete")
  /\ op = NoOp
  /\ id \in DOMAIN list
  /\ Start("delete", id)
  /\ LET closing == PanelIdsClosedByDelete(id, list, KnownOwner(owner))
     IN /\ Dock(Without(groups, closing), Restrict(owner, DOMAIN owner \ closing))
        /\ wanted' = wanted \ closing
        /\ reopened' = (Docked(groups) \cap Convs) \ DOMAIN list
  /\ UNCHANGED <<serverVars, poll, fetched, postVars>>

\* The server creates the session, unless its parent is gone; or removes it with
\* its children.
ServeOp ==
  LET refused == \/ op.kind = "create" /\ op.ids[op.id] # NoConv
                      /\ op.ids[op.id] \notin DOMAIN sessions
                 \/ op.kind = "delete" /\ op.id \notin DOMAIN sessions
  IN /\ op.stage = "posted"
     /\ op' = IF refused THEN NoOp ELSE [op EXCEPT !.stage = "refresh"]
     /\ \/ refused /\ UNCHANGED <<sessions, born>>
        \/ /\ ~refused /\ op.kind = "create"
           /\ sessions' = Put(sessions, op.id, op.ids[op.id]) /\ born' = Put(born, op.id, op.ids[op.id])
        \/ /\ ~refused /\ op.kind = "delete"
           /\ sessions' = Restrict(sessions, DOMAIN sessions \ Family(op.id, sessions))
           /\ UNCHANGED born
     /\ UNCHANGED <<left, saved, listVars, dockVars, poll, fetched, postVars, asked>>

ServeRefresh ==
  /\ op.stage = "refresh"
  /\ op' = [op EXCEPT !.stage = "refreshed", !.ids = sessions]
  /\ UNCHANGED <<left, serverVars, listVars, dockVars, poll, fetched, postVars, asked>>

\* refresh ends, well or not, and a created session gets its tab.
EndOp(ids, up) ==
  /\ op' = NoOp
  /\ IF op.kind = "create" /\ op.id \notin Docked(groups)
     THEN /\ \E g \in Placed(groups, op.id, "agent") :
               Commit(g, owner, ids, loadedOnce \/ up, up, phase)
          /\ wanted' = IF phase = "ready" /\ (~up \/ op.id \in DOMAIN ids)
                       THEN (IF up THEN wanted \cap DOMAIN ids ELSE wanted) \cup {op.id}
                       ELSE IF up THEN wanted \cap DOMAIN ids ELSE wanted
     ELSE /\ Commit(groups, owner, ids, loadedOnce \/ up, up, phase)
          /\ wanted' = IF up THEN wanted \cap DOMAIN ids ELSE wanted
  /\ UNCHANGED <<serverVars, poll, fetched, postVars, reopened>>

Refreshed ==
  /\ op.stage = "refreshed"
  /\ EndOp(op.ids, TRUE)
  /\ UNCHANGED left

RefreshFails ==
  /\ Afford("fail")
  /\ op.stage \in {"refresh", "refreshed"}
  /\ EndOp(list, FALSE)

\* The create or delete itself fails: a toast.
OpFails ==
  /\ Afford("fail")
  /\ op.stage = "posted"
  /\ op' = NoOp
  /\ UNCHANGED <<serverVars, listVars, dockVars, poll, fetched, postVars, asked>>

\* Other clients
OtherCreates(id, parent) ==
  /\ Afford("others")
  /\ id \notin DOMAIN born
  /\ parent = NoConv \/ (parent \in DOMAIN sessions /\ sessions[parent] = NoConv)
  /\ op.id # id
  /\ sessions' = Put(sessions, id, parent) /\ born' = Put(born, id, parent)
  /\ UNCHANGED <<saved, listVars, dockVars, poll, op, fetched, postVars, asked>>

OtherDeletes(id) ==
  /\ Afford("others")
  /\ id \in DOMAIN sessions
  /\ sessions' = Restrict(sessions, DOMAIN sessions \ Family(id, sessions))
  /\ UNCHANGED <<born, saved, listVars, dockVars, poll, op, fetched, postVars, asked>>

DeskNext ==
  \/ ServePoll \/ PollAnswers \/ PollFails
  \/ ServeRestore \/ Restore \/ RestoreFails \/ SaveTimer \/ Reload
  \/ \E k \in DOMAIN posts : PostArrives(k) \/ PostFails(k)
  \/ \E c \in Convs : OpenTab(c) \/ Fold(c) \/ ConfirmDelete(c) \/ OtherDeletes(c)
  \/ \E f \in Files \cup Urls : OpenFile(f)
  \/ \E p \in Panels : ClosePanel(p) \/ \E i \in DOMAIN groups, own \in BOOLEAN : Drag(p, i, own)
  \/ \E c \in Convs, p \in Convs \cup {NoConv} : Create(c, p) \/ OtherCreates(c, p)
  \/ ServeOp \/ ServeRefresh \/ Refreshed \/ RefreshFails \/ OpFails

-----------------------------------------------------------------------------
(* Correctness *)

DeskTypeOK ==
  /\ left \in DeskBudgetType
  /\ sessions \in ConvMaps /\ list \in ConvMaps
  /\ {loadedOnce, connected, saving, poll.served} \subseteq BOOLEAN /\ poll.ids \in ConvMaps
  /\ op.kind \in {"none", "create", "delete"}
  /\ op.stage \in {"none", "posted", "refresh", "refreshed"}
  /\ phase \in {"restoring", "ready"} /\ fetched.ids \subseteq Convs
  /\ \A g \in Range(groups) : g \in (SUBSET Panels) \ {{}}
  /\ \A i, j \in DOMAIN groups : i # j => groups[i] \cap groups[j] = {}
  /\ DOMAIN owner = Docked(groups) \cap Files /\ Range(owner) \subseteq Convs \cup {NoConv}
  /\ Range(override) \subseteq BOOLEAN /\ wanted \subseteq Convs
  /\ newestLayout \in Whereabouts

\* A tab the user has open stays, as long as its session lives and no list that
\* arrived lacked it: not torn down for a list that has not come, nor for one
\* from before an outage. The exception is the code's: a poll answered before a
\* session was created and arriving after it lacks the session, and closes its
\* tab (Apply takes it out of wanted).
TabsStay == phase = "ready" => wanted \cap DOMAIN sessions \subseteq Docked(groups)

\* Nor is it lost with the next page: the layout that was saved has it, once the
\* newest save has reached the server, and until an older one comes late.
SavedTabsStay ==
  phase = "ready" /\ ~saving /\ newestLayout = "stored" =>
    wanted \cap DOMAIN sessions \subseteq Docked(saved.groups)

\* Panels don't outlive their session: what is docked is listed, and so are the
\* agents of the files.
PanelsHaveSessions ==
  phase = "ready" /\ loadedOnce /\ connected =>
    /\ Docked(groups) \cap Convs \subseteq DOMAIN list
    /\ Range(owner) \subseteq DOMAIN list \cup {NoConv}

\* A deleted session and its children are off the page from the confirmation
\* on, whatever becomes of the request: a tab of theirs was opened again, or the
\* page had not heard yet whose child it was.
DeletedIsClosed ==
  op.kind = "delete" /\ phase = "ready" =>
    Docked(groups) \cap Family(op.id, list) \subseteq reopened

\* The split: an agent always has a file side, and an empty page no placeholder.
SplitKept ==
  phase = "ready" => ((Docked(groups) \cap Convs # {}) <=>
                      (Docked(groups) \cap Convs # {} /\ Docked(groups) \ Convs # {}))
                     /\ (Placeholder \in Docked(groups) => Docked(groups) \cap Convs # {})

\* Agents are to the left of files, each in groups of their own.
InOrder(g) ==
  \A i, j \in DOMAIN g :
    /\ i < j => ~(KindOf(g[i]) = "file" /\ KindOf(g[j]) = "agent")
    /\ KindOf(g[i]) # "mixed"
Sorted == InOrder(groups)

\* The user has not dragged the agents apart.
Together(g) == \A i, j \in DOMAIN g : KindOf(g[i]) = "agent" /\ KindOf(g[j]) = "agent" => i = j

\* Only the user mixes them up: whatever the page opens, closes, retires or
\* tears down, it keeps them sorted, unless it makes the file side anew for agents
\* the user has dragged apart: that goes to the right of the first of them.
AgentsLeft ==
  [][/\ Sorted /\ phase' = phase /\ left'.drag = left.drag
     /\ Together(groups) \/ (phase = "ready" /\ Docked(groups') \cap (Files \cup Urls) # {})
     => Sorted']_deskVars

\* A row that gets something to show opens, even if it was closed by hand, and
\* one that has nothing left closes.
NewContentIsRevealed ==
  [][\A r \in DOMAIN list \cap DOMAIN list' :
       AutoExpanded[r] # AutoExpanded'[r] => Expanded(r)' = AutoExpanded'[r]]_deskVars

\* What the page owes the user's tabs.
DeskInv ==
  /\ DeskTypeOK
  /\ TabsStay /\ SavedTabsStay
  /\ PanelsHaveSessions /\ DeletedIsClosed /\ SplitKept

=============================================================================
