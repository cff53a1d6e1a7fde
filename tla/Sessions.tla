----------------------------- MODULE Sessions -----------------------------
(***************************************************************************)
(* ConversationManager: the server's registry of sessions, behind one      *)
(* mutex that create, resume and remove hold across their awaits; its      *)
(* secondary index of chat names; the session files in .neige/sessions     *)
(* that survive the server; and the session daemons, which do too.         *)
(*                                                                         *)
(* What can interfere: a session's program ends, the client of an HTTP     *)
(* request hangs up (its handler is dropped at an await), the server       *)
(* crashes and reloads its files, a file operation fails (save_session and *)
(* remove_session_file ignore that), and todo_write writes its file after  *)
(* it has let go of the mutex.                                             *)
(*                                                                         *)
(* Simplifications: a session's title, program, cwd, worktree and activity *)
(* are left out, and blank names, which create and rename_chat refuse.  A  *)
(* file is an atomic unit; one that a write left unreadable is no file.    *)
(***************************************************************************)
EXTENDS Functions

CONSTANTS
  Ids,         \* session uuids
  Names,       \* chat names
  Trim,        \* str::trim on names
  NoName,      \* the name of a terminal session
  NoParent,    \* parent_id of a root agent
  DiskFaults,  \* may file operations fail?
  SlowDaemons, \* may a daemon get ready after spawn_daemon has given up?
  TodoWrites   \* is todo_write called?

ASSUME SessionsAssumption ==
  /\ NoName \notin Names
  /\ NoParent \notin Ids
  /\ Trim \in [Names -> Names]
  /\ \A n \in Names : Trim[Trim[n]] = Trim[n]
  /\ DiskFaults \in BOOLEAN
  /\ SlowDaemons \in BOOLEAN
  /\ TodoWrites \in BOOLEAN

VARIABLES
  convs,    \* the loaded conversations: id -> [name, parent]
  byName,   \* chat_by_name: name -> id
  attached, \* conversations whose client is alive
  op,       \* the operation that holds the manager mutex across an await
  files,    \* the readable session files: id -> [name, parent]
  todos,    \* ids with a todos file
  writers,  \* todo_write calls between their check and their write
  daemons,  \* ids with a live session daemon
  late,     \* ids with a daemon process that was given up on before it was ready
  used,     \* ids handed out so far
  gone      \* ids whose removal has completed (history)

memory == <<convs, byName, attached>>
disk   == <<files, todos>>
vars   == <<memory, op, disk, writers, daemons, late, used, gone>>

\* A conversation, or the file it is saved in.
Meta == [name : Names \cup {NoName}, parent : Ids \cup {NoParent}]

Idle == [kind |-> "idle"]
LockFree == op = Idle

\* The operation at work is a k at its step s.
At(k, s) == op.kind = k /\ op.step = s

\* HashMap::insert and HashMap::remove.
Put(f, k, v) == [x \in DOMAIN f \cup {k} |-> IF x = k THEN v ELSE f[x]]
Without(f, k) == Restrict(f, DOMAIN f \ {k})

\* save_session: failures are only logged.  A write that fails leaves the old
\* file, or, failing halfway, an unreadable one.
Save(id, meta) ==
  \/ files' = Put(files, id, meta)
  \/ DiskFaults /\ files' \in {files, Without(files, id)}

\* children_of.
Children(id) == {c \in DOMAIN convs : convs[c].parent = id}

Init ==
  /\ convs = <<>>
  /\ byName = <<>>
  /\ attached = {}
  /\ op = Idle
  /\ files = <<>>
  /\ todos = {}
  /\ writers = {}
  /\ daemons = {}
  /\ late = {}
  /\ used = {}
  /\ gone = {}
---------------------------------------------------------------------------
(* Creating and resuming *)

\* (Mutant of NameFree: create does not look for the name.)
NameFreeAlways(name) == TRUE

\* create: the name of a chat session must not be in the index.
NameFree(name) == name = NoName \/ name \notin DOMAIN byName

\* (Mutants of ValidParent: an unchecked parent, and nesting.)
AnyParent(parent) == parent = NoParent \/ parent \in used
NestedParent(parent) == parent = NoParent \/ parent \in DOMAIN convs

\* validate_parent: an agent nests under a loaded root agent only.
ValidParent(parent) ==
  \/ parent = NoParent
  \/ parent \in DOMAIN convs /\ convs[parent].parent = NoParent

\* create: validated under the lock, before the daemon is spawned.
Create(id, name, parent) ==
  /\ LockFree
  /\ id \notin used
  /\ NameFree(name)
  /\ ValidParent(parent)
  /\ op' = [kind |-> "create", step |-> "spawn", id |-> id,
            meta |-> [name |-> name, parent |-> parent]]
  /\ used' = used \cup {id}
  /\ UNCHANGED <<memory, disk, writers, daemons, late, gone>>

\* resume of a session whose client is gone, by the resume endpoint, the
\* resume tool, or a WebSocket that attaches.
Resume(id) ==
  /\ LockFree
  /\ id \in DOMAIN convs
  /\ id \notin attached
  /\ op' = [kind |-> "resume", step |-> "spawn", id |-> id, meta |-> convs[id]]
  /\ UNCHANGED <<memory, disk, writers, daemons, late, used, gone>>

\* spawn_daemon: a live daemon is reused; a fresh one becomes ready, cannot be
\* started, or is not ready in time, which fails the request but leaves the
\* process to start up.
Spawn ==
  /\ op.kind \in {"create", "resume"}
  /\ op.step = "spawn"
  /\ \/ /\ daemons' = daemons \cup {op.id}
        /\ op' = [op EXCEPT !.step = IF op.id \in daemons THEN "reattach" ELSE "connect"]
        /\ UNCHANGED late
     \/ /\ op.id \notin daemons
        /\ late' \in IF SlowDaemons THEN {late, late \cup {op.id}} ELSE {late}
        /\ op' = Idle
        /\ UNCHANGED daemons
  /\ UNCHANGED <<memory, disk, writers, used, gone>>

\* spawn_and_connect fails at the connect: a daemon it has started is killed.
ConnectFailed ==
  /\ op.kind \in {"create", "resume"}
  /\ op.step \in {"connect", "reattach"}
  /\ daemons' = IF op.step = "connect" THEN daemons \ {op.id} ELSE daemons
  /\ op' = Idle
  /\ UNCHANGED <<memory, disk, writers, late, used, gone>>

\* The rest of create and of resume: save, then index and insert.
Connected ==
  /\ op.kind \in {"create", "resume"}
  /\ op.step \in {"connect", "reattach"}
  /\ op.id \in daemons
  /\ attached' = attached \cup {op.id}
  /\ Save(op.id, op.meta)
  /\ convs' = Put(convs, op.id, op.meta)
  /\ byName' = IF op.kind = "create" /\ op.meta.name # NoName
               THEN Put(byName, op.meta.name, op.id)
               ELSE byName
  /\ op' = Idle
  /\ UNCHANGED <<todos, writers, daemons, late, used, gone>>
---------------------------------------------------------------------------
(* Renaming and updating *)

\* (Mutant of Reindex: the old name is left in the index.)
ReindexKeepOld(old, new, id) == Put(byName, new, id)

\* rename_chat's update of the index: the old name's entry goes, whoever's it
\* is.
Reindex(old, new, id) ==
  IF old = new THEN byName ELSE Put(Without(byName, old), new, id)

\* rename_chat.
Rename(id, newName) ==
  LET new == Trim[newName]
      meta == [convs[id] EXCEPT !.name = new]
  IN  /\ LockFree
      /\ id \in DOMAIN convs
      /\ new \in DOMAIN byName => byName[new] = id
      /\ convs[id].name # NoName
      /\ convs' = [convs EXCEPT ![id] = meta]
      /\ byName' = Reindex(convs[id].name, new, id)
      /\ Save(id, meta)
      /\ UNCHANGED <<attached, op, todos, writers, daemons, late, used, gone>>

\* update: the title changes and the file is written.
Update(id) ==
  /\ LockFree
  /\ id \in DOMAIN convs
  /\ Save(id, convs[id])
  /\ UNCHANGED <<memory, op, todos, writers, daemons, late, used, gone>>
---------------------------------------------------------------------------
(* Removing *)

\* (Mutant of RemovalOrder: the task goes before its agents.)
ParentFirst(left, id, c) == id \in left => c = id

\* remove: the children, in any order, before the session itself.
RemovalOrder(left, id, c) == c = id => left = {id}

\* remove: the children are listed once, under the lock.
Remove(id) ==
  /\ LockFree
  /\ id \in used
  /\ op' = [kind |-> "remove", step |-> "kill", id |-> id, left |-> Children(id) \cup {id}]
  /\ UNCHANGED <<memory, disk, writers, daemons, late, used, gone>>

\* remove_one awaits kill_session.
RemoveKill(c) ==
  /\ At("remove", "kill")
  /\ c \in op.left
  /\ RemovalOrder(op.left, op.id, c)
  /\ daemons' = daemons \ {c}
  /\ attached' = attached \ {c}
  /\ op' = [kind |-> "remove", step |-> "drop", id |-> op.id, left |-> op.left, now |-> c]
  /\ UNCHANGED <<convs, byName, disk, writers, late, used, gone>>

\* (Mutant of FilesWithout: the session file stays.)
FilesKept(c) == files' = files

\* remove_session_file, the session's own file.
FilesWithout(c) ==
  \/ files' = Without(files, c)
  \/ DiskFaults /\ files' = files

\* The rest of remove_one: its files, its entry, its name if it is its own.
RemoveDrop ==
  LET c == op.now
  IN  /\ At("remove", "drop")
      /\ FilesWithout(c)
      /\ todos' = todos \ {c}
      /\ convs' = Without(convs, c)
      /\ byName' = IF /\ c \in DOMAIN convs
                      /\ convs[c].name \in DOMAIN byName
                      /\ byName[convs[c].name] = c
                   THEN Without(byName, convs[c].name)
                   ELSE byName
      /\ gone' = IF c \in DOMAIN convs THEN gone \cup {c} ELSE gone
      /\ op' = IF op.left = {c} THEN Idle
               ELSE [kind |-> "remove", step |-> "kill", id |-> op.id, left |-> op.left \ {c}]
      /\ UNCHANGED <<attached, writers, daemons, late, used>>
---------------------------------------------------------------------------
(* todo_write, faults and restarts *)

\* todo_write looks the session up under the lock ...
TodoCheck(id) ==
  /\ TodoWrites
  /\ LockFree
  /\ id \in DOMAIN convs
  /\ writers' = writers \cup {id}
  /\ UNCHANGED <<memory, op, disk, daemons, late, used, gone>>

\* ... and replaces the file after releasing it.
TodoWrite(id) ==
  /\ id \in writers
  /\ todos' = todos \cup {id}
  /\ writers' = writers \ {id}
  /\ UNCHANGED <<memory, op, files, daemons, late, used, gone>>

\* The HTTP client hangs up: the handler is dropped where it awaits, and the
\* mutex guard with it.
Cancel ==
  /\ ~ LockFree
  /\ op.step \in {"spawn", "connect", "reattach", "kill", "drop"}
  /\ op' = Idle
  /\ UNCHANGED <<memory, disk, writers, daemons, late, used, gone>>

\* A session's program ends, and its daemon with it.
DaemonExit(id) ==
  /\ id \in daemons
  /\ daemons' = daemons \ {id}
  /\ attached' = attached \ {id}
  /\ UNCHANGED <<convs, byName, op, disk, writers, late, used, gone>>

\* A daemon that spawn_daemon gave up on gets ready after all.
LateStart(id) ==
  /\ id \in late
  /\ late' = late \ {id}
  /\ daemons' = daemons \cup {id}
  /\ UNCHANGED <<memory, op, disk, writers, used, gone>>

\* load_from_disk: of the files with the same chat name, one is indexed, the
\* first that read_dir happens to return.
Loadable ==
  {index \in [{files[id].name : id \in DOMAIN files} \ {NoName} -> DOMAIN files] :
     \A n \in DOMAIN index : files[index[n]].name = n}

\* The server process ends, anywhere, and a new one loads the session files;
\* the daemons live on.
Restart ==
  /\ convs' = files
  /\ byName' \in Loadable
  /\ attached' = {}
  /\ op' = Idle
  /\ writers' = {}
  /\ UNCHANGED <<disk, daemons, late, used, gone>>

Next ==
  \/ \E id \in Ids, name \in Names \cup {NoName}, parent \in Ids \cup {NoParent} :
       Create(id, name, parent)
  \/ \E id \in Ids : Resume(id)
  \/ Spawn
  \/ ConnectFailed
  \/ Connected
  \/ \E id \in Ids, name \in Names : Rename(id, name)
  \/ \E id \in Ids : Update(id)
  \/ \E id \in Ids : Remove(id)
  \/ \E c \in Ids : RemoveKill(c)
  \/ RemoveDrop
  \/ \E id \in Ids : TodoCheck(id)
  \/ \E id \in Ids : TodoWrite(id)
  \/ Cancel
  \/ \E id \in Ids : DaemonExit(id) \/ LateStart(id)
  \/ Restart

Spec == Init /\ [][Next]_vars
---------------------------------------------------------------------------
(* Properties *)

\* What the operation at work remembers.
OpOK ==
  \/ op = Idle
  \/ op \in [kind : {"create", "resume"}, step : {"spawn", "connect", "reattach"},
             id : Ids, meta : Meta]
  \/ op \in [kind : {"remove"}, step : {"kill"}, id : Ids, left : SUBSET Ids]
  \/ op \in [kind : {"remove"}, step : {"drop"}, id : Ids, left : SUBSET Ids, now : Ids]

\* Every variable stays in its type.
TypeOK ==
  /\ convs \in [DOMAIN convs -> Meta] /\ DOMAIN convs \subseteq Ids
  /\ byName \in [DOMAIN byName -> Ids] /\ DOMAIN byName \subseteq Names
  /\ attached \subseteq Ids
  /\ OpOK
  /\ files \in [DOMAIN files -> Meta] /\ DOMAIN files \subseteq Ids
  /\ todos \subseteq Ids
  /\ writers \subseteq Ids
  /\ daemons \subseteq Ids
  /\ late \subseteq Ids
  /\ used \subseteq Ids
  /\ gone \subseteq used

\* Whatever the disk does, a name that resolves resolves to a loaded session
\* of that name (id_by_chat_name, resolve_chat_session): no stale entries.
NamesResolve ==
  \A n \in DOMAIN byName : byName[n] \in DOMAIN convs /\ convs[byName[n]].name = n

\* Whatever the disk does, agents nest one level deep (validate_parent), or
\* children_of would miss some when a task is deleted.
NestsOneLevel ==
  \A id \in DOMAIN convs :
    convs[id].parent \in DOMAIN convs => convs[convs[id].parent].parent = NoParent

\* As long as file operations succeed, every loaded chat session is the one
\* its name resolves to (the field comment of chat_by_name: "kept in sync by
\* create, remove, rename_chat, and load_from_disk").
EveryChatAddressable ==
  \A id \in DOMAIN convs :
    convs[id].name # NoName =>
      convs[id].name \in DOMAIN byName /\ byName[convs[id].name] = id

\* As long as file operations succeed, no agent is left without its task, in
\* memory or on disk, wherever a removal is cancelled or the server crashes
\* (remove: the children go first).
NoOrphans ==
  /\ \A id \in DOMAIN convs : convs[id].parent \in DOMAIN convs \cup {NoParent}
  /\ \A id \in DOMAIN files : files[id].parent \in DOMAIN files \cup {NoParent}

\* As long as file operations succeed, a deleted session never comes back,
\* across restarts (delete_session: "Permanently delete").
RemovedForGood == gone \cap (DOMAIN convs \cup DOMAIN files) = {}

\* Renaming a session changes what no other session's name resolves to.
RenameSparesOthers ==
  [][\A id \in Ids, new \in Names : Rename(id, new) =>
       \A n \in DOMAIN byName : byName[n] # id =>
         n \in DOMAIN byName' /\ byName'[n] = byName[n]]_vars

\* As long as file operations succeed, the index is a name book, across
\* cancelled requests, crashes and reloads.
Book == INSTANCE NameBook WITH owner <- byName
BookSpec == Book!Spec

\* Why they hold.

\* What is under way fits what is there: a new session has an id of its own,
\* a resumed one is as it is loaded.
OpFits ==
  /\ op.kind = "create" => op.id \in used \ (DOMAIN convs \cup DOMAIN files \cup gone)
  /\ op.kind = "resume" => op.id \in DOMAIN convs /\ op.meta = convs[op.id]

\* Whatever the disk does: the conversations and the files may differ in who
\* is there, not in who nests under whom.
FamilyKept ==
  /\ DOMAIN convs \cup DOMAIN files \subseteq used
  /\ \A id \in DOMAIN convs \cap DOMAIN files : convs[id].parent = files[id].parent
  /\ \A m, k \in {convs, files} : \A id \in DOMAIN m :
       m[id].parent \in DOMAIN k => k[m[id].parent].parent = NoParent

\* Nobody is an agent of a session that is only being created, which nests
\* under nothing but a root.
NewbornAlone ==
  /\ \A m \in {convs, files} : \A id \in DOMAIN m : m[id].parent \in used \cup {NoParent}
  /\ op.kind = "create" =>
       /\ op.meta.parent \in used \cup {NoParent}
       /\ op.meta.parent # op.id
       /\ \A m \in {convs, files} :
            /\ \A id \in DOMAIN m : m[id].parent # op.id
            /\ op.meta.parent \in DOMAIN m => m[op.meta.parent].parent = NoParent

\* Inductive whatever the disk does.
FInv == TypeOK /\ OpFits /\ NamesResolve /\ FamilyKept /\ NewbornAlone

\* A removal that has begun drops all agents of the task, and them first.
RemovalIsComplete ==
  op.kind = "remove" =>
    /\ op.id \in op.left
    /\ op.left \ {op.id} = Children(op.id)
    /\ op.step = "drop" => op.now \in op.left /\ RemovalOrder(op.left, op.id, op.now)

\* Inductive as long as file operations succeed: the disk mirrors the memory.
SInv ==
  /\ TypeOK
  /\ OpFits
  /\ NamesResolve
  /\ EveryChatAddressable
  /\ files = convs
  /\ DOMAIN convs \subseteq used \ gone
  /\ op.kind = "create" => NameFree(op.meta.name) /\ ValidParent(op.meta.parent)
  /\ RemovalIsComplete
  /\ NoOrphans
  /\ NestsOneLevel
=============================================================================
