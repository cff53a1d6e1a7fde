--------------------------- MODULE SessionsProofs ---------------------------
(***************************************************************************)
(* Theorems about Sessions, for every set of uuids and names.  Whatever    *)
(* the disk does: types, name resolution and one-level nesting.  As long   *)
(* as file operations succeed: every chat session is addressable, no agent *)
(* outlives its task, what is deleted stays deleted, and the index of      *)
(* names implements NameBook.                                              *)
(***************************************************************************)
EXTENDS Sessions, TLAPS

----------------------------------------------------------------------------
(* The operators on maps *)

\* HashMap::insert.
LEMMA PutType ==
  ASSUME NEW S, NEW K, NEW f, f \in [DOMAIN f -> S], DOMAIN f \subseteq K,
         NEW k \in K, NEW v \in S
  PROVE  /\ Put(f, k, v) \in [DOMAIN Put(f, k, v) -> S]
         /\ DOMAIN Put(f, k, v) \subseteq K
BY DEF Put

\* HashMap::remove.
LEMMA WithoutShape ==
  ASSUME NEW f, NEW k
  PROVE  /\ DOMAIN Without(f, k) = DOMAIN f \ {k}
         /\ \A x \in DOMAIN f : x # k => Without(f, k)[x] = f[x]
BY DEF Without, Restrict

LEMMA WithoutType ==
  ASSUME NEW S, NEW K, NEW f, f \in [DOMAIN f -> S], DOMAIN f \subseteq K, NEW k
  PROVE  /\ Without(f, k) \in [DOMAIN Without(f, k) -> S]
         /\ DOMAIN Without(f, k) \subseteq K
BY DEF Without, Restrict

\* What an operation at work looks like, by its kind.
LEMMA OpShape ==
  ASSUME OpOK
  PROVE  /\ op.kind \in {"idle", "create", "resume", "remove"}
         /\ op.kind = "idle" <=> op = Idle
         /\ op.kind \in {"create", "resume"} =>
              op \in [kind : {"create", "resume"}, step : {"spawn", "connect", "reattach"},
                      id : Ids, meta : Meta]
         /\ op.kind = "remove" =>
              /\ op.id \in Ids /\ op.left \in SUBSET Ids
              /\ op.step \in {"kill", "drop"}
              /\ op.step = "drop" => op.now \in Ids
BY DEF OpOK, Idle

\* save_session writes what it is given, or fails.
LEMMA SaveShape ==
  ASSUME NEW id \in Ids, NEW meta \in Meta, Save(id, meta),
         files \in [DOMAIN files -> Meta], DOMAIN files \subseteq Ids
  PROVE  /\ files' \in [DOMAIN files' -> Meta] /\ DOMAIN files' \subseteq Ids
         /\ \A x \in DOMAIN files' :
              \/ x = id /\ files'[x] = meta
              \/ x \in DOMAIN files /\ files'[x] = files[x]
<1>1. CASE files' = Put(files, id, meta)
  <2>1. files' \in [DOMAIN files' -> Meta] /\ DOMAIN files' \subseteq Ids
    BY <1>1, PutType
  <2>2. \A x \in DOMAIN files' :
          \/ x = id /\ files'[x] = meta
          \/ x \in DOMAIN files /\ files'[x] = files[x]
    BY <1>1 DEF Put
  <2> QED
    BY <2>1, <2>2
<1>2. CASE files' = files
  BY <1>2
<1>3. CASE files' = Without(files, id)
  <2>1. files' \in [DOMAIN files' -> Meta] /\ DOMAIN files' \subseteq Ids
    BY <1>3, WithoutType
  <2> QED
    BY <1>3, <2>1, WithoutShape
<1> QED
  BY <1>1, <1>2, <1>3 DEF Save

----------------------------------------------------------------------------
(* Types *)

LEMMA InitFInv == Init => FInv
<1> SUFFICES ASSUME Init PROVE FInv
  OBVIOUS
<1>1. TypeOK
  BY DEF Init, TypeOK, OpOK, Idle
<1>2. OpFits /\ NamesResolve
  BY DEF Init, OpFits, NamesResolve, Idle
<1>3. FamilyKept /\ NewbornAlone
  BY DEF Init, FamilyKept, NewbornAlone, Idle
<1> QED
  BY <1>1, <1>2, <1>3 DEF FInv

\* Every action keeps every variable in its type.
LEMMA TypeStep == FInv /\ [Next]_vars => TypeOK'
<1> SUFFICES ASSUME FInv, [Next]_vars PROVE TypeOK'
  OBVIOUS
<1> USE SessionsAssumption DEF SessionsAssumption
<1>0. TypeOK /\ OpOK /\ DOMAIN convs \subseteq used /\ DOMAIN files \subseteq used
  BY DEF FInv, TypeOK, FamilyKept
<1>1. ASSUME NEW id \in Ids, NEW name \in Names \cup {NoName},
             NEW parent \in Ids \cup {NoParent}, Create(id, name, parent)
      PROVE  TypeOK'
  <2>1. [name |-> name, parent |-> parent] \in Meta
    BY DEF Meta
  <2>2. OpOK'
    BY <1>1, <2>1 DEF Create, OpOK
  <2> QED
    BY <1>0, <1>1, <2>2 DEF TypeOK, Create, memory, disk
<1>2. ASSUME NEW id \in Ids, Resume(id) PROVE TypeOK'
  <2>1. convs[id] \in Meta
    BY <1>0, <1>2 DEF Resume, TypeOK
  <2>2. OpOK'
    BY <1>2, <2>1 DEF Resume, OpOK
  <2> QED
    BY <1>0, <1>2, <2>2 DEF TypeOK, Resume, memory, disk
<1>3. ASSUME Spawn PROVE TypeOK'
  <2>1. op \in [kind : {"create", "resume"}, step : {"spawn", "connect", "reattach"},
                id : Ids, meta : Meta]
    BY <1>0, <1>3, OpShape DEF Spawn
  <2>2. op.id \in Ids
    BY <2>1
  <2>3. OpOK'
    BY <1>3, <2>1 DEF Spawn, OpOK
  <2>4. late' \subseteq Ids /\ daemons' \subseteq Ids
    BY <1>0, <1>3, <2>2 DEF Spawn, TypeOK
  <2> QED
    BY <1>0, <1>3, <2>3, <2>4 DEF TypeOK, Spawn, memory, disk
<1>4. ASSUME ConnectFailed PROVE TypeOK'
  <2>1. OpOK' /\ daemons' \subseteq Ids
    BY <1>0, <1>4 DEF ConnectFailed, OpOK, TypeOK
  <2> QED
    BY <1>0, <1>4, <2>1 DEF TypeOK, ConnectFailed, memory, disk
<1>5. ASSUME Connected PROVE TypeOK'
  <2>1. op.id \in Ids /\ op.meta \in Meta
    BY <1>0, <1>5, OpShape DEF Connected
  <2>2. op.meta.name \in Names \cup {NoName}
    BY <2>1 DEF Meta
  <2>7. convs \in [DOMAIN convs -> Meta] /\ DOMAIN convs \subseteq Ids
    BY <1>0 DEF TypeOK
  <2>8. convs' = Put(convs, op.id, op.meta)
    BY <1>5 DEF Connected
  <2>3. convs' \in [DOMAIN convs' -> Meta] /\ DOMAIN convs' \subseteq Ids
    BY <2>1, <2>7, <2>8, PutType
  <2>4. byName' \in [DOMAIN byName' -> Ids] /\ DOMAIN byName' \subseteq Names
    <3>1. byName \in [DOMAIN byName -> Ids] /\ DOMAIN byName \subseteq Names
      BY <1>0 DEF TypeOK
    <3>2. CASE op.kind = "create" /\ op.meta.name # NoName
      <4>1. byName' = Put(byName, op.meta.name, op.id) /\ op.meta.name \in Names
        BY <1>5, <2>2, <3>2 DEF Connected
      <4>2. \A n \in Names :
              /\ Put(byName, n, op.id) \in [DOMAIN Put(byName, n, op.id) -> Ids]
              /\ DOMAIN Put(byName, n, op.id) \subseteq Names
        BY <2>1, <3>1, PutType
      <4> QED
        BY <4>1, <4>2
    <3>3. CASE ~ (op.kind = "create" /\ op.meta.name # NoName)
      BY <1>5, <3>1, <3>3 DEF Connected
    <3> QED
      BY <3>2, <3>3
  <2>5. files' \in [DOMAIN files' -> Meta] /\ DOMAIN files' \subseteq Ids
    BY <1>0, <1>5, <2>1, SaveShape DEF Connected, TypeOK
  <2>6. OpOK' /\ attached' \subseteq Ids
    BY <1>0, <1>5, <2>1 DEF Connected, OpOK, TypeOK
  <2> QED
    BY <1>0, <1>5, <2>3, <2>4, <2>5, <2>6 DEF TypeOK, Connected
<1>6. ASSUME NEW id \in Ids, NEW name \in Names, Rename(id, name) PROVE TypeOK'
  <2> DEFINE meta == [convs[id] EXCEPT !.name = Trim[name]]
  <2>1. id \in DOMAIN convs /\ convs[id] \in Meta /\ Trim[name] \in Names
    BY <1>0, <1>6 DEF Rename, TypeOK
  <2>2. meta \in Meta
    BY <2>1 DEF Meta
  <2>3. convs' = [convs EXCEPT ![id] = meta] /\ Save(id, meta)
    BY <1>6 DEF Rename
  <2> HIDE DEF meta
  <2>4. convs' \in [DOMAIN convs' -> Meta] /\ DOMAIN convs' \subseteq Ids
    BY <1>0, <2>2, <2>3 DEF TypeOK
  <2>5. files' \in [DOMAIN files' -> Meta] /\ DOMAIN files' \subseteq Ids
    BY <1>0, <2>2, <2>3, SaveShape DEF TypeOK
  <2>6. byName' \in [DOMAIN byName' -> Ids] /\ DOMAIN byName' \subseteq Names
    <3>1. byName \in [DOMAIN byName -> Ids] /\ DOMAIN byName \subseteq Names
      BY <1>0 DEF TypeOK
    <3>2. \A n \in Names \cup {NoName} :
            /\ Without(byName, n) \in [DOMAIN Without(byName, n) -> Ids]
            /\ DOMAIN Without(byName, n) \subseteq Names
      BY <3>1, WithoutType
    <3>3. convs[id].name \in Names \cup {NoName}
      BY <2>1 DEF Meta
    <3>4. byName' = Reindex(convs[id].name, Trim[name], id)
      BY <1>6 DEF Rename
    <3>5. CASE convs[id].name = Trim[name]
      BY <3>1, <3>4, <3>5 DEF Reindex
    <3>6. CASE convs[id].name # Trim[name]
      <4>1. byName' = Put(Without(byName, convs[id].name), Trim[name], id)
        BY <3>4, <3>6 DEF Reindex
      <4> DEFINE f == Without(byName, convs[id].name)
      <4>2. f \in [DOMAIN f -> Ids] /\ DOMAIN f \subseteq Names
        BY <3>2, <3>3
      <4>3. byName' = Put(f, Trim[name], id)
        BY <4>1
      <4> HIDE DEF f
      <4> QED
        BY <2>1, <4>2, <4>3, PutType
    <3> QED
      BY <3>5, <3>6
  <2> QED
    BY <1>0, <1>6, <2>4, <2>5, <2>6 DEF TypeOK, OpOK, Rename
<1>7. ASSUME NEW id \in Ids, Update(id) PROVE TypeOK'
  <2>1. convs[id] \in Meta
    BY <1>0, <1>7 DEF Update, TypeOK
  <2>2. files' \in [DOMAIN files' -> Meta] /\ DOMAIN files' \subseteq Ids
    BY <1>0, <1>7, <2>1, SaveShape DEF Update, TypeOK
  <2> QED
    BY <1>0, <1>7, <2>2 DEF TypeOK, OpOK, Update, memory
<1>8. ASSUME NEW id \in Ids, Remove(id) PROVE TypeOK'
  <2>1. Children(id) \subseteq Ids
    BY <1>0 DEF Children, TypeOK
  <2>2. OpOK'
    BY <1>8, <2>1 DEF Remove, OpOK
  <2> QED
    BY <1>0, <1>8, <2>2 DEF TypeOK, Remove, memory, disk
<1>9. ASSUME NEW c \in Ids, RemoveKill(c) PROVE TypeOK'
  <2>1. op.id \in Ids /\ op.left \in SUBSET Ids
    BY <1>0, <1>9, OpShape DEF RemoveKill, At
  <2>2. OpOK'
    BY <1>9, <2>1 DEF RemoveKill, OpOK
  <2> QED
    BY <1>0, <1>9, <2>2 DEF TypeOK, RemoveKill, disk
<1>10. ASSUME RemoveDrop PROVE TypeOK'
  <2>1. op.id \in Ids /\ op.left \in SUBSET Ids /\ op.now \in Ids
    BY <1>0, <1>10, OpShape DEF RemoveDrop, At
  <2>2. OpOK'
    BY <1>10, <2>1 DEF RemoveDrop, OpOK
  <2>7. /\ files \in [DOMAIN files -> Meta] /\ DOMAIN files \subseteq Ids
        /\ convs \in [DOMAIN convs -> Meta] /\ DOMAIN convs \subseteq Ids
    BY <1>0 DEF TypeOK
  <2>8. /\ convs' = Without(convs, op.now)
        /\ files' = Without(files, op.now) \/ files' = files
    BY <1>10 DEF RemoveDrop, FilesWithout
  <2>9. /\ Without(files, op.now) \in [DOMAIN Without(files, op.now) -> Meta]
        /\ DOMAIN Without(files, op.now) \subseteq Ids
    BY <2>7, WithoutType
  <2>3. files' \in [DOMAIN files' -> Meta] /\ DOMAIN files' \subseteq Ids
    BY <2>7, <2>8, <2>9
  <2>4. convs' \in [DOMAIN convs' -> Meta] /\ DOMAIN convs' \subseteq Ids
    BY <2>7, <2>8, WithoutType
  <2>5. byName' \in [DOMAIN byName' -> Ids] /\ DOMAIN byName' \subseteq Names
    <3>1. byName \in [DOMAIN byName -> Ids] /\ DOMAIN byName \subseteq Names
      BY <1>0 DEF TypeOK
    <3> DEFINE n == convs[op.now].name
    <3>2. byName' = byName \/ byName' = Without(byName, n)
      BY <1>10 DEF RemoveDrop
    <3> HIDE DEF n
    <3>3. /\ Without(byName, n) \in [DOMAIN Without(byName, n) -> Ids]
          /\ DOMAIN Without(byName, n) \subseteq Names
      BY <3>1, WithoutType
    <3> QED
      BY <3>1, <3>2, <3>3
  <2>6. gone' \subseteq used' /\ todos' \subseteq Ids
    BY <1>0, <1>10, <2>1 DEF RemoveDrop, TypeOK
  <2> QED
    BY <1>0, <1>10, <2>2, <2>3, <2>4, <2>5, <2>6 DEF TypeOK, RemoveDrop
<1>11. ASSUME NEW id \in Ids, TodoCheck(id) \/ TodoWrite(id) PROVE TypeOK'
  BY <1>0, <1>11 DEF TypeOK, OpOK, TodoCheck, TodoWrite, memory, disk
<1>12. ASSUME Cancel PROVE TypeOK'
  BY <1>0, <1>12 DEF TypeOK, OpOK, Cancel, memory, disk
<1>13. ASSUME NEW id \in Ids, DaemonExit(id) \/ LateStart(id) PROVE TypeOK'
  BY <1>0, <1>13 DEF TypeOK, OpOK, DaemonExit, LateStart, memory, disk
<1>14. ASSUME Restart PROVE TypeOK'
  <2>1. \A id \in DOMAIN files : files[id].name \in Names \cup {NoName}
    BY <1>0 DEF TypeOK, Meta
  <2>2. byName' \in [{files[id].name : id \in DOMAIN files} \ {NoName} -> DOMAIN files]
    BY <1>14 DEF Restart, Loadable
  <2>3. byName' \in [DOMAIN byName' -> Ids] /\ DOMAIN byName' \subseteq Names
    BY <1>0, <2>1, <2>2 DEF TypeOK
  <2> QED
    BY <1>0, <1>14, <2>3 DEF TypeOK, OpOK, Restart, disk
<1>15. ASSUME UNCHANGED vars PROVE TypeOK'
  BY <1>0, <1>15 DEF TypeOK, OpOK, vars, memory, disk
<1> QED
  BY <1>1, <1>2, <1>3, <1>4, <1>5, <1>6, <1>7, <1>8, <1>9, <1>10, <1>11, <1>12,
     <1>13, <1>14, <1>15 DEF Next
----------------------------------------------------------------------------
(* Whatever the disk does *)

\* Where the conversations and the files come from what was there, nobody's
\* parent has changed and nobody is new.
Descends ==
  \A m \in {convs', files'} : \A x \in DOMAIN m :
    \E k \in {convs, files} : x \in DOMAIN k /\ m[x].parent = k[x].parent

\* A step under which nobody is born keeps families as they are.
LEMMA FamilyStep ==
  ASSUME FamilyKept, NewbornAlone, Descends, used' = used, op'.kind # "create"
  PROVE  FamilyKept' /\ NewbornAlone'
<1>1. \A x \in DOMAIN convs' \cup DOMAIN files' : x \in DOMAIN convs \cup DOMAIN files
  BY DEF Descends
<1>2. (DOMAIN convs \cup DOMAIN files \subseteq used)'
  BY <1>1 DEF FamilyKept
<1>3. \A m \in {convs', files'} : \A x \in DOMAIN m : \A k \in {convs, files} :
        x \in DOMAIN k => m[x].parent = k[x].parent
  BY DEF Descends, FamilyKept
<1>4. (\A id \in DOMAIN convs \cap DOMAIN files : convs[id].parent = files[id].parent)'
  BY <1>1, <1>3
<1>5. (\A m, k \in {convs, files} : \A id \in DOMAIN m :
         m[id].parent \in DOMAIN k => k[m[id].parent].parent = NoParent)'
  <2> SUFFICES ASSUME NEW m \in {convs', files'}, NEW k \in {convs', files'},
                      NEW id \in DOMAIN m, m[id].parent \in DOMAIN k
               PROVE  k[m[id].parent].parent = NoParent
    OBVIOUS
  <2>1. PICK m0 \in {convs, files} : id \in DOMAIN m0 /\ m[id].parent = m0[id].parent
    BY DEF Descends
  <2>2. PICK k0 \in {convs, files} :
          m[id].parent \in DOMAIN k0 /\ k[m[id].parent].parent = k0[m[id].parent].parent
    BY DEF Descends
  <2> QED
    BY <2>1, <2>2 DEF FamilyKept
<1>6. (\A m \in {convs, files} : \A id \in DOMAIN m : m[id].parent \in used \cup {NoParent})'
  BY DEF Descends, NewbornAlone
<1> QED
  BY <1>2, <1>4, <1>5, <1>6 DEF FamilyKept, NewbornAlone

\* A step that leaves conversations, files and the operation alone.
LEMMA FamilySame ==
  ASSUME FamilyKept, NewbornAlone, OpFits, NamesResolve, used' = used, gone' = gone,
         convs' = convs, files' = files, byName' = byName,
         \/ op' = op
         \/ op' = Idle
         \/ /\ op'.kind = op.kind
            /\ op.kind \in {"create", "resume"} => op'.id = op.id /\ op'.meta = op.meta
  PROVE  FamilyKept' /\ NewbornAlone' /\ OpFits' /\ NamesResolve'
<1>1. FamilyKept' /\ NamesResolve'
  BY DEF FamilyKept, NamesResolve
<1>2. op'.kind = "create" => op.kind = "create" /\ op'.id = op.id /\ op'.meta = op.meta
  BY DEF Idle
<1>3. op'.kind = "resume" => op.kind = "resume" /\ op'.id = op.id /\ op'.meta = op.meta
  BY DEF Idle
<1>4. NewbornAlone'
  BY <1>2 DEF NewbornAlone
<1>5. OpFits'
  BY <1>2, <1>3 DEF OpFits
<1> QED
  BY <1>1, <1>4, <1>5

\* Create, under way.
LEMMA CreateKeeps ==
  ASSUME FInv, NEW id \in Ids, NEW name \in Names \cup {NoName},
         NEW parent \in Ids \cup {NoParent}, Create(id, name, parent)
  PROVE  OpFits' /\ NamesResolve' /\ FamilyKept' /\ NewbornAlone'
<1>1. /\ id \notin used /\ ValidParent(parent) /\ used' = used \cup {id}
      /\ op'.kind = "create" /\ op'.id = id /\ op'.meta.parent = parent
      /\ convs' = convs /\ files' = files /\ byName' = byName /\ gone' = gone
  BY DEF Create, memory, disk
<1>2. /\ DOMAIN convs \cup DOMAIN files \subseteq used
      /\ gone \subseteq used /\ DOMAIN convs \subseteq Ids /\ DOMAIN files \subseteq Ids
  BY DEF FInv, TypeOK, FamilyKept
<1>3. OpFits'
  BY <1>1, <1>2 DEF OpFits
<1>4. NamesResolve' /\ FamilyKept'
  BY <1>1, <1>2 DEF FInv, NamesResolve, FamilyKept
<1>5. \A m \in {convs, files} : \A x \in DOMAIN m : m[x].parent \in used \cup {NoParent}
  BY DEF FInv, NewbornAlone
<1>6. parent \in used \cup {NoParent} /\ parent # id
  BY <1>1, <1>2, SessionsAssumption DEF SessionsAssumption, ValidParent
<1>7. \A m \in {convs, files} : parent \in DOMAIN m => m[parent].parent = NoParent
  BY <1>1, <1>2, SessionsAssumption DEF SessionsAssumption, ValidParent, FInv, FamilyKept
<1>8. \A m \in {convs, files} : \A x \in DOMAIN m : m[x].parent # id
  BY <1>1, <1>5, SessionsAssumption DEF SessionsAssumption
<1>9. NewbornAlone'
  BY <1>1, <1>5, <1>6, <1>7, <1>8 DEF NewbornAlone
<1> QED
  BY <1>3, <1>4, <1>9

\* create and resume, once they are connected.
LEMMA ConnectedKeeps ==
  ASSUME FInv, Connected
  PROVE  OpFits' /\ NamesResolve' /\ FamilyKept' /\ NewbornAlone'
<1> DEFINE id == op.id
           meta == op.meta
<1>1. /\ convs' = Put(convs, id, meta) /\ op' = Idle /\ used' = used /\ gone' = gone
      /\ Save(id, meta) /\ op.kind \in {"create", "resume"}
  BY DEF Connected
<1>2. id \in Ids /\ meta \in Meta
  BY <1>1, OpShape DEF FInv, TypeOK
<1> HIDE DEF id, meta
<1>3. /\ DOMAIN convs' = DOMAIN convs \cup {id} /\ convs'[id] = meta
      /\ \A x \in DOMAIN convs : x # id => convs'[x] = convs[x]
  BY <1>1 DEF Put
<1>4. \A x \in DOMAIN files' :
        \/ x = id /\ files'[x] = meta
        \/ x \in DOMAIN files /\ files'[x] = files[x]
  BY <1>1, <1>2, SaveShape DEF FInv, TypeOK
<1>5. OpFits' /\ op'.kind # "create"
  BY <1>1 DEF OpFits, Idle
<1>6. CASE op.kind = "resume"
  <2>1. id \in DOMAIN convs /\ meta = convs[id]
    BY <1>6 DEF FInv, OpFits, id, meta
  <2>2. DOMAIN convs' = DOMAIN convs /\ \A x \in DOMAIN convs : convs'[x] = convs[x]
    BY <1>3, <2>1
  <2>3. Descends
    BY <1>4, <2>1, <2>2 DEF Descends
  <2>4. byName' = byName
    BY <1>6 DEF Connected
  <2>5. NamesResolve'
    BY <2>2, <2>4 DEF FInv, NamesResolve
  <2> QED
    BY <1>1, <1>5, <2>3, <2>5, FamilyStep DEF FInv
<1>7. CASE op.kind = "create"
  <2>1. id \in used /\ id \notin DOMAIN convs /\ id \notin DOMAIN files
    BY <1>7 DEF FInv, OpFits, id
  <2>2. /\ meta.parent \in used \cup {NoParent} /\ meta.parent # id
        /\ \A k \in {convs, files} : /\ \A x \in DOMAIN k : k[x].parent # id
                                     /\ meta.parent \in DOMAIN k => k[meta.parent].parent = NoParent
    BY <1>7 DEF FInv, NewbornAlone, id, meta
  <2>3. \A m \in {convs', files'} : \A x \in DOMAIN m :
          \/ x = id /\ m[x] = meta
          \/ x # id /\ \E k \in {convs, files} : x \in DOMAIN k /\ m[x] = k[x]
    BY <1>3, <1>4, <2>1
  <2>4. (DOMAIN convs \cup DOMAIN files \subseteq used)'
    BY <1>1, <1>3, <1>4, <2>1 DEF FInv, FamilyKept
  <2>5. (\A x \in DOMAIN convs \cap DOMAIN files : convs[x].parent = files[x].parent)'
    <3> SUFFICES ASSUME NEW x \in DOMAIN convs' \cap DOMAIN files'
                 PROVE  convs'[x].parent = files'[x].parent
      OBVIOUS
    <3>1. CASE x = id
      BY <1>3, <1>4, <2>1, <3>1
    <3>2. CASE x # id
      BY <1>3, <1>4, <3>2 DEF FInv, FamilyKept
    <3> QED
      BY <3>1, <3>2
  <2>6. (\A m, k \in {convs, files} : \A x \in DOMAIN m :
           m[x].parent \in DOMAIN k => k[m[x].parent].parent = NoParent)'
    <3> SUFFICES ASSUME NEW m \in {convs', files'}, NEW k \in {convs', files'},
                        NEW x \in DOMAIN m, m[x].parent \in DOMAIN k
                 PROVE  k[m[x].parent].parent = NoParent
      OBVIOUS
    <3>1. m[x].parent # id
      BY <2>2, <2>3
    <3>2. PICK k0 \in {convs, files} : m[x].parent \in DOMAIN k0 /\ k[m[x].parent] = k0[m[x].parent]
      BY <2>3, <3>1
    <3>3. CASE x = id
      BY <2>2, <2>3, <3>2, <3>3
    <3>4. CASE x # id
      <4>1. PICK m0 \in {convs, files} : x \in DOMAIN m0 /\ m[x] = m0[x]
        BY <2>3, <3>4
      <4> QED
        BY <3>2, <4>1 DEF FInv, FamilyKept
    <3> QED
      BY <3>3, <3>4
  <2>7. (\A m \in {convs, files} : \A x \in DOMAIN m : m[x].parent \in used \cup {NoParent})'
    <3> SUFFICES ASSUME NEW m \in {convs', files'}, NEW x \in DOMAIN m
                 PROVE  m[x].parent \in used \cup {NoParent}
      BY <1>1
    <3>1. CASE x = id
      BY <2>2, <2>3, <3>1
    <3>2. CASE x # id
      BY <2>3, <3>2 DEF FInv, NewbornAlone
    <3> QED
      BY <3>1, <3>2
  <2>8. NamesResolve'
    <3>1. \A n \in DOMAIN byName : byName[n] \in DOMAIN convs /\ convs[byName[n]].name = n
      BY DEF FInv, NamesResolve
    <3>2. \A n \in DOMAIN byName : byName[n] \in DOMAIN convs' /\ convs'[byName[n]].name = n
      BY <1>3, <2>1, <3>1
    <3>3. CASE meta.name = NoName
      BY <1>7, <3>2, <3>3 DEF Connected, NamesResolve, meta
    <3>4. CASE meta.name # NoName
      <4>1. byName' = Put(byName, meta.name, id)
        BY <1>7, <3>4 DEF Connected, meta, id
      <4> QED
        BY <1>3, <3>2, <4>1 DEF NamesResolve, Put
    <3> QED
      BY <3>3, <3>4
  <2> QED
    BY <1>5, <2>4, <2>5, <2>6, <2>7, <2>8 DEF FamilyKept, NewbornAlone
<1> QED
  BY <1>1, <1>6, <1>7

LEMMA RenameKeeps ==
  ASSUME FInv, NEW id \in Ids, NEW name \in Names, Rename(id, name)
  PROVE  OpFits' /\ NamesResolve' /\ FamilyKept' /\ NewbornAlone'
<1> DEFINE new == Trim[name]
           old == convs[id].name
           meta == [convs[id] EXCEPT !.name = new]
<1>1. /\ id \in DOMAIN convs /\ convs' = [convs EXCEPT ![id] = meta]
      /\ byName' = Reindex(old, new, id) /\ Save(id, meta)
      /\ op = Idle /\ op' = op /\ used' = used /\ gone' = gone
  BY DEF Rename, LockFree
<1>2. convs[id] \in Meta /\ convs \in [DOMAIN convs -> Meta]
  BY <1>1 DEF FInv, TypeOK
<1>3. meta \in Meta /\ meta.parent = convs[id].parent /\ meta.name = new
  BY <1>2, SessionsAssumption DEF SessionsAssumption, Meta
<1> HIDE DEF new, old, meta
<1>4. /\ DOMAIN convs' = DOMAIN convs /\ convs'[id] = meta
      /\ \A x \in DOMAIN convs : x # id => convs'[x] = convs[x]
  BY <1>1, <1>2
<1>5. \A x \in DOMAIN files' :
        \/ x = id /\ files'[x] = meta
        \/ x \in DOMAIN files /\ files'[x] = files[x]
  BY <1>1, <1>3, SaveShape DEF FInv, TypeOK
<1>6. Descends
  <2>1. \A x \in DOMAIN convs' : x \in DOMAIN convs /\ convs'[x].parent = convs[x].parent
    BY <1>3, <1>4
  <2>2. \A x \in DOMAIN files' : \E k \in {convs, files} :
          x \in DOMAIN k /\ files'[x].parent = k[x].parent
    BY <1>1, <1>3, <1>5
  <2> QED
    BY <2>1, <2>2 DEF Descends
<1>7. op'.kind # "create" /\ OpFits'
  BY <1>1 DEF OpFits, Idle
<1>8. NamesResolve'
  <2>1. \A n \in DOMAIN byName : byName[n] \in DOMAIN convs /\ convs[byName[n]].name = n
    BY DEF FInv, NamesResolve
  <2>2. CASE old = new
    <3>1. byName' = byName
      BY <1>1, <2>2 DEF Reindex
    <3>2. \A x \in DOMAIN convs : convs'[x].name = convs[x].name
      BY <1>3, <1>4, <2>2 DEF old
    <3> QED
      BY <1>4, <2>1, <3>1, <3>2 DEF NamesResolve
  <2>3. CASE old # new
    <3>1. byName' = Put(Without(byName, old), new, id)
      BY <1>1, <2>3 DEF Reindex
    <3>2. \A n \in DOMAIN byName' :
            \/ n = new /\ byName'[n] = id
            \/ n \in DOMAIN byName /\ n # old /\ byName'[n] = byName[n]
      BY <3>1 DEF Put, Without, Restrict
    <3>3. \A n \in DOMAIN byName : n # old => byName[n] # id
      BY <2>1 DEF old
    <3> QED
      BY <1>1, <1>3, <1>4, <2>1, <3>2, <3>3 DEF NamesResolve
  <2> QED
    BY <2>2, <2>3
<1> QED
  BY <1>1, <1>6, <1>7, <1>8, FamilyStep DEF FInv

LEMMA UpdateKeeps ==
  ASSUME FInv, NEW id \in Ids, Update(id)
  PROVE  OpFits' /\ NamesResolve' /\ FamilyKept' /\ NewbornAlone'
<1>1. /\ id \in DOMAIN convs /\ convs' = convs /\ byName' = byName /\ Save(id, convs[id])
      /\ op = Idle /\ op' = op /\ used' = used /\ gone' = gone
  BY DEF Update, LockFree, memory
<1>2. convs[id] \in Meta
  BY <1>1 DEF FInv, TypeOK
<1>3. \A x \in DOMAIN files' :
        \/ x = id /\ files'[x] = convs[id]
        \/ x \in DOMAIN files /\ files'[x] = files[x]
  BY <1>1, <1>2, SaveShape DEF FInv, TypeOK
<1>4. Descends
  BY <1>1, <1>3 DEF Descends
<1>5. op'.kind # "create" /\ OpFits' /\ NamesResolve'
  BY <1>1 DEF FInv, OpFits, NamesResolve, Idle
<1> QED
  BY <1>1, <1>4, <1>5, FamilyStep DEF FInv

LEMMA RemoveDropKeeps ==
  ASSUME FInv, RemoveDrop
  PROVE  OpFits' /\ NamesResolve' /\ FamilyKept' /\ NewbornAlone'
<1> DEFINE c == op.now
<1>1. /\ convs' = Without(convs, c) /\ used' = used
      /\ files' = files \/ files' = Without(files, c)
      /\ byName' = IF c \in DOMAIN convs /\ convs[c].name \in DOMAIN byName
                      /\ byName[convs[c].name] = c
                   THEN Without(byName, convs[c].name)
                   ELSE byName
      /\ op'.kind \notin {"create", "resume"}
  BY DEF RemoveDrop, FilesWithout, Idle
<1> HIDE DEF c
<1>2. /\ DOMAIN convs' = DOMAIN convs \ {c}
      /\ \A x \in DOMAIN convs : x # c => convs'[x] = convs[x]
  BY <1>1 DEF Without, Restrict
<1>3. \A x \in DOMAIN files' : x \in DOMAIN files /\ files'[x] = files[x]
  BY <1>1 DEF Without, Restrict
<1>4. Descends
  BY <1>2, <1>3 DEF Descends
<1>5. OpFits'
  BY <1>1 DEF OpFits
<1>6. NamesResolve'
  <2>1. \A n \in DOMAIN byName : byName[n] \in DOMAIN convs /\ convs[byName[n]].name = n
    BY DEF FInv, NamesResolve
  <2>2. \A n \in DOMAIN byName' : n \in DOMAIN byName /\ byName'[n] = byName[n] /\ byName[n] # c
    <3> SUFFICES ASSUME NEW n \in DOMAIN byName'
                 PROVE  n \in DOMAIN byName /\ byName'[n] = byName[n] /\ byName[n] # c
      OBVIOUS
    <3>1. CASE byName' = byName
      <4>1. byName[n] # c
        BY <1>1, <2>1, <3>1 DEF Without, Restrict
      <4> QED
        BY <3>1, <4>1
    <3>2. CASE byName' = Without(byName, convs[c].name)
      BY <2>1, <3>2 DEF Without, Restrict
    <3> QED
      BY <1>1, <3>1, <3>2
  <2> QED
    BY <1>2, <2>1, <2>2 DEF NamesResolve
<1> QED
  BY <1>1, <1>4, <1>5, <1>6, FamilyStep DEF FInv

LEMMA RestartKeeps ==
  ASSUME FInv, Restart
  PROVE  OpFits' /\ NamesResolve' /\ FamilyKept' /\ NewbornAlone'
<1>1. convs' = files /\ files' = files /\ op' = Idle /\ used' = used /\ gone' = gone
  BY DEF Restart, disk
<1>2. Descends
  BY <1>1 DEF Descends
<1>3. op'.kind # "create" /\ OpFits'
  BY <1>1 DEF OpFits, Idle
<1>4. byName' \in [{files[id].name : id \in DOMAIN files} \ {NoName} -> DOMAIN files]
      /\ \A n \in DOMAIN byName' : files[byName'[n]].name = n
  BY DEF Restart, Loadable
<1>5. NamesResolve'
  BY <1>1, <1>4 DEF NamesResolve
<1> QED
  BY <1>1, <1>2, <1>3, <1>5, FamilyStep DEF FInv

LEMMA FInvStep == FInv /\ [Next]_vars => FInv'
<1> SUFFICES ASSUME FInv, [Next]_vars PROVE FInv'
  OBVIOUS
<1> DEFINE Kept == OpFits' /\ NamesResolve' /\ FamilyKept' /\ NewbornAlone'
<1>1. ASSUME NEW id \in Ids, NEW name \in Names \cup {NoName},
             NEW parent \in Ids \cup {NoParent}, Create(id, name, parent)
      PROVE  Kept
  BY <1>1, CreateKeeps
<1>2. ASSUME NEW id \in Ids, Resume(id) PROVE Kept
  <2>1. /\ op'.kind = "resume" /\ op'.id = id /\ op'.meta = convs[id] /\ id \in DOMAIN convs
        /\ convs' = convs /\ files' = files /\ byName' = byName /\ used' = used
    BY <1>2 DEF Resume, memory, disk
  <2>2. OpFits' /\ NamesResolve'
    BY <2>1 DEF FInv, OpFits, NamesResolve
  <2>3. Descends
    BY <2>1 DEF Descends
  <2> QED
    BY <2>1, <2>2, <2>3, FamilyStep DEF FInv
<1>3. ASSUME Spawn \/ ConnectFailed \/ Cancel PROVE Kept
  <2>1. /\ convs' = convs /\ files' = files /\ byName' = byName /\ used' = used /\ gone' = gone
    BY <1>3 DEF Spawn, ConnectFailed, Cancel, memory, disk
  <2>2. \/ op' = Idle
        \/ op' = [op EXCEPT !.step = "reattach"]
        \/ op' = [op EXCEPT !.step = "connect"]
    BY <1>3 DEF Spawn, ConnectFailed, Cancel
  <2>3. CASE op' = Idle
    BY <2>1, <2>3, FamilySame DEF FInv
  <2>4. CASE op' # Idle
    <3>1. op \in [kind : {"create", "resume"}, step : {"spawn", "connect", "reattach"},
                  id : Ids, meta : Meta]
      BY <1>3, <2>4, OpShape DEF Spawn, ConnectFailed, Cancel, FInv, TypeOK
    <3>2. op'.kind = op.kind /\ op'.id = op.id /\ op'.meta = op.meta
      BY <2>2, <2>4, <3>1
    <3> QED
      BY <2>1, <3>2, FamilySame DEF FInv
  <2> QED
    BY <2>3, <2>4
<1>4. ASSUME Connected PROVE Kept
  BY <1>4, ConnectedKeeps
<1>5. ASSUME NEW id \in Ids, NEW name \in Names, Rename(id, name) PROVE Kept
  BY <1>5, RenameKeeps
<1>6. ASSUME NEW id \in Ids, Update(id) PROVE Kept
  BY <1>6, UpdateKeeps
<1>7. ASSUME NEW id \in Ids, Remove(id) \/ RemoveKill(id) PROVE Kept
  <2>1. /\ convs' = convs /\ files' = files /\ byName' = byName /\ used' = used
        /\ op'.kind = "remove"
    BY <1>7 DEF Remove, RemoveKill, memory, disk
  <2>2. OpFits' /\ NamesResolve'
    BY <2>1 DEF FInv, OpFits, NamesResolve
  <2>3. Descends
    BY <2>1 DEF Descends
  <2> QED
    BY <2>1, <2>2, <2>3, FamilyStep DEF FInv
<1>8. ASSUME RemoveDrop PROVE Kept
  BY <1>8, RemoveDropKeeps
<1>9. ASSUME NEW id \in Ids, TodoCheck(id) \/ TodoWrite(id) \/ DaemonExit(id) \/ LateStart(id)
      PROVE  Kept
  BY <1>9, FamilySame DEF FInv, TodoCheck, TodoWrite, DaemonExit, LateStart, memory, disk
<1>10. ASSUME Restart PROVE Kept
  BY <1>10, RestartKeeps
<1>11. ASSUME UNCHANGED vars PROVE Kept
  BY <1>11, FamilySame DEF FInv, vars, memory, disk
<1>12. Kept
  BY <1>1, <1>2, <1>3, <1>4, <1>5, <1>6, <1>7, <1>8, <1>9, <1>10, <1>11 DEF Next
<1> QED
  BY <1>12, TypeStep DEF FInv

\* The invariant holds whatever the disk does, wherever requests are cancelled
\* and the server crashes.
THEOREM FaultsInvariantCorrect == Spec => []FInv
<1>1. Init => FInv
  BY InitFInv
<1>2. FInv /\ [Next]_vars => FInv'
  BY FInvStep
<1> QED
  BY <1>1, <1>2, PTL DEF Spec

\* Every variable of the registry keeps its type.
THEOREM TypeCorrect == Spec => []TypeOK
<1>1. FInv => TypeOK
  BY DEF FInv
<1> QED
  BY <1>1, FaultsInvariantCorrect, PTL

\* A chat name that resolves (resolve_chat_session) resolves to a loaded
\* session of that name, whatever the disk does.
THEOREM NamesResolveCorrect == Spec => []NamesResolve
<1>1. FInv => NamesResolve
  BY DEF FInv
<1> QED
  BY <1>1, FaultsInvariantCorrect, PTL

\* Agents nest one level deep (validate_parent), even when files are lost or
\* come back.
THEOREM NestingCorrect == Spec => []NestsOneLevel
<1>1. FInv => NestsOneLevel
  BY DEF FInv, FamilyKept, NestsOneLevel
<1> QED
  BY <1>1, FaultsInvariantCorrect, PTL
----------------------------------------------------------------------------
(* As long as file operations succeed *)

\* What SInv says beyond what holds whatever the disk does.
Mirror ==
  /\ EveryChatAddressable
  /\ files = convs
  /\ DOMAIN convs \subseteq used \ gone
  /\ op.kind = "create" => NameFree(op.meta.name) /\ ValidParent(op.meta.parent)
  /\ RemovalIsComplete
  /\ NoOrphans

\* A step that leaves conversations, files, names and removed sessions alone.
LEMMA MirrorSame ==
  ASSUME Mirror, convs' = convs, files' = files, byName' = byName, gone' = gone,
         used \subseteq used',
         \/ op' = op
         \/ op'.kind \notin {"create", "remove"}
         \/ op.kind = "create" /\ op'.kind = "create" /\ op'.meta = op.meta
  PROVE  Mirror'
<1>1. CASE op' = op
  BY <1>1 DEF Mirror, EveryChatAddressable, NameFree, ValidParent, RemovalIsComplete,
              RemovalOrder, Children, NoOrphans
<1>2. CASE op'.kind \notin {"create", "remove"}
  BY <1>2 DEF Mirror, EveryChatAddressable, RemovalIsComplete, NoOrphans
<1>3. CASE op.kind = "create" /\ op'.kind = "create" /\ op'.meta = op.meta
  BY <1>3 DEF Mirror, EveryChatAddressable, NameFree, ValidParent, RemovalIsComplete,
              NoOrphans
<1> QED
  BY <1>1, <1>2, <1>3

\* Without faults save_session writes.
LEMMA SaveWrites ==
  ASSUME ~ DiskFaults, NEW id, NEW meta, Save(id, meta), files = convs
  PROVE  files' = Put(convs, id, meta)
BY DEF Save

\* Saving what is there changes nothing.
LEMMA PutSame ==
  ASSUME NEW f, NEW S, f \in [DOMAIN f -> S], NEW k \in DOMAIN f
  PROVE  Put(f, k, f[k]) = f
<1>1. Put(f, k, f[k]) = [x \in DOMAIN f |-> f[x]]
  BY DEF Put
<1> QED
  BY <1>1

LEMMA MirrorConnected ==
  ASSUME ~ DiskFaults, FInv, Mirror, Connected
  PROVE  Mirror'
<1> DEFINE id == op.id
           meta == op.meta
<1>1. /\ convs' = Put(convs, id, meta) /\ op' = Idle /\ used' = used /\ gone' = gone
      /\ Save(id, meta) /\ op.kind \in {"create", "resume"}
  BY DEF Connected
<1>2. files' = convs'
  BY <1>1, SaveWrites DEF Mirror
<1>3. op'.kind \notin {"create", "remove"}
  BY <1>1 DEF Idle
<1>4. CASE op.kind = "resume"
  <2>1. id \in DOMAIN convs /\ meta = convs[id]
    BY <1>4 DEF FInv, OpFits
  <2>2. convs \in [DOMAIN convs -> Meta]
    BY DEF FInv, TypeOK
  <2> HIDE DEF id, meta
  <2>3. convs' = convs
    BY <1>1, <2>1, <2>2, PutSame
  <2>4. files' = files
    BY <1>2, <2>3 DEF Mirror
  <2>5. byName' = byName
    BY <1>4 DEF Connected
  <2> QED
    BY <1>1, <1>3, <2>3, <2>4, <2>5, MirrorSame
<1>5. CASE op.kind = "create"
  <2>1. id \in used \ gone /\ id \notin DOMAIN convs
    BY <1>5 DEF FInv, OpFits
  <2>2. NameFree(meta.name) /\ ValidParent(meta.parent)
    BY <1>5 DEF Mirror
  <2>3. byName' = IF meta.name # NoName THEN Put(byName, meta.name, id) ELSE byName
    BY <1>5 DEF Connected
  <2> HIDE DEF id, meta
  <2>4. /\ DOMAIN convs' = DOMAIN convs \cup {id} /\ convs'[id] = meta
        /\ \A x \in DOMAIN convs : convs'[x] = convs[x]
    BY <1>1, <2>1 DEF Put
  <2>5. \A x \in DOMAIN convs : convs[x].name # NoName =>
          convs[x].name \in DOMAIN byName' /\ byName'[convs[x].name] = x
    BY <2>2, <2>3 DEF Put, NameFree, Mirror, EveryChatAddressable
  <2>6. meta.name # NoName => meta.name \in DOMAIN byName' /\ byName'[meta.name] = id
    BY <2>3 DEF Put
  <2>7. EveryChatAddressable'
    BY <2>4, <2>5, <2>6 DEF EveryChatAddressable
  <2>8. (DOMAIN convs \subseteq used \ gone)'
    BY <1>1, <2>1, <2>4 DEF Mirror
  <2>9. NoOrphans'
    BY <1>2, <2>2, <2>4 DEF NoOrphans, Mirror, ValidParent
  <2> QED
    BY <1>2, <1>3, <2>7, <2>8, <2>9 DEF Mirror, RemovalIsComplete
<1> QED
  BY <1>1, <1>4, <1>5

LEMMA MirrorRename ==
  ASSUME ~ DiskFaults, FInv, Mirror, NEW id \in Ids, NEW name \in Names, Rename(id, name)
  PROVE  Mirror'
<1> DEFINE new == Trim[name]
           old == convs[id].name
           meta == [convs[id] EXCEPT !.name = new]
<1>1. /\ id \in DOMAIN convs /\ convs' = [convs EXCEPT ![id] = meta]
      /\ byName' = Reindex(old, new, id) /\ Save(id, meta)
      /\ new \in DOMAIN byName => byName[new] = id
      /\ old # NoName
      /\ op = Idle /\ op' = op /\ used' = used /\ gone' = gone
  BY DEF Rename, LockFree
<1>2. convs[id] \in Meta /\ convs \in [DOMAIN convs -> Meta]
  BY <1>1 DEF FInv, TypeOK
<1>3. meta \in Meta /\ meta.parent = convs[id].parent /\ meta.name = new
  BY <1>2, SessionsAssumption DEF SessionsAssumption, Meta
<1> HIDE DEF new, old, meta
<1>4. /\ DOMAIN convs' = DOMAIN convs /\ convs'[id] = meta
      /\ \A x \in DOMAIN convs : x # id => convs'[x] = convs[x]
  BY <1>1, <1>2
<1>5. files' = convs'
  <2>1. files' = Put(convs, id, meta)
    BY <1>1, SaveWrites DEF Mirror
  <2>2. Put(convs, id, meta) = [convs EXCEPT ![id] = meta]
    BY <1>1, <1>2 DEF Put
  <2> QED
    BY <1>1, <2>1, <2>2
<1>6. EveryChatAddressable'
  <2>1. \A x \in DOMAIN convs : convs[x].name # NoName =>
          convs[x].name \in DOMAIN byName /\ byName[convs[x].name] = x
    BY DEF Mirror, EveryChatAddressable
  <2>2. CASE old = new
    <3>1. byName' = byName
      BY <1>1, <2>2 DEF Reindex
    <3>2. \A x \in DOMAIN convs : convs'[x].name = convs[x].name
      BY <1>3, <1>4, <2>2 DEF old
    <3> QED
      BY <1>4, <2>1, <3>1, <3>2 DEF EveryChatAddressable
  <2>3. CASE old # new
    <3>1. byName' = Put(Without(byName, old), new, id)
      BY <1>1, <2>3 DEF Reindex
    <3>2. new \notin DOMAIN byName
      BY <1>1, <2>3 DEF old, FInv, NamesResolve
    <3>3. \A x \in DOMAIN convs : x # id /\ convs[x].name # NoName =>
            convs[x].name # old /\ convs[x].name # new
      BY <1>1, <2>1, <3>2 DEF old
    <3>4. /\ new \in DOMAIN byName' /\ byName'[new] = id
          /\ \A n \in DOMAIN byName : n # old /\ n # new =>
               n \in DOMAIN byName' /\ byName'[n] = byName[n]
      BY <3>1 DEF Put, Without, Restrict
    <3> QED
      BY <1>3, <1>4, <2>1, <3>3, <3>4 DEF EveryChatAddressable
  <2> QED
    BY <2>2, <2>3
<1>7. NoOrphans'
  BY <1>1, <1>3, <1>4, <1>5 DEF NoOrphans, Mirror
<1>8. op'.kind \notin {"create", "remove"}
  BY <1>1 DEF Idle
<1> QED
  BY <1>1, <1>4, <1>5, <1>6, <1>7, <1>8 DEF Mirror, RemovalIsComplete

LEMMA MirrorRemove ==
  ASSUME FInv, Mirror, NEW id \in Ids, Remove(id) \/ RemoveKill(id)
  PROVE  Mirror'
<1>1. /\ convs' = convs /\ files' = files /\ byName' = byName /\ used' = used
      /\ gone' = gone /\ op'.kind = "remove"
  BY DEF Remove, RemoveKill, memory, disk
<1>2. RemovalIsComplete'
  <2>1. CASE Remove(id)
    <3>1. id \notin Children(id)
      BY SessionsAssumption DEF SessionsAssumption, Children, FInv, FamilyKept
    <3>2. op' = [kind |-> "remove", step |-> "kill", id |-> id, left |-> Children(id) \cup {id}]
      BY <2>1 DEF Remove
    <3>3. Children(id)' = Children(id)
      BY <1>1 DEF Children
    <3> QED
      BY <3>1, <3>2, <3>3 DEF RemovalIsComplete
  <2>2. CASE RemoveKill(id)
    <3>1. /\ op' = [kind |-> "remove", step |-> "drop", id |-> op.id, left |-> op.left, now |-> id]
          /\ id \in op.left /\ RemovalOrder(op.left, op.id, id) /\ op.kind = "remove"
      BY <2>2 DEF RemoveKill, At
    <3>2. op.id \in op.left /\ op.left \ {op.id} = Children(op.id)
      BY <3>1 DEF Mirror, RemovalIsComplete
    <3>3. Children(op.id)' = {c \in DOMAIN convs : convs[c].parent = op.id}
      BY <1>1, <3>1 DEF Children
    <3> QED
      BY <3>1, <3>2, <3>3 DEF RemovalIsComplete, RemovalOrder, Children
  <2> QED
    BY <2>1, <2>2
<1> QED
  BY <1>1, <1>2 DEF Mirror, EveryChatAddressable, NoOrphans

LEMMA MirrorRemoveDrop ==
  ASSUME ~ DiskFaults, FInv, Mirror, RemoveDrop
  PROVE  Mirror'
<1> DEFINE c == op.now
           id == op.id
           left == op.left
<1>1. /\ convs' = Without(convs, c) /\ used' = used
      /\ files' = Without(files, c)
      /\ byName' = byName \/ /\ byName' = Without(byName, convs[c].name)
                             /\ byName[convs[c].name] = c
      /\ gone' = IF c \in DOMAIN convs THEN gone \cup {c} ELSE gone
      /\ op' = IF left = {c} THEN Idle
               ELSE [kind |-> "remove", step |-> "kill", id |-> id, left |-> left \ {c}]
  BY DEF RemoveDrop, FilesWithout
<1>2. /\ id \in Ids /\ c \in left
      /\ id \in left /\ left \ {id} = Children(id) /\ RemovalOrder(left, id, c)
  BY OpShape DEF RemoveDrop, At, Mirror, RemovalIsComplete, FInv, TypeOK
<1> HIDE DEF c, id, left
<1>3. /\ DOMAIN convs' = DOMAIN convs \ {c}
      /\ \A x \in DOMAIN convs : x # c => convs'[x] = convs[x]
  BY <1>1 DEF Without, Restrict
<1>4. files' = convs'
  BY <1>1 DEF Mirror
<1>5. EveryChatAddressable'
  <2>1. \A x \in DOMAIN convs : convs[x].name # NoName =>
          convs[x].name \in DOMAIN byName /\ byName[convs[x].name] = x
    BY DEF Mirror, EveryChatAddressable
  <2>2. \A n \in DOMAIN byName : byName[n] # c =>
          n \in DOMAIN byName' /\ byName'[n] = byName[n]
    BY <1>1 DEF Without, Restrict
  <2> QED
    BY <1>3, <2>1, <2>2 DEF EveryChatAddressable
<1>6. (DOMAIN convs \subseteq used \ gone)'
  BY <1>1, <1>3 DEF Mirror
<1>7. \A x \in DOMAIN convs : x # c => convs[x].parent # c
  <2>1. CASE c = id
    <3>1. Children(id) = {}
      BY <1>2, <2>1 DEF RemovalOrder
    <3> QED
      BY <2>1, <3>1 DEF Children
  <2>2. CASE c # id
    <3>1. c \in DOMAIN convs /\ convs[c].parent = id
      BY <1>2, <2>2 DEF Children
    <3>2. \A x \in DOMAIN convs : convs[x].parent = c => convs[c].parent = NoParent
      BY <3>1 DEF FInv, FamilyKept
    <3> QED
      BY <1>2, <3>1, <3>2, SessionsAssumption DEF SessionsAssumption
  <2> QED
    BY <2>1, <2>2
<1>8. NoOrphans'
  BY <1>3, <1>4, <1>7 DEF NoOrphans, Mirror
<1>9. op'.kind # "create"
  BY <1>1 DEF Idle
<1>10. RemovalIsComplete'
  <2>1. CASE left = {c}
    BY <1>1, <2>1 DEF RemovalIsComplete, Idle
  <2>2. CASE left # {c}
    <3>1. c # id
      BY <1>2, <2>2 DEF RemovalOrder
    <3>2. op' = [kind |-> "remove", step |-> "kill", id |-> id, left |-> left \ {c}]
      BY <1>1, <2>2
    <3>3. {x \in DOMAIN convs' : convs'[x].parent = id} = Children(id) \ {c}
      BY <1>3 DEF Children
    <3> QED
      BY <1>2, <3>1, <3>2, <3>3 DEF RemovalIsComplete, Children
  <2> QED
    BY <2>1, <2>2
<1> QED
  BY <1>4, <1>5, <1>6, <1>8, <1>9, <1>10 DEF Mirror

\* Reloading the files rebuilds the index as it was.
LEMMA RestartRebuilds ==
  ASSUME FInv, Mirror, Restart
  PROVE  convs' = convs /\ files' = files /\ byName' = byName
<1>1. convs' = convs /\ files' = files /\ files = convs
  BY DEF Restart, disk, Mirror
<1>2. byName' \in [{convs[x].name : x \in DOMAIN convs} \ {NoName} -> DOMAIN convs]
      /\ \A n \in DOMAIN byName' : convs[byName'[n]].name = n
  BY <1>1 DEF Restart, Loadable
<1>3. \A x \in DOMAIN convs : convs[x].name # NoName =>
        convs[x].name \in DOMAIN byName /\ byName[convs[x].name] = x
  BY DEF Mirror, EveryChatAddressable
<1>4. /\ \A n \in DOMAIN byName : byName[n] \in DOMAIN convs /\ convs[byName[n]].name = n
      /\ byName \in [DOMAIN byName -> Ids] /\ DOMAIN byName \subseteq Names
  BY DEF FInv, NamesResolve, TypeOK
<1>5. DOMAIN byName' = DOMAIN byName
  BY <1>2, <1>3, <1>4, SessionsAssumption DEF SessionsAssumption
<1>6. \A n \in DOMAIN byName : byName'[n] = byName[n]
  BY <1>2, <1>3, <1>4, <1>5
<1>7. byName' = byName
  BY <1>2, <1>4, <1>5, <1>6
<1> QED
  BY <1>1, <1>7

LEMMA MirrorStep == ~ DiskFaults /\ FInv /\ Mirror /\ [Next]_vars => Mirror'
<1> SUFFICES ASSUME ~ DiskFaults, FInv, Mirror, [Next]_vars PROVE Mirror'
  OBVIOUS
<1>1. ASSUME NEW id \in Ids, NEW name \in Names \cup {NoName},
             NEW parent \in Ids \cup {NoParent}, Create(id, name, parent)
      PROVE  Mirror'
  <2>1. /\ convs' = convs /\ files' = files /\ byName' = byName /\ gone' = gone
        /\ used \subseteq used'
        /\ op'.kind = "create" /\ op'.meta.name = name /\ op'.meta.parent = parent
        /\ NameFree(name) /\ ValidParent(parent)
    BY <1>1 DEF Create, memory, disk
  <2>2. (op.kind = "create" => NameFree(op.meta.name) /\ ValidParent(op.meta.parent))'
    BY <2>1 DEF NameFree, ValidParent
  <2> QED
    BY <2>1, <2>2 DEF Mirror, EveryChatAddressable, RemovalIsComplete, NoOrphans
<1>2. ASSUME NEW id \in Ids, Resume(id) PROVE Mirror'
  BY <1>2, MirrorSame DEF Resume, memory, disk
<1>3. ASSUME Spawn \/ ConnectFailed \/ Cancel PROVE Mirror'
  <2>1. /\ convs' = convs /\ files' = files /\ byName' = byName /\ used' = used /\ gone' = gone
    BY <1>3 DEF Spawn, ConnectFailed, Cancel, memory, disk
  <2>2. \/ op' = Idle
        \/ op' = [op EXCEPT !.step = "reattach"]
        \/ op' = [op EXCEPT !.step = "connect"]
    BY <1>3 DEF Spawn, ConnectFailed, Cancel
  <2>3. CASE op' = Idle
    BY <2>1, <2>3, MirrorSame DEF Idle
  <2>4. CASE op' # Idle
    <3>1. op \in [kind : {"create", "resume"}, step : {"spawn", "connect", "reattach"},
                  id : Ids, meta : Meta]
      BY <1>3, <2>4, OpShape DEF Spawn, ConnectFailed, Cancel, FInv, TypeOK
    <3>2. op'.kind = op.kind /\ op'.meta = op.meta /\ op.kind \in {"create", "resume"}
      BY <2>2, <2>4, <3>1
    <3> QED
      BY <2>1, <3>2, MirrorSame
  <2> QED
    BY <2>3, <2>4
<1>4. ASSUME Connected PROVE Mirror'
  BY <1>4, MirrorConnected
<1>5. ASSUME NEW id \in Ids, NEW name \in Names, Rename(id, name) PROVE Mirror'
  BY <1>5, MirrorRename
<1>6. ASSUME NEW id \in Ids, Update(id) PROVE Mirror'
  <2>1. /\ id \in DOMAIN convs /\ Save(id, convs[id]) /\ convs' = convs /\ byName' = byName
        /\ op' = op /\ used' = used /\ gone' = gone
    BY <1>6 DEF Update, memory
  <2>2. files' = Put(convs, id, convs[id])
    BY <2>1, SaveWrites DEF Mirror
  <2>3. convs \in [DOMAIN convs -> Meta]
    BY DEF FInv, TypeOK
  <2>4. files' = files
    BY <2>1, <2>2, <2>3, PutSame DEF Mirror
  <2> QED
    BY <2>1, <2>4, MirrorSame
<1>7. ASSUME NEW id \in Ids, Remove(id) \/ RemoveKill(id) PROVE Mirror'
  BY <1>7, MirrorRemove
<1>8. ASSUME RemoveDrop PROVE Mirror'
  BY <1>8, MirrorRemoveDrop
<1>9. ASSUME NEW id \in Ids, TodoCheck(id) \/ TodoWrite(id) \/ DaemonExit(id) \/ LateStart(id)
      PROVE  Mirror'
  BY <1>9, MirrorSame DEF TodoCheck, TodoWrite, DaemonExit, LateStart, memory, disk
<1>10. ASSUME Restart PROVE Mirror'
  BY <1>10, RestartRebuilds, MirrorSame DEF Restart, Idle
<1>11. ASSUME UNCHANGED vars PROVE Mirror'
  BY <1>11, MirrorSame DEF vars, memory, disk
<1> QED
  BY <1>1, <1>2, <1>3, <1>4, <1>5, <1>6, <1>7, <1>8, <1>9, <1>10, <1>11 DEF Next

LEMMA InitMirror == Init => Mirror
<1> SUFFICES ASSUME Init PROVE Mirror
  OBVIOUS
<1>1. op.kind = "idle" /\ convs = <<>> /\ files = <<>> /\ DOMAIN convs = {}
  BY DEF Init, Idle
<1> QED
  BY <1>1 DEF Mirror, EveryChatAddressable, RemovalIsComplete, NoOrphans

\* The disk mirrors the memory and the index of names is exact, wherever
\* requests are cancelled and the server crashes, as long as save_session and
\* remove_session_file do what they are asked.
THEOREM InvariantCorrect ==
  ASSUME ~ DiskFaults
  PROVE  Spec => []SInv
<1>1. Init => FInv /\ Mirror
  BY InitFInv, InitMirror
<1>2. FInv /\ Mirror /\ [Next]_vars => (FInv /\ Mirror)'
  BY FInvStep, MirrorStep
<1>3. FInv /\ Mirror => SInv
  BY DEF SInv, Mirror, FInv, FamilyKept, NestsOneLevel
<1> QED
  BY <1>1, <1>2, <1>3, PTL DEF Spec

\* The index of chat names is in sync (chat_by_name's field comment).
THEOREM AddressableCorrect ==
  ASSUME ~ DiskFaults
  PROVE  Spec => []EveryChatAddressable
<1>1. SInv => EveryChatAddressable
  BY DEF SInv
<1> QED
  BY <1>1, InvariantCorrect, PTL

\* A removal that is cut short anywhere leaves no agent without its task.
THEOREM NoOrphansCorrect ==
  ASSUME ~ DiskFaults
  PROVE  Spec => []NoOrphans
<1>1. SInv => NoOrphans
  BY DEF SInv
<1> QED
  BY <1>1, InvariantCorrect, PTL

\* A deleted session never comes back, across any number of restarts.
THEOREM RemovedForGoodCorrect ==
  ASSUME ~ DiskFaults
  PROVE  Spec => []RemovedForGood
<1>1. SInv => RemovedForGood
  BY DEF SInv, RemovedForGood
<1> QED
  BY <1>1, InvariantCorrect, PTL

----------------------------------------------------------------------------
(* The index implements NameBook *)

\* Every session the index knows is loaded.
LEMMA OwnersLoaded == NamesResolve => Range(byName) \subseteq DOMAIN convs
BY DEF NamesResolve, Range

LEMMA BookStep ==
  ~ DiskFaults /\ FInv /\ Mirror /\ [Next]_vars => [Book!Next]_byName
<1> SUFFICES ASSUME ~ DiskFaults, FInv, Mirror, [Next]_vars, byName' # byName
             PROVE  Book!Next
  OBVIOUS
<1>0. /\ byName \in [DOMAIN byName -> Ids] /\ DOMAIN byName \subseteq Names
      /\ \A n \in DOMAIN byName : byName[n] \in DOMAIN convs /\ convs[byName[n]].name = n
      /\ convs \in [DOMAIN convs -> Meta]
  BY DEF FInv, TypeOK, NamesResolve
<1>1. CASE Connected
  <2> DEFINE name == op.meta.name
             id == op.id
  <2>1. /\ op.kind = "create" /\ name # NoName /\ byName' = Put(byName, name, id)
    BY <1>1 DEF Connected
  <2>2. id \in Ids /\ name \in Names
    BY <2>1, OpShape DEF FInv, TypeOK, Meta
  <2>3. name \notin DOMAIN byName
    BY <2>1 DEF Mirror, NameFree
  <2>4. id \notin Range(byName)
    BY <2>1, OwnersLoaded DEF FInv, OpFits
  <2> HIDE DEF name, id
  <2>5. Book!Claim(name, id)
    BY <2>1, <2>3, <2>4 DEF Book!Claim, Book!Range, Range, Put
  <2> QED
    BY <2>2, <2>5 DEF Book!Next
<1>2. ASSUME NEW id \in Ids, NEW name \in Names, Rename(id, name) PROVE Book!Next
  <2> DEFINE new == Trim[name]
             old == convs[id].name
  <2>1. /\ id \in DOMAIN convs /\ old # NoName
        /\ new \in DOMAIN byName => byName[new] = id
        /\ byName' = Reindex(old, new, id)
    BY <1>2 DEF Rename
  <2>2. new \in Names
    BY SessionsAssumption DEF SessionsAssumption
  <2> HIDE DEF new
  <2>3. old # new /\ byName' = Put(Without(byName, old), new, id)
    BY <2>1 DEF Reindex
  <2>4. old \in DOMAIN byName /\ byName[old] = id
    BY <2>1 DEF Mirror, EveryChatAddressable
  <2>5. new \notin DOMAIN byName
    BY <1>0, <2>1, <2>3
  <2> HIDE DEF old
  <2>6. byName' = [m \in (DOMAIN byName \ {old}) \cup {new} |->
                     IF m = new THEN byName[old] ELSE byName[m]]
    BY <2>3, <2>4 DEF Put, Without, Restrict
  <2>7. Book!Move(old, new)
    BY <2>4, <2>5, <2>6 DEF Book!Move
  <2> QED
    BY <1>0, <2>2, <2>4, <2>7 DEF Book!Next
<1>3. CASE RemoveDrop
  <2> DEFINE n == convs[op.now].name
  <2>1. n \in DOMAIN byName /\ byName' = Without(byName, n)
    BY <1>3 DEF RemoveDrop
  <2> HIDE DEF n
  <2>2. Book!Release(n)
    BY <2>1 DEF Book!Release, Book!Restrict, Restrict, Without
  <2> QED
    BY <1>0, <2>1, <2>2 DEF Book!Next
<1>4. ~ Restart
  BY RestartRebuilds
<1>5. ~ UNCHANGED vars
  BY DEF vars, memory
<1>6. CASE \E id \in Ids, name \in Names \cup {NoName}, parent \in Ids \cup {NoParent} :
             Create(id, name, parent)
  BY <1>6 DEF Create, memory
<1>7. CASE \/ Spawn \/ ConnectFailed \/ Cancel
           \/ \E id \in Ids : \/ Resume(id) \/ Update(id) \/ Remove(id) \/ RemoveKill(id)
                              \/ TodoCheck(id) \/ TodoWrite(id) \/ DaemonExit(id) \/ LateStart(id)
  BY <1>7 DEF Resume, Spawn, ConnectFailed, Cancel, Update, Remove, RemoveKill, TodoCheck,
              TodoWrite, DaemonExit, LateStart, memory
<1> QED
  BY <1>1, <1>2, <1>3, <1>4, <1>5, <1>6, <1>7 DEF Next

\* As long as file operations succeed, a name is only claimed when free and
\* given up by its own session, through every create, rename and removal,
\* cancelled or not, and every crash and reload.
THEOREM BookCorrect ==
  ASSUME ~ DiskFaults
  PROVE  Spec => BookSpec
<1>1. Init => FInv /\ Mirror
  BY InitFInv, InitMirror
<1>2. FInv /\ Mirror /\ [Next]_vars => (FInv /\ Mirror)'
  BY FInvStep, MirrorStep
<1>3. FInv /\ Mirror /\ [Next]_vars => [Book!Next]_byName
  BY BookStep
<1>4. Init => Book!Init
  BY DEF Init, Book!Init
<1> QED
  BY <1>1, <1>2, <1>3, <1>4, PTL DEF Spec, BookSpec, Book!Spec
=============================================================================
