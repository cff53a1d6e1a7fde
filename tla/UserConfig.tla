----------------------------- MODULE UserConfig -----------------------------
(***************************************************************************)
(* What the desktop page remembers for its user: one document on the       *)
(* server, which useConfig loads once and then saves as a whole with every *)
(* change, and the changes: watched agents, forwarded ports, recent        *)
(* commands and recent files.                                              *)
(***************************************************************************)
EXTENDS Naturals, Sequences, SequencesExt, FiniteSets, Lists

CONSTANTS
  Agents,     \* conversations that may be listed
  Commands,   \* what may be launched, each of its own program and cwd
  Paths,      \* files that may be opened
  Ports,      \* remote ports
  MaxRecent,  \* length of the recent lists
  StoredDocs, \* documents the server may have
  MaxEvents   \* bound on what users do, fetches and outages

Doc == [focused : Seq(Agents), ports : Seq(Ports), commands : Seq(Commands), files : Seq(Paths)]
NoDoc == [focused |-> <<>>, ports |-> <<>>, commands |-> <<>>, files |-> <<>>]

ASSUME RecentAssumption == MaxRecent \in Nat \ {0} /\ MaxEvents \in Nat

\* The server has what a page saved: nothing twice, and recent lists that were cut.
ASSUME ConfigAssumption ==
  \A d \in StoredDocs :
    /\ d \in Doc /\ \A f \in DOMAIN d : IsInjective(d[f])
    /\ Len(d.commands) <= MaxRecent /\ Len(d.files) <= MaxRecent

VARIABLES
  store,     \* the server's document
  config, loaded,
  loading,   \* the answer of getConfig: [served, doc]
  saves,     \* saveConfig calls on their way, in the order they were made
  newest,    \* where the document the page shows is, see Whereabouts
  launches,  \* creations under way: [command, recent], with what the closure has seen
  alive,     \* conversations of the last list
  aliveOnce, online,
  early,     \* something was saved before the document was there
  launched,  \* what was launched, the last one first
  crowded,   \* two launches overlapped
  events

pageVars   == <<config, loaded, loading, launches>>
aliveVars  == <<alive, aliveOnce, online>>
saveVars   == <<saves, newest>>
configVars == <<store, pageVars, saveVars, aliveVars, early, launched, crowded, events>>

ConfigInit ==
  /\ store \in StoredDocs
  /\ config = NoDoc /\ loaded = FALSE /\ loading = [served |-> FALSE, doc |-> NoDoc]
  /\ saves = <<>> /\ newest = "none" /\ launches = {}
  /\ alive = {} /\ aliveOnce = FALSE /\ online = TRUE
  /\ early = FALSE /\ launched = <<>> /\ crowded = FALSE /\ events = 0

Event == events < MaxEvents /\ events' = events + 1

-----------------------------------------------------------------------------
(* The watched agents and the recent lists *)

ToggleFocus(ids, a) == IF Contains(ids, a) THEN Among(ids, Agents \ {a}) ELSE Append(ids, a)

PruneFocus(ids, live) == Among(ids, live)

\* The newest first, once, and not too many.
Recent(x, list) ==
  LET all == <<x>> \o Among(list, Range(list) \ {x})
  IN SubSeq(all, 1, IF Len(all) < MaxRecent THEN Len(all) ELSE MaxRecent)

\* The effect that drops watched agents that are gone, after doc or the list changed.
Settle(doc, live, once, up) ==
  IF ~once \/ ~up THEN doc ELSE [doc EXCEPT !.focused = PruneFocus(@, live)]

\* (Mutant of Update: a save of the change alone.)
SaveChange(doc) ==
  LET next == Settle(doc, alive, aliveOnce, online)
  IN /\ config' = next /\ newest' = "sent"
     /\ saves' = Append(saves, [f \in DOMAIN NoDoc |->
                                  IF doc[f] # config[f] THEN doc[f] ELSE NoDoc[f]])
     /\ early' = (early \/ ~loaded)

\* update, then the effect, which may save again.
Update(doc) ==
  LET next == Settle(doc, alive, aliveOnce, online)
  IN /\ config' = next /\ newest' = "sent"
     /\ saves' = IF next = doc THEN Append(saves, doc) ELSE Append(Append(saves, doc), next)
     /\ early' = (early \/ ~loaded)

-----------------------------------------------------------------------------
(* Loading and saving *)

ServeConfig ==
  /\ ~loading.served /\ ~loaded
  /\ loading' = [served |-> TRUE, doc |-> store]
  /\ UNCHANGED <<store, config, loaded, launches, saveVars, aliveVars, early, launched, crowded,
                 events>>

\* getConfig is answered: the document replaces whatever the page has.  The server
\* has it, unless the page has saved another one meanwhile.
Loaded ==
  /\ loading.served /\ ~loaded
  /\ loaded' = TRUE
  /\ LET next == Settle(loading.doc, alive, aliveOnce, online)
     IN /\ config' = next
        /\ saves' = IF next = loading.doc THEN saves ELSE Append(saves, next)
        /\ newest' = IF next # loading.doc THEN "sent"
                     ELSE IF newest = "none" THEN "stored" ELSE "unsaved"
  /\ UNCHANGED <<store, loading, launches, aliveVars, early, launched, crowded, events>>

\* getConfig fails, or has an answer that is no document and is taken for an empty
\* one: the page starts with nothing, and what it saves replaces all.
LoadFails ==
  /\ Event
  /\ ~loaded /\ loaded' = TRUE
  /\ early' = TRUE
  /\ config' \in {config, NoDoc}
  /\ newest' = IF config' = config THEN newest ELSE "unsaved"
  /\ UNCHANGED <<store, saves, loading, launches, aliveVars, launched, crowded>>

\* Each saveConfig is a request of its own, and nobody waits for one before the next:
\* they reach the server in any order.
SaveArrives(k) ==
  /\ k \in DOMAIN saves
  /\ store' = saves[k] /\ saves' = RemoveAt(saves, k)
  /\ newest' = AfterArrival(newest, saves, k)
  /\ UNCHANGED <<pageVars, aliveVars, early, launched, crowded, events>>

\* One fails: the page does not notice, and does not try again.
SaveFails(k) ==
  /\ k \in DOMAIN saves
  /\ saves' = RemoveAt(saves, k)
  /\ newest' = AfterFailure(newest, saves, k)
  /\ UNCHANGED <<store, pageVars, aliveVars, early, launched, crowded, events>>

\* A list of conversations, or a failure to get one.
Listed(live, up) ==
  /\ Event
  /\ alive' = IF up THEN live ELSE alive
  /\ aliveOnce' = (aliveOnce \/ up) /\ online' = up
  /\ LET next == Settle(config, alive', aliveOnce', up)
     IN /\ config' = next
        /\ saves' = IF next = config THEN saves ELSE Append(saves, next)
        /\ newest' = IF next = config THEN newest ELSE "sent"
        /\ early' = (early \/ (next # config /\ ~loaded))
  /\ UNCHANGED <<store, loaded, loading, launches, launched, crowded>>

\* Two of them write the file at once, which save_config does not prevent: it may be
\* left with the end of the longer one behind the other, and getConfig takes that for
\* no document.
SavesMix(j, k) ==
  /\ j \in DOMAIN saves /\ k \in DOMAIN saves /\ j < k
  /\ store' = NoDoc /\ saves' = RemoveAt(RemoveAt(saves, k), j)
  /\ newest' = IF newest = "sent" /\ k = Len(saves) THEN "unsaved" ELSE AfterArrival(newest, saves, j)
  /\ UNCHANGED <<pageVars, aliveVars, early, launched, crowded, events>>

-----------------------------------------------------------------------------
(* What the user does *)

\* handleToggleFocus, for a row of the tree
Focus(a) ==
  /\ Event
  /\ a \in alive
  /\ Update([config EXCEPT !.focused = ToggleFocus(@, a)])
  /\ UNCHANGED <<store, loaded, loading, launches, aliveVars, launched, crowded>>

AddPort(p) ==
  /\ Event
  /\ ~Contains(config.ports, p)
  /\ Update([config EXCEPT !.ports = Append(@, p)])
  /\ UNCHANGED <<store, loaded, loading, launches, aliveVars, launched, crowded>>

RemovePort(p) ==
  /\ Event
  /\ Contains(config.ports, p)
  /\ Update([config EXCEPT !.ports = Among(@, Ports \ {p})])
  /\ UNCHANGED <<store, loaded, loading, launches, aliveVars, launched, crowded>>

\* openFile
OpenPath(f) ==
  /\ Event
  /\ Update([config EXCEPT !.files = Recent(f, @)])
  /\ UNCHANGED <<store, loaded, loading, launches, aliveVars, launched, crowded>>

\* handleCreate: its closure has the recent commands of the time of the call ...
Launch(c) ==
  /\ Event
  /\ \A l \in launches : l.command # c
  /\ launches' = launches \cup {[command |-> c, recent |-> config.commands]}
  /\ crowded' = (crowded \/ launches # {} \/ ~loaded)
  /\ UNCHANGED <<store, config, loaded, loading, saveVars, aliveVars, early, launched>>

\* ... and adds to them once the session is there.
Created(l, ok) ==
  /\ l \in launches
  /\ launches' = launches \ {l}
  /\ IF ok THEN /\ Update([config EXCEPT !.commands = Recent(l.command, l.recent)])
                /\ launched' = Recent(l.command, launched)
           ELSE UNCHANGED <<config, saveVars, early, launched>>
  /\ UNCHANGED <<store, loaded, loading, aliveVars, crowded, events>>

ConfigNext ==
  \/ ServeConfig \/ Loaded \/ LoadFails
  \/ \E k \in DOMAIN saves : SaveArrives(k) \/ SaveFails(k) \/ \E j \in DOMAIN saves : SavesMix(j, k)
  \/ \E live \in SUBSET Agents, up \in BOOLEAN : Listed(live, up)
  \/ \E a \in Agents : Focus(a)
  \/ \E p \in Ports : AddPort(p) \/ RemovePort(p)
  \/ \E f \in Paths : OpenPath(f)
  \/ \E c \in Commands : Launch(c)
  \/ \E l \in launches, ok \in BOOLEAN : Created(l, ok)

-----------------------------------------------------------------------------
(* Correctness *)

\* The documents have no agent, port, command or file twice.
ConfigTypeOK ==
  /\ {store, config} \cup Range(saves) \subseteq Doc
  /\ \A f \in DOMAIN config : IsInjective(config[f])
  /\ \A f \in {"commands", "files"} : Len(config[f]) <= MaxRecent
  /\ {loaded, aliveOnce, online, early, crowded, loading.served} \subseteq BOOLEAN
  /\ alive \subseteq Agents /\ newest \in Whereabouts

\* Once the newest save has reached the server, and until an older one that comes
\* late replaces it, the server has what the page shows, all of it: whatever became
\* of the saves before, no change wipes a part of the document that another one made.
StoredIsShown == newest = "stored" => store = config

\* No agent is watched that is gone, whenever the document and the list come.
FocusedAlive == aliveOnce /\ online => Range(config.focused) \subseteq alive

\* The agents watched before a step: the page's, or the document's that it loads.
Watched == IF loaded THEN config.focused ELSE loading.doc.focused

\* "don't prune against an empty pre-load list or a stale offline snapshot": an
\* agent stays watched until the user clicks on it or a list lacks it that is there
\* and fresh.  Unless the page was used before its document was there.
WatchedStay ==
  [][\A a \in Range(Watched) :
       loaded' /\ ~early' /\ ~Contains(config'.focused, a) =>
         (aliveOnce' /\ online' /\ a \notin alive') \/ Focus(a)]_configVars

\* A command that was launched is offered again, unless launches overlapped.
LaunchedIsRecent ==
  loaded /\ ~early /\ ~crowded =>
    \A c \in Range(launched) : Contains(config.commands, c) \/ Len(config.commands) = MaxRecent

\* What the page owes the user's document.
ConfigInv == ConfigTypeOK /\ StoredIsShown /\ FocusedAlive /\ LaunchedIsRecent

=============================================================================
