------------------------------- MODULE Viewer -------------------------------
(***************************************************************************)
(* Panels that show a file (FileViewer.tsx): each loads its file from the  *)
(* server, looks at the file's etag when the page becomes visible again,   *)
(* shows a text, a rendered markdown document or an image, has diagrams    *)
(* and formulas drawn into it later, and is searched with a bar of its own *)
(* (FileSearch.tsx).  The highlights of all the panels are one registry of *)
(* the browser, CSS.highlights.                                            *)
(*                                                                         *)
(* A file is a number of versions that follow each other on the disk; the  *)
(* etag of a version is its number.                                        *)
(***************************************************************************)
EXTENDS Integers, FiniteSets

CONSTANTS
  Views,       \* the panels, each with its file
  MaxVersion,
  Patterns,    \* what may be searched; NoPattern is no search
  Hits,        \* Hits[version][drawn][pattern]: matches in the text on the screen
  Art,         \* versions of a markdown file with diagrams or formulas
  ViewPlans    \* what happens: [kinds, does, steps], kinds of the panels that are opened

None == 0
NoPattern == ""
Versions == 1 .. MaxVersion
FileKinds == {"text", "markdown", "image"}

ASSUME ViewersAssumption == MaxVersion \in Nat \ {0} /\ "nobody" \notin Views /\ Art \subseteq Versions
ASSUME HitsAssumption ==
  /\ NoPattern \in Patterns /\ Hits \in [Versions -> [BOOLEAN -> [Patterns -> Nat]]]
  /\ \A n \in Versions, d \in BOOLEAN : Hits[n][d][NoPattern] = 0
ASSUME ViewPlansAssumption ==
  \A p \in ViewPlans : /\ DOMAIN p.kinds \subseteq Views /\ \A v \in DOMAIN p.kinds : p.kinds[v] \in FileKinds
                       /\ p.does \subseteq STRING /\ p.steps \in Nat

VARIABLES
  play, taken,
  mounted,   \* panels that are open
  disk,
  etag, content, \* of a panel; None before there is one
  fetching, failure,
  requests,  \* calls of the server and what follows them
  tree,      \* the text on the screen: [of, drawn]
  drawing,   \* diagrams are being drawn into it
  bar, pattern,  \* the search bar is open; searchQuery
  adapter,   \* the panel's search: [on, pattern, at], on a tree, at a match
  painted,   \* the highlights: of a panel, [by, search], or nobody's
  feedback,  \* "Copied" is shown, and the timers that take it away
  seen,      \* the newest version a revisit has found on the disk
  muddled    \* two loads overlapped, or one failed

fileVars   == <<etag, content, fetching, failure, requests, seen, muddled>>
findVars == <<tree, drawing, bar, pattern, adapter, painted>>
viewerVars == <<play, taken, mounted, disk, fileVars, findVars, feedback>>

Kind(v) == play.kinds[v]

NoTree    == [of |-> None, drawn |-> FALSE]
NoAdapter == [on |-> NoTree, pattern |-> NoPattern, at |-> 0]
Nobody    == [by |-> "nobody", search |-> NoAdapter]

Total(search) == IF search.on = NoTree THEN 0
                 ELSE Hits[search.on.of][search.on.drawn][search.pattern]

\* A request: [by, what, stage, tag, text, asked], asked is the etag its closure holds.
RequestOf(v, what) ==
  [by |-> v, what |-> what, stage |-> "sent", tag |-> None, text |-> None, asked |-> etag[v]]

FirstRequest(v) == RequestOf(v, IF Kind(v) = "image" THEN "tag" ELSE "load")

ViewInit ==
  /\ play \in ViewPlans /\ taken = 0
  /\ mounted = DOMAIN play.kinds /\ disk = [v \in Views |-> 1]
  /\ etag = [v \in Views |-> None] /\ content = etag
  /\ fetching = [v \in Views |-> v \in mounted /\ Kind(v) # "image"] /\ failure = [v \in Views |-> FALSE]
  /\ requests = {FirstRequest(v) : v \in mounted}
  /\ tree = [v \in Views |-> NoTree] /\ drawing = [v \in Views |-> FALSE]
  /\ bar = [v \in Views |-> FALSE] /\ pattern = [v \in Views |-> NoPattern]
  /\ adapter = [v \in Views |-> NoAdapter] /\ painted = Nobody
  /\ feedback = [v \in Views |-> [shown |-> FALSE, timers |-> 0]]
  /\ seen = [v \in Views |-> None] /\ muddled = [v \in Views |-> FALSE]

Plays(kind) == kind \in play.does /\ taken < play.steps /\ taken' = taken + 1 /\ UNCHANGED play
Goes == UNCHANGED <<play, taken>>

-----------------------------------------------------------------------------
(* The file and the server *)

WriteFile(v) ==
  /\ Plays("write") /\ v \in mounted
  /\ disk[v] < MaxVersion /\ disk' = [disk EXCEPT ![v] = @ + 1]
  /\ UNCHANGED <<mounted, fileVars, findVars, feedback>>

Becomes(r, s) == requests' = (requests \ {r}) \cup {s}

\* read_file looks at the metadata, from which it makes the etag, and then reads;
\* head_file only looks.
Serve(r) ==
  /\ r \in requests
  /\ \/ r.stage = "sent"
        /\ Becomes(r, [r EXCEPT !.stage = IF r.what = "load" THEN "tagged" ELSE "served",
                                !.tag = disk[r.by]])
     \/ r.stage = "tagged" /\ Becomes(r, [r EXCEPT !.stage = "served", !.text = disk[r.by]])
  /\ Goes /\ UNCHANGED <<mounted, disk, etag, content, fetching, failure, seen, muddled, findVars,
                         feedback>>

-----------------------------------------------------------------------------
(* Search *)

\* A search is laid over what is painted: no match, or no pattern, clears the
\* highlights, whosever they are.
Paint(v, search) == painted' = IF Total(search) = 0 THEN Nobody ELSE [by |-> v, search |-> search]

SearchOf(v, t, p) == [on |-> t, pattern |-> p, at |-> 0]

\* The effect that follows a new DOM: the old adapter is disposed of, a new one
\* collects its matches for the pattern of now.
Rebuild(v, t) ==
  /\ adapter' = [adapter EXCEPT ![v] = SearchOf(v, t, pattern[v])]
  /\ Paint(v, SearchOf(v, t, pattern[v]))

\* handleSearchChange
TypePattern(v, p) ==
  /\ Plays("search")
  /\ v \in mounted /\ bar[v]
  /\ pattern' = [pattern EXCEPT ![v] = p]
  /\ IF adapter[v] = NoAdapter THEN UNCHANGED <<adapter, painted>>
     ELSE /\ adapter' = [adapter EXCEPT ![v] = SearchOf(v, adapter[v].on, p)]
          /\ Paint(v, adapter'[v])
  /\ UNCHANGED <<mounted, disk, fileVars, tree, drawing, bar, feedback>>

\* The arrows and Enter: around the matches.
StepMatch(v, by) ==
  /\ Plays("search")
  /\ v \in mounted /\ bar[v] /\ Total(adapter[v]) > 0
  /\ adapter' = [adapter EXCEPT ![v].at = (@ + by + Total(adapter[v])) % Total(adapter[v])]
  /\ Paint(v, adapter'[v])
  /\ UNCHANGED <<mounted, disk, fileVars, tree, drawing, bar, pattern, feedback>>

\* "/" in the panel.
OpenBar(v) ==
  /\ Plays("search")
  /\ v \in mounted /\ tree[v] # NoTree /\ ~bar[v] /\ bar' = [bar EXCEPT ![v] = TRUE]
  /\ UNCHANGED <<mounted, disk, fileVars, tree, drawing, pattern, adapter, painted, feedback>>

\* closeSearch
CloseBar(v) ==
  /\ Plays("search")
  /\ v \in mounted /\ bar[v]
  /\ bar' = [bar EXCEPT ![v] = FALSE] /\ pattern' = [pattern EXCEPT ![v] = NoPattern]
  /\ IF adapter[v] = NoAdapter THEN UNCHANGED <<adapter, painted>>
     ELSE /\ adapter' = [adapter EXCEPT ![v] = SearchOf(v, adapter[v].on, NoPattern)]
          /\ painted' = Nobody
  /\ UNCHANGED <<mounted, disk, fileVars, tree, drawing, feedback>>

-----------------------------------------------------------------------------
(* Loading *)

Loads(v) == {r \in requests : r.by = v /\ r.what = "load"}

\* loadText starts; among is what else is under way now.
StartLoad(v, among) ==
  /\ fetching' = [fetching EXCEPT ![v] = TRUE] /\ failure' = [failure EXCEPT ![v] = FALSE]
  /\ requests' = among \cup {[RequestOf(v, "load") EXCEPT !.asked = None]}
  /\ muddled' = [muddled EXCEPT ![v] = @ \/ Loads(v) # {}]

\* handleRefresh
Refresh(v) ==
  /\ Plays("refresh")
  /\ v \in mounted
  /\ IF Kind(v) = "image"
     THEN requests' = requests \cup {RequestOf(v, "tag")} /\ UNCHANGED <<fetching, failure, muddled>>
     ELSE StartLoad(v, requests)
  /\ UNCHANGED <<mounted, disk, etag, content, seen, findVars, feedback>>

\* The page becomes visible: every panel asks for its etag, and remembers which
\* one it had.
Revisit ==
  /\ Plays("revisit")
  /\ requests' = requests \cup {RequestOf(v, "look") : v \in mounted}
  /\ UNCHANGED <<mounted, disk, etag, content, fetching, failure, seen, muddled, findVars, feedback>>

Retag(v, n) == etag' = [etag EXCEPT ![v] = n]

\* A revisit's answer: another etag than at its start is taken over and the text
\* is loaded.  With two overlapping ones of an image the older one may be last.
Looked(r) ==
  /\ r \in requests /\ r.stage = "served" /\ r.what = "look"
  /\ seen' = [seen EXCEPT ![r.by] = IF r.tag > @ THEN r.tag ELSE @]
  /\ IF r.tag = r.asked
     THEN requests' = requests \ {r} /\ UNCHANGED <<etag, fetching, failure, muddled>>
     ELSE /\ Retag(r.by, r.tag)
          /\ IF Kind(r.by) # "image" THEN StartLoad(r.by, requests \ {r})
             ELSE /\ requests' = requests \ {r}
                  /\ muddled' = [muddled EXCEPT ![r.by] = @ \/ r.tag < etag[r.by]]
                  /\ UNCHANGED <<fetching, failure>>
  /\ Goes /\ UNCHANGED <<mounted, disk, content, findVars, feedback>>

\* The etag of an image, when it is mounted or refreshed.
Tagged(r) ==
  /\ r \in requests /\ r.stage = "served" /\ r.what = "tag"
  /\ requests' = requests \ {r}
  /\ Retag(r.by, r.tag) /\ muddled' = [muddled EXCEPT ![r.by] = @ \/ r.tag < etag[r.by]]
  /\ Goes /\ UNCHANGED <<mounted, disk, content, fetching, failure, seen, findVars, feedback>>

\* loadText has the headers: the etag is set, the body is still on its way.
Headers(r) ==
  /\ r \in requests /\ r.stage = "served" /\ r.what = "load"
  /\ Retag(r.by, r.tag) /\ Becomes(r, [r EXCEPT !.stage = "headers"])
  /\ Goes /\ UNCHANGED <<mounted, disk, content, fetching, failure, seen, muddled, findVars,
                         feedback>>

HasArt(v, n) == Kind(v) = "markdown" /\ n \in Art

\* The pane with version n is written, and the diagrams are begun.
Display(v, n) ==
  IF tree[v].of = n THEN UNCHANGED <<tree, drawing, adapter, painted>>
  ELSE LET t == [of |-> n, drawn |-> FALSE]
       IN /\ tree' = [tree EXCEPT ![v] = t]
          /\ drawing' = [drawing EXCEPT ![v] = HasArt(v, n)]
          /\ Rebuild(v, t)

\* The body: the content is shown.
Body(r) ==
  /\ r \in requests /\ r.stage = "headers"
  /\ requests' = requests \ {r}
  /\ content' = [content EXCEPT ![r.by] = r.text]
  /\ fetching' = [fetching EXCEPT ![r.by] = FALSE]
  /\ Display(r.by, r.text)
  /\ Goes /\ UNCHANGED <<mounted, disk, etag, failure, seen, muddled, bar, pattern, feedback>>

\* A request fails on its way, at the server or while its body is read.  A failed
\* load keeps what the panel shows, and the etag it may have set.
Fails(r) ==
  /\ Plays("fail")
  /\ r \in requests /\ requests' = requests \ {r}
  /\ IF r.what = "load"
     THEN /\ failure' = [failure EXCEPT ![r.by] = TRUE] /\ fetching' = [fetching EXCEPT ![r.by] = FALSE]
          /\ muddled' = [muddled EXCEPT ![r.by] = TRUE]
     ELSE UNCHANGED <<failure, fetching, muddled>>
  /\ UNCHANGED <<mounted, disk, etag, content, seen, findVars, feedback>>

-----------------------------------------------------------------------------
(* Diagrams, copying, closing *)

\* Mermaid and KaTeX replace the nodes of the tree they were started for.
Draw(v) ==
  /\ v \in mounted /\ drawing[v] /\ ~tree[v].drawn
  /\ tree' = [tree EXCEPT ![v].drawn = TRUE]
  /\ Goes /\ UNCHANGED <<mounted, disk, fileVars, drawing, bar, pattern, adapter, painted, feedback>>

\* (Mutant of Drawn: paneDomGen is not counted.)
DrawnQuietly(v) ==
  /\ v \in mounted /\ drawing[v] /\ tree[v].drawn
  /\ drawing' = [drawing EXCEPT ![v] = FALSE]
  /\ Goes /\ UNCHANGED <<mounted, disk, fileVars, tree, bar, pattern, adapter, painted, feedback>>

\* All are drawn: paneDomGen is counted, the adapter rebuilt.
Drawn(v) ==
  /\ v \in mounted /\ drawing[v] /\ tree[v].drawn
  /\ drawing' = [drawing EXCEPT ![v] = FALSE]
  /\ Rebuild(v, tree[v])
  /\ Goes /\ UNCHANGED <<mounted, disk, fileVars, tree, bar, pattern, feedback>>

\* writeClipboard has succeeded: the button says so, and a timer is set; the timer
\* of an earlier copy runs on.
Copy(v) ==
  /\ Plays("copy")
  /\ v \in mounted
  /\ feedback' = [feedback EXCEPT ![v] = [shown |-> TRUE, timers |-> @.timers + 1]]
  /\ UNCHANGED <<mounted, disk, fileVars, findVars>>

CopyTimer(v) ==
  /\ feedback[v].timers > 0
  /\ feedback' = [feedback EXCEPT ![v] = [shown |-> FALSE, timers |-> @.timers - 1]]
  /\ Goes /\ UNCHANGED <<mounted, disk, fileVars, findVars>>

\* The panel is closed: answers that are still to come change nothing.
CloseView(v) ==
  /\ Plays("close")
  /\ v \in mounted /\ mounted' = mounted \ {v}
  /\ requests' = {r \in requests : r.by # v}
  /\ adapter' = [adapter EXCEPT ![v] = NoAdapter]
  /\ painted' = IF adapter[v] = NoAdapter THEN painted ELSE Nobody
  /\ tree' = [tree EXCEPT ![v] = NoTree] /\ drawing' = [drawing EXCEPT ![v] = FALSE]
  /\ UNCHANGED <<disk, etag, content, fetching, failure, seen, muddled, bar, pattern, feedback>>

ViewerNext ==
  \/ Revisit
  \/ \E v \in Views :
       \/ WriteFile(v) \/ Refresh(v) \/ OpenBar(v) \/ CloseBar(v)
       \/ \E p \in Patterns : TypePattern(v, p)
       \/ StepMatch(v, 1) \/ StepMatch(v, -1)
       \/ Draw(v) \/ Drawn(v) \/ Copy(v) \/ CopyTimer(v) \/ CloseView(v)
  \/ \E r \in requests :
       Serve(r) \/ Looked(r) \/ Tagged(r) \/ Headers(r) \/ Body(r) \/ Fails(r)

-----------------------------------------------------------------------------
(* Correctness *)

Arrived(v) == \A r \in requests : r.by # v \/ r.what = "look"

\* Types; "Copied" is always taken away again; a panel that is not loading has a
\* text, an error or is an image.
ViewerTypeOK ==
  /\ mounted \subseteq Views /\ disk \in [Views -> Versions]
  /\ \A v \in Views :
       /\ {etag[v], content[v], seen[v]} \subseteq Versions \cup {None}
       /\ pattern[v] \in Patterns /\ adapter[v].pattern \in Patterns
       /\ feedback[v].shown => feedback[v].timers > 0
       /\ v \in mounted /\ ~fetching[v] => content[v] # None \/ failure[v] \/ Kind(v) = "image"

\* What a revisit has found on the disk is what the panel shows once its load is
\* through, or a newer version: the etag a panel remembers is never ahead of its
\* text (unless two loads overlapped or one failed).
RevisitsShow ==
  \A v \in mounted :
    Arrived(v) /\ ~muddled[v] =>
      IF Kind(v) = "image" THEN etag[v] >= seen[v]
                           ELSE content[v] >= seen[v] /\ content[v] >= etag[v]

\* The counter of a search bar counts the matches of the pattern in the bar in the
\* text on the screen, unless diagrams are being drawn into it.
CountIsTrue ==
  \A v \in mounted :
    bar[v] /\ ~drawing[v] => Total(adapter[v]) = Total(SearchOf(v, tree[v], pattern[v]))

\* Whatever is painted is the search of an open panel as its counter tells it:
\* matches of a text that is gone, or of a bar that is closed, are not painted.
PaintedIsLive ==
  painted # Nobody =>
    /\ painted.by \in mounted /\ painted.search = adapter[painted.by]
    /\ bar[painted.by] /\ adapter[painted.by].at < Total(adapter[painted.by])
=============================================================================
