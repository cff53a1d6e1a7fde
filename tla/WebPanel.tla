------------------------------ MODULE WebPanel ------------------------------
(***************************************************************************)
(* A panel with a web page in an iframe (WebView.tsx): the page it is at,  *)
(* the field for another one, and the sign that it is loading.             *)
(***************************************************************************)
EXTENDS Naturals

CONSTANTS
  WebPages,  \* addresses
  AddressOf,      \* what may be typed, to the address it stands for; NoPage is none
  MaxClicks

NoPage == "(none)"

ASSUME WebAssumption ==
  /\ NoPage \notin WebPages /\ MaxClicks \in Nat
  /\ WebPages \subseteq DOMAIN AddressOf
  /\ \A w \in WebPages : AddressOf[w] = w
  /\ \A w \in DOMAIN AddressOf : AddressOf[w] \in WebPages \cup {NoPage}

VARIABLES
  page,    \* currentUrl, the src of the iframe
  field,   \* inputUrl
  waiting, \* loading, the sign over the page
  frame,   \* what the iframe does: [at, busy]
  again,   \* Go was pressed for the page that was there
  clicks

webVars == <<page, field, waiting, frame, again, clicks>>

WebInit ==
  /\ page \in WebPages /\ field = page
  /\ waiting = TRUE /\ frame = [at |-> page, busy |-> TRUE] /\ again = FALSE /\ clicks = 0

Click == clicks < MaxClicks /\ clicks' = clicks + 1

EditUrl(u) ==
  /\ Click
  /\ u \in DOMAIN AddressOf /\ field' = u
  /\ UNCHANGED <<page, waiting, frame, again>>

\* navigate: https:// is added; the iframe loads when its src has changed, and only
\* then.
Navigate ==
  /\ Click
  /\ AddressOf[field] # NoPage
  /\ page' = AddressOf[field] /\ field' = page'
  /\ waiting' = TRUE
  /\ frame' = IF page' = page THEN frame ELSE [at |-> page', busy |-> TRUE]
  /\ again' = (page' = page /\ (again \/ ~frame.busy))

\* The button that loads the page again.
ReloadFrame ==
  /\ Click
  /\ waiting' = TRUE /\ frame' = [at |-> page, busy |-> TRUE] /\ again' = FALSE
  /\ UNCHANGED <<page, field>>

\* onLoad: a link in the page may be what was loaded, too.
PageLoaded ==
  /\ frame.busy /\ frame' = [frame EXCEPT !.busy = FALSE]
  /\ waiting' = FALSE
  /\ UNCHANGED <<page, field, again, clicks>>

WebNext ==
  \/ \E u \in DOMAIN AddressOf : EditUrl(u)
  \/ Navigate \/ ReloadFrame \/ PageLoaded

-----------------------------------------------------------------------------
(* Correctness *)

\* The sign is there only while the iframe loads, and then the page of the panel -
\* or when Go was pressed for the page that was there, which loads nothing.
SignGoes ==
  /\ frame.at = page
  /\ waiting => frame.busy \/ again
=============================================================================
