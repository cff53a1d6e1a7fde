------------------------------ MODULE CardStack ------------------------------
(***************************************************************************)
(* The mobile page: a stack of cards, one for each session the user picked *)
(* (useCardStack), shown one at a time or as an overview; the unread count *)
(* of each card (cardActivity), which follows the output of the panes that *)
(* stay mounted; and the touches that open a card or its menu.             *)
(*                                                                         *)
(* A card stays in the stack when its session is gone from the server: its *)
(* pane is not rendered then, and the overview does not list it.           *)
(***************************************************************************)
EXTENDS Naturals, Sequences, SequencesExt, FiniteSets, Lists

CONSTANTS
  Cards,      \* sessions
  Kin,        \* Kin[c]: the agents that the server deletes with c
  StoredStacks, \* what localStorage may hold: [cards, active]
  StackPlans  \* what happens: [does, steps]

NoCard == "(none)"

ASSUME CardsAssumption ==
  NoCard \notin Cards /\ IsFiniteSet(Cards) /\ Kin \in [Cards -> SUBSET Cards]
ASSUME StoredAssumption ==
  \A s \in StoredStacks : /\ s.cards \in Seq(Cards) /\ IsInjective(s.cards)
                          /\ s.active \in (IF s.cards = <<>> THEN {0} ELSE DOMAIN s.cards)
ASSUME StackPlansAssumption == StackPlans \subseteq [does : SUBSET STRING, steps : Nat]

VARIABLES
  agenda, elapsed,
  running,    \* sessions on the server
  listed,     \* conversations, the last list of them
  cards, active, \* the stack and its current card, an index or 0
  view,       \* "card" or "overview"
  unread, bursts, \* completedBursts, and the burst timers that run
  sheet,      \* the sheet to add a card is open
  making,     \* creations: [stage, id]
  menu,       \* the card whose menu is open
  deleting,   \* confirmed deletions under way: [stage, id]
  touch       \* the finger: [on, timer, fired, opened], opened is what it did

stackVars == <<cards, active, view>>
countVars == <<unread, bursts>>
cardVars  == <<agenda, elapsed, running, listed, stackVars, countVars, sheet, making, menu,
               deleting, touch>>

NoTouch == [on |-> NoCard, timer |-> FALSE, fired |-> FALSE, opened |-> {}]

\* useCardStack starts in the overview when there are no cards.
StackInit ==
  /\ agenda \in StackPlans /\ elapsed = 0
  /\ running \in SUBSET Cards /\ listed = running
  /\ \E s \in StoredStacks :
       cards = s.cards /\ active = s.active /\ view = IF cards = <<>> THEN "overview" ELSE "card"
  /\ unread = [c \in Cards |-> 0] /\ bursts = {}
  /\ sheet = FALSE /\ making = {} /\ menu = NoCard /\ deleting = {} /\ touch = NoTouch

InAgenda(kind) ==
  kind \in agenda.does /\ elapsed < agenda.steps /\ elapsed' = elapsed + 1 /\ UNCHANGED agenda
OnItsOwn == UNCHANGED <<agenda, elapsed>>

ActiveCard(list, i) == IF i \in DOMAIN list THEN list[i] ELSE NoCard
Current == ActiveCard(cards, active)
Viewed == IF view = "card" THEN Current ELSE NoCard

\* The panes, which are mounted whether they are shown or not.
Panes == Range(cards) \cap listed

\* Sheets cover the page.
Bare == ~sheet /\ menu = NoCard
InOverview == view = "overview" /\ Bare
InCard == view = "card" /\ Bare /\ Current \in Panes

-----------------------------------------------------------------------------
(* The stack *)

\* The stack changes, and App's effect tells cardActivity which card is viewed:
\* its count is cleared.
Look(list, i, v) ==
  /\ cards' = list /\ active' = i /\ view' = v
  /\ LET seen == IF v = "card" THEN ActiveCard(list, i) ELSE NoCard
     IN unread' = [c \in Cards |-> IF c = seen THEN 0 ELSE unread[c]]

\* useCardStack.add
AddCard(c) == IF Contains(cards, c) THEN Look(cards, Place(cards, c), "card")
              ELSE Look(Append(cards, c), Len(cards) + 1, "card")

\* A session from the list of those that are not in the stack.
PickExisting(c) ==
  /\ InAgenda("add")
  /\ sheet /\ c \in listed \ Range(cards)
  /\ AddCard(c) /\ sheet' = FALSE
  /\ UNCHANGED <<running, listed, bursts, making, menu, deleting, touch>>

\* All of them, in the order of the list.
PickAll ==
  /\ InAgenda("add")
  /\ sheet /\ Cardinality(listed \ Range(cards)) > 1
  /\ LET list == cards \o SetToSeq(listed \ Range(cards)) IN Look(list, Len(list), "card")
  /\ sheet' = FALSE
  /\ UNCHANGED <<running, listed, bursts, making, menu, deleting, touch>>

\* useCardStack.remove: the same card stays active, or the one that moves into its
\* place, or the last one.
WithoutCard(c) ==
  LET gone == Place(cards, c)
      list == Among(cards, Cards \ {c})
  IN [cards |-> list,
      active |-> IF gone = 0 THEN active
                 ELSE IF list = <<>> THEN 0
                 ELSE IF gone < active THEN active - 1
                 ELSE IF gone = active /\ active > Len(list) THEN Len(list)
                 ELSE active]

\* (Mutant of RemoveCard: the timer of its burst runs on.)
RemoveCardOnly(c) ==
  /\ cards' = WithoutCard(c).cards /\ active' = WithoutCard(c).active /\ view' = view
  /\ LET seen == IF view = "card" THEN ActiveCard(cards', active') ELSE NoCard
     IN unread' = [d \in Cards |-> IF d \in {c, seen} THEN 0 ELSE unread[d]]
  /\ bursts' = bursts

\* removeCard: the stack and the activity store.
RemoveCard(c) ==
  /\ cards' = WithoutCard(c).cards /\ active' = WithoutCard(c).active /\ view' = view
  /\ LET seen == IF view = "card" THEN ActiveCard(cards', active') ELSE NoCard
     IN unread' = [d \in Cards |-> IF d \in {c, seen} THEN 0 ELSE unread[d]]
  /\ bursts' = bursts \ {c}

\* The cross of a card in the overview.
Cross(c) ==
  /\ InAgenda("remove")
  /\ InOverview /\ c \in Panes
  /\ RemoveCard(c)
  /\ UNCHANGED <<running, listed, sheet, making, menu, deleting, touch>>

\* The buttons of a pane's header.
ShowOverview ==
  /\ InAgenda("look")
  /\ InCard /\ Look(cards, active, "overview")
  /\ UNCHANGED <<running, listed, bursts, sheet, making, menu, deleting, touch>>

Cycle(by) ==
  /\ InAgenda("look")
  /\ InCard /\ Len(cards) > 1
  /\ LET base == IF active = 0 THEN 0 ELSE active - 1
     IN Look(cards, ((base + by) % Len(cards)) + 1, "card")
  /\ UNCHANGED <<running, listed, bursts, sheet, making, menu, deleting, touch>>

-----------------------------------------------------------------------------
(* Output and unread bursts *)

CardOutput(c) ==
  /\ InAgenda("output")
  /\ c \in Panes /\ bursts' = bursts \cup {c}
  /\ UNCHANGED <<running, listed, stackVars, unread, sheet, making, menu, deleting, touch>>

\* The timer: no output for a while.
BurstEnds(c) ==
  /\ c \in bursts /\ bursts' = bursts \ {c}
  /\ unread' = [unread EXCEPT ![c] = IF c = Viewed THEN @ ELSE @ + 1]
  /\ OnItsOwn /\ UNCHANGED <<running, listed, stackVars, sheet, making, menu, deleting, touch>>

-----------------------------------------------------------------------------
(* Touches, menu and sheets *)

TouchCard(c) ==
  /\ InAgenda("touch")
  /\ InOverview /\ c \in Panes /\ touch.on = NoCard
  /\ touch' = [on |-> c, timer |-> TRUE, fired |-> FALSE, opened |-> {}]
  /\ UNCHANGED <<running, listed, stackVars, countVars, sheet, making, menu, deleting>>

\* The finger moves: no long press any more.
MoveFinger ==
  /\ touch.on # NoCard /\ touch.timer /\ touch' = [touch EXCEPT !.timer = FALSE]
  /\ OnItsOwn /\ UNCHANGED <<running, listed, stackVars, countVars, sheet, making, menu, deleting>>

\* The press was long enough: the menu of the card.
LongPress ==
  /\ touch.on # NoCard /\ touch.timer
  /\ touch' = [touch EXCEPT !.timer = FALSE, !.fired = TRUE, !.opened = @ \cup {"menu"}]
  /\ menu' = IF touch.on \in listed THEN touch.on ELSE NoCard
  /\ OnItsOwn /\ UNCHANGED <<running, listed, stackVars, countVars, sheet, making, deleting>>

\* The finger goes; the click that follows is a tap, unless the menu came.
LiftFinger ==
  /\ touch.on # NoCard
  /\ IF touch.fired \/ ~Contains(cards, touch.on) \/ touch.on \notin listed
     THEN touch' = [touch EXCEPT !.on = NoCard, !.timer = FALSE] /\ UNCHANGED <<stackVars, unread>>
     ELSE /\ touch' = [touch EXCEPT !.on = NoCard, !.timer = FALSE, !.opened = @ \cup {"card"}]
          /\ Look(cards, Place(cards, touch.on), "card")
  /\ OnItsOwn /\ UNCHANGED <<running, listed, bursts, sheet, making, menu, deleting>>

OpenSheet ==
  /\ InAgenda("sheet")
  /\ InOverview /\ touch.on = NoCard /\ sheet' = TRUE
  /\ UNCHANGED <<running, listed, stackVars, countVars, making, menu, deleting, touch>>

\* A sheet or a menu can be closed whatever is under way.
CloseSheets ==
  /\ InAgenda("close")
  /\ (sheet \/ menu # NoCard) /\ sheet' = FALSE /\ menu' = NoCard
  /\ UNCHANGED <<running, listed, stackVars, countVars, making, deleting, touch>>

-----------------------------------------------------------------------------
(* Creating, deleting, and what others do *)

CreateCard(c) ==
  /\ InAgenda("create")
  /\ sheet /\ making = {} /\ c \notin running \cup listed \cup Range(cards)
  /\ making' = {[stage |-> "asked", id |-> c]}
  /\ UNCHANGED <<running, listed, stackVars, countVars, sheet, menu, deleting, touch>>

\* createConversation is answered, or fails.
CardMade(m, ok) ==
  /\ m \in making /\ m.stage = "asked"
  /\ IF ok THEN running' = running \cup {m.id} /\ making' = {[m EXCEPT !.stage = "made"]}
           ELSE making' = {} /\ UNCHANGED running
  /\ OnItsOwn /\ UNCHANGED <<listed, stackVars, countVars, sheet, menu, deleting, touch>>

\* refresh, which takes a failure for an answer; then the card is added and shown,
\* even if the sheet was closed meanwhile.
CreatedShown(m, ok) ==
  /\ m \in making /\ m.stage = "made" /\ making' = {}
  /\ listed' = IF ok THEN running ELSE listed
  /\ AddCard(m.id) /\ sheet' = FALSE
  /\ OnItsOwn /\ UNCHANGED <<running, bursts, menu, deleting, touch>>

ConfirmDeletion ==
  /\ InAgenda("delete")
  /\ menu # NoCard /\ deleting = {}
  /\ deleting' = {[stage |-> "asked", id |-> menu]}
  /\ UNCHANGED <<running, listed, stackVars, countVars, sheet, making, menu, touch>>

\* The server deletes the session and its agents, the page its card.
Deleted(d, ok) ==
  /\ d \in deleting /\ d.stage = "asked"
  /\ IF ok THEN /\ running' = running \ ({d.id} \cup Kin[d.id])
                /\ RemoveCard(d.id) /\ deleting' = {[d EXCEPT !.stage = "done"]}
           ELSE /\ deleting' = {} /\ UNCHANGED <<running, stackVars, countVars>>
  /\ OnItsOwn /\ UNCHANGED <<listed, sheet, making, menu, touch>>

\* refresh, and the menu is closed, whosever it is now.
DeletedShown(d, ok) ==
  /\ d \in deleting /\ d.stage = "done" /\ deleting' = {}
  /\ listed' = IF ok THEN running ELSE listed
  /\ menu' = NoCard
  /\ OnItsOwn /\ UNCHANGED <<running, stackVars, countVars, sheet, making, touch>>

\* A poll; a menu whose session is gone is not rendered.
PollList ==
  /\ listed # running /\ listed' = running
  /\ menu' = IF menu \in running THEN menu ELSE NoCard
  /\ OnItsOwn /\ UNCHANGED <<running, stackVars, countVars, sheet, making, deleting, touch>>

OthersDelete(c) ==
  /\ InAgenda("others")
  /\ c \in running /\ running' = running \ ({c} \cup Kin[c])
  /\ UNCHANGED <<listed, stackVars, countVars, sheet, making, menu, deleting, touch>>

\* The page is loaded again: the stack comes from localStorage, which every change
\* of it writes; a call that was under way may still reach the server.
ReloadPage ==
  /\ InAgenda("reload")
  /\ view' = IF cards = <<>> THEN "overview" ELSE "card"
  /\ UNCHANGED <<cards, active>>
  /\ \E arrives \in BOOLEAN :
       running' = IF arrives THEN (running \cup {m.id : m \in making})
                                  \ UNION {{d.id} \cup Kin[d.id] : d \in deleting}
                             ELSE running
  /\ listed' = running'
  /\ unread' = [c \in Cards |-> 0] /\ bursts' = {}
  /\ sheet' = FALSE /\ making' = {} /\ menu' = NoCard /\ deleting' = {} /\ touch' = NoTouch

StackNext ==
  \/ \E c \in Cards :
       \/ PickExisting(c) \/ Cross(c) \/ CardOutput(c) \/ BurstEnds(c) \/ TouchCard(c)
       \/ CreateCard(c) \/ OthersDelete(c)
  \/ PickAll \/ ShowOverview \/ Cycle(1) \/ Cycle(Len(cards) - 1)
  \/ MoveFinger \/ LongPress \/ LiftFinger \/ OpenSheet \/ CloseSheets
  \/ \E ok \in BOOLEAN :
       \/ \E m \in making : CardMade(m, ok) \/ CreatedShown(m, ok)
       \/ \E d \in deleting : Deleted(d, ok) \/ DeletedShown(d, ok)
  \/ ConfirmDeletion \/ PollList \/ ReloadPage

-----------------------------------------------------------------------------
(* Correctness *)

\* Types; a session has one card; some card is active as long as there are any.
StackTypeOK ==
  /\ listed \subseteq Cards /\ running \subseteq Cards /\ IsInjective(cards)
  /\ active \in 0 .. Len(cards) /\ (active = 0 <=> cards = <<>>)
  /\ view \in {"card", "overview"} /\ menu \in Cards \cup {NoCard}

\* Taking a card off the stack never puts another one in front of the user than the
\* one that was there.
PlaceKept ==
  [][Current # NoCard /\ Contains(cards', Current) /\ Len(cards') < Len(cards)
       => ActiveCard(cards', active') = Current]_cardVars

\* What the user looks at is read.
ViewedIsRead == Viewed # NoCard => unread[Viewed] = 0

\* Nothing is counted for a session that is not in the stack, now or by a timer
\* that still runs: a card that is put back starts afresh.
CountsOfCards == bursts \cup {c \in Cards : unread[c] > 0} \subseteq Range(cards)

\* A touch opens the card or its menu, never both.
OneTouchOneThing == Cardinality(touch.opened) <= 1

\* What the page owes its cards and their counts.
StackInv == StackTypeOK /\ ViewedIsRead /\ CountsOfCards /\ OneTouchOneThing

=============================================================================
