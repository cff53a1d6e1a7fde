---------------------------- MODULE ServerProofs ----------------------------
(***************************************************************************)
(* Theorems about the server's smaller parts (module MCServer composes     *)
(* them), for every value of their constants: the end of a daemon, the     *)
(* turns that tools wait for, logins, and what the sidebar says of agents. *)
(***************************************************************************)
EXTENDS MCServer, FiniteSetTheorems, SequenceTheorems, TLAPS

-----------------------------------------------------------------------------
(* DaemonLife *)

Processes == Jobs \cup {Leader}

LifeTypeOK ==
  /\ stage \in [Daemons -> Stages]
  /\ members \in [Daemons -> SUBSET Processes]
  /\ targets \in [Daemons -> SUBSET Processes]
  /\ slipped \in [Daemons -> SUBSET Processes]
  /\ signalled \in [Daemons -> BOOLEAN]
  /\ crashed \in [Daemons -> BOOLEAN]
  /\ sockFile \in Daemons \cup {NoFile}
  /\ astray \subseteq Daemons
  /\ starter \in {"idle", "probed", "polling"}

\* A daemon that was told to end is on its way to it; the sweep has found, or will
\* find, whoever was not forked during it.
SweepIsComplete ==
  \A d \in Daemons :
    /\ signalled[d] => stage[d] \notin {"none", "booting", "serving"}
    /\ stage[d] \in {"hangup", "sweeping"} => signalled[d]
    /\ stage[d] = "sweeping" => members[d] \subseteq targets[d] \cup slipped[d]
    /\ signalled[d] /\ stage[d] \in {"flushing", "closed"} => members[d] \subseteq slipped[d]
    /\ signalled[d] /\ stage[d] = "gone" /\ ~ crashed[d] => members[d] \subseteq slipped[d]

\* As long as no daemon went astray, whoever listens does so at the path, nobody
\* starts beside it, and a door that is closed is the last one.
PathIsOwned ==
  astray = {} =>
    /\ \A d \in Daemons : Listens(d) => sockFile = d
    /\ \A d, e \in Daemons : stage[d] = "closed" => ~ Listens(e)
    /\ starter = "probed" => \A d \in Daemons : stage[d] # "booting" /\ ~ Listens(d)
    /\ \A d \in Daemons : stage[d] = "booting" =>
         /\ starter = "polling"
         /\ \A e \in Daemons : ~ Listens(e) /\ (stage[e] = "booting" => e = d)

\* A file without a listener is what a crash left.
FileIsExplained ==
  sockFile # NoFile =>
    stage[sockFile] # "none" /\ (stage[sockFile] = "gone" => crashed[sockFile])

LifeIInv == LifeTypeOK /\ SweepIsComplete /\ PathIsOwned /\ FileIsExplained

LEMMA LifeInitially == LifeInit => LifeIInv
  BY DEF LifeInit, LifeIInv, LifeTypeOK, SweepIsComplete, PathIsOwned, FileIsExplained,
         Stages, Listens, Processes

LEMMA LifeImplied == LifeIInv => DaemonInv
  BY DEF LifeIInv, LifeTypeOK, SweepIsComplete, PathIsOwned, FileIsExplained, DaemonInv,
         NothingIsOrphaned, ServingIsReached, OneServes, Listens, NoFile

LEMMA LifeStep == LifeIInv /\ [LifeNext]_lifeVars => LifeIInv'
<1> SUFFICES ASSUME LifeIInv, [LifeNext]_lifeVars PROVE LifeIInv'
  OBVIOUS
<1> USE LifeAssumption DEF LifeIInv, LifeTypeOK, SweepIsComplete, PathIsOwned,
      FileIsExplained, Listens, Stages, Processes, Enter, KeepsServer, Answers, NoFile,
      Daemons
<1>1. CASE Probe
  BY <1>1 DEF Probe
<1>2. CASE Polled
  BY <1>2 DEF Polled
<1>3. ASSUME NEW d \in Daemons, StartDaemon(d) PROVE LifeIInv'
  BY <1>3 DEF StartDaemon
<1>4. ASSUME NEW d \in Daemons, Bind(d) PROVE LifeIInv'
  BY <1>4 DEF Bind
<1>5. ASSUME NEW d \in Daemons, ChildGone(d) PROVE LifeIInv'
  BY <1>5 DEF ChildGone
<1>6. ASSUME NEW d \in Daemons, HangUp(d) PROVE LifeIInv'
  BY <1>6 DEF HangUp
<1>7. ASSUME NEW d \in Daemons, LookUp(d) PROVE LifeIInv'
  BY <1>7 DEF LookUp
<1>8. ASSUME NEW d \in Daemons, KillThem(d) PROVE LifeIInv'
  BY <1>8 DEF KillThem
<1>9. ASSUME NEW d \in Daemons, CloseDoor(d) PROVE LifeIInv'
  BY <1>9 DEF CloseDoor
<1>10. ASSUME NEW d \in Daemons, Unlink(d) PROVE LifeIInv'
  BY <1>10 DEF Unlink
<1>11. ASSUME NEW d \in Daemons, Crash(d) PROVE LifeIInv'
  BY <1>11 DEF Crash
<1>12. ASSUME NEW d \in Daemons, NEW j \in Jobs, Fork(d, j) PROVE LifeIInv'
  BY <1>12 DEF Fork
<1>13. ASSUME NEW d \in Daemons, NEW p \in Processes, ProcessExits(d, p) PROVE LifeIInv'
  BY <1>13 DEF ProcessExits
<1>14. CASE UNCHANGED lifeVars
  BY <1>14 DEF lifeVars
<1> QED
  BY <1>1, <1>2, <1>3, <1>4, <1>5, <1>6, <1>7, <1>8, <1>9, <1>10, <1>11, <1>12, <1>13, <1>14
     DEF LifeNext, Ends, Processes

\* A daemon that was told to end leaves nothing behind but what was forked while it
\* swept; and unless one went astray, the daemon that serves is the only one and is
\* found at the path of its session (daemon.rs, attach/daemon.rs).
THEOREM DaemonCorrect == Spec => []DaemonInv
<1>1. Init => LifeIInv
  BY LifeInitially DEF Init
<1>2. LifeIInv /\ [Next]_vars => LifeIInv'
  BY LifeStep DEF Next, vars, OfModes, OfActivity, OfLogin, OfTurns, OfLife
<1> QED
  BY <1>1, <1>2, LifeImplied, PTL DEF Spec
-----------------------------------------------------------------------------
(* ChatTurns *)

TurnEvents == [seq : Nat, by : Calls \cup {Page, NoTurn}, kind : {"text", "result"}, n : Nat]
CallStates ==
  [step : {"idle", "subscribed", "waiting", "answered", "failed"}, epoch : Nat, base : Nat,
   inbox : Seq(TurnEvents), lagged : BOOLEAN, text : Seq(TurnEvents), alone : BOOLEAN]

TurnsTypeOK ==
  /\ up \in BOOLEAN
  /\ epoch \in Nat
  /\ lastSeq \in Nat
  /\ prompts \in Seq(Calls \cup {Page})
  /\ turn \in [by : Calls \cup {Page, NoTurn}, left : Nat]
  /\ call \in [Calls -> CallStates]

\* Call c listens to the session's client.
OnClient(c) == call[c].epoch = epoch

\* What c has, and what lies in its inbox, follows its subscription without a gap, up
\* to the client's latest event.
Gapless(c) ==
  LET text == call[c].text
      inbox == call[c].inbox
  IN  /\ \A k \in 1 .. Len(text) : text[k].seq = call[c].base + k
      /\ \A k \in 1 .. Len(inbox) : inbox[k].seq = call[c].base + Len(text) + k
      /\ OnClient(c) => lastSeq = call[c].base + Len(text) + Len(inbox)

\* A call that waits for a living runner has a turn coming: its own, or a result.
TurnIsDue(c) ==
  \/ \E i \in 1 .. Len(prompts) : prompts[i] = c
  \/ turn # Quiet
  \/ \E i \in 1 .. Len(call[c].inbox) : call[c].inbox[i].kind = "result"

\* The turn of a call that has the session for itself: not yet begun, at its texts, or
\* done and in the inbox.
OwnTurnIsNext(c) ==
  LET text == call[c].text
      inbox == call[c].inbox
  IN  \/ prompts = <<c>> /\ turn = Quiet /\ text = <<>> /\ inbox = <<>>
      \/ /\ prompts = <<>>
         /\ turn.by = c /\ turn.left = TurnTexts - Len(text) - Len(inbox)
         /\ \A k \in 1 .. Len(inbox) : inbox[k].kind = "text"
      \/ /\ prompts = <<>> /\ turn = Quiet
         /\ inbox # <<>> /\ inbox[Len(inbox)].kind = "result"

\* What such a call has and what lies in its inbox are of its own turn, texts first.
OwnTurnOnly(c) ==
  LET text == call[c].text
      inbox == call[c].inbox
  IN  /\ \A k \in 1 .. Len(text) :
           text[k].by = c /\ text[k].kind = "text" /\ text[k].n = TurnTexts + 1 - k
      /\ \A k \in 1 .. Len(inbox) :
           /\ inbox[k].by = c
           /\ inbox[k].kind = "text" => inbox[k].n = TurnTexts + 1 - (Len(text) + k)
           /\ inbox[k].kind = "result" => k = Len(inbox)

WholeTurn(c) ==
  LET got == call[c].text IN
  /\ \A k \in 1 .. Len(got) : got[k].by = c
  /\ \A k \in 1 .. Len(got) : got[k].kind = "text" <=> k < Len(got)
  /\ \A k \in 1 .. (Len(got) - 1) : got[k].n = TurnTexts + 1 - k

CallIInv(c) ==
  /\ call[c].epoch <= epoch
  /\ Waits(c) /\ ~ call[c].lagged => Gapless(c)
  /\ call[c].step = "waiting" /\ ~ call[c].lagged /\ up /\ OnClient(c) => TurnIsDue(c)
  /\ call[c].alone /\ ~ call[c].lagged =>
       /\ call[c].step = "subscribed" =>
            /\ call[c].text = <<>> /\ call[c].inbox = <<>>
            /\ up /\ OnClient(c) => prompts = <<>> /\ turn = Quiet
       /\ call[c].step = "waiting" =>
            OwnTurnOnly(c) /\ (up /\ OnClient(c) => OwnTurnIsNext(c))
       /\ call[c].step = "answered" => WholeTurn(c)

TurnsIInv ==
  /\ TurnsTypeOK
  /\ turn.by = NoTurn => turn = Quiet
  /\ \A c \in Calls : CallIInv(c)

\* Two numbered sequences, one after the other, are numbered.
LEMMA NumberedConcat ==
  ASSUME NEW s \in Seq(TurnEvents), NEW t \in Seq(TurnEvents), NEW b \in Nat,
         \A k \in 1 .. Len(s) : s[k].seq = b + k,
         \A k \in 1 .. Len(t) : t[k].seq = b + Len(s) + k
  PROVE  \A k \in DOMAIN (s \o t) : (s \o t)[k].seq = b + k
<1>1. Len(s) \in Nat /\ Len(t) \in Nat /\ DOMAIN (s \o t) = 1 .. (Len(s) + Len(t))
  BY ConcatProperties, LenProperties
<1>2. TAKE k \in DOMAIN (s \o t)
<1>3. (s \o t)[k] = IF k <= Len(s) THEN s[k] ELSE t[k - Len(s)]
  BY <1>1, <1>2, ConcatProperties
<1>4. CASE k \in 1 .. Len(s)
  BY <1>1, <1>3, <1>4
<1>5. CASE k - Len(s) \in 1 .. Len(t)
  BY <1>1, <1>2, <1>3, <1>5
<1> QED
  BY <1>1, <1>2, <1>4, <1>5

LEMMA SameCall ==
  ASSUME NEW c \in Calls, CallIInv(c), call'[c] = call[c],
         UNCHANGED <<up, epoch, lastSeq, prompts, turn>>
  PROVE  CallIInv(c)'
<1>1. Waits(c)' = Waits(c) /\ OnClient(c)' = OnClient(c)
  BY DEF Waits, OnClient
<1>2. Gapless(c) => Gapless(c)'
  BY DEF Gapless, OnClient
<1>3. TurnIsDue(c) => TurnIsDue(c)'
  BY DEF TurnIsDue
<1>4. OwnTurnIsNext(c) => OwnTurnIsNext(c)'
  BY DEF OwnTurnIsNext
<1>5. OwnTurnOnly(c) => OwnTurnOnly(c)'
  BY DEF OwnTurnOnly
<1>6. WholeTurn(c) => WholeTurn(c)'
  BY DEF WholeTurn
<1> QED
  BY <1>1, <1>2, <1>3, <1>4, <1>5, <1>6 DEF CallIInv

LEMMA TurnsInitially == TurnsInit => TurnsIInv
<1> SUFFICES ASSUME TurnsInit PROVE TurnsIInv
  OBVIOUS
<1>1. NoCall \in CallStates /\ Quiet \in [by : Calls \cup {Page, NoTurn}, left : Nat]
  BY DEF NoCall, CallStates, Quiet
<1>2. TurnsTypeOK
  BY <1>1 DEF TurnsInit, TurnsTypeOK
<1>3. ASSUME NEW c \in Calls PROVE CallIInv(c)
  <2>1. call[c].step = "idle" /\ call[c].epoch <= epoch /\ call[c].alone = FALSE
    BY DEF TurnsInit, NoCall
  <2> QED
    BY <2>1 DEF CallIInv, Waits
<1> QED
  BY <1>2, <1>3 DEF TurnsIInv, TurnsInit

LEMMA TurnsImplied == TurnsIInv => TurnsInv
<1> SUFFICES ASSUME TurnsIInv PROVE TurnsInv
  OBVIOUS
<1>1. AnswerIsMine
  <2> SUFFICES ASSUME NEW c \in Calls, call[c].step = "answered", call[c].alone,
                      ~ call[c].lagged
               PROVE  LET got == call[c].text IN
                      /\ \A k \in DOMAIN got : got[k].by = c
                      /\ \A k \in DOMAIN got : got[k].kind = "text" <=> k < Len(got)
                      /\ \A k \in 1 .. Len(got) - 1 : got[k].n = TurnTexts + 1 - k
    BY DEF AnswerIsMine
  <2>1. call[c].text \in Seq(TurnEvents)
    BY DEF TurnsIInv, TurnsTypeOK, CallStates
  <2>2. WholeTurn(c)
    BY DEF TurnsIInv, CallIInv
  <2> QED
    BY <2>1, <2>2, LenProperties DEF WholeTurn
<1>2. NobodyWaitsInVain
  <2> SUFFICES ASSUME NEW c \in Calls, call[c].step = "waiting", call[c].inbox = <<>>,
                      up, call[c].epoch = epoch, prompts = <<>>, turn = Quiet,
                      ~ call[c].lagged
               PROVE  FALSE
    BY DEF NobodyWaitsInVain
  <2>1. TurnIsDue(c)
    BY DEF TurnsIInv, CallIInv, OnClient
  <2> QED
    BY <2>1 DEF TurnIsDue
<1>3. AnswerHasNoGap
  <2> SUFFICES ASSUME NEW c \in Calls, Waits(c), ~ call[c].lagged
               PROVE  \A k \in DOMAIN (call[c].text \o call[c].inbox) :
                        (call[c].text \o call[c].inbox)[k].seq = call[c].base + k
    BY DEF AnswerHasNoGap
  <2>1. call[c].text \in Seq(TurnEvents) /\ call[c].inbox \in Seq(TurnEvents)
        /\ call[c].base \in Nat
    BY DEF TurnsIInv, TurnsTypeOK, CallStates
  <2>2. Gapless(c)
    BY DEF TurnsIInv, CallIInv
  <2> QED
    BY <2>1, <2>2, NumberedConcat DEF Gapless
<1> QED
  BY <1>1, <1>2, <1>3 DEF TurnsInv

\* A call whose client is replaced hears nothing more.
LEMMA ClientReplaced ==
  ASSUME NEW c \in Calls, CallIInv(c), call[c].epoch \in Nat, epoch \in Nat,
         call'[c] = call[c], epoch' = epoch + 1
  PROVE  CallIInv(c)'
<1>1. Waits(c)' = Waits(c) /\ ~ OnClient(c)' /\ call'[c].epoch <= epoch'
  BY DEF Waits, OnClient, CallIInv
<1>2. Gapless(c) => Gapless(c)'
  BY <1>1 DEF Gapless
<1>3. OwnTurnOnly(c) => OwnTurnOnly(c)'
  BY DEF OwnTurnOnly
<1>4. WholeTurn(c) => WholeTurn(c)'
  BY DEF WholeTurn
<1> QED
  BY <1>1, <1>2, <1>3, <1>4 DEF CallIInv

\* A call that has just subscribed.
LEMMA FreshCall ==
  ASSUME NEW c \in Calls, NEW q \in BOOLEAN, NEW now \in Nat, NEW seq \in Nat,
         epoch' = now, lastSeq' = seq, call'[c] = Subscribed(now, seq, q),
         q => prompts' = <<>> /\ turn' = Quiet
  PROVE  CallIInv(c)' /\ call'[c] \in CallStates
<1>1. /\ call'[c].step = "subscribed" /\ call'[c].epoch = now /\ call'[c].base = seq
      /\ call'[c].text = <<>> /\ call'[c].inbox = <<>> /\ call'[c].alone = q
  BY DEF Subscribed, NoCall
<1>2. Gapless(c)'
  <2>1. Len(call'[c].text) = 0 /\ Len(call'[c].inbox) = 0 /\ call'[c].base = seq
    <3>1. Len(<<>>) = 0
      OBVIOUS
    <3> QED
      BY <1>1, <3>1
  <2>2. 1 .. 0 = {}
    OBVIOUS
  <2>3. 1 .. Len(call'[c].text) = {} /\ 1 .. Len(call'[c].inbox) = {}
    BY <2>1, <2>2
  <2>4. seq = call'[c].base + Len(call'[c].text) + Len(call'[c].inbox)
    BY <2>1
  <2> QED
    BY <2>3, <2>4 DEF Gapless
<1>3. call'[c] \in CallStates
  <2>1. <<>> \in Seq(TurnEvents)
    OBVIOUS
  <2>2. call'[c] = [step |-> "subscribed", epoch |-> now, base |-> seq, inbox |-> <<>>,
                    lagged |-> FALSE, text |-> <<>>, alone |-> q]
    BY DEF Subscribed, NoCall
  <2> QED
    BY <2>1, <2>2 DEF CallStates
<1> QED
  BY <1>1, <1>2, <1>3 DEF CallIInv

\* A call that is not alone any more, as somebody else posted.
LEMMA DisturbedCall ==
  ASSUME NEW c \in Calls, TurnsTypeOK, CallIInv(c), NEW by \in Calls \cup {Page},
         call'[c] = [call[c] EXCEPT !.alone = FALSE],
         prompts' \in {prompts, Append(prompts, by)},
         UNCHANGED <<up, epoch, lastSeq, turn>>
  PROVE  CallIInv(c)' /\ call'[c] \in CallStates
<1>1. call[c] \in CallStates /\ prompts \in Seq(Calls \cup {Page})
  BY DEF TurnsTypeOK
<1>2. /\ call'[c].step = call[c].step /\ call'[c].epoch = call[c].epoch
      /\ call'[c].base = call[c].base /\ call'[c].text = call[c].text
      /\ call'[c].inbox = call[c].inbox /\ call'[c].lagged = call[c].lagged
      /\ call'[c].alone = FALSE /\ call'[c] \in CallStates
  BY <1>1 DEF CallStates
<1>3. Waits(c)' = Waits(c) /\ OnClient(c)' = OnClient(c)
  BY <1>2 DEF Waits, OnClient
<1>4. Gapless(c) => Gapless(c)'
  BY <1>2, <1>3 DEF Gapless
<1>5. TurnIsDue(c) => TurnIsDue(c)'
  <2>1. \A i \in 1 .. Len(prompts) : i \in 1 .. Len(prompts') /\ prompts'[i] = prompts[i]
    BY <1>1, AppendProperties, LenProperties
  <2> QED
    BY <1>2, <2>1 DEF TurnIsDue
<1> QED
  BY <1>2, <1>3, <1>4, <1>5 DEF CallIInv

LEMMA SubscribeStep ==
  ASSUME TurnsIInv, NEW c \in Calls, Subscribe(c)
  PROVE  TurnsIInv'
<1> USE DEF TurnsIInv
<1>1. CASE up
  <2>1. /\ call' = [call EXCEPT ![c] = Subscribed(epoch, lastSeq, prompts = <<>> /\ turn = Quiet)]
        /\ UNCHANGED <<up, epoch, lastSeq, prompts, turn>>
    BY <1>1 DEF Subscribe
  <2>2. CallIInv(c)' /\ call'[c] \in CallStates
    <3> DEFINE q == prompts = <<>> /\ turn = Quiet
    <3>1. /\ call'[c] = Subscribed(epoch, lastSeq, q) /\ epoch' = epoch /\ lastSeq' = lastSeq
          /\ epoch \in Nat /\ lastSeq \in Nat
      BY <2>1 DEF TurnsTypeOK
    <3>2. q \in BOOLEAN /\ (q => prompts' = <<>> /\ turn' = Quiet)
      BY <2>1
    <3> HIDE DEF q
    <3> QED
      BY <3>1, <3>2, FreshCall
  <2>3. ASSUME NEW d \in Calls, d # c
        PROVE  CallIInv(d)' /\ call'[d] = call[d]
    BY <2>1, <2>3, SameCall DEF TurnsTypeOK
  <2> QED
    BY <2>1, <2>2, <2>3 DEF TurnsTypeOK
<1>2. CASE ~ up
  <2>1. /\ up' = TRUE /\ epoch' = epoch + 1 /\ lastSeq' = 0 /\ prompts' = <<>> /\ turn' = Quiet
        /\ call' = [call EXCEPT ![c] = Subscribed(epoch + 1, 0, TRUE)]
    BY <1>2 DEF Subscribe
  <2>2. CallIInv(c)' /\ call'[c] \in CallStates
    <3>1. call'[c] = Subscribed(epoch + 1, 0, TRUE) /\ epoch + 1 \in Nat /\ 0 \in Nat
      BY <2>1 DEF TurnsTypeOK
    <3> QED
      BY <2>1, <3>1, FreshCall
  <2>3. ASSUME NEW d \in Calls, d # c
        PROVE  CallIInv(d)' /\ call'[d] = call[d]
    BY <2>1, <2>3, ClientReplaced DEF TurnsTypeOK, CallStates
  <2>4. turn' \in [by : Calls \cup {Page, NoTurn}, left : Nat]
    BY <2>1 DEF Quiet
  <2>5. call' \in [Calls -> CallStates]
    BY <2>1, <2>2, <2>3 DEF TurnsTypeOK
  <2>6. prompts' \in Seq(Calls \cup {Page}) /\ epoch' \in Nat
    BY <2>1 DEF TurnsTypeOK
  <2>7. TurnsTypeOK'
    BY <2>1, <2>4, <2>5, <2>6 DEF TurnsTypeOK
  <2> QED
    BY <2>1, <2>2, <2>3, <2>7
<1> QED
  BY <1>1, <1>2

LEMMA PostMessageStep ==
  ASSUME TurnsIInv, NEW c \in Calls, PostMessage(c)
  PROVE  TurnsIInv'
<1>1. /\ call[c].step = "subscribed" /\ prompts' = Taken(call[c].epoch, c)
      /\ call'[c] = [call[c] EXCEPT !.step = "waiting"]
      /\ \A d \in Calls \ {c} : call'[d] = [call[d] EXCEPT !.alone = FALSE]
      /\ UNCHANGED <<up, epoch, lastSeq, turn>>
  BY DEF PostMessage, Disturbed, TurnsIInv, TurnsTypeOK
<1>2. prompts \in Seq(Calls \cup {Page}) /\ call[c] \in CallStates /\ CallIInv(c) /\ TurnsTypeOK
  BY DEF TurnsIInv, TurnsTypeOK
<1>3. /\ prompts' \in {prompts, Append(prompts, c)}
      /\ up /\ OnClient(c) => prompts' = Append(prompts, c)
  BY <1>1 DEF Taken, OnClient
<1>4. /\ call'[c].step = "waiting" /\ call'[c].epoch = call[c].epoch
      /\ call'[c].base = call[c].base /\ call'[c].text = call[c].text
      /\ call'[c].inbox = call[c].inbox /\ call'[c].lagged = call[c].lagged
      /\ call'[c].alone = call[c].alone
  BY <1>1, <1>2 DEF CallStates
<1>5. CallIInv(c)'
  <2>1. OnClient(c)' = OnClient(c) /\ Waits(c) /\ Waits(c)'
    BY <1>1, <1>4 DEF OnClient, Waits
  <2>2. Gapless(c) => Gapless(c)'
    BY <1>1, <1>4, <2>1 DEF Gapless
  <2>3. up /\ OnClient(c) => TurnIsDue(c)'
    <3>1. Len(prompts) + 1 \in 1 .. Len(Append(prompts, c))
          /\ Append(prompts, c)[Len(prompts) + 1] = c
      BY <1>2, AppendProperties, LenProperties
    <3> QED
      BY <1>3, <3>1 DEF TurnIsDue
  <2>4. ASSUME call[c].alone, ~ call[c].lagged
        PROVE  OwnTurnOnly(c)' /\ (up /\ OnClient(c) => OwnTurnIsNext(c)')
    <3>1. /\ call'[c].text = <<>> /\ call'[c].inbox = <<>>
          /\ up /\ OnClient(c) => prompts = <<>> /\ turn = Quiet
      BY <1>1, <1>2, <1>4, <2>4 DEF CallIInv
    <3>2. OwnTurnOnly(c)'
      BY <3>1 DEF OwnTurnOnly
    <3>3. up /\ OnClient(c) => OwnTurnIsNext(c)'
      BY <1>1, <1>3, <3>1 DEF OwnTurnIsNext
    <3> QED
      BY <3>2, <3>3
  <2> QED
    BY <1>1, <1>2, <1>4, <2>1, <2>2, <2>3, <2>4 DEF CallIInv
<1>6. ASSUME NEW d \in Calls, d # c
      PROVE  CallIInv(d)' /\ call'[d] \in CallStates
  <2>1. d \in Calls \ {c} /\ CallIInv(d) /\ c \in Calls \cup {Page}
    BY <1>6 DEF TurnsIInv
  <2> QED
    BY <1>1, <1>2, <1>3, <2>1, DisturbedCall
<1>7. TurnsTypeOK'
  <2>1. call'[c] \in CallStates
    BY <1>1, <1>2 DEF CallStates
  <2>2. call' \in [Calls -> CallStates]
    <3>1. call' = [d \in Calls |-> call'[d]]
      BY DEF PostMessage, Disturbed
    <3> QED
      BY <1>6, <2>1, <3>1
  <2>3. prompts' \in Seq(Calls \cup {Page})
    BY <1>2, <1>3, AppendProperties
  <2> QED
    BY <1>1, <1>2, <2>2, <2>3 DEF TurnsTypeOK
<1> QED
  BY <1>1, <1>5, <1>6, <1>7 DEF TurnsIInv


LEMMA PagePostsStep ==
  ASSUME TurnsIInv, PagePosts
  PROVE  TurnsIInv'
<1>1. /\ prompts' = Append(prompts, Page)
      /\ \A d \in Calls : call'[d] = [call[d] EXCEPT !.alone = FALSE]
      /\ call' = [d \in Calls |-> call'[d]]
      /\ UNCHANGED <<up, epoch, lastSeq, turn>>
  BY TurnsAssumption DEF PagePosts, Disturbed
<1>2. prompts \in Seq(Calls \cup {Page}) /\ TurnsTypeOK
  BY DEF TurnsIInv, TurnsTypeOK
<1>3. ASSUME NEW d \in Calls
      PROVE  CallIInv(d)' /\ call'[d] \in CallStates
  <2>1. CallIInv(d) /\ Page \in Calls \cup {Page}
    BY DEF TurnsIInv
  <2> QED
    BY <1>1, <1>2, <2>1, DisturbedCall
<1>4. call' \in [Calls -> CallStates]
  BY <1>1, <1>3
<1>5. prompts' \in Seq(Calls \cup {Page})
  BY <1>1, <1>2, AppendProperties
<1>6. TurnsTypeOK'
  BY <1>1, <1>2, <1>4, <1>5 DEF TurnsTypeOK
<1> QED
  BY <1>1, <1>3, <1>6 DEF TurnsIInv

LEMMA StartTurnStep ==
  ASSUME TurnsIInv, StartTurn
  PROVE  TurnsIInv'
<1>1. /\ up /\ turn = Quiet /\ prompts # <<>>
      /\ turn' = [by |-> Head(prompts), left |-> TurnTexts] /\ prompts' = Tail(prompts)
      /\ UNCHANGED <<up, epoch, lastSeq, call>>
  BY DEF StartTurn
<1>2. /\ prompts \in Seq(Calls \cup {Page}) /\ Head(prompts) \in Calls \cup {Page}
      /\ Tail(prompts) \in Seq(Calls \cup {Page}) /\ TurnsTypeOK
  BY <1>1, HeadTailProperties DEF TurnsIInv, TurnsTypeOK
<1>3. turn'.by # NoTurn /\ turn' # Quiet
  BY <1>1, <1>2, TurnsAssumption DEF Page, NoTurn, Quiet
<1>4. TurnsTypeOK'
  BY <1>1, <1>2, TurnsAssumption DEF TurnsTypeOK
<1>5. ASSUME NEW c \in Calls
      PROVE  CallIInv(c)'
  <2>1. CallIInv(c) /\ call[c] \in CallStates
    BY DEF TurnsIInv, TurnsTypeOK
  <2>2. Waits(c)' = Waits(c) /\ OnClient(c)' = OnClient(c)
    BY <1>1 DEF Waits, OnClient
  <2>3. Gapless(c) => Gapless(c)'
    BY <1>1 DEF Gapless, OnClient
  <2>4. TurnIsDue(c)'
    BY <1>3 DEF TurnIsDue
  <2>5. OwnTurnIsNext(c) => OwnTurnIsNext(c)'
    <3> SUFFICES ASSUME OwnTurnIsNext(c) PROVE OwnTurnIsNext(c)'
      OBVIOUS
    <3>1. prompts = <<c>> /\ call[c].text = <<>> /\ call[c].inbox = <<>>
      BY <1>1, <1>3, TurnsAssumption DEF OwnTurnIsNext, Quiet
    <3>2. Head(prompts) = c /\ Tail(prompts) = <<>>
      BY <3>1
    <3>3. turn'.by = c /\ turn'.left = TurnTexts /\ prompts' = <<>>
      BY <1>1, <3>2
    <3>4. /\ call'[c].inbox = <<>> /\ call'[c].text = <<>>
          /\ Len(<<>>) = 0 /\ 1 .. 0 = {} /\ TurnTexts \in Nat
      BY <1>1, <3>1, TurnsAssumption
    <3>5. turn'.left = TurnTexts - Len(call'[c].text) - Len(call'[c].inbox)
      BY <3>3, <3>4
    <3>6. 1 .. Len(call'[c].inbox) = {}
      BY <3>4
    <3> QED
      BY <3>3, <3>5, <3>6 DEF OwnTurnIsNext
  <2>6. OwnTurnOnly(c) => OwnTurnOnly(c)'
    BY <1>1 DEF OwnTurnOnly
  <2>7. WholeTurn(c) => WholeTurn(c)'
    BY <1>1 DEF WholeTurn
  <2>8. call[c].alone /\ ~ call[c].lagged /\ call[c].step = "subscribed" /\ OnClient(c) => FALSE
    BY <1>1, <2>1 DEF CallIInv
  <2>9. call'[c] = call[c]
    BY <1>1
  <2> QED
    BY <1>1, <2>1, <2>2, <2>3, <2>4, <2>5, <2>6, <2>7, <2>8, <2>9 DEF CallIInv
<1> QED
  BY <1>3, <1>4, <1>5 DEF TurnsIInv

LEMMA DaemonDiesStep ==
  ASSUME TurnsIInv, DaemonDies
  PROVE  TurnsIInv'
<1>1. /\ up' = FALSE /\ prompts' = <<>> /\ turn' = Quiet
      /\ UNCHANGED <<epoch, lastSeq, call>>
  BY DEF DaemonDies
<1>2. TurnsTypeOK'
  <2>1. prompts' \in Seq(Calls \cup {Page})
    BY <1>1
  <2>2. turn' \in [by : Calls \cup {Page, NoTurn}, left : Nat]
    BY <1>1 DEF Quiet
  <2> QED
    BY <1>1, <2>1, <2>2 DEF TurnsIInv, TurnsTypeOK
<1>3. ASSUME NEW c \in Calls
      PROVE  CallIInv(c)'
  <2>1. CallIInv(c) /\ call'[c] = call[c]
    BY <1>1 DEF TurnsIInv
  <2>2. Waits(c)' = Waits(c) /\ OnClient(c)' = OnClient(c)
    BY <1>1 DEF Waits, OnClient
  <2>3. Gapless(c) => Gapless(c)'
    BY <1>1 DEF Gapless, OnClient
  <2>4. OwnTurnOnly(c) => OwnTurnOnly(c)'
    BY <1>1 DEF OwnTurnOnly
  <2>5. WholeTurn(c) => WholeTurn(c)'
    BY <1>1 DEF WholeTurn
  <2> QED
    BY <1>1, <2>1, <2>2, <2>3, <2>4, <2>5 DEF CallIInv
<1> QED
  BY <1>1, <1>2, <1>3 DEF TurnsIInv

LEMMA ResumeSessionStep ==
  ASSUME TurnsIInv, ResumeSession
  PROVE  TurnsIInv'
<1>1. /\ epoch' = epoch + 1 /\ lastSeq' = 0 /\ up' = TRUE
      /\ UNCHANGED <<prompts, turn, call>>
  BY DEF ResumeSession
<1>2. TurnsTypeOK'
  BY <1>1 DEF TurnsIInv, TurnsTypeOK
<1>3. ASSUME NEW c \in Calls
      PROVE  CallIInv(c)'
  <2>1. CallIInv(c) /\ call[c].epoch \in Nat /\ epoch \in Nat
    BY DEF TurnsIInv, TurnsTypeOK, CallStates
  <2> QED
    BY <1>1, <2>1, ClientReplaced
<1> QED
  BY <1>1, <1>2, <1>3 DEF TurnsIInv

LEMMA FailStep ==
  ASSUME TurnsIInv, NEW c \in Calls, Fail(c)
  PROVE  TurnsIInv'
<1>1. /\ call' = [call EXCEPT ![c] = [NoCall EXCEPT !.step = "failed"]]
      /\ UNCHANGED <<up, epoch, lastSeq, prompts, turn>>
  BY DEF Fail
<1>2. call'[c] = [step |-> "failed", epoch |-> 0, base |-> 0, inbox |-> <<>>, lagged |-> FALSE,
                  text |-> <<>>, alone |-> FALSE]
  BY <1>1 DEF NoCall, TurnsIInv, TurnsTypeOK
<1>3. call'[c] \in CallStates
  BY <1>2 DEF CallStates
<1>4. CallIInv(c)'
  BY <1>1, <1>2 DEF CallIInv, Waits, TurnsIInv, TurnsTypeOK
<1>5. ASSUME NEW d \in Calls, d # c
      PROVE  CallIInv(d)'
  <2>1. CallIInv(d) /\ call'[d] = call[d]
    BY <1>1, <1>5 DEF TurnsIInv, TurnsTypeOK
  <2> QED
    BY <1>1, <2>1, SameCall
<1>6. TurnsTypeOK'
  BY <1>1, <1>3 DEF TurnsIInv, TurnsTypeOK
<1> QED
  BY <1>1, <1>4, <1>5, <1>6 DEF TurnsIInv

\* What a call hears of the runner.
LEMMA HeardCall ==
  ASSUME NEW c \in Calls, TurnsIInv, up, NEW word \in {"text", "result"}, NEW event,
         event = [seq |-> lastSeq + 1, by |-> turn.by, kind |-> word, n |-> turn.left],
         lastSeq' = lastSeq + 1, call'[c] = Heard(c, event),
         UNCHANGED <<up, epoch, prompts>>, turn # Quiet,
         word = "text" => turn'.by = turn.by /\ turn'.left = turn.left - 1 /\ turn' # Quiet,
         word = "result" => turn' = Quiet
  PROVE  CallIInv(c)' /\ call'[c] \in CallStates
<1>1. CallIInv(c) /\ call[c] \in CallStates /\ lastSeq \in Nat /\ TurnCap \in Nat \ {0}
      /\ TurnTexts \in Nat /\ turn.left \in Nat /\ turn.by # NoTurn
  BY TurnsAssumption DEF TurnsIInv, TurnsTypeOK
<1>2. event \in TurnEvents /\ event.seq = lastSeq + 1 /\ event.by = turn.by
      /\ event.kind = word /\ event.n = turn.left
  BY <1>1 DEF TurnsIInv, TurnsTypeOK, TurnEvents
<1>3. CASE ~ Waits(c) \/ ~ OnClient(c)
  <2>1. call'[c] = call[c] /\ Waits(c)' = Waits(c) /\ OnClient(c)' = OnClient(c)
    BY <1>3 DEF Heard, Waits, OnClient
  <2>2. ~ OnClient(c) /\ Gapless(c) => Gapless(c)'
    BY <2>1 DEF Gapless
  <2>3. OwnTurnOnly(c) => OwnTurnOnly(c)'
    BY <2>1 DEF OwnTurnOnly
  <2>4. WholeTurn(c) => WholeTurn(c)'
    BY <2>1 DEF WholeTurn
  <2>5. call[c].step \in {"subscribed", "waiting"} => ~ OnClient(c)
    BY <1>3 DEF Waits
  <2> QED
    BY <1>1, <1>3, <2>1, <2>2, <2>3, <2>4, <2>5 DEF CallIInv
<1>4. CASE Waits(c) /\ OnClient(c) /\ Len(call[c].inbox) < TurnCap
  <2> DEFINE inbox == call[c].inbox
             text == call[c].text
  <2>1. call'[c] = [call[c] EXCEPT !.inbox = Append(@, event)]
    BY <1>4 DEF Heard, OnClient
  <2>2. /\ call'[c].step = call[c].step /\ call'[c].epoch = call[c].epoch
        /\ call'[c].base = call[c].base /\ call'[c].text = text
        /\ call'[c].inbox = Append(inbox, event) /\ call'[c].lagged = call[c].lagged
        /\ call'[c].alone = call[c].alone
    BY <1>1, <2>1 DEF CallStates
  <2>3. /\ inbox \in Seq(TurnEvents) /\ Len(inbox) \in Nat /\ Len(text) \in Nat
        /\ call[c].base \in Nat
        /\ Append(inbox, event) \in Seq(TurnEvents)
        /\ Len(Append(inbox, event)) = Len(inbox) + 1
        /\ \A k \in 1 .. Len(inbox) : Append(inbox, event)[k] = inbox[k]
        /\ Append(inbox, event)[Len(inbox) + 1] = event
    BY <1>1, <1>2, AppendProperties, LenProperties DEF CallStates
  <2> HIDE DEF inbox, text
  <2>4. call'[c] \in CallStates
    BY <1>1, <2>1, <2>3 DEF CallStates, inbox
  <2>5. Waits(c)' /\ OnClient(c)'
    BY <1>4, <2>2 DEF Waits, OnClient
  <2>6. PICK n \in Nat, m \in Nat, b \in Nat, longer \in Seq(TurnEvents) :
          /\ n = Len(inbox) /\ m = Len(text) /\ b = call[c].base
          /\ longer = Append(inbox, event)
    BY <2>3
  <2>7. /\ call'[c].base = b /\ call'[c].text = text /\ Len(call'[c].text) = m
        /\ call'[c].inbox = longer /\ Len(call'[c].inbox) = n + 1
        /\ longer[n + 1] = event /\ \A k \in 1 .. n : longer[k] = inbox[k]
    BY <2>2, <2>3, <2>6
  <2>8. OwnTurnIsNext(c) =>
          /\ prompts = <<>> /\ turn.by = c /\ turn.left = TurnTexts - m - n
          /\ \A k \in 1 .. n : inbox[k].kind = "text"
    BY <2>6 DEF OwnTurnIsNext, inbox, text
  <2>9. Gapless(c) => Gapless(c)'
    <3> SUFFICES ASSUME Gapless(c) PROVE Gapless(c)'
      OBVIOUS
    <3>1. /\ \A k \in 1 .. m : text[k].seq = b + k
          /\ \A k \in 1 .. n : inbox[k].seq = b + m + k
          /\ lastSeq = b + m + n
      BY <1>4, <2>6 DEF Gapless, inbox, text
    <3>2. ASSUME NEW k \in 1 .. (n + 1) PROVE longer[k].seq = b + m + k
      <4>1. CASE k \in 1 .. n
        BY <2>7, <3>1, <4>1
      <4>2. CASE k = n + 1
        BY <1>2, <2>7, <3>1, <4>2
      <4> QED
        BY <4>1, <4>2
    <3>3. lastSeq' = b + m + (n + 1)
      BY <3>1
    <3> QED
      BY <2>7, <3>1, <3>2, <3>3 DEF Gapless
  <2>10. TurnIsDue(c)'
    <3>1. CASE word = "text"
      BY <3>1 DEF TurnIsDue
    <3>2. CASE word = "result"
      <4>1. n + 1 \in 1 .. Len(call'[c].inbox) /\ call'[c].inbox[n + 1].kind = "result"
        BY <1>2, <2>7, <3>2
      <4> QED
        BY <4>1 DEF TurnIsDue
    <3> QED
      BY <3>1, <3>2
  <2>11. OwnTurnIsNext(c) => OwnTurnIsNext(c)'
    <3> SUFFICES ASSUME OwnTurnIsNext(c) PROVE OwnTurnIsNext(c)'
      OBVIOUS
    <3>1. CASE word = "text"
      <4>1. \A k \in 1 .. (n + 1) : longer[k].kind = "text"
        BY <1>2, <2>7, <2>8, <3>1
      <4>2. turn'.by = c /\ prompts' = <<>> /\ turn'.left = TurnTexts - m - (n + 1)
        BY <1>1, <2>8, <3>1
      <4> QED
        BY <2>7, <4>1, <4>2 DEF OwnTurnIsNext
    <3>2. CASE word = "result"
      <4>1. prompts' = <<>> /\ turn' = Quiet
        BY <2>8, <3>2
      <4>2. longer # <<>> /\ longer[n + 1].kind = "result"
        BY <1>2, <2>2, <2>3, <2>6, <2>7, <3>2
      <4> QED
        BY <2>7, <4>1, <4>2 DEF OwnTurnIsNext
    <3> QED
      BY <3>1, <3>2
  <2>13. OwnTurnIsNext(c) /\ OwnTurnOnly(c) => OwnTurnOnly(c)'
    <3> SUFFICES ASSUME OwnTurnIsNext(c), OwnTurnOnly(c) PROVE OwnTurnOnly(c)'
      OBVIOUS
    <3>1. /\ \A k \in 1 .. m :
               text[k].by = c /\ text[k].kind = "text" /\ text[k].n = TurnTexts + 1 - k
          /\ \A k \in 1 .. n :
               /\ inbox[k].by = c
               /\ inbox[k].kind = "text" => inbox[k].n = TurnTexts + 1 - (m + k)
      BY <2>6 DEF OwnTurnOnly, inbox, text
    <3>2. event.by = c /\ event.n = TurnTexts + 1 - (m + (n + 1))
      BY <1>1, <1>2, <2>8
    <3>3. ASSUME NEW k \in 1 .. (n + 1)
          PROVE  /\ longer[k].by = c
                 /\ longer[k].kind = "text" => longer[k].n = TurnTexts + 1 - (m + k)
                 /\ longer[k].kind = "result" => k = n + 1
      <4>1. CASE k \in 1 .. n
        BY <2>7, <2>8, <3>1, <4>1
      <4>2. CASE k = n + 1
        BY <2>7, <3>2, <4>2
      <4> QED
        BY <4>1, <4>2
    <3> QED
      BY <2>7, <3>1, <3>3 DEF OwnTurnOnly
  <2>12. call[c].alone /\ ~ call[c].lagged => call[c].step = "waiting"
    BY <1>1, <1>4 DEF CallIInv, Waits
  <2> QED
    BY <1>1, <1>4, <2>2, <2>4, <2>5, <2>9, <2>10, <2>11, <2>12, <2>13 DEF CallIInv
<1>5. CASE Waits(c) /\ OnClient(c) /\ ~ Len(call[c].inbox) < TurnCap
  <2>1. call'[c] = [call[c] EXCEPT !.inbox = Append(Tail(@), event), !.lagged = TRUE]
    BY <1>5 DEF Heard, OnClient
  <2>2. call[c].inbox \in Seq(TurnEvents) /\ call[c].inbox # <<>>
    BY <1>1, <1>5 DEF CallStates
  <2>3. Append(Tail(call[c].inbox), event) \in Seq(TurnEvents)
    BY <1>2, <2>2, HeadTailProperties, AppendProperties
  <2>4. call'[c] \in CallStates /\ call'[c].lagged /\ call'[c].epoch = call[c].epoch
    BY <1>1, <2>1, <2>3 DEF CallStates
  <2> QED
    BY <1>1, <2>4 DEF CallIInv
<1> QED
  BY <1>3, <1>4, <1>5

LEMMA SayTextStep ==
  ASSUME TurnsIInv, SayText
  PROVE  TurnsIInv'
<1> DEFINE event == [seq |-> lastSeq + 1, by |-> turn.by, kind |-> "text", n |-> turn.left]
<1>1. /\ up /\ turn.left > 0 /\ turn' = [turn EXCEPT !.left = @ - 1]
      /\ lastSeq' = lastSeq + 1 /\ call' = [c \in Calls |-> Heard(c, event)]
      /\ UNCHANGED <<up, epoch, prompts>>
  BY DEF SayText, RunnerSays
<1>2. /\ turn \in [by : Calls \cup {Page, NoTurn}, left : Nat] /\ turn # Quiet
      /\ turn.by # NoTurn /\ TurnsTypeOK
  BY <1>1 DEF TurnsIInv, TurnsTypeOK, Quiet
<1>3. /\ turn'.by = turn.by /\ turn'.left = turn.left - 1 /\ turn' # Quiet
      /\ turn' \in [by : Calls \cup {Page, NoTurn}, left : Nat]
  BY <1>1, <1>2 DEF Quiet
<1>4. ASSUME NEW c \in Calls PROVE CallIInv(c)' /\ call'[c] \in CallStates
  <2>1. call'[c] = Heard(c, event)
    BY <1>1
  <2> HIDE DEF event
  <2> QED
    BY <1>1, <1>2, <1>3, <2>1, HeardCall DEF event
<1>5. TurnsTypeOK'
  <2>1. call' \in [Calls -> CallStates]
    BY <1>1, <1>4
  <2> QED
    BY <1>1, <1>2, <1>3, <2>1 DEF TurnsTypeOK
<1> QED
  BY <1>2, <1>3, <1>4, <1>5 DEF TurnsIInv

LEMMA SayResultStep ==
  ASSUME TurnsIInv, SayResult
  PROVE  TurnsIInv'
<1> DEFINE event == [seq |-> lastSeq + 1, by |-> turn.by, kind |-> "result", n |-> turn.left]
<1>1. /\ up /\ turn # Quiet /\ turn' = Quiet
      /\ lastSeq' = lastSeq + 1 /\ call' = [c \in Calls |-> Heard(c, event)]
      /\ UNCHANGED <<up, epoch, prompts>>
  BY DEF SayResult, RunnerSays
<1>2. TurnsTypeOK /\ turn' \in [by : Calls \cup {Page, NoTurn}, left : Nat]
  BY <1>1 DEF TurnsIInv, Quiet
<1>4. ASSUME NEW c \in Calls PROVE CallIInv(c)' /\ call'[c] \in CallStates
  <2>1. call'[c] = Heard(c, event)
    BY <1>1
  <2> HIDE DEF event
  <2> QED
    BY <1>1, <2>1, HeardCall DEF event
<1>5. TurnsTypeOK'
  <2>1. call' \in [Calls -> CallStates]
    BY <1>1, <1>4
  <2> QED
    BY <1>1, <1>2, <2>1 DEF TurnsTypeOK
<1> QED
  BY <1>1, <1>4, <1>5 DEF TurnsIInv

LEMMA ReceiveStep ==
  ASSUME TurnsIInv, NEW c \in Calls, Receive(c)
  PROVE  TurnsIInv'
<1> DEFINE inbox == call[c].inbox
           text == call[c].text
           e == Head(inbox)
           rest == [call[c] EXCEPT !.inbox = Tail(@)]
           late == e.seq <= call[c].base
<1>1. /\ call[c].step = "waiting" /\ inbox # <<>>
      /\ UNCHANGED <<up, epoch, lastSeq, prompts, turn>>
      /\ \A d \in Calls \ {c} : call'[d] = call[d]
      /\ call' = [d \in Calls |-> call'[d]]
  <2>1. PICK next : call' = [call EXCEPT ![c] = next]
    BY DEF Receive
  <2> QED
    BY <2>1 DEF Receive, TurnsIInv, TurnsTypeOK
<1>2. CallIInv(c) /\ call[c] \in CallStates /\ TurnsTypeOK /\ TurnTexts \in Nat
  BY TurnsAssumption DEF TurnsIInv, TurnsTypeOK
<1>3. /\ inbox \in Seq(TurnEvents) /\ text \in Seq(TurnEvents) /\ call[c].base \in Nat
      /\ e \in TurnEvents /\ Tail(inbox) \in Seq(TurnEvents) /\ Len(Tail(inbox)) = Len(inbox) - 1
      /\ e = inbox[1] /\ Len(inbox) \in Nat \ {0} /\ Len(text) \in Nat
      /\ \A k \in 1 .. Len(Tail(inbox)) : k + 1 \in 1 .. Len(inbox) /\ Tail(inbox)[k] = inbox[k + 1]
  BY <1>1, <1>2, HeadTailProperties, LenProperties DEF CallStates
<1>4. /\ Append(text, e) \in Seq(TurnEvents) /\ Len(Append(text, e)) = Len(text) + 1
      /\ \A k \in 1 .. Len(text) : Append(text, e)[k] = text[k]
      /\ Append(text, e)[Len(text) + 1] = e
      /\ \A k \in 1 .. Len(Append(text, e)) : k \in 1 .. Len(text) \/ k = Len(text) + 1
  BY <1>3, AppendProperties, LenProperties
<1>5. /\ late => call'[c] = rest
      /\ ~ late /\ e.kind = "text" => call'[c] = [rest EXCEPT !.text = Append(@, e)]
      /\ ~ late /\ e.kind = "result" =>
           call'[c] = [rest EXCEPT !.step = "answered", !.text = Append(@, e), !.inbox = <<>>]
  <2>1. /\ late => call' = [call EXCEPT ![c] = rest]
        /\ ~ late /\ e.kind = "text" =>
             call' = [call EXCEPT ![c] = [rest EXCEPT !.text = Append(@, e)]]
        /\ ~ late /\ e.kind = "result" =>
             call' = [call EXCEPT ![c] =
                       [rest EXCEPT !.step = "answered", !.text = Append(@, e), !.inbox = <<>>]]
    <3>1. call' = [call EXCEPT ![c] =
                CASE late -> rest
                  [] e.seq > call[c].base /\ e.kind = "text" -> [rest EXCEPT !.text = Append(@, e)]
                  [] OTHER -> [rest EXCEPT !.step = "answered", !.text = Append(@, e),
                                           !.inbox = <<>>]]
      BY DEF Receive
    <3>5. late <=> ~ (e.seq > call[c].base)
      <4>1. e.seq \in Nat /\ call[c].base \in Nat
        BY <1>3 DEF TurnEvents
      <4> QED
        BY <4>1
    <3> HIDE DEF e, late, rest
    <3>2. late => call' = [call EXCEPT ![c] = rest]
      BY <3>1, <3>5
    <3>3. ASSUME ~ late, e.kind = "text"
          PROVE  call' = [call EXCEPT ![c] = [rest EXCEPT !.text = Append(@, e)]]
      BY <3>1, <3>3, <3>5
    <3>4. ASSUME ~ late, e.kind = "result"
          PROVE  call' = [call EXCEPT ![c] =
                       [rest EXCEPT !.step = "answered", !.text = Append(@, e), !.inbox = <<>>]]
      BY <3>1, <3>4, <3>5
    <3> QED
      BY <3>2, <3>3, <3>4
  <2> HIDE DEF e, late, rest
  <2> QED
    BY <1>2, <2>1 DEF TurnsTypeOK
<1>6. e.kind \in {"text", "result"} /\ e.seq \in Nat /\ e.by \in Calls \cup {Page, NoTurn}
  BY <1>3 DEF TurnEvents
<1> HIDE DEF inbox, text, e, late
<1>7. call'[c] \in CallStates /\ call'[c].lagged = call[c].lagged
      /\ call'[c].epoch = call[c].epoch
  <2>1. rest \in CallStates /\ rest.text = text /\ rest.lagged = call[c].lagged
        /\ rest.epoch = call[c].epoch
    BY <1>2, <1>3 DEF CallStates, inbox, text
  <2> HIDE DEF rest
  <2>2. <<>> \in Seq(TurnEvents)
    OBVIOUS
  <2>3. CASE late
    BY <1>5, <2>1, <2>3
  <2>4. CASE ~ late /\ e.kind = "text"
    BY <1>4, <1>5, <2>1, <2>4 DEF CallStates
  <2>5. CASE ~ late /\ e.kind = "result"
    BY <1>4, <1>5, <2>1, <2>2, <2>5 DEF CallStates
  <2> QED
    BY <1>6, <2>3, <2>4, <2>5
<1>8. ASSUME ~ call[c].lagged
      PROVE  CallIInv(c)'
  <2>1. PICK n \in Nat, m \in Nat, b \in Nat,
             tail \in Seq(TurnEvents), got \in Seq(TurnEvents) :
          /\ n + 1 = Len(inbox) /\ m = Len(text) /\ b = call[c].base
          /\ tail = Tail(inbox) /\ got = Append(text, e)
    <3>1. PICK n \in Nat : n + 1 = Len(inbox)
      <4>1. Len(inbox) - 1 \in Nat /\ (Len(inbox) - 1) + 1 = Len(inbox)
        BY <1>3
      <4> QED
        BY <4>1
    <3>2. PICK m \in Nat, b \in Nat : m = Len(text) /\ b = call[c].base
      BY <1>3
    <3>3. PICK tail \in Seq(TurnEvents), got \in Seq(TurnEvents) :
            tail = Tail(inbox) /\ got = Append(text, e)
      BY <1>3, <1>4
    <3> QED
      BY <3>1, <3>2, <3>3
  <2>2. /\ Len(tail) = n /\ \A k \in 1 .. n : tail[k] = inbox[k + 1]
        /\ Len(got) = m + 1 /\ got[m + 1] = e /\ \A k \in 1 .. m : got[k] = text[k]
        /\ e = inbox[1]
    <3>1. Len(tail) = n /\ e = inbox[1]
      <4>1. Len(Tail(inbox)) = Len(inbox) - 1 /\ e = inbox[1]
        BY <1>3
      <4>2. Len(inbox) - 1 = n
        BY <2>1
      <4> QED
        BY <2>1, <4>1, <4>2
    <3>2. 1 .. n = 1 .. Len(Tail(inbox)) /\ 1 .. m = 1 .. Len(text)
      BY <2>1, <3>1
    <3>3. \A k \in 1 .. n : tail[k] = inbox[k + 1]
      BY <1>3, <2>1, <3>2
    <3>4. \A k \in 1 .. m : got[k] = text[k]
      BY <1>4, <2>1, <3>2
    <3>5. Len(got) = m + 1 /\ got[m + 1] = e
      BY <1>4, <2>1
    <3> QED
      BY <3>1, <3>3, <3>4, <3>5
  <2>3. Gapless(c)
    BY <1>1, <1>2, <1>8 DEF CallIInv, Waits
  <2>4. /\ \A k \in 1 .. m : text[k].seq = b + k
        /\ \A k \in 1 .. (n + 1) : inbox[k].seq = b + m + k
        /\ OnClient(c) => lastSeq = b + m + (n + 1)
    BY <2>1, <2>3 DEF Gapless, inbox, text
  <2>5. e.seq = b + m + 1 /\ ~ late
    <3>1. e.seq = b + m + 1
      BY <2>2, <2>4
    <3> QED
      BY <2>1, <3>1 DEF late
  <2>6. call[c].alone => OwnTurnOnly(c)
    BY <1>1, <1>2, <1>8 DEF CallIInv
  <2>7. call[c].alone =>
        /\ \A k \in 1 .. m :
             text[k].by = c /\ text[k].kind = "text" /\ text[k].n = TurnTexts + 1 - k
        /\ \A k \in 1 .. (n + 1) :
             /\ inbox[k].by = c
             /\ inbox[k].kind = "text" => inbox[k].n = TurnTexts + 1 - (m + k)
             /\ inbox[k].kind = "result" => k = n + 1
    BY <2>1, <2>6 DEF OwnTurnOnly, inbox, text
  <2>8. CASE e.kind = "text"
    <3>1. /\ call'[c].step = "waiting" /\ call'[c].base = b
          /\ call'[c].inbox = tail /\ call'[c].text = got
          /\ call'[c].alone = call[c].alone
      BY <1>1, <1>2, <1>5, <2>1, <2>5, <2>8 DEF CallStates, inbox, text
    <3>2. OnClient(c)' = OnClient(c)
      BY <1>1, <1>7 DEF OnClient
    <3>3. Gapless(c)'
      <4>1. ASSUME NEW k \in 1 .. (m + 1) PROVE got[k].seq = b + k
        <5>1. CASE k \in 1 .. m
          BY <2>2, <2>4, <5>1
        <5>2. CASE k = m + 1
          BY <2>2, <2>5, <5>2
        <5> QED
          BY <5>1, <5>2
      <4>2. ASSUME NEW k \in 1 .. n PROVE tail[k].seq = b + (m + 1) + k
        <5>1. k + 1 \in 1 .. (n + 1) /\ tail[k] = inbox[k + 1]
          BY <2>2
        <5>2. inbox[k + 1].seq = b + m + (k + 1)
          BY <2>4, <5>1
        <5> QED
          BY <5>1, <5>2
      <4>3. OnClient(c) => lastSeq = b + (m + 1) + n
        BY <2>4
      <4> QED
        BY <1>1, <2>2, <3>1, <3>2, <4>1, <4>2, <4>3 DEF Gapless
    <3>4. TurnIsDue(c) => TurnIsDue(c)'
      <4>1. ASSUME NEW i \in 1 .. (n + 1), inbox[i].kind = "result"
            PROVE  i - 1 \in 1 .. n /\ tail[i - 1].kind = "result"
        <5>1. i # 1
          BY <2>2, <2>8, <4>1
        <5>2. PICK j \in 1 .. n : i = j + 1
          <6>1. i - 1 \in 1 .. n /\ i = (i - 1) + 1
            BY <5>1
          <6> QED
            BY <6>1
        <5>3. i - 1 = j /\ tail[j] = inbox[j + 1]
          BY <2>2, <5>2
        <5> QED
          BY <4>1, <5>2, <5>3
      <4>2. (\E i \in 1 .. (n + 1) : inbox[i].kind = "result") =>
              \E i \in 1 .. n : tail[i].kind = "result"
        BY <4>1
      <4> QED
        BY <1>1, <2>1, <2>2, <3>1, <4>2 DEF TurnIsDue, inbox
    <3>5. call[c].alone => OwnTurnOnly(c)'
      <4> SUFFICES ASSUME call[c].alone PROVE OwnTurnOnly(c)'
        OBVIOUS
      <4>1. e.by = c /\ e.n = TurnTexts + 1 - (m + 1)
        BY <2>2, <2>7, <2>8
      <4>2. ASSUME NEW k \in 1 .. (m + 1)
            PROVE  got[k].by = c /\ got[k].kind = "text" /\ got[k].n = TurnTexts + 1 - k
        <5>1. CASE k \in 1 .. m
          BY <2>2, <2>7, <5>1
        <5>2. CASE k = m + 1
          BY <2>2, <2>8, <4>1, <5>2
        <5> QED
          BY <5>1, <5>2
      <4>3. ASSUME NEW k \in 1 .. n
            PROVE  /\ tail[k].by = c
                   /\ tail[k].kind = "text" => tail[k].n = TurnTexts + 1 - ((m + 1) + k)
                   /\ tail[k].kind = "result" => k = n
        <5>1. k + 1 \in 1 .. (n + 1) /\ tail[k] = inbox[k + 1]
          BY <2>2
        <5>2. m + (k + 1) = (m + 1) + k /\ (k + 1 = n + 1 => k = n)
          OBVIOUS
        <5> QED
          BY <2>7, <5>1, <5>2
      <4> QED
        <5>1. \A k \in 1 .. Len(got) :
                got[k].by = c /\ got[k].kind = "text" /\ got[k].n = TurnTexts + 1 - k
          BY <2>2, <4>2
        <5>2. \A k \in 1 .. Len(tail) :
                /\ tail[k].by = c
                /\ tail[k].kind = "text" => tail[k].n = TurnTexts + 1 - (Len(got) + k)
                /\ tail[k].kind = "result" => k = Len(tail)
          BY <2>2, <4>3
        <5> QED
          BY <3>1, <5>1, <5>2 DEF OwnTurnOnly
    <3>6. OwnTurnIsNext(c) => OwnTurnIsNext(c)'
      <4> SUFFICES ASSUME OwnTurnIsNext(c) PROVE OwnTurnIsNext(c)'
        OBVIOUS
      <4>1. CASE /\ prompts = <<>>
                 /\ turn.by = c /\ turn.left = TurnTexts - m - (n + 1)
                 /\ \A k \in 1 .. (n + 1) : inbox[k].kind = "text"
        <5>1. turn.left = TurnTexts - (m + 1) - n
          BY <1>2, <4>1
        <5>2. \A k \in 1 .. n : tail[k].kind = "text"
          BY <2>2, <4>1
        <5> QED
          BY <1>1, <2>2, <3>1, <4>1, <5>1, <5>2 DEF OwnTurnIsNext
      <4>2. CASE prompts = <<>> /\ turn = Quiet /\ inbox[n + 1].kind = "result"
        <5>1. n \in 1 .. n
          BY <2>2, <2>8, <4>2
        <5>2. tail # <<>> /\ tail[n].kind = "result"
          BY <2>2, <4>2, <5>1
        <5> QED
          BY <1>1, <2>2, <3>1, <4>2, <5>2 DEF OwnTurnIsNext
      <4> QED
        BY <1>1, <2>1, <4>1, <4>2 DEF OwnTurnIsNext, inbox, text
    <3> QED
      BY <1>1, <1>2, <1>7, <1>8, <3>1, <3>2, <3>3, <3>4, <3>5, <3>6 DEF CallIInv
  <2>9. CASE e.kind = "result"
    <3>1. /\ call'[c].step = "answered" /\ call'[c].alone = call[c].alone
          /\ call'[c].text = got
      BY <1>2, <1>5, <2>1, <2>5, <2>9 DEF CallStates, text
    <3>2. call[c].alone => WholeTurn(c)'
      <4> SUFFICES ASSUME call[c].alone PROVE WholeTurn(c)'
        OBVIOUS
      <4>1. e.by = c
        BY <2>2, <2>7
      <4>2. ASSUME NEW k \in 1 .. (m + 1)
            PROVE  got[k].by = c /\ (got[k].kind = "text" <=> k < m + 1)
        <5>1. CASE k \in 1 .. m
          <6>1. got[k] = text[k] /\ text[k].by = c /\ text[k].kind = "text"
            BY <2>2, <2>7, <5>1
          <6>2. k < m + 1
            BY <5>1
          <6> QED
            BY <6>1, <6>2
        <5>2. CASE k = m + 1
          BY <2>2, <2>9, <4>1, <5>2
        <5> QED
          BY <5>1, <5>2
      <4>3. ASSUME NEW k \in 1 .. m PROVE got[k].n = TurnTexts + 1 - k
        BY <2>2, <2>7
      <4>4. (m + 1) - 1 = m
        OBVIOUS
      <4> QED
        BY <2>2, <3>1, <4>2, <4>3, <4>4 DEF WholeTurn
    <3>3. ~ Waits(c)'
      BY <3>1 DEF Waits
    <3> QED
      BY <1>1, <1>2, <1>7, <3>1, <3>2, <3>3 DEF CallIInv
  <2> QED
    BY <1>6, <2>8, <2>9
<1>9. CallIInv(c)'
  <2>1. CASE call[c].lagged
    BY <1>1, <1>2, <1>7, <2>1 DEF CallIInv
  <2> QED
    BY <1>8, <2>1
<1>10. ASSUME NEW d \in Calls, d # c PROVE CallIInv(d)' /\ call'[d] \in CallStates
  <2>1. CallIInv(d) /\ call'[d] = call[d] /\ call[d] \in CallStates
    BY <1>1, <1>10 DEF TurnsIInv, TurnsTypeOK
  <2> QED
    BY <1>1, <2>1, SameCall
<1>11. call' \in [Calls -> CallStates]
  BY <1>1, <1>7, <1>10
<1>12. TurnsTypeOK'
  BY <1>1, <1>2, <1>11 DEF TurnsTypeOK
<1> QED
  BY <1>1, <1>9, <1>10, <1>12 DEF TurnsIInv

LEMMA TurnsStep == TurnsIInv /\ [TurnsNext]_turnVars => TurnsIInv'
<1> SUFFICES ASSUME TurnsIInv, [TurnsNext]_turnVars PROVE TurnsIInv'
  OBVIOUS
<1>1. CASE UNCHANGED turnVars
  <2>1. UNCHANGED <<up, epoch, lastSeq, prompts, turn, call>>
    BY <1>1 DEF turnVars
  <2>2. \A c \in Calls : CallIInv(c)'
    BY <2>1, SameCall DEF TurnsIInv
  <2> QED
    BY <2>1, <2>2 DEF TurnsIInv, TurnsTypeOK
<1> QED
  BY <1>1, SubscribeStep, PostMessageStep, ReceiveStep, FailStep, PagePostsStep, StartTurnStep,
     SayTextStep, SayResultStep, DaemonDiesStep, ResumeSessionStep DEF TurnsNext

\* A call of a tool gets the answer to its own message when it had the session for
\* itself, the whole of it and in order; it gathers what was said without a gap; and it
\* never waits for a runner that has nothing left to say (mcp/chat.rs).
THEOREM TurnsCorrect == Spec => []TurnsInv
<1>1. Init => TurnsIInv
  BY TurnsInitially DEF Init
<1>2. TurnsIInv /\ [Next]_vars => TurnsIInv'
  BY TurnsStep DEF Next, vars, OfModes, OfActivity, OfLogin, OfTurns, OfLife
<1> QED
  BY <1>1, <1>2, TurnsImplied, PTL DEF Spec

-----------------------------------------------------------------------------
(* Login *)

Attempts == [peer : Peers, at : Nat, admitted : BOOLEAN, life : Nat]

LoginTypeOK ==
  /\ clock \in Nat
  /\ life \in Nat
  /\ attempts \in Seq(Attempts)
  /\ \A j \in DOMAIN attempts : attempts[j].at <= clock /\ attempts[j].life <= life
  /\ DOMAIN entries \subseteq Peers
  /\ \A p \in DOMAIN entries :
       entries[p] \in [since : Nat, count : Nat \ {0}] /\ entries[p].since <= clock

\* The attempts that were let through in the window that p's entry counts.
InWindow(p) ==
  {j \in DOMAIN attempts :
     /\ attempts[j].peer = p /\ attempts[j].life = life /\ attempts[j].admitted
     /\ attempts[j].at >= entries[p].since}

\* An entry counts what was let through since its window began, with an attempt right
\* then; whatever was let through before leaves room for a whole window.
EntryCounts(p) ==
  /\ \A j \in DOMAIN attempts :
       attempts[j].peer = p /\ attempts[j].life = life =>
         attempts[j].at <= entries[p].since + Window
  /\ \E j \in InWindow(p) : attempts[j].at = entries[p].since
  /\ Cardinality(InWindow(p)) = IF entries[p].count <= Limit THEN entries[p].count ELSE Limit
  /\ \A from \in Nat :
       from + Window >= entries[p].since =>
         Cardinality(AdmittedIn(p, life, from, entries[p].since - 1)) < Limit

NobodyCounted(p) ==
  \A j \in DOMAIN attempts : ~ (attempts[j].peer = p /\ attempts[j].life = life)

LimitAlways ==
  \A p \in Peers, l \in Nat, from \in Nat :
    Cardinality(AdmittedIn(p, l, from, from + Window)) < 2 * Limit

IdsAreUsedUp == DOMAIN logins \cup ended \subseteq DOMAIN attempts

LoginIInv ==
  /\ LoginTypeOK
  /\ \A p \in Peers : IF p \in DOMAIN entries THEN EntryCounts(p) ELSE NobodyCounted(p)
  /\ LimitAlways
  /\ RefusedWithCause
  /\ IdsAreUsedUp
  /\ EndedForGood

LEMMA LoginInitially == LoginInit => LoginIInv
<1> SUFFICES ASSUME LoginInit PROVE LoginIInv
  OBVIOUS
<1>1. /\ clock = 0 /\ life = 0 /\ DOMAIN attempts = {} /\ DOMAIN entries = {}
      /\ DOMAIN logins = {} /\ ended = {} /\ attempts \in Seq(Attempts)
  BY DEF LoginInit
<1>2. LoginTypeOK /\ RefusedWithCause /\ IdsAreUsedUp /\ EndedForGood
  BY <1>1 DEF LoginTypeOK, RefusedWithCause, IdsAreUsedUp, EndedForGood
<1>3. \A p \in Peers : p \notin DOMAIN entries /\ NobodyCounted(p)
  BY <1>1 DEF NobodyCounted
<1>4. LimitAlways
  <2>1. \A p \in Peers, l \in Nat, from \in Nat : AdmittedIn(p, l, from, from + Window) = {}
    BY <1>1 DEF AdmittedIn
  <2>2. Cardinality({}) = 0 /\ 0 < 2 * Limit
    BY FS_EmptySet, LoginAssumption
  <2> QED
    BY <2>1, <2>2 DEF LimitAlways
<1> QED
  BY <1>2, <1>3, <1>4 DEF LoginIInv

LEMMA LoginImplied == LoginIInv => LoginInv
<1> SUFFICES ASSUME LoginIInv PROVE LoginInv
  OBVIOUS
<1>1. LimitHolds
  BY LoginAssumption DEF LoginIInv, LoginTypeOK, LimitAlways, LimitHolds
<1> QED
  BY <1>1 DEF LoginIInv, LoginInv

\* The attempts are finitely many.
LEMMA AttemptsFinite ==
  ASSUME attempts \in Seq(Attempts)
  PROVE  /\ \A p, l, from, to :
              /\ IsFiniteSet(AdmittedIn(p, l, from, to))
              /\ Cardinality(AdmittedIn(p, l, from, to)) \in Nat
         /\ \A p : IsFiniteSet(InWindow(p)) /\ Cardinality(InWindow(p)) \in Nat
<1>1. IsFiniteSet(DOMAIN attempts)
  <2>1. DOMAIN attempts = 1 .. Len(attempts) /\ Len(attempts) \in Nat
    BY LenProperties
  <2> QED
    BY <2>1, FS_Interval
<1>2. ASSUME NEW s \in SUBSET DOMAIN attempts PROVE IsFiniteSet(s) /\ Cardinality(s) \in Nat
  BY <1>1, FS_Subset, FS_CardinalityType
<1>3. \A p, l, from, to : AdmittedIn(p, l, from, to) \in SUBSET DOMAIN attempts
  BY DEF AdmittedIn
<1>4. \A p : InWindow(p) \in SUBSET DOMAIN attempts
  BY DEF InWindow
<1> QED
  BY <1>2, <1>3, <1>4

\* The steps that leave the attempts and the counts alone.
LEMMA CountsKept ==
  ASSUME LoginIInv, UNCHANGED <<entries, attempts, life>>, clock' \in Nat, clock <= clock'
  PROVE  /\ LoginTypeOK' /\ LimitAlways' /\ RefusedWithCause'
         /\ \A p \in Peers : IF p \in DOMAIN entries' THEN EntryCounts(p)' ELSE NobodyCounted(p)'
<1>1. LoginTypeOK'
  <2>1. PICK n \in Nat : clock' = n
    OBVIOUS
  <2>2. \A j \in DOMAIN attempts : attempts[j].at \in Nat
    <3>1. \A j \in DOMAIN attempts : attempts[j] \in Attempts
      BY DEF LoginIInv, LoginTypeOK
    <3> QED
      BY <3>1 DEF Attempts
  <2>3. clock \in Nat /\ clock <= n
    BY <2>1 DEF LoginIInv, LoginTypeOK
  <2>4. \A j \in DOMAIN attempts : attempts[j].at <= n
    BY <2>2, <2>3 DEF LoginIInv, LoginTypeOK
  <2>5. \A p \in DOMAIN entries : entries[p].since <= n
    BY <2>3 DEF LoginIInv, LoginTypeOK
  <2> QED
    BY <2>1, <2>4, <2>5 DEF LoginIInv, LoginTypeOK
<1>2. \A p, l, from, to : AdmittedIn(p, l, from, to)' = AdmittedIn(p, l, from, to)
  BY DEF AdmittedIn
<1>3. \A p : InWindow(p)' = InWindow(p)
  BY DEF InWindow
<1>4. LimitAlways'
  BY <1>2 DEF LimitAlways, LoginIInv
<1>5. RefusedWithCause'
  BY <1>2 DEF RefusedWithCause, LoginIInv
<1>6. \A p \in Peers : EntryCounts(p) => EntryCounts(p)'
  BY <1>2, <1>3 DEF EntryCounts
<1>7. \A p \in Peers : NobodyCounted(p) => NobodyCounted(p)'
  BY DEF NobodyCounted
<1> QED
  BY <1>1, <1>4, <1>5, <1>6, <1>7 DEF LoginIInv

LEMMA SessionSteps ==
  ASSUME LoginIInv, NEW id \in DOMAIN logins, Uses(id) \/ LogsOut(id)
  PROVE  LoginIInv'
<1>1. /\ logins' = [i \in DOMAIN logins \ {id} |-> logins[i]] /\ ended' = ended \cup {id}
      /\ UNCHANGED <<clock, entries, attempts, life>>
  BY DEF Uses, LogsOut, Dropped
<1>2. EndedForGood' /\ IdsAreUsedUp'
  BY <1>1 DEF LoginIInv, EndedForGood, IdsAreUsedUp
<1>3. clock' \in Nat /\ clock <= clock'
  BY <1>1 DEF LoginIInv, LoginTypeOK
<1> QED
  BY <1>1, <1>2, <1>3, CountsKept DEF LoginIInv

LEMMA TickLoginStep == LoginIInv /\ TickLogin => LoginIInv'
<1> SUFFICES ASSUME LoginIInv, TickLogin PROVE LoginIInv'
  OBVIOUS
<1>1. clock' \in Nat /\ clock <= clock' /\ UNCHANGED <<entries, logins, attempts, life, ended>>
  BY DEF TickLogin, LoginIInv, LoginTypeOK
<1>2. EndedForGood' /\ IdsAreUsedUp'
  BY <1>1 DEF LoginIInv, EndedForGood, IdsAreUsedUp
<1> QED
  BY <1>1, <1>2, CountsKept DEF LoginIInv

LEMMA RestartsStep == LoginIInv /\ Restarts => LoginIInv'
<1> SUFFICES ASSUME LoginIInv, Restarts PROVE LoginIInv'
  OBVIOUS
<1>1. /\ logins' = <<>> /\ entries' = <<>> /\ life' = life + 1
      /\ ended' = ended \cup DOMAIN logins /\ UNCHANGED <<clock, attempts>>
  BY DEF Restarts
<1>2. DOMAIN logins' = {} /\ DOMAIN entries' = {}
  BY <1>1
<1>3. \A j \in DOMAIN attempts : attempts[j] \in Attempts
  BY DEF LoginIInv, LoginTypeOK
<1>4. LoginTypeOK'
  <2>1. life \in Nat /\ life' \in Nat
    BY <1>1 DEF LoginIInv, LoginTypeOK
  <2>2. \A j \in DOMAIN attempts : attempts[j].life <= life + 1
    BY <1>3, <2>1 DEF LoginIInv, LoginTypeOK, Attempts
  <2> QED
    BY <1>1, <1>2, <2>1, <2>2 DEF LoginIInv, LoginTypeOK
<1>5. \A p, l, from, to : AdmittedIn(p, l, from, to)' = AdmittedIn(p, l, from, to)
  BY <1>1 DEF AdmittedIn
<1>6. LimitAlways' /\ RefusedWithCause'
  BY <1>1, <1>5 DEF LimitAlways, RefusedWithCause, LoginIInv
<1>7. \A p \in Peers : NobodyCounted(p)'
  <2>1. \A j \in DOMAIN attempts : attempts[j].life # life + 1
    BY <1>3 DEF LoginIInv, LoginTypeOK, Attempts
  <2> QED
    BY <1>1, <2>1 DEF NobodyCounted
<1>8. EndedForGood' /\ IdsAreUsedUp'
  BY <1>1, <1>2 DEF LoginIInv, EndedForGood, IdsAreUsedUp
<1> QED
  BY <1>2, <1>4, <1>6, <1>7, <1>8 DEF LoginIInv

LEMMA SubmitsStep ==
  ASSUME LoginIInv, NEW peer \in Peers, NEW right \in BOOLEAN, Submits(peer, right)
  PROVE  LoginIInv'
<1> DEFINE e   == Counted(peer)
           id  == Len(attempts) + 1
           new == [peer |-> peer, at |-> clock, admitted |-> e.count <= Limit, life |-> life]
           fresh == peer \notin DOMAIN entries \/ clock - entries[peer].since > Window
<1>1. /\ entries' = [p \in DOMAIN entries \cup {peer} |-> IF p = peer THEN e ELSE entries[p]]
      /\ attempts' = Append(attempts, new)
      /\ IF e.count <= Limit /\ right
         THEN logins' = [i \in DOMAIN logins \cup {id} |->
                           IF i = id THEN clock + Lifetime ELSE logins[i]]
         ELSE logins' = logins
      /\ UNCHANGED <<clock, life, ended>>
  BY DEF Submits
<1>2. /\ clock \in Nat /\ life \in Nat /\ attempts \in Seq(Attempts)
      /\ Limit \in Nat \ {0} /\ Window \in Nat /\ Lifetime \in Nat \ {0}
  BY LoginAssumption DEF LoginIInv, LoginTypeOK
<1>3. /\ fresh => e = [since |-> clock, count |-> 1]
      /\ ~ fresh => e = [entries[peer] EXCEPT !.count = @ + 1]
  BY DEF Counted
<1>4. ASSUME ~ fresh
      PROVE  /\ peer \in DOMAIN entries /\ EntryCounts(peer)
             /\ entries[peer] \in [since : Nat, count : Nat \ {0}]
             /\ entries[peer].since <= clock
             /\ clock <= entries[peer].since + Window
  <2>1. peer \in DOMAIN entries /\ EntryCounts(peer)
        /\ entries[peer] \in [since : Nat, count : Nat \ {0}] /\ entries[peer].since <= clock
        /\ ~ (clock - entries[peer].since > Window)
    BY <1>4 DEF LoginIInv, LoginTypeOK
  <2> QED
    BY <1>2, <2>1
<1>5. DOMAIN entries' = DOMAIN entries \cup {peer} /\ entries'[peer] = e
      /\ \A p \in DOMAIN entries \ {peer} : entries'[p] = entries[p]
  BY <1>1
<1> HIDE DEF e
<1>6. new \in Attempts /\ new.peer = peer /\ new.at = clock /\ new.life = life
      /\ (new.admitted <=> e.count <= Limit)
  <2>1. (e.count <= Limit) \in BOOLEAN
    OBVIOUS
  <2>2. new.admitted = (e.count <= Limit)
    OBVIOUS
  <2>3. new \in Attempts
    BY <1>2, <2>1 DEF Attempts
  <2> QED
    BY <2>2, <2>3
<1> HIDE DEF new
<1>7. /\ DOMAIN attempts' = DOMAIN attempts \cup {id} /\ id \notin DOMAIN attempts
      /\ attempts'[id] = new /\ attempts' \in Seq(Attempts)
      /\ \A j \in DOMAIN attempts : attempts'[j] = attempts[j] /\ attempts[j] \in Attempts
                                    /\ attempts[j].at <= clock /\ attempts[j].life <= life
  <2>1. DOMAIN attempts = 1 .. Len(attempts) /\ Len(attempts) \in Nat
    BY <1>2, LenProperties
  <2>2. DOMAIN attempts' = 1 .. (Len(attempts) + 1)
    BY <1>1, <1>2, <1>6, <2>1, AppendProperties, LenProperties
  <2>3. DOMAIN attempts' = DOMAIN attempts \cup {id} /\ id \notin DOMAIN attempts
    BY <2>1, <2>2
  <2>4. attempts'[id] = new /\ attempts' \in Seq(Attempts)
        /\ \A j \in 1 .. Len(attempts) : attempts'[j] = attempts[j]
    BY <1>1, <1>2, <1>6, AppendProperties
  <2>5. \A j \in DOMAIN attempts : attempts[j] \in Attempts
    BY <1>2
  <2> QED
    BY <2>1, <2>3, <2>4, <2>5 DEF LoginIInv, LoginTypeOK
<1> HIDE DEF id
<1>8. ASSUME NEW q, NEW l, NEW from, NEW to
      PROVE  AdmittedIn(q, l, from, to)' =
               AdmittedIn(q, l, from, to) \cup
                 (IF q = peer /\ l = life /\ new.admitted /\ clock \in from .. to
                  THEN {id} ELSE {})
  BY <1>6, <1>7 DEF AdmittedIn
<1>9. /\ \A q, l, from, to : /\ IsFiniteSet(AdmittedIn(q, l, from, to))
                             /\ Cardinality(AdmittedIn(q, l, from, to)) \in Nat
      /\ IsFiniteSet(InWindow(peer)) /\ Cardinality(InWindow(peer)) \in Nat
      /\ \A q, l, from, to : id \notin AdmittedIn(q, l, from, to)
      /\ id \notin InWindow(peer)
  BY <1>2, <1>7, AttemptsFinite DEF AdmittedIn, InWindow
\* Where a new window begins, the old one leaves room for it.
<1>10. ASSUME fresh, NEW from \in Nat, NEW to, from + Window >= clock
       PROVE  Cardinality(AdmittedIn(peer, life, from, to)) < Limit
  <2>1. CASE peer \notin DOMAIN entries
    <3>1. NobodyCounted(peer)
      BY <2>1 DEF LoginIInv
    <3>2. AdmittedIn(peer, life, from, to) = {}
      BY <3>1 DEF NobodyCounted, AdmittedIn
    <3>3. Cardinality({}) = 0
      BY FS_EmptySet
    <3> QED
      BY <1>2, <3>2, <3>3
  <2>2. CASE peer \in DOMAIN entries
    <3> DEFINE since == entries[peer].since
    <3>1. EntryCounts(peer) /\ since \in Nat /\ clock - since > Window
          /\ entries[peer].count \in Nat
      BY <1>10, <2>2 DEF LoginIInv, LoginTypeOK
    <3> HIDE DEF since
    <3>2. PICK f \in InWindow(peer) : attempts[f].at = since
      BY <3>1 DEF EntryCounts, since
    <3>3. from > since
      BY <1>2, <1>10, <3>1
    <3>4. ASSUME NEW j \in AdmittedIn(peer, life, from, to)
          PROVE  j \in InWindow(peer) \ {f}
      <4>1. j \in DOMAIN attempts /\ attempts[j].at \in from .. to
            /\ attempts[j].peer = peer /\ attempts[j].life = life /\ attempts[j].admitted
        BY <3>4 DEF AdmittedIn
      <4>2. attempts[j].at \in Nat
        BY <1>7, <4>1 DEF Attempts
      <4>3. attempts[j].at > since
        BY <3>1, <3>3, <4>1, <4>2
      <4>4. attempts[j].at >= since /\ attempts[j].at # since
        BY <3>1, <4>2, <4>3
      <4> QED
        BY <3>2, <4>1, <4>4 DEF InWindow, since
    <3>5. IsFiniteSet(InWindow(peer) \ {f})
          /\ Cardinality(InWindow(peer) \ {f}) = Cardinality(InWindow(peer)) - 1
      BY <1>9, <3>2, FS_RemoveElement
    <3>6. AdmittedIn(peer, life, from, to) \in SUBSET (InWindow(peer) \ {f})
      BY <3>4
    <3>7. Cardinality(AdmittedIn(peer, life, from, to)) <= Cardinality(InWindow(peer)) - 1
      BY <3>5, <3>6, FS_Subset
    <3>8. Cardinality(InWindow(peer)) <= Limit
      BY <1>2, <3>1 DEF EntryCounts
    <3> QED
      BY <1>2, <1>9, <3>7, <3>8
  <2> QED
    BY <2>1, <2>2
<1>11. /\ e \in [since : Nat, count : Nat \ {0}] /\ e.since <= clock
       /\ fresh => e.since = clock /\ e.count = 1
       /\ ~ fresh => e.since = entries[peer].since /\ e.count = entries[peer].count + 1
  <2>1. CASE fresh
    BY <1>2, <1>3, <2>1
  <2>2. CASE ~ fresh
    <3>1. PICK s \in Nat, n \in Nat \ {0} : entries[peer] = [since |-> s, count |-> n]
      BY <1>4, <2>2
    <3>2. e = [since |-> s, count |-> n + 1]
      BY <1>3, <2>2, <3>1
    <3> QED
      BY <1>4, <2>2, <3>1, <3>2
  <2> QED
    BY <2>1, <2>2
<1>12. LoginTypeOK'
  <2>1. \A j \in DOMAIN attempts' : attempts'[j].at <= clock /\ attempts'[j].life <= life
    BY <1>2, <1>6, <1>7
  <2>2. DOMAIN entries' \subseteq Peers
    BY <1>5 DEF LoginIInv, LoginTypeOK
  <2>3. \A p \in DOMAIN entries' :
          entries'[p] \in [since : Nat, count : Nat \ {0}] /\ entries'[p].since <= clock
    BY <1>5, <1>11 DEF LoginIInv, LoginTypeOK
  <2> QED
    BY <1>1, <1>2, <1>7, <2>1, <2>2, <2>3 DEF LoginTypeOK
\* The window of the entry after the attempt.
<1>13. InWindow(peer)' = (IF fresh THEN {} ELSE InWindow(peer)) \cup
                           (IF new.admitted THEN {id} ELSE {})
  <2>1. InWindow(peer)' =
          {j \in DOMAIN attempts : /\ attempts[j].peer = peer /\ attempts[j].life = life
                                   /\ attempts[j].admitted /\ attempts[j].at >= e.since}
            \cup (IF new.admitted THEN {id} ELSE {})
    <3>1. new.at >= e.since
      BY <1>2, <1>6, <1>11
    <3> QED
      BY <1>1, <1>5, <1>6, <1>7, <3>1 DEF InWindow
  <2>2. CASE ~ fresh
    BY <1>11, <2>1, <2>2 DEF InWindow
  <2>3. CASE fresh
    <3>1. ASSUME NEW j \in DOMAIN attempts, attempts[j].peer = peer, attempts[j].life = life
          PROVE  ~ (attempts[j].at >= e.since)
      <4>1. CASE peer \notin DOMAIN entries
        BY <3>1, <4>1 DEF LoginIInv, NobodyCounted
      <4>2. CASE peer \in DOMAIN entries
        <5>1. /\ EntryCounts(peer) /\ clock - entries[peer].since > Window
              /\ entries[peer].since \in Nat
          BY <2>3, <4>2 DEF LoginIInv, LoginTypeOK
        <5>2. attempts[j].at <= entries[peer].since + Window
          BY <3>1, <5>1 DEF EntryCounts
        <5>3. attempts[j].at \in Nat
          BY <1>7, <3>1 DEF Attempts
        <5> QED
          BY <1>2, <1>11, <2>3, <5>1, <5>2, <5>3
      <4> QED
        BY <4>1, <4>2
    <3> QED
      BY <2>1, <2>3, <3>1
  <2> QED
    BY <2>2, <2>3
<1>14. EntryCounts(peer)'
  <2>1. \A j \in DOMAIN attempts' :
          attempts'[j].peer = peer /\ attempts'[j].life = life =>
            attempts'[j].at <= e.since + Window
    <3>1. CASE fresh
      <4>1. \A j \in DOMAIN attempts : attempts[j].at \in Nat
        BY <1>7 DEF Attempts
      <4>2. \A j \in DOMAIN attempts : attempts[j].at <= clock + Window
        BY <1>2, <1>7, <4>1
      <4> QED
        BY <1>2, <1>6, <1>7, <1>11, <3>1, <4>2
    <3>2. CASE ~ fresh
      BY <1>4, <1>6, <1>7, <1>11, <3>2 DEF EntryCounts
    <3> QED
      BY <3>1, <3>2
  <2>2. \E j \in InWindow(peer)' : attempts'[j].at = e.since
    <3>1. CASE fresh
      <4>1. new.admitted
        BY <1>2, <1>6, <1>11, <3>1
      <4>2. id \in InWindow(peer)'
        BY <1>13, <4>1
      <4> QED
        BY <1>6, <1>7, <1>11, <3>1, <4>2
    <3>2. CASE ~ fresh
      <4>1. PICK f \in InWindow(peer) : attempts[f].at = entries[peer].since
        BY <1>4, <3>2 DEF EntryCounts
      <4>2. f \in DOMAIN attempts /\ f \in InWindow(peer)'
        BY <1>13, <3>2, <4>1 DEF InWindow
      <4> QED
        BY <1>7, <1>11, <3>2, <4>1, <4>2
    <3> QED
      BY <3>1, <3>2
  <2>3. Cardinality(InWindow(peer)') = IF e.count <= Limit THEN e.count ELSE Limit
    <3>1. CASE fresh
      <4>1. InWindow(peer)' = {id} /\ e.count <= Limit /\ e.count = 1
        BY <1>2, <1>6, <1>11, <1>13, <3>1
      <4> QED
        BY <4>1, FS_Singleton
    <3>2. CASE ~ fresh
      <4>1. PICK n \in Nat \ {0} : n = entries[peer].count
        BY <1>4, <3>2
      <4>2. Cardinality(InWindow(peer)) = (IF n <= Limit THEN n ELSE Limit)
            /\ e.count = n + 1
        BY <1>4, <1>11, <3>2, <4>1 DEF EntryCounts
      <4>3. CASE n + 1 <= Limit
        <5>1. InWindow(peer)' = InWindow(peer) \cup {id}
          BY <1>6, <1>13, <3>2, <4>2, <4>3
        <5>2. Cardinality(InWindow(peer)') = Cardinality(InWindow(peer)) + 1
          BY <1>9, <5>1, FS_AddElement
        <5>3. n <= Limit
          BY <1>2, <4>3
        <5> QED
          BY <4>2, <4>3, <5>2, <5>3
      <4>4. CASE ~ (n + 1 <= Limit)
        <5>1. InWindow(peer)' = InWindow(peer)
          BY <1>6, <1>13, <3>2, <4>2, <4>4
        <5>2. Cardinality(InWindow(peer)) = Limit
          BY <1>2, <4>2, <4>4
        <5> QED
          BY <4>2, <4>4, <5>1, <5>2
      <4> QED
        BY <4>3, <4>4
    <3> QED
      BY <3>1, <3>2
  <2>4. PICK since \in Nat : since = e.since
    BY <1>11
  <2>5. ASSUME NEW from \in Nat, from + Window >= since
        PROVE  Cardinality(AdmittedIn(peer, life, from, since - 1)') < Limit
    <3>1. clock \notin from .. (since - 1)
      BY <1>2, <1>11, <2>4
    <3>2. AdmittedIn(peer, life, from, since - 1)' = AdmittedIn(peer, life, from, since - 1)
      BY <1>1, <1>7, <1>6, <3>1 DEF AdmittedIn
    <3>3. CASE fresh
      BY <1>10, <1>11, <2>4, <2>5, <3>2, <3>3
    <3>4. CASE ~ fresh
      BY <1>4, <1>11, <2>4, <2>5, <3>2, <3>4 DEF EntryCounts
    <3> QED
      BY <3>3, <3>4
  <2> QED
    BY <1>1, <1>5, <2>1, <2>2, <2>3, <2>4, <2>5 DEF EntryCounts
<1>15. ASSUME NEW p \in Peers, p # peer
       PROVE  IF p \in DOMAIN entries' THEN EntryCounts(p)' ELSE NobodyCounted(p)'
  <2>1. \A l, from, to : AdmittedIn(p, l, from, to)' = AdmittedIn(p, l, from, to)
    BY <1>8, <1>15
  <2>2. CASE p \in DOMAIN entries
    <3>1. EntryCounts(p) /\ entries'[p] = entries[p] /\ p \in DOMAIN entries'
      BY <1>5, <1>15, <2>2 DEF LoginIInv
    <3>2. InWindow(p)' = InWindow(p)
      BY <1>1, <1>6, <1>7, <1>15, <3>1 DEF InWindow
    <3>3. \A j \in DOMAIN attempts' :
            attempts'[j].peer = p /\ attempts'[j].life = life =>
              j \in DOMAIN attempts /\ attempts'[j] = attempts[j]
      BY <1>6, <1>7, <1>15
    <3>4. \E j \in InWindow(p) : attempts'[j].at = entries[p].since
      <4>1. \A j \in InWindow(p) : attempts'[j] = attempts[j]
        BY <1>7 DEF InWindow
      <4> QED
        BY <3>1, <4>1 DEF EntryCounts
    <3> QED
      BY <1>1, <2>1, <3>1, <3>2, <3>3, <3>4 DEF EntryCounts
  <2>3. CASE p \notin DOMAIN entries
    BY <1>1, <1>5, <1>6, <1>7, <1>15, <2>3 DEF LoginIInv, NobodyCounted
  <2> QED
    BY <2>2, <2>3
<1>16. LimitAlways'
  <2> SUFFICES ASSUME NEW p \in Peers, NEW l \in Nat, NEW from \in Nat
               PROVE  Cardinality(AdmittedIn(p, l, from, from + Window)') < 2 * Limit
    BY DEF LimitAlways
  <2> DEFINE old == AdmittedIn(p, l, from, from + Window)
  <2>1. Cardinality(old) < 2 * Limit /\ IsFiniteSet(old) /\ Cardinality(old) \in Nat
        /\ id \notin old
    BY <1>9 DEF LoginIInv, LimitAlways
  <2>2. CASE ~ (p = peer /\ l = life /\ new.admitted /\ clock \in from .. from + Window)
    BY <1>8, <2>1, <2>2
  <2>3. CASE p = peer /\ l = life /\ new.admitted /\ clock \in from .. from + Window
    <3>1. AdmittedIn(p, l, from, from + Window)' = old \cup {id}
      BY <1>8, <2>3
    <3> HIDE DEF old
    <3>2. Cardinality(old \cup {id}) = Cardinality(old) + 1
      BY <2>1, FS_AddElement
    <3>3. Cardinality(old) <= 2 * Limit - 2
      <4>1. CASE fresh
        <5>1. Cardinality(old) < Limit
          <6>1. from + Window >= clock
            BY <1>2, <2>3
          <6> QED
            BY <1>10, <2>3, <4>1, <6>1 DEF old
        <5> QED
          BY <1>2, <2>1, <5>1
      <4>2. CASE ~ fresh
        <5> DEFINE since  == entries[peer].since
                   before == AdmittedIn(peer, life, from, since - 1)
        <5>1. since \in Nat /\ since <= clock
          BY <1>4, <4>2
        <5>2. from + Window >= since
          BY <1>2, <2>3, <5>1
        <5>3. Cardinality(before) < Limit /\ IsFiniteSet(before) /\ Cardinality(before) \in Nat
          BY <1>4, <1>9, <4>2, <5>2 DEF EntryCounts
        <5>4. Cardinality(InWindow(peer)) < Limit
          <6>1. PICK n \in Nat \ {0} : n = entries[peer].count
            BY <1>4, <4>2
          <6>2. Cardinality(InWindow(peer)) = (IF n <= Limit THEN n ELSE Limit)
                /\ n + 1 <= Limit
            BY <1>4, <1>6, <1>11, <2>3, <4>2, <6>1 DEF EntryCounts
          <6> QED
            BY <1>2, <6>2
        <5>5. old \subseteq before \cup InWindow(peer)
          <6> SUFFICES ASSUME NEW j \in old, j \notin InWindow(peer) PROVE j \in before
            OBVIOUS
          <6>1. j \in DOMAIN attempts /\ attempts[j].at \in from .. from + Window
                /\ attempts[j].peer = peer /\ attempts[j].life = life /\ attempts[j].admitted
            BY <2>3 DEF old, AdmittedIn
          <6>2. ~ (attempts[j].at >= since)
            BY <6>1 DEF InWindow
          <6>3. attempts[j].at \in from .. (since - 1)
            BY <1>2, <5>1, <6>1, <6>2
          <6> QED
            BY <6>1, <6>3 DEF AdmittedIn
        <5> HIDE DEF before, since
        <5>6. /\ IsFiniteSet(before \cup InWindow(peer))
              /\ Cardinality(before \cup InWindow(peer)) <=
                   Cardinality(before) + Cardinality(InWindow(peer))
          <6>1. Cardinality(before \cap InWindow(peer)) \in Nat
            BY <5>3, FS_Intersection, FS_CardinalityType
          <6>2. /\ IsFiniteSet(before \cup InWindow(peer))
                /\ Cardinality(before \cup InWindow(peer)) =
                     Cardinality(before) + Cardinality(InWindow(peer))
                       - Cardinality(before \cap InWindow(peer))
            BY <1>9, <5>3, FS_Union
          <6> QED
            BY <1>9, <5>3, <6>1, <6>2
        <5>7. Cardinality(old) <= Cardinality(before \cup InWindow(peer))
              /\ Cardinality(before \cup InWindow(peer)) \in Nat
          BY <5>5, <5>6, FS_Subset, FS_CardinalityType
        <5> QED
          BY <1>2, <1>9, <2>1, <5>3, <5>4, <5>6, <5>7
      <4> QED
        BY <4>1, <4>2
    <3>4. Cardinality(AdmittedIn(p, l, from, from + Window)') = Cardinality(old) + 1
      BY <3>1, <3>2
    <3>5. Cardinality(old) + 1 < 2 * Limit
      BY <1>2, <2>1, <3>3 DEF old
    <3> QED
      BY <3>4, <3>5
  <2> QED
    BY <2>2, <2>3
<1>17. RefusedWithCause'
  <2>1. ASSUME NEW q, NEW l, NEW from, NEW to
        PROVE  /\ IsFiniteSet(AdmittedIn(q, l, from, to)')
               /\ Cardinality(AdmittedIn(q, l, from, to)') \in Nat
               /\ Cardinality(AdmittedIn(q, l, from, to))
                    <= Cardinality(AdmittedIn(q, l, from, to)')
    <3>1. \/ AdmittedIn(q, l, from, to)' = AdmittedIn(q, l, from, to)
          \/ AdmittedIn(q, l, from, to)' = AdmittedIn(q, l, from, to) \cup {id}
      BY <1>8
    <3>2. IsFiniteSet(AdmittedIn(q, l, from, to)')
      BY <1>9, <3>1, FS_AddElement
    <3>3. AdmittedIn(q, l, from, to) \in SUBSET (AdmittedIn(q, l, from, to)')
      BY <3>1
    <3> QED
      BY <3>2, <3>3, FS_Subset, FS_CardinalityType
  <2>2. ASSUME NEW q, NEW l, NEW from, NEW to,
               Cardinality(AdmittedIn(q, l, from, to)) >= Limit
        PROVE  Cardinality(AdmittedIn(q, l, from, to)') >= Limit
    <3>1. PICK before \in Nat, after \in Nat :
            /\ before = Cardinality(AdmittedIn(q, l, from, to))
            /\ after = Cardinality(AdmittedIn(q, l, from, to)') /\ before <= after
      BY <1>9, <2>1
    <3> QED
      BY <1>2, <2>2, <3>1
  <2> SUFFICES ASSUME NEW j \in DOMAIN attempts', ~ attempts'[j].admitted,
                      NEW q, NEW l, NEW at,
                      q = attempts'[j].peer, l = attempts'[j].life, at = attempts'[j].at
               PROVE  Cardinality(AdmittedIn(q, l, at - Window, at)') >= Limit
    BY DEF RefusedWithCause
  <2>3. CASE j \in DOMAIN attempts
    <3>1. attempts'[j] = attempts[j]
      BY <1>7, <2>3
    <3>2. Cardinality(AdmittedIn(q, l, at - Window, at)) >= Limit
      BY <2>3, <3>1 DEF LoginIInv, RefusedWithCause
    <3> QED
      BY <2>2, <3>2
  <2>4. CASE j = id
    <3>1. ~ (e.count <= Limit) /\ ~ fresh /\ q = peer /\ l = life /\ at = clock
      BY <1>2, <1>6, <1>7, <1>11, <2>4
    <3>2. Cardinality(InWindow(peer)) = Limit
      <4>1. PICK n \in Nat \ {0} : n = entries[peer].count
        BY <1>4, <3>1
      <4>2. Cardinality(InWindow(peer)) = (IF n <= Limit THEN n ELSE Limit)
            /\ ~ (n + 1 <= Limit)
        BY <1>4, <1>11, <3>1, <4>1 DEF EntryCounts
      <4> QED
        BY <1>2, <4>2
    <3>3. InWindow(peer) \in SUBSET AdmittedIn(q, l, at - Window, at)
      <4> SUFFICES ASSUME NEW k \in InWindow(peer)
                   PROVE  k \in AdmittedIn(q, l, at - Window, at)
        OBVIOUS
      <4>1. k \in DOMAIN attempts /\ attempts[k].at >= entries[peer].since
            /\ attempts[k].peer = peer /\ attempts[k].life = life /\ attempts[k].admitted
        BY DEF InWindow
      <4>2. attempts[k].at \in Nat /\ attempts[k].at <= clock
        BY <1>7, <4>1 DEF Attempts
      <4>3. entries[peer].since \in Nat /\ clock <= entries[peer].since + Window
        BY <1>4, <3>1
      <4>4. attempts[k].at \in (clock - Window) .. clock
        BY <1>2, <4>1, <4>2, <4>3
      <4> QED
        BY <3>1, <4>1, <4>4 DEF AdmittedIn
    <3>4. Cardinality(AdmittedIn(q, l, at - Window, at)) >= Limit
      <4>1. Cardinality(InWindow(peer)) <= Cardinality(AdmittedIn(q, l, at - Window, at))
        BY <1>9, <3>3, FS_Subset
      <4>2. Cardinality(AdmittedIn(q, l, at - Window, at)) \in Nat
        BY <1>9
      <4> QED
        BY <1>2, <3>2, <4>1, <4>2
    <3> QED
      BY <2>2, <3>4
  <2> QED
    BY <1>7, <2>3, <2>4
<1>18. EndedForGood' /\ IdsAreUsedUp'
  <2>1. DOMAIN logins \cup ended \subseteq DOMAIN attempts /\ EndedForGood
    BY DEF LoginIInv, IdsAreUsedUp
  <2>2. CASE e.count <= Limit /\ right
    <3>1. /\ DOMAIN logins' = DOMAIN logins \cup {id} /\ logins'[id] = clock + Lifetime
          /\ \A i \in DOMAIN logins : logins'[i] = logins[i]
      BY <1>1, <1>7, <2>1, <2>2
    <3> QED
      BY <1>1, <1>6, <1>7, <2>1, <2>2, <3>1 DEF EndedForGood, IdsAreUsedUp
  <2>3. CASE ~ (e.count <= Limit /\ right)
    BY <1>1, <1>7, <2>1, <2>3 DEF EndedForGood, IdsAreUsedUp
  <2> QED
    BY <2>2, <2>3
<1> QED
  BY <1>5, <1>12, <1>14, <1>15, <1>16, <1>17, <1>18 DEF LoginIInv

LEMMA LoginStep == LoginIInv /\ [LoginNext]_loginVars => LoginIInv'
<1> SUFFICES ASSUME LoginIInv, [LoginNext]_loginVars PROVE LoginIInv'
  OBVIOUS
<1>1. CASE UNCHANGED loginVars
  <2>1. UNCHANGED <<clock, entries, logins, attempts, life, ended>>
    BY <1>1 DEF loginVars
  <2>2. clock' \in Nat /\ clock <= clock'
    BY <2>1 DEF LoginIInv, LoginTypeOK
  <2>3. EndedForGood' /\ IdsAreUsedUp'
    BY <2>1 DEF LoginIInv, EndedForGood, IdsAreUsedUp
  <2> QED
    BY <2>1, <2>2, <2>3, CountsKept DEF LoginIInv
<1> QED
  BY <1>1, SubmitsStep, SessionSteps, TickLoginStep, RestartsStep DEF LoginNext

\* However attempts to log in are spread, a window's length never sees twice the limit;
\* who is refused used up the limit within the last window; and a session that was
\* refused, logged out or forgotten is never let in again (auth/store.rs).
THEOREM LoginCorrect == Spec => []LoginInv
<1>1. Init => LoginIInv
  BY LoginInitially DEF Init
<1>2. LoginIInv /\ [Next]_vars => LoginIInv'
  BY LoginStep DEF Next, vars, OfModes, OfActivity, OfLogin, OfTurns, OfLife
<1> QED
  BY <1>1, <1>2, LoginImplied, PTL DEF Spec

-----------------------------------------------------------------------------
(* Activity *)

PluginEvents == {"created", "busy", "idle", "asked"}
HookEvents ==
  {"SessionStart", "UserPromptSubmit", "ToolUse", "PermissionRequest", "Stop", "SessionEnd",
   "PreCompact"}

AgesTypeOK ==
  /\ kind \in {"opencode", "claude"}
  /\ heardAge \in 0 .. Stale /\ outAge \in {Never} \cup 0 .. Stale
  /\ spent \in Nat
  /\ lastTold \in PluginEvents \cup {"none"}
  /\ posts \subseteq [n : Nat, event : IF kind = "opencode" THEN PluginEvents ELSE HookEvents,
                      alone : BOOLEAN]

\* OpenCode: event e says of the plugin's sessions what is so.
SaysOfSessions(e) ==
  /\ e = "busy" => midTurn # {}
  /\ midTurn # {} => e \in {"busy", "asked"}

\* Claude: activity a is what the server should have of the agent.
SaysOfAgent(a) ==
  /\ agent = "turn" => a = "working"
  /\ a = "unknown" => agent = "gone"

\* Nothing is on its way and nothing was lost: the server has what the agent said.
ServerIsTold ==
  posts = {} /\ ~ doubt =>
    IF kind = "opencode"
    THEN /\ SaysOfSessions(lastTold)
         /\ activity = IF lastTold = "none" THEN "unknown" ELSE ActivityFor[lastTold]
    ELSE SaysOfAgent(activity)

\* A report that is alone on its way says how things are.
LoneReportIsTrue ==
  \A p \in posts : p.alone =>
    /\ posts = {p}
    /\ IF kind = "opencode" THEN SaysOfSessions(p.event)
       ELSE IF ActivityFor[p.event] = "(none)" THEN ~ doubt => SaysOfAgent(activity)
       ELSE SaysOfAgent(ActivityFor[p.event])

ActivityIInv == AgesTypeOK /\ ServerIsTold /\ LoneReportIsTrue

LEMMA ActivityInitially == ActivityInit => ActivityIInv
  BY ActivityAssumption DEF ActivityInit, ActivityIInv, AgesTypeOK, ServerIsTold,
     LoneReportIsTrue, SaysOfSessions, SaysOfAgent

LEMMA ActivityImplied == ActivityIInv => ActivityTold
<1> SUFFICES ASSUME ActivityIInv PROVE ActivityTold
  OBVIOUS
<1>1. PaneIsSumOfSessions
  <2> SUFFICES ASSUME kind = "opencode", posts = {}, ~ doubt
               PROVE  /\ activity = "working" => midTurn # {}
                      /\ midTurn # {} => activity = "working" \/ lastTold = "asked"
                      /\ lastTold # "none" => activity = ActivityFor[lastTold]
    BY DEF PaneIsSumOfSessions, Told
  <2>1. /\ SaysOfSessions(lastTold)
        /\ activity = IF lastTold = "none" THEN "unknown" ELSE ActivityFor[lastTold]
    BY DEF ActivityIInv, ServerIsTold
  <2>2. ActivityFor["busy"] = "working"
    BY DEF ActivityFor
  <2>3. midTurn # {} => activity = "working" \/ lastTold = "asked"
    BY <2>1, <2>2 DEF SaysOfSessions
  <2>4. activity = "working" => lastTold = "busy"
    BY <2>1 DEF ActivityIInv, AgesTypeOK, PluginEvents, ActivityFor
  <2>5. lastTold # "none" => activity = ActivityFor[lastTold]
    BY <2>1
  <2> QED
    BY <2>1, <2>3, <2>4, <2>5 DEF SaysOfSessions
<1>2. kind = "claude" /\ Told => SaysOfAgent(activity)
  BY DEF ActivityIInv, ServerIsTold, Told
<1>3. LiveTurnIsKept
  BY <1>2, ActivityAssumption
     DEF LiveTurnIsKept, SaysOfAgent, Reading, Demoted, Resolved, ActivityIInv, AgesTypeOK
<1>4. WorkingIsBacked
  <2> SUFFICES ASSUME kind = "claude", Told, Reading = "working", agent # "turn",
                      ~ (activity = "unknown" /\ agent = "gone" /\ foreground = "command")
               PROVE  outAge = Never \/ outAge < Stale \/ heardAge < Stale
    BY DEF WorkingIsBacked
  <2>1. activity # "unknown" \/ foreground # "command"
    BY <1>2 DEF SaysOfAgent
  <2>2. Demoted(activity) = "working" /\ activity = "working"
    BY <2>1 DEF Reading, Resolved, Demoted
  <2>3. ~ (outAge # Never /\ heardAge >= Stale /\ outAge >= Stale)
    BY <2>2 DEF Demoted
  <2> QED
    BY <2>3, ActivityAssumption DEF ActivityIInv, AgesTypeOK, Never
<1> QED
  BY <1>1, <1>3, <1>4 DEF ActivityTold, ActivityIInv, AgesTypeOK

LEMMA PluginEventStep ==
  ASSUME ActivityIInv, NEW type \in PluginEvents, NEW s \in Lodgers, PluginEvent(type, s)
  PROVE  ActivityIInv'
<1>1. PICK e \in PluginEvents : e = AppliedEvent(type, s).event
  BY DEF AppliedEvent, PluginEvents
<1>2. /\ kind = "opencode" /\ spent' = spent + 1 /\ midTurn' = AppliedEvent(type, s).set
      /\ e = lastTold => posts' = Crowded
      /\ e # lastTold =>
           posts' = Crowded \cup {[n |-> spent, event |-> e, alone |-> posts = {}]}
      /\ UNCHANGED <<kind, agent, lastTold, doubt, activity, heardAge, outAge, foreground>>
  BY <1>1 DEF PluginEvent, Spend, Post
<1>3. SaysOfSessions(e)'
  <2>1. e = "busy" => AppliedEvent(type, s).set # {}
    BY <1>1 DEF AppliedEvent, PluginEvents
  <2>2. AppliedEvent(type, s).set # {} => e \in {"busy", "asked"}
    BY <1>1 DEF AppliedEvent, PluginEvents
  <2> QED
    BY <1>2, <2>1, <2>2 DEF SaysOfSessions
<1>4. /\ \A p \in Crowded : p \in [n : Nat, event : PluginEvents, alone : BOOLEAN] /\ ~ p.alone
      /\ posts' \subseteq [n : Nat, event : PluginEvents, alone : BOOLEAN]
  <2>1. \A p \in Crowded : p \in [n : Nat, event : PluginEvents, alone : BOOLEAN] /\ ~ p.alone
    BY <1>2 DEF Crowded, ActivityIInv, AgesTypeOK
  <2>2. [n |-> spent, event |-> e, alone |-> posts = {}]
          \in [n : Nat, event : PluginEvents, alone : BOOLEAN]
    <3>1. spent \in Nat /\ (posts = {}) \in BOOLEAN
      BY DEF ActivityIInv, AgesTypeOK
    <3> QED
      BY <3>1
  <2> QED
    BY <1>2, <2>1, <2>2
<1>5. AgesTypeOK'
  BY <1>2, <1>4 DEF ActivityIInv, AgesTypeOK
<1>6. ServerIsTold'
  <2> SUFFICES ASSUME posts' = {}, ~ doubt
               PROVE  /\ SaysOfSessions(lastTold)'
                      /\ activity = IF lastTold = "none" THEN "unknown" ELSE ActivityFor[lastTold]
    BY <1>2 DEF ServerIsTold
  <2>1. e = lastTold /\ Crowded = {}
    BY <1>2
  <2>2. posts = {}
    BY <2>1 DEF Crowded
  <2>3. activity = IF lastTold = "none" THEN "unknown" ELSE ActivityFor[lastTold]
    BY <1>2, <2>2 DEF ActivityIInv, ServerIsTold
  <2> QED
    BY <1>2, <1>3, <2>1, <2>3 DEF SaysOfSessions
<1>7. LoneReportIsTrue'
  <2> SUFFICES ASSUME NEW p \in posts', p.alone
               PROVE  posts' = {p} /\ SaysOfSessions(p.event)'
    BY <1>2 DEF LoneReportIsTrue
  <2>1. /\ p = [n |-> spent, event |-> e, alone |-> posts = {}]
        /\ posts' = Crowded \cup {p}
    BY <1>2, <1>4
  <2>2. posts = {} /\ p.event = e
    BY <2>1
  <2>3. Crowded = {}
    BY <2>2 DEF Crowded
  <2> QED
    BY <1>3, <2>1, <2>2, <2>3
<1> QED
  BY <1>5, <1>6, <1>7 DEF ActivityIInv

LEMMA HookFiresStep ==
  ASSUME ActivityIInv, NEW move \in AgentMoves, HookFires(move)
  PROVE  ActivityIInv'
<1>1. /\ kind = "claude" /\ spent' = spent + 1 /\ agent = move[1] /\ agent' = move[2]
      /\ move[3] = "(none)" => posts' = posts
      /\ move[3] # "(none)" => Post(move[3])
      /\ UNCHANGED <<kind, midTurn, lastTold, doubt, activity, heardAge, outAge, foreground>>
  BY DEF HookFires, Spend
<1>2. move[3] # "(none)" => move[3] \in HookEvents
  BY DEF AgentMoves, HookEvents
<1>3. \A p \in Crowded : p \in [n : Nat, event : HookEvents, alone : BOOLEAN] /\ ~ p.alone
  BY <1>1 DEF Crowded, ActivityIInv, AgesTypeOK
<1>4. posts' \subseteq [n : Nat, event : HookEvents, alone : BOOLEAN]
  <2>1. posts \subseteq [n : Nat, event : HookEvents, alone : BOOLEAN]
    BY <1>1 DEF ActivityIInv, AgesTypeOK
  <2>2. CASE move[3] # "(none)"
    <3>1. spent \in Nat /\ (posts = {}) \in BOOLEAN /\ move[3] \in HookEvents
      BY <1>2, <2>2 DEF ActivityIInv, AgesTypeOK
    <3>2. [n |-> spent, event |-> move[3], alone |-> posts = {}]
            \in [n : Nat, event : HookEvents, alone : BOOLEAN]
      BY <3>1
    <3>3. posts' = Crowded \cup {[n |-> spent, event |-> move[3], alone |-> posts = {}]}
      BY <1>1, <2>2 DEF Post
    <3> QED
      BY <1>3, <3>2, <3>3
  <2> QED
    BY <1>1, <2>1, <2>2
<1>5. AgesTypeOK'
  BY <1>1, <1>4 DEF ActivityIInv, AgesTypeOK
\* What was true of an agent in a turn that is broken off stays so.
<1>6. ASSUME move[3] = "(none)", NEW a, SaysOfAgent(a) PROVE SaysOfAgent(a)'
  BY <1>1, <1>6 DEF AgentMoves, SaysOfAgent
<1>7. ServerIsTold'
  <2> SUFFICES ASSUME posts' = {}, ~ doubt
               PROVE  SaysOfAgent(activity)'
    BY <1>1 DEF ServerIsTold
  <2>1. move[3] = "(none)" /\ posts = {}
    BY <1>1 DEF Post
  <2>2. SaysOfAgent(activity)
    BY <1>1, <2>1 DEF ActivityIInv, ServerIsTold
  <2> QED
    BY <1>1, <2>1, <2>2 DEF AgentMoves, SaysOfAgent
<1>8. LoneReportIsTrue'
  <2> SUFFICES ASSUME NEW p \in posts', p.alone
               PROVE  /\ posts' = {p}
                      /\ IF ActivityFor[p.event] = "(none)" THEN ~ doubt => SaysOfAgent(activity)'
                         ELSE SaysOfAgent(ActivityFor[p.event])'
    BY <1>1 DEF LoneReportIsTrue
  <2>1. CASE move[3] = "(none)"
    <3>1. posts = {p} /\ posts' = posts
          /\ (IF ActivityFor[p.event] = "(none)" THEN ~ doubt => SaysOfAgent(activity)
              ELSE SaysOfAgent(ActivityFor[p.event]))
      BY <1>1, <2>1 DEF ActivityIInv, LoneReportIsTrue
    <3>2. CASE ActivityFor[p.event] = "(none)"
      <4>1. SaysOfAgent(activity) => SaysOfAgent(activity)'
        BY <1>1, <2>1 DEF AgentMoves, SaysOfAgent
      <4> QED
        BY <3>1, <3>2, <4>1
    <3>3. CASE ActivityFor[p.event] # "(none)"
      <4>1. SaysOfAgent(ActivityFor[p.event])'
        BY <1>6, <2>1, <3>1, <3>3
      <4> QED
        BY <3>1, <3>3, <4>1
    <3> QED
      BY <3>2, <3>3
  <2>2. CASE move[3] # "(none)"
    <3>1. /\ p = [n |-> spent, event |-> move[3], alone |-> posts = {}]
          /\ posts' = Crowded \cup {p}
      BY <1>1, <1>3, <2>2 DEF Post
    <3>2. posts = {} /\ p.event = move[3]
      BY <3>1
    <3>3. posts' = {p}
      BY <3>1, <3>2 DEF Crowded
    <3>4. CASE ActivityFor[p.event] = "(none)"
      <4>1. ~ doubt => SaysOfAgent(activity)
        BY <1>1, <3>2 DEF ActivityIInv, ServerIsTold
      <4>2. SaysOfAgent(activity) => SaysOfAgent(activity)'
        BY <1>1, <3>2, <3>4 DEF AgentMoves, SaysOfAgent, ActivityFor
      <4> QED
        BY <3>3, <3>4, <4>1, <4>2
    <3>5. CASE ActivityFor[p.event] # "(none)"
      <4>1. SaysOfAgent(ActivityFor[p.event])'
        BY <1>1, <2>2, <3>2, <3>5 DEF AgentMoves, SaysOfAgent, ActivityFor
      <4> QED
        BY <3>3, <3>5, <4>1
    <3> QED
      BY <3>4, <3>5
  <2> QED
    BY <2>1, <2>2
<1> QED
  BY <1>5, <1>7, <1>8 DEF ActivityIInv

LEMMA PostedStep ==
  ASSUME ActivityIInv, NEW p \in posts, NEW heard \in BOOLEAN, NEW known \in BOOLEAN,
         Posted(p, heard, known)
  PROVE  ActivityIInv'
<1>1. /\ posts' = posts \ {p}
      /\ IF heard THEN Ingest(p.event) ELSE UNCHANGED <<activity, heardAge>>
      /\ lastTold' = IF kind = "opencode" /\ known THEN p.event ELSE lastTold
      /\ doubt' = IF ~ (heard /\ known /\ p.alone) THEN TRUE
                  ELSE doubt /\ ActivityFor[p.event] = "(none)"
      /\ UNCHANGED <<kind, agent, midTurn, outAge, foreground, spent>>
  BY DEF Posted
<1>2. p.event \in (IF kind = "opencode" THEN PluginEvents ELSE HookEvents) /\ p.alone \in BOOLEAN
  BY DEF ActivityIInv, AgesTypeOK
<1>3. AgesTypeOK'
  <2>1. heardAge' \in 0 .. Stale
    BY <1>1, ActivityAssumption DEF Ingest, ActivityIInv, AgesTypeOK
  <2> QED
    BY <1>1, <1>2, <2>1 DEF ActivityIInv, AgesTypeOK
<1>4. LoneReportIsTrue'
  <2> SUFFICES ASSUME NEW q \in posts', q.alone PROVE FALSE
    BY DEF LoneReportIsTrue
  <2>1. posts = {q}
    BY <1>1 DEF ActivityIInv, LoneReportIsTrue
  <2> QED
    BY <1>1, <2>1
<1>5. ServerIsTold'
  <2> SUFFICES ASSUME posts' = {}, ~ doubt'
               PROVE  IF kind = "opencode"
                      THEN /\ SaysOfSessions(lastTold)'
                           /\ activity' = IF lastTold' = "none" THEN "unknown"
                                          ELSE ActivityFor[lastTold']
                      ELSE SaysOfAgent(activity)'
    BY <1>1 DEF ServerIsTold
  <2>1. heard /\ known /\ p.alone /\ (ActivityFor[p.event] = "(none)" => ~ doubt)
    BY <1>1
  <2>2. IF kind = "opencode" THEN SaysOfSessions(p.event)
        ELSE IF ActivityFor[p.event] = "(none)" THEN ~ doubt => SaysOfAgent(activity)
        ELSE SaysOfAgent(ActivityFor[p.event])
    BY <2>1 DEF ActivityIInv, LoneReportIsTrue
  <2>3. CASE kind = "opencode"
    <3>1. p.event # "none" /\ ActivityFor[p.event] # "(none)"
      BY <1>2, <2>3 DEF PluginEvents, ActivityFor
    <3>2. activity' = ActivityFor[p.event] /\ lastTold' = p.event
      BY <1>1, <2>1, <2>3, <3>1 DEF Ingest
    <3> QED
      BY <1>1, <2>2, <2>3, <3>1, <3>2 DEF SaysOfSessions
  <2>4. CASE kind # "opencode"
    <3>1. CASE ActivityFor[p.event] = "(none)"
      BY <1>1, <2>1, <2>2, <2>4, <3>1 DEF Ingest, SaysOfAgent
    <3>2. CASE ActivityFor[p.event] # "(none)"
      BY <1>1, <2>1, <2>2, <2>4, <3>2 DEF Ingest, SaysOfAgent
    <3> QED
      BY <2>4, <3>1, <3>2
  <2> QED
    BY <2>3, <2>4
<1> QED
  BY <1>3, <1>4, <1>5 DEF ActivityIInv

LEMMA ActivityStep == ActivityIInv /\ [ActivityNext]_activityVars => ActivityIInv'
<1> SUFFICES ASSUME ActivityIInv, [ActivityNext]_activityVars PROVE ActivityIInv'
  OBVIOUS
\* The steps of the terminal and of time.
<1>1. ASSUME UNCHANGED <<kind, agent, midTurn, lastTold, posts, doubt, activity, spent>>,
             heardAge' \in 0 .. Stale, outAge' \in {Never} \cup 0 .. Stale
      PROVE  ActivityIInv'
  BY <1>1 DEF ActivityIInv, AgesTypeOK, ServerIsTold, LoneReportIsTrue, SaysOfSessions,
              SaysOfAgent
<1>2. heardAge \in 0 .. Stale /\ outAge \in {Never} \cup 0 .. Stale /\ 0 \in 0 .. Stale
  BY ActivityAssumption DEF ActivityIInv, AgesTypeOK
<1>3. CASE Prints
  BY <1>1, <1>2, <1>3 DEF Prints
<1>4. CASE TickHooks
  BY <1>1, <1>2, <1>4, ActivityAssumption DEF TickHooks, Older, Never
<1>5. ASSUME NEW x \in {"shell", "command"}, SampleForeground(x) PROVE ActivityIInv'
  BY <1>1, <1>2, <1>5 DEF SampleForeground
<1>6. CASE ServerAgain
  <2>1. /\ spent' = spent + 1 /\ heardAge' = 0 /\ outAge' = Never /\ doubt'
        /\ UNCHANGED <<kind, agent, midTurn, lastTold, posts>>
    BY <1>6 DEF ServerAgain, Spend
  <2>2. AgesTypeOK'
    BY <1>2, <2>1 DEF ActivityIInv, AgesTypeOK
  <2> QED
    BY <2>1, <2>2 DEF ActivityIInv, ServerIsTold, LoneReportIsTrue, SaysOfSessions, SaysOfAgent
<1>7. CASE UNCHANGED activityVars
  BY <1>1, <1>2, <1>7 DEF activityVars
<1> QED
  BY <1>3, <1>4, <1>5, <1>6, <1>7, PluginEventStep, HookFiresStep, PostedStep
     DEF ActivityNext, PluginEvents

\* What the sidebar says of an agent: a pane works if and only if a session of it is in
\* the middle of a turn, a turn that still prints is not given up, and Working is said
\* only with a cause, once every report has arrived (activity/mod.rs, api/hooks.rs).
THEOREM ActivityCorrect == Spec => []ActivityTold
<1>1. Init => ActivityIInv
  BY ActivityInitially DEF Init, StillActivity
<1>2. ActivityIInv /\ [Next]_vars => ActivityIInv'
  BY ActivityStep DEF Next, vars, OfModes, OfActivity, OfLogin, OfTurns, OfLife
<1> QED
  BY <1>1, <1>2, ActivityImplied, PTL DEF Spec
=============================================================================
