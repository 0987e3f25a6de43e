---------------------------- MODULE CodexPrompts ----------------------------
(***************************************************************************)
(* How a request the Codex server makes of the user becomes a prompt, and  *)
(* how the user's answer gets back: the hub's pending requests             *)
(* (backends/codex/rpc/hub.ts), the session's approval bridge              *)
(* (backends/codex/session/approvals.ts), the channel's interaction link   *)
(* (channel/interaction.ts) and the two stores that the panel draws from   *)
(* (channel/permissions.ts, channel/questions.ts).                         *)
(*                                                                         *)
(* A prompt is answered by the user, by its own timer, by another client   *)
(* of the server, or by nobody: the turn, the item, the connection or the  *)
(* session it belongs to may end first.  The bridge settles nothing before *)
(* the server said that it is done, so an answered prompt stays parked.    *)
(* A questionnaire's answer reaches the bridge one microtask after it left *)
(* the panel; keys of the same burst and what they call may fall between.  *)
(*                                                                         *)
(* The server, the user and the timers are the environment.  The requests  *)
(* held back, and sent once more, while a thread is rejoined are           *)
(* CodexRejoin's, the routes of a subagent's requests CodexRouting's.      *)
(***************************************************************************)
EXTENDS Naturals, Sequences, SequencesExt

CONSTANTS
    Asks,       \* the requests of a run
    None,       \* the message of a turn's end names no request
    MaxRounds   \* bound: how often a form is asked again

ASSUME PromptsAssumption == None \notin Asks /\ MaxRounds \in Nat

\* A command that is offered once or not at all, a file change, permissions;
\* questions without and with autoResolutionMs; an MCP server's form; and
\* what the panel cannot show.
Permissions == {"command", "file", "permissions"}
Questions == {"question", "timed"}
Kinds == Permissions \cup Questions \cup {"form", "unfit"}
Outcomes == {"once", "always", "rejected", "cancelled"}

VARIABLES
    srv,        \* what the server knows of a request: none, open, over
    what,       \* its kind
    child,      \* requests of a subagent's thread
    wire,       \* what the server sent and the hub has not read
    open,       \* pendingServer
    sent,       \* the answers that went out, per request
    parked,     \* prompts the bridge holds
    answered,   \* what the user said of a parked prompt
    round,      \* how often a form was asked again (its askId)
    armed,      \* questions whose timer runs
    told,       \* how a permission prompt ended, as the user was told
    noticed,    \* questions the user was told were answered for him
    reasons,    \* follow-ups enqueued, per request
    panel,      \* PermissionStore: the first one is on the screen
    sheet,      \* QuestionStore: [ask, n], the first one is on the screen
    links,      \* asks of the interaction link that were not aborted
    due,        \* questionnaires that left the panel, continuation to come
    released,   \* the session left the binding
    disposed    \* and was closed

server == <<srv, what, child>>
bridge == <<parked, answered, round, armed, told, noticed, reasons>>
screen == <<panel, sheet, links, due>>
life == <<released, disposed>>
vars == <<server, wire, open, sent, bridge, screen, life>>

Init ==
    /\ srv = [r \in Asks |-> "none"] /\ what = [r \in Asks |-> "unfit"] /\ child = {}
    /\ wire = <<>> /\ open = {} /\ sent = [r \in Asks |-> <<>>]
    /\ parked = {} /\ answered = [r \in Asks |-> "nothing"] /\ round = [r \in Asks |-> 0]
    /\ armed = {} /\ told = [r \in Asks |-> "nothing"] /\ noticed = {}
    /\ reasons = [r \in Asks |-> 0]
    /\ panel = <<>> /\ sheet = <<>> /\ links = {} /\ due = <<>>
    /\ released = FALSE /\ disposed = FALSE

Sheet(r) == [ask |-> r, n |-> round[r]]

-----------------------------------------------------------------------------
(* The server.                                                             *)

Message(type, r) == [type |-> type, ask |-> r]

\* What belongs to a turn of the session's own thread ends with it.
OfTurn(r) == r \notin child /\ what[r] \in Permissions \cup Questions

ServerAsks(r) ==
    /\ srv[r] = "none"
    /\ srv' = [srv EXCEPT ![r] = "open"]
    /\ \E k \in Kinds : what' = [what EXCEPT ![r] = k]
    /\ child' \in {child, child \cup {r}}
    /\ wire' = Append(wire, Message("request", r))
    /\ UNCHANGED <<open, sent, bridge, screen, life>>

\* A request is over: answered here, or elsewhere (another client, the
\* server's own review).  The server says so, or completes the item.
Over(r) ==
    /\ srv[r] = "open"
    /\ srv' = [srv EXCEPT ![r] = "over"]
    /\ \/ wire' = Append(wire, Message("resolved", r))
       \/ OfTurn(r) /\ wire' = Append(wire, Message("item", r))
    /\ UNCHANGED <<what, child, open, sent, bridge, screen, life>>

ServerTakes(r) == sent[r] # <<>> /\ Over(r)
ResolvedElsewhere(r) == sent[r] = <<>> /\ Over(r)

ServerEndsTurn ==
    /\ \A i \in 1 .. Len(wire) : wire[i].type # "turn"
    /\ srv' = [r \in Asks |-> IF srv[r] = "open" /\ OfTurn(r) THEN "over" ELSE srv[r]]
    /\ wire' = Append(wire, Message("turn", None))
    /\ UNCHANGED <<what, child, open, sent, bridge, screen, life>>

-----------------------------------------------------------------------------
(* The bridge.                                                             *)

\* What a store holds of S, in its order.
Kept(s, S) ==
    LET kept[k \in 0 .. Len(s)] ==
            IF k = 0 THEN <<>>
            ELSE IF s[k] \in S THEN Append(kept[k - 1], s[k]) ELSE kept[k - 1]
    IN  kept[Len(s)]

Of(S) == {q \in ToSet(sheet) : q.ask \in S}

Outcome(r) == IF answered[r] = "nothing" THEN "cancelled" ELSE answered[r]

\* Mistake: the settlement names the request, not the round on the panel.
SettleByKey(S) ==
    /\ parked' = parked \ S
    /\ armed' = armed \ S
    /\ told' = [r \in Asks |-> IF r \in S /\ what[r] \in Permissions THEN Outcome(r) ELSE told[r]]
    /\ panel' = Kept(panel, Asks \ S)
    /\ sheet' = Kept(sheet, Of(Asks \ S) \cup {q \in Of(S) : q.n > 0})
    /\ links' = {q \in links : q.ask \notin S \/ q.n > 0}

\* settle(): the timer stops, the user is told, and the stores take the
\* prompt back without answering it.
Settle(S) ==
    /\ parked' = parked \ S
    /\ armed' = armed \ S
    /\ told' = [r \in Asks |-> IF r \in S /\ what[r] \in Permissions THEN Outcome(r) ELSE told[r]]
    /\ panel' = Kept(panel, Asks \ S)
    /\ sheet' = Kept(sheet, Of(Asks \ S))
    /\ links' = {q \in links : q.ask \notin S}

Unanswered == {r \in parked : answered[r] = "nothing"}

\* A prompt takes one answer, and one that it can take: the hub sends it
\* while the server waits.
Takes(r, kinds) == r \in Unanswered /\ what[r] \in kinds

Respond(r, kinds, outcome, said) ==
    /\ answered' = [answered EXCEPT ![r] = IF Takes(r, kinds) THEN outcome ELSE @]
    /\ sent' = IF Takes(r, kinds) /\ r \in open THEN [sent EXCEPT ![r] = Append(@, said)] ELSE sent
    /\ open' = IF Takes(r, kinds) THEN open \ {r} ELSE open

\* What waits on a promise, a timer or the child's output finds the
\* continuations of a burst done.
Quiet == due = <<>>

Hears(type, r) ==
    /\ Quiet /\ wire # <<>> /\ Head(wire) = Message(type, r)
    /\ wire' = Tail(wire)

\* A closing session refuses; what no panel can show is declined.
TurnedAway(r) ==
    /\ Hears("request", r)
    /\ disposed \/ what[r] = "unfit"
    /\ sent' = [sent EXCEPT ![r] = Append(@, "declined")]
    /\ UNCHANGED <<server, open, bridge, screen, life>>

\* onRequest: park, arm the timer, and show, unless the link was released.
Shown(r) ==
    /\ Hears("request", r)
    /\ ~disposed /\ what[r] # "unfit"
    /\ open' = open \cup {r}
    /\ parked' = parked \cup {r}
    /\ answered' = [answered EXCEPT ![r] = "nothing"]
    /\ round' = [round EXCEPT ![r] = 0]
    /\ armed' = IF what[r] = "timed" THEN armed \cup {r} ELSE armed
    /\ panel' = IF ~released /\ what[r] \in Permissions THEN Append(panel, r) ELSE panel
    /\ LET asks == ~released /\ what[r] \notin Permissions
           q == [ask |-> r, n |-> 0]
       IN  /\ sheet' = IF asks THEN Append(sheet, q) ELSE sheet
           /\ links' = IF asks THEN links \cup {q} ELSE links
    /\ UNCHANGED <<server, sent, told, noticed, reasons, due, life>>

\* serverRequest/resolved: the hub forgets the request, the bridge settles.
HearsResolved(r) ==
    /\ Hears("resolved", r)
    /\ open' = open \ {r}
    /\ Settle(parked \cap {r})
    /\ UNCHANGED <<server, sent, answered, round, noticed, reasons, due, life>>

\* item/completed: every prompt of the item settles, S the others the server is
\* done with.  An MCP server's form belongs to no item, and what a child thread
\* says of its items never gets here.
HearsItem(r) ==
    /\ Hears("item", r)
    /\ \E S \in SUBSET {s \in parked : OfTurn(s) /\ srv[s] = "over"} :
          Settle((parked \cap {r}) \cup S)
    /\ UNCHANGED <<server, open, sent, answered, round, noticed, reasons, due, life>>

\* Mistake: every prompt goes with the turn.
HearsTurnOfAll ==
    /\ Hears("turn", None)
    /\ Settle(parked)
    /\ UNCHANGED <<server, open, sent, answered, round, noticed, reasons, due, life>>

\* turnEnded: the prompts of other threads outlive the turn, but a form is
\* parked without its thread.  Nothing is answered.
HearsTurn ==
    /\ Hears("turn", None)
    /\ Settle({r \in parked : r \notin child \/ what[r] = "form"})
    /\ UNCHANGED <<server, open, sent, answered, round, noticed, reasons, due, life>>

\* The timer answers for the user and says so.
TimesOut(r) ==
    /\ Quiet /\ r \in armed
    /\ armed' = armed \ {r}
    /\ Respond(r, Questions, "once", "auto")
    /\ noticed' = noticed \cup {r}
    /\ UNCHANGED <<server, wire, parked, round, told, reasons, screen, life>>

\* withdrawAll: answer and close everything still open.
Withdraw ==
    /\ sent' = [r \in Asks |->
                  IF r \in Unanswered \cap open THEN Append(sent[r], "withdrawn") ELSE sent[r]]
    /\ open' = open \ Unanswered
    /\ Settle(parked)
    /\ UNCHANGED <<server, wire, answered, round, noticed, reasons, due>>

\* The session is told to stop for a switch, and goes on.
SwitchCancels == ~disposed /\ Withdraw /\ UNCHANGED life

Disposed == ~disposed /\ disposed' = TRUE /\ Withdraw /\ UNCHANGED released

\* The child is gone with all it asked: what was parked is closed unanswered.
ConnectionLost ==
    /\ Quiet
    /\ srv' = [r \in Asks |-> IF srv[r] = "open" THEN "over" ELSE srv[r]]
    /\ wire' = <<>> /\ open' = {}
    /\ Settle(parked)
    /\ UNCHANGED <<what, child, sent, answered, round, noticed, reasons, due, life>>

-----------------------------------------------------------------------------
(* The user.                                                               *)

\* What the panel never offered is a refusal: a command has no "always".
Chosen(r, v) == IF v = "always" /\ what[r] = "command" THEN "reject" ELSE v

\* Mistake: the outcome is what the user picked, whatever was sent.
RecordedAsPicked(r, v) == IF v \in {"once", "always"} THEN v ELSE "rejected"

\* The outcome is what was sent.
Recorded(r, v) == IF Chosen(r, v) \in {"once", "always"} THEN Chosen(r, v) ELSE "rejected"

\* A plain rejection declines where the server lets it, one with a reason
\* cancels the turn, and the reason runs as the next one.
Decision(r, v) ==
    CASE v = "once" -> "accept"
      [] v = "always" -> "acceptForSession"
      [] v = "reject" /\ what[r] = "command" -> "cancel"
      [] v = "explain" /\ what[r] # "permissions" -> "cancel"
      [] OTHER -> "decline"

\* decide: the prompt leaves the panel at once, and the bridge is called.
Decides(v) ==
    /\ panel # <<>>
    /\ panel' = Tail(panel)
    /\ LET r == Head(panel)
       IN  /\ Respond(r, Permissions, Recorded(r, v), Decision(r, Chosen(r, v)))
           /\ reasons' = [reasons EXCEPT ![r] = IF v = "explain" /\ Takes(r, Permissions) THEN @ + 1 ELSE @]
    /\ UNCHANGED <<server, wire, parked, round, armed, told, noticed, sheet, links, due, life>>

\* answerCurrent, cancelCurrent: the questionnaire leaves the panel, and the
\* promise of its ask is resolved.
Answers(act) ==
    /\ sheet # <<>>
    /\ LET q == Head(sheet) IN
        /\ act = "bad" => what[q.ask] = "form" /\ q.n < MaxRounds
        /\ act = "decline" => what[q.ask] = "form" /\ q.n = 0
        /\ due' = Append(due, [q |-> q, act |-> act])
    /\ sheet' = Tail(sheet)
    /\ UNCHANGED <<server, wire, open, sent, bridge, panel, links, life>>

\* The continuation of an ask that was withdrawn meanwhile does nothing.
ComesTooLate ==
    /\ due # <<>> /\ Head(due).q \notin links
    /\ due' = Tail(due)
    /\ UNCHANGED <<server, wire, open, sent, bridge, panel, sheet, links, life>>

\* respondQuestion, cancelQuestion: the timer stops, the answer goes out.
Reaches(r) ==
    /\ due # <<>> /\ Head(due).q \in links /\ Head(due).q.ask = r /\ Head(due).act # "bad"
    /\ due' = Tail(due)
    /\ links' = links \ {Head(due).q}
    /\ armed' = armed \ {r}
    /\ LET act == Head(due).act IN
        Respond(r, Questions \cup {"form"},
                CASE act = "good" -> "once" [] act = "decline" -> "rejected" [] OTHER -> "cancelled", act)
    /\ UNCHANGED <<server, wire, parked, round, told, noticed, reasons, panel, sheet, life>>

\* A form with invalid fields is asked again, under a new id.
AsksAgain(r) ==
    /\ due # <<>> /\ Head(due).q \in links /\ Head(due).q.ask = r /\ Head(due).act = "bad"
    /\ due' = Tail(due)
    /\ round' = [round EXCEPT ![r] = @ + 1]
    /\ LET q == [ask |-> r, n |-> round[r] + 1] IN
        sheet' = Append(sheet, q) /\ links' = (links \ {Head(due).q}) \cup {q}
    /\ UNCHANGED <<server, wire, open, sent, parked, answered, armed, told, noticed, reasons,
                   panel, life>>

\* release(): the session leaves the binding with every prompt it showed.
Released ==
    /\ ~released /\ released' = TRUE
    /\ panel' = <<>> /\ sheet' = <<>> /\ links' = {}
    /\ UNCHANGED <<server, wire, open, sent, bridge, due, disposed>>

-----------------------------------------------------------------------------
Acts == {"good", "bad", "decline", "cancel"}

Listens(r) ==
    TurnedAway(r) \/ Shown(r) \/ HearsResolved(r) \/ HearsItem(r)

Continues == ComesTooLate \/ \E r \in Asks : Reaches(r) \/ AsksAgain(r)

Next ==
    \/ \E r \in Asks :
        \/ ServerAsks(r) \/ ServerTakes(r) \/ ResolvedElsewhere(r)
        \/ Listens(r) \/ TimesOut(r)
    \/ ServerEndsTurn \/ HearsTurn \/ ConnectionLost
    \/ \E v \in {"once", "always", "reject", "explain"} : Decides(v)
    \/ \E act \in Acts : Answers(act)
    \/ Continues \/ SwitchCancels \/ Disposed \/ Released

Spec == Init /\ [][Next]_vars

\* The hub reads what arrives, continuations run, timers fire, and the server
\* takes the answers it gets; the user may never answer.
Fairness ==
    /\ WF_vars(HearsTurn \/ \E r \in Asks : Listens(r))
    /\ WF_vars(Continues)
    /\ \A r \in Asks : WF_vars(TimesOut(r)) /\ WF_vars(ServerTakes(r))

LiveSpec == Spec /\ Fairness

-----------------------------------------------------------------------------
(* Properties.                                                             *)

Questionnaire == [ask : Asks, n : 0 .. MaxRounds]

\* The shape of the state.
TypeOK ==
    /\ srv \in [Asks -> {"none", "open", "over"}] /\ what \in [Asks -> Kinds]
    /\ child \subseteq Asks /\ open \subseteq Asks
    /\ wire \in Seq([type : {"request", "resolved", "item", "turn"}, ask : Asks \cup {None}])
    /\ \A r \in Asks : sent[r] \in Seq(STRING)
    /\ parked \subseteq Asks /\ armed \subseteq Asks /\ noticed \subseteq Asks
    /\ answered \in [Asks -> Outcomes \cup {"nothing"}] /\ told \in [Asks -> Outcomes \cup {"nothing"}]
    /\ round \in [Asks -> 0 .. MaxRounds] /\ reasons \in [Asks -> Nat]
    /\ panel \in Seq(Asks) /\ sheet \in Seq(Questionnaire) /\ links \subseteq Questionnaire
    /\ due \in Seq([q : Questionnaire, act : Acts])
    /\ released \in BOOLEAN /\ disposed \in BOOLEAN

OnScreen == ToSet(panel) \cup {q.ask : q \in ToSet(sheet)}
OnItsWay == {q \in links : \E i \in 1 .. Len(due) : due[i].q = q}

\* The panel is the bridge's: what is shown is parked, once, in its current
\* round, and what the user can still answer is shown, or its answer is on
\* its way, until the session leaves the binding.
PanelIsHonest ==
    /\ OnScreen \subseteq parked
    /\ IsInjective(panel) /\ IsInjective(sheet)
    /\ \A q \in ToSet(sheet) : q = Sheet(q.ask) /\ q \in links
    /\ ~released => Unanswered \subseteq OnScreen \cup {q.ask : q \in OnItsWay}

\* What the user is told is what the server was told.
ToldIsSent ==
    \A r \in Asks :
        /\ told[r] = "once" => sent[r] = <<"accept">>
        /\ told[r] = "always" => sent[r] = <<"acceptForSession">>
        /\ told[r] = "rejected" => sent[r] \in {<<"decline">>, <<"cancel">>}
        /\ told[r] = "cancelled" => sent[r] \in {<<>>, <<"withdrawn">>}
        /\ r \in noticed => sent[r] = <<"auto">>
        /\ reasons[r] > 0 => reasons[r] = 1 /\ sent[r] \in {<<"decline">>, <<"cancel">>}

\* A request the server still waits for, and the hub has not answered, is
\* parked for as long as the session is bound; a form aside.
Waiting(r) == srv[r] = "open" /\ r \in open /\ ~released /\ ~disposed
NoneForgotten == \A r \in Asks : Waiting(r) /\ what[r] # "form" => r \in parked

\* "Fail closed: an allow-always the prompt never offered is a refusal."
NeverMoreThanOffered ==
    \A r \in Asks : what[r] = "command" => \A i \in 1 .. Len(sent[r]) : sent[r][i] # "acceptForSession"

\* No request is answered twice.
OneAnswer == \A r \in Asks : Len(sent[r]) <= 1

\* A question with a time limit does not keep the server waiting, whether or
\* not the user answers and whatever else ends first.
TimedEnds == \A r \in Asks : srv[r] = "open" /\ what[r] = "timed" ~> srv[r] # "open"

\* What the code says of a subagent's request: it "must SURVIVE this thread's
\* turn completion - the server still awaits its answer" (approvals.ts:47-48).
ChildSurvives == \A r \in child : Waiting(r) => r \in parked

=============================================================================
