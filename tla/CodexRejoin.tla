------------------------------ MODULE CodexRejoin ------------------------------
(* One Codex session (backends/codex/session/session.ts) across the losses   *)
(* of the connection it shares: what it holds back while it rejoins its      *)
(* thread on a new child, when its input queue reopens, what becomes of the  *)
(* inputs and of the server's requests, and its disposal.                    *)
(*                                                                           *)
(* The hub is what CodexHub proves of it: it tells the session of every loss *)
(* and restoration, in order, and counts its children in `generation`.  Of   *)
(* the input queue (input.ts) the placements of idle and queued inputs are   *)
(* kept; steering and interrupts are not.                                    *)
EXTENDS Naturals, Sequences

CONSTANTS
    Inputs,     \* submissions, by client id
    Requests,   \* server requests (approvals, questions)
    MaxGen,     \* TLC's bound on the hub's generations
    Nothing     \* no input

ASSUME RejoinAssumption == MaxGen \in Nat \ {0} /\ Nothing \notin Inputs

VARIABLES
    (* the hub *)
    link,       \* up, waiting (back-off), shaking (handshake), dead
    gen,        \* hub.generation
    asked,      \* requests of the live connection not answered yet (pendingServer)
    native,     \* the thread's turn runs on the server
    (* the session *)
    rejoining, connected,
    lost,       \* permanentlyLost
    held,       \* requests among reconnectHeld
    heldEnd,    \* the end of the turn is among reconnectHeld
    parked,     \* requests on the panel (ApprovalBridge.parked)
    closing,    \* no, begun (disposing), done
    told,       \* the last codex-connection notice
    flow,       \* connectionRestored's continuation: [gen, at]
    authing,    \* generation whose auth.start() is awaited, 0 if none
    authed,     \* last generation whose auth.start() has settled
    (* its input queue *)
    offline, dead, queue,
    turn,       \* none, starting (turn/start is on the wire), running
    cur,        \* the input of that turn
    fate        \* what the channel knows of each input

hub == <<link, gen>>
server == <<asked, native>>
rejoin == <<rejoining, connected, lost, heldEnd, told, flow>>
prompts == <<held, parked>>
auth == <<authing, authed>>
gate == <<offline, dead>>
inputs == <<queue, turn, cur, fate>>
vars == <<hub, server, rejoin, prompts, closing, auth, gate, inputs>>

Fates == {"none", "queued", "sent", "ran", "dropped", "discarded", "refused", "closed"}
NoFlow == [gen |-> 0, at |-> "none"]

TypeOK ==
    /\ link \in {"up", "waiting", "shaking", "dead"} /\ gen \in 1..MaxGen
    /\ asked \subseteq Requests /\ held \subseteq Requests /\ parked \subseteq Requests
    /\ native \in BOOLEAN /\ rejoining \in BOOLEAN /\ connected \in BOOLEAN /\ lost \in BOOLEAN
    /\ heldEnd \in BOOLEAN /\ offline \in BOOLEAN /\ dead \in BOOLEAN
    /\ closing \in {"no", "begun", "done"}
    /\ told \in {"none", "lost", "failed", "incomplete", "reconnected"}
    /\ flow \in [gen : 0..MaxGen, at : {"none", "resume", "refresh", "auth"}]
    /\ authing \in 0..MaxGen /\ authed \in 0..MaxGen
    /\ queue \in Seq(Inputs) /\ cur \in Inputs \cup {Nothing}
    /\ turn \in {"none", "starting", "running"}
    /\ fate \in [Inputs -> Fates]
    /\ turn = "none" => cur = Nothing

(* A session opened on the first child: backend.ts has awaited auth.start().*)
Init ==
    /\ link = "up" /\ gen = 1 /\ asked = {} /\ native = FALSE
    /\ rejoining = FALSE /\ connected = TRUE /\ lost = FALSE
    /\ held = {} /\ heldEnd = FALSE /\ parked = {}
    /\ closing = "no" /\ told = "none" /\ flow = NoFlow
    /\ authing = 0 /\ authed = 1
    /\ offline = FALSE /\ dead = FALSE /\ queue = <<>>
    /\ turn = "none" /\ cur = Nothing /\ fate = [i \in Inputs |-> "none"]

Closed == closing # "no" \/ lost                    \* deps.closed()
Current == closing = "no" /\ flow.gen = gen         \* current()
Settled(is, f) == [i \in Inputs |-> IF i \in is THEN f ELSE fate[i]]
Queued == {queue[k] : k \in DOMAIN queue}

-----------------------------------------------------------------------------
(* The input queue.                                                         *)

(* Mistake: what is parked is reported dropped and stays in the queue.      *)
LossKeepsQueue == offline' = FALSE /\ dead' = TRUE /\ UNCHANGED queue

(* InputQueue.permanentLoss: what was parked never went out.                *)
PermanentLoss ==
    /\ offline' = FALSE /\ dead' = TRUE
    /\ queue' = <<>>

(* startTurn, with what is left of the queue.                               *)
Start(i, rest) ==
    /\ turn' = "starting" /\ cur' = i /\ queue' = rest
    /\ fate' = [fate EXCEPT ![i] = "sent"]

(* drain: the next queued input starts when the thread is idle.             *)
Drain(open) ==
    IF open /\ queue # <<>> THEN Start(Head(queue), Tail(queue)) ELSE UNCHANGED inputs

(* InputQueue.submit.                                                       *)
Submit(i) ==
    /\ fate[i] = "none" /\ closing # "done"
    /\ \/ /\ Closed \/ dead
          /\ fate' = [fate EXCEPT ![i] = "refused"]
          /\ UNCHANGED <<queue, turn, cur>>
       \/ /\ ~Closed /\ ~dead /\ ~offline /\ turn = "none"
          /\ Start(i, queue)
       \/ /\ ~Closed /\ ~dead /\ (offline \/ turn # "none")
          /\ queue' = Append(queue, i) /\ fate' = [fate EXCEPT ![i] = "queued"]
          /\ UNCHANGED <<turn, cur>>
    /\ UNCHANGED <<hub, server, rejoin, prompts, closing, auth, gate>>

(* The server answers turn/start: the turn runs.                            *)
StartAnswered ==
    /\ turn = "starting" /\ link = "up"
    /\ turn' = "running" /\ native' = TRUE
    /\ UNCHANGED <<hub, asked, rejoin, prompts, closing, auth, gate, queue, cur, fate>>

(* ... or refuses it.                                                       *)
StartRefused ==
    /\ turn = "starting" /\ link = "up"
    /\ turn' = "none" /\ cur' = Nothing /\ fate' = Settled({cur}, "dropped")
    /\ UNCHANGED <<hub, server, rejoin, prompts, closing, auth, gate, queue>>

(* ... or a closed client rejects it at once: no refusal, a discard.        *)
StartCutOff ==
    /\ turn = "starting" /\ link \in {"waiting", "dead"}
    /\ turn' = "none" /\ cur' = Nothing /\ fate' = Settled({cur}, "discarded")
    /\ UNCHANGED <<hub, server, rejoin, prompts, closing, auth, gate, queue>>

(* The turn shows the user message of its input.                            *)
Echoed ==
    /\ turn = "running" /\ native /\ link = "up" /\ ~rejoining /\ ~Closed
    /\ cur # Nothing /\ fate[cur] = "sent"
    /\ fate' = [fate EXCEPT ![cur] = "ran"]
    /\ UNCHANGED <<hub, server, rejoin, prompts, closing, auth, gate, queue, turn, cur>>

(* What the end of a turn makes of an input it did not show.                *)
TurnOver == IF cur # Nothing /\ fate[cur] = "sent" THEN Settled({cur}, "dropped") ELSE fate

(* InputQueue.onTurnCompleted: the next queued input starts, unless a start *)
(* is on the wire.                                                          *)
TurnCompleted ==
    IF turn = "starting"
    THEN fate' = TurnOver /\ UNCHANGED <<queue, turn, cur>>
    ELSE IF ~offline /\ queue # <<>>
    THEN /\ turn' = "starting" /\ cur' = Head(queue) /\ queue' = Tail(queue)
         /\ fate' = [TurnOver EXCEPT ![Head(queue)] = "sent"]
    ELSE turn' = "none" /\ cur' = Nothing /\ fate' = TurnOver /\ UNCHANGED queue

(* turn/completed: ignored, held back, or taken.                            *)
TurnEnds ==
    /\ native /\ link = "up" /\ native' = FALSE
    /\ \/ Closed /\ UNCHANGED <<heldEnd, inputs>>
       \/ ~Closed /\ rejoining /\ heldEnd' = TRUE /\ UNCHANGED inputs
       \/ ~Closed /\ ~rejoining /\ TurnCompleted /\ UNCHANGED heldEnd
    /\ UNCHANGED <<hub, asked, rejoining, connected, lost, told, flow>>
    /\ UNCHANGED <<prompts, closing, auth, gate>>

-----------------------------------------------------------------------------
(* The server's requests.                                                   *)

(* The sink's serverRequest: held back while rejoining, else shown.  (One    *)
(* that comes while the session closes is answered with an error at once.)  *)
Ask(r) ==
    /\ link = "up" /\ r \notin asked /\ closing = "no"
    /\ asked' = asked \cup {r}
    /\ IF rejoining THEN held' = held \cup {r} /\ UNCHANGED parked
                    ELSE parked' = parked \cup {r} /\ UNCHANGED held
    /\ UNCHANGED <<hub, native, rejoin, closing, auth, gate, inputs>>

(* The same from a line of the dead child that is read late: the hub drops   *)
(* it only once it has started the next child.                              *)
AskLate(r) ==
    /\ link = "waiting" /\ r \notin asked /\ closing = "no"
    /\ asked' = asked \cup {r}
    /\ IF rejoining THEN held' = held \cup {r} /\ UNCHANGED parked
                    ELSE parked' = parked \cup {r} /\ UNCHANGED held
    /\ UNCHANGED <<hub, native, rejoin, closing, auth, gate, inputs>>

(* The user answers; an answer to a request that is over goes nowhere.      *)
AnswerPrompt(r) ==
    /\ r \in parked /\ closing = "no"
    /\ asked' = asked \ {r} /\ parked' = parked \ {r}
    /\ UNCHANGED <<hub, native, rejoin, held, closing, auth, gate, inputs>>

(* serverRequest/resolved: the hub forgets it; a lost session ignores that. *)
Resolve(r) ==
    /\ r \in asked /\ link = "up"
    /\ asked' = asked \ {r}
    /\ held' = held \ {r}
    /\ parked' = IF lost THEN parked ELSE parked \ {r}
    /\ UNCHANGED <<hub, native, rejoin, closing, auth, gate, inputs>>

-----------------------------------------------------------------------------
(* The loss of the connection.                                              *)

(* Everything on the wire is lost with the child; a turn may survive it     *)
(* (a shared daemon behind a proxy).                                        *)
ChildGone ==
    /\ link = "up" /\ link' = "waiting"
    /\ asked' = {}
    /\ native' \in (IF native \/ turn = "starting" THEN BOOLEAN ELSE {FALSE})
    /\ UNCHANGED gen

(* Mistake: prompts of the dead child stay.                                 *)
ConnectionLostKeepsPrompts ==
    /\ closing = "no"
    /\ connected' = FALSE
    /\ held' = {} /\ heldEnd' = FALSE /\ UNCHANGED parked

(* connectionLost(error, permanent), but for the input queue.               *)
ConnectionLost ==
    /\ closing = "no"
    /\ connected' = FALSE
    /\ held' = {} /\ heldEnd' = FALSE /\ parked' = {}

(* InputQueue.connectionLost: delivery of what was sent is unknown.         *)
Cut == IF cur # Nothing /\ fate[cur] = "sent" THEN Settled({cur}, "discarded") ELSE fate

(* Mistake: a loss that is not permanent leaves the session permanently lost.*)
ExitHeardStaysLost ==
    /\ ChildGone /\ ConnectionLost /\ flow.at # "resume"
    /\ rejoining' = TRUE /\ UNCHANGED lost /\ told' = "lost"
    /\ flow' = IF flow.at = "refresh" THEN NoFlow ELSE flow
    /\ offline' = TRUE /\ turn' = "none" /\ cur' = Nothing /\ fate' = Cut
    /\ UNCHANGED <<closing, auth, dead, queue>>

(* The loss is heard and the queue is closed; no continuation is waiting    *)
(* for an answer of that child (or it is the one of tasks.refresh, which    *)
(* returns since the connection is gone).                                   *)
ExitHeard ==
    /\ ChildGone /\ ConnectionLost /\ flow.at # "resume"
    /\ rejoining' = TRUE /\ lost' = FALSE /\ told' = "lost"
    /\ flow' = IF flow.at = "refresh" THEN NoFlow ELSE flow
    /\ offline' = TRUE /\ turn' = "none" /\ cur' = Nothing /\ fate' = Cut
    /\ UNCHANGED <<closing, auth, dead, queue>>

(* The child dies before it has answered thread/resume (or a page of turns):*)
(* the call is rejected before the hub has counted the next generation.     *)
ExitWhileResuming ==
    /\ ChildGone /\ ConnectionLost /\ flow.at = "resume"
    /\ rejoining' = FALSE /\ lost' = TRUE /\ told' = "failed"
    /\ flow' = NoFlow
    /\ PermanentLoss /\ turn' = "none" /\ cur' = Nothing
    /\ fate' = [i \in Inputs |-> IF i \in Queued THEN "dropped" ELSE Cut[i]]
    /\ UNCHANGED <<closing, auth>>

(* The child dies while only auth.start() is awaited, whose own calls fail: *)
(* it settles, and the queue reopens before the next generation.            *)
ExitWhileAuth ==
    /\ ChildGone /\ ConnectionLost /\ flow.at = "auth"
    /\ rejoining' = TRUE /\ lost' = FALSE /\ told' = "lost"
    /\ flow' = NoFlow /\ authing' = 0 /\ authed' = authing
    /\ offline' = FALSE /\ dead' = FALSE
    /\ IF queue # <<>>
       THEN /\ turn' = "starting" /\ cur' = Head(queue) /\ queue' = Tail(queue)
            /\ fate' = [Cut EXCEPT ![Head(queue)] = "sent"]
       ELSE turn' = "none" /\ cur' = Nothing /\ fate' = Cut /\ UNCHANGED queue
    /\ UNCHANGED closing

(* A session that closes does not hear it.                                  *)
ExitUnheard ==
    /\ ChildGone /\ closing # "no"
    /\ UNCHANGED <<rejoin, prompts, closing, auth, gate, inputs>>

(* The hub: the back-off passes, the new child fails its handshake.         *)
Connect ==
    /\ link = "waiting" /\ gen < MaxGen /\ turn # "starting"
    /\ link' = "shaking" /\ gen' = gen + 1 /\ asked' = {}
    /\ UNCHANGED <<native, rejoin, prompts, closing, auth, gate, inputs>>
ShakeFails ==
    /\ link = "shaking" /\ gen < MaxGen /\ link' = "waiting"
    /\ UNCHANGED <<gen, server, rejoin, prompts, closing, auth, gate, inputs>>

(* The restart budget is spent: connectionLost(error, true).                *)
GivenUp ==
    /\ link = "shaking" /\ link' = "dead"
    /\ \/ /\ ConnectionLost
          /\ rejoining' = FALSE /\ lost' = TRUE /\ told' = "failed"
          /\ PermanentLoss /\ fate' = Settled(Queued, "dropped")
          /\ UNCHANGED <<flow, turn, cur>>
       \/ /\ closing # "no"
          /\ UNCHANGED <<rejoin, prompts, gate, inputs>>
    /\ UNCHANGED <<gen, server, closing, auth>>

-----------------------------------------------------------------------------
(* Rejoining.                                                               *)

(* connectionRestored: thread/resume is sent, auth.start() runs beside it.  *)
Restored ==
    /\ link = "shaking" /\ gen < MaxGen /\ link' = "up"
    /\ IF closing = "no"
       THEN flow' = [gen |-> gen, at |-> "resume"] /\ authing' = gen
       ELSE UNCHANGED <<flow, authing>>
    /\ UNCHANGED <<gen, server, rejoining, connected, lost, heldEnd, told>>
    /\ UNCHANGED <<prompts, closing, authed, gate, inputs>>

(* Mistake: what was held back is discarded as it is when a rejoin fails.   *)
RejoinedDiscards ==
    /\ flow.at = "resume" /\ link = "up" /\ Current
    /\ turn' = IF native /\ turn = "none" THEN "running" ELSE turn
    /\ rejoining' = FALSE /\ connected' = TRUE /\ told' = "reconnected"
    /\ held' = {} /\ heldEnd' = FALSE
    /\ flow' = [flow EXCEPT !.at = "refresh"]
    /\ UNCHANGED <<hub, server, lost, closing, auth, gate, parked, queue, cur, fate>>

(* The snapshot is there: missing turns are replayed, a turn that runs is    *)
(* taken up, and what was held back is delivered.                           *)
Rejoined ==
    /\ flow.at = "resume" /\ link = "up" /\ Current
    /\ IF heldEnd THEN TurnCompleted
       ELSE /\ turn' = IF native /\ turn = "none" THEN "running" ELSE turn
            /\ UNCHANGED <<queue, cur, fate>>
    /\ rejoining' = FALSE /\ connected' = TRUE /\ told' = "reconnected"
    /\ held' = {} /\ heldEnd' = FALSE /\ parked' = parked \cup held
    /\ flow' = [flow EXCEPT !.at = "refresh"]
    /\ UNCHANGED <<hub, server, lost, closing, auth, gate>>

(* Mistakes: only the notice is sent; the queue is left parked.             *)
ResumeRefusedZombie ==
    /\ flow.at = "resume" /\ link = "up" /\ Current
    /\ told' = "failed" /\ flow' = NoFlow
    /\ UNCHANGED <<rejoining, lost, heldEnd, connected>>
    /\ UNCHANGED <<hub, server, prompts, closing, auth, gate, inputs>>
ResumeRefusedParks ==
    /\ flow.at = "resume" /\ link = "up" /\ Current
    /\ rejoining' = FALSE /\ lost' = TRUE /\ told' = "failed"
    /\ held' = {} /\ heldEnd' = FALSE
    /\ flow' = NoFlow
    /\ UNCHANGED <<hub, server, connected, parked, closing, auth, gate, inputs>>

(* thread/resume or a page is refused or times out.                         *)
ResumeRefused ==
    /\ flow.at = "resume" /\ link = "up" /\ Current
    /\ rejoining' = FALSE /\ lost' = TRUE /\ told' = "failed"
    /\ held' = {} /\ heldEnd' = FALSE
    /\ flow' = NoFlow
    /\ PermanentLoss /\ fate' = Settled(Queued, "dropped")
    /\ UNCHANGED <<hub, server, connected, parked, closing, auth, turn, cur>>

(* The turns missed do not reach back to a known one: incomplete().         *)
RejoinIncomplete ==
    /\ flow.at = "resume" /\ link = "up" /\ Current
    /\ rejoining' = FALSE /\ lost' = TRUE /\ told' = "incomplete"
    /\ held' = {} /\ heldEnd' = FALSE
    /\ flow' = NoFlow
    /\ UNCHANGED <<hub, server, connected, parked, closing, auth, gate, inputs>>

(* InputQueue.connectionRestored.                                           *)
Reopen == offline' = FALSE /\ dead' = FALSE /\ Drain(~Closed /\ turn = "none")

(* Mistake: the queue reopens without the credentials.                      *)
RefreshDoneAtOnce ==
    /\ flow.at = "refresh" /\ link = "up" /\ Current
    /\ flow' = NoFlow /\ Reopen
    /\ UNCHANGED <<hub, server, rejoining, connected, lost, heldEnd, told>>
    /\ UNCHANGED <<prompts, closing, auth>>

(* tasks.refresh() is over; it swallows its errors.                         *)
RefreshDone ==
    /\ flow.at = "refresh" /\ link = "up" /\ Current
    /\ IF authing = 0 THEN flow' = NoFlow /\ Reopen
                      ELSE flow' = [flow EXCEPT !.at = "auth"] /\ UNCHANGED <<gate, inputs>>
    /\ UNCHANGED <<hub, server, rejoining, connected, lost, heldEnd, told>>
    /\ UNCHANGED <<prompts, closing, auth>>

(* auth.start() settles; its failure counts as settled.                     *)
AuthSettles ==
    /\ authing # 0 /\ authing' = 0 /\ authed' = authing
    /\ flow' = IF flow.at = "auth" THEN NoFlow ELSE flow
    /\ IF flow.at = "auth" /\ Current THEN Reopen ELSE UNCHANGED <<gate, inputs>>
    /\ UNCHANGED <<hub, server, rejoining, connected, lost, heldEnd, told>>
    /\ UNCHANGED <<prompts, closing>>

-----------------------------------------------------------------------------
(* dispose(): prompts are answered with a cancel, then the session closes   *)
(* over some awaits (interrupt, thread/unsubscribe).                        *)
DisposeBegins ==
    /\ closing = "no" /\ closing' = "begun"
    /\ asked' = asked \ parked /\ parked' = {}
    /\ UNCHANGED <<hub, native, rejoin, held, auth, gate, inputs>>
DisposeEnds ==
    /\ closing = "begun" /\ closing' = "done"
    /\ held' = {} /\ heldEnd' = FALSE
    /\ queue' = <<>> /\ fate' = Settled(Queued, "closed")
    /\ UNCHANGED <<hub, server, rejoining, connected, lost, told, flow>>
    /\ UNCHANGED <<parked, auth, gate, turn, cur>>

Next ==
    \/ \E i \in Inputs : Submit(i)
    \/ StartAnswered \/ StartRefused \/ StartCutOff \/ Echoed \/ TurnEnds
    \/ \E r \in Requests : Ask(r) \/ AskLate(r) \/ AnswerPrompt(r) \/ Resolve(r)
    \/ ExitHeard \/ ExitWhileResuming \/ ExitWhileAuth \/ ExitUnheard
    \/ Connect \/ ShakeFails \/ GivenUp
    \/ Restored \/ Rejoined \/ ResumeRefused \/ RejoinIncomplete
    \/ RefreshDone \/ AuthSettles
    \/ DisposeBegins \/ DisposeEnds

Spec == Init /\ [][Next]_vars

-----------------------------------------------------------------------------
(* What the queue and the panel keep whatever happens.                      *)

(* Exactly the inputs whose submitter was told they are queued are in the   *)
(* queue, once each: none that was reported dropped or discarded can still  *)
(* be sent, and none is lost without a report.                              *)
QueueHonest ==
    closing # "done" =>
        /\ Queued = {i \in Inputs : fate[i] = "queued"}
        /\ \A j, k \in DOMAIN queue : queue[j] = queue[k] => j = k

(* An input that was sent is remembered until it is claimed, dropped or     *)
(* discarded, over any number of lost connections.                          *)
SentIsRemembered == \A i \in Inputs : fate[i] = "sent" => cur = i

-----------------------------------------------------------------------------
(* What comments and tests say of a reconnect; each is refuted for Next.    *)

(* "never a false reconnect success": a session told it is reconnected is   *)
(* not permanently lost (verify-codex-reconnect.ts).                        *)
ReconnectedIsUsable == told = "reconnected" /\ closing = "no" => ~lost

(* "nothing will ever drain that queue, so parking forever would lie to the *)
(* user": a lost session has dropped what was parked (connectionLost).      *)
NothingParkedForever == lost /\ closing = "no" => queue = <<>>

(* "unrouted requests never left hanging": whatever the server waits for    *)
(* is on the panel or held back for it (verify-codex-hub.ts).               *)
NoRequestForgotten == closing = "no" => asked \subseteq held \cup parked

(* "stale generations dropped" (verify-codex-hub.ts): every prompt of a      *)
(* session that lives, shown or held back, is one the server waits for.     *)
PromptsAreLive == closing = "no" /\ ~lost => held \cup parked \subseteq asked

(* "a submit can never reach the new child before its credentials exist",   *)
(* nor before the thread is resumed there (connectionRestored).             *)
CredentialsFirst ==
    turn = "starting" /\ link = "up" /\ closing = "no" => authed = gen /\ ~rejoining

-----------------------------------------------------------------------------
(* Where those five hold: no child dies while a rejoin is under way, no      *)
(* request of a dead child is read late, the turns missed reach back to a   *)
(* known one, and no rejoin is refused while requests are held back.        *)
SettledExits == link = "up" /\ link' # "up" => flow = NoFlow
GapsClosed == told # "incomplete" => told' # "incomplete"
RefusedFirst == flow.at = "resume" /\ lost' /\ ~lost => held = {}
DeadSilent == link # "up" => asked' \subseteq asked
Calm == SettledExits /\ DeadSilent /\ GapsClosed /\ RefusedFirst
CalmSpec == Init /\ [][Next /\ Calm]_vars

(* Timers, the handshake's and the calls' timeouts (client.ts) and the code  *)
(* behind an await run; of the server only that a turn that runs ends.      *)
Fairness ==
    /\ WF_vars(Connect) /\ WF_vars(Restored \/ ShakeFails \/ GivenUp)
    /\ WF_vars(Rejoined \/ ResumeRefused)
    /\ WF_vars(RefreshDone) /\ WF_vars(AuthSettles)
    /\ WF_vars(StartAnswered \/ StartRefused) /\ WF_vars(StartCutOff)
    /\ WF_vars(DisposeEnds)
TurnsEnd == WF_vars(TurnEnds)

(* ... and no turn/start is refused while inputs wait behind it: the        *)
(* refusal ends no turn, so nothing drains the queue.                       *)
RefusedAlone ==
    turn = "starting" /\ turn' = "none" /\ link = "up" /\ link' = "up" => queue = <<>>

FairSpec == Spec /\ Fairness
CalmFairSpec == CalmSpec /\ Fairness /\ TurnsEnd
DrainSpec == Init /\ [][Next /\ Calm /\ RefusedAlone]_vars /\ Fairness /\ TurnsEnd

(* A session never stays a zombie that rejoins for ever: the rejoin ends in *)
(* success, in an honest failure, or with the session.                      *)
RejoinSettles == rejoining ~> ~rejoining \/ closing # "no"

(* "followup - run after the current turn" (agent/session.ts): a queued      *)
(* input is sent, or its submitter hears that it was dropped.               *)
QueuedIsSettled == \A i \in Inputs : fate[i] = "queued" ~> fate[i] # "queued"
=============================================================================
