------------------------------- MODULE CodexInput -------------------------------
(* The input queue of one Codex thread (backends/codex/session/input.ts)     *)
(* against the app-server: idle, queued, steered and `now` inputs, cancels,  *)
(* interrupts and their force-close timer, and a lost connection.            *)
(*                                                                           *)
(* The lines of one chunk of the child's output are taken one after another  *)
(* before any `await` that one of them answers continues (rpc/transport.ts); *)
(* `chunk` counts the lines still to take and `micro` holds the              *)
(* continuations that then run, before anything else of the program does.    *)
(*                                                                           *)
(* /review, which splits the ids of a turn, is left out, and so are the      *)
(* files of pictures a submission waits for.                                 *)
EXTENDS Naturals, Sequences

CONSTANTS
    Inputs,     \* submissions, by client id
    Nothing,    \* no input
    MaxTurns,   \* TLC's bound on the turns the server starts
    MaxSlips,   \* ... on calls that time out and connections that are lost
    MaxChunk,   \* ... on the lines of a chunk
    MaxCancels  \* ... on cancels and interrupts by a dismissed prompt

ASSUME InputAssumption ==
    /\ Nothing \notin Inputs \cup {"user", "interrupt", "prompt"}
    /\ Inputs \cap {"user", "interrupt", "prompt"} = {}
    /\ MaxTurns \in Nat /\ MaxSlips \in Nat /\ MaxChunk \in Nat /\ MaxCancels \in Nat

VARIABLES
    (* the queue of the session *)
    queue,      \* inputs not sent yet: [id, urgent]
    started,    \* sent with turn/start, not claimed
    steered,    \* sent with turn/steer, not claimed
    active,     \* activeTurnId, 0 if none
    starting,   \* a turn/start is awaited
    cause,      \* cancelCause: none, user, interrupt (as are switch and dispose)
    force,      \* the turn of the force-close timer, 0 if it is not armed
    seen,       \* userMessageSeen
    offline, closed,
    ended,      \* turns whose end the session has taken (seenTurns)
    (* what it awaits *)
    wait,       \* calls whose answer it awaits, as sent
    waiting,    \* steers and interrupts that await `starting`
    micro,      \* continuations ready to run
    (* the connection *)
    toSrv, inbox, chunk, slips, cancels,
    (* the server *)
    srv,        \* its turn: [t, first, shown, pend, stopping]
    turns,
    (* what was said and done of each input: history *)
    new,        \* not submitted yet
    said,       \* what the channel was told
    ran,        \* how often it became part of a turn
    fell,       \* its turn/steer failed
    stray,      \* a turn/start was given up whose turn may run
    balked,     \* the last turn/start failed
    cover, gone \* covered by a cancel; by one answered "confirmed, none left"
                \* (and by no later one whose receipt names it again)

turn == <<active, starting, force, seen, ended>>
link == <<toSrv, inbox, chunk>>
bounds == <<slips, cancels>>
server == <<srv, turns, ran>>
history == <<new, said, fell, stray, balked, cover, gone>>
vars == <<queue, started, steered, turn, cause, offline, closed, wait, waiting, micro,
          link, bounds, server, history>>

Who == Inputs \cup {"user", "interrupt", "prompt"}
Turn == 0..MaxTurns
Call == [op : {"start", "next", "steer"}, i : Inputs, t : Turn] \cup [op : {"interrupt"}, i : Who, t : Turn]
Answers == {"ok", "refused", "error", "lost"}
Waiter == [op : {"steer"}, i : Inputs] \cup [op : {"interrupt"}, i : Who]
Continuation ==
    [k : {"answer"}, c : Call, r : Answers, t : Turn] \cup [k : {"drain"}]
    \cup [k : {"resume"}, op : {"steer"}, i : Inputs, t : Turn]
    \cup [k : {"resume"}, op : {"interrupt"}, i : Who, t : Turn]
Output ==
    [m : {"answer"}, c : Call, r : Answers, t : Turn] \cup [m : {"started"}, t : Turn \ {0}]
    \cup [m : {"shown"}, t : Turn, i : Inputs \cup {Nothing}]
    \cup [m : {"completed"}, t : Turn, interrupted : BOOLEAN]
Idle == [t |-> 0, first |-> Nothing, shown |-> FALSE, pend |-> {}, stopping |-> FALSE]

Elems(s) == {s[k] : k \in DOMAIN s}

(* What a sequence holds of a set, in its order.                            *)
Kept(s, S) ==
    LET kept[k \in 0..Len(s)] ==
            IF k = 0 THEN <<>>
            ELSE IF s[k] \in S THEN Append(kept[k - 1], s[k]) ELSE kept[k - 1]
    IN  kept[Len(s)]
Without(s, x) == Kept(s, Elems(s) \ {x})

Queued == {e.id : e \in Elems(queue)}
Steered == Elems(steered)
Busy == active # 0 \/ starting
Quiet == chunk = 0 /\ micro = <<>>          \* timers and the user come then
InterruptInFlight ==
    \/ \E c \in Elems(wait) : c.op = "interrupt"
    \/ \E m \in Elems(micro) : m.k = "answer" /\ m.c.op = "interrupt"

TypeOK ==
    /\ queue \in Seq([id : Inputs, urgent : BOOLEAN])
    /\ started \subseteq Inputs /\ steered \in Seq(Inputs)
    /\ active \in Turn /\ force \in Turn /\ ended \subseteq Turn
    /\ starting \in BOOLEAN /\ seen \in BOOLEAN /\ offline \in BOOLEAN /\ closed \in BOOLEAN
    /\ cause \in {"none", "user", "interrupt"}
    /\ wait \in Seq(Call) /\ toSrv \in Seq(Call)
    /\ waiting \in Seq(Waiter) /\ micro \in Seq(Continuation) /\ inbox \in Seq(Output)
    /\ srv \in [t : Turn, first : Inputs \cup {Nothing}, shown : BOOLEAN,
                pend : SUBSET Inputs, stopping : BOOLEAN]
    /\ turns \in Turn /\ stray \in BOOLEAN /\ balked \in BOOLEAN /\ chunk \in 0..MaxChunk /\ slips \in 0..MaxSlips
    /\ ran \in [Inputs -> Nat]
    /\ said \in [Inputs -> SUBSET {"claimed", "discarded", "dropped", "refused", "removed"}]
    /\ new \cup fell \cup cover \cup gone \subseteq Inputs

Init ==
    /\ queue = <<>> /\ started = {} /\ steered = <<>>
    /\ active = 0 /\ starting = FALSE /\ cause = "none" /\ force = 0 /\ seen = FALSE
    /\ offline = FALSE /\ closed = FALSE /\ ended = {}
    /\ wait = <<>> /\ waiting = <<>> /\ micro = <<>>
    /\ toSrv = <<>> /\ inbox = <<>> /\ chunk = 0 /\ slips = 0 /\ cancels = 0
    /\ srv = Idle /\ turns = 0 
    /\ new = Inputs /\ said = [i \in Inputs |-> {}] /\ ran = [i \in Inputs |-> 0]
    /\ fell = {} /\ stray = FALSE /\ balked = FALSE /\ cover = {} /\ gone = {}

Say(is, what) == [i \in Inputs |-> IF i \in is THEN said[i] \cup {what} ELSE said[i]]

-----------------------------------------------------------------------------
(* Sending.                                                                 *)

Sends(c) == wait' = Append(wait, c) /\ toSrv' = Append(toSrv, c)
SendsNothing == UNCHANGED <<wait, toSrv>>

(* startTurn up to its await; op "next" for one that was queued.            *)
StartTurn(op, i) ==
    /\ Sends([op |-> op, i |-> i, t |-> 0])
    /\ starting' = TRUE

(* drain, with what the caller has made of the queue, the running turn and  *)
(* the started inputs.                                                      *)
Drain(q, act, busyStarting, kept) ==
    IF ~offline' /\ ~closed' /\ act = 0 /\ ~busyStarting /\ q # <<>>
    THEN /\ StartTurn("next", Head(q).id) /\ started' = kept \cup {Head(q).id}
         /\ queue' = Tail(q)
    ELSE SendsNothing /\ starting' = busyStarting /\ started' = kept /\ queue' = q

(* interrupt() of the running turn, or once the starting one is known.      *)
Interrupt(who) ==
    IF active # 0 THEN Sends([op |-> "interrupt", i |-> who, t |-> active]) /\ UNCHANGED waiting
    ELSE waiting' = Append(waiting, [op |-> "interrupt", i |-> who]) /\ SendsNothing

(* submit, by where the input is placed.                                    *)
SubmitIdle(i) ==
    /\ ~closed /\ ~offline /\ ~Busy
    /\ StartTurn("start", i) /\ started' = started \cup {i}
    /\ UNCHANGED <<queue, steered, waiting, cause>>
SubmitQueued(i) ==
    /\ ~closed /\ (offline \/ Busy)
    /\ queue' = Append(queue, [id |-> i, urgent |-> FALSE])
    /\ SendsNothing /\ UNCHANGED <<starting, started, steered, waiting, cause>>
SubmitSteer(i) ==
    /\ ~closed /\ ~offline /\ Busy
    /\ IF active # 0
       THEN /\ steered' = Append(steered, i) /\ UNCHANGED waiting
            /\ Sends([op |-> "steer", i |-> i, t |-> active])
       ELSE /\ waiting' = Append(waiting, [op |-> "steer", i |-> i])
            /\ SendsNothing /\ UNCHANGED steered
    /\ UNCHANGED <<queue, started, starting, cause>>
SubmitNow(i) ==
    /\ ~closed /\ ~offline /\ Busy
    /\ queue' = <<[id |-> i, urgent |-> TRUE]>> \o queue
    /\ cause' = IF cause = "none" THEN "user" ELSE cause
    /\ Interrupt(i)
    /\ UNCHANGED <<started, steered, starting>>
SubmitRefused(i) ==
    /\ closed /\ SendsNothing
    /\ UNCHANGED <<queue, started, steered, waiting, starting, cause>>

Submit(i) ==
    /\ Quiet /\ i \in new /\ new' = new \ {i}
    /\ SubmitIdle(i) \/ SubmitQueued(i) \/ SubmitSteer(i) \/ SubmitNow(i) \/ SubmitRefused(i)
    /\ said' = IF closed THEN Say({i}, "refused") ELSE said
    /\ UNCHANGED <<active, force, seen, ended, offline, closed, micro, inbox, chunk>>
    /\ UNCHANGED <<bounds, server, fell, stray, balked, cover, gone>>

(* enqueueFollowup: the reason given with a rejected approval.              *)
EnqueueFollowup(i) ==
    /\ Quiet /\ i \in new /\ new' = new \ {i} /\ srv.shown
    /\ UNCHANGED <<offline, closed>>
    /\ Drain(Append(queue, [id |-> i, urgent |-> FALSE]), active, starting, started)
    /\ UNCHANGED <<steered, active, force, seen, ended, cause, waiting, micro, inbox, chunk>>
    /\ UNCHANGED <<bounds, server, said, fell, stray, balked, cover, gone>>

(* remove: a queued input is pulled back before it is sent.                 *)
Remove(i) ==
    /\ Quiet /\ i \in Queued
    /\ \E k \in DOMAIN queue :
          /\ queue[k].id = i /\ \A j \in 1..(k - 1) : queue[j].id # i
          /\ queue' = SubSeq(queue, 1, k - 1) \o SubSeq(queue, k + 1, Len(queue))
    /\ said' = Say({i}, "removed")
    /\ UNCHANGED <<started, steered, turn, cause, offline, closed, wait, waiting, micro>>
    /\ UNCHANGED <<link, bounds, server, new, fell, stray, balked, cover, gone>>

(* Mistake: the queue is reported discarded and kept.                       *)
DiscardsByName == said' = Say(Queued, "discarded") /\ UNCHANGED queue

Discards == said' = Say(Queued, "discarded") /\ queue' = <<>>

(* A later cancel's cause replaces that of an earlier one, or its failure    *)
(* withdraws it: its receipt names the steers that may run after all.       *)
Superseded == cover' = cover \ Steered /\ gone' = gone \ Steered

(* cancel(user | interrupt), up to its await.  One of each at a time.       *)
Cancel(cs) ==
    /\ Quiet /\ ~closed /\ cancels < MaxCancels /\ cancels' = cancels + 1
    /\ \A x \in Elems(wait) \cup Elems(waiting) : x.i # cs
    /\ IF cs = "interrupt"
       THEN /\ cover' = Queued \cup Steered
            /\ gone' = IF Busy THEN gone ELSE gone \cup cover'
            /\ Discards
       ELSE Superseded /\ UNCHANGED <<queue, said>>
    /\ IF Busy THEN cause' = cs /\ Interrupt(cs)
       ELSE SendsNothing /\ UNCHANGED <<cause, waiting>>
    /\ UNCHANGED <<started, steered, turn, offline, closed, micro, inbox, chunk, slips>>
    /\ UNCHANGED <<server, new, fell, stray, balked>>

(* A dismissed question interrupts the turn that asked it (approvals.ts).   *)
InterruptTurn ==
    /\ Quiet /\ ~closed /\ srv.shown /\ seen /\ cancels < MaxCancels /\ cancels' = cancels + 1
    /\ \A x \in Elems(wait) \cup Elems(waiting) : x.i # "prompt"
    /\ active # 0 /\ Interrupt("prompt")
    /\ UNCHANGED <<queue, started, steered, turn, cause, offline, closed, micro, inbox, chunk, slips>>
    /\ UNCHANGED <<server, history>>

-----------------------------------------------------------------------------
(* Continuations.                                                           *)

(* The continuations of those that await `starting`, resolved with t.       *)
Resolved(t) ==
    [k \in DOMAIN waiting |-> [k |-> "resume", op |-> waiting[k].op, i |-> waiting[k].i, t |-> t]]

(* startTurn after its await.                                               *)
StartTurnContinues ==
    /\ chunk = 0 /\ micro # <<>> /\ Head(micro).k = "answer"
    /\ LET c == Head(micro).c  r == Head(micro).r  t == Head(micro).t IN
       /\ c.op \in {"start", "next"}
       /\ \/ /\ r = "ok"
             /\ active' = IF active = 0 THEN t ELSE active
             /\ micro' = Tail(micro) \o Resolved(t)
                         \o (IF c.op = "next" THEN <<[k |-> "drain"]>> ELSE <<>>)
             /\ UNCHANGED <<started, said, stray>>
          \/ /\ r # "ok"
             /\ started' = started \ {c.i}
             /\ micro' = Tail(micro) \o Resolved(0)
             /\ said' = Say({c.i}, IF offline \/ r # "refused" THEN "discarded"
                                   ELSE IF c.op = "next" THEN "dropped" ELSE "refused")
             /\ stray' = (stray \/ (r # "refused" /\ ~offline))
             /\ UNCHANGED active
    /\ starting' = FALSE /\ waiting' = <<>> /\ balked' = (Head(micro).r # "ok")
    /\ UNCHANGED <<queue, steered, force, seen, ended, cause, offline, closed, wait, link>>
    /\ UNCHANGED <<bounds, server, new, fell, cover, gone>>

(* drain of the .then of a queued start that was accepted.                  *)
DrainContinues ==
    /\ chunk = 0 /\ micro # <<>> /\ Head(micro).k = "drain" /\ micro' = Tail(micro)
    /\ UNCHANGED <<offline, closed>>
    /\ Drain(queue, active, starting, started)
    /\ UNCHANGED <<steered, active, force, seen, ended, cause, waiting, inbox, chunk>>
    /\ UNCHANGED <<bounds, server, history>>

(* steer, once the starting turn is known: into it, or into the queue.      *)
SteerResumes ==
    /\ chunk = 0 /\ micro # <<>> /\ Head(micro).k = "resume" /\ Head(micro).op = "steer"
    /\ micro' = Tail(micro)
    /\ UNCHANGED <<offline, closed>>
    /\ LET i == Head(micro).i  t == Head(micro).t IN
       IF t = 0
       THEN /\ Drain(Append(queue, [id |-> i, urgent |-> FALSE]), active, starting, started)
            /\ UNCHANGED steered
       ELSE /\ Sends([op |-> "steer", i |-> i, t |-> t]) /\ steered' = Append(steered, i)
            /\ UNCHANGED <<queue, starting, started>>
    /\ UNCHANGED <<active, force, seen, ended, cause, waiting, inbox, chunk>>
    /\ UNCHANGED <<bounds, server, history>>

(* Any failure queues the input again.                                      *)
SteerFalls(i) ==
    /\ steered' = Without(steered, i) /\ fell' = fell \cup {i}
    /\ IF closed
       THEN said' = Say({i}, "refused") /\ SendsNothing /\ UNCHANGED <<queue, starting, started>>
       ELSE /\ Drain(Append(queue, [id |-> i, urgent |-> FALSE]), active, starting, started)
            /\ UNCHANGED said

(* steer after its await.                                                   *)
SteerContinues ==
    /\ chunk = 0 /\ micro # <<>> /\ Head(micro).k = "answer" /\ Head(micro).c.op = "steer"
    /\ micro' = Tail(micro)
    /\ UNCHANGED <<offline, closed>>
    /\ IF Head(micro).r # "ok" THEN SteerFalls(Head(micro).c.i)
       ELSE SendsNothing /\ UNCHANGED <<queue, starting, started, steered, said, fell>>
    /\ UNCHANGED <<active, force, seen, ended, cause, waiting, inbox, chunk>>
    /\ UNCHANGED <<bounds, server, new, stray, balked, cover, gone>>

(* interrupt, once the starting turn is known.                              *)
InterruptResumes ==
    /\ chunk = 0 /\ micro # <<>> /\ Head(micro).k = "resume" /\ Head(micro).op = "interrupt"
    /\ micro' = Tail(micro)
    /\ LET who == Head(micro).i  t == Head(micro).t IN
       IF t = 0
       THEN /\ cause' = "none" /\ SendsNothing
            /\ IF who = "interrupt" THEN gone' = gone \cup cover /\ UNCHANGED cover ELSE Superseded
       ELSE Sends([op |-> "interrupt", i |-> who, t |-> t]) /\ UNCHANGED <<cause, cover, gone>>
    /\ UNCHANGED <<queue, started, steered, turn, offline, closed, waiting, inbox, chunk>>
    /\ UNCHANGED <<bounds, server, new, said, fell, stray, balked>>

(* interrupt after its await, with what its caller makes of the outcome: a  *)
(* receipt for a cancel, the cause withdrawn when the turn goes on.         *)
InterruptContinues ==
    /\ chunk = 0 /\ micro # <<>> /\ Head(micro).k = "answer" /\ Head(micro).c.op = "interrupt"
    /\ micro' = Tail(micro)
    /\ LET c == Head(micro).c IN
       \/ /\ Head(micro).r = "ok"
          /\ force' = IF force = 0 THEN c.t ELSE force
          /\ gone' = IF c.i = "interrupt" THEN gone \cup cover ELSE gone
          /\ UNCHANGED <<cause, cover>>
       \/ /\ Head(micro).r # "ok"
          /\ cause' = IF c.i \in {"user", "interrupt"} \/ (c.i \in Inputs /\ cause = "user")
                      THEN "none" ELSE cause
          /\ IF cause' # cause THEN Superseded ELSE UNCHANGED <<cover, gone>>
          /\ UNCHANGED force
    /\ UNCHANGED <<queue, started, steered, active, starting, seen, ended, offline, closed>>
    /\ UNCHANGED <<wait, waiting, link, bounds, server, new, said, fell, stray, balked>>

-----------------------------------------------------------------------------
(* The end of a turn.                                                       *)

(* Inputs the interrupt dropped but that are still wanted run next, after   *)
(* those sent with `now`.                                                   *)
Requeued ==
    Kept(queue, {e \in Elems(queue) : e.urgent})
    \o [k \in DOMAIN steered |-> [id |-> steered[k], urgent |-> FALSE]]
    \o Kept(queue, {e \in Elems(queue) : ~e.urgent})

(* Mistake: an echo without a client id reads as a refusal.                 *)
StartedFateById(cz) == IF cz = "none" THEN "dropped" ELSE "discarded"

(* A turn that showed no user message did not run; unless this session      *)
(* cancelled it, its input is held.                                         *)
StartedFate(cz) == IF cz = "none" /\ ~seen THEN "dropped" ELSE "discarded"

(* Mistake: steers are queued again whatever the turn was cancelled for.    *)
SteeredFateAnyCause(cz, interrupted) == IF ~interrupted THEN {"claimed"} ELSE {}

(* A completed turn records the steers it had not taken; an interrupted one *)
(* drops them, and they are queued again unless the user wanted that.       *)
SteeredFate(cz, interrupted) ==
    IF ~interrupted THEN {"claimed"} ELSE IF cz = "interrupt" THEN {"discarded"} ELSE {}

(* onTurnCompleted for the active turn.                                     *)
TurnOver(interrupted) ==
    LET cz == IF InterruptInFlight /\ ~interrupted THEN "none" ELSE cause
        first == Say(started, StartedFate(cz))
        fate == SteeredFate(cz, interrupted)
    IN  /\ force' = 0 /\ active' = 0 /\ cause' = "none" /\ seen' = FALSE
        /\ said' = [i \in Inputs |-> IF i \in Steered THEN first[i] \cup fate ELSE first[i]]
        /\ steered' = <<>>
        /\ UNCHANGED <<offline, closed>>
        /\ Drain(IF fate = {} THEN Requeued ELSE queue, 0, starting, {})

(* The force-close timer: the server never ended the turn it interrupted.   *)
ForceClose ==
    /\ Quiet /\ force # 0
    /\ IF active = force
       THEN ended' = ended \cup {force} /\ TurnOver(TRUE)
       ELSE /\ force' = 0 /\ SendsNothing
            /\ UNCHANGED <<queue, started, steered, active, starting, seen, ended, cause>>
            /\ UNCHANGED <<offline, closed, said>>
    /\ UNCHANGED <<waiting, micro, inbox, chunk, bounds, server, new, fell, stray, balked, cover, gone>>

-----------------------------------------------------------------------------
(* The lines of the child.                                                  *)

(* A chunk of output arrives.                                               *)
Chunk ==
    /\ Quiet /\ inbox # <<>>
    /\ \E n \in 1..MaxChunk : n <= Len(inbox) /\ chunk' = n
    /\ UNCHANGED <<queue, started, steered, turn, cause, offline, closed, wait, waiting, micro>>
    /\ UNCHANGED <<toSrv, inbox, bounds, server, history>>

Line(kind) ==
    /\ chunk > 0 /\ Head(inbox).m = kind
    /\ chunk' = chunk - 1 /\ inbox' = Tail(inbox)

(* An answer, unless the call has timed out.                                *)
Answered ==
    /\ Line("answer")
    /\ LET c == Head(inbox).c IN
       IF c \in Elems(wait)
       THEN /\ wait' = Without(wait, c)
            /\ micro' = Append(micro, [k |-> "answer", c |-> c, r |-> Head(inbox).r, t |-> Head(inbox).t])
       ELSE UNCHANGED <<wait, micro>>
    /\ UNCHANGED <<queue, started, steered, turn, cause, offline, closed, waiting, toSrv>>
    /\ UNCHANGED <<bounds, server, history>>

(* turn/started.                                                            *)
Started ==
    /\ Line("started")
    /\ active' = IF closed \/ Head(inbox).t \in ended THEN active ELSE Head(inbox).t
    /\ UNCHANGED <<queue, started, steered, starting, force, seen, ended, cause, offline, closed>>
    /\ UNCHANGED <<wait, waiting, micro, toSrv, bounds, server, history>>

(* Mistake: only what turn/start sent is claimed.                           *)
ClaimsStarted(i) ==
    /\ started' = started \ {i}
    /\ said' = IF i \in started \cup Steered THEN Say({i}, "claimed") ELSE said
    /\ UNCHANGED steered

Claims(i) ==
    /\ started' = started \ {i}
    /\ steered' = IF i \in started THEN steered ELSE Without(steered, i)
    /\ said' = IF i \in started \cup Steered THEN Say({i}, "claimed") ELSE said

(* item/started of a user message, which may lack its client id: claim.     *)
Claim ==
    /\ Line("shown")
    /\ IF closed THEN UNCHANGED <<seen, started, steered, said>>
       ELSE seen' = TRUE /\ Claims(Head(inbox).i)
    /\ UNCHANGED <<queue, active, starting, force, ended, cause, offline, closed, wait, waiting>>
    /\ UNCHANGED <<micro, toSrv, bounds, server, new, fell, stray, balked, cover, gone>>

(* turn/completed, once per turn.                                           *)
Completed ==
    /\ Line("completed")
    /\ LET t == Head(inbox).t IN
       IF closed \/ t \in ended \/ (active # 0 /\ active # t)
       THEN /\ SendsNothing /\ ended' = IF closed THEN ended ELSE ended \cup {t}
            /\ UNCHANGED <<queue, started, steered, active, starting, force, seen, cause>>
            /\ UNCHANGED <<offline, closed, said>>
       ELSE ended' = ended \cup {t} /\ TurnOver(Head(inbox).interrupted)
    /\ UNCHANGED <<waiting, micro, bounds, server, new, fell, stray, balked, cover, gone>>

-----------------------------------------------------------------------------
(* Time and the connection.                                                 *)

(* A call times out (client.ts); the server may still take it.              *)
CallTimesOut ==
    /\ Quiet /\ slips < MaxSlips /\ slips' = slips + 1
    /\ \E c \in Elems(wait) :
          /\ wait' = Without(wait, c)
          /\ micro' = <<[k |-> "answer", c |-> c, r |-> "lost", t |-> 0]>>
    /\ UNCHANGED <<queue, started, steered, turn, cause, offline, closed, waiting>>
    /\ UNCHANGED <<link, cancels, server, history>>

(* The child dies: every call is rejected, and the session's connectionLost *)
(* runs before the code behind those calls does.                            *)
ConnectionLost ==
    /\ Quiet /\ ~offline /\ ~closed /\ slips < MaxSlips /\ slips' = slips + 1
    /\ offline' = TRUE /\ force' = 0 /\ active' = 0 /\ seen' = FALSE
    /\ said' = Say(started \cup Steered, "discarded")
    /\ started' = {} /\ steered' = <<>>
    /\ micro' = [k \in DOMAIN wait |-> [k |-> "answer", c |-> wait[k], r |-> "lost", t |-> 0]]
    /\ wait' = <<>> /\ toSrv' = <<>> /\ inbox' = <<>> /\ srv' = Idle
    /\ UNCHANGED <<queue, starting, ended, cause, closed, waiting, chunk, cancels, turns, ran>>
    /\ UNCHANGED <<new, fell, stray, balked, cover, gone>>

(* Mistake: a restored connection waits for the next input.                 *)
ConnectionIdles ==
    /\ Quiet /\ offline /\ offline' = FALSE /\ UNCHANGED closed
    /\ UNCHANGED <<queue, started, steered, turn, cause, wait, waiting, micro>>
    /\ UNCHANGED <<link, bounds, server, history>>

(* The thread is rejoined on a new child: connectionRestored.               *)
ConnectionRestored ==
    /\ Quiet /\ offline /\ offline' = FALSE /\ UNCHANGED closed
    /\ Drain(queue, active, starting, started)
    /\ UNCHANGED <<steered, active, force, seen, ended, cause, waiting, micro, inbox, chunk>>
    /\ UNCHANGED <<bounds, server, history>>

(* ... or never will be: permanentLoss.                                     *)
PermanentLoss ==
    /\ Quiet /\ offline /\ ~closed /\ offline' = FALSE /\ closed' = TRUE
    /\ said' = Say(Queued, "dropped") /\ queue' = <<>>
    /\ UNCHANGED <<started, steered, turn, cause, wait, waiting, micro, link, bounds, server>>
    /\ UNCHANGED <<new, fell, stray, balked, cover, gone>>

-----------------------------------------------------------------------------
(* The server, as the code takes it to be.  It takes requests in order.     *)
(* What it does while the program is busy it might have done just before or *)
(* just after: it moves in between.                                         *)

Takes(op) == Quiet /\ toSrv # <<>> /\ Head(toSrv).op \in op /\ toSrv' = Tail(toSrv)
Answer(c, r, t) == [m |-> "answer", c |-> c, r |-> r, t |-> t]
Ran(is) == [i \in Inputs |-> IF i \in is THEN ran[i] + 1 ELSE ran[i]]
serverKeeps == <<queue, started, steered, turn, cause, offline, closed, wait, waiting, micro,
                 chunk, history>>
serverLeaves == <<serverKeeps, cancels>>

(* turn/start opens a turn; a turn that is being stopped gives way.         *)
Opens(answers) ==
    /\ turns < MaxTurns /\ (srv.t = 0 \/ srv.stopping)
    /\ turns' = turns + 1
    /\ srv' = [Idle EXCEPT !.t = turns + 1, !.first = Head(toSrv).i]
    /\ LET opened == [m |-> "started", t |-> turns + 1]
       IN inbox' \in {inbox \o <<answers, opened>>, inbox \o <<opened, answers>>}
ServerStarts ==
    /\ Takes({"start", "next"}) /\ Opens(Answer(Head(toSrv), "ok", turns + 1))
    /\ UNCHANGED <<ran, slips, serverLeaves>>

(* A request is refused.                                                    *)
ServerRefuses ==
    /\ Takes({"start", "next", "steer", "interrupt"})
    /\ Head(toSrv).op = "interrupt" => srv.t # Head(toSrv).t
    /\ inbox' = Append(inbox, Answer(Head(toSrv), "refused", 0))
    /\ UNCHANGED <<srv, turns, ran, slips, serverLeaves>>

(* turn/start is answered with an error of unknown meaning: the turn may    *)
(* run all the same.                                                        *)
ServerErrs ==
    /\ Takes({"start", "next"}) /\ slips < MaxSlips /\ slips' = slips + 1
    /\ LET answer == Answer(Head(toSrv), "error", 0) IN
       Opens(answer) \/ (inbox' = Append(inbox, answer) /\ UNCHANGED <<srv, turns>>)
    /\ UNCHANGED <<ran, serverLeaves>>

ServerSteers ==
    /\ Takes({"steer"}) /\ srv.t = Head(toSrv).t /\ ~srv.stopping
    /\ srv' = [srv EXCEPT !.pend = @ \cup {Head(toSrv).i}]
    /\ inbox' = Append(inbox, Answer(Head(toSrv), "ok", 0))
    /\ UNCHANGED <<turns, ran, slips, serverLeaves>>

(* turn/interrupt: steers the turn has not taken are dropped.               *)
ServerInterrupts ==
    /\ Takes({"interrupt"}) /\ srv.t = Head(toSrv).t
    /\ srv' = [srv EXCEPT !.stopping = TRUE, !.pend = {}]
    /\ inbox' = Append(inbox, Answer(Head(toSrv), "ok", 0))
    /\ UNCHANGED <<turns, ran, slips, serverLeaves>>

(* The turn takes its input, then what was steered into it, and shows it.   *)
ServerShows ==
    /\ Quiet /\ srv.t # 0 /\ ~srv.stopping
    /\ \/ ~srv.shown /\ srv' = [srv EXCEPT !.shown = TRUE] /\ ran' = Ran({srv.first})
          /\ \E i \in {srv.first, Nothing} : inbox' = Append(inbox, [m |-> "shown", t |-> srv.t, i |-> i])
       \/ srv.shown /\ \E i \in srv.pend :
             /\ srv' = [srv EXCEPT !.pend = @ \ {i}] /\ ran' = Ran({i})
             /\ inbox' = Append(inbox, [m |-> "shown", t |-> srv.t, i |-> i])
    /\ UNCHANGED <<toSrv, turns, slips, serverLeaves>>

(* The turn ends by itself and records what it had not taken, or fails      *)
(* before it has shown its input, or is interrupted.                        *)
ServerCompletes ==
    /\ Quiet /\ srv.t # 0 /\ srv' = Idle
    /\ ran' = IF srv.stopping \/ ~srv.shown THEN ran ELSE Ran(srv.pend)
    /\ inbox' = Append(inbox, [m |-> "completed", t |-> srv.t, interrupted |-> srv.stopping])
    /\ UNCHANGED <<toSrv, turns, slips, serverLeaves>>

(* The user cancels the turn by his answer to an approval.                  *)
ServerAborts ==
    /\ Quiet /\ srv.shown /\ ~srv.stopping /\ cancels < MaxCancels
    /\ srv' = [srv EXCEPT !.stopping = TRUE, !.pend = {}]
    /\ cancels' = cancels + 1
    /\ UNCHANGED <<toSrv, inbox, turns, ran, slips, serverKeeps>>

Next ==
    \/ \E i \in Inputs : Submit(i) \/ EnqueueFollowup(i) \/ Remove(i)
    \/ \E cs \in {"user", "interrupt"} : Cancel(cs)
    \/ InterruptTurn
    \/ StartTurnContinues \/ DrainContinues \/ SteerResumes \/ SteerContinues
    \/ InterruptResumes \/ InterruptContinues
    \/ ForceClose \/ Chunk \/ Answered \/ Started \/ Claim \/ Completed
    \/ CallTimesOut \/ ConnectionLost \/ ConnectionRestored \/ PermanentLoss
    \/ ServerStarts \/ ServerRefuses \/ ServerErrs \/ ServerSteers \/ ServerInterrupts
    \/ ServerShows \/ ServerCompletes \/ ServerAborts

Spec == Init /\ [][Next]_vars

-----------------------------------------------------------------------------
(* An input that was handed in is somewhere, or its submitter was told what *)
(* became of it.                                                            *)
NoInputForgotten ==
    ~closed => \A i \in Inputs \ new :
        \/ said[i] # {} \/ i \in Queued \cup started \cup Steered
        \/ \E w \in Elems(waiting) : w.op = "steer" /\ w.i = i
        \/ \E m \in Elems(micro) : m.k = "resume" /\ m.op = "steer" /\ m.i = i
        \/ \E m \in Elems(micro) : m.k = "answer" /\ m.c.op = "steer" /\ m.c.i = i

(* An input runs once, unless its turn/steer failed.                        *)
RunsOnce == \A i \in Inputs : ran[i] > 1 => i \in fell

(* ... and without that exception.                                          *)
NeverTwice == \A i \in Inputs : ran[i] <= 1

(* "dropped ... the input never ran" (agent/events.ts): what the channel    *)
(* holds for the user to send again was not part of a turn.                 *)
DroppedNeverRan == \A i \in Inputs : "dropped" \in said[i] => ran[i] = 0 \/ i \in fell \/ stray

(* "a discarded one never will": an input reported discarded or dropped is  *)
(* not held, sent or to be sent any more, unless its turn/steer failed.     *)
Held == Queued \cup started \cup Steered
GoneStaysGone ==
    \A i \in Held : said[i] \cap {"discarded", "dropped"} # {} => i \in fell

(* A turn is asked for when none runs, unless one was given up without      *)
(* knowing: queued inputs "start one at a time after turn/completed".       *)
OneAtATime ==
    (\E c \in Elems(toSrv) : c.op \in {"start", "next"}) => srv.t = 0 \/ srv.stopping \/ stray

(* An input sent with `now` runs before anything else that waits.           *)
UrgentFirst ==
    \A j, k \in DOMAIN queue : queue[k].urgent /\ j < k => queue[j].urgent

(* A cancel(interrupt) that was confirmed leaves nothing it covered to be   *)
(* sent, unless a turn/steer failed (or a later cancel, or a `now` whose    *)
(* interrupt failed, replaced its cause while they were steers: Superseded).*)
ConfirmedGone == \A i \in gone : i \in Queued \cup started => i \in fell

(* Nothing is left that would start the queue: its last turn/start failed,  *)
(* or the session holds a turn for running that has ended.                  *)
Stalled ==
    /\ Quiet /\ ~offline /\ ~starting
    /\ (active = 0 /\ balked) \/ active \in ended

(* Once nothing is under way any more, it was said of every input what      *)
(* became of it, unless a failed turn/start left the queue stalled.         *)
AtRest ==
    /\ Quiet /\ ~offline /\ ~closed /\ srv.t = 0 /\ force = 0
    /\ wait = <<>> /\ toSrv = <<>> /\ inbox = <<>>
RestIsSettled ==
    AtRest => \A i \in Inputs \ new : said[i] # {} \/ (i \in Queued /\ Stalled)

(* The active turn is one whose end is still to come.                       *)
ActiveIsRunning == Quiet => active \notin ended

(* "An interrupt that never completes the turn is force-closed": the timer  *)
(* that is armed is the one of the running turn.                            *)
TimerIsForActive == Quiet /\ active # 0 => force \in {0, active}
=============================================================================
