--------------------------- MODULE CodexInputInv ---------------------------
(* The inductive invariants of CodexInput, in named parts, and the relations  *)
(* between a state and the next that CodexInput_proofs argues with:           *)
(*   InputInv   where each input is, and what was said of it;                 *)
(*   TurnInv    the order of the lines, calls and continuations of the turns; *)
(*   RunInv     both, and the one chance an input has to join a turn;         *)
(*   Fates      one turn at a time, and what became of each input;            *)
(*   Placed     an input that was handed in is somewhere, or was spoken of;   *)
(*   Rest       what a session at rest has left.                              *)
EXTENDS CodexInput

(* A sequence holds a member of H; it holds at most one.                      *)
Has(s, H) == \E k \in DOMAIN s : s[k] \in H
Once(s, H) == \A j, k \in DOMAIN s : s[j] \in H /\ s[k] \in H => j = k

(* What Kept builds, prefix by prefix.                                        *)
KeptOf(q, S, f) ==
    \A k \in 0..Len(q) :
        f[k] = IF k = 0 THEN <<>>
               ELSE IF q[k] \in S THEN Append(f[k - 1], q[k]) ELSE f[k - 1]

(* ... whose value at k holds what it shall of the first k.                   *)
KeptUpTo(D, q, S, H, g, k) ==
    /\ g \in Seq(D)
    /\ Has(g, H) => \E a \in 1..k : q[a] \in H \cap S
    /\ Once(q, H) => Once(g, H)

Entry == [id : Inputs, urgent : BOOLEAN]

(* The types of the state, and the lines of a chunk are there to take.        *)
Typed == TypeOK /\ chunk <= Len(inbox)

(* Where an input can be from which it will be sent, besides `started`: in    *)
(* the queue, among the steers of the turn, awaiting the turn that starts, or *)
(* about to go on from that.                                                  *)
Entries(i) == [id : {i}, urgent : BOOLEAN]
Joining(i) == [op : {"steer"}, i : {i}]
Resumed(i) == [k : {"resume"}, op : {"steer"}, i : {i}, t : Turn]
InQueue(i) == Has(queue, Entries(i))
InSteers(i) == Has(steered, {i})
Joins(i) == Has(waiting, Joining(i))
Resumes(i) == Has(micro, Resumed(i))
Waits(i) == InQueue(i) \/ InSteers(i) \/ Joins(i) \/ Resumes(i)

(* A turn was asked for with it, and the session has not heard the outcome.   *)
Starts(i) == [op : {"start", "next"}, i : {i}, t : Turn]
StartAnswers(i) == [k : {"answer"}, c : Starts(i), r : Answers, t : Turn]
Asked(i) == Has(wait, Starts(i)) \/ Has(micro, StartAnswers(i))

(* It is in one place at a time, once, and is not asked for again.            *)
Lone(i) ==
    /\ Once(queue, Entries(i)) /\ Once(steered, {i})
    /\ Once(waiting, Joining(i)) /\ Once(micro, Resumed(i))
    /\ i \in new \/ i \in started \/ Asked(i) => ~Waits(i)
    /\ i \in new => i \notin started /\ ~Asked(i)
    /\ InQueue(i) => ~InSteers(i) /\ ~Joins(i) /\ ~Resumes(i)
    /\ InSteers(i) => ~Joins(i) /\ ~Resumes(i)
    /\ Joins(i) => ~Resumes(i)

(* What was reported discarded or dropped is in none of them.                 *)
Told(i) ==
    /\ i \in new => said[i] = {}
    /\ said[i] \cap {"discarded", "dropped"} # {} => ~Waits(i) /\ i \notin started

(* What a cancel(interrupt) covered is a steer of the turn that it stops, or  *)
(* in none of them.                                                           *)
Covered(i) ==
    i \in gone \cup cover =>
        /\ i \notin new /\ i \notin started /\ ~InQueue(i) /\ ~Joins(i) /\ ~Resumes(i)
        /\ InSteers(i) => cause = "interrupt"

(* Steers belong to a turn, and no line is taken while one is about to be     *)
(* sent into a turn.                                                          *)
Going == [k : {"resume"}, op : {"steer"}, i : Inputs, t : Turn] \cup [k : {"resume"}, op : {"interrupt"}, i : Who, t : Turn]
GoingInto == {x \in Going : x.t # 0}
Flow ==
    /\ Has(steered, Inputs) => active # 0
    /\ Has(micro, Going) => chunk = 0
    /\ Has(micro, GoingInto) => active # 0

Accounted(i) == Lone(i) /\ Told(i) /\ Covered(i)

(* What the caller of drain must have seen to: q is the queue it has made,    *)
(* kept what is left of `started`.                                            *)
Ready(i, q, kept) ==
    /\ Once(q, Entries(i)) /\ Once(steered', {i}) /\ Once(waiting', Joining(i)) /\ Once(micro', Resumed(i))
    /\ i \in new' \/ i \in kept \/ Has(wait, Starts(i)) \/ Has(micro', StartAnswers(i))
         => ~Has(q, Entries(i)) /\ ~InSteers(i)' /\ ~Joins(i)' /\ ~Resumes(i)'
    /\ i \in new' => i \notin kept /\ ~Has(wait, Starts(i)) /\ ~Has(micro', StartAnswers(i)) /\ said'[i] = {}
    /\ Has(q, Entries(i)) => ~InSteers(i)' /\ ~Joins(i)' /\ ~Resumes(i)'
    /\ InSteers(i)' => ~Joins(i)' /\ ~Resumes(i)'
    /\ Joins(i)' => ~Resumes(i)'
    /\ said'[i] \cap {"discarded", "dropped"} # {} =>
         /\ ~Has(q, Entries(i)) /\ ~InSteers(i)' /\ ~Joins(i)' /\ ~Resumes(i)' /\ i \notin kept
    /\ i \in gone' \cup cover' =>
         /\ i \notin new' /\ i \notin kept /\ ~Has(q, Entries(i)) /\ ~Joins(i)' /\ ~Resumes(i)'
         /\ InSteers(i)' => cause' = "interrupt"

(* A step that leaves every place alone.                                      *)
places == <<queue, started, steered, waiting, micro, wait, new, said, gone, cover, cause>>

(* A cancel(interrupt) awaits the turn that starts: what it covered was in    *)
(* the queue, and no steer.                                                   *)
CancelJoining == {[op |-> "interrupt", i |-> "interrupt"]}
CancelResumed == [k : {"resume"}, op : {"interrupt"}, i : {"interrupt"}, t : Turn]
Pends == Has(waiting, CancelJoining) \/ Has(micro, CancelResumed)
Early(i) == Pends /\ i \in gone \cup cover => ~InSteers(i)

(* The steps that leave the turn, its steers and the continuations alone.     *)
flow == <<active, chunk, steered, micro>>

(* An input whose turn/steer failed is queued again whatever became of it      *)
(* since: the code does not know, and nothing is said of it here.             *)
InputInv == Typed /\ Flow /\ \A i \in Inputs \ fell : Accounted(i) /\ Early(i)

--------------------------------------------------------------------------------
(* How lines, calls and continuations of a turn are ordered.                  *)

(* No member of A comes before one of B.                                      *)
Before(s, A, B) == \A j, k \in DOMAIN s : s[j] \in A /\ s[k] \in B => j >= k

(* r is s with e after it; s is e with r after it; r holds no more than s.    *)
Adds(s, r, e) ==
    /\ \A H : Has(r, H) <=> Has(s, H) \/ e \in H
    /\ \A H : Once(s, H) /\ (e \in H => ~Has(s, H)) => Once(r, H)
    /\ \A A, B : Before(s, A, B) /\ (e \in B => ~Has(s, A)) => Before(r, A, B)
Cuts(s, r, e) ==
    /\ \A H : Has(s, H) <=> Has(r, H) \/ e \in H
    /\ \A H : Once(s, H) => Once(r, H) /\ (e \in H => ~Has(r, H))
    /\ \A A, B : Before(s, A, B) => Before(r, A, B) /\ (e \in A => ~Has(r, B))
Thins(s, r) ==
    /\ \A H : Has(r, H) => Has(s, H)
    /\ \A H : Once(s, H) => Once(r, H)

(* Calls, by what they ask for and of which turn.                             *)
AnyStart == [op : {"start", "next"}, i : Inputs, t : Turn]
Steers(i) == [op : {"steer"}, i : {i}, t : Turn]
SteersInto(i, t) == [op : {"steer"}, i : {i}, t : {t}]
Stopping(t) == [op : {"interrupt"}, i : Who, t : {t}]
Into(t) == [op : {"steer"}, i : Inputs, t : {t}] \cup Stopping(t)

(* Continuations: a turn/start that failed or not, one that named its turn,   *)
(* an interrupt that was accepted, and what goes on into a turn.              *)
AnyStarted == [k : {"answer"}, c : AnyStart, r : Answers, t : Turn]
Named(t) == [k : {"answer"}, c : AnyStart, r : {"ok"}, t : {t}]
Stopped(t) == [k : {"answer"}, c : Stopping(t), r : {"ok"}, t : Turn]
GoingTo(t) == [k : {"resume"}, op : {"steer"}, i : Inputs, t : {t}] \cup [k : {"resume"}, op : {"interrupt"}, i : Who, t : {t}]
GoingToStop(t) == [k : {"resume"}, op : {"interrupt"}, i : Who, t : {t}]

(* Lines, by the turn they are about.                                         *)
Of(t) == {o \in Output : o.t = t}
Under(t) == {o \in Output : o.t # 0 /\ o.t < t}
Upto(t) == {o \in Output : o.t # 0 /\ o.t <= t}
Opening(t) == [m : {"answer"}, c : AnyStart, r : {"ok"}, t : {t}]
Begins(t) == [m : {"started"}, t : {t}]
Ends(t) == [m : {"completed"}, t : {t}, interrupted : BOOLEAN]
Follows(t) == [m : {"shown"}, t : {t}, i : Inputs \cup {Nothing}] \cup Ends(t)
News(t) == [m : {"shown"}, t : {t}, i : Inputs \cup {Nothing}] \cup [m : {"completed"}, t : {t}, interrupted : {FALSE}]
Stops(t) == [m : {"answer"}, c : Stopping(t), r : {"ok"}, t : Turn]
AnswersTo(c) == [m : {"answer"}, c : {c}, r : Answers, t : Turn]

(* The turns that are.                                                        *)
Turns == Turn \ {0}

(* The interrupt of t was accepted; t is known, by what was sent or done      *)
(* about it.                                                                  *)
Halting(t) == force = t \/ Has(micro, Stopped(t)) \/ Has(inbox, Stops(t))
Known(t) ==
    \/ Has(toSrv, Into(t)) \/ Has(micro, GoingTo(t)) \/ Has(micro, Named(t))
    \/ Halting(t) \/ (srv.pend # {} /\ srv.t = t)

(* The server's turn, and the order of its lines about a turn.                *)
Serves ==
    /\ srv.t <= turns /\ (srv.stopping => srv.pend = {})
    /\ IF srv.t = 0 THEN srv = Idle ELSE srv.first \in Inputs
    /\ ~Has(inbox, Follows(0)) /\ ~Has(toSrv, Into(0))
Ordered(t) ==
    /\ Before(inbox, Of(t), Under(t)) /\ Before(inbox, Ends(t), Upto(t))
    /\ Before(inbox, Stops(t), News(t)) /\ Before(inbox, Follows(t), Begins(t))
    /\ \A u \in Turns : u < t => Before(inbox, Opening(t), Stops(u))
Emitted(t) ==
    /\ Has(inbox, Of(t)) => t <= turns /\ (srv.t = 0 \/ t <= srv.t)
    /\ Has(inbox, Ends(t)) => srv.t = 0 \/ t < srv.t
    /\ Has(inbox, Stops(t)) => srv.t # t \/ srv.stopping

(* One turn/start is awaited at a time.                                       *)
Single ==
    /\ Has(wait, AnyStart) \/ Has(micro, AnyStarted) => starting
    /\ Once(wait, AnyStart) /\ Once(micro, AnyStarted)
    /\ ~(Has(wait, AnyStart) /\ Has(micro, AnyStarted))

(* Without a connection nothing is under way.                                 *)
Down ==
    offline \/ closed =>
        /\ wait = <<>> /\ toSrv = <<>> /\ inbox = <<>> /\ srv = Idle
        /\ active = 0 /\ force = 0 /\ steered = <<>> /\ chunk = 0
        /\ \A t \in Turns : ~Has(micro, GoingTo(t)) /\ ~Has(micro, Named(t)) /\ ~Has(micro, Stopped(t))

(* What is known of a turn came after the lines of those before it.           *)
Past(t) == Known(t) \/ active = t => ~Has(inbox, Under(t)) /\ t <= turns /\ (srv.t = 0 \/ t <= srv.t)
Latest(t) == \A u \in Turns : Has(micro, Named(u)) /\ Known(t) => t <= u

(* A turn that ended or whose interrupt was accepted shows no input any more. *)
Silent(t) ==
    t \in ended \/ force = t \/ Has(micro, Stopped(t)) =>
        (srv.t # t \/ srv.stopping) /\ ~Has(inbox, News(t)) /\ t <= turns

(* The session has taken the start of a turn before what follows it.          *)
Announced(t) ==
    ~Has(inbox, Begins(t)) /\ (Has(inbox, Follows(t)) \/ srv.t = t) => active = t \/ t \in ended

(* The active turn was not interrupted if a later one is known.               *)
NotCut(t) == Known(t) /\ active # 0 /\ active < t => ~Halting(active)

(* ... because no turn/start is under way behind an interrupt of what is, or  *)
(* will be, the active turn.                                                  *)
Behind(u) ==
    active = u \/ (Has(inbox, Begins(u)) /\ u \notin ended) =>
        \A c \in AnyStart : Has(wait, {c}) =>
            /\ Before(toSrv, Stopping(u), {c}) /\ (Has(toSrv, {c}) => ~Halting(u))
            /\ Before(inbox, Stops(u), AnswersTo(c))
            /\ Has(inbox, AnswersTo(c)) => force # u /\ ~Has(micro, Stopped(u))

(* A turn that is interrupted before the session took its start is active.    *)
Entered(t) ==
    /\ Has(micro, GoingToStop(t)) \/ Has(toSrv, Stopping(t)) \/ Halting(t)
    /\ Has(inbox, Begins(t)) /\ t \notin ended
    => active # 0

(* What is true of a turn t, and of all.                                      *)
Sequenced(t) ==
    /\ Ordered(t) /\ Emitted(t) /\ Past(t) /\ Latest(t) /\ Silent(t)
    /\ Announced(t) /\ NotCut(t) /\ Behind(t) /\ Entered(t)
TurnInv == Serves /\ Single /\ Down /\ \A t \in Turns : Sequenced(t)

--------------------------------------------------------------------------------
(* What the steps do, for the proofs.                                         *)

(* Steps of the session that only take from what it holds, and send.          *)
Shorter(s, r) ==
    /\ \A H : (Has(r, H) => Has(s, H)) /\ (Once(s, H) => Once(r, H))
    /\ \A A, B : Before(s, A, B) => Before(r, A, B)

Asks(c) == wait' = Append(wait, c) /\ toSrv' = Append(toSrv, c)
AsksStart == \E c \in AnyStart : Asks(c) /\ starting' /\ ~starting /\ active' = 0
AsksInto ==
    \E t \in Turns : \E c \in Into(t) :
        /\ Asks(c) /\ starting' = starting /\ c \in Call
        /\ (active = t /\ Quiet) \/ Has(micro, GoingTo(t))
        /\ c \in Stopping(t) => active = t \/ Has(micro, GoingToStop(t))
AsksNothing == wait' = wait /\ toSrv' = toSrv /\ starting' = starting
Talks ==
    /\ srv' = srv /\ turns' = turns /\ Shorter(inbox, inbox') /\ Shorter(micro, micro')
    /\ active' \in {active, 0} /\ (force' \in {force, 0} \/ Has(micro, Stopped(force'))) /\ ended \subseteq ended'
    /\ AsksNothing \/ AsksStart \/ AsksInto

(* ... those that leave the turn alone.                                       *)
Calm ==
    /\ Talks /\ active' = active /\ ended' = ended
    /\ \A t \in Turns : Has(inbox, Begins(t)) => Has(inbox', Begins(t))

(* What is asked of the session.                                             *)
Calls ==
    \/ \E i \in Inputs : Submit(i) \/ EnqueueFollowup(i) \/ Remove(i)
    \/ \E cs \in {"user", "interrupt"} : Cancel(cs)
    \/ InterruptTurn \/ ConnectionRestored \/ PermanentLoss \/ UNCHANGED vars

(* Continuations that are neither of a turn nor stop one change nothing.      *)
Lessens ==
    /\ srv' = srv /\ turns' = turns /\ Shorter(inbox, inbox') /\ toSrv' = toSrv
    /\ active' = active /\ force' = force /\ ended' = ended
    /\ \A H : Has(wait', H) => Has(wait, H)
    /\ \A t \in Turns :
          /\ Has(micro', Named(t)) => Has(micro, Named(t))
          /\ Has(micro', Stopped(t)) => Has(micro, Stopped(t)) \/ Has(inbox, Stops(t))
          /\ Has(micro', Stopped(t)) => Has(micro, Stopped(t)) \/ ~Has(inbox', News(t))
          /\ Has(micro', Stopped(t)) /\ ~Has(micro, Stopped(t)) =>
                \A c : Before(inbox, Stops(t), AnswersTo(c)) => ~Has(inbox', AnswersTo(c))
          /\ Has(micro', GoingTo(t)) => Has(micro, GoingTo(t))
          /\ Has(micro', GoingToStop(t)) => Has(micro, GoingToStop(t))
          /\ Has(inbox, Begins(t)) => Has(inbox', Begins(t)) \/ t \in ended

(* r is s with a and b after it, in either order.                             *)
Gains(s, r, a, b) ==
    /\ \A H : Has(r, H) <=> Has(s, H) \/ a \in H \/ b \in H
    /\ \A H : Once(s, H) /\ (a \in H => ~Has(s, H) /\ b \notin H) /\ (b \in H => ~Has(s, H)) => Once(r, H)
    /\ \A A, B : /\ Before(s, A, B)
                 /\ a \in B => ~Has(s, A) /\ b \notin A
                 /\ b \in B => ~Has(s, A) /\ a \notin A
                 => Before(r, A, B)

ServerStep ==
    \/ ServerStarts \/ ServerRefuses \/ ServerErrs \/ ServerSteers \/ ServerInterrupts
    \/ ServerShows \/ ServerCompletes \/ ServerAborts

(* Nothing is under way.                                                      *)
Still ==
    /\ wait = <<>> /\ toSrv = <<>> /\ inbox = <<>> /\ srv = Idle
    /\ active = 0 /\ force = 0 /\ steered = <<>> /\ chunk = 0
    /\ \A t \in Turns : ~Has(micro, GoingTo(t)) /\ ~Has(micro, Named(t)) /\ ~Has(micro, Stopped(t))

--------------------------------------------------------------------------------
(* The chance an input has to become part of a turn.                          *)

(* An input that was not sent yet, or is in the queue again; one that the     *)
(* running turn will take; the lines by which a turn lets a steer go.         *)
Fresh(i) == i \in new \/ Joins(i) \/ Resumes(i)
Unsent(i) == Fresh(i) \/ InQueue(i)
LiveSteer(i) == srv.t # 0 /\ ~srv.stopping /\ Has(toSrv, SteersInto(i, srv.t))
Release(i, t) == [m : {"shown"}, t : {t}, i : {i}] \cup [m : {"completed"}, t : {t}, interrupted : {FALSE}]
Untaken(i) == ran[i] = 0 /\ i \notin srv.pend /\ ~LiveSteer(i)

(* The line that lets i go from the steers comes before every end of a turn   *)
(* and finds the turn active that took i, or the session still to make it so. *)
Freed(i, s) ==
    /\ Has(inbox, Release(i, s)) /\ ~Has(inbox, Under(s)) /\ active <= s
    /\ \A t \in Turns : Before(inbox, Ends(t), Release(i, s))
    /\ \A v \in Turns : active = v /\ v < s => ~Halting(v)

(* An input has one chance to become part of a turn at a time, and none after *)
(* it did.                                                                    *)
Chance(i) ==
    /\ Once(toSrv, Starts(i)) /\ Once(toSrv, Steers(i))
    /\ Fresh(i) => ~Has(toSrv, Steers(i))
    /\ Unsent(i) \/ InSteers(i) => ~Has(toSrv, Starts(i)) /\ srv.first # i
    /\ Unsent(i) => Untaken(i)
    /\ Has(toSrv, Starts(i)) => srv.first # i /\ Untaken(i)
    /\ srv.first = i => (~srv.shown => ran[i] = 0) /\ i \notin srv.pend /\ ~LiveSteer(i)
    /\ i \in srv.pend => ran[i] = 0 /\ ~LiveSteer(i)
    /\ LiveSteer(i) => ran[i] = 0
    /\ ran[i] <= 1
    /\ InSteers(i) /\ ran[i] # 0 => \E s \in Turns : Freed(i, s)

(* What a step of the session may do with i.                                  *)
Open(i) == Unsent(i) \/ (InSteers(i) /\ Untaken(i))
Hands(i) ==
    /\ Fresh(i)' => Fresh(i)
    /\ InQueue(i)' => Open(i)
    /\ InSteers(i)' => InSteers(i) \/ Fresh(i)
    /\ \/ toSrv' = toSrv
       \/ \E c \in Call : Asks(c) /\ (c \in Starts(i) => Open(i)) /\ (c \in Steers(i) => Fresh(i) /\ InSteers(i)')

(* The inductive invariant: where each input is, the order of the turns, and  *)
(* the chance of every input whose turn/steer did not fail.                   *)
RunInv == InputInv /\ TurnInv /\ \A i \in Inputs \ fell : Chance(i)

--------------------------------------------------------------------------------
(* One turn at a time, unless a turn/start was given up.                      *)

(* Answers to turn/start, and the refusals among them: lines, continuations.  *)
StartLines == [m : {"answer"}, c : AnyStart, r : Answers, t : Turn]
Refusals == [m : {"answer"}, c : AnyStart, r : {"refused"}, t : Turn]
Heard == [k : {"answer"}, c : AnyStart, r : {"ok", "refused"}, t : Turn]
HeardRefusals == [k : {"answer"}, c : AnyStart, r : {"refused"}, t : Turn]

(* The session will yet see the end of turn u.                                *)
Current(u) == u \notin ended /\ (active = u \/ srv.t = u \/ Has(inbox, Begins(u)) \/ Has(inbox, Follows(u)))

(* As long as no turn/start was given up without knowing: one turn at a time, *)
(* and none while one is asked for.                                           *)
Solo ==
    /\ \A u, v \in Turns : Current(u) /\ Current(v) => u = v
    /\ \A u \in Turns : Current(u) => active = u \/ (starting /\ active = 0)
    /\ Has(toSrv, AnyStart) =>
          starting /\ active = 0 /\ ~Has(inbox, StartLines) /\ ~Has(micro, Heard) /\ \A u \in Turns : ~Current(u)
    /\ Once(toSrv, AnyStart) /\ Once(inbox, StartLines)
    /\ Has(inbox, StartLines) => starting
    /\ Has(micro, Heard) => ~Has(inbox, StartLines)
    /\ Has(inbox, Refusals) \/ Has(micro, HeardRefusals) => \A u \in Turns : ~Current(u)
    /\ \A u \in Turn, v \in Turns : (Has(inbox, Opening(u)) \/ Has(micro, Named(u))) /\ Current(v) => v = u

--------------------------------------------------------------------------------
(* What becomes of an input that was started, refused or dropped.             *)

(* The lines that show what a turn took; a refusal of the turn asked for with *)
(* i, on its way and taken.                                                   *)
Shows(t) == [m : {"shown"}, t : {t}, i : Inputs \cup {Nothing}]
Denials(i) == [m : {"answer"}, c : Starts(i), r : {"refused"}, t : Turn]
HeardDenials(i) == [k : {"answer"}, c : Starts(i), r : {"refused"}, t : Turn]
Denied(i) == Has(micro, HeardDenials(i)) \/ (Has(inbox, Denials(i)) /\ Has(wait, Starts(i)))

(* i was not part of a turn and nothing will make it so; the session saw, or  *)
(* will see, that its turn took its input.                                    *)
Out(i) == Untaken(i) /\ ~Has(toSrv, Starts(i)) /\ (srv.first = i => srv.stopping)
Seeing == seen \/ \E n \in Turns : n \notin ended /\ Has(inbox, Shows(n))

(* A started input is at most the first of the turn that runs, whose end will *)
(* find its line seen; one that was refused or dropped is out.                *)
Fate(i) ==
    /\ i \in started => i \notin srv.pend /\ ~LiveSteer(i) /\ (srv.first = i => srv.t \notin ended)
    /\ i \in started /\ ran[i] # 0 => Seeing
    /\ Denied(i) \/ "dropped" \in said[i] => Out(i)

(* What became of every input whose turn/steer did not fail, unless a         *)
(* turn/start was given up without knowing: with the invariant above, every   *)
(* step keeps it.                                                             *)
Fates == stray \/ (Solo /\ \A i \in Inputs \ fell : Fate(i))

(* An input that was handed in is in a place from which it will be sent, or   *)
(* was sent, or its submitter was told what became of it.                     *)
Placed(i) == i \in new \/ said[i] # {} \/ i \in started \/ Waits(i)

--------------------------------------------------------------------------------
(* A session at rest.                                                         *)

(* Lines and continuations that answer what was asked for with an input.      *)
StartLinesOf(i) == [m : {"answer"}, c : Starts(i), r : Answers, t : Turn]
SteerLines(i) == [m : {"answer"}, c : Steers(i), r : Answers, t : Turn]
SteerAnswers(i) == [k : {"answer"}, c : Steers(i), r : Answers, t : Turn]
OkSteer(i) == [m : {"answer"}, c : Steers(i), r : {"ok"}, t : Turn]
OkSteered(i) == [k : {"answer"}, c : Steers(i), r : {"ok"}, t : Turn]

(* What a step of the session that is no answer to turn/start and no line of  *)
(* a turn's start does: it asks for a turn only when none runs and none is    *)
(* asked for, and then the input that it asks for is all that it has started. *)
StartsWith(c) ==
    /\ Asks(c) /\ starting' /\ ~starting /\ active' = 0
    /\ started' \subseteq {c.i} \/ (active = 0 /\ started' \subseteq started \cup {c.i})
Feeds ==
    \/ \E c \in AnyStart : StartsWith(c)
    \/ /\ AsksNothing \/ AsksInto
       /\ started' \subseteq started
       /\ started' = {} \/ (active' = active /\ (ended' = ended \/ active # 0))
Continued ==
    /\ Has(micro, AnyStarted) => Has(micro', AnyStarted)
    /\ \A i \in Inputs : Has(micro, SteerAnswers(i)) => Has(micro', SteerAnswers(i)) \/ Has(micro, OkSteered(i))
Starved == queue # <<>> /\ active = 0 /\ ~starting /\ ~offline /\ ~closed
Joined(i) ==
    InSteers(i)' =>
        \/ InSteers(i)
        \/ \E t \in Turns : \E c \in SteersInto(i, t) : Asks(c) /\ Fresh(i) /\ (active = t \/ Has(micro, GoingTo(t)))
Moves ==
    /\ Talks /\ Feeds /\ Continued /\ \A i \in Inputs : Hands(i) /\ Joined(i)
    /\ active' \in ended' => active \in ended /\ active' = active
    /\ 0 \notin ended'
    /\ \A t \in Turns :
          /\ Has(inbox, Begins(t)) => Has(inbox', Begins(t))
          /\ Has(inbox, Ends(t)) /\ t \notin ended' => Has(inbox', Ends(t))
          /\ t \in ended' \ ended => ~Has(inbox', Begins(t))

(* The line that a turn begins comes before what stops it, and is not to come *)
(* any more for a turn that is being stopped or has ended.                    *)
Opened(t) ==
    /\ Before(inbox, Stops(t), Begins(t))
    /\ force = t \/ Has(micro, Stopped(t)) \/ t \in ended => ~Has(inbox, Begins(t))

(* Such a step starves the queue no more than it was, and who joins awaits a  *)
(* turn/start.                                                                *)
Queues == balked' = balked /\ (waiting' = waiting \/ starting) /\ (Starved' => Starved)

(* A turn/start is awaited as long as `starting` says so, and only what it    *)
(* was sent for is started; the queue waits for a turn, or its last turn/start *)
(* failed.                                                                    *)
Asking ==
    /\ waiting # <<>> => starting
    /\ starting => (Has(wait, AnyStart) \/ Has(micro, AnyStarted)) /\ active \notin ended
    /\ \A t \in Turns : Has(micro, GoingTo(t)) => ~starting
    /\ ~Has(inbox, Opening(0)) /\ ~Has(micro, Named(0)) /\ 0 \notin ended
    /\ Starved => balked
    /\ started # {} /\ ~starting => active # 0 /\ active \notin ended
AskedFor(i) == Asked(i) /\ active = 0 => started \subseteq {i}

(* The awaited turn/start is the last one that was sent, and answered once.   *)
Sole(c) ==
    Has(wait, {c}) => Before(toSrv, {c}, AnyStart) /\ (Has(inbox, AnswersTo(c)) => ~Has(toSrv, AnyStart))

(* The session has yet to take the answer that names t; the end of t is still *)
(* to come.                                                                   *)
Tells(c, t) == [m : {"answer"}, c : {c}, r : {"ok"}, t : {t}]
Lately(t) == Has(micro, Named(t)) \/ \E c \in AnyStart : Has(wait, {c}) /\ Has(inbox, Tells(c, t))
Will(t) == srv.t = t \/ Has(inbox, Ends(t))

(* A turn that is taken for running has ended, or will, or gives way to one   *)
(* whose start the session will take.                                         *)
Lasts(t) ==
    /\ Lately(t) => t \in ended \/ Will(t)
    /\ active = t \/ Has(inbox, Begins(t)) => t \in ended \/ Will(t) \/ \E u \in Turns : t < u /\ Has(inbox, Begins(u))
    /\ Has(micro, Named(t)) => ~Has(toSrv, AnyStart)
    /\ Lately(t) /\ t \in ended /\ active = 0 => started = {}
    /\ active \in ended /\ Has(micro, GoingTo(t)) => t = active

(* No answer is under way for what was not sent, and a steer into a turn that *)
(* has ended will be refused.                                                 *)
Unheard(i) ==
    /\ Unsent(i) \/ InSteers(i) => ~Has(inbox, StartLinesOf(i))
    /\ Fresh(i) => ~Has(wait, Steers(i)) /\ ~Has(inbox, SteerLines(i)) /\ ~Has(micro, SteerAnswers(i))
Doomed(i) ==
    InSteers(i) /\ active \in ended =>
        /\ ~Has(inbox, OkSteer(i)) /\ ~Has(micro, OkSteered(i))
        /\ Has(wait, Steers(i)) \/ Has(micro, SteerAnswers(i))
        /\ \A s \in Turns : Has(toSrv, SteersInto(i, s)) => s = active

Rest ==
    /\ Asking /\ (\A c \in AnyStart : Sole(c)) /\ (\A t \in Turns : Lasts(t) /\ Opened(t))
    /\ \A i \in Inputs : AskedFor(i) /\ Unheard(i) /\ Doomed(i)

(* With RunInv, every step of a session none of whose turn/steer failed keeps *)
(* it.                                                                        *)
Rests == fell = {} => Rest
=============================================================================
