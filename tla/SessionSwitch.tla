--------------------------- MODULE SessionSwitch ---------------------------
(***************************************************************************)
(* How one channel replaces its bound session when no extension serves the *)
(* backend: `/new', `/resume' and the adoption of a rewind's fork          *)
(* (src/dsh-adapter/channel/core/session-switch.ts), each a prepare-then-  *)
(* adopt transaction over the binding cell (channel/binding.ts) under the  *)
(* channel's owner (channel/owner.ts), with the mount ledger claimed for a *)
(* resumed session.                                                        *)
(*                                                                         *)
(* Nothing keeps two attempts apart: every `/new' and `/resume' the user   *)
(* types runs beside those still waiting for a plugin's veto, a claim, a   *)
(* backend's handshake, a history or a close, and beside the turns and     *)
(* inputs of the bound session.  An attempt opens one session, so a        *)
(* session object is named by the attempt that opened it (the one the      *)
(* channel started with is Initial); the id of its log is fresh for `/new' *)
(* and the target's for `/resume', so that two objects may drive one log.  *)
(*                                                                         *)
(* Backends, plugins, peers and the user are the environment.  The ledger  *)
(* is this process's own set (SessionMounts models the file behind it).    *)
(***************************************************************************)
EXTENDS Naturals, FiniteSets

CONSTANTS
    Attempts,   \* the `/new's, `/resume's and rewinds of a run
    Stored,     \* ids of persisted sessions that `/resume' may name
    Initial,    \* the session (and the id) the channel starts with
    Nobody,     \* no adoption in progress
    MaxInputs,  \* bound: inputs the user sends
    MaxTurns    \* bound: turns that start

ASSUME SwitchAssumption ==
    /\ Initial \notin Attempts \cup Stored
    /\ Nobody \notin Attempts
    /\ Attempts \cap Stored = {}
    /\ MaxInputs \in Nat /\ MaxTurns \in Nat

Objects == Attempts \cup {Initial}
Targets == Stored \cup {Initial}
Ids == Objects \cup Stored

VARIABLES
    alive,      \* the owner is active
    bound,      \* currentSession of the cell
    gen,        \* its generation
    hand,       \* [who, phase]: the adoption on the stack, if any
    pending,    \* prepared candidates the cell owns
    life,       \* of each session object: none, live, closing, closed
    releasing,  \* sessions whose close releaseOwned deferred by a microtask
    pc,         \* where each attempt stands
    aim,        \* the id each attempt opens
    cap,        \* what an attempt captured when it began, its probe included
    claims,     \* ownSessionIds: what this process has published
    held,       \* attempts whose reservation pins their id
    fresh,      \* attempts whose reservation published their id
    announcing, \* new sessions whose announcement waits for the ledger's lock
    turn,       \* the bound session is working
    turns,      \* live turns started so far
    inputs,     \* inputs dispatched so far
    settled,    \* those of them that left the channel's FIFO
    queued,     \* inputs the backend holds in its own queue
    since       \* history: attempts during which work began on what they replace

cell == <<alive, bound, gen, hand, pending, life, releasing>>
ledger == <<claims, held, fresh, announcing>>
work == <<turn, turns, inputs, settled, queued, since>>
vars == <<cell, pc, aim, cap, ledger, work>>

Ended == {"committed", "left", "threw"}
Waiting == {"veto", "reserve", "open", "history", "prepared", "leaving"}
Stages == {"idle", "adopting"} \cup Waiting \cup Ended

Capture == [session : Objects, gen : Nat, inputs : Nat, turns : Nat, queued : SUBSET Nat]

Init ==
    /\ alive = TRUE /\ bound = Initial /\ gen = 0 /\ pending = {} /\ releasing = {}
    /\ hand = [who |-> Nobody, phase |-> "none"]
    /\ life = [o \in Objects |-> IF o = Initial THEN "live" ELSE "none"]
    /\ pc = [a \in Attempts |-> "idle"]
    /\ aim = [a \in Attempts |-> a]
    /\ cap = [a \in Attempts |->
                [session |-> Initial, gen |-> 0, inputs |-> 0, turns |-> 0, queued |-> {}]]
    /\ claims = {Initial} /\ held = {} /\ fresh = {} /\ announcing = {}
    /\ turn = FALSE /\ turns = 0 /\ inputs = 0 /\ settled = 0 /\ queued = {} /\ since = {}

-----------------------------------------------------------------------------
(* The cell and the ledger.                                                *)

IdOf(o) == IF o = Initial THEN Initial ELSE aim[o]

\* A capture is current while its session is bound in its generation.
CaptureCurrent(a) == alive /\ cap[a].session = bound /\ cap[a].gen = gen

\* dispose(): every session is closed once, and the close takes its time.
Closing(S) ==
    [o \in Objects |-> IF o \in S /\ life[o] = "live" THEN "closing" ELSE life[o]]

Stopped(o) == life[o] \in {"none", "closed"}

\* Settling a reservation lifts its pin.
Unpin(a) == held \ {a}

Pinned(pins) == {aim[b] : b \in pins}

\* releaseMount: the id leaves the published set unless an operation pins it.
Given(ids, pins) == (claims \ ids) \cup Pinned(pins)

\* An abandoned reservation gives back only an id that it published itself.
GivesBack(a) ==
    /\ held' = Unpin(a)
    /\ claims' = Given({aim[b] : b \in fresh \cap {a}}, Unpin(a))

\* No adoption is on the stack: what waits on a promise or a timer may run.
Idle == hand.who = Nobody

-----------------------------------------------------------------------------
(* The bound session's work.                                               *)

Busy == {a \in Attempts : pc[a] \in Waiting}

\* The user sends an input; a listener of an adoption's tail may, too.
Types ==
    /\ alive /\ hand.phase # "clear" /\ inputs < MaxInputs
    /\ inputs' = inputs + 1
    /\ since' = since \cup Busy
    /\ UNCHANGED <<cell, pc, aim, cap, ledger, turn, turns, settled, queued>>

\* The oldest input in the FIFO reaches the backend, which queues it.
InputSettles ==
    /\ Idle /\ settled < inputs
    /\ settled' = settled + 1
    /\ queued' = queued \cup {settled + 1}
    /\ UNCHANGED <<cell, pc, aim, cap, ledger, turn, turns, inputs, since>>

\* A turn starts for the inputs it takes, or on the backend's own account.
TurnStarts ==
    /\ Idle /\ alive /\ ~turn /\ turns < MaxTurns
    /\ turn' = TRUE /\ turns' = turns + 1
    /\ since' = since \cup Busy
    /\ \E taken \in SUBSET queued : queued' = queued \ taken
    /\ UNCHANGED <<cell, pc, aim, cap, ledger, inputs, settled>>

TurnEnds ==
    /\ Idle /\ turn /\ turn' = FALSE
    /\ UNCHANGED <<cell, pc, aim, cap, ledger, turns, inputs, settled, queued, since>>

-----------------------------------------------------------------------------
(* One attempt, up to the adoption.                                        *)

\* The gates of /new and /resume: no turn runs, no input is on its way.
Gate == alive /\ ~turn /\ inputs = settled

Begins(a, id, stage) ==
    /\ hand.phase # "clear" /\ Gate /\ pc[a] = "idle"
    /\ pc' = [pc EXCEPT ![a] = stage]
    /\ aim' = [aim EXCEPT ![a] = id]
    /\ cap' = [cap EXCEPT ![a] = [session |-> bound, gen |-> gen,
                 inputs |-> inputs, turns |-> turns, queued |-> queued]]
    /\ UNCHANGED <<cell, ledger, work>>

StartNew(a) == Begins(a, a, "veto")

\* Resuming the bound session is a no-op, not a switch.
StartResume(a, id) == id # IdOf(bound) /\ Begins(a, id, "veto")

\* A rewind asked its own question already, and names a fork of its own.
StartRewind(a, id) ==
    /\ \A b \in Attempts : aim[b] # id
    /\ Begins(a, id, "reserve")

Resumes(a) == aim[a] # a

\* The plugins answered: a veto, or a binding that moved on, ends the attempt.
\* `/new' goes on to open; `/resume' has to claim its target first.
VetoAnswered(a) ==
    /\ Idle /\ pc[a] = "veto"
    /\ \/ pc' = [pc EXCEPT ![a] = "left"]
       \/ CaptureCurrent(a) /\ pc' = [pc EXCEPT ![a] = IF Resumes(a) THEN "reserve" ELSE "open"]
    /\ UNCHANGED <<cell, aim, cap, ledger, work>>

\* A peer drives the target, the ledger cannot be read, or the binding moved
\* on and the claim is given back in the breath that took it.
ReserveRefused(a) ==
    /\ Idle /\ pc[a] = "reserve"
    /\ pc' = [pc EXCEPT ![a] = "left"]
    /\ UNCHANGED <<cell, aim, cap, ledger, work>>

\* The claim is pinned for the whole attempt, and fresh if it published the
\* id.  The microtask between the claim and its pin is left out: no event of
\* another attempt falls in it.
Reserved(a) ==
    /\ Idle /\ pc[a] = "reserve" /\ CaptureCurrent(a)
    /\ fresh' = IF aim[a] \in claims THEN fresh ELSE fresh \cup {a}
    /\ claims' = claims \cup {aim[a]}
    /\ held' = held \cup {a}
    /\ pc' = [pc EXCEPT ![a] = "open"]
    /\ UNCHANGED <<cell, aim, cap, announcing, work>>

\* prepare() calls the opener; the backend answers with a live session.
Opened(a) ==
    /\ Idle /\ pc[a] = "open"
    /\ life' = [life EXCEPT ![a] = "live"]
    /\ pc' = [pc EXCEPT ![a] = "history"]
    /\ UNCHANGED <<alive, bound, gen, hand, pending, releasing, aim, cap, ledger, work>>

\* An open that fails leaves nothing to close.
OpenFails(a) ==
    /\ Idle /\ pc[a] = "open"
    /\ GivesBack(a)
    /\ pc' = [pc EXCEPT ![a] = "left"]
    /\ UNCHANGED <<cell, aim, cap, fresh, announcing, work>>

\* Mistake: a stale candidate is rejected and not closed.
HistoryReadTooLate(a) ==
    /\ Idle /\ pc[a] = "history"
    /\ pending' = IF CaptureCurrent(a) THEN pending \cup {a} ELSE pending
    /\ pc' = [pc EXCEPT ![a] = IF CaptureCurrent(a) THEN "prepared" ELSE "left"]
    /\ UNCHANGED <<alive, bound, gen, hand, life, releasing, aim, cap, ledger, work>>

\* The history is read: the cell owns the candidate from here on, unless the
\* capture went stale, in which case prepare() closes it and waits.
HistoryRead(a) ==
    /\ Idle /\ pc[a] = "history"
    /\ \/ /\ CaptureCurrent(a)
          /\ pending' = pending \cup {a}
          /\ pc' = [pc EXCEPT ![a] = "prepared"]
          /\ UNCHANGED life
       \/ /\ ~CaptureCurrent(a)
          /\ life' = Closing({a})
          /\ pc' = [pc EXCEPT ![a] = "leaving"]
          /\ UNCHANGED pending
    /\ UNCHANGED <<alive, bound, gen, hand, releasing, aim, cap, ledger, work>>

\* A history that cannot be read closes the session it was read from.
HistoryFails(a) ==
    /\ Idle /\ pc[a] = "history"
    /\ life' = Closing({a})
    /\ pc' = [pc EXCEPT ![a] = "leaving"]
    /\ UNCHANGED <<alive, bound, gen, hand, pending, releasing, aim, cap, ledger, work>>

\* Mistake: only what is under way now counts.
RacedByNow(a) == turn \/ settled < inputs

\* raceProbe: work began on the bound session while this one was opening.
Raced(a) ==
    \/ turn
    \/ ~ queued \subseteq cap[a].queued
    \/ turns # cap[a].turns
    \/ inputs # cap[a].inputs
    \/ settled < inputs

\* A prepared candidate that lost its binding, or the race, is abandoned.
Abandons(a) ==
    /\ Idle /\ pc[a] = "prepared"
    /\ ~CaptureCurrent(a) \/ Raced(a)
    /\ pending' = pending \ {a}
    /\ life' = Closing(pending \cap {a})
    /\ pc' = [pc EXCEPT ![a] = "leaving"]
    /\ UNCHANGED <<alive, bound, gen, hand, releasing, aim, cap, ledger, work>>

\* Mistake: the close is started and not waited for.
LeavesAtOnce(a) ==
    /\ Idle /\ pc[a] = "leaving"
    /\ GivesBack(a)
    /\ pc' = [pc EXCEPT ![a] = "left"]
    /\ UNCHANGED <<cell, aim, cap, fresh, announcing, work>>

\* Only when the close has ended does the attempt give back what it claimed.
Leaves(a) ==
    /\ Idle /\ pc[a] = "leaving" /\ Stopped(a)
    /\ GivesBack(a)
    /\ pc' = [pc EXCEPT ![a] = "left"]
    /\ UNCHANGED <<cell, aim, cap, fresh, announcing, work>>

-----------------------------------------------------------------------------
(* The adoption: one synchronous call in which code of others runs twice,  *)
(* the unsubscribers (phase clear) and the listeners of the tail.          *)

AdoptBegins(a) ==
    /\ Idle /\ pc[a] = "prepared"
    /\ CaptureCurrent(a) /\ ~Raced(a)
    /\ hand' = [who |-> a, phase |-> "clear"]
    /\ pc' = [pc EXCEPT ![a] = "adopting"]
    /\ UNCHANGED <<alive, bound, gen, pending, life, releasing, aim, cap, ledger, work>>

\* The subscriptions are cleared and the candidate is still the cell's: it
\* becomes the bound session, with an idle projection (the counters go on).
AdoptSwaps(a) ==
    /\ hand = [who |-> a, phase |-> "clear"]
    /\ CaptureCurrent(a) /\ a \in pending
    /\ bound' = a /\ gen' = gen + 1
    /\ pending' = pending \ {a}
    /\ hand' = [hand EXCEPT !.phase = "tail"]
    /\ turn' = FALSE /\ queued' = {}
    /\ UNCHANGED <<alive, life, releasing, pc, aim, cap, ledger, turns, inputs, settled, since>>

\* The replaced session's close is started and not waited for, and its claim
\* is released; a resume's reservation settles, a new session is announced
\* (at once, or when the ledger's lock is free).
AdoptEnds(a) ==
    /\ hand = [who |-> a, phase |-> "tail"] /\ alive
    /\ life' = Closing({cap[a].session})
    /\ hand' = [who |-> Nobody, phase |-> "none"]
    /\ pc' = [pc EXCEPT ![a] = "committed"]
    /\ held' = Unpin(a)
    /\ LET kept == Given({IdOf(cap[a].session)}, Unpin(a)) IN
       \/ /\ claims' = kept \cup (IF Resumes(a) THEN {} ELSE {aim[a]})
          /\ UNCHANGED announcing
       \/ /\ ~Resumes(a)
          /\ claims' = kept
          /\ announcing' = announcing \cup {a}
    /\ UNCHANGED <<alive, bound, gen, pending, releasing, aim, cap, fresh, work>>

\* An unsubscriber or the tail throws, or either ended the owner: the
\* candidate and what the cell holds are closed, the owner is disposed, and
\* the attempt's claim is given back on the way out, whatever still closes.
AdoptThrows(a) ==
    /\ hand.who = a
    /\ alive' = FALSE
    /\ life' = Closing(pending \cup {a} \cup ({cap[a].session} \ {bound}))
    /\ pending' = {}
    /\ releasing' = releasing \cup (IF alive THEN {bound} ELSE {})
    /\ hand' = [who |-> Nobody, phase |-> "none"]
    /\ pc' = [pc EXCEPT ![a] = "threw"]
    /\ GivesBack(a)
    /\ UNCHANGED <<bound, gen, aim, cap, fresh, announcing, work>>

-----------------------------------------------------------------------------
(* The owner, the closes and the ledger's timers.                          *)

\* The channel is released: prepared candidates are closed at once, the
\* bound session one microtask later.
OwnerDisposed ==
    /\ alive /\ alive' = FALSE
    /\ life' = Closing(pending)
    /\ pending' = {}
    /\ releasing' = releasing \cup {bound}
    /\ UNCHANGED <<bound, gen, hand, pc, aim, cap, ledger, work>>

\* Mistake: by then the owner has ended, and nobody looks any more.
ReleaseOwnedByOwner(o) ==
    /\ Idle /\ alive /\ o \in releasing
    /\ releasing' = releasing \ {o}
    /\ life' = Closing({o})
    /\ UNCHANGED <<alive, bound, gen, hand, pending, pc, aim, cap, ledger, work>>

ReleaseOwned(o) ==
    /\ Idle /\ o \in releasing
    /\ releasing' = releasing \ {o}
    /\ life' = Closing({o})
    /\ UNCHANGED <<alive, bound, gen, hand, pending, pc, aim, cap, ledger, work>>

CloseEnds(o) ==
    /\ Idle /\ life[o] = "closing"
    /\ life' = [life EXCEPT ![o] = "closed"]
    /\ UNCHANGED <<alive, bound, gen, hand, pending, releasing, pc, aim, cap, ledger, work>>

\* The publisher rebuilds the set: the bound session and the pinned ids.
Beat ==
    /\ Idle
    /\ claims' = {IdOf(bound)} \cup Pinned(held)
    /\ UNCHANGED <<cell, pc, aim, cap, held, fresh, announcing, work>>

\* An announcement is retried, for the id it was made for, or runs out.
Announced(a) ==
    /\ Idle /\ a \in announcing
    /\ announcing' = announcing \ {a}
    /\ claims' \in {claims, claims \cup {aim[a]}}
    /\ UNCHANGED <<cell, pc, aim, cap, held, fresh, work>>

-----------------------------------------------------------------------------
(* The environment never waits for an attempt to end before it begins the  *)
(* next one.                                                               *)

Answers(a) ==
    \/ VetoAnswered(a) \/ ReserveRefused(a) \/ Reserved(a)
    \/ Opened(a) \/ OpenFails(a) \/ HistoryRead(a) \/ HistoryFails(a)

Adopts(a) == AdoptSwaps(a) \/ AdoptEnds(a) \/ AdoptThrows(a)

Next ==
    \/ \E a \in Attempts :
        \/ StartNew(a)
        \/ \E id \in Targets : StartResume(a, id)
        \/ \E id \in Stored : StartRewind(a, id)
        \/ Answers(a) \/ Abandons(a) \/ Leaves(a)
        \/ AdoptBegins(a) \/ Adopts(a) \/ Announced(a)
    \/ \E o \in Objects : ReleaseOwned(o) \/ CloseEnds(o)
    \/ Types \/ InputSettles \/ TurnStarts \/ TurnEnds
    \/ OwnerDisposed \/ Beat

Spec == Init /\ [][Next]_vars

\* A history that was asked for is answered, a close that was asked for ends
\* (dispose() counts a failed close as one that ended), and a continuation
\* that may run does: nothing else is fair, the user and the plugins least.
Fairness ==
    /\ \A a \in Attempts :
        /\ WF_vars(HistoryRead(a) \/ HistoryFails(a))
        /\ WF_vars(AdoptBegins(a) \/ Abandons(a))
        /\ WF_vars(Adopts(a))
        /\ WF_vars(Leaves(a))
    /\ \A o \in Objects : WF_vars(ReleaseOwned(o)) /\ WF_vars(CloseEnds(o))

LiveSpec == Spec /\ Fairness

-----------------------------------------------------------------------------
(* Properties.                                                             *)

\* The shape of the state.
TypeOK ==
    /\ alive \in BOOLEAN /\ bound \in Objects /\ gen \in Nat
    /\ hand \in [who : Attempts \cup {Nobody}, phase : {"none", "clear", "tail"}]
    /\ pending \subseteq Attempts /\ releasing \subseteq Objects
    /\ life \in [Objects -> {"none", "live", "closing", "closed"}]
    /\ pc \in [Attempts -> Stages]
    /\ aim \in [Attempts -> Ids]
    /\ cap \in [Attempts -> Capture]
    /\ claims \subseteq Ids /\ held \subseteq Attempts
    /\ fresh \subseteq Attempts /\ announcing \subseteq Attempts
    /\ turn \in BOOLEAN /\ turns \in Nat
    /\ inputs \in Nat /\ settled \in 0 .. inputs /\ queued \subseteq 1 .. inputs
    /\ since \subseteq Attempts

\* No session is left running that nobody will close: whenever no adoption is
\* on the stack, a live session is the bound one of a live channel, one whose
\* deferred close is due, a candidate the cell owns, or one whose history its
\* attempt still reads.  Every way out of an attempt, of an adoption and of
\* the channel has to have closed what it was holding.
NothingLeaks ==
    Idle => \A o \in Objects : life[o] = "live" =>
                \/ alive /\ o = bound
                \/ o \in releasing
                \/ alive /\ o \in pending
                \/ o \in Attempts /\ pc[o] = "history"

\* The channel of a live owner is never bound to a session that is closing or
\* closed: a candidate whose close somebody started cannot be adopted, and
\* nobody closes the session that was.
BoundIsLive == alive /\ Idle => life[bound] = "live"

\* A resumed session that has not been adopted is claimed for as long as it
\* may write: from its open to the end of its close, whatever other attempts
\* at the same log give back and whenever the publisher beats.
OpenIsClaimed ==
    \A a \in Attempts :
        Resumes(a) /\ pc[a] \in Waiting \cup {"adopting", "left"} /\ ~Stopped(a)
            => aim[a] \in claims

\* Of the switches begun on one binding at most one replaces it.
OneSwitchPerBinding ==
    \A a, b \in Attempts :
        pc[a] = "committed" /\ pc[b] = "committed" /\ cap[a].gen = cap[b].gen => a = b

\* A switch never takes the place of a session on which work began after the
\* user asked for the switch, a turn that already ended included.
WorkIsKept == [][bound' # bound => bound' \notin since]_vars

\* Every session is closed in the end, unless it stays the bound one of a
\* live channel.
ReplacedCloses ==
    \A o \in Objects : life[o] = "live" ~> (life[o] = "closed" \/ (alive /\ o = bound))

\* What the code says of its claims: "a ledger reservation is only safe to
\* give back after that", a handle that has stopped writing (binding.ts:51-53).
\* While the channel lives, a session that was resumed, or the one it started
\* with, is claimed until it stopped.
WriterIsClaimed ==
    alive /\ Idle => \A o \in Objects :
                ~Stopped(o) /\ (o \in Attempts => Resumes(o)) => IdOf(o) \in claims

\* What the code says of the bound session: the ledger "holds the
\* backend-qualified key of the bound session" (session-switch.ts:405-406);
\* a new session is left aside, whose announcement may be refused.
BoundIsClaimed ==
    alive /\ Idle /\ (bound \in Attempts => Resumes(bound)) => IdOf(bound) \in claims

=============================================================================
