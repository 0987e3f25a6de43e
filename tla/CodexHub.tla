------------------------------- MODULE CodexHub -------------------------------
(* CodexHub (backends/codex/rpc/hub.ts): one `codex app-server` child at a   *)
(* time and one JSON-RPC connection to it, shared by the sessions of the     *)
(* process.  This module has the connection's life (handshake, exit, restart *)
(* with a budget, idle close, close) and the calls made over it; the routing *)
(* of the server's own messages is in CodexRouting.                          *)
(*                                                                           *)
(* The hub runs in one JavaScript thread: a step is one callback (a line of  *)
(* the child, its exit, a timer, a caller), or the part of `hub.call` after  *)
(* its `await ready`.                                                        *)
EXTENDS Naturals, FiniteSets

CONSTANTS
    Calls,          \* requests made through hub.call
    Users,          \* holders of a retain()
    MaxRestarts,    \* restartDelaysMs.length (3 in the code)
    MaxGen,         \* TLC's bound: from this generation on no handshake succeeds
    Handshake,      \* the asker of `initialize`, which is not one of Calls
    Nobody          \* no asker: a call that has no answer yet

ASSUME HubAssumption ==
    /\ MaxRestarts \in Nat /\ MaxGen \in Nat \ {0}
    /\ IsFiniteSet(Users)
    /\ Handshake \notin Calls /\ Nobody \notin Calls /\ Handshake # Nobody

VARIABLES
    state,      \* state: what HubState says
    gen,        \* generation: counts the children started
    running,    \* generations whose child process exists
    closing,    \* generations whose transport was told to close
    open,       \* the current RpcClient is not closed
    hs,         \* the promise `ready`: the handshake of the current connection
    attempt,    \* restartAttempt
    timer,      \* restartTimer is armed
    info,       \* info.generation: the child whose handshake was answered last, or 0
    told,       \* what the sinks heard last of the connection
    call,       \* the calls: their progress and the answer each was given
    nextId,     \* nextId of the current RpcClient
    lines,      \* requests written to a child that it may (have) answer(ed)
    retainers,  \* retainers: the counter
    holds,      \* each user's handle of retain()
    idle,       \* idleTimer is armed
    quit        \* the process closes every hub (closeAllCodexHubs)

link == <<state, gen, running, closing, open, hs, attempt, timer, info, told>>
traffic == <<call, nextId, lines>>
use == <<retainers, holds, idle, quit>>
vars == <<link, traffic, use>>

Asked == [gen : Nat, id : Nat, by : Calls \cup {Handshake}]
InitialId == 1      \* the first request of every connection is `initialize`
CallRecord == [st : {"idle", "waiting", "sent", "ok", "error"}, id : Nat,
               got : Calls \cup {Handshake, Nobody}]
NoCall == [st |-> "idle", id |-> 0, got |-> Nobody]

TypeOK ==
    /\ state \in {"starting", "ready", "restarting", "failed", "closed"}
    /\ gen \in Nat \ {0}
    /\ running \subseteq Nat /\ closing \subseteq running
    /\ open \in BOOLEAN /\ hs \in {"pending", "ok", "err"}
    /\ attempt \in 0..MaxRestarts
    /\ timer \in BOOLEAN /\ info \in Nat
    /\ told \in {"up", "down", "dead"}
    /\ call \in [Calls -> CallRecord]
    /\ nextId \in Nat /\ lines \subseteq Asked
    /\ retainers \in Nat /\ holds \in [Users -> {"none", "held", "released"}]
    /\ idle \in BOOLEAN /\ quit \in BOOLEAN

Held == {u \in Users : holds[u] = "held"}

(* createCodexHub for the caller that acquires it, which retains it at once. *)
Init ==
    /\ state = "starting" /\ gen = 1 /\ running = {1} /\ closing = {}
    /\ open = TRUE /\ hs = "pending" /\ attempt = 0
    /\ timer = FALSE /\ info = 0 /\ told = "up"
    /\ call = [c \in Calls |-> NoCall]
    /\ nextId = InitialId + 1 /\ lines = {[gen |-> 1, id |-> InitialId, by |-> Handshake]}
    /\ \E u \in Users : holds = [v \in Users |-> IF v = u THEN "held" ELSE "none"]
    /\ retainers = 1 /\ idle = FALSE /\ quit = FALSE

-----------------------------------------------------------------------------
(* Mistakes the runs must catch stand before what they mistake; nothing     *)
(* else uses them.  Here: any line is read, the handshake stays pending.     *)
AnyLine(r) == TRUE
HandshakeForgotten == hs

(* A line is read when it comes from the child of the current client        *)
(* (`if (client === connection)`): stdout may be drained after the exit and  *)
(* even after the next child was started.                                   *)
FromCurrent(r) == r.gen = gen

Waits(c, r) == call[c].st = "sent" /\ call[c].id = r.id

(* RpcClient.close: every request still waiting for an answer is rejected.  *)
Rejected ==
    [c \in Calls |-> IF call[c].st = "sent" THEN [call[c] EXCEPT !.st = "error"] ELSE call[c]]

(* The promise of `initialize`, rejected if it is still pending.            *)
HandshakeRejected == IF hs = "pending" THEN "err" ELSE hs

(* hub.call up to its await.                                                *)
Call(c) ==
    /\ call[c].st = "idle"
    /\ call' = [call EXCEPT ![c].st = IF state = "closed" THEN "error" ELSE "waiting"]
    /\ UNCHANGED <<link, nextId, lines, use>>

(* Mistake: the connection is not looked at again after the await.          *)
SendAnyway(c) ==
    /\ call[c].st = "waiting" /\ hs = "ok"
    /\ call' = [call EXCEPT ![c] = [@ EXCEPT !.st = "sent", !.id = nextId]]
    /\ nextId' = nextId + 1
    /\ lines' = lines \cup {[gen |-> gen, id |-> nextId, by |-> c]}
    /\ UNCHANGED <<link, use>>

(* hub.call after `await ready`, on the client of that moment; and           *)
(* RpcClient.call.                                                          *)
Send(c) ==
    /\ call[c].st = "waiting" /\ hs = "ok" /\ open
    /\ call' = [call EXCEPT ![c] = [@ EXCEPT !.st = "sent", !.id = nextId]]
    /\ nextId' = nextId + 1
    /\ lines' = lines \cup {[gen |-> gen, id |-> nextId, by |-> c]}
    /\ UNCHANGED <<link, use>>

(* `ready` rejected, the client is closed, or the caller's signal aborted.  *)
Refuse(c) ==
    /\ call[c].st = "waiting" /\ hs # "pending"
    /\ call' = [call EXCEPT ![c].st = "error"]
    /\ UNCHANGED <<link, nextId, lines, use>>

(* The timeout of a request, or its signal.  The request stays with the     *)
(* child: its answer may still come.                                        *)
GiveUp(c) ==
    /\ call[c].st = "sent"
    /\ call' = [call EXCEPT ![c].st = "error"]
    /\ UNCHANGED <<link, nextId, lines, use>>

(* An answer, which settles the request that has its id.                    *)
Answer(r, c) ==
    /\ r \in lines /\ FromCurrent(r) /\ Waits(c, r)
    /\ \E st \in {"ok", "error"} :
          call' = [call EXCEPT ![c] = [@ EXCEPT !.st = st, !.got = r.by]]
    /\ lines' = lines \ {r}
    /\ UNCHANGED <<link, nextId, use>>

(* An answer nobody waits for, or a line of a child that was replaced.      *)
DropAnswer(r) ==
    /\ r \in lines
    /\ FromCurrent(r) => /\ ~\E c \in Calls : Waits(c, r)
                         /\ ~(hs = "pending" /\ r.id = InitialId)
    /\ lines' = lines \ {r}
    /\ UNCHANGED <<link, call, nextId, use>>

-----------------------------------------------------------------------------
(* The handshake.                                                           *)

(* Mistake: a restart that succeeds does not give the budget back.          *)
HandshakeAnsweredKeepsCount(r) ==
    /\ r \in lines /\ FromCurrent(r) /\ hs = "pending" /\ r.id = InitialId
    /\ gen < MaxGen
    /\ hs' = "ok" /\ info' = gen /\ state' = "ready" /\ told' = "up"
    /\ lines' = lines \ {r}
    /\ UNCHANGED <<gen, running, closing, open, attempt, timer, call, nextId, use>>

HandshakeAnswered(r) ==
    /\ r \in lines /\ FromCurrent(r) /\ hs = "pending" /\ r.id = InitialId
    /\ gen < MaxGen
    /\ hs' = "ok" /\ info' = gen /\ state' = "ready"
    /\ attempt' = 0
    /\ told' = "up"     \* of a restart: connectionRestored
    /\ lines' = lines \ {r}
    /\ UNCHANGED <<gen, running, closing, open, timer, call, nextId, use>>

(* Mistakes: the useless child is left alone; the back-off starts before it *)
(* is gone.                                                                 *)
HandshakeFailsLeft ==
    /\ hs = "pending" /\ open /\ hs' = "err"
    /\ state' = IF gen = 1 THEN "failed" ELSE state
    /\ UNCHANGED <<gen, running, closing, open, attempt, timer, info, told, traffic, use>>
HandshakeFailsAtOnce ==
    /\ hs = "pending" /\ open /\ hs' = "err"
    /\ closing' = closing \cup (running \cap {gen}) /\ timer' = TRUE
    /\ UNCHANGED <<state, gen, running, open, attempt, info, told, traffic, use>>

(* `initialize` times out or is answered with an error while the child is   *)
(* up: the first hub has failed, a restarted one stops the useless child.   *)
HandshakeFails ==
    /\ hs = "pending" /\ open
    /\ hs' = "err"
    /\ \/ /\ gen = 1 /\ state' = "failed" /\ UNCHANGED closing
       \/ /\ gen # 1 /\ closing' = closing \cup (running \cap {gen}) /\ UNCHANGED state
    /\ UNCHANGED <<gen, running, open, attempt, timer, info, told, traffic, use>>

-----------------------------------------------------------------------------
(* The child's exit (or the failure to start it) is reported, once.  With   *)
(* OneChild it is always the current connection's, so the early return for  *)
(* a replaced one has no step.                                              *)
Exits ==
    /\ gen \in running
    /\ running' = running \ {gen} /\ closing' = closing \ {gen}
    /\ open' = FALSE /\ hs' = HandshakeRejected
    /\ call' = Rejected
    /\ UNCHANGED <<gen, info, nextId, lines, use>>

ExitAfterClose ==
    /\ Exits /\ state = "closed"
    /\ UNCHANGED <<state, attempt, timer, told>>

FirstNeverReady == gen = 1 /\ state # "ready" /\ info = 0

ExitBeforeReady ==
    /\ Exits /\ state # "closed" /\ FirstNeverReady
    /\ state' = "failed"
    /\ UNCHANGED <<attempt, timer, told>>

(* Mistake: the sinks are told of a permanent loss only.                    *)
LostUnheard == told

Lost == IF state = "ready" THEN "down" ELSE told

ExitThenRestart ==
    /\ Exits /\ state # "closed" /\ ~FirstNeverReady
    /\ attempt < MaxRestarts
    /\ attempt' = attempt + 1 /\ state' = "restarting" /\ timer' = TRUE
    /\ told' = Lost

ExitThenGiveUp ==
    /\ Exits /\ state # "closed" /\ ~FirstNeverReady
    /\ attempt >= MaxRestarts
    /\ state' = "failed" /\ told' = "dead"
    /\ UNCHANGED <<attempt, timer>>

(* The back-off has passed: connect().                                      *)
Restart ==
    /\ timer /\ timer' = FALSE
    /\ gen' = gen + 1
    /\ running' = running \cup {gen + 1}
    /\ open' = TRUE /\ hs' = "pending"
    /\ nextId' = InitialId + 1
    /\ lines' = lines \cup {[gen |-> gen + 1, id |-> InitialId, by |-> Handshake]}
    /\ UNCHANGED <<state, closing, attempt, info, told, call, use>>

-----------------------------------------------------------------------------
(* The hub's users.                                                         *)

(* Mistake: the client is closed and the child forgotten.                   *)
CloseClientOnly ==
    /\ state # "closed" /\ state' = "closed"
    /\ timer' = FALSE /\ idle' = FALSE
    /\ open' = FALSE /\ hs' = HandshakeRejected
    /\ call' = Rejected
    /\ UNCHANGED <<gen, running, closing, attempt, info, told, nextId, lines, retainers, holds>>

(* close(): idempotent; later callers get the same promise.                 *)
CloseHub ==
    /\ state # "closed" /\ state' = "closed"
    /\ timer' = FALSE /\ idle' = FALSE
    /\ open' = FALSE /\ hs' = HandshakeRejected
    /\ call' = Rejected
    /\ closing' = closing \cup (running \cap {gen})
    /\ UNCHANGED <<gen, running, attempt, info, told, nextId, lines, retainers, holds>>

(* acquireCodexHub hands this hub out while it is alive, and the caller     *)
(* retains it before it does anything else.                                 *)
Retain(u) ==
    /\ holds[u] = "none" /\ state \notin {"closed", "failed"}
    /\ holds' = [holds EXCEPT ![u] = "held"]
    /\ retainers' = retainers + 1 /\ idle' = FALSE
    /\ UNCHANGED <<link, traffic, quit>>

Release(u) ==
    /\ holds[u] = "held"
    /\ holds' = [holds EXCEPT ![u] = "released"]
    /\ retainers' = retainers - 1
    /\ idle' = IF retainers = 1 /\ state # "closed" THEN TRUE ELSE idle
    /\ UNCHANGED <<link, traffic, quit>>

(* The session calls its release again when it is disposed: `released`.     *)
ReleaseAgain(u) ==
    /\ holds[u] = "released"
    /\ UNCHANGED vars

IdleFires ==
    /\ idle
    /\ IF retainers = 0
       THEN CloseHub
       ELSE idle' = FALSE /\ UNCHANGED <<link, traffic, retainers, holds>>
    /\ UNCHANGED quit

(* acquireCodexHub closes a hub that failed and makes another one.          *)
ReplaceFailed == state = "failed" /\ CloseHub /\ UNCHANGED quit

Quit == quit' = TRUE /\ CloseHub

-----------------------------------------------------------------------------
Caller(c) == Call(c) \/ Send(c) \/ Refuse(c) \/ GiveUp(c)
Child ==
    \/ \E r \in lines : HandshakeAnswered(r)
    \/ \E r \in lines : DropAnswer(r)
    \/ \E r \in lines, c \in Calls : Answer(r, c)
    \/ HandshakeFails
    \/ ExitAfterClose \/ ExitBeforeReady \/ ExitThenRestart \/ ExitThenGiveUp
Holder(u) == Retain(u) \/ Release(u) \/ ReleaseAgain(u)

Next ==
    \/ \E c \in Calls : Caller(c)
    \/ Child \/ Restart
    \/ \E u \in Users : Holder(u)
    \/ IdleFires \/ ReplaceFailed \/ Quit

Spec == Init /\ [][Next]_vars
-----------------------------------------------------------------------------
(* Properties.                                                              *)

(* One app-server child at a time: a restart never overlaps the child it    *)
(* replaces, although that child may have to be killed first.               *)
OneChild == \A g, h \in running : g = h

(* A call gets the answer to its own request: request ids restart at 1 with *)
(* every child, and the last lines of a dead child may be read after the    *)
(* next one has started.                                                    *)
AnswerIsOwn == \A c \in Calls : call[c].st = "ok" => call[c].got = c

(* No call is left waiting for what cannot come: a request in flight is on  *)
(* the open connection of a child that runs, and a call that waits for the  *)
(* handshake waits for one that will be settled.                            *)
NoCallStranded ==
    \A c \in Calls :
        /\ call[c].st = "sent" => open /\ gen \in running
        /\ call[c].st = "waiting" /\ hs = "pending" => open /\ gen \in running

(* What the sinks were told last is what is the case: up while the hub is   *)
(* ready, down while it restarts, permanently lost once it gave up.         *)
ToldTheTruth ==
    /\ state = "ready" => told = "up"
    /\ state = "restarting" => told = "down"
    /\ state = "failed" /\ info # 0 => told = "dead"

(* "Three failed restarts are permanent": the children after the one whose  *)
(* handshake was answered last are the restarts that failed since.  The loss *)
(* is declared permanent when they are as many as the budget and the last of *)
(* them is gone, and there are never more.                                   *)
PermanentOnlyWhenSpent ==
    /\ told = "dead" => running = {} /\ gen = info + MaxRestarts
    /\ info # 0 => gen <= info + MaxRestarts

(* ... and then it is: nothing is started or told any more.                 *)
PermanentIsFinal == [][told = "dead" => UNCHANGED <<told, gen, running>>]_vars

(* A hub closes under a session that retains it only when it has failed or  *)
(* the process closes every hub: the idle timer never does that, whatever   *)
(* the order of releases (one called twice included) and retains.           *)
RetainedStaysOpen ==
    [][state # "closed" /\ state' = "closed" => Held = {} \/ state = "failed" \/ quit']_vars

(* A hub without users is not leaked: its idle timer is armed.              *)
UnusedHubIsTimed == Held = {} /\ state # "closed" => idle

(* The hub keeps the contract its sessions rely on, what the sinks hear of   *)
(* the connection included.                                                  *)
LinkState ==
    CASE state = "starting" -> "opening" [] state = "ready" -> "up"
      [] state = "restarting" -> "down" [] state = "failed" -> "dead"
      [] OTHER -> "closed"
Progress ==
    [c \in Calls |->
        CASE call[c].st = "idle" -> "none" [] call[c].st = "waiting" -> "asked"
          [] call[c].st = "sent" -> "sent" [] call[c].st = "ok" -> "answered"
          [] OTHER -> "failed"]
Contract == INSTANCE HubContract WITH link <- LinkState, heard <- told, ask <- Progress
KeepsContract == Contract!Spec

-----------------------------------------------------------------------------
(* Liveness.  Timers fire, the part of a call behind its await runs, and a  *)
(* child that was told to close exits (it is killed if need be).  Nothing   *)
(* is assumed of a child that was not: it may never answer and never exit.  *)
Fairness ==
    /\ WF_vars(Restart) /\ WF_vars(HandshakeFails) /\ WF_vars(IdleFires)
    /\ WF_vars(gen \in closing
               /\ (ExitAfterClose \/ ExitBeforeReady \/ ExitThenRestart \/ ExitThenGiveUp))
    /\ \A c \in Calls : WF_vars(Send(c) \/ Refuse(c)) /\ WF_vars(GiveUp(c))
LiveSpec == Spec /\ Fairness

(* A loss is resolved: the connection is restored or given up for good.     *)
LossResolved == (told = "down") ~> (told # "down" \/ state = "closed")

(* Every call is answered or refused, whatever the child does.              *)
EveryCallSettles ==
    \A c \in Calls : (call[c].st = "waiting") ~> (call[c].st \in {"ok", "error"})

(* A closed hub leaves no child behind.                                     *)
ClosedChildReaped == (state = "closed") ~> (running = {})
-----------------------------------------------------------------------------
(* The inductive invariant of CodexHub_proofs.                              *)

(* The connection, its child and what is known of them.                     *)
LinkInv ==
    /\ running \subseteq {gen}
    /\ open => gen \in running /\ state # "closed"
    /\ hs = "pending" => open
    /\ timer => state = "restarting" /\ running = {}
    /\ state = "ready" <=> open /\ hs = "ok"
    /\ state = "starting" => info = 0 /\ hs = "pending"
    /\ state = "restarting" => /\ info # 0 /\ told = "down" /\ (open => gen # 1)
                               /\ attempt = IF timer THEN gen + 1 - info ELSE gen - info
    /\ state = "ready" => info = gen /\ told = "up" /\ attempt = 0
    /\ state = "failed" => hs # "pending" /\ (info # 0 => told = "dead")
    /\ info = 0 => gen = 1 /\ told = "up" /\ ~timer
    /\ info # 0 => info <= gen /\ gen <= info + MaxRestarts
    /\ told = "dead" => /\ info # 0 /\ gen = info + MaxRestarts
                        /\ running = {} /\ state \in {"failed", "closed"}

(* Requests in flight are the open connection's, and a request that may be  *)
(* answered under an id that is waited for was made by whoever waits.       *)
CallInv ==
    /\ InitialId < nextId
    /\ \A c \in Calls :
          /\ call[c].st = "sent" => /\ open /\ hs = "ok"
                                   /\ InitialId < call[c].id /\ call[c].id < nextId
          /\ call[c].st = "ok" => call[c].got = c
    /\ \A r \in lines : r.gen <= gen
    /\ \A r \in lines : r.gen = gen => r.id < nextId
    /\ \A r \in lines, c \in Calls : r.gen = gen /\ Waits(c, r) => r.by = c

(* The counter counts the holders, and the idle timer runs without them.    *)
UseInv ==
    /\ retainers = Cardinality(Held)
    /\ idle => Held = {}
    /\ Held = {} /\ state # "closed" => idle

HubInv == TypeOK /\ LinkInv /\ CallInv /\ UseInv
=============================================================================
