------------------------------ MODULE CodexRouting ------------------------------
(* How the Codex hub (backends/codex/rpc/hub.ts) brings the messages of a    *)
(* thread to a session: to the sink attached for the thread or for the next *)
(* of its ancestors, known from the sessions' routes or asked of the server *)
(* with thread/read, while what arrives meanwhile waits in a bounded queue. *)
EXTENDS Naturals, FiniteSets, Sequences, SequencesExt

CONSTANTS
    Threads,
    Sessions,   \* threads this process opens a session for
    Parent,     \* the parent the server knows of each thread
    Nobody,     \* no thread
    Unread,     \* a parent that was not asked for
    Limit,      \* ROUTE_BUFFER_LIMIT
    MaxMsgs,    \* TLC's bound on the messages that arrive
    MaxGen      \* TLC's bound on the connections

ASSUME RoutingAssumption ==
    /\ IsFiniteSet(Threads) /\ Sessions \subseteq Threads
    /\ Parent \in [Threads -> Threads \cup {Nobody}]
    /\ Nobody \notin Threads /\ Unread \notin Threads \cup {Nobody}
    /\ Limit \in Nat \ {0} /\ MaxMsgs \in Nat /\ MaxGen \in Nat \ {0}

VARIABLES
    link,       \* up, or down from a child's exit until the next is started
    gen,        \* generation
    sinks,      \* threads with a sink attached
    routes,     \* thread a session routed each thread to
    parents,    \* what thread/read said
    reading,    \* threads with a thread/read in flight (parentReads)
    buffered,   \* messages that wait, by thread
    at,         \* the thread whose parent is awaited for that queue
    arrived,    \* every message, in order: messages are named by their number
    pending,    \* requests neither answered nor resolved (pendingServer)
    handed,     \* messages handed to a sink, by thread, in that order
    refused     \* requests answered with "could not route"

link_ == <<link, gen>>
tree == <<sinks, routes, parents>>
waits == <<reading, buffered, at>>
traffic == <<arrived, pending, handed, refused>>
vars == <<link_, tree, waits, traffic>>

Numbers == 1..MaxMsgs
Message == [thread : Threads, kind : {"note", "request"}]

TypeOK ==
    /\ link \in {"up", "down"} /\ gen \in 1..MaxGen
    /\ sinks \subseteq Sessions
    /\ routes \in [Threads -> Threads \cup {Nobody}]
    /\ parents \in [Threads -> Threads \cup {Nobody, Unread}]
    /\ reading \subseteq Threads
    /\ arrived \in Seq(Message) /\ Len(arrived) <= MaxMsgs
    /\ buffered \in [Threads -> Seq(Numbers)] /\ handed \in [Threads -> Seq(Numbers)]
    /\ at \in [Threads -> Threads \cup {Nobody}]
    /\ pending \subseteq Numbers /\ refused \subseteq Numbers

Init ==
    /\ link = "up" /\ gen = 1
    /\ sinks = {} /\ routes = [t \in Threads |-> Nobody] /\ parents = [t \in Threads |-> Unread]
    /\ reading = {} /\ buffered = [t \in Threads |-> <<>>] /\ at = [t \in Threads |-> Nobody]
    /\ arrived = <<>> /\ pending = {} /\ handed = [t \in Threads |-> <<>>] /\ refused = {}

IsNote(n) == arrived[n].kind = "note"

-----------------------------------------------------------------------------
(* One step of sinkOf and resolveSink: a route before a known parent.       *)
Hop(t, rt, pa) == IF rt[t] # Nobody THEN rt[t] ELSE pa[t]

(* Mistake: only the next thread up is looked at.                           *)
NextUp(t, sk, rt, pa) ==
    IF t \notin Threads \ sk \/ Hop(t, rt, pa) = Unread THEN t ELSE Hop(t, rt, pa)

(* Where the way up from a thread ends: at a sink, at a thread whose parent *)
(* was not read, at Nobody, or, in a cycle, anywhere on it.                 *)
WayUp(t, sk, rt, pa) ==
    LET Stays(u) == u \notin Threads \ sk \/ Hop(u, rt, pa) = Unread
        step[k \in 0..Cardinality(Threads)] ==
            IF k = 0 THEN t
            ELSE LET u == step[k - 1] IN IF Stays(u) THEN u ELSE Hop(u, rt, pa)
    IN  step[Cardinality(Threads)]

(* A thread and those above it, as the server knows them.                   *)
Lineage(t) ==
    LET up[k \in 0..Cardinality(Threads)] ==
            IF k = 0 THEN t ELSE IF up[k - 1] \in Threads THEN Parent[up[k - 1]] ELSE Nobody
    IN  {up[k] : k \in 0..Cardinality(Threads)}

MustRead(t, rt, pa) == t \in Threads /\ Hop(t, rt, pa) = Unread

-----------------------------------------------------------------------------
(* Mistake: the oldest message goes, an approval or not.                    *)
ShedOldest(q) == IF Len(q) > Limit THEN Tail(q) ELSE q

(* Only notifications may be shed from a queue that is too long.            *)
Shed(q) ==
    LET notes == {k \in DOMAIN q : q[k] \in DOMAIN arrived' /\ arrived'[q[k]].kind = "note"}
    IN  IF Len(q) > Limit /\ notes # {}
        THEN RemoveAt(q, CHOOSE k \in notes : \A j \in notes : k <= j)
        ELSE q

(* What a queue holds of a set, in its order.                               *)
Kept(q, S) ==
    LET kept[k \in 0..Len(q)] ==
            IF k = 0 THEN <<>>
            ELSE IF q[k] \in S THEN Append(kept[k - 1], q[k]) ELSE kept[k - 1]
    IN  kept[Len(q)]

Notes == {n \in DOMAIN arrived : IsNote(n)}

(* Mistake: the newest message is taken first.                              *)
LivePopped(q) == Reverse(Kept(q, Notes \cup pending))

(* deliver skips a request that is over.                                    *)
Live(q) == Kept(q, Notes \cup pending)

(* flush, for the queues of some threads.                                   *)
Flush(ts) ==
    /\ handed' = [t \in Threads |-> IF t \in ts THEN handed[t] \o Live(buffered[t]) ELSE handed[t]]
    /\ buffered' = [t \in Threads |-> IF t \in ts THEN <<>> ELSE buffered[t]]
    /\ at' = [t \in Threads |-> IF t \in ts THEN Nobody ELSE at[t]]

(* flushKnownRoutes, once a sink or a route is new.                         *)
FlushKnown(sk, rt) == Flush({t \in Threads : at[t] # Nobody /\ WayUp(t, sk, rt, parents) \in sk})

(* Requests of the queues of some threads that are still open.              *)
OpenIn(ts) == {n \in pending : ~IsNote(n) /\ arrived[n].thread \in ts /\ n \in Range(buffered[arrived[n].thread])}

(* The parent of c is now pa[c]: each queue that waited for it goes on its  *)
(* way: to a sink, to the next thread to ask, or nowhere.                   *)
Continue(c, pa) ==
    LET waiting == {t \in Threads : at[t] = c}
        end == WayUp(c, sinks, routes, pa)
        again == end \notin sinks /\ MustRead(end, routes, pa)
        lost == IF end \in sinks \/ again THEN {} ELSE waiting
        gone == IF again THEN {} ELSE waiting
    IN  /\ parents' = pa
        /\ reading' = (reading \ {c}) \cup (IF again /\ waiting # {} THEN {end} ELSE {})
        /\ at' = [t \in Threads |-> IF t \notin waiting THEN at[t] ELSE IF again THEN end ELSE Nobody]
        /\ buffered' = [t \in Threads |-> IF t \in gone THEN <<>> ELSE buffered[t]]
        /\ handed' = [t \in Threads |->
               IF t \in waiting /\ end \in sinks THEN handed[t] \o Live(buffered[t]) ELSE handed[t]]
        /\ refused' = refused \cup OpenIn(lost)
        /\ pending' = pending \ OpenIn(lost)

-----------------------------------------------------------------------------
(* handleRequest, handleNotification and routeMessage.  The hub reads lines *)
(* of a dead child until it starts the next; it cannot ask that one.        *)
Arrives(t, kind) ==
    LET n == Len(arrived) + 1
        end == WayUp(t, sinks, routes, parents)
        request == IF kind = "request" THEN {n} ELSE {}
        ask == end \notin sinks /\ MustRead(end, routes, parents)
    IN  /\ n \in Numbers
        /\ arrived' = Append(arrived, [thread |-> t, kind |-> kind])
        /\ \/ /\ at[t] # Nobody
              /\ buffered' = [buffered EXCEPT ![t] = Shed(Append(@, n))]
              /\ pending' = pending \cup request
              /\ UNCHANGED <<parents, reading, at, handed, refused>>
           \/ /\ at[t] = Nobody /\ end \in sinks
              /\ handed' = [handed EXCEPT ![t] = Append(@, n)]
              /\ pending' = pending \cup request
              /\ UNCHANGED <<parents, waits, refused>>
           \/ /\ at[t] = Nobody /\ ask /\ link = "up"
              /\ buffered' = [buffered EXCEPT ![t] = <<n>>]
              /\ at' = [at EXCEPT ![t] = end] /\ reading' = reading \cup {end}
              /\ pending' = pending \cup request
              /\ UNCHANGED <<parents, handed, refused>>
           \/ /\ at[t] = Nobody /\ end \notin sinks /\ ~(ask /\ link = "up")
              /\ parents' = IF ask THEN [parents EXCEPT ![end] = Nobody] ELSE parents
              /\ refused' = refused \cup request
              /\ UNCHANGED <<waits, pending, handed>>
    /\ UNCHANGED <<link_, sinks, routes>>

(* thread/read is answered.                                                 *)
ReadAnswered(c) ==
    /\ c \in reading /\ link = "up"
    /\ Continue(c, [parents EXCEPT ![c] = Parent[c]])
    /\ UNCHANGED <<link_, sinks, routes, arrived>>

(* Mistake: a lookup that fails leaves its queues as they are.              *)
ReadFailsAlone(c) ==
    /\ c \in reading /\ link = "up"
    /\ reading' = reading \ {c} /\ parents' = [parents EXCEPT ![c] = Nobody]
    /\ UNCHANGED <<link_, sinks, routes, buffered, at, traffic>>

(* ... refused, or not answered within 5 s: c has no parent from now on.    *)
ReadFails(c) ==
    /\ c \in reading /\ link = "up"
    /\ Continue(c, [parents EXCEPT ![c] = Nobody])
    /\ UNCHANGED <<link_, sinks, routes, arrived>>

(* A sink answers a request, or the server resolves one, in any state.      *)
Settles(n) ==
    /\ n \in pending
    /\ pending' = pending \ {n}
    /\ UNCHANGED <<link_, tree, waits, arrived, handed, refused>>

(* onExit: queues and requests are gone; the reads in flight are rejected   *)
(* while the generation is still that of the dead child.                    *)
Exit ==
    /\ link = "up" /\ link' = "down"
    /\ pending' = {} /\ reading' = {}
    /\ buffered' = [t \in Threads |-> <<>>] /\ at' = [t \in Threads |-> Nobody]
    /\ parents' = [t \in Threads |-> IF t \in reading THEN Nobody ELSE parents[t]]
    /\ UNCHANGED <<gen, sinks, routes, arrived, handed, refused>>

(* connect, for the next child.                                             *)
Reconnect ==
    /\ link = "down" /\ gen < MaxGen
    /\ link' = "up" /\ gen' = gen + 1
    /\ pending' = {} /\ reading' = {}
    /\ buffered' = [t \in Threads |-> <<>>] /\ at' = [t \in Threads |-> Nobody]
    /\ UNCHANGED <<tree, arrived, handed, refused>>

(* attach, and what it returns.                                             *)
Attach(s) ==
    /\ s \in Sessions \ sinks
    /\ sinks' = sinks \cup {s}
    /\ FlushKnown(sinks \cup {s}, routes)
    /\ UNCHANGED <<link_, routes, parents, reading, arrived, pending, refused>>
Detach(s) ==
    /\ s \in sinks
    /\ sinks' = sinks \ {s}
    /\ routes' = [t \in Threads |-> IF routes[t] = s THEN Nobody ELSE routes[t]]
    /\ UNCHANGED <<link_, parents, waits, traffic>>

(* dispose takes the routes of its session back before it detaches.         *)
Unroute(s) ==
    /\ s \in Range(routes)
    /\ routes' = [t \in Threads |-> IF routes[t] = s THEN Nobody ELSE routes[t]]
    /\ UNCHANGED <<link_, sinks, parents, waits, traffic>>

(* route: an item of a session names a thread that was spawned below it.    *)
Route(t, s) ==
    /\ s \in sinks \cap (Lineage(t) \ {t}) /\ routes[t] = Nobody
    /\ routes' = [routes EXCEPT ![t] = s]
    /\ FlushKnown(sinks, [routes EXCEPT ![t] = s])
    /\ UNCHANGED <<link_, sinks, parents, reading, arrived, pending, refused>>

Next ==
    \/ \E t \in Threads, k \in {"note", "request"} : Arrives(t, k)
    \/ \E t \in Threads : ReadAnswered(t) \/ ReadFails(t)
    \/ \E t \in Threads, s \in Sessions : Route(t, s)
    \/ \E n \in Numbers : Settles(n)
    \/ \E s \in Sessions : Attach(s) \/ Detach(s) \/ Unroute(s)
    \/ Exit \/ Reconnect

Spec == Init /\ [][Next]_vars

-----------------------------------------------------------------------------
(* The messages of a thread reach its sinks in the order in which they      *)
(* arrived, whatever was buffered, shed or flushed in between.              *)
InOrder == \A t \in Threads : \A j, k \in DOMAIN handed[t] : j < k => handed[t][j] < handed[t][k]

(* "Approvals must survive the lookup": a request the server still waits    *)
(* for was handed to a sink, or waits in a queue for a read in flight.      *)
NoRequestLost ==
    \A n \in pending :
        LET t == arrived[n].thread
        IN  n \in Range(handed[t]) \/ (n \in Range(buffered[t]) /\ at[t] \in reading /\ link = "up")

(* "True orphans receive an error": a living child's request is refused     *)
(* only while neither its thread nor one above it has a sink.  OrphansOnly  *)
(* says so outright; RefusedAreOrphans only while no lookup has failed for  *)
(* one of these threads.                                                    *)
OrphansOnly ==
    [][\A n \in refused' \ refused :
           link = "up" => Lineage(arrived'[n].thread) \cap sinks = {}]_vars
RefusedAreOrphans ==
    [][\A n \in refused' \ refused :
           LET line == Lineage(arrived'[n].thread)
           IN  link = "up" /\ (\A u \in line \cap Threads : parents'[u] \in {Unread, Parent[u]})
               => line \cap sinks = {}]_vars

-----------------------------------------------------------------------------
(* The server answers what it is asked, in time.                            *)
ServerAnswers ==
    link' = "up" => \A t \in Threads : parents'[t] # parents[t] => parents'[t] = Parent[t]
AnsweringSpec == Init /\ [][Next /\ ServerAnswers]_vars

(* A call is answered, refused or timed out by the client's timer.          *)
FairSpec == Spec /\ \A t \in Threads : WF_vars(ReadAnswered(t) \/ ReadFails(t))

(* No queue waits for ever: every lookup ends.                              *)
LookupsEnd == \A t \in Threads : at[t] # Nobody ~> at[t] = Nobody
=============================================================================
