------------------------ MODULE SessionSwitch_proofs ------------------------
(***************************************************************************)
(* What holds of SessionSwitch for any number of attempts, stored          *)
(* sessions, inputs and turns.  Three inductive invariants over TypeOK:    *)
(* Lifecycle (who answers for a live session), Claimed (whose ids are      *)
(* pinned) and Counted (what the race probe's counters remember).          *)
(***************************************************************************)
EXTENDS SessionSwitch, TLAPS

-----------------------------------------------------------------------------
(* Types.                                                                  *)

\* The state keeps its shape.
LEMMA InitTypes == Init => TypeOK
<1> SUFFICES ASSUME Init PROVE TypeOK
    OBVIOUS
<1>1. [session |-> Initial, gen |-> 0, inputs |-> 0, turns |-> 0, queued |-> {}] \in Capture
    BY DEF Capture, Objects
<1>2. cap \in [Attempts -> Capture]
    BY <1>1 DEF Init
<1>3. alive \in BOOLEAN /\ turn \in BOOLEAN
    BY Zenon DEF Init
<1>4. life \in [Objects -> {"none", "live", "closing", "closed"}]
    BY DEF Init
<1>5. pc \in [Attempts -> Stages] /\ aim \in [Attempts -> Ids]
    BY DEF Init, Stages, Ids, Objects
<1>6. QED
    BY <1>2, <1>3, <1>4, <1>5 DEF Init, TypeOK, Objects, Ids

\* A close changes the life of a session to another of the four.
LEMMA ClosingType ==
    ASSUME TypeOK, NEW S PROVE Closing(S) \in [Objects -> {"none", "live", "closing", "closed"}]
BY DEF TypeOK, Closing

\* Every step of an attempt up to its adoption keeps the shape.
LEMMA AttemptTypes ==
    ASSUME TypeOK, NEW a \in Attempts,
           \/ StartNew(a) \/ (\E id \in Targets : StartResume(a, id))
           \/ (\E id \in Stored : StartRewind(a, id))
           \/ Answers(a) \/ Abandons(a) \/ Leaves(a)
    PROVE  TypeOK'
<1> USE SwitchAssumption DEF TypeOK, Stages, Waiting, Ended, cell, ledger, work, Ids, Objects
<1>1. ASSUME NEW id \in Ids, NEW stage \in Waiting, Begins(a, id, stage) PROVE TypeOK'
    <2>1. [session |-> bound, gen |-> gen, inputs |-> inputs, turns |-> turns,
           queued |-> queued] \in Capture
        BY DEF Capture
    <2>2. cap' \in [Attempts -> Capture]
        BY <1>1, <2>1 DEF Begins
    <2>3. QED
        BY <1>1, <2>2 DEF Begins
<1>2. CASE StartNew(a)
    BY <1>1, <1>2 DEF StartNew
<1>3. CASE \E id \in Targets : StartResume(a, id)
    BY <1>1, <1>3 DEF StartResume, Targets
<1>4. CASE \E id \in Stored : StartRewind(a, id)
    BY <1>1, <1>4 DEF StartRewind
<1>5. CASE VetoAnswered(a)
    BY <1>5 DEF VetoAnswered
<1>6. CASE ReserveRefused(a)
    BY <1>6 DEF ReserveRefused
<1>7. CASE Reserved(a)
    BY <1>7 DEF Reserved
<1>8. CASE Opened(a)
    BY <1>8 DEF Opened
<1>9. ASSUME GivesBack(a) PROVE claims' \subseteq Ids /\ held' \subseteq Attempts
    BY <1>9 DEF GivesBack, Given, Pinned, Unpin
<1>10. CASE OpenFails(a)
    BY <1>9, <1>10 DEF OpenFails
<1>11. CASE HistoryRead(a)
    BY <1>11, ClosingType DEF HistoryRead
<1>12. CASE HistoryFails(a)
    BY <1>12, ClosingType DEF HistoryFails
<1>13. CASE Abandons(a)
    BY <1>13, ClosingType DEF Abandons
<1>14. CASE Leaves(a)
    BY <1>9, <1>14 DEF Leaves
<1>15. QED
    BY <1>2, <1>3, <1>4, <1>5, <1>6, <1>7, <1>8, <1>10, <1>11, <1>12, <1>13, <1>14 DEF Answers

\* So does every step of an adoption and of what outlives it.
LEMMA AdoptionTypes ==
    ASSUME TypeOK, NEW a \in Attempts, AdoptBegins(a) \/ Adopts(a) \/ Announced(a)
    PROVE  TypeOK'
<1> USE SwitchAssumption DEF TypeOK, Stages, Waiting, Ended, cell, ledger, work, Ids, Objects
<1>1. CASE AdoptBegins(a)
    BY <1>1 DEF AdoptBegins
<1>2. CASE AdoptSwaps(a)
    <2>1. turn' \in BOOLEAN /\ UNCHANGED alive
        BY <1>2, Zenon DEF AdoptSwaps
    <2>2. hand' \in [who : Attempts \cup {Nobody}, phase : {"none", "clear", "tail"}]
        BY <1>2 DEF AdoptSwaps
    <2>3. queued' \subseteq 1 .. inputs'
        BY <1>2, Zenon DEF AdoptSwaps
    <2>4. QED
        BY <1>2, <2>1, <2>2, <2>3 DEF AdoptSwaps
<1>3. CASE AdoptEnds(a)
    <2>1. IdOf(cap[a].session) \in Ids
        BY DEF IdOf, Capture
    <2>2. claims' \subseteq Ids
        BY <1>3, <2>1 DEF AdoptEnds, Given, Pinned, Unpin
    <2>3. QED
        BY <1>3, <2>2, ClosingType DEF AdoptEnds, Unpin
<1>4. CASE AdoptThrows(a)
    <2>1. claims' \subseteq Ids /\ held' \subseteq Attempts
        BY <1>4 DEF AdoptThrows, GivesBack, Given, Pinned, Unpin
    <2>2. alive' \in BOOLEAN
        BY <1>4, Zenon DEF AdoptThrows
    <2>3. releasing' \subseteq Objects
        <3>1. releasing' \subseteq releasing \cup {bound}
            BY <1>4 DEF AdoptThrows
        <3>2. QED
            BY <3>1
    <2>4. life' \in [Objects -> {"none", "live", "closing", "closed"}]
        BY <1>4, ClosingType DEF AdoptThrows
    <2>5. /\ hand' \in [who : Attempts \cup {Nobody}, phase : {"none", "clear", "tail"}]
          /\ pc' \in [Attempts -> Stages]
          /\ pending' \subseteq Attempts
        BY <1>4 DEF AdoptThrows
    <2>6. UNCHANGED <<bound, gen, aim, cap, fresh, announcing>> /\ UNCHANGED work
        BY <1>4, Zenon DEF AdoptThrows
    <2>7. QED
        BY <2>1, <2>2, <2>3, <2>4, <2>5, <2>6
<1>5. CASE Announced(a)
    BY <1>5 DEF Announced
<1>6. QED
    BY <1>1, <1>2, <1>3, <1>4, <1>5 DEF Adopts

\* And every step of the owner, the closes, the timers and the user.
LEMMA OtherTypes ==
    ASSUME TypeOK,
           \/ (\E o \in Objects : ReleaseOwned(o) \/ CloseEnds(o))
           \/ Types \/ InputSettles \/ TurnStarts \/ TurnEnds \/ OwnerDisposed \/ Beat
    PROVE  TypeOK'
<1> USE SwitchAssumption DEF TypeOK, cell, ledger, work
<1>1. CASE \E o \in Objects : ReleaseOwned(o)
    BY <1>1, ClosingType DEF ReleaseOwned
<1>2. CASE \E o \in Objects : CloseEnds(o)
    BY <1>2 DEF CloseEnds
<1>3. CASE Types
    BY <1>3 DEF Types, Busy
<1>4. CASE InputSettles
    BY <1>4 DEF InputSettles
<1>5. CASE TurnStarts
    BY <1>5 DEF TurnStarts, Busy
<1>6. CASE TurnEnds
    BY <1>6 DEF TurnEnds
<1>7. CASE OwnerDisposed
    <2>1. alive' \in BOOLEAN
        BY <1>7, Zenon DEF OwnerDisposed
    <2>2. QED
        BY <1>7, <2>1, ClosingType DEF OwnerDisposed
<1>8. CASE Beat
    <2>1. claims' \subseteq Ids
        BY <1>8 DEF Beat, IdOf, Pinned, Ids, Objects
    <2>2. QED
        BY <1>8, <2>1 DEF Beat
<1>9. QED
    BY <1>1, <1>2, <1>3, <1>4, <1>5, <1>6, <1>7, <1>8

\* Together: no step leaves the shape.
LEMMA NextTypes == TypeOK /\ [Next]_vars => TypeOK'
<1> SUFFICES ASSUME TypeOK, [Next]_vars PROVE TypeOK'
    OBVIOUS
<1>1. CASE UNCHANGED vars
    BY <1>1 DEF TypeOK, vars, cell, ledger, work
<1>2. CASE Next
    BY <1>2, AttemptTypes, AdoptionTypes, OtherTypes DEF Next
<1>3. QED
    BY <1>1, <1>2

\* TypeOK holds in every reachable state.
THEOREM SwitchTypes == Spec => []TypeOK
<1>1. QED
    BY InitTypes, NextTypes, PTL DEF Spec

-----------------------------------------------------------------------------
(* Who answers for a live session.                                         *)

\* Where an attempt stands says how far its session got; an attempt never
\* replaces its own session.
Stands(a) ==
    /\ pc[a] \in {"idle", "veto", "reserve", "open"} => life[a] = "none"
    /\ pc[a] \in {"prepared", "adopting", "committed"} => life[a] # "none"
    /\ pc[a] = "history" => life[a] = "live"
    /\ pc[a] \in {"leaving", "threw"} => life[a] \in {"closing", "closed"}
    /\ pc[a] = "left" => life[a] \in {"none", "closed"}
    /\ pc[a] = "adopting" <=> hand.who = a
    /\ cap[a].session # a

\* The cell owns live candidates, and none once the owner has ended.
Candidates ==
    /\ \A a \in pending : pc[a] \in {"prepared", "adopting"} /\ life[a] = "live"
    /\ ~alive => pending = {}
    /\ hand.phase = "tail" => hand.who \notin pending

\* The adoption on the stack, and what is bound before and after its swap.
Stack ==
    /\ hand.phase = "none" <=> hand.who = Nobody
    /\ hand.phase = "clear" => bound = cap[hand.who].session
    /\ hand.phase = "tail" => bound = hand.who
    /\ bound \in Attempts => pc[bound] \in {"adopting", "committed", "threw"}
    /\ hand.phase = "tail" /\ cap[hand.who].session \in Attempts
          => pc[cap[hand.who].session] \in {"committed", "threw"}
    /\ alive => life[bound] = "live" /\ releasing = {}
    /\ \A o \in releasing \cap Attempts : pc[o] \in {"adopting", "committed", "threw"}

\* Every live session has one who will close it.
Answered(o) ==
    \/ o = bound /\ (alive \/ o \in releasing)
    \/ o \in pending
    \/ o \in Attempts /\ pc[o] = "history"
    \/ hand.phase = "tail" /\ o = cap[hand.who].session

Lifecycle ==
    /\ \A a \in Attempts : Stands(a)
    /\ Candidates
    /\ Stack
    /\ \A o \in Objects : life[o] = "live" => Answered(o)

\* At first the one live session is the bound one of a live owner.
LEMMA InitLifecycle == Init => Lifecycle
BY SwitchAssumption DEF Init, Lifecycle, Stands, Candidates, Stack, Answered, Objects

\* A step that moves one attempt before its open changes nothing else.
LEMMA EarlyLifecycle ==
    ASSUME TypeOK, Lifecycle, NEW a \in Attempts, NEW stage \in {"reserve", "open", "left"},
           pc[a] \in {"veto", "reserve", "open"}, pc' = [pc EXCEPT ![a] = stage],
           UNCHANGED cell, UNCHANGED cap
    PROVE  Lifecycle'
<1> USE SwitchAssumption
<1>1. \A b \in Attempts : Stands(b)'
    BY  DEF Stages, Lifecycle, Stands, Candidates, Stack, Answered, TypeOK, Objects, cell
<1>2. Candidates'
    BY  DEF Stages, Lifecycle, Stands, Candidates, Stack, Answered, TypeOK, Objects, cell
<1>3. Stack'
    BY  DEF Stages, Lifecycle, Stands, Candidates, Stack, Answered, TypeOK, Objects, cell
<1>4. \A o \in Objects : life'[o] = "live" => Answered(o)'
    BY  DEF Stages, Lifecycle, Stands, Candidates, Stack, Answered, TypeOK, Objects, cell
<1>5. QED
    BY <1>1, <1>2, <1>3, <1>4 DEF Lifecycle

\* What an attempt does on its way keeps every live session answered for.
LEMMA AttemptLifecycle ==
    ASSUME TypeOK, Lifecycle, NEW a \in Attempts,
           \/ StartNew(a) \/ (\E id \in Targets : StartResume(a, id))
           \/ (\E id \in Stored : StartRewind(a, id))
           \/ Answers(a) \/ Abandons(a) \/ Leaves(a)
    PROVE  Lifecycle'
<1> USE SwitchAssumption
<1>1. ASSUME NEW id, NEW stage \in {"veto", "reserve"}, Begins(a, id, stage) PROVE Lifecycle'
    <2>1. \A b \in Attempts : Stands(b)'
        BY <1>1 DEF Begins, Lifecycle, Stands, Candidates, Stack, Answered, TypeOK, Objects, cell
    <2>2. Candidates'
        BY <1>1 DEF Begins, Lifecycle, Stands, Candidates, Stack, Answered, TypeOK, Objects, cell
    <2>3. Stack'
        BY <1>1 DEF Begins, Lifecycle, Stands, Candidates, Stack, Answered, TypeOK, Objects, cell
    <2>4. \A o \in Objects : life'[o] = "live" => Answered(o)'
        BY <1>1 DEF Begins, Lifecycle, Stands, Candidates, Stack, Answered, TypeOK, Objects, cell
    <2>5. QED
        BY <2>1, <2>2, <2>3, <2>4 DEF Lifecycle
<1>2. CASE StartNew(a)
    BY <1>1, <1>2 DEF StartNew
<1>3. CASE \E id \in Targets : StartResume(a, id)
    BY <1>1, <1>3 DEF StartResume
<1>4. CASE \E id \in Stored : StartRewind(a, id)
    BY <1>1, <1>4 DEF StartRewind
<1>5. CASE VetoAnswered(a)
    BY <1>5, EarlyLifecycle DEF VetoAnswered
<1>6. CASE ReserveRefused(a)
    BY <1>6, EarlyLifecycle DEF ReserveRefused
<1>7. CASE Reserved(a)
    BY <1>7, EarlyLifecycle DEF Reserved
<1>8. CASE Opened(a)
    <2>1. \A b \in Attempts : Stands(b)'
        BY <1>8 DEF Opened, Lifecycle, Stands, Candidates, Stack, Answered, TypeOK, Objects, cell
    <2>2. Candidates'
        BY <1>8 DEF Opened, Lifecycle, Stands, Candidates, Stack, Answered, TypeOK, Objects, cell
    <2>3. Stack'
        BY <1>8 DEF Opened, Lifecycle, Stands, Candidates, Stack, Answered, TypeOK, Objects, cell
    <2>4. \A o \in Objects : life'[o] = "live" => Answered(o)'
        BY <1>8 DEF Opened, Lifecycle, Stands, Candidates, Stack, Answered, TypeOK, Objects, cell
    <2>5. QED
        BY <2>1, <2>2, <2>3, <2>4 DEF Lifecycle
<1>9. CASE OpenFails(a)
    BY <1>9, EarlyLifecycle DEF OpenFails
<1>10. CASE HistoryRead(a)
    <2>1. \A b \in Attempts : Stands(b)'
        BY <1>10 DEF HistoryRead, Lifecycle, Stands, Candidates, Stack, Answered, TypeOK, Objects, cell, Closing, CaptureCurrent
    <2>2. Candidates'
        BY <1>10 DEF HistoryRead, Lifecycle, Stands, Candidates, Stack, Answered, TypeOK, Objects, cell, Closing, CaptureCurrent
    <2>3. Stack'
        BY <1>10 DEF HistoryRead, Lifecycle, Stands, Candidates, Stack, Answered, TypeOK, Objects, cell, Closing, CaptureCurrent
    <2>4. \A o \in Objects : life'[o] = "live" => Answered(o)'
        BY <1>10 DEF HistoryRead, Lifecycle, Stands, Candidates, Stack, Answered, TypeOK, Objects, cell, Closing, CaptureCurrent
    <2>5. QED
        BY <2>1, <2>2, <2>3, <2>4 DEF Lifecycle
<1>11. CASE HistoryFails(a)
    <2>1. \A b \in Attempts : Stands(b)'
        BY <1>11 DEF HistoryFails, Lifecycle, Stands, Candidates, Stack, Answered, TypeOK, Objects, cell, Closing
    <2>2. Candidates'
        BY <1>11 DEF HistoryFails, Lifecycle, Stands, Candidates, Stack, Answered, TypeOK, Objects, cell, Closing
    <2>3. Stack'
        BY <1>11 DEF HistoryFails, Lifecycle, Stands, Candidates, Stack, Answered, TypeOK, Objects, cell, Closing
    <2>4. \A o \in Objects : life'[o] = "live" => Answered(o)'
        BY <1>11 DEF HistoryFails, Lifecycle, Stands, Candidates, Stack, Answered, TypeOK, Objects, cell, Closing
    <2>5. QED
        BY <2>1, <2>2, <2>3, <2>4 DEF Lifecycle
<1>12. CASE Abandons(a)
    <2>1. \A b \in Attempts : Stands(b)'
        BY <1>12 DEF Abandons, Lifecycle, Stands, Candidates, Stack, Answered, TypeOK, Objects, cell, Closing, Idle
    <2>2. Candidates'
        BY <1>12 DEF Abandons, Lifecycle, Stands, Candidates, Stack, Answered, TypeOK, Objects, cell, Closing, Idle
    <2>3. Stack'
        BY <1>12 DEF Abandons, Lifecycle, Stands, Candidates, Stack, Answered, TypeOK, Objects, cell, Closing, Idle
    <2>4. \A o \in Objects : life'[o] = "live" => Answered(o)'
        BY <1>12 DEF Abandons, Lifecycle, Stands, Candidates, Stack, Answered, TypeOK, Objects, cell, Closing, Idle
    <2>5. QED
        BY <2>1, <2>2, <2>3, <2>4 DEF Lifecycle
<1>13. CASE Leaves(a)
    <2>1. \A b \in Attempts : Stands(b)'
        BY <1>13 DEF Leaves, Lifecycle, Stands, Candidates, Stack, Answered, TypeOK, Objects, cell, Stopped
    <2>2. Candidates'
        BY <1>13 DEF Leaves, Lifecycle, Stands, Candidates, Stack, Answered, TypeOK, Objects, cell, Stopped
    <2>3. Stack'
        BY <1>13 DEF Leaves, Lifecycle, Stands, Candidates, Stack, Answered, TypeOK, Objects, cell, Stopped
    <2>4. \A o \in Objects : life'[o] = "live" => Answered(o)'
        BY <1>13 DEF Leaves, Lifecycle, Stands, Candidates, Stack, Answered, TypeOK, Objects, cell, Stopped
    <2>5. QED
        BY <2>1, <2>2, <2>3, <2>4 DEF Lifecycle
<1>14. QED
    BY <1>2, <1>3, <1>4, <1>5, <1>6, <1>7, <1>8, <1>9, <1>10, <1>11, <1>12, <1>13 DEF Answers

\* An adoption hands over from one who answers to the next.
LEMMA AdoptionLifecycle ==
    ASSUME TypeOK, Lifecycle, NEW a \in Attempts, AdoptBegins(a) \/ Adopts(a)
    PROVE  Lifecycle'
<1> USE SwitchAssumption
<1>1. CASE AdoptBegins(a)
    <2>1. \A b \in Attempts : Stands(b)'
        BY <1>1 DEF AdoptBegins, Lifecycle, Stands, Candidates, Stack, Answered, TypeOK, Objects, cell, Idle, CaptureCurrent
    <2>2. Candidates'
        BY <1>1 DEF AdoptBegins, Lifecycle, Stands, Candidates, Stack, Answered, TypeOK, Objects, cell, Idle, CaptureCurrent
    <2>3. Stack'
        BY <1>1 DEF AdoptBegins, Lifecycle, Stands, Candidates, Stack, Answered, TypeOK, Objects, cell, Idle, CaptureCurrent
    <2>4. \A o \in Objects : life'[o] = "live" => Answered(o)'
        BY <1>1 DEF AdoptBegins, Lifecycle, Stands, Candidates, Stack, Answered, TypeOK, Objects, cell, Idle, CaptureCurrent
    <2>5. QED
        BY <2>1, <2>2, <2>3, <2>4 DEF Lifecycle
<1>2. CASE AdoptSwaps(a)
    <2>1. \A b \in Attempts : Stands(b)'
        BY <1>2 DEF AdoptSwaps, Lifecycle, Stands, Candidates, Stack, Answered, TypeOK, Objects, cell, CaptureCurrent
    <2>2. Candidates'
        BY <1>2 DEF AdoptSwaps, Lifecycle, Stands, Candidates, Stack, Answered, TypeOK, Objects, cell, CaptureCurrent
    <2>3. Stack'
        BY <1>2 DEF AdoptSwaps, Lifecycle, Stands, Candidates, Stack, Answered, TypeOK, Objects, cell, CaptureCurrent
    <2>4. \A o \in Objects : life'[o] = "live" => Answered(o)'
        BY <1>2 DEF AdoptSwaps, Lifecycle, Stands, Candidates, Stack, Answered, TypeOK, Objects, cell, CaptureCurrent
    <2>5. QED
        BY <2>1, <2>2, <2>3, <2>4 DEF Lifecycle
<1>3. CASE AdoptEnds(a)
    <2>1. \A b \in Attempts : Stands(b)'
        BY <1>3 DEF AdoptEnds, Lifecycle, Stands, Candidates, Stack, Answered, TypeOK, Objects, cell, Closing
    <2>2. Candidates'
        BY <1>3 DEF AdoptEnds, Lifecycle, Stands, Candidates, Stack, Answered, TypeOK, Objects, cell, Closing
    <2>3. Stack'
        BY <1>3 DEF AdoptEnds, Lifecycle, Stands, Candidates, Stack, Answered, TypeOK, Objects, cell, Closing
    <2>4. \A o \in Objects : life'[o] = "live" => Answered(o)'
        BY <1>3 DEF AdoptEnds, Lifecycle, Stands, Candidates, Stack, Answered, TypeOK, Objects, cell, Closing
    <2>5. QED
        BY <2>1, <2>2, <2>3, <2>4 DEF Lifecycle
<1>4. CASE AdoptThrows(a)
    <2>1. \A b \in Attempts : Stands(b)'
        BY <1>4 DEF AdoptThrows, Lifecycle, Stands, Candidates, Stack, Answered, TypeOK, Objects, cell, Closing
    <2>2. Candidates'
        BY <1>4 DEF AdoptThrows, Lifecycle, Stands, Candidates, Stack, Answered, TypeOK, Objects, cell, Closing
    <2>3. Stack'
        BY <1>4 DEF AdoptThrows, Lifecycle, Stands, Candidates, Stack, Answered, TypeOK, Objects, cell, Closing
    <2>4. \A o \in Objects : life'[o] = "live" => Answered(o)'
        BY <1>4 DEF AdoptThrows, Lifecycle, Stands, Candidates, Stack, Answered, TypeOK, Objects, cell, Closing
    <2>5. QED
        BY <2>1, <2>2, <2>3, <2>4 DEF Lifecycle
<1>5. QED
    BY <1>1, <1>2, <1>3, <1>4 DEF Adopts

\* The end of the owner and every close do, too.
LEMMA OwnerLifecycle ==
    ASSUME TypeOK, Lifecycle,
           OwnerDisposed \/ (\E o \in Objects : ReleaseOwned(o) \/ CloseEnds(o))
    PROVE  Lifecycle'
<1> USE SwitchAssumption
<1>1. CASE OwnerDisposed
    <2>1. \A b \in Attempts : Stands(b)'
        BY <1>1 DEF OwnerDisposed, Lifecycle, Stands, Candidates, Stack, Answered, TypeOK, Objects, cell, Closing
    <2>2. Candidates'
        BY <1>1 DEF OwnerDisposed, Lifecycle, Stands, Candidates, Stack, Answered, TypeOK, Objects, cell, Closing
    <2>3. Stack'
        BY <1>1 DEF OwnerDisposed, Lifecycle, Stands, Candidates, Stack, Answered, TypeOK, Objects, cell, Closing
    <2>4. \A o \in Objects : life'[o] = "live" => Answered(o)'
        BY <1>1 DEF OwnerDisposed, Lifecycle, Stands, Candidates, Stack, Answered, TypeOK, Objects, cell, Closing
    <2>5. QED
        BY <2>1, <2>2, <2>3, <2>4 DEF Lifecycle
<1>2. ASSUME NEW q \in Objects, ReleaseOwned(q) PROVE Lifecycle'
    <2>1. \A b \in Attempts : Stands(b)'
        BY <1>2 DEF ReleaseOwned, Lifecycle, Stands, Candidates, Stack, Answered, TypeOK, Objects, cell, Closing
    <2>2. Candidates'
        BY <1>2 DEF ReleaseOwned, Lifecycle, Stands, Candidates, Stack, Answered, TypeOK, Objects, cell, Closing
    <2>3. Stack'
        BY <1>2 DEF ReleaseOwned, Lifecycle, Stands, Candidates, Stack, Answered, TypeOK, Objects, cell, Closing
    <2>4. \A o \in Objects : life'[o] = "live" => Answered(o)'
        BY <1>2 DEF ReleaseOwned, Lifecycle, Stands, Candidates, Stack, Answered, TypeOK, Objects, cell, Closing
    <2>5. QED
        BY <2>1, <2>2, <2>3, <2>4 DEF Lifecycle
<1>3. ASSUME NEW q \in Objects, CloseEnds(q) PROVE Lifecycle'
    <2>1. \A b \in Attempts : Stands(b)'
        BY <1>3 DEF CloseEnds, Lifecycle, Stands, Candidates, Stack, Answered, TypeOK, Objects, cell
    <2>2. Candidates'
        BY <1>3 DEF CloseEnds, Lifecycle, Stands, Candidates, Stack, Answered, TypeOK, Objects, cell
    <2>3. Stack'
        BY <1>3 DEF CloseEnds, Lifecycle, Stands, Candidates, Stack, Answered, TypeOK, Objects, cell
    <2>4. \A o \in Objects : life'[o] = "live" => Answered(o)'
        BY <1>3 DEF CloseEnds, Lifecycle, Stands, Candidates, Stack, Answered, TypeOK, Objects, cell
    <2>5. QED
        BY <2>1, <2>2, <2>3, <2>4 DEF Lifecycle
<1>4. QED
    BY <1>1, <1>2, <1>3

-----------------------------------------------------------------------------
(* Whose ids are pinned, and what the counters remember.                   *)

\* Every pinned id is published, and a resuming attempt is pinned exactly
\* while it may open, hold or close its session.
Claimed ==
    /\ \A a \in held : aim[a] \in claims
    /\ \A a \in Attempts :
        /\ a \in held => pc[a] \in {"open", "history", "prepared", "leaving", "adopting"}
        /\ Resumes(a) /\ pc[a] \in {"open", "history", "prepared", "leaving", "adopting"}
              => a \in held

\* The counters never run behind a probe, and whatever began since a probe
\* was read left a counter ahead of it; the attempt on the stack saw nothing.
Counted ==
    /\ \A a \in Busy :
        /\ cap[a].inputs <= inputs /\ cap[a].turns <= turns
        /\ a \in since => cap[a].inputs < inputs \/ cap[a].turns < turns
    /\ \A a \in Attempts : pc[a] = "idle" => a \notin since
    /\ hand.phase = "clear" => hand.who \notin since

\* At first nothing is pinned and nothing resumes.
LEMMA InitClaimed == Init => Claimed
BY DEF Init, Claimed, Resumes

\* No step takes a pinned id out of the published set: an id that is released
\* or dropped by a beat is put back for the attempts that still hold it.
LEMMA NextClaimed == TypeOK /\ Claimed /\ [Next]_vars => Claimed'
<1> SUFFICES ASSUME TypeOK, Claimed, [Next]_vars PROVE Claimed'
    OBVIOUS
<1> USE SwitchAssumption
<1>1. CASE UNCHANGED vars
    BY <1>1 DEF vars, cell, ledger, work, Claimed, TypeOK, Resumes
<1>2. ASSUME NEW a \in Attempts, NEW id, NEW stage \in {"veto", "reserve"}, Begins(a, id, stage)
     PROVE  Claimed'
    BY <1>2 DEF Begins, cell, ledger, work, Claimed, TypeOK, Resumes
<1>3. ASSUME NEW a \in Attempts,
            \/ StartNew(a) \/ (\E id \in Targets : StartResume(a, id))
            \/ (\E id \in Stored : StartRewind(a, id))
     PROVE  Claimed'
    BY <1>2, <1>3 DEF StartNew, StartResume, StartRewind
<1>4. ASSUME NEW a \in Attempts, VetoAnswered(a) PROVE Claimed'
    BY <1>4 DEF VetoAnswered, cell, ledger, work, Claimed, TypeOK, Resumes
<1>5. ASSUME NEW a \in Attempts, ReserveRefused(a) PROVE Claimed'
    BY <1>5 DEF ReserveRefused, cell, ledger, work, Claimed, TypeOK, Resumes
<1>6. ASSUME NEW a \in Attempts, Reserved(a) PROVE Claimed'
    BY <1>6 DEF Reserved, cell, ledger, work, Claimed, TypeOK, Resumes
<1>7. ASSUME NEW a \in Attempts, Opened(a) PROVE Claimed'
    BY <1>7 DEF Opened, cell, ledger, work, Claimed, TypeOK, Resumes
<1>8. ASSUME NEW a \in Attempts, OpenFails(a) PROVE Claimed'
    BY <1>8 DEF OpenFails, cell, ledger, work, Claimed, TypeOK, Resumes, GivesBack, Given, Pinned, Unpin
<1>9. ASSUME NEW a \in Attempts, HistoryRead(a) PROVE Claimed'
    BY <1>9 DEF HistoryRead, cell, ledger, work, Claimed, TypeOK, Resumes
<1>10. ASSUME NEW a \in Attempts, HistoryFails(a) PROVE Claimed'
    BY <1>10 DEF HistoryFails, cell, ledger, work, Claimed, TypeOK, Resumes
<1>11. ASSUME NEW a \in Attempts, Abandons(a) PROVE Claimed'
    BY <1>11 DEF Abandons, cell, ledger, work, Claimed, TypeOK, Resumes
<1>12. ASSUME NEW a \in Attempts, Leaves(a) PROVE Claimed'
    BY <1>12 DEF Leaves, cell, ledger, work, Claimed, TypeOK, Resumes, GivesBack, Given, Pinned, Unpin
<1>13. ASSUME NEW a \in Attempts, AdoptBegins(a) PROVE Claimed'
    BY <1>13 DEF AdoptBegins, cell, ledger, work, Claimed, TypeOK, Resumes
<1>14. ASSUME NEW a \in Attempts, AdoptSwaps(a) PROVE Claimed'
    BY <1>14 DEF AdoptSwaps, cell, ledger, work, Claimed, TypeOK, Resumes
<1>15. ASSUME NEW a \in Attempts, AdoptEnds(a) PROVE Claimed'
    BY <1>15 DEF AdoptEnds, cell, ledger, work, Claimed, TypeOK, Resumes, GivesBack, Given, Pinned, Unpin
<1>16. ASSUME NEW a \in Attempts, AdoptThrows(a) PROVE Claimed'
    BY <1>16 DEF AdoptThrows, cell, ledger, work, Claimed, TypeOK, Resumes, GivesBack, Given, Pinned, Unpin
<1>17. ASSUME NEW a \in Attempts, Announced(a) PROVE Claimed'
    BY <1>17 DEF Announced, cell, ledger, work, Claimed, TypeOK, Resumes
<1>18. ASSUME NEW o \in Objects, ReleaseOwned(o) PROVE Claimed'
    BY <1>18 DEF ReleaseOwned, cell, ledger, work, Claimed, TypeOK, Resumes
<1>19. ASSUME NEW o \in Objects, CloseEnds(o) PROVE Claimed'
    BY <1>19 DEF CloseEnds, cell, ledger, work, Claimed, TypeOK, Resumes
<1>20. CASE Types
    BY <1>20 DEF Types, cell, ledger, work, Claimed, TypeOK, Resumes
<1>21. CASE InputSettles
    BY <1>21 DEF InputSettles, cell, ledger, work, Claimed, TypeOK, Resumes
<1>22. CASE TurnStarts
    BY <1>22 DEF TurnStarts, cell, ledger, work, Claimed, TypeOK, Resumes
<1>23. CASE TurnEnds
    BY <1>23 DEF TurnEnds, cell, ledger, work, Claimed, TypeOK, Resumes
<1>24. CASE OwnerDisposed
    BY <1>24 DEF OwnerDisposed, cell, ledger, work, Claimed, TypeOK, Resumes
<1>25. CASE Beat
    BY <1>25 DEF Beat, cell, ledger, work, Claimed, TypeOK, Resumes, Pinned
<1>26. QED
    BY <1>1, <1>3, <1>4, <1>5, <1>6, <1>7, <1>8, <1>9, <1>10, <1>11, <1>12,
       <1>13, <1>14, <1>15, <1>16, <1>17, <1>18, <1>19, <1>20, <1>21, <1>22,
       <1>23, <1>24, <1>25
       DEF Next, Answers, Adopts

\* At first no attempt has captured anything.
LEMMA InitCounted == Init => Counted
BY DEF Init, Counted, Busy, Waiting

\* Whatever begins on the bound session raises a counter, and the probe was
\* read before: a candidate that is adopted has seen none begin.
LEMMA NextCounted == TypeOK /\ Counted /\ [Next]_vars => Counted'
<1> SUFFICES ASSUME TypeOK, Counted, [Next]_vars PROVE Counted'
    OBVIOUS
<1> USE SwitchAssumption
<1>1. CASE UNCHANGED vars
    BY <1>1 DEF vars, cell, ledger, work, Counted, TypeOK, Busy, Waiting, Capture
<1>2. ASSUME NEW a \in Attempts, NEW id, NEW stage \in {"veto", "reserve"}, Begins(a, id, stage)
     PROVE  Counted'
    BY <1>2 DEF Begins, cell, ledger, work, Counted, TypeOK, Busy, Waiting, Capture
<1>3. ASSUME NEW a \in Attempts,
            \/ StartNew(a) \/ (\E id \in Targets : StartResume(a, id))
            \/ (\E id \in Stored : StartRewind(a, id))
     PROVE  Counted'
    BY <1>2, <1>3 DEF StartNew, StartResume, StartRewind
<1>4. ASSUME NEW a \in Attempts, VetoAnswered(a) PROVE Counted'
    BY <1>4 DEF VetoAnswered, cell, ledger, work, Counted, TypeOK, Busy, Waiting, Capture
<1>5. ASSUME NEW a \in Attempts, ReserveRefused(a) PROVE Counted'
    BY <1>5 DEF ReserveRefused, cell, ledger, work, Counted, TypeOK, Busy, Waiting, Capture
<1>6. ASSUME NEW a \in Attempts, Reserved(a) PROVE Counted'
    BY <1>6 DEF Reserved, cell, ledger, work, Counted, TypeOK, Busy, Waiting, Capture
<1>7. ASSUME NEW a \in Attempts, Opened(a) PROVE Counted'
    BY <1>7 DEF Opened, cell, ledger, work, Counted, TypeOK, Busy, Waiting, Capture
<1>8. ASSUME NEW a \in Attempts, OpenFails(a) PROVE Counted'
    BY <1>8 DEF OpenFails, cell, ledger, work, Counted, TypeOK, Busy, Waiting, Capture
<1>9. ASSUME NEW a \in Attempts, HistoryRead(a) PROVE Counted'
    BY <1>9 DEF HistoryRead, cell, ledger, work, Counted, TypeOK, Busy, Waiting, Capture
<1>10. ASSUME NEW a \in Attempts, HistoryFails(a) PROVE Counted'
    BY <1>10 DEF HistoryFails, cell, ledger, work, Counted, TypeOK, Busy, Waiting, Capture
<1>11. ASSUME NEW a \in Attempts, Abandons(a) PROVE Counted'
    BY <1>11 DEF Abandons, cell, ledger, work, Counted, TypeOK, Busy, Waiting, Capture
<1>12. ASSUME NEW a \in Attempts, Leaves(a) PROVE Counted'
    BY <1>12 DEF Leaves, cell, ledger, work, Counted, TypeOK, Busy, Waiting, Capture
<1>13. ASSUME NEW a \in Attempts, AdoptBegins(a) PROVE Counted'
    BY <1>13 DEF AdoptBegins, cell, ledger, work, Counted, TypeOK, Busy, Waiting, Capture, Raced
<1>14. ASSUME NEW a \in Attempts, AdoptSwaps(a) PROVE Counted'
    BY <1>14 DEF AdoptSwaps, cell, ledger, work, Counted, TypeOK, Busy, Waiting, Capture
<1>15. ASSUME NEW a \in Attempts, AdoptEnds(a) PROVE Counted'
    BY <1>15 DEF AdoptEnds, cell, ledger, work, Counted, TypeOK, Busy, Waiting, Capture
<1>16. ASSUME NEW a \in Attempts, AdoptThrows(a) PROVE Counted'
    BY <1>16 DEF AdoptThrows, cell, ledger, work, Counted, TypeOK, Busy, Waiting, Capture
<1>17. ASSUME NEW a \in Attempts, Announced(a) PROVE Counted'
    BY <1>17 DEF Announced, cell, ledger, work, Counted, TypeOK, Busy, Waiting, Capture
<1>18. ASSUME NEW o \in Objects, ReleaseOwned(o) PROVE Counted'
    BY <1>18 DEF ReleaseOwned, cell, ledger, work, Counted, TypeOK, Busy, Waiting, Capture
<1>19. ASSUME NEW o \in Objects, CloseEnds(o) PROVE Counted'
    BY <1>19 DEF CloseEnds, cell, ledger, work, Counted, TypeOK, Busy, Waiting, Capture
<1>20. CASE Types
    BY <1>20 DEF Types, cell, ledger, work, Counted, TypeOK, Busy, Waiting, Capture
<1>21. CASE InputSettles
    BY <1>21 DEF InputSettles, cell, ledger, work, Counted, TypeOK, Busy, Waiting, Capture
<1>22. CASE TurnStarts
    <2>1. /\ UNCHANGED <<hand, pc, cap, inputs>> /\ turns' = turns + 1
          /\ since' = since \cup Busy /\ hand.who = Nobody
        BY <1>22 DEF TurnStarts, cell, Idle
    <2>2. Busy' = Busy /\ Busy \subseteq Attempts
        BY <2>1 DEF Busy
    <2>3. ASSUME NEW a \in Busy
          PROVE  cap[a].inputs <= inputs /\ cap[a].turns < turns'
        <3>1. cap[a].turns <= turns /\ cap[a].inputs <= inputs
            BY DEF Counted
        <3>2. cap[a].turns \in Nat /\ turns \in Nat
            BY <2>2 DEF TypeOK, Capture
        <3>3. QED
            BY <2>1, <3>1, <3>2
    <2>4. ASSUME NEW a \in Busy' PROVE cap'[a].turns <= turns'
        BY <2>1, <2>2, <2>3 DEF TypeOK, Capture
    <2>5. \A a \in Busy' :
            /\ cap'[a].inputs <= inputs' /\ cap'[a].turns <= turns'
            /\ a \in since' => cap'[a].inputs < inputs' \/ cap'[a].turns < turns'
        BY <2>1, <2>2, <2>3, <2>4
    <2>6. \A a \in Attempts : pc'[a] = "idle" => a \notin since'
        BY <2>1 DEF Counted, Busy, Waiting
    <2>7. hand'.phase = "clear" => hand'.who \notin since'
        BY <2>1, <2>2 DEF TypeOK
    <2>8. QED
        BY <2>5, <2>6, <2>7 DEF Counted
<1>23. CASE TurnEnds
    BY <1>23 DEF TurnEnds, cell, ledger, work, Counted, TypeOK, Busy, Waiting, Capture
<1>24. CASE OwnerDisposed
    BY <1>24 DEF OwnerDisposed, cell, ledger, work, Counted, TypeOK, Busy, Waiting, Capture
<1>25. CASE Beat
    BY <1>25 DEF Beat, cell, ledger, work, Counted, TypeOK, Busy, Waiting, Capture
<1>26. QED
    BY <1>1, <1>3, <1>4, <1>5, <1>6, <1>7, <1>8, <1>9, <1>10, <1>11, <1>12,
       <1>13, <1>14, <1>15, <1>16, <1>17, <1>18, <1>19, <1>20, <1>21, <1>22,
       <1>23, <1>24, <1>25
       DEF Next, Answers, Adopts

-----------------------------------------------------------------------------
(* One switch per generation.                                              *)

\* The attempts whose session became the bound one, the one on the stack
\* included.
Swapped ==
    {a \in Attempts : pc[a] = "committed" \/ (hand.who = a /\ hand.phase = "tail")}

\* Each of them left its generation behind, and no other one did.
Generations ==
    /\ \A a \in Swapped : cap[a].gen < gen
    /\ \A a, b \in Swapped : cap[a].gen = cap[b].gen => a = b

\* At first nothing was swapped.
LEMMA InitGenerations == Init => Generations
BY SwitchAssumption DEF Init, Generations, Swapped

\* A swap needs the generation that its attempt captured and ends it, so the
\* next one captures another.
LEMMA NextGenerations == TypeOK /\ Lifecycle /\ Generations /\ [Next]_vars => Generations'
<1> SUFFICES ASSUME TypeOK, Lifecycle, Generations, [Next]_vars PROVE Generations'
    OBVIOUS
<1>1. ASSUME gen' = gen, Swapped' \subseteq Swapped,
             \A a \in Swapped : cap'[a].gen = cap[a].gen
      PROVE  Generations'
    BY <1>1 DEF Generations
<1>2. ASSUME UNCHANGED <<gen, hand, cap>>,
             \A a \in Attempts : pc'[a] = "committed" => pc[a] = "committed"
      PROVE  Generations'
    <2>1. Swapped' \subseteq Swapped
        BY <1>2 DEF Swapped
    <2>2. QED
        BY <1>1, <1>2, <2>1
<1>3. ASSUME NEW a \in Attempts, NEW id, NEW stage \in {"veto", "reserve"}, Begins(a, id, stage)
      PROVE  Generations'
    <2>1. /\ pc[a] = "idle" /\ UNCHANGED <<gen, hand>> /\ pc' = [pc EXCEPT ![a] = stage]
          /\ \A b \in Attempts : b # a => cap'[b] = cap[b]
        BY <1>3 DEF Begins, cell, TypeOK
    <2>2. a \notin Swapped
        BY <2>1 DEF Swapped, Lifecycle, Stands
    <2>3. Swapped' \subseteq Swapped
        BY <2>1 DEF Swapped, TypeOK
    <2>4. QED
        BY <1>1, <2>1, <2>2, <2>3 DEF Swapped
<1>4. ASSUME NEW a \in Attempts,
            \/ StartNew(a) \/ (\E id \in Targets : StartResume(a, id))
            \/ (\E id \in Stored : StartRewind(a, id))
      PROVE  Generations'
    BY <1>3, <1>4 DEF StartNew, StartResume, StartRewind
<1>5. ASSUME NEW a \in Attempts, Answers(a) \/ Abandons(a) \/ Leaves(a) \/ Announced(a)
      PROVE  Generations'
    <2>1. UNCHANGED <<gen, hand, cap>>
        BY <1>5 DEF Answers, Abandons, Leaves, Announced, VetoAnswered, ReserveRefused, Reserved,
           Opened, OpenFails, HistoryRead, HistoryFails, cell
    <2>2. \/ pc' = pc
          \/ \E stage \in Stages \ {"committed"} : pc' = [pc EXCEPT ![a] = stage]
        BY <1>5 DEF Answers, Abandons, Leaves, Announced, VetoAnswered, ReserveRefused, Reserved,
           Opened, OpenFails, HistoryRead, HistoryFails, Stages, Waiting, Ended
    <2>3. \A b \in Attempts : pc'[b] = "committed" => pc[b] = "committed"
        BY <2>2 DEF TypeOK
    <2>4. QED
        BY <1>2, <2>1, <2>3
<1>6. ASSUME NEW a \in Attempts, AdoptBegins(a) PROVE Generations'
    <2>1. Swapped' \subseteq Swapped
        BY <1>6 DEF AdoptBegins, Swapped, TypeOK
    <2>2. QED
        BY <1>1, <1>6, <2>1 DEF AdoptBegins
<1>7. ASSUME NEW a \in Attempts, AdoptSwaps(a) PROVE Generations'
    <2>1. /\ cap[a].gen = gen /\ gen' = gen + 1 /\ UNCHANGED <<pc, cap>>
          /\ Swapped' \subseteq Swapped \cup {a}
        BY <1>7 DEF AdoptSwaps, CaptureCurrent, Swapped, TypeOK
    <2>2. \A b \in Swapped : cap[b].gen < gen
        BY DEF Generations
    <2>3. \A b \in Attempts : cap[b].gen \in Nat
        BY DEF TypeOK, Capture
    <2>4. gen \in Nat /\ Swapped \subseteq Attempts
        BY DEF TypeOK, Swapped
    <2>5. \A b \in Swapped' : cap'[b].gen < gen'
        BY <2>1, <2>2, <2>3, <2>4
    <2>6. \A b \in Swapped : cap[b].gen # cap[a].gen
        BY <2>1, <2>2, <2>3, <2>4
    <2>7. \A b, c \in Swapped' : cap'[b].gen = cap'[c].gen => b = c
        BY <2>1, <2>6 DEF Generations
    <2>8. QED
        BY <2>5, <2>7 DEF Generations
<1>8. ASSUME NEW a \in Attempts, AdoptEnds(a) PROVE Generations'
    <2>1. Swapped' \subseteq Swapped
        BY <1>8 DEF AdoptEnds, Swapped, TypeOK
    <2>2. QED
        BY <1>1, <1>8, <2>1 DEF AdoptEnds
<1>9. ASSUME NEW a \in Attempts, AdoptThrows(a) PROVE Generations'
    <2>1. Swapped' \subseteq Swapped
        BY <1>9 DEF AdoptThrows, Swapped, TypeOK
    <2>2. QED
        BY <1>1, <1>9, <2>1 DEF AdoptThrows
<1>10. ASSUME \/ UNCHANGED vars \/ Types \/ InputSettles \/ TurnStarts \/ TurnEnds
              \/ OwnerDisposed \/ Beat
              \/ (\E o \in Objects : ReleaseOwned(o) \/ CloseEnds(o))
       PROVE  Generations'
    <2>1. UNCHANGED <<gen, hand, cap, pc>>
        BY <1>10 DEF vars, cell, Types, InputSettles, TurnStarts, TurnEnds, OwnerDisposed, Beat,
           ReleaseOwned, CloseEnds
    <2>2. QED
        BY <1>2, <2>1
<1>11. QED
    BY <1>4, <1>5, <1>6, <1>7, <1>8, <1>9, <1>10 DEF Next, Adopts

-----------------------------------------------------------------------------
(* Theorems.                                                               *)

\* What touches neither the cell nor an attempt keeps every session answered
\* for; the other steps are those of the three lemmas above.
LEMMA NextLifecycle == TypeOK /\ Lifecycle /\ [Next]_vars => Lifecycle'
<1> SUFFICES ASSUME TypeOK, Lifecycle, [Next]_vars PROVE Lifecycle'
    OBVIOUS
<1>1. ASSUME UNCHANGED <<cell, pc, cap>> PROVE Lifecycle'
    BY <1>1 DEF cell, Lifecycle, Stands, Candidates, Stack, Answered
<1>2. ASSUME Types \/ InputSettles \/ TurnStarts \/ TurnEnds \/ Beat
                \/ (\E a \in Attempts : Announced(a)) \/ UNCHANGED vars
      PROVE  UNCHANGED <<cell, pc, cap>>
    BY <1>2 DEF Types, InputSettles, TurnStarts, TurnEnds, Beat, Announced, vars
<1>3. QED
    BY <1>1, <1>2, AttemptLifecycle, AdoptionLifecycle, OwnerLifecycle DEF Next

\* The strengthening that the properties follow from.
SwitchInv == TypeOK /\ Lifecycle /\ Claimed /\ Counted /\ Generations

\* The five parts together are inductive: none of them needs an assumption on
\* what the environment answers, only on the names of the constants.
THEOREM SwitchInvariant == Spec => []SwitchInv
<1>1. Init => SwitchInv
    BY InitTypes, InitLifecycle, InitClaimed, InitCounted, InitGenerations DEF SwitchInv
<1>2. SwitchInv /\ [Next]_vars => SwitchInv'
    BY NextTypes, NextLifecycle, NextClaimed, NextCounted, NextGenerations DEF SwitchInv
<1>3. QED
    BY <1>1, <1>2, PTL DEF Spec

\* Whenever no adoption is on the stack, every live session is the bound one
\* of a live channel, about to be released, a candidate of the cell, or in
\* the hands of the attempt that reads its history.
THEOREM NoneLeaks == Spec => []NothingLeaks
<1>1. SwitchInv => NothingLeaks
    BY DEF SwitchInv, Lifecycle, Candidates, Stack, Answered, NothingLeaks, Idle
<1>2. QED
    BY <1>1, SwitchInvariant, PTL

\* A live owner's channel is bound to a live session.
THEOREM LiveBinding == Spec => []BoundIsLive
<1>1. SwitchInv => BoundIsLive
    BY DEF SwitchInv, Lifecycle, Stack, BoundIsLive
<1>2. QED
    BY <1>1, SwitchInvariant, PTL

\* A resumed session that was not adopted is claimed until it stopped.
THEOREM OpenClaimed == Spec => []OpenIsClaimed
<1>1. SwitchInv => OpenIsClaimed
    BY DEF SwitchInv, Lifecycle, Stands, Claimed, OpenIsClaimed, Waiting, Stopped
<1>2. QED
    BY <1>1, SwitchInvariant, PTL

\* Of the switches begun in one generation of the binding at most one commits.
THEOREM OneSwitch == Spec => []OneSwitchPerBinding
<1>1. SwitchInv => OneSwitchPerBinding
    BY DEF SwitchInv, Generations, Swapped, OneSwitchPerBinding
<1>2. QED
    BY <1>1, SwitchInvariant, PTL

\* A switch never replaces a session on which work began since it was asked.
THEOREM WorkKept == Spec => WorkIsKept
<1>1. SwitchInv /\ [Next]_vars => [bound' # bound => bound' \notin since]_vars
    <2> SUFFICES ASSUME SwitchInv, Next, bound' # bound PROVE bound' \notin since
        OBVIOUS
    <2>1. PICK a \in Attempts : AdoptSwaps(a)
        BY DEF Next, Answers, Adopts, cell, StartNew, StartResume, StartRewind, Begins,
           VetoAnswered, ReserveRefused, Reserved, Opened, OpenFails, HistoryRead, HistoryFails,
           Abandons, Leaves, AdoptBegins, AdoptEnds, AdoptThrows, Announced, ReleaseOwned,
           CloseEnds, Types, InputSettles, TurnStarts, TurnEnds, OwnerDisposed, Beat
    <2>2. QED
        BY <2>1 DEF AdoptSwaps, SwitchInv, Counted
<1>2. QED
    BY <1>1, SwitchInvariant, PTL DEF Spec, WorkIsKept

=============================================================================
