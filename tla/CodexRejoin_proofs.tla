--------------------------- MODULE CodexRejoin_proofs ---------------------------
(* Proofs about CodexRejoin: its types and the two things the input queue   *)
(* keeps whatever dies when, and what the session promises of a reconnect   *)
(* after calm losses, for any inputs, requests and connections.             *)
EXTENDS CodexRejoin, TLAPS

(* What an action of the session may make of the fates while it leaves the  *)
(* queue alone: it neither queues nor unqueues, and sends nothing.          *)
Quiet(f) ==
    /\ f \in [Inputs -> Fates]
    /\ \A i \in Inputs :
          /\ f[i] = "queued" <=> fate[i] = "queued"
          /\ f[i] = "none" <=> fate[i] = "none"
          /\ f[i] = "sent" => fate[i] = "sent"
NoneSent(f) == \A i \in Inputs : f[i] # "sent"

(* The input of the turn at hand was sent: it is not queued nor new.        *)
CurInv == cur # Nothing => fate[cur] \notin {"none", "queued"}

QueueInv == TypeOK /\ QueueHonest /\ SentIsRemembered /\ CurInv

-----------------------------------------------------------------------------
(* Sequences without repetition.                                            *)

Distinct(q) == \A j, k \in DOMAIN q : q[j] = q[k] => j = k
Elements(q) == {q[k] : k \in DOMAIN q}

(* An element appended to a queue that does not hold it.                    *)
LEMMA Appended ==
    ASSUME NEW S, NEW q \in Seq(S), NEW e \in S, Distinct(q), e \notin Elements(q)
    PROVE  /\ Append(q, e) \in Seq(S)
           /\ Elements(Append(q, e)) = Elements(q) \cup {e}
           /\ Distinct(Append(q, e))
<1>1. /\ Append(q, e) \in Seq(S) /\ Len(Append(q, e)) = Len(q) + 1
      /\ DOMAIN Append(q, e) = 1..(Len(q) + 1) /\ DOMAIN q = 1..Len(q) /\ Len(q) \in Nat
      /\ Append(q, e)[Len(q) + 1] = e /\ \A k \in 1..Len(q) : Append(q, e)[k] = q[k]
  OBVIOUS
<1>2. Elements(Append(q, e)) = Elements(q) \cup {e}
  BY <1>1 DEF Elements
<1>3. Distinct(Append(q, e))
  <2> SUFFICES ASSUME NEW j \in 1..(Len(q) + 1), NEW k \in 1..(Len(q) + 1),
                      Append(q, e)[j] = Append(q, e)[k]
               PROVE  j = k
    BY <1>1 DEF Distinct
  <2>1. CASE j \in 1..Len(q) /\ k \in 1..Len(q)
    BY <1>1, <2>1 DEF Distinct
  <2>2. CASE j = Len(q) + 1 /\ k \in 1..Len(q)
    BY <1>1, <2>2 DEF Elements
  <2>3. CASE k = Len(q) + 1 /\ j \in 1..Len(q)
    BY <1>1, <2>3 DEF Elements
  <2> QED
    BY <1>1, <2>1, <2>2, <2>3
<1> QED
  BY <1>1, <1>2, <1>3

(* The head taken from a queue.                                             *)
LEMMA Popped ==
    ASSUME NEW S, NEW q \in Seq(S), Distinct(q), q # <<>>
    PROVE  /\ Head(q) \in S /\ Head(q) \in Elements(q) /\ Tail(q) \in Seq(S)
           /\ Elements(Tail(q)) = Elements(q) \ {Head(q)}
           /\ Distinct(Tail(q))
<1>1. /\ Len(q) \in Nat /\ Len(q) >= 1 /\ DOMAIN q = 1..Len(q) /\ Head(q) = q[1] /\ Head(q) \in S
      /\ Tail(q) \in Seq(S) /\ DOMAIN Tail(q) = 1..(Len(q) - 1)
      /\ \A k \in 1..(Len(q) - 1) : Tail(q)[k] = q[k + 1]
  OBVIOUS
<1>2. Head(q) \in Elements(q)
  BY <1>1 DEF Elements
<1>3. Elements(Tail(q)) \subseteq Elements(q) \ {Head(q)}
  <2> SUFFICES ASSUME NEW k \in 1..(Len(q) - 1)
               PROVE  q[k + 1] \in Elements(q) /\ q[k + 1] # q[1]
    BY <1>1 DEF Elements
  <2>1. k + 1 \in 1..Len(q) /\ 1 \in 1..Len(q) /\ k + 1 # 1
    BY <1>1
  <2> QED
    BY <1>1, <2>1 DEF Elements, Distinct
<1>4. Elements(q) \ {Head(q)} \subseteq Elements(Tail(q))
  <2> SUFFICES ASSUME NEW k \in 1..Len(q), q[k] # q[1]
               PROVE  q[k] \in Elements(Tail(q))
    BY <1>1 DEF Elements
  <2>1. k - 1 \in 1..(Len(q) - 1) /\ (k - 1) + 1 = k
    BY <1>1
  <2>2. Tail(q)[k - 1] = q[k]
    BY <1>1, <2>1
  <2> QED
    BY <1>1, <2>1, <2>2 DEF Elements
<1>5. Distinct(Tail(q))
  <2> SUFFICES ASSUME NEW j \in 1..(Len(q) - 1), NEW k \in 1..(Len(q) - 1), q[j + 1] = q[k + 1]
               PROVE  j = k
    BY <1>1 DEF Distinct
  <2>1. j + 1 \in 1..Len(q) /\ k + 1 \in 1..Len(q)
    BY <1>1
  <2>2. j + 1 = k + 1
    BY <1>1, <2>1 DEF Distinct
  <2> QED
    BY <2>2
<1> QED
  BY <1>1, <1>2, <1>3, <1>4, <1>5

(* The empty queue of a new or closed session.                              *)
LEMMA EmptyQueue == Elements(<<>>) = {} /\ Distinct(<<>>)
BY DEF Elements, Distinct

-----------------------------------------------------------------------------
(* What the session's steps do to the queue, in kinds.                      *)

(* QueueHonest of a step, in the words of the lemmas above.                 *)
LEMMA HonestWords ==
    /\ QueueHonest <=> (closing # "done" =>
           Elements(queue) = {i \in Inputs : fate[i] = "queued"} /\ Distinct(queue))
    /\ QueueHonest' <=> (closing' # "done" =>
           Elements(queue') = {i \in Inputs : fate'[i] = "queued"} /\ Distinct(queue'))
    /\ Queued = Elements(queue)
<1>1. Queued = Elements(queue) /\ Queued' = Elements(queue')
  BY DEF Queued, Elements
<1>2. Distinct(queue) <=> \A j, k \in DOMAIN queue : queue[j] = queue[k] => j = k
  BY DEF Distinct
<1>3. Distinct(queue') <=> \A j, k \in DOMAIN queue' : queue'[j] = queue'[k] => j = k
  BY DEF Distinct
<1> QED
  BY <1>1, <1>2, <1>3 DEF QueueHonest

(* The queue stays; the turn's input stays or is given up.                  *)
LEMMA StaysHonest ==
    ASSUME QueueHonest, SentIsRemembered, CurInv, Inputs \cap {Nothing} = {},
           closing' # "done" => closing # "done",
           queue' = queue, Quiet(fate'), cur \in Inputs \cup {Nothing},
           cur' = cur \/ (cur' = Nothing /\ NoneSent(fate'))
    PROVE  (QueueHonest /\ SentIsRemembered /\ CurInv)'
<1>1. {i \in Inputs : fate'[i] = "queued"} = {i \in Inputs : fate[i] = "queued"}
  BY DEF Quiet
<1>2. QueueHonest'
  BY <1>1, HonestWords
<1>3. SentIsRemembered'
  BY DEF SentIsRemembered, Quiet, NoneSent
<1>4. CurInv'
  BY DEF CurInv, Quiet
<1> QED
  BY <1>2, <1>3, <1>4

(* The head of the queue is sent, nothing sent before being left open.      *)
LEMMA PopHonest ==
    ASSUME QueueHonest, NEW f, Quiet(f), NoneSent(f), closing # "done",
           queue \in Seq(Inputs), queue # <<>>,
           queue' = Tail(queue), cur' = Head(queue), fate' = [f EXCEPT ![Head(queue)] = "sent"]
    PROVE  (QueueHonest /\ SentIsRemembered /\ CurInv)' /\ queue' \in Seq(Inputs)
           /\ cur' \in Inputs /\ fate' \in [Inputs -> Fates]
<1>1. Elements(queue) = {i \in Inputs : fate[i] = "queued"} /\ Distinct(queue)
  BY HonestWords
<1>2. /\ Head(queue) \in Inputs /\ queue' \in Seq(Inputs)
      /\ Elements(queue') = Elements(queue) \ {Head(queue)} /\ Distinct(queue')
  BY <1>1, Popped
<1>3. /\ fate' \in [Inputs -> Fates] /\ fate'[Head(queue)] = "sent"
      /\ \A i \in Inputs : i # Head(queue) => fate'[i] = f[i]
  BY <1>2 DEF Quiet, Fates
<1>4. Elements(queue') = {i \in Inputs : fate'[i] = "queued"}
  BY <1>1, <1>2, <1>3 DEF Quiet
<1>5. QueueHonest'
  BY <1>2, <1>4, HonestWords
<1>6. SentIsRemembered' /\ CurInv'
  BY <1>2, <1>3 DEF SentIsRemembered, CurInv, NoneSent
<1> QED
  BY <1>2, <1>3, <1>5, <1>6

(* The whole queue is reported and emptied.                                 *)
LEMMA EmptiedHonest ==
    ASSUME QueueHonest, SentIsRemembered, CurInv, NEW f, Quiet(f), Inputs \cap {Nothing} = {},
           NEW w \in {"dropped", "closed"}, closing # "done",
           cur \in Inputs \cup {Nothing}, queue' = <<>>,
           fate' = [i \in Inputs |-> IF i \in Queued THEN w ELSE f[i]],
           cur' = cur \/ (cur' = Nothing /\ NoneSent(f))
    PROVE  (QueueHonest /\ SentIsRemembered /\ CurInv)' /\ fate' \in [Inputs -> Fates]
<1>1. Queued = {i \in Inputs : fate[i] = "queued"}
  BY HonestWords
<1>2. fate' \in [Inputs -> Fates]
  BY DEF Quiet, Fates
<1>3. {i \in Inputs : fate'[i] = "queued"} = {}
  BY <1>1 DEF Quiet
<1>4. QueueHonest'
  BY <1>3, HonestWords, EmptyQueue
<1>5. SentIsRemembered'
  BY <1>1 DEF SentIsRemembered, Quiet, NoneSent
<1>6. CurInv'
  BY <1>1 DEF CurInv, Quiet
<1> QED
  BY <1>2, <1>4, <1>5, <1>6

(* Leaving the fates alone, or settling the input of the turn, is quiet;    *)
(* what remains of sent inputs is none.                                     *)
LEMMA QuietFates ==
    ASSUME TypeOK, SentIsRemembered, CurInv, Inputs \cap {Nothing} = {}
    PROVE  /\ Quiet(fate)
           /\ \A w \in {"dropped", "discarded"} : Quiet(Settled({cur}, w)) /\ NoneSent(Settled({cur}, w))
           /\ Quiet(TurnOver) /\ NoneSent(TurnOver)
           /\ Quiet(Cut) /\ NoneSent(Cut)
           /\ cur = Nothing => NoneSent(fate)
<1>1. fate \in [Inputs -> Fates] /\ cur \in Inputs \cup {Nothing}
  BY DEF TypeOK
<1>2. Quiet(fate)
  BY <1>1 DEF Quiet
<1>3. ASSUME NEW w \in {"dropped", "discarded"}
      PROVE  Quiet(Settled({cur}, w)) /\ NoneSent(Settled({cur}, w))
  <2>1. Settled({cur}, w) \in [Inputs -> Fates]
    BY <1>1, <1>3 DEF Settled, Fates
  <2>2. \A i \in Inputs : i # cur => Settled({cur}, w)[i] = fate[i]
    BY <1>1 DEF Settled
  <2>3. cur \in Inputs => Settled({cur}, w)[cur] = w
    BY <1>1 DEF Settled
  <2>4. cur \in Inputs => fate[cur] \notin {"none", "queued"}
    BY DEF CurInv
  <2>5. \A i \in Inputs : fate[i] = "sent" => i = cur
    BY DEF SentIsRemembered
  <2>6. Quiet(Settled({cur}, w))
    BY <1>3, <2>1, <2>2, <2>3, <2>4 DEF Quiet
  <2>7. NoneSent(Settled({cur}, w))
    BY <1>3, <2>2, <2>3, <2>5 DEF NoneSent
  <2> QED
    BY <2>6, <2>7
<1>4. (cur = Nothing \/ fate[cur] # "sent") => NoneSent(fate)
  BY DEF NoneSent, SentIsRemembered
<1>5. Quiet(TurnOver) /\ NoneSent(TurnOver)
  BY <1>2, <1>3, <1>4 DEF TurnOver
<1>6. Quiet(Cut) /\ NoneSent(Cut)
  BY <1>2, <1>3, <1>4 DEF Cut
<1> QED
  BY <1>2, <1>3, <1>4, <1>5, <1>6

(* What the shared parts of the actions do.                                 *)
QueueKept == (QueueHonest /\ SentIsRemembered /\ CurInv)'
InputTypes ==
    /\ queue' \in Seq(Inputs) /\ cur' \in Inputs \cup {Nothing}
    /\ turn' \in {"none", "starting", "running"} /\ fate' \in [Inputs -> Fates]
    /\ turn' = "none" => cur' = Nothing

(* An action that does not touch the input queue.                           *)
LEMMA Unchanged ==
    ASSUME QueueInv, UNCHANGED inputs, closing' # "done" => closing # "done"
    PROVE  QueueKept /\ InputTypes
<1>1. queue' = queue /\ turn' = turn /\ cur' = cur /\ fate' = fate
  BY DEF inputs
<1>2. InputTypes
  BY <1>1 DEF QueueInv, TypeOK, InputTypes
<1>3. Quiet(fate') /\ cur \in Inputs \cup {Nothing} /\ Inputs \cap {Nothing} = {}
  BY <1>1, RejoinAssumption DEF QueueInv, TypeOK, Quiet
<1>4. QueueKept
  BY <1>1, <1>3, StaysHonest DEF QueueInv, QueueKept
<1> QED
  BY <1>2, <1>4

(* onTurnCompleted: the turn's input is settled, the next one is sent.      *)
LEMMA Completed ==
    ASSUME QueueInv, TurnCompleted, UNCHANGED closing, closing # "done"
    PROVE  QueueKept /\ InputTypes
<1>1. /\ Inputs \cap {Nothing} = {} /\ Quiet(TurnOver) /\ NoneSent(TurnOver)
      /\ cur \in Inputs \cup {Nothing} /\ queue \in Seq(Inputs) /\ TurnOver \in [Inputs -> Fates]
      /\ turn \in {"none", "starting", "running"} /\ (turn = "none" => cur = Nothing)
  BY RejoinAssumption, QuietFates DEF QueueInv, TypeOK, Quiet
<1>2. CASE turn = "starting"
  <2>1. queue' = queue /\ turn' = turn /\ cur' = cur /\ fate' = TurnOver
    BY <1>2 DEF TurnCompleted
  <2> QED
    BY <1>1, <2>1, StaysHonest DEF QueueInv, QueueKept, InputTypes
<1>3. CASE turn # "starting" /\ ~offline /\ queue # <<>>
  <2>1. /\ queue' = Tail(queue) /\ cur' = Head(queue) /\ turn' = "starting"
        /\ fate' = [TurnOver EXCEPT ![Head(queue)] = "sent"]
    BY <1>3 DEF TurnCompleted
  <2> QED
    BY <1>1, <1>3, <2>1, PopHonest DEF QueueInv, QueueKept, InputTypes
<1>4. CASE turn # "starting" /\ ~(~offline /\ queue # <<>>)
  <2>1. queue' = queue /\ turn' = "none" /\ cur' = Nothing /\ fate' = TurnOver
    BY <1>4 DEF TurnCompleted
  <2> QED
    BY <1>1, <2>1, StaysHonest DEF QueueInv, QueueKept, InputTypes
<1> QED
  BY <1>2, <1>3, <1>4

(* connectionRestored of the queue, which drains it when it may.            *)
LEMMA Reopened ==
    ASSUME QueueInv, Reopen, UNCHANGED closing, closing # "done"
    PROVE  QueueKept /\ InputTypes
<1>1. CASE ~Closed /\ turn = "none" /\ queue # <<>>
  <2>1. /\ queue' = Tail(queue) /\ cur' = Head(queue) /\ turn' = "starting"
        /\ fate' = [fate EXCEPT ![Head(queue)] = "sent"]
    BY <1>1 DEF Reopen, Drain, Start
  <2>2. Quiet(fate) /\ NoneSent(fate) /\ queue \in Seq(Inputs)
    BY <1>1, RejoinAssumption, QuietFates DEF QueueInv, TypeOK
  <2> QED
    BY <1>1, <2>1, <2>2, PopHonest DEF QueueInv, QueueKept, InputTypes
<1>2. CASE ~(~Closed /\ turn = "none" /\ queue # <<>>)
  <2>1. UNCHANGED inputs
    BY <1>2 DEF Reopen, Drain
  <2> QED
    BY <2>1, Unchanged
<1> QED
  BY <1>1, <1>2

(* permanentLoss, with the turn of the moment given up or not.              *)
LEMMA LostForGood ==
    ASSUME QueueInv, PermanentLoss, UNCHANGED closing, closing # "done", NEW f, Quiet(f),
           fate' = [i \in Inputs |-> IF i \in Queued THEN "dropped" ELSE f[i]],
           UNCHANGED <<turn, cur>> \/ (turn' = "none" /\ cur' = Nothing /\ NoneSent(f))
    PROVE  QueueKept /\ InputTypes
<1>1. queue' = <<>>
  BY DEF PermanentLoss
<1>2. Inputs \cap {Nothing} = {} /\ cur \in Inputs \cup {Nothing}
  BY RejoinAssumption DEF QueueInv, TypeOK
<1>3. cur' = cur \/ (cur' = Nothing /\ NoneSent(f))
  OBVIOUS
<1>4. QueueKept /\ fate' \in [Inputs -> Fates]
  BY <1>1, <1>2, <1>3, EmptiedHonest DEF QueueInv, QueueKept
<1>5. turn' \in {"none", "starting", "running"} /\ (turn' = "none" => cur' = Nothing) /\ cur' \in Inputs \cup {Nothing}
  BY DEF QueueInv, TypeOK
<1> QED
  BY <1>1, <1>4, <1>5 DEF InputTypes

-----------------------------------------------------------------------------
(* The step.                                                                *)

(* The rest of TypeOK: the hub, the server and the session.                 *)
RestTypes ==
    /\ link \in {"up", "waiting", "shaking", "dead"} /\ gen \in 1..MaxGen
    /\ asked \subseteq Requests /\ held \subseteq Requests /\ parked \subseteq Requests
    /\ native \in BOOLEAN /\ rejoining \in BOOLEAN /\ connected \in BOOLEAN /\ lost \in BOOLEAN
    /\ heldEnd \in BOOLEAN /\ offline \in BOOLEAN /\ dead \in BOOLEAN
    /\ closing \in {"no", "begun", "done"}
    /\ told \in {"none", "lost", "failed", "incomplete", "reconnected"}
    /\ flow \in [gen : 0..MaxGen, at : {"none", "resume", "refresh", "auth"}]
    /\ authing \in 0..MaxGen /\ authed \in 0..MaxGen

(* Its flags, which the provers want apart.                                 *)
FlagTypes ==
    /\ native \in BOOLEAN /\ rejoining \in BOOLEAN /\ connected \in BOOLEAN /\ lost \in BOOLEAN
    /\ heldEnd \in BOOLEAN /\ offline \in BOOLEAN /\ dead \in BOOLEAN

(* TypeOK is those two halves.                                             *)
LEMMA TypesSplit ==
    /\ TypeOK => RestTypes
    /\ RestTypes' /\ InputTypes => TypeOK'
BY DEF TypeOK, RestTypes, InputTypes

(* Every step keeps the types of what is not the input queue.               *)
LEMMA RestKept == ASSUME TypeOK, [Next]_vars PROVE RestTypes'
<1> USE DEF hub, server, rejoin, prompts, auth, gate
<1>1. RestTypes /\ MaxGen \in Nat \ {0}
  BY TypesSplit, RejoinAssumption
<1>2. NoFlow \in [gen : 0..MaxGen, at : {"none", "resume", "refresh", "auth"}]
  BY <1>1 DEF NoFlow
<1>3. ASSUME NEW a \in {"refresh", "auth"}
      PROVE  [flow EXCEPT !.at = a] \in [gen : 0..MaxGen, at : {"none", "resume", "refresh", "auth"}]
  BY <1>1 DEF RestTypes
<1>4. ASSUME NEW i \in Inputs, Submit(i) PROVE RestTypes'
  BY <1>1, <1>4 DEF RestTypes, Submit
<1>5. CASE StartAnswered
  BY <1>1, <1>5 DEF RestTypes, StartAnswered
<1>6. CASE StartRefused \/ StartCutOff \/ Echoed
  BY <1>1, <1>6 DEF RestTypes, StartRefused, StartCutOff, Echoed
<1>7. CASE TurnEnds
  <2>1. FlagTypes'
    <3>1. native' = FALSE /\ (heldEnd' = heldEnd \/ heldEnd' = TRUE)
      BY <1>7 DEF TurnEnds
    <3>2. UNCHANGED <<rejoining, connected, lost, offline, dead>>
      BY <1>7 DEF TurnEnds
    <3> QED
      BY <1>1, <3>1, <3>2, Zenon DEF RestTypes, FlagTypes
  <2>2. /\ UNCHANGED <<link, gen, asked, told, flow>>
        /\ UNCHANGED <<held, parked, closing, authing, authed>>
    BY <1>7 DEF TurnEnds
  <2> QED
    BY <1>1, <2>1, <2>2 DEF RestTypes, FlagTypes
<1>8. ASSUME NEW r \in Requests, Ask(r) \/ AskLate(r) \/ AnswerPrompt(r) \/ Resolve(r) PROVE RestTypes'
  BY <1>1, <1>8 DEF RestTypes, Ask, AskLate, AnswerPrompt, Resolve
<1>9. ASSUME ChildGone PROVE link' = "waiting" /\ gen' = gen /\ asked' = {} /\ native' \in BOOLEAN
  BY <1>1, <1>9 DEF ChildGone
<1>10. CASE ExitHeard
  BY <1>1, <1>2, <1>9, <1>10 DEF RestTypes, ExitHeard, ConnectionLost
<1>11. CASE ExitWhileResuming
  BY <1>1, <1>2, <1>9, <1>11 DEF RestTypes, ExitWhileResuming, ConnectionLost, PermanentLoss
<1>12. CASE ExitWhileAuth
  <2>1. link' = "waiting" /\ gen' = gen /\ asked' = {} /\ native' \in BOOLEAN
    BY <1>9, <1>12 DEF ExitWhileAuth
  <2>2. FlagTypes'
    <3>1. /\ rejoining' = TRUE /\ lost' = FALSE /\ connected' = FALSE
          /\ offline' = FALSE /\ dead' = FALSE /\ heldEnd' = FALSE
      BY <1>12 DEF ExitWhileAuth, ConnectionLost
    <3> QED
      BY <2>1, <3>1, Zenon DEF FlagTypes
  <2>3. held' = {} /\ parked' = {} /\ closing' = closing /\ told' = "lost"
    BY <1>12 DEF ExitWhileAuth, ConnectionLost
  <2>4. flow' = NoFlow /\ authing' = 0 /\ authed' = authing
    BY <1>12 DEF ExitWhileAuth
  <2> QED
    BY <1>1, <1>2, <2>1, <2>2, <2>3, <2>4 DEF RestTypes, FlagTypes
<1>13. CASE ExitUnheard
  BY <1>1, <1>9, <1>13 DEF RestTypes, ExitUnheard
<1>14. CASE Connect \/ ShakeFails
  BY <1>1, <1>14 DEF RestTypes, Connect, ShakeFails
<1>15. CASE GivenUp
  BY <1>1, <1>15 DEF RestTypes, GivenUp, ConnectionLost, PermanentLoss
<1>16. CASE Restored
  BY <1>1, <1>16 DEF RestTypes, Restored
<1>17. CASE Rejoined
  BY <1>1, <1>3, <1>17 DEF RestTypes, Rejoined
<1>18. CASE ResumeRefused \/ RejoinIncomplete
  BY <1>1, <1>2, <1>18 DEF RestTypes, ResumeRefused, RejoinIncomplete, PermanentLoss
<1>19. CASE RefreshDone
  BY <1>1, <1>2, <1>3, <1>19 DEF RestTypes, RefreshDone, Reopen
<1>20. CASE AuthSettles
  <2>1. authing' = 0 /\ authed' = authing /\ (flow' = NoFlow \/ flow' = flow)
    BY <1>20 DEF AuthSettles
  <2>2. FlagTypes'
    <3>1. Reopen \/ UNCHANGED gate
      BY <1>20 DEF AuthSettles
    <3>2. offline \in BOOLEAN /\ dead \in BOOLEAN
      BY <1>1 DEF RestTypes
    <3>3. offline' \in BOOLEAN /\ dead' \in BOOLEAN
      <4>1. CASE Reopen
        BY <4>1, Zenon DEF Reopen
      <4>2. CASE UNCHANGED gate
        BY <3>2, <4>2 DEF gate
      <4> QED
        BY <3>1, <4>1, <4>2
    <3>4. UNCHANGED <<native, rejoining, connected, lost, heldEnd>>
      BY <1>20 DEF AuthSettles
    <3> QED
      BY <1>1, <3>3, <3>4 DEF RestTypes, FlagTypes
  <2>3. UNCHANGED <<link, gen, asked, told, held, parked, closing>>
    BY <1>20 DEF AuthSettles
  <2> QED
    BY <1>1, <1>2, <2>1, <2>2, <2>3 DEF RestTypes, FlagTypes
<1>21. CASE DisposeBegins \/ DisposeEnds
  <2>1. asked' \subseteq asked /\ held' \subseteq held /\ parked' \subseteq parked
    BY <1>21 DEF DisposeBegins, DisposeEnds
  <2>2. FlagTypes'
    <3>1. heldEnd' = heldEnd \/ heldEnd' = FALSE
      BY <1>21 DEF DisposeBegins, DisposeEnds
    <3>2. UNCHANGED <<native, rejoining, connected, lost, offline, dead>>
      BY <1>21 DEF DisposeBegins, DisposeEnds
    <3> QED
      BY <1>1, <3>1, <3>2, Zenon DEF RestTypes, FlagTypes
  <2>3. closing' \in {"begun", "done"} /\ UNCHANGED <<link, gen, told, flow, authing, authed>>
    BY <1>21 DEF DisposeBegins, DisposeEnds
  <2> QED
    BY <1>1, <2>1, <2>2, <2>3 DEF RestTypes, FlagTypes
<1>22. CASE UNCHANGED vars
  BY <1>1, <1>22 DEF RestTypes, vars
<1> QED
  BY <1>4, <1>5, <1>6, <1>7, <1>8, <1>10, <1>11, <1>12, <1>13, <1>14, <1>15, <1>16, <1>17, <1>18,
     <1>19, <1>20, <1>21, <1>22 DEF Next

(* Every step keeps the queue honest and sent inputs remembered.            *)
LEMMA QueueStep == ASSUME QueueInv, [Next]_vars PROVE QueueKept /\ InputTypes
<1>1. /\ Inputs \cap {Nothing} = {} /\ cur \in Inputs \cup {Nothing} /\ queue \in Seq(Inputs)
      /\ fate \in [Inputs -> Fates] /\ turn \in {"none", "starting", "running"}
      /\ (turn = "none" => cur = Nothing) /\ closing \in {"no", "begun", "done"}
      /\ QueueHonest /\ SentIsRemembered /\ CurInv /\ TypeOK
  BY RejoinAssumption DEF QueueInv, TypeOK
<1>2. /\ Quiet(fate) /\ (cur = Nothing => NoneSent(fate))
      /\ \A w \in {"dropped", "discarded"} : Quiet(Settled({cur}, w)) /\ NoneSent(Settled({cur}, w))
      /\ Quiet(Cut) /\ NoneSent(Cut)
  BY <1>1, QuietFates
<1>3. ASSUME NEW i \in Inputs, Submit(i) PROVE QueueKept /\ InputTypes
  <2>1. fate[i] = "none" /\ closing # "done" /\ closing' = closing
    BY <1>3 DEF Submit
  <2>2. CASE fate' = [fate EXCEPT ![i] = "refused"] /\ UNCHANGED <<queue, turn, cur>>
    <3>1. fate' \in [Inputs -> Fates] /\ fate'[i] = "refused" /\ \A j \in Inputs : j # i => fate'[j] = fate[j]
      BY <1>1, <2>2 DEF Fates
    <3>2. {j \in Inputs : fate'[j] = "queued"} = {j \in Inputs : fate[j] = "queued"}
      BY <2>1, <3>1
    <3>3. QueueHonest' /\ SentIsRemembered' /\ CurInv'
      BY <1>1, <2>1, <2>2, <3>1, <3>2, HonestWords DEF SentIsRemembered, CurInv
    <3> QED
      BY <1>1, <2>2, <3>1, <3>3 DEF QueueKept, InputTypes
  <2>3. CASE turn = "none" /\ Start(i, queue)
    <3>1. turn' = "starting" /\ cur' = i /\ queue' = queue /\ fate' = [fate EXCEPT ![i] = "sent"]
      BY <2>3 DEF Start
    <3>2. /\ fate' \in [Inputs -> Fates] /\ fate'[i] = "sent"
          /\ \A j \in Inputs : j # i => fate'[j] = fate[j] /\ fate[j] # "sent"
      BY <1>1, <1>2, <2>3, <3>1 DEF Fates, NoneSent
    <3>3. {j \in Inputs : fate'[j] = "queued"} = {j \in Inputs : fate[j] = "queued"}
      BY <2>1, <3>2
    <3>4. QueueHonest' /\ SentIsRemembered' /\ CurInv'
      BY <1>1, <2>1, <3>1, <3>2, <3>3, HonestWords DEF SentIsRemembered, CurInv
    <3> QED
      BY <1>1, <3>1, <3>2, <3>4 DEF QueueKept, InputTypes
  <2>4. CASE /\ queue' = Append(queue, i) /\ fate' = [fate EXCEPT ![i] = "queued"]
             /\ UNCHANGED <<turn, cur>>
    <3>1. /\ fate' \in [Inputs -> Fates] /\ fate'[i] = "queued"
          /\ \A j \in Inputs : j # i => fate'[j] = fate[j]
      BY <1>1, <2>4 DEF Fates
    <3>2. Elements(queue) = {j \in Inputs : fate[j] = "queued"} /\ Distinct(queue) /\ i \notin Elements(queue)
      BY <1>1, <2>1, HonestWords
    <3>3. queue' \in Seq(Inputs) /\ Elements(queue') = Elements(queue) \cup {i} /\ Distinct(queue')
      BY <1>1, <2>4, <3>2, Appended
    <3>4. Elements(queue') = {j \in Inputs : fate'[j] = "queued"}
      BY <3>1, <3>2, <3>3
    <3>5. QueueHonest' /\ SentIsRemembered' /\ CurInv'
      BY <1>1, <2>1, <2>4, <3>1, <3>3, <3>4, HonestWords DEF SentIsRemembered, CurInv
    <3> QED
      BY <1>1, <2>4, <3>1, <3>3, <3>5 DEF QueueKept, InputTypes
  <2> QED
    BY <1>3, <2>2, <2>3, <2>4 DEF Submit
<1>4. CASE StartAnswered
  <2>1. queue' = queue /\ cur' = cur /\ fate' = fate /\ turn' = "running" /\ closing' = closing
    BY <1>4 DEF StartAnswered
  <2> QED
    BY <1>1, <1>2, <2>1, StaysHonest DEF QueueKept, InputTypes, Quiet
<1>5. CASE StartRefused \/ StartCutOff
  <2>1. PICK w \in {"dropped", "discarded"} :
           queue' = queue /\ cur' = Nothing /\ turn' = "none" /\ fate' = Settled({cur}, w) /\ closing' = closing
    BY <1>5 DEF StartRefused, StartCutOff
  <2> QED
    BY <1>1, <1>2, <2>1, StaysHonest DEF QueueKept, InputTypes, Quiet
<1>6. CASE Echoed
  <2>1. queue' = queue /\ cur' = cur /\ turn' = turn /\ closing' = closing
        /\ cur \in Inputs /\ fate[cur] = "sent" /\ fate' = [fate EXCEPT ![cur] = "ran"]
    BY <1>1, <1>6 DEF Echoed
  <2>2. Quiet(fate')
    BY <1>1, <2>1 DEF Quiet, Fates
  <2> QED
    BY <1>1, <2>1, <2>2, StaysHonest DEF QueueKept, InputTypes, Quiet
<1>7. CASE TurnEnds
  <2>1. closing' = closing
    BY <1>7 DEF TurnEnds
  <2>2. UNCHANGED inputs \/ (TurnCompleted /\ closing # "done")
    BY <1>7 DEF TurnEnds, Closed
  <2> QED
    BY <2>1, <2>2, Unchanged, Completed
<1>8. CASE \E r \in Requests : Ask(r) \/ AskLate(r) \/ AnswerPrompt(r) \/ Resolve(r)
  <2>1. UNCHANGED <<inputs, closing>>
    BY <1>8 DEF Ask, AskLate, AnswerPrompt, Resolve
  <2> QED
    BY <2>1, Unchanged
<1>9. CASE ExitHeard
  <2>1. queue' = queue /\ cur' = Nothing /\ turn' = "none" /\ fate' = Cut /\ closing' = closing
    BY <1>9 DEF ExitHeard
  <2> QED
    BY <1>1, <1>2, <2>1, StaysHonest DEF QueueKept, InputTypes, Quiet
<1>10. CASE ExitWhileResuming
  <2>1. /\ PermanentLoss /\ closing' = closing /\ closing # "done" /\ turn' = "none" /\ cur' = Nothing
        /\ fate' = [i \in Inputs |-> IF i \in Queued THEN "dropped" ELSE Cut[i]]
    BY <1>10 DEF ExitWhileResuming, ConnectionLost
  <2> QED
    BY <1>2, <2>1, LostForGood
<1>11. CASE ExitWhileAuth
  <2>1. closing' = closing /\ closing # "done"
    BY <1>11 DEF ExitWhileAuth, ConnectionLost
  <2>2. CASE queue # <<>>
    <3>1. /\ turn' = "starting" /\ cur' = Head(queue) /\ queue' = Tail(queue)
          /\ fate' = [Cut EXCEPT ![Head(queue)] = "sent"]
      BY <1>11, <2>2 DEF ExitWhileAuth
    <3> QED
      BY <1>1, <1>2, <2>1, <2>2, <3>1, PopHonest DEF QueueKept, InputTypes
  <2>3. CASE queue = <<>>
    <3>1. turn' = "none" /\ cur' = Nothing /\ fate' = Cut /\ queue' = queue
      BY <1>11, <2>3 DEF ExitWhileAuth
    <3> QED
      BY <1>1, <1>2, <2>1, <3>1, StaysHonest DEF QueueKept, InputTypes, Quiet
  <2> QED
    BY <2>2, <2>3
<1>12. CASE ExitUnheard \/ Connect \/ ShakeFails \/ Restored \/ RejoinIncomplete
  <2>1. UNCHANGED <<inputs, closing>>
    BY <1>12 DEF ExitUnheard, Connect, ShakeFails, Restored, RejoinIncomplete
  <2> QED
    BY <2>1, Unchanged
<1>13. CASE GivenUp
  <2>1. closing' = closing
    BY <1>13 DEF GivenUp
  <2>2. CASE UNCHANGED inputs
    BY <2>1, <2>2, Unchanged
  <2>3. CASE ConnectionLost /\ PermanentLoss /\ fate' = Settled(Queued, "dropped") /\ UNCHANGED <<turn, cur>>
    <3>1. closing # "done"
      BY <2>3 DEF ConnectionLost
    <3>2. fate' = [i \in Inputs |-> IF i \in Queued THEN "dropped" ELSE fate[i]]
      BY <2>3 DEF Settled
    <3> QED
      BY <1>2, <2>1, <2>3, <3>1, <3>2, LostForGood
  <2> QED
    BY <1>13, <2>2, <2>3 DEF GivenUp
<1>14. CASE Rejoined
  <2>1. closing' = closing /\ closing # "done"
    BY <1>14 DEF Rejoined, Current
  <2>2. CASE TurnCompleted
    BY <2>1, <2>2, Completed
  <2>3. CASE /\ turn' = IF native /\ turn = "none" THEN "running" ELSE turn
             /\ UNCHANGED <<queue, cur, fate>>
    BY <1>1, <1>2, <2>1, <2>3, StaysHonest DEF QueueKept, InputTypes, Quiet
  <2> QED
    BY <1>14, <2>2, <2>3 DEF Rejoined
<1>15. CASE ResumeRefused
  <2>1. PermanentLoss /\ closing' = closing /\ closing # "done" /\ UNCHANGED <<turn, cur>>
    BY <1>15 DEF ResumeRefused, Current
  <2>2. fate' = [i \in Inputs |-> IF i \in Queued THEN "dropped" ELSE fate[i]]
    BY <1>15 DEF ResumeRefused, Settled
  <2> QED
    BY <1>2, <2>1, <2>2, LostForGood
<1>16. CASE RefreshDone \/ AuthSettles
  <2>1. closing' = closing
    BY <1>16 DEF RefreshDone, AuthSettles
  <2>2. UNCHANGED inputs \/ (Reopen /\ closing # "done")
    BY <1>16 DEF RefreshDone, AuthSettles, Current
  <2> QED
    BY <2>1, <2>2, Unchanged, Reopened
<1>17. CASE DisposeBegins
  <2>1. UNCHANGED inputs /\ closing # "done"
    BY <1>17 DEF DisposeBegins
  <2> QED
    BY <2>1, Unchanged
<1>18. CASE DisposeEnds
  <2>1. closing # "done" /\ queue' = <<>> /\ turn' = turn /\ cur' = cur
        /\ fate' = [i \in Inputs |-> IF i \in Queued THEN "closed" ELSE fate[i]]
    BY <1>18 DEF DisposeEnds, Settled
  <2> QED
    BY <1>1, <1>2, <2>1, EmptiedHonest DEF QueueKept, InputTypes
<1>19. CASE UNCHANGED vars
  <2>1. UNCHANGED <<inputs, closing>>
    BY <1>19 DEF vars
  <2> QED
    BY <2>1, Unchanged
<1> QED
  BY <1>3, <1>4, <1>5, <1>6, <1>7, <1>8, <1>9, <1>10, <1>11, <1>12, <1>13, <1>14, <1>15, <1>16,
     <1>17, <1>18, <1>19 DEF Next

(* QueueInv holds in every state.                                           *)
THEOREM QueueInvariant == Spec => []QueueInv
<1>1. Init => QueueInv
  <2> SUFFICES ASSUME Init PROVE QueueInv
    OBVIOUS
  <2>1. TypeOK
    <3>1. NoFlow \in [gen : 0..MaxGen, at : {"none", "resume", "refresh", "auth"}]
      BY RejoinAssumption DEF NoFlow
    <3>2. RestTypes
      <4>1. FlagTypes
        BY Zenon DEF Init, FlagTypes
      <4>2. /\ link = "up" /\ gen = 1 /\ asked = {} /\ held = {} /\ parked = {}
            /\ closing = "no" /\ told = "none" /\ flow = NoFlow /\ authing = 0 /\ authed = 1
        BY DEF Init
      <4> QED
        BY <3>1, <4>1, <4>2, RejoinAssumption DEF RestTypes, FlagTypes
    <3>3. /\ queue \in Seq(Inputs) /\ cur = Nothing /\ turn = "none"
          /\ fate \in [Inputs -> Fates]
      BY DEF Init, Fates
    <3> QED
      BY <3>2, <3>3 DEF TypeOK, RestTypes
  <2>2. QueueHonest
    <3>1. Elements(queue) = {i \in Inputs : fate[i] = "queued"} /\ Distinct(queue)
      BY EmptyQueue DEF Init
    <3> QED
      BY <3>1, HonestWords
  <2>3. SentIsRemembered /\ CurInv
    BY DEF Init, SentIsRemembered, CurInv
  <2> QED
    BY <2>1, <2>2, <2>3 DEF QueueInv
<1>2. QueueInv /\ [Next]_vars => QueueInv'
  <2> SUFFICES ASSUME QueueInv, [Next]_vars PROVE QueueInv'
    OBVIOUS
  <2>1. QueueKept /\ InputTypes
    BY QueueStep
  <2>2. RestTypes'
    BY RestKept DEF QueueInv
  <2> QED
    BY <2>1, <2>2, TypesSplit DEF QueueInv, QueueKept
<1> QED
  BY <1>1, <1>2, PTL DEF Spec

(* A session's state keeps its type, whatever dies when.                    *)
THEOREM SessionTypes == Spec => []TypeOK
<1>1. QueueInv => TypeOK
  BY DEF QueueInv
<1> QED
  BY <1>1, QueueInvariant, PTL

(* The queue holds exactly the inputs whose submitter was told so, once each.*)
THEOREM HonestQueue == Spec => []QueueHonest
<1>1. QueueInv => QueueHonest
  BY DEF QueueInv
<1> QED
  BY <1>1, QueueInvariant, PTL

(* An input that was sent is the turn's until it is claimed or reported.    *)
THEOREM SentRemembered == Spec => []SentIsRemembered
<1>1. QueueInv => SentIsRemembered
  BY DEF QueueInv
<1> QED
  BY <1>1, QueueInvariant, PTL

-----------------------------------------------------------------------------
(* Calm losses: no child dies while a rejoin is under way.                  *)

(* No continuation and no request outlives the child it belongs to.         *)
Severed ==
    /\ link # "up" => flow = NoFlow /\ asked = {}
    /\ flow.at = "none" <=> flow = NoFlow

(* A permanent loss is told, and leaves nothing to send and nothing to await.*)
Final ==
    /\ lost => told # "reconnected" /\ flow = NoFlow /\ queue = <<>>
    /\ told # "incomplete"

(* What the server waits for is what the prompts are about, all held back   *)
(* or all shown.                                                            *)
Shown ==
    closing = "no" =>
        /\ asked \subseteq held \cup parked
        /\ ~lost => held \cup parked \subseteq asked
        /\ IF rejoining THEN parked = {} ELSE held = {}

(* The queue is closed from a loss until the continuation of the restored   *)
(* connection, with the credentials of this child, reopens it.              *)
Gated ==
    closing = "no" =>
        /\ link \in {"waiting", "shaking"} => offline /\ ~lost /\ turn = "none"
        /\ flow # NoFlow =>
              /\ flow.gen = gen /\ offline /\ turn # "starting"
              /\ authing \in {0, gen} /\ (authing = 0 => authed = gen)
              /\ flow.at # "resume" => ~rejoining
        /\ link = "up" /\ flow = NoFlow /\ ~lost => ~offline /\ authed = gen /\ authing = 0 /\ ~rejoining
        /\ link = "up" /\ lost => turn # "starting"

CalmInv == Severed /\ Final /\ Shown /\ Gated

(* NoFlow is no stage of a rejoin; what is unchanged stays.                 *)
LEMMA FlowFacts ==
    /\ NoFlow.at = "none" /\ NoFlow.gen = 0
    /\ \A g, a : [gen |-> g, at |-> a].gen = g /\ [gen |-> g, at |-> a].at = a
BY DEF NoFlow

LEMMA CalmSame == ASSUME CalmInv, UNCHANGED vars PROVE CalmInv'
BY DEF CalmInv, Severed, Final, Shown, Gated, NoFlow, vars, hub, server, rejoin, prompts, auth, gate, inputs

(* The queue and its turns, while the connection is left alone.             *)
LEMMA CalmSubmit == ASSUME CalmInv, NEW i \in Inputs, Submit(i), Calm PROVE CalmInv'
<1> USE DEF CalmInv, NoFlow, hub, server, rejoin, prompts, auth, gate, Submit, Closed, Start
<1>1. Severed' BY DEF Severed
<1>2. Final' BY DEF Final
<1>3. Shown' BY DEF Shown
<1>4. Gated' BY DEF Gated
<1> QED BY <1>1, <1>2, <1>3, <1>4

LEMMA CalmTurn ==
    ASSUME CalmInv, StartAnswered \/ StartRefused \/ StartCutOff \/ Echoed \/ TurnEnds, Calm PROVE CalmInv'
<1> USE DEF CalmInv, NoFlow, hub, server, rejoin, prompts, auth, gate, inputs, StartAnswered, StartRefused, StartCutOff,
            Echoed, TurnEnds, TurnCompleted, Closed
<1>1. Severed' BY DEF Severed
<1>2. Final' BY DEF Final
<1>3. Shown' BY DEF Shown
<1>4. Gated' BY DEF Gated
<1> QED BY <1>1, <1>2, <1>3, <1>4

LEMMA CalmRequest ==
    ASSUME CalmInv, NEW r \in Requests, Ask(r) \/ AskLate(r) \/ AnswerPrompt(r) \/ Resolve(r), Calm PROVE CalmInv'
<1>1. ~AskLate(r) BY DEF AskLate, Calm, DeadSilent
<1>2. /\ UNCHANGED <<link, gen, flow, lost, told, queue, closing, rejoining, authing, authed, offline, turn>>
      /\ asked' \subseteq asked \/ link = "up"
  BY <1>1 DEF Ask, AnswerPrompt, Resolve, hub, rejoin, auth, gate, inputs
<1>3. Severed' BY <1>2 DEF CalmInv, Severed, NoFlow
<1>4. Final' BY <1>2 DEF CalmInv, Final, NoFlow
<1>5. Shown'
  <2>1. CASE Ask(r) BY <1>2, <2>1 DEF CalmInv, Shown, Ask
  <2>2. CASE AnswerPrompt(r)
    <3>1. asked' = asked \ {r} /\ parked' = parked \ {r} /\ held' = held /\ r \in parked
      BY <2>2 DEF AnswerPrompt
    <3> QED BY <1>2, <3>1 DEF CalmInv, Shown
  <2>3. CASE Resolve(r)
    <3>1. asked' = asked \ {r} /\ held' = held \ {r} /\ parked' = IF lost THEN parked ELSE parked \ {r}
      BY <2>3 DEF Resolve
    <3> QED BY <1>2, <3>1 DEF CalmInv, Shown
  <2> QED BY <1>1, <2>1, <2>2, <2>3
<1>6. Gated' BY <1>2 DEF CalmInv, Gated, NoFlow
<1> QED BY <1>3, <1>4, <1>5, <1>6 DEF CalmInv

(* The child dies, the next one is started, or none will be.                *)
LEMMA CalmExit ==
    ASSUME CalmInv, ExitHeard \/ ExitWhileResuming \/ ExitWhileAuth \/ ExitUnheard, Calm PROVE CalmInv'
<1>1. flow = NoFlow
  <2>1. link = "up" /\ link' # "up"
    BY DEF ExitHeard, ExitWhileResuming, ExitWhileAuth, ExitUnheard, ChildGone
  <2> QED BY <2>1 DEF Calm, SettledExits
<1>2. ~ExitWhileResuming /\ ~ExitWhileAuth BY <1>1 DEF ExitWhileResuming, ExitWhileAuth, NoFlow
<1>3. CASE ExitHeard
  <2>1. /\ link' = "waiting" /\ asked' = {} /\ held' = {} /\ parked' = {} /\ gen' = gen /\ flow' = flow
        /\ rejoining' = TRUE /\ lost' = FALSE /\ told' = "lost" /\ offline' = TRUE /\ turn' = "none"
    BY <1>1, <1>3 DEF ExitHeard, ChildGone, ConnectionLost, NoFlow
  <2>2. Severed' BY <1>1, <2>1 DEF Severed, NoFlow
  <2>3. Final' BY <2>1 DEF Final
  <2>4. Shown' BY <2>1 DEF Shown
  <2>5. Gated' BY <1>1, <2>1 DEF Gated, NoFlow
  <2> QED BY <2>2, <2>3, <2>4, <2>5 DEF CalmInv
<1>4. CASE ExitUnheard
  <2>1. link' = "waiting" /\ asked' = {} /\ UNCHANGED <<flow, lost, told, queue, closing>> /\ closing # "no"
    BY <1>4 DEF ExitUnheard, ChildGone, rejoin, inputs
  <2>2. Severed' BY <1>1, <2>1 DEF Severed, NoFlow
  <2>3. Final' BY <2>1 DEF CalmInv, Final, NoFlow
  <2>4. Shown' /\ Gated' BY <2>1 DEF Shown, Gated
  <2> QED BY <2>2, <2>3, <2>4 DEF CalmInv
<1> QED BY <1>2, <1>3, <1>4

LEMMA CalmHub ==
    ASSUME CalmInv, Connect \/ ShakeFails \/ GivenUp, Calm PROVE CalmInv'
<1> USE DEF CalmInv, NoFlow, hub, server, rejoin, prompts, auth, gate, inputs, Connect, ShakeFails, GivenUp,
            ConnectionLost, PermanentLoss
<1>1. Severed' BY DEF Severed
<1>2. Final' BY DEF Final, Severed
<1>3. Shown' BY DEF Shown, Severed
<1>4. Gated' BY DEF Gated, Severed
<1> QED BY <1>1, <1>2, <1>3, <1>4

(* The rejoin, from the restored connection to the reopened queue.          *)
LEMMA CalmRestored == ASSUME TypeOK, CalmInv, Restored, Calm PROVE CalmInv'
<1>1. gen # 0 /\ gen \in Nat BY RejoinAssumption DEF TypeOK
<1>2. ASSUME closing = "no" PROVE flow' # NoFlow /\ flow'.gen = gen /\ flow'.at = "resume"
  <2>1. flow' = [gen |-> gen, at |-> "resume"] BY <1>2 DEF Restored
  <2> QED BY <1>1, <2>1, FlowFacts
<1>3. /\ link = "shaking" /\ link' = "up" /\ UNCHANGED <<gen, asked, rejoining, lost, told, held, parked, closing, authed,
                                                         offline, turn, queue>>
      /\ closing = "no" => authing' = gen
      /\ closing # "no" => flow' = flow
  BY DEF Restored, server, prompts, gate, inputs
<1>4. Severed' BY <1>2, <1>3 DEF CalmInv, Severed, NoFlow
<1>5. Final' BY <1>2, <1>3 DEF CalmInv, Final, Gated, NoFlow
<1>6. Shown' BY <1>3 DEF CalmInv, Shown
<1>7. Gated' BY <1>1, <1>2, <1>3 DEF CalmInv, Gated, NoFlow
<1> QED BY <1>4, <1>5, <1>6, <1>7 DEF CalmInv

LEMMA CalmRejoined == ASSUME TypeOK, CalmInv, Rejoined, Calm PROVE CalmInv'
<1>1. flow.at = "resume" /\ closing = "no" /\ flow # NoFlow /\ link = "up" /\ link' = link /\ gen' = gen
      /\ closing' = closing
  BY DEF Rejoined, Current, NoFlow, hub
<1>2. ~lost BY <1>1 DEF CalmInv, Final
<1>3. offline /\ turn # "starting" /\ flow.gen = gen BY <1>1 DEF CalmInv, Gated
<1>4. flow'.at = "refresh" /\ flow'.gen = flow.gen /\ flow' # NoFlow
  <2>1. flow \in [gen : 0..MaxGen, at : {"none", "resume", "refresh", "auth"}] BY DEF TypeOK
  <2>2. flow' = [flow EXCEPT !.at = "refresh"] BY DEF Rejoined
  <2> QED BY <2>1, <2>2, FlowFacts
<1>5. turn' # "starting" BY <1>3 DEF Rejoined, TurnCompleted
<1>6. UNCHANGED <<asked, lost, offline, authing, authed>> /\ rejoining' = FALSE /\ told' = "reconnected"
      /\ held' = {} /\ parked' = parked \cup held
  BY DEF Rejoined, server, gate, auth
<1>7. Severed' BY <1>1, <1>4, <1>6 DEF CalmInv, Severed, NoFlow
<1>8. Final' BY <1>2, <1>6 DEF Final
<1>9. Shown' BY <1>1, <1>2, <1>6 DEF CalmInv, Shown
<1>10. Gated' BY <1>1, <1>3, <1>4, <1>5, <1>6 DEF CalmInv, Gated, NoFlow
<1> QED BY <1>7, <1>8, <1>9, <1>10 DEF CalmInv

LEMMA CalmRefused == ASSUME CalmInv, ResumeRefused \/ RejoinIncomplete, Calm PROVE CalmInv'
<1>1. ~RejoinIncomplete BY DEF RejoinIncomplete, Calm, GapsClosed, CalmInv, Final
<1>2. flow.at = "resume" /\ closing = "no" /\ flow # NoFlow /\ link = "up"
  BY <1>1 DEF ResumeRefused, Current, NoFlow
<1>3. ~lost /\ turn # "starting" BY <1>2 DEF CalmInv, Final, Gated
<1>4. held = {} BY <1>1, <1>2, <1>3 DEF ResumeRefused, Calm, RefusedFirst
<1>5. /\ UNCHANGED <<link, gen, asked, parked, closing, turn>> /\ lost' = TRUE /\ told' = "failed"
      /\ flow' = NoFlow /\ queue' = <<>> /\ held' = {} /\ rejoining' = FALSE
  BY <1>1 DEF ResumeRefused, PermanentLoss, hub, server
<1>6. Severed' BY <1>2, <1>5 DEF Severed, NoFlow
<1>7. Final' BY <1>5 DEF Final, NoFlow
<1>8. Shown' BY <1>4, <1>5 DEF CalmInv, Shown
<1>9. Gated' BY <1>2, <1>3, <1>5 DEF CalmInv, Gated, NoFlow
<1> QED BY <1>6, <1>7, <1>8, <1>9 DEF CalmInv

(* The queue reopens: what it starts, it starts with this child's           *)
(* credentials.                                                             *)
LEMMA CalmReopen ==
    ASSUME CalmInv, flow # NoFlow, flow' = NoFlow, link = "up", Current, Reopen, authing' = 0, authed' = gen,
           flow.at # "resume", UNCHANGED <<link, gen, asked, rejoining, lost, told, held, parked, closing>>
    PROVE  CalmInv'
<1>1. closing = "no" /\ ~lost BY DEF CalmInv, Final, Current
<1>2. ~rejoining BY <1>1 DEF CalmInv, Gated
<1>3. offline' = FALSE BY DEF Reopen
<1>4. Severed' BY DEF Severed, NoFlow
<1>5. Final' BY <1>1 DEF CalmInv, Final
<1>6. Shown' BY DEF CalmInv, Shown
<1>7. Gated' BY <1>1, <1>2, <1>3 DEF Gated, NoFlow
<1> QED BY <1>4, <1>5, <1>6, <1>7 DEF CalmInv

LEMMA CalmRefreshDone == ASSUME TypeOK, CalmInv, RefreshDone, Calm PROVE CalmInv'
<1>1. flow.at = "refresh" /\ link = "up" /\ Current /\ closing = "no" /\ flow # NoFlow
  BY DEF RefreshDone, Current, NoFlow
<1>2. UNCHANGED <<link, gen, asked, rejoining, lost, told, held, parked, closing, authing, authed>>
  BY DEF RefreshDone, hub, server, prompts, auth
<1>3. CASE authing = 0
  <2>1. authed = gen BY <1>1, <1>3 DEF CalmInv, Gated
  <2> QED BY <1>1, <1>2, <1>3, <2>1, CalmReopen DEF RefreshDone
<1>4. CASE authing # 0
  <2>1. flow'.at = "auth" /\ flow'.gen = flow.gen /\ flow' # NoFlow
    <3>1. flow \in [gen : 0..MaxGen, at : {"none", "resume", "refresh", "auth"}] BY DEF TypeOK
    <3>2. flow' = [flow EXCEPT !.at = "auth"] BY <1>4 DEF RefreshDone
    <3> QED BY <3>1, <3>2, FlowFacts
  <2>2. UNCHANGED <<offline, queue, turn>> BY <1>4 DEF RefreshDone, gate, inputs
  <2>3. ~lost BY <1>1 DEF CalmInv, Final
  <2>4. Severed' BY <1>1, <1>2, <2>1 DEF CalmInv, Severed, NoFlow
  <2>5. Final' BY <1>2, <2>3 DEF CalmInv, Final
  <2>6. Shown' BY <1>2 DEF CalmInv, Shown
  <2>7. Gated' BY <1>1, <1>2, <2>1, <2>2, <2>3 DEF CalmInv, Gated, NoFlow
  <2> QED BY <2>4, <2>5, <2>6, <2>7 DEF CalmInv
<1> QED BY <1>3, <1>4

LEMMA CalmAuth == ASSUME CalmInv, AuthSettles, Calm PROVE CalmInv'
<1>1. UNCHANGED <<link, gen, asked, rejoining, lost, told, held, parked, closing>> /\ authing # 0 /\ authing' = 0
      /\ authed' = authing
  BY DEF AuthSettles, hub, server, prompts
<1>2. CASE flow.at = "auth" /\ Current
  <2>1. flow # NoFlow /\ closing = "no" BY <1>2 DEF Current, NoFlow
  <2>2. link = "up" BY <2>1 DEF CalmInv, Severed
  <2>3. authing = gen BY <1>1, <2>1 DEF CalmInv, Gated
  <2> QED BY <1>1, <1>2, <2>1, <2>2, <2>3, CalmReopen DEF AuthSettles
<1>3. CASE ~(flow.at = "auth" /\ Current)
  <2>1. UNCHANGED <<offline, queue, turn>> /\ (flow' = flow \/ (flow' = NoFlow /\ flow.at = "auth"))
    BY <1>3 DEF AuthSettles, gate, inputs
  <2>2. closing = "no" => flow' = flow
    <3>1. flow.at = "auth" /\ closing = "no" => Current
      BY DEF CalmInv, Gated, Current, NoFlow
    <3> QED BY <3>1, <2>1, <1>3
  <2>3. Severed' BY <1>1, <2>1 DEF CalmInv, Severed, NoFlow
  <2>4. Final' BY <1>1, <2>1 DEF CalmInv, Final, NoFlow
  <2>5. Shown' BY <1>1 DEF CalmInv, Shown
  <2>6. Gated' BY <1>1, <2>1, <2>2 DEF CalmInv, Gated, Severed, NoFlow
  <2> QED BY <2>3, <2>4, <2>5, <2>6 DEF CalmInv
<1> QED BY <1>2, <1>3

LEMMA CalmDispose == ASSUME CalmInv, DisposeBegins \/ DisposeEnds, Calm PROVE CalmInv'
<1>1. closing' # "no" /\ UNCHANGED <<link, flow, lost, told>> /\ asked' \subseteq asked /\ (queue' = queue \/ queue' = <<>>)
  BY DEF DisposeBegins, DisposeEnds, hub, server, rejoin, inputs
<1>2. Severed' BY <1>1 DEF CalmInv, Severed, NoFlow
<1>3. Final' BY <1>1 DEF CalmInv, Final, NoFlow
<1>4. Shown' /\ Gated' BY <1>1 DEF Shown, Gated
<1> QED BY <1>2, <1>3, <1>4 DEF CalmInv

LEMMA CalmInit == Init => CalmInv
BY DEF Init, CalmInv, Severed, Final, Shown, Gated, NoFlow

LEMMA CalmStep == TypeOK /\ CalmInv /\ [Next /\ Calm]_vars => CalmInv'
<1> SUFFICES ASSUME TypeOK, CalmInv, [Next /\ Calm]_vars PROVE CalmInv' OBVIOUS
<1>1. CASE UNCHANGED vars BY <1>1, CalmSame
<1>2. CASE Next /\ Calm
  BY <1>2, CalmSubmit, CalmTurn, CalmRequest, CalmExit, CalmHub, CalmRestored, CalmRejoined, CalmRefused,
     CalmRefreshDone, CalmAuth, CalmDispose
     DEF Next
<1> QED BY <1>1, <1>2

(* As long as no child dies in the middle of a rejoin, a refused rejoin     *)
(* comes before requests were held back and missed turns are found: what     *)
(* connectionLost, connectionRestored and the failures of both keep of the  *)
(* session, over any number of losses.                                      *)
THEOREM CalmInvariant == CalmSpec => []CalmInv
<1>1. [Next /\ Calm]_vars => [Next]_vars OBVIOUS
<1>2. CalmSpec => []TypeOK BY <1>1, SessionTypes, PTL DEF CalmSpec, Spec
<1> QED BY <1>2, CalmInit, CalmStep, PTL DEF CalmSpec

(* "never a false reconnect success": the notice is not followed by a lost  *)
(* session that keeps it.                                                   *)
THEOREM ReconnectIsTrue == CalmSpec => []ReconnectedIsUsable
<1>1. CalmInv => ReconnectedIsUsable BY DEF CalmInv, Final, ReconnectedIsUsable
<1> QED BY <1>1, CalmInvariant, PTL

(* "parking forever would lie to the user": permanentLoss leaves no input   *)
(* in the queue, and none comes in after it.                                *)
THEOREM NothingStaysParked == CalmSpec => []NothingParkedForever
<1>1. CalmInv => NothingParkedForever BY DEF CalmInv, Final, NothingParkedForever
<1> QED BY <1>1, CalmInvariant, PTL

(* "unrouted requests never left hanging": a request the server waits for   *)
(* is on the panel or held back for it.                                     *)
THEOREM RequestsAreShown == CalmSpec => []NoRequestForgotten
<1>1. CalmInv => NoRequestForgotten BY DEF CalmInv, Shown, NoRequestForgotten
<1> QED BY <1>1, CalmInvariant, PTL

(* "stale generations dropped": every prompt is one the server waits for.   *)
THEOREM ShownAreLive == CalmSpec => []PromptsAreLive
<1>1. CalmInv => PromptsAreLive BY DEF CalmInv, Shown, PromptsAreLive
<1> QED BY <1>1, CalmInvariant, PTL

(* "a submit can never reach the new child before its credentials exist",   *)
(* nor before the thread is resumed there.                                  *)
THEOREM CredentialsAreFirst == CalmSpec => []CredentialsFirst
<1>1. CalmInv => CredentialsFirst BY DEF CalmInv, Gated, CredentialsFirst
<1> QED BY <1>1, CalmInvariant, PTL

=============================================================================
