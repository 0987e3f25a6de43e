---------------------------- MODULE CodexHub_proofs ----------------------------
(* Proofs about CodexHub for every set of calls, every finite set of users    *)
(* and every restart budget.                                                  *)
EXTENDS CodexHub, TLAPS, FiniteSetTheorems

(* The facts of the constants that the steps need.                            *)
LEMMA Constants ==
  /\ MaxRestarts \in Nat /\ MaxGen \in Nat
  /\ Handshake \notin Calls /\ Nobody \notin Calls
BY HubAssumption

(* The holders are finitely many, so that counting them makes sense.          *)
LEMMA HeldFinite == IsFiniteSet(Held)
BY HubAssumption, FS_Subset DEF Held

LEMMA HubInit == Init => HubInv
<1> SUFFICES ASSUME Init PROVE HubInv OBVIOUS
<1> USE Constants DEF InitialId
<1>1. PICK u \in Users : holds = [v \in Users |-> IF v = u THEN "held" ELSE "none"]
  BY DEF Init
<1>2. Held = {u}
  BY <1>1 DEF Held
<1>3. TypeOK
  <2>1. call \in [Calls -> CallRecord]
    BY DEF Init, NoCall, CallRecord
  <2>2. lines \subseteq Asked
    BY DEF Init, Asked
  <2>3. holds \in [Users -> {"none", "held", "released"}]
    BY <1>1
  <2>4. /\ state \in {"starting", "ready", "restarting", "failed", "closed"}
        /\ gen \in Nat \ {0} /\ running \subseteq Nat /\ closing \subseteq running
        /\ hs \in {"pending", "ok", "err"} /\ attempt \in 0..MaxRestarts
        /\ told \in {"up", "down", "dead"} /\ nextId \in Nat /\ retainers \in Nat /\ info \in Nat
    BY DEF Init
  <2>5. /\ open \in BOOLEAN /\ timer \in BOOLEAN
        /\ idle \in BOOLEAN /\ quit \in BOOLEAN
    BY Zenon DEF Init
  <2> QED BY <2>1, <2>2, <2>3, <2>4, <2>5 DEF TypeOK
<1>4. LinkInv
  BY DEF Init, LinkInv
<1>5. CallInv
  BY DEF Init, CallInv, NoCall, Waits
<1>6. UseInv
  BY <1>2, FS_Singleton DEF Init, UseInv
<1> QED BY <1>3, <1>4, <1>5, <1>6 DEF HubInv

(* What the operators that settle calls leave of a call.                      *)
LEMMA RejectedCalls ==
  ASSUME TypeOK
  PROVE  /\ Rejected \in [Calls -> CallRecord]
         /\ \A c \in Calls : /\ Rejected[c].st # "sent"
                             /\ Rejected[c].st = "ok" => call[c].st = "ok" /\ Rejected[c].got = call[c].got
BY DEF TypeOK, Rejected, CallRecord

LEMMA HandshakeSettled ==
  ASSUME TypeOK PROVE HandshakeRejected \in {"ok", "err"} /\ (HandshakeRejected = "ok" <=> hs = "ok")
BY DEF TypeOK, HandshakeRejected

(* The steps that touch neither the connection nor the child.                 *)
LEMMA LinkUnchanged ==
  ASSUME LinkInv, UNCHANGED link PROVE LinkInv'
BY DEF LinkInv, link

LEMMA LinkClosed ==
  ASSUME TypeOK, LinkInv, CloseHub PROVE LinkInv'
BY HandshakeSettled DEF TypeOK, LinkInv, CloseHub

LEMMA LinkStep == TypeOK /\ LinkInv /\ [Next]_vars => LinkInv'
<1> SUFFICES ASSUME TypeOK, LinkInv, [Next]_vars PROVE LinkInv'
  OBVIOUS
<1> USE Constants
<1>1. ASSUME NEW c \in Calls, Caller(c) PROVE LinkInv'
  BY <1>1, LinkUnchanged DEF Caller, Call, Send, Refuse, GiveUp
<1>2. ASSUME NEW r \in lines, HandshakeAnswered(r) PROVE LinkInv'
  BY <1>2 DEF HandshakeAnswered, LinkInv, TypeOK
<1>3. ASSUME NEW r \in lines, DropAnswer(r) PROVE LinkInv'
  BY <1>3, LinkUnchanged DEF DropAnswer, link
<1>4. ASSUME NEW r \in lines, NEW c \in Calls, Answer(r, c) PROVE LinkInv'
  BY <1>4, LinkUnchanged DEF Answer
<1>5. ASSUME HandshakeFails PROVE LinkInv'
  BY <1>5 DEF HandshakeFails, LinkInv, TypeOK
<1>6. ASSUME ExitAfterClose PROVE LinkInv'
  BY <1>6, HandshakeSettled DEF ExitAfterClose, Exits, LinkInv, TypeOK
<1>7. ASSUME ExitBeforeReady PROVE LinkInv'
  BY <1>7, HandshakeSettled DEF ExitBeforeReady, FirstNeverReady, Exits, LinkInv, TypeOK
<1>8. ASSUME ExitThenRestart PROVE LinkInv'
  BY <1>8, HandshakeSettled DEF ExitThenRestart, FirstNeverReady, Exits, Lost, LinkInv, TypeOK
<1>9. ASSUME ExitThenGiveUp PROVE LinkInv'
  BY <1>9, HandshakeSettled DEF ExitThenGiveUp, FirstNeverReady, Exits, LinkInv, TypeOK
<1>10. ASSUME Restart PROVE LinkInv'
  BY <1>10 DEF Restart, LinkInv, TypeOK
<1>11. ASSUME NEW u \in Users, Holder(u) PROVE LinkInv'
  BY <1>11, LinkUnchanged DEF Holder, Retain, Release, ReleaseAgain, vars
<1>12. ASSUME IdleFires PROVE LinkInv'
  BY <1>12, LinkUnchanged, LinkClosed DEF IdleFires
<1>13. ASSUME ReplaceFailed \/ Quit PROVE LinkInv'
  BY <1>13, LinkClosed DEF ReplaceFailed, Quit
<1>14. ASSUME UNCHANGED vars PROVE LinkInv'
  BY <1>14, LinkUnchanged DEF vars
<1> QED
  BY <1>1, <1>2, <1>3, <1>4, <1>5, <1>6, <1>7, <1>8, <1>9, <1>10, <1>11, <1>12, <1>13, <1>14
  DEF Next, Child

(* Type correctness, step by step: first the calls and their lines.           *)
LEMMA CallsTyped ==
  ASSUME TypeOK, [Next]_vars
  PROVE  call' \in [Calls -> CallRecord] /\ nextId' \in Nat /\ lines' \subseteq Asked
<1> USE Constants DEF TypeOK, InitialId
<1>1. ASSUME NEW c \in Calls, Call(c)
      PROVE  call' \in [Calls -> CallRecord] /\ nextId' \in Nat /\ lines' \subseteq Asked
  BY <1>1 DEF Call, CallRecord
<1>2. ASSUME NEW c \in Calls, Send(c)
      PROVE  call' \in [Calls -> CallRecord] /\ nextId' \in Nat /\ lines' \subseteq Asked
  <2>1. [gen |-> gen, id |-> nextId, by |-> c] \in Asked
    BY DEF Asked
  <2>2. [call[c] EXCEPT !.st = "sent", !.id = nextId] \in CallRecord
    BY DEF CallRecord
  <2> QED BY <1>2, <2>1, <2>2 DEF Send
<1>3. ASSUME NEW c \in Calls, Refuse(c) \/ GiveUp(c)
      PROVE  call' \in [Calls -> CallRecord] /\ nextId' \in Nat /\ lines' \subseteq Asked
  BY <1>3 DEF Refuse, GiveUp, CallRecord
<1>4. ASSUME NEW r \in lines, HandshakeAnswered(r) \/ DropAnswer(r)
      PROVE  call' \in [Calls -> CallRecord] /\ nextId' \in Nat /\ lines' \subseteq Asked
  BY <1>4 DEF HandshakeAnswered, DropAnswer
<1>5. ASSUME NEW r \in lines, NEW c \in Calls, Answer(r, c)
      PROVE  call' \in [Calls -> CallRecord] /\ nextId' \in Nat /\ lines' \subseteq Asked
  <2>1. PICK st \in {"ok", "error"} :
          call' = [call EXCEPT ![c] = [@ EXCEPT !.st = st, !.got = r.by]]
    BY <1>5 DEF Answer
  <2>2. [call[c] EXCEPT !.st = st, !.got = r.by] \in CallRecord
    BY DEF CallRecord, Asked
  <2> QED BY <1>5, <2>1, <2>2 DEF Answer
<1>6. ASSUME HandshakeFails \/ UNCHANGED vars
      PROVE  call' \in [Calls -> CallRecord] /\ nextId' \in Nat /\ lines' \subseteq Asked
  BY <1>6 DEF HandshakeFails, traffic, vars
<1>7. ASSUME Exits \/ CloseHub
      PROVE  call' \in [Calls -> CallRecord] /\ nextId' \in Nat /\ lines' \subseteq Asked
  BY <1>7, RejectedCalls DEF Exits, CloseHub
<1>8. ASSUME Restart
      PROVE  call' \in [Calls -> CallRecord] /\ nextId' \in Nat /\ lines' \subseteq Asked
  <2>1. [gen |-> gen + 1, id |-> 1, by |-> Handshake] \in Asked
    BY DEF Asked
  <2> QED BY <1>8, <2>1 DEF Restart
<1>9. ASSUME NEW u \in Users, Holder(u)
      PROVE  call' \in [Calls -> CallRecord] /\ nextId' \in Nat /\ lines' \subseteq Asked
  BY <1>9 DEF Holder, Retain, Release, ReleaseAgain, traffic, vars
<1>10. ASSUME IdleFires \/ ReplaceFailed \/ Quit
       PROVE  call' \in [Calls -> CallRecord] /\ nextId' \in Nat /\ lines' \subseteq Asked
  BY <1>10, <1>7 DEF IdleFires, ReplaceFailed, Quit, traffic
<1> QED
  BY <1>1, <1>2, <1>3, <1>4, <1>5, <1>6, <1>7, <1>8, <1>9, <1>10
  DEF Next, Caller, Child, ExitAfterClose, ExitBeforeReady, ExitThenRestart, ExitThenGiveUp

(* ... then the connection.                                                   *)
LinkTyped ==
  /\ state \in {"starting", "ready", "restarting", "failed", "closed"}
  /\ gen \in Nat \ {0}
  /\ running \subseteq Nat /\ closing \subseteq running
  /\ open \in BOOLEAN /\ hs \in {"pending", "ok", "err"}
  /\ attempt \in 0..MaxRestarts
  /\ timer \in BOOLEAN /\ info \in Nat
  /\ told \in {"up", "down", "dead"}

LEMMA ConnectionTyped == ASSUME TypeOK, [Next]_vars PROVE LinkTyped'
<1> USE Constants DEF LinkTyped, TypeOK
<1>1. ASSUME UNCHANGED link PROVE LinkTyped'
  BY <1>1 DEF link
<1>2. ASSUME NEW c \in Calls, Caller(c) PROVE LinkTyped'
  BY <1>2, <1>1 DEF Caller, Call, Send, Refuse, GiveUp
<1>3. ASSUME NEW r \in lines, HandshakeAnswered(r) PROVE LinkTyped'
  BY <1>3 DEF HandshakeAnswered
<1>4. ASSUME NEW r \in lines, DropAnswer(r) \/ (\E c \in Calls : Answer(r, c)) PROVE LinkTyped'
  BY <1>4, <1>1 DEF DropAnswer, Answer
<1>5. ASSUME HandshakeFails PROVE LinkTyped'
  BY <1>5 DEF HandshakeFails
<1>6. ASSUME ExitAfterClose \/ ExitBeforeReady PROVE LinkTyped'
  BY <1>6, HandshakeSettled DEF ExitAfterClose, ExitBeforeReady, Exits
<1>7. ASSUME ExitThenRestart \/ ExitThenGiveUp PROVE LinkTyped'
  <2>1. timer' \in BOOLEAN /\ open' \in BOOLEAN
    BY <1>7, Zenon DEF ExitThenRestart, ExitThenGiveUp, Exits
  <2>2. attempt' \in 0..MaxRestarts
    BY <1>7 DEF ExitThenRestart, ExitThenGiveUp
  <2> QED BY <1>7, <2>1, <2>2, HandshakeSettled DEF ExitThenRestart, ExitThenGiveUp, Exits, Lost
<1>8. ASSUME Restart PROVE LinkTyped'
  <2>1. timer' \in BOOLEAN /\ open' \in BOOLEAN
    BY <1>8, Zenon DEF Restart
  <2> QED BY <1>8, <2>1 DEF Restart
<1>9. ASSUME NEW u \in Users, Holder(u) PROVE LinkTyped'
  BY <1>9, <1>1 DEF Holder, Retain, Release, ReleaseAgain, vars
<1>10. ASSUME CloseHub PROVE LinkTyped'
  BY <1>10, HandshakeSettled DEF CloseHub
<1>11. ASSUME IdleFires \/ ReplaceFailed \/ Quit PROVE LinkTyped'
  BY <1>11, <1>1, <1>10 DEF IdleFires, ReplaceFailed, Quit
<1>12. ASSUME UNCHANGED vars PROVE LinkTyped'
  BY <1>12, <1>1 DEF vars
<1> QED
  BY <1>2, <1>3, <1>4, <1>5, <1>6, <1>7, <1>8, <1>9, <1>11, <1>12 DEF Next, Child

(* ... then the users, whose counter does not fall below zero because it       *)
(* counts them.                                                               *)
UseTyped ==
  /\ retainers \in Nat /\ holds \in [Users -> {"none", "held", "released"}]
  /\ idle \in BOOLEAN /\ quit \in BOOLEAN

LEMMA CloseUse ==
  ASSUME UseTyped, UseInv, CloseHub, quit' \in BOOLEAN PROVE UseTyped' /\ UseInv'
BY DEF UseTyped, UseInv, CloseHub, Held

LEMMA UseStep == ASSUME TypeOK, LinkInv, UseInv, [Next]_vars PROVE UseTyped' /\ UseInv'
<1>0. UseTyped /\ IsFiniteSet(Held) /\ Cardinality(Held) \in Nat
  BY HeldFinite, FS_CardinalityType DEF TypeOK, UseTyped
<1>1. ASSUME UNCHANGED use, state' = state \/ (state # "closed" /\ state' # "closed")
      PROVE  UseTyped' /\ UseInv'
  BY <1>0, <1>1 DEF UseTyped, UseInv, use, Held
<1>2. ASSUME UNCHANGED <<link, use>> PROVE UseTyped' /\ UseInv'
  <2>1. state' = state BY <1>2 DEF link
  <2> QED BY <1>1, <1>2, <2>1
<1>3. ASSUME CloseHub, quit' \in BOOLEAN PROVE UseTyped' /\ UseInv'
  BY <1>0, <1>3, CloseUse
<1>4. ASSUME NEW c \in Calls, Caller(c) PROVE UseTyped' /\ UseInv'
  <2>1. UNCHANGED <<link, use>> BY <1>4 DEF Caller, Call, Send, Refuse, GiveUp
  <2> QED BY <1>2, <2>1
<1>5. ASSUME NEW r \in lines, DropAnswer(r) \/ (\E c \in Calls : Answer(r, c))
      PROVE  UseTyped' /\ UseInv'
  <2>1. UNCHANGED <<link, use>> BY <1>5 DEF DropAnswer, Answer
  <2> QED BY <1>2, <2>1
<1>6. ASSUME (\E r \in lines : HandshakeAnswered(r)) \/ HandshakeFails \/ Restart
      PROVE  UseTyped' /\ UseInv'
  <2>1. UNCHANGED use BY <1>6 DEF HandshakeAnswered, HandshakeFails, Restart
  <2>2. state' = state \/ (state # "closed" /\ state' # "closed")
    BY <1>6 DEF HandshakeAnswered, HandshakeFails, Restart, LinkInv
  <2> QED BY <1>1, <2>1, <2>2
<1>7. ASSUME ExitAfterClose \/ ExitBeforeReady \/ ExitThenRestart \/ ExitThenGiveUp
      PROVE  UseTyped' /\ UseInv'
  <2>1. UNCHANGED use BY <1>7 DEF ExitAfterClose, ExitBeforeReady, ExitThenRestart, ExitThenGiveUp, Exits
  <2>2. state' = state \/ (state # "closed" /\ state' # "closed")
    BY <1>7 DEF ExitAfterClose, ExitBeforeReady, ExitThenRestart, ExitThenGiveUp
  <2> QED BY <1>1, <2>1, <2>2
<1>8. ASSUME NEW u \in Users, Retain(u) PROVE UseTyped' /\ UseInv'
  <2>1. Held' = Held \cup {u} /\ u \notin Held
    BY <1>8 DEF Retain, Held, TypeOK
  <2>2. Cardinality(Held') = Cardinality(Held) + 1
    BY <1>0, <2>1, FS_AddElement
  <2>3. retainers' \in Nat /\ retainers' = Cardinality(Held')
    BY <1>0, <1>8, <2>2 DEF Retain, UseTyped, UseInv
  <2>4. idle' = FALSE /\ quit' = quit /\ Held' # {}
    BY <1>8, <2>1, Zenon DEF Retain
  <2>5. holds' \in [Users -> {"none", "held", "released"}]
    BY <1>0, <1>8 DEF Retain, UseTyped
  <2> QED BY <1>0, <2>3, <2>4, <2>5, Zenon DEF UseTyped, UseInv
<1>9. ASSUME NEW u \in Users, Release(u) PROVE UseTyped' /\ UseInv'
  <2>1. Held' = Held \ {u} /\ u \in Held
    BY <1>9 DEF Release, Held, TypeOK
  <2>2. Cardinality(Held') = Cardinality(Held) - 1 /\ IsFiniteSet(Held')
    BY <1>0, <2>1, FS_RemoveElement
  <2>3. Cardinality(Held') \in Nat /\ (Cardinality(Held') = 0 <=> Held' = {})
    BY <2>2, FS_CardinalityType, FS_EmptySet
  <2>4. state' = state
    BY <1>9 DEF Release, link
  <2>5. retainers' \in Nat /\ retainers' = Cardinality(Held') /\ (retainers = 1 <=> Held' = {})
    BY <1>0, <1>9, <2>2, <2>3 DEF Release, UseTyped, UseInv
  <2>6. holds' \in [Users -> {"none", "held", "released"}] /\ quit' = quit
    BY <1>0, <1>9 DEF Release, UseTyped
  <2>7. idle' \in BOOLEAN /\ (idle' => Held' = {}) /\ (Held' = {} /\ state' # "closed" => idle')
    <3>1. ~idle BY <2>1 DEF UseInv
    <3>2. CASE retainers = 1 /\ state # "closed"
      BY <1>9, <2>5, <3>2, Zenon DEF Release
    <3>3. CASE ~(retainers = 1 /\ state # "closed")
      <4>1. idle' = idle BY <1>9, <3>3 DEF Release
      <4> QED BY <1>0, <2>4, <2>5, <3>1, <3>3, <4>1, Zenon DEF UseTyped
    <3> QED BY <3>2, <3>3
  <2> QED BY <1>0, <2>5, <2>6, <2>7, Zenon DEF UseTyped, UseInv
<1>10. ASSUME NEW u \in Users, ReleaseAgain(u) PROVE UseTyped' /\ UseInv'
  BY <1>2, <1>10 DEF ReleaseAgain, vars
<1>11. ASSUME IdleFires PROVE UseTyped' /\ UseInv'
  <2>1. quit' \in BOOLEAN BY <1>11 DEF IdleFires, TypeOK
  <2>2. CASE retainers = 0 BY <1>3, <1>11, <2>1, <2>2 DEF IdleFires
  <2>3. CASE retainers # 0 BY <1>0, <1>11, <2>3, FS_EmptySet DEF UseInv, IdleFires
  <2> QED BY <2>2, <2>3
<1>12. ASSUME ReplaceFailed \/ Quit PROVE UseTyped' /\ UseInv'
  <2>1. quit' \in BOOLEAN BY <1>12 DEF ReplaceFailed, Quit, TypeOK
  <2> QED BY <1>3, <1>12, <2>1 DEF ReplaceFailed, Quit
<1>13. ASSUME UNCHANGED vars PROVE UseTyped' /\ UseInv'
  BY <1>2, <1>13 DEF vars
<1> QED
  BY <1>4, <1>5, <1>6, <1>7, <1>8, <1>9, <1>10, <1>11, <1>12, <1>13 DEF Next, Child, Holder

(* The calls and the lines they are answered by.                              *)
LEMMA CallUnchanged ==
  ASSUME CallInv, UNCHANGED <<open, hs, gen, traffic>> PROVE CallInv'
BY DEF CallInv, traffic, Waits

(* A closing client rejects what is sent, so no request is left to be matched. *)
LEMMA CallRejected ==
  ASSUME TypeOK, CallInv, call' = Rejected, UNCHANGED <<gen, nextId, lines>> PROVE CallInv'
<1>1. \A c \in Calls : /\ call'[c].st # "sent"
                       /\ call'[c].st = "ok" => call[c].st = "ok" /\ call'[c].got = call[c].got
  BY RejectedCalls
<1> QED BY <1>1 DEF CallInv, Waits

(* A call that ends without an answer of its own.                             *)
LEMMA CallEnds ==
  ASSUME TypeOK, CallInv, NEW c \in Calls, NEW st \in {"waiting", "error"},
         call' = [call EXCEPT ![c].st = st], UNCHANGED <<gen, open, hs, nextId, lines>>
  PROVE  CallInv'
<1>1. \A d \in Calls : call'[d] = call[d] \/ call'[d].st = st
  BY DEF TypeOK, CallRecord
<1> QED BY <1>1 DEF CallInv, Waits

LEMMA CallStep == ASSUME TypeOK, LinkInv, CallInv, [Next]_vars PROVE CallInv'
<1> USE Constants DEF InitialId
<1>1. ASSUME NEW c \in Calls, Call(c) \/ Refuse(c) \/ GiveUp(c) PROVE CallInv'
  BY <1>1, CallEnds DEF Call, Refuse, GiveUp, link
<1>2. ASSUME NEW c \in Calls, Send(c) PROVE CallInv'
  <2>1. \A d \in Calls : d # c => call'[d] = call[d]
    BY <1>2 DEF Send, TypeOK
  <2>2. call'[c].st = "sent" /\ call'[c].id = nextId
    BY <1>2 DEF Send, TypeOK, CallRecord
  <2>3. UNCHANGED <<gen, open, hs>> /\ nextId' = nextId + 1 /\ nextId \in Nat /\ gen \in Nat
    BY <1>2 DEF Send, link, TypeOK
  <2>4. \A r \in lines' : r \in lines \/ (r.gen = gen /\ r.id = nextId /\ r.by = c)
    BY <1>2 DEF Send
  <2>5. \A r \in lines : r.gen \in Nat /\ r.id \in Nat
    BY DEF TypeOK, Asked
  <2> QED BY <1>2, <2>1, <2>2, <2>3, <2>4, <2>5 DEF CallInv, Waits, Send, TypeOK, CallRecord
<1>3. ASSUME NEW r \in lines, HandshakeAnswered(r) PROVE CallInv'
  BY <1>3 DEF HandshakeAnswered, CallInv, Waits
<1>4. ASSUME NEW r \in lines, DropAnswer(r) PROVE CallInv'
  <2>1. UNCHANGED <<gen, open, hs, call, nextId>> BY <1>4 DEF DropAnswer, link
  <2> QED BY <1>4, <2>1 DEF DropAnswer, CallInv, Waits
<1>5. ASSUME NEW r \in lines, NEW c \in Calls, Answer(r, c) PROVE CallInv'
  <2>1. UNCHANGED <<gen, open, hs, nextId>> /\ lines' \subseteq lines BY <1>5 DEF Answer, link
  <2>2. r.by = c
    BY <1>5 DEF Answer, FromCurrent, CallInv
  <2>3. \A d \in Calls : d # c => call'[d] = call[d]
    BY <1>5 DEF Answer, TypeOK
  <2>4. call'[c].got = c /\ call'[c].st # "sent"
    BY <1>5, <2>2 DEF Answer, TypeOK, CallRecord
  <2> QED BY <2>1, <2>3, <2>4 DEF CallInv, Waits
<1>6. ASSUME HandshakeFails PROVE CallInv'
  BY <1>6 DEF HandshakeFails, CallInv, Waits, traffic
<1>7. ASSUME Exits \/ CloseHub PROVE CallInv'
  BY <1>7, CallRejected DEF Exits, CloseHub
<1>8. ASSUME Restart PROVE CallInv'
  <2>1. ~open BY <1>8 DEF Restart, LinkInv
  <2>2. \A r \in lines' : r \in lines \/ (r.gen = gen + 1 /\ r.id = 1)
    BY <1>8 DEF Restart
  <2>3. gen \in Nat /\ \A r \in lines : r.gen \in Nat /\ r.id \in Nat
    BY DEF TypeOK, Asked
  <2> QED BY <1>8, <2>1, <2>2, <2>3 DEF Restart, CallInv, Waits
<1>9. ASSUME NEW u \in Users, Holder(u) PROVE CallInv'
  <2>1. UNCHANGED <<link, traffic>> BY <1>9 DEF Holder, Retain, Release, ReleaseAgain, vars
  <2> QED BY <2>1, CallUnchanged DEF link
<1>10. ASSUME IdleFires \/ ReplaceFailed \/ Quit PROVE CallInv'
  <2>1. CASE CloseHub BY <1>7, <2>1
  <2>2. CASE ~CloseHub
    <3>1. UNCHANGED <<link, traffic>> BY <1>10, <2>2 DEF IdleFires, ReplaceFailed, Quit
    <3> QED BY <3>1, CallUnchanged DEF link
  <2> QED BY <2>1, <2>2
<1>11. ASSUME UNCHANGED vars PROVE CallInv'
  BY <1>11, CallUnchanged DEF vars, link
<1> QED
  BY <1>1, <1>2, <1>3, <1>4, <1>5, <1>6, <1>7, <1>8, <1>9, <1>10, <1>11
  DEF Next, Caller, Child, ExitAfterClose, ExitBeforeReady, ExitThenRestart, ExitThenGiveUp

LEMMA HubStep == HubInv /\ [Next]_vars => HubInv'
<1> SUFFICES ASSUME HubInv, [Next]_vars PROVE HubInv'
  OBVIOUS
<1>1. TypeOK /\ LinkInv /\ CallInv /\ UseInv
  BY DEF HubInv
<1>2. LinkInv' /\ CallInv' /\ UseTyped' /\ UseInv' /\ LinkTyped'
  BY <1>1, LinkStep, CallStep, UseStep, ConnectionTyped
<1>3. TypeOK'
  BY <1>1, <1>2, CallsTyped DEF TypeOK, UseTyped, LinkTyped
<1> QED BY <1>2, <1>3 DEF HubInv

(* The inductive invariant: what is known of the connection, of the requests  *)
(* in flight and of the users holds in every state of the hub.                *)
THEOREM HubInvariant == Spec => []HubInv
BY HubInit, HubStep, PTL DEF Spec

(* The hub's variables keep their types; the counters neither fall below zero *)
(* nor exceed the restart budget.                                             *)
THEOREM HubTypes == Spec => []TypeOK
<1>1. HubInv => TypeOK BY DEF HubInv
<1> QED BY <1>1, HubInvariant, PTL

(* A restart never overlaps the child it replaces (onExit, restart).          *)
THEOREM SingleChild == Spec => []OneChild
<1>1. HubInv => OneChild BY DEF HubInv, LinkInv, OneChild
<1> QED BY <1>1, HubInvariant, PTL

(* A call is settled by the answer to its own request, although ids restart   *)
(* with every child and old lines may be read late (connect, receive).        *)
THEOREM OwnAnswers == Spec => []AnswerIsOwn
<1>1. HubInv => AnswerIsOwn BY DEF HubInv, CallInv, AnswerIsOwn
<1> QED BY <1>1, HubInvariant, PTL

(* No call waits on a connection that is gone (hub.call, RpcClient.close).    *)
THEOREM NoneStranded == Spec => []NoCallStranded
<1>1. HubInv => NoCallStranded BY DEF HubInv, LinkInv, CallInv, NoCallStranded
<1> QED BY <1>1, HubInvariant, PTL

(* What connectionLost and connectionRestored told last is true (onExit,      *)
(* restart, fail).                                                            *)
THEOREM ToldTruly == Spec => []ToldTheTruth
<1>1. HubInv => ToldTheTruth BY DEF HubInv, LinkInv, ToldTheTruth
<1> QED BY <1>1, HubInvariant, PTL

(* A loss is declared permanent exactly when the children started since the   *)
(* last answered handshake are as many as the budget and all of them failed   *)
(* (restart, fail); the code's counter does not appear in the statement.      *)
THEOREM BudgetSpent == Spec => []PermanentOnlyWhenSpent
<1>1. HubInv => PermanentOnlyWhenSpent BY DEF HubInv, LinkInv, PermanentOnlyWhenSpent
<1> QED BY <1>1, HubInvariant, PTL

(* An unused hub has its idle timer armed (retain, scheduleIdle).             *)
THEOREM UnusedTimed == Spec => []UnusedHubIsTimed
<1>1. HubInv => UnusedHubIsTimed BY DEF HubInv, UseInv, UnusedHubIsTimed
<1> QED BY <1>1, HubInvariant, PTL

(* A permanent loss is final (restart, fail): neither a timer nor a late line *)
(* of the child brings anything back.                                         *)
THEOREM LossIsFinal == Spec => PermanentIsFinal
<1> DEFINE Final == told = "dead" => UNCHANGED <<told, gen, running>>
<1>1. HubInv /\ [Next]_vars => [Final]_vars
  <2>1. SUFFICES ASSUME HubInv, Next, told = "dead" PROVE UNCHANGED <<told, gen, running>>
    OBVIOUS
  <2>2. running = {} /\ ~open /\ hs # "pending" /\ ~timer
    BY <2>1 DEF HubInv, LinkInv
  <2>3. ASSUME UNCHANGED link PROVE UNCHANGED <<told, gen, running>>
    BY <2>3 DEF link
  <2>4. ASSUME NEW c \in Calls, Caller(c) PROVE UNCHANGED link
    BY <2>4 DEF Caller, Call, Send, Refuse, GiveUp
  <2>5. ASSUME Child PROVE UNCHANGED <<told, gen, running>>
    <3>1. ~Exits BY <2>2 DEF Exits
    <3>2. \A r \in lines : ~HandshakeAnswered(r) BY <2>2 DEF HandshakeAnswered
    <3>3. ~HandshakeFails BY <2>2 DEF HandshakeFails
    <3>4. \A r \in lines : DropAnswer(r) \/ (\E c \in Calls : Answer(r, c)) => UNCHANGED link
      BY DEF DropAnswer, Answer
    <3> QED BY <2>3, <2>5, <3>1, <3>2, <3>3, <3>4
        DEF Child, ExitAfterClose, ExitBeforeReady, ExitThenRestart, ExitThenGiveUp
  <2>6. ASSUME NEW u \in Users, Holder(u) PROVE UNCHANGED link
    BY <2>6 DEF Holder, Retain, Release, ReleaseAgain, vars
  <2>7. ASSUME IdleFires \/ ReplaceFailed \/ Quit PROVE UNCHANGED <<told, gen, running>>
    BY <2>3, <2>7 DEF IdleFires, ReplaceFailed, Quit, CloseHub
  <2> QED BY <2>1, <2>2, <2>3, <2>4, <2>5, <2>6, <2>7 DEF Next, Restart
<1> QED BY <1>1, HubInvariant, PTL DEF Spec, PermanentIsFinal

(* Whoever retains a live hub keeps it: only a failure or the end of the      *)
(* process closes it under its users (retain, scheduleIdle, acquireCodexHub). *)
THEOREM RetainedKept == Spec => RetainedStaysOpen
<1> DEFINE Kept == state # "closed" /\ state' = "closed" => Held = {} \/ state = "failed" \/ quit'
<1>1. HubInv /\ [Next]_vars => [Kept]_vars
  <2>1. SUFFICES ASSUME HubInv, Next, state # "closed", state' = "closed"
                 PROVE  Held = {} \/ state = "failed" \/ quit'
    OBVIOUS
  <2>2. ASSUME IdleFires PROVE Held = {}
    <3>1. idle BY <2>2 DEF IdleFires
    <3> QED BY <2>1, <3>1 DEF HubInv, UseInv
  <2>3. ASSUME UNCHANGED link PROVE FALSE
    BY <2>1, <2>3 DEF link
  <2>4. ASSUME NEW c \in Calls, Caller(c) PROVE FALSE
    BY <2>3, <2>4 DEF Caller, Call, Send, Refuse, GiveUp
  <2>5. ASSUME Child \/ Restart PROVE FALSE
    BY <2>1, <2>3, <2>5 DEF Child, Restart, HandshakeAnswered, DropAnswer, Answer, HandshakeFails,
       ExitAfterClose, ExitBeforeReady, ExitThenRestart, ExitThenGiveUp
  <2>6. ASSUME NEW u \in Users, Holder(u) PROVE FALSE
    BY <2>3, <2>6 DEF Holder, Retain, Release, ReleaseAgain, vars
  <2>7. ASSUME Quit PROVE quit'
    BY <2>7 DEF Quit
  <2> QED BY <2>1, <2>2, <2>4, <2>5, <2>6, <2>7 DEF Next, ReplaceFailed
<1> QED BY <1>1, HubInvariant, PTL DEF Spec, RetainedStaysOpen

(* The steps of the hub that leave the connection and the calls alone.        *)
LEMMA ContractStutters ==
  ASSUME UNCHANGED <<state, told, call>> PROVE UNCHANGED <<LinkState, told, Progress>>
BY DEF LinkState, Progress

(* A call that moves moves alone in the contract's eyes, over the same link.  *)
LEMMA CallMoves ==
  ASSUME TypeOK, NEW c \in Calls, NEW d \in CallRecord,
         call' = [call EXCEPT ![c] = d], UNCHANGED <<state, told>>
  PROVE  /\ LinkState' = LinkState
         /\ Progress' = [Progress EXCEPT ![c] = Progress'[c]]
         /\ Progress'[c] = CASE d.st = "idle" -> "none" [] d.st = "waiting" -> "asked"
                             [] d.st = "sent" -> "sent" [] d.st = "ok" -> "answered"
                             [] OTHER -> "failed"
BY DEF TypeOK, LinkState, Progress

(* Closing the connection of a hub that is up fails all that was sent.        *)
LEMMA LinkChanges ==
  ASSUME TypeOK, call' = Rejected
  PROVE  Progress' = [c \in Calls |-> IF Progress[c] = "sent" THEN "failed" ELSE Progress[c]]
BY DEF TypeOK, CallRecord, Rejected, Progress

LEMMA ContractInit == Init => Contract!Init
BY DEF Init, Contract!Init, LinkState, Progress, NoCall

LEMMA CloseKeeps == ASSUME TypeOK, CloseHub PROVE Contract!Change
<1>1. LinkState' = "closed" /\ LinkState # "closed"
  BY DEF CloseHub, LinkState, TypeOK
<1>2. LinkState \in {"opening", "up", "down", "dead"} /\ "closed" \in Contract!After[LinkState]
  BY <1>1 DEF LinkState, TypeOK, Contract!After
<1> QED BY <1>1, <1>2, LinkChanges DEF CloseHub, Contract!Change

LEMMA ContractStep ==
  ASSUME HubInv, [Next]_vars PROVE [Contract!Next]_(Contract!vars)
<1> USE Constants
<1>0. TypeOK /\ LinkInv /\ CallInv
  BY DEF HubInv
<1>1. ASSUME UNCHANGED <<state, told, call>> PROVE UNCHANGED (Contract!vars)
  BY <1>1, ContractStutters DEF Contract!vars
<1>2. ASSUME NEW c \in Calls, Call(c) PROVE Contract!Ask(c)
  <2>1. PICK d \in CallRecord : /\ call' = [call EXCEPT ![c] = d]
                               /\ d.st = IF state = "closed" THEN "error" ELSE "waiting"
    <3>1. [call[c] EXCEPT !.st = IF state = "closed" THEN "error" ELSE "waiting"] \in CallRecord
      BY <1>0 DEF TypeOK, CallRecord
    <3> QED BY <1>0, <1>2, <3>1 DEF Call, TypeOK, CallRecord
  <2>2. UNCHANGED <<state, told>>
    BY <1>2 DEF Call, link
  <2>3. Progress[c] = "none" /\ (LinkState = "closed" <=> state = "closed")
    BY <1>0, <1>2 DEF Call, Progress, LinkState, TypeOK
  <2>4. /\ LinkState' = LinkState /\ Progress' = [Progress EXCEPT ![c] = Progress'[c]]
        /\ Progress'[c] = IF state = "closed" THEN "failed" ELSE "asked"
    BY <1>0, <2>1, <2>2, CallMoves
  <2> QED BY <2>2, <2>3, <2>4 DEF Contract!Ask
<1>3. ASSUME NEW c \in Calls, Send(c) PROVE Contract!Send(c)
  <2>1. PICK d \in CallRecord : call' = [call EXCEPT ![c] = d] /\ d.st = "sent"
    <3>1. [call[c] EXCEPT !.st = "sent", !.id = nextId] \in CallRecord
      BY <1>0 DEF TypeOK, CallRecord
    <3> QED BY <1>0, <1>3, <3>1 DEF Send, TypeOK, CallRecord
  <2>2. UNCHANGED <<state, told>>
    BY <1>3 DEF Send, link
  <2>3. Progress[c] = "asked" /\ LinkState = "up"
    BY <1>0, <1>3 DEF Send, Progress, LinkState, LinkInv
  <2>4. /\ LinkState' = LinkState /\ Progress' = [Progress EXCEPT ![c] = Progress'[c]]
        /\ Progress'[c] = "sent"
    BY <1>0, <2>1, <2>2, CallMoves
  <2> QED BY <2>2, <2>3, <2>4 DEF Contract!Send
<1>4. ASSUME NEW c \in Calls, Refuse(c) \/ GiveUp(c) PROVE Contract!Fail(c)
  <2>1. PICK d \in CallRecord : call' = [call EXCEPT ![c] = d] /\ d.st = "error"
    <3>1. [call[c] EXCEPT !.st = "error"] \in CallRecord
      BY <1>0 DEF TypeOK, CallRecord
    <3> QED BY <1>0, <1>4, <3>1 DEF Refuse, GiveUp, TypeOK, CallRecord
  <2>2. UNCHANGED <<state, told>>
    BY <1>4 DEF Refuse, GiveUp, link
  <2>3. Progress[c] \in {"asked", "sent"}
    BY <1>4 DEF Refuse, GiveUp, Progress
  <2>4. /\ LinkState' = LinkState /\ Progress' = [Progress EXCEPT ![c] = Progress'[c]]
        /\ Progress'[c] = "failed"
    BY <1>0, <2>1, <2>2, CallMoves
  <2> QED BY <2>2, <2>3, <2>4 DEF Contract!Fail
<1>5. ASSUME NEW r \in lines, NEW c \in Calls, Answer(r, c)
      PROVE  Contract!Answer(c) \/ Contract!Fail(c)
  <2>1. PICK d \in CallRecord : call' = [call EXCEPT ![c] = d] /\ d.st \in {"ok", "error"}
    <3>1. PICK st \in {"ok", "error"} :
            call' = [call EXCEPT ![c] = [@ EXCEPT !.st = st, !.got = r.by]]
      BY <1>5 DEF Answer
    <3>2. [call[c] EXCEPT !.st = st, !.got = r.by] \in CallRecord
      BY <1>0 DEF TypeOK, CallRecord, Asked
    <3> QED BY <1>0, <3>1, <3>2 DEF TypeOK, CallRecord
  <2>2. UNCHANGED <<state, told>>
    BY <1>5 DEF Answer, link
  <2>3. Progress[c] = "sent" /\ LinkState = "up"
    BY <1>0, <1>5 DEF Answer, Waits, Progress, LinkState, LinkInv, CallInv
  <2>4. /\ LinkState' = LinkState /\ Progress' = [Progress EXCEPT ![c] = Progress'[c]]
        /\ Progress'[c] \in {"answered", "failed"}
    BY <1>0, <2>1, <2>2, CallMoves
  <2> QED BY <2>2, <2>3, <2>4 DEF Contract!Answer, Contract!Fail
<1>6. ASSUME NEW r \in lines, HandshakeAnswered(r) PROVE Contract!Change
  <2>1. state \in {"starting", "restarting"}
    BY <1>0, <1>6 DEF HandshakeAnswered, LinkInv, TypeOK
  <2>2. LinkState' = "up" /\ LinkState \in {"opening", "down"}
    BY <1>6, <2>1 DEF HandshakeAnswered, LinkState
  <2>3. Progress' = Progress /\ \A c \in Calls : Progress[c] # "sent"
    <3>1. call' = call /\ \A c \in Calls : call[c].st # "sent"
      BY <1>0, <1>6 DEF HandshakeAnswered, CallInv
    <3>2. Progress' = Progress BY <3>1 DEF Progress
    <3>3. ASSUME NEW c \in Calls PROVE Progress[c] # "sent"
      BY <1>0, <3>1 DEF Progress, TypeOK, CallRecord
    <3> QED BY <3>2, <3>3
  <2>4. LinkState' \in Contract!After[LinkState]
    BY <2>2 DEF Contract!After
  <2>5. Progress' = [c \in Calls |-> IF Progress[c] = "sent" THEN "failed" ELSE Progress[c]]
    BY <2>3 DEF Progress
  <2>6. told' = IF LinkState = "opening" \/ LinkState' = "closed" THEN told ELSE LinkState'
    BY <1>0, <1>6, <2>1, <2>2 DEF HandshakeAnswered, LinkInv, LinkState
  <2> QED BY <2>4, <2>5, <2>6 DEF Contract!Change
<1>7. ASSUME UNCHANGED <<state, told>>, call' = Rejected, \A c \in Calls : call[c].st # "sent"
      PROVE  UNCHANGED <<LinkState, told, Progress>>
  <2>1. Progress' = [c \in Calls |-> IF Progress[c] = "sent" THEN "failed" ELSE Progress[c]]
    BY <1>0, <1>7, LinkChanges
  <2>2. \A c \in Calls : Progress[c] # "sent"
    BY <1>0, <1>7 DEF Progress, TypeOK, CallRecord
  <2> QED BY <1>7, <2>1, <2>2 DEF LinkState, Progress
<1>8. state # "ready" => \A c \in Calls : call[c].st # "sent"
  BY <1>0 DEF LinkInv, CallInv
<1>9. ASSUME HandshakeFails PROVE Contract!Change \/ UNCHANGED (Contract!vars)
  <2>1. call' = call /\ hs = "pending" /\ open
    BY <1>9 DEF HandshakeFails, traffic
  <2>2. CASE gen = 1
    <3>1. state = "starting" /\ state' = "failed"
      BY <1>0, <1>9, <2>1, <2>2 DEF HandshakeFails, LinkInv, TypeOK
    <3>2. LinkState = "opening" /\ LinkState' = "dead"
      BY <3>1 DEF LinkState
    <3>3. Progress' = Progress /\ \A c \in Calls : Progress[c] # "sent"
      BY <1>0, <1>8, <2>1, <3>1 DEF Progress, TypeOK, CallRecord
    <3>4. told' = told BY <1>9 DEF HandshakeFails
    <3> QED BY <3>2, <3>3, <3>4 DEF Contract!Change, Contract!After, Progress
  <2>3. CASE gen # 1
    BY <1>1, <1>9, <2>1, <2>3 DEF HandshakeFails
  <2> QED BY <2>2, <2>3
<1>10. ASSUME ExitAfterClose PROVE UNCHANGED (Contract!vars)
  BY <1>7, <1>8, <1>10 DEF ExitAfterClose, Exits, Contract!vars
<1>11. ASSUME ExitBeforeReady PROVE Contract!Change \/ UNCHANGED (Contract!vars)
  <2>1. state \in {"starting", "failed"} /\ state' = "failed" /\ call' = Rejected /\ told' = told
    BY <1>0, <1>11 DEF ExitBeforeReady, FirstNeverReady, Exits, LinkInv, TypeOK
  <2>2. CASE state = "failed"
    BY <1>7, <1>8, <2>1, <2>2 DEF Contract!vars
  <2>3. CASE state = "starting"
    <3>1. LinkState = "opening" /\ LinkState' = "dead"
      BY <2>1, <2>3 DEF LinkState
    <3> QED BY <1>0, <2>1, <3>1, LinkChanges DEF Contract!Change, Contract!After
  <2> QED BY <2>1, <2>2, <2>3
<1>12. ASSUME ExitThenRestart \/ ExitThenGiveUp PROVE Contract!Change \/ UNCHANGED (Contract!vars)
  <2>1. state \in {"ready", "restarting"} /\ state' \in {"restarting", "failed"} /\ call' = Rejected
    BY <1>0, <1>12 DEF ExitThenRestart, ExitThenGiveUp, FirstNeverReady, Exits, LinkInv, TypeOK
  <2>2. CASE state = "restarting" /\ state' = "restarting"
    <3>1. told' = told
      BY <1>12, <2>2 DEF ExitThenRestart, ExitThenGiveUp, Lost
    <3> QED BY <1>7, <1>8, <2>1, <2>2, <3>1 DEF Contract!vars
  <2>3. CASE state = "ready" \/ state' = "failed"
    <3>1. /\ LinkState \in {"up", "down"} /\ LinkState' \in {"down", "dead"}
          /\ LinkState = "up" \/ LinkState' = "dead"
      BY <2>1, <2>3 DEF LinkState
    <3>2. told' = LinkState'
      BY <1>12, <2>1, <2>3 DEF ExitThenRestart, ExitThenGiveUp, Lost, LinkState
    <3> QED BY <1>0, <2>1, <3>1, <3>2, LinkChanges DEF Contract!Change, Contract!After
  <2> QED BY <2>1, <2>2, <2>3
<1>13. ASSUME Restart PROVE UNCHANGED (Contract!vars)
  BY <1>1, <1>13 DEF Restart
<1>14. ASSUME NEW u \in Users, Holder(u) PROVE UNCHANGED (Contract!vars)
  <2>1. UNCHANGED <<link, traffic>> BY <1>14 DEF Holder, Retain, Release, ReleaseAgain, vars
  <2> QED BY <1>1, <2>1 DEF link, traffic
<1>15. ASSUME IdleFires \/ ReplaceFailed \/ Quit PROVE Contract!Change \/ UNCHANGED (Contract!vars)
  <2>1. CASE CloseHub BY <1>0, <2>1, CloseKeeps
  <2>2. CASE ~CloseHub
    <3>1. UNCHANGED <<link, traffic>> BY <1>15, <2>2 DEF IdleFires, ReplaceFailed, Quit
    <3> QED BY <1>1, <3>1 DEF link, traffic
  <2> QED BY <2>1, <2>2
<1>16. ASSUME NEW r \in lines, DropAnswer(r) PROVE UNCHANGED (Contract!vars)
  BY <1>1, <1>16 DEF DropAnswer, link
<1>17. ASSUME UNCHANGED vars PROVE UNCHANGED (Contract!vars)
  BY <1>1, <1>17 DEF vars, link, traffic
<1> QED
  BY <1>2, <1>3, <1>4, <1>5, <1>6, <1>9, <1>10, <1>11, <1>12, <1>13, <1>14, <1>15, <1>16, <1>17
  DEF Next, Caller, Child, Contract!Next

(* Every step of the hub is a step or a stutter of the contract its sessions  *)
(* rely on: HubState is the automaton of HubContract, the sinks hear of each  *)
(* of its changes in that step, calls are answered over a connection that is  *)
(* up, and all fail in the step that takes it down.                           *)
THEOREM ContractKept == Spec => KeepsContract
<1>1. HubInv /\ [Next]_vars => [Contract!Next]_(Contract!vars)
  BY ContractStep
<1> QED BY <1>1, ContractInit, HubInvariant, PTL DEF Spec, KeepsContract, Contract!Spec
=============================================================================
