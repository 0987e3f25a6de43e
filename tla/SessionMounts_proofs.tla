------------------------- MODULE SessionMounts_proofs -------------------------
(* Proofs about SessionMounts, for every set of processes, sessions and     *)
(* mount operations, every retry budget, with and without I/O failures.     *)
EXTENDS SessionMounts, TLAPS

USE SentinelAssumption, ParameterAssumption

Typed == TypeOK /\ Shape

LEMMA SentinelsTyped ==
    /\ NoLock \in Lock /\ NoCall \in Call /\ Free \in Reservation
    /\ NoSnap \in [Procs -> SUBSET Sessions]
BY DEF NoLock, Lock, NoCall, NoSnap, Free, Call, Reservation, Kinds, Answers, OpStates

(* A process that ends, at the end of its teardown or by a crash, leaves    *)
(* well-formed memory.                                                      *)
LEMMA ForgetTyped ==
    ASSUME Typed, NEW p \in Procs, Forget(p),
           pc' = [pc EXCEPT ![p] = "idle"],
           call' = [call EXCEPT ![p] = NoCall],
           snap' = [snap EXCEPT ![p] = NoSnap]
    PROVE  /\ alive' \in [Procs -> BOOLEAN]
           /\ own' \in [Procs -> SUBSET Sessions]
           /\ agents' \in [Procs -> SUBSET Sessions]
           /\ rsv' \in [Ops -> Reservation]
           /\ pc' \in [Procs -> Steps]
           /\ call' \in [Procs -> Call]
           /\ snap' \in [Procs -> [Procs -> SUBSET Sessions]]
           /\ Shape'
<1> USE DEF Typed, TypeOK
<1>0. NoCall \in Call /\ NoSnap \in [Procs -> SUBSET Sessions] /\ Free \in Reservation
  BY SentinelsTyped
<1>1. pc' \in [Procs -> Steps] /\ call' \in [Procs -> Call] /\ snap' \in [Procs -> [Procs -> SUBSET Sessions]]
  BY <1>0 DEF Steps
<1>2. /\ alive' \in [Procs -> BOOLEAN] /\ own' \in [Procs -> SUBSET Sessions]
      /\ agents' \in [Procs -> SUBSET Sessions] /\ rsv' \in [Ops -> Reservation]
  BY <1>0 DEF Forget
<1>3. Shape'
  <2>1. \A q \in Procs : pc'[q] = "idle" <=> call'[q].kind = "none"
    BY DEF Shape, NoCall
  <2>2. \A q \in Procs : pc'[q] # "idle" => alive'[q]
    BY DEF Shape, Forget
  <2>3. \A o \in Ops : \/ rsv'[o] = Free
                        \/ /\ rsv'[o].st # "idle"
                           /\ rsv'[o].p \in Procs /\ alive'[rsv'[o].p]
                           /\ rsv'[o].s \in Sessions
    BY DEF Shape, Forget
  <2>4. \A q \in Procs : call'[q].kind = "claim" => /\ call'[q].op \in Ops
                                                   /\ rsv'[call'[q].op].p = q
                                                   /\ rsv'[call'[q].op].st = "claiming"
    BY DEF Shape, Claiming, NoCall, Forget
  <2> QED BY <2>1, <2>2, <2>3, <2>4 DEF Shape, Claiming
<1> QED BY <1>1, <1>2, <1>3

(* A ledger function that returns leaves well-formed memory.                *)
LEMMA ReturnTyped ==
    ASSUME Typed, NEW p \in Procs, NEW a \in Answers, pc[p] # "idle", Return(p, a)
    PROVE  /\ alive' \in [Procs -> BOOLEAN]
           /\ own' \in [Procs -> SUBSET Sessions]
           /\ agents' \in [Procs -> SUBSET Sessions]
           /\ rsv' \in [Ops -> Reservation]
           /\ pc' \in [Procs -> Steps]
           /\ call' \in [Procs -> Call]
           /\ snap' \in [Procs -> [Procs -> SUBSET Sessions]]
           /\ Shape'
<1> USE DEF Typed, TypeOK
<1>0. NoCall \in Call /\ NoSnap \in [Procs -> SUBSET Sessions] /\ Free \in Reservation
  BY SentinelsTyped
<1>1. pc' \in [Procs -> Steps] /\ call' \in [Procs -> Call] /\ snap' \in [Procs -> [Procs -> SUBSET Sessions]]
  BY <1>0 DEF Return, Steps
<1>2. CASE call[p].kind = "claim"
  <2>1. call[p].op \in Ops /\ rsv[call[p].op].p = p /\ rsv[call[p].op].st = "claiming"
    BY <1>2 DEF Shape, Claiming
  <2> DEFINE r == rsv[call[p].op]
  <2>2. r \in Reservation /\ call[p] \in Call
    BY <2>1
  <2>3. Answered(r, call[p], a) \in Reservation
    <3>1. CASE a = "ok"
      <4>1. Answered(r, call[p], a) = [r EXCEPT !.st = "held", !.fresh = call[p].fresh, !.pinned = TRUE]
        BY <3>1 DEF Answered
      <4> QED BY <4>1, <2>2 DEF Reservation, OpStates, Call
    <3>2. CASE a = "busy" /\ r.tries < MaxTries
      <4>1. Answered(r, call[p], a) = [r EXCEPT !.st = "waiting", !.tries = @ + 1]
        BY <3>2 DEF Answered
      <4>2. r.tries + 1 \in Nat
        BY <2>2 DEF Reservation
      <4> QED BY <4>1, <4>2, <2>2 DEF Reservation, OpStates
    <3>3. CASE a # "ok" /\ ~(a = "busy" /\ r.tries < MaxTries)
      <4>1. Answered(r, call[p], a) \in {[r EXCEPT !.st = "held"], Free}
        BY <3>3 DEF Answered
      <4> QED BY <4>1, <1>0, <2>2 DEF Reservation, OpStates
    <3> QED BY <3>1, <3>2, <3>3
  <2>4. \/ Answered(r, call[p], a) = Free
        \/ /\ Answered(r, call[p], a).st \in {"held", "waiting"}
           /\ Answered(r, call[p], a).p = r.p
           /\ Answered(r, call[p], a).s = r.s
    BY <2>2 DEF Answered, Reservation
  <2>5. rsv' = [rsv EXCEPT ![call[p].op] = Answered(r, call[p], a)] /\ UNCHANGED <<alive, own, agents>>
    BY <1>2 DEF Return
  <2>6. Shape'
    <3>1. \A q \in Procs : pc'[q] = "idle" <=> call'[q].kind = "none"
      BY DEF Return, Shape, NoCall
    <3>2. \A q \in Procs : pc'[q] # "idle" => alive'[q]
      BY <2>5 DEF Return, Shape
    <3>3. \A o \in Ops : \/ rsv'[o] = Free
                          \/ /\ rsv'[o].st # "idle"
                             /\ rsv'[o].p \in Procs /\ alive'[rsv'[o].p]
                             /\ rsv'[o].s \in Sessions
      <4> SUFFICES ASSUME NEW o \in Ops
                   PROVE  \/ rsv'[o] = Free
                          \/ /\ rsv'[o].st # "idle"
                             /\ rsv'[o].p \in Procs /\ alive'[rsv'[o].p]
                             /\ rsv'[o].s \in Sessions
        OBVIOUS
      <4>1. CASE o = call[p].op
        <5>1. r # Free
          BY <2>1 DEF Free
        <5> QED BY <4>1, <5>1, <2>1, <2>4, <2>5 DEF Shape
      <4>2. CASE o # call[p].op
        BY <4>2, <2>1, <2>5 DEF Shape
      <4> QED BY <4>1, <4>2
    <3>4. \A q \in Procs : call'[q].kind = "claim" => /\ call'[q].op \in Ops
                                                     /\ rsv'[call'[q].op].p = q
                                                     /\ rsv'[call'[q].op].st = "claiming"
      BY <2>1, <2>5 DEF Return, Shape, Claiming, NoCall
    <3>5. \A q \in Procs : pc'[q] = "read" => call'[q].kind = "claim"
      BY DEF Return, Shape, Claiming
    <3> QED BY <3>1, <3>2, <3>3, <3>4, <3>5 DEF Shape, Claiming
  <2> QED BY <1>1, <2>3, <2>5, <2>6
<1>3. CASE call[p].kind = "publish"
  BY <1>1, <1>3 DEF Return, memory, Shape, Claiming, NoCall
<1>4. CASE call[p].kind = "clear"
  BY <1>4, ForgetTyped DEF Return
<1> QED BY <1>2, <1>3, <1>4 DEF Return

LEMMA TypedInit == Init => Typed
BY SentinelsTyped DEF Init, Typed, TypeOK, Shape, Steps, Free, NoCall, Claiming

(* The steps of acquireLock.                                                *)
LEMMA AcquireTyped ==
    ASSUME Typed, NEW p \in Procs, Acquire(p)
    PROVE  Typed'
<1> USE DEF Typed, TypeOK, disk, memory
<1>0. pc[p] # "idle" => alive[p] /\ call[p].kind # "none"
  BY DEF Shape
<1>1. ASSUME NEW step \in Steps \ {"idle", "read"}, pc[p] # "idle", Goto(p, step),
             UNCHANGED <<alive, memory, call, snap>>
      PROVE  pc' \in [Procs -> Steps] /\ Shape'
  BY <1>1 DEF Goto, Shape, Claiming, Steps
<1>2. CASE CreateLock(p)
  BY <1>1, <1>2, SentinelsTyped DEF CreateLock, NoLock, Lock, Steps
<1>3. CASE FirstOpenExists(p)
  BY <1>1, <1>3 DEF FirstOpenExists, Steps
<1>4. CASE SecondOpenExists(p)
  BY <1>4, ReturnTyped DEF SecondOpenExists, Answers
<1>5. CASE OpenFails(p)
  BY <1>5, ReturnTyped DEF OpenFails, Answers
<1>6. CASE JudgeReclaimable(p)
  BY <1>1, <1>6 DEF JudgeReclaimable, Steps
<1>7. CASE JudgeBusy(p)
  BY <1>7, ReturnTyped DEF JudgeBusy, Answers
<1>8. CASE RemoveStale(p)
  BY <1>1, <1>8, SentinelsTyped DEF RemoveStale, Steps
<1>9. CASE RemoveFails(p)
  BY <1>9, ReturnTyped DEF RemoveFails, Answers
<1>10. CASE WriteToken(p)
  BY <1>1, <1>10 DEF WriteToken, Lock, Steps
<1>11. CASE WriteTokenFails(p)
  BY <1>11, ReturnTyped, SentinelsTyped DEF WriteTokenFails, Answers
<1> QED BY <1>2, <1>3, <1>4, <1>5, <1>6, <1>7, <1>8, <1>9, <1>10, <1>11 DEF Acquire

(* The steps taken under the lock.                                          *)
LEMMA UnderLockTyped ==
    ASSUME Typed, NEW p \in Procs, UnderLock(p)
    PROVE  Typed'
<1> USE DEF Typed, TypeOK, disk, memory
<1>1. ASSUME NEW step \in Steps \ {"idle", "read"}, pc[p] # "idle", Goto(p, step),
             UNCHANGED <<alive, rsv, call>>
      PROVE  pc' \in [Procs -> Steps] /\ Shape'
  BY <1>1 DEF Goto, Shape, Claiming, Steps
<1>2. ASSUME NEW a \in Answers, pc[p] # "idle", Conclude(p, a), UNCHANGED <<alive, rsv>>
      PROVE  pc' \in [Procs -> Steps] /\ call' \in [Procs -> Call] /\ Shape'
  <2>1. pc' \in [Procs -> Steps] /\ call' \in [Procs -> Call]
    BY <1>2 DEF Conclude, Steps, Call
  <2>2. \A q \in Procs : call'[q].kind = call[q].kind /\ call'[q].op = call[q].op
    BY <1>2 DEF Conclude, Call
  <2> QED BY <1>2, <2>1, <2>2 DEF Conclude, Shape, Claiming
<1>3. ASSUME Claiming(p)
      PROVE  ClaimedSession(p) \in Sessions
  BY <1>3 DEF Shape, Claiming, ClaimedSession, Free
<1>4. CASE CheckHeld(p)
  <2>1. pc' \in [Procs -> Steps]
    BY <1>4 DEF CheckHeld, Goto, NextUnderLock, Steps
  <2>2. own' \in [Procs -> SUBSET Sessions]
    BY <1>4 DEF CheckHeld
  <2>3. \A o \in Ops : /\ rsv'[o] \in Reservation
                       /\ rsv'[o].st = rsv[o].st /\ rsv'[o].p = rsv[o].p /\ rsv'[o].s = rsv[o].s
                       /\ rsv[o] = Free => rsv'[o] = Free
    <3>1. CASE call[p].kind # "clear"
      BY <1>4, <3>1 DEF CheckHeld
    <3>2. ASSUME NEW o \in Ops, call[p].kind = "clear", rsv[o].p = p
          PROVE  /\ rsv'[o] \in Reservation
                 /\ rsv'[o].st = rsv[o].st /\ rsv'[o].p = rsv[o].p /\ rsv'[o].s = rsv[o].s
                 /\ rsv[o] # Free
      <4>1. rsv[o] \in Reservation /\ rsv'[o] = [rsv[o] EXCEPT !.pinned = FALSE]
        BY <1>4, <3>2 DEF CheckHeld
      <4>2. [rsv[o] EXCEPT !.pinned = FALSE] \in Reservation
        BY <4>1 DEF Reservation
      <4>3. rsv'[o].st = rsv[o].st /\ rsv'[o].p = rsv[o].p /\ rsv'[o].s = rsv[o].s
        BY <4>1 DEF Reservation
      <4>4. rsv[o] # Free
        BY <3>2 DEF Free
      <4> QED BY <4>1, <4>2, <4>3, <4>4
    <3>3. ASSUME NEW o \in Ops, call[p].kind = "clear", rsv[o].p # p
          PROVE  rsv'[o] = rsv[o]
      BY <1>4, <3>3 DEF CheckHeld
    <3> QED BY <3>1, <3>2, <3>3
  <2>4. rsv' \in [Ops -> Reservation]
    <3>1. CASE call[p].kind = "clear"
      BY <1>4, <2>3, <3>1 DEF CheckHeld
    <3>2. CASE call[p].kind # "clear"
      BY <1>4, <3>2 DEF CheckHeld
    <3> QED BY <3>1, <3>2
  <2>5. pc' = [pc EXCEPT ![p] = NextUnderLock(p)] /\ UNCHANGED <<alive, call>>
    BY <1>4 DEF CheckHeld, Goto
  <2>6. NextUnderLock(p) \in {"read", "reread"} /\ (NextUnderLock(p) = "read" => Claiming(p))
    BY DEF NextUnderLock, Claiming
  <2>7. Shape'
    <3>1. \A q \in Procs : pc'[q] = "idle" <=> pc[q] = "idle"
      BY <1>4, <2>5, <2>6 DEF CheckHeld
    <3>2. \A q \in Procs : pc'[q] = "read" => Claiming(q)
      BY <2>5, <2>6 DEF Shape
    <3>3. \A o \in Ops : \/ rsv'[o] = Free
                          \/ /\ rsv'[o].st # "idle"
                             /\ rsv'[o].p \in Procs /\ alive'[rsv'[o].p]
                             /\ rsv'[o].s \in Sessions
      BY <2>3, <2>5 DEF Shape
    <3>4. \A q \in Procs : Claiming(q) => /\ call[q].op \in Ops
                                          /\ rsv'[call[q].op].p = q
                                          /\ rsv'[call[q].op].st = "claiming"
      BY <2>3 DEF Shape
    <3> QED BY <2>5, <3>1, <3>2, <3>3, <3>4 DEF Shape, Claiming
  <2> QED BY <1>4, <2>1, <2>2, <2>4, <2>7 DEF CheckHeld
<1>5. CASE CheckLost(p)
  BY <1>2, <1>5 DEF CheckLost, Answers
<1>6. CASE ReadOccupied(p)
  BY <1>2, <1>6 DEF ReadOccupied, Answers
<1>7. CASE ReadFree(p)
  <2>1. Claiming(p) /\ ClaimedSession(p) \in Sessions
    BY <1>3, <1>7 DEF ReadFree, Shape
  <2>2. \A q \in Procs : call'[q].kind = call[q].kind /\ call'[q].op = call[q].op
    BY <1>7 DEF ReadFree, Call
  <2>3. pc' \in [Procs -> Steps] /\ call' \in [Procs -> Call] /\ own' \in [Procs -> SUBSET Sessions]
    <3>1. pc' \in [Procs -> Steps]
      BY <1>7 DEF ReadFree, Goto, Steps
    <3>2. own' \in [Procs -> SUBSET Sessions]
      BY <1>7, <2>1 DEF ReadFree
    <3>4. call' \in [Procs -> Call]
      <4> DEFINE f == ClaimedSession(p) \notin own[p]
      <4>1. call' = [call EXCEPT ![p].fresh = f] /\ f \in BOOLEAN
        BY <1>7 DEF ReadFree
      <4> HIDE DEF f
      <4> QED BY <4>1 DEF Call
    <3> QED BY <3>1, <3>2, <3>4
  <2>4. Shape'
    BY <1>7, <2>2 DEF ReadFree, Goto, Shape, Claiming
  <2> QED BY <1>7, <2>3, <2>4 DEF ReadFree
<1>8. CASE ReadFails(p)
  BY <1>2, <1>8 DEF ReadFails, Answers
<1>9. CASE Reread(p)
  <2>1. Rebuilt(p) \in [Procs -> SUBSET Sessions]
    BY DEF Rebuilt
  <2> QED BY <1>1, <1>9, <2>1 DEF Reread, Steps
<1>10. CASE Replace(p)
  BY <1>2, <1>10, SentinelsTyped DEF Replace, Answers
<1>11. CASE NotPersisted(p)
  BY <1>2, <1>11, SentinelsTyped DEF NotPersisted, Answers
<1>12. CASE ReleaseHeld(p)
  BY <1>1, <1>12 DEF ReleaseHeld, Steps
<1>13. CASE ReleaseLost(p)
  BY <1>13, ReturnTyped DEF ReleaseLost, Call
<1>14. CASE Unlink(p)
  BY <1>14, ReturnTyped, SentinelsTyped DEF Unlink, Call
<1>15. CASE UnlinkFails(p)
  BY <1>15, ReturnTyped DEF UnlinkFails, Call
<1> QED BY <1>4, <1>5, <1>6, <1>7, <1>8, <1>9, <1>10, <1>11, <1>12, <1>13, <1>14, <1>15 DEF UnderLock

(* What the callers do between two ledger functions.                        *)
LEMMA CallerTyped ==
    ASSUME Typed, NEW p \in Procs, Caller(p)
    PROVE  Typed'
<1> USE DEF Typed, TypeOK, disk, memory
<1>1. ASSUME NEW c \in Call, Ready(p), Begin(p, c), c.kind \in {"publish", "clear"},
             UNCHANGED <<alive, rsv>>
      PROVE  pc' \in [Procs -> Steps] /\ call' \in [Procs -> Call] /\ Shape'
  BY <1>1 DEF Begin, Ready, Shape, Claiming, Steps
<1>2. /\ [NoCall EXCEPT !.kind = "publish"] \in Call
      /\ [NoCall EXCEPT !.kind = "clear"] \in Call
      /\ [NoCall EXCEPT !.kind = "publish"].kind = "publish"
      /\ [NoCall EXCEPT !.kind = "clear"].kind = "clear"
  BY DEF NoCall, Call, Kinds, Answers
<1>3. ASSUME NEW o \in Ops, NEW r \in Reservation, Ready(p),
             rsv[o] = Free \/ (rsv[o].p = p /\ rsv[o].st = "waiting"),
             r.st = "claiming", r.p = p, r.s \in Sessions,
             rsv' = [rsv EXCEPT ![o] = r],
             Begin(p, [NoCall EXCEPT !.kind = "claim", !.op = o]), UNCHANGED alive
      PROVE  /\ pc' \in [Procs -> Steps] /\ call' \in [Procs -> Call]
             /\ rsv' \in [Ops -> Reservation] /\ Shape'
  <2> DEFINE c == [NoCall EXCEPT !.kind = "claim", !.op = o]
  <2>1. c \in Call /\ c.kind = "claim" /\ c.op = o
    BY DEF NoCall, Call, Kinds, Answers
  <2>2. /\ pc' = [pc EXCEPT ![p] = "open"] /\ call' = [call EXCEPT ![p] = c]
        /\ alive[p] /\ pc[p] = "idle"
    BY <1>3 DEF Begin, Ready
  <2>3. pc' \in [Procs -> Steps] /\ call' \in [Procs -> Call] /\ rsv' \in [Ops -> Reservation]
    BY <1>3, <2>1, <2>2 DEF Steps
  <2>4. \A q \in Procs : Claiming(q) => call[q].op # o
    BY <1>3 DEF Shape, Free
  <2>5. Shape'
    BY <1>3, <2>1, <2>2, <2>4 DEF Shape, Claiming
  <2> QED BY <2>3, <2>5
<1>4. ASSUME NEW o \in Ops, NEW r \in Reservation, Ready(p),
             rsv[o].p = p, rsv[o].st \in {"held", "opened"},
             r = Free \/ (r.st = "opened" /\ r.p = p /\ r.s \in Sessions),
             rsv' = [rsv EXCEPT ![o] = r], UNCHANGED alive
      PROVE  rsv' \in [Ops -> Reservation]
             /\ (\A x \in Ops : \/ rsv'[x] = Free
                                \/ /\ rsv'[x].st # "idle"
                                   /\ rsv'[x].p \in Procs /\ alive'[rsv'[x].p]
                                   /\ rsv'[x].s \in Sessions)
             /\ \A q \in Procs : Claiming(q) => rsv'[call[q].op] = rsv[call[q].op]
  BY <1>4 DEF Shape, Ready
<1>5. ASSUME NEW o \in Ops, rsv[o].p = p
      PROVE  rsv[o].s \in Sessions /\ rsv[o] \in Reservation /\ rsv[o] # Free
  BY <1>5 DEF Shape, Free
<1>6. ASSUME NEW o \in Ops, NEW s \in Sessions, Reserve(p, o, s)
      PROVE  Typed'
  <2> DEFINE r == [Free EXCEPT !.st = "claiming", !.p = p, !.s = s]
  <2>1. r \in Reservation /\ r.st = "claiming" /\ r.p = p /\ r.s \in Sessions
    BY DEF Free, Reservation, OpStates
  <2> QED BY <1>3, <1>6, <2>1 DEF Reserve
<1>7. ASSUME NEW o \in Ops, NEW s \in Sessions, ReserveNew(p, o, s)
      PROVE  Typed'
  <2> DEFINE r == [Free EXCEPT !.st = "claiming", !.p = p, !.s = s, !.new = TRUE]
  <2>1. r \in Reservation /\ r.st = "claiming" /\ r.p = p /\ r.s \in Sessions
    BY DEF Free, Reservation, OpStates
  <2> QED BY <1>3, <1>7, <2>1 DEF ReserveNew
<1>8. ASSUME NEW o \in Ops, Retry(p, o)
      PROVE  Typed'
  <2> DEFINE r == [rsv[o] EXCEPT !.st = "claiming"]
  <2>1. rsv[o].p = p /\ rsv[o].st = "waiting" /\ rsv' = [rsv EXCEPT ![o] = r]
    BY <1>8 DEF Retry
  <2>2. r \in Reservation /\ r.st = "claiming" /\ r.p = p /\ r.s \in Sessions
    BY <1>5, <2>1 DEF Reservation, OpStates
  <2> QED BY <1>3, <1>8, <2>1, <2>2 DEF Retry
<1>9. ASSUME NEW o \in Ops, Open(p, o)
      PROVE  Typed'
  <2> DEFINE r == [rsv[o] EXCEPT !.st = "opened"]
  <2>1. rsv[o].p = p /\ rsv[o].st = "held" /\ rsv' = [rsv EXCEPT ![o] = r]
    BY <1>9 DEF Open
  <2>2. r \in Reservation /\ r.st = "opened" /\ r.p = p /\ r.s \in Sessions
    BY <1>5, <2>1 DEF Reservation, OpStates
  <2>3. agents' \in [Procs -> SUBSET Sessions] /\ stored' \subseteq Sessions
    BY <1>5, <1>9, <2>1 DEF Open
  <2> HIDE DEF r
  <2>4. /\ rsv' \in [Ops -> Reservation]
        /\ \A x \in Ops : \/ rsv'[x] = Free
                          \/ /\ rsv'[x].st # "idle"
                             /\ rsv'[x].p \in Procs /\ alive'[rsv'[x].p]
                             /\ rsv'[x].s \in Sessions
        /\ \A q \in Procs : Claiming(q) => rsv'[call[q].op] = rsv[call[q].op]
    BY <1>4, <1>9, <2>1, <2>2 DEF Open
  <2> QED BY <1>9, <2>3, <2>4 DEF Open, Shape, Claiming
<1>10. ASSUME NEW o \in Ops, Settle(p, o)
       PROVE  Typed'
  BY <1>4, <1>10, SentinelsTyped DEF Settle, Shape, Claiming
<1>11. ASSUME NEW o \in Ops, Abandon(p, o)
       PROVE  Typed'
  <2> DEFINE keys == {t \in Sessions : \E x \in Ops \ {o} : rsv[x].p = p /\ rsv[x].pinned /\ rsv[x].s = t}
  <2>1. Ready(p) /\ rsv[o].p = p /\ rsv[o].st \in {"held", "opened"} /\ rsv' = [rsv EXCEPT ![o] = Free]
    BY <1>11 DEF Abandon
  <2>2. /\ rsv' \in [Ops -> Reservation]
        /\ \A x \in Ops : \/ rsv'[x] = Free
                          \/ /\ rsv'[x].st # "idle"
                             /\ rsv'[x].p \in Procs /\ alive'[rsv'[x].p]
                             /\ rsv'[x].s \in Sessions
        /\ \A q \in Procs : Claiming(q) => rsv'[call[q].op] = rsv[call[q].op]
    BY <1>4, <1>11, <2>1, SentinelsTyped DEF Abandon
  <2>3. agents' \in [Procs -> SUBSET Sessions]
    BY <1>11 DEF Abandon
  <2>4. CASE UNCHANGED <<own, pc, call>>
    BY <1>11, <2>2, <2>3, <2>4 DEF Abandon, Shape, Claiming
  <2>5. CASE Publish(p, own[p] \ {rsv[o].s}, keys)
    <3>1. own' \in [Procs -> SUBSET Sessions]
      BY <2>5 DEF Publish
    <3>2. /\ pc' = [pc EXCEPT ![p] = "open"]
          /\ call' = [call EXCEPT ![p] = [NoCall EXCEPT !.kind = "publish"]]
      BY <2>5 DEF Publish, Begin
    <3>3. pc' \in [Procs -> Steps] /\ call' \in [Procs -> Call]
      BY <1>2, <3>2 DEF Steps
    <3>4. Shape'
      BY <1>2, <1>11, <2>1, <2>2, <3>2 DEF Abandon, Shape, Claiming, Ready
    <3> QED BY <1>11, <2>2, <2>3, <3>1, <3>3, <3>4 DEF Abandon
  <2> QED BY <1>11, <2>4, <2>5 DEF Abandon
<1>12. CASE Beat(p)
  <2>1. own' \in [Procs -> SUBSET Sessions]
    BY <1>12 DEF Beat, Publish, Pinned
  <2> QED BY <1>1, <1>2, <1>12, <2>1 DEF Beat, Publish
<1>13. ASSUME NEW s \in Sessions, CloseAgent(p, s)
       PROVE  Typed'
  BY <1>13 DEF CloseAgent, Shape, Claiming
<1>14. ASSUME NEW s \in Sessions, CloseAndRelease(p, s)
       PROVE  Typed'
  <2>1. own' \in [Procs -> SUBSET Sessions] /\ agents' \in [Procs -> SUBSET Sessions]
    BY <1>14 DEF CloseAndRelease, Publish, Pinned
  <2> QED BY <1>1, <1>2, <1>14, <2>1 DEF CloseAndRelease, Publish, Closable
<1>15. CASE Teardown(p)
  BY <1>1, <1>2, <1>15 DEF Teardown
<1> QED BY <1>6, <1>7, <1>8, <1>9, <1>10, <1>11, <1>12, <1>13, <1>14, <1>15 DEF Caller

LEMMA TypedStep == Typed /\ [Next]_vars => Typed'
<1> SUFFICES ASSUME Typed, [Next]_vars PROVE Typed'
  OBVIOUS
<1>1. CASE UNCHANGED vars
  BY <1>1 DEF vars, disk, memory, Typed, TypeOK, Shape, Claiming
<1>2. CASE LockAges
  BY <1>2 DEF LockAges, memory, Typed, TypeOK, Lock, Shape, Claiming
<1>3. ASSUME NEW p \in Procs, Crash(p) PROVE Typed'
  BY <1>3, ForgetTyped DEF Crash, disk, Typed, TypeOK
<1> QED BY <1>1, <1>2, <1>3, AcquireTyped, UnderLockTyped, CallerTyped DEF Next

(* Every state of the protocol is well formed.                              *)
THEOREM TypeCorrect == Spec => [](TypeOK /\ Shape)
<1>1. Init => Typed
  BY TypedInit
<1>2. Typed /\ [Next]_vars => Typed'
  BY TypedStep
<1> QED BY <1>1, <1>2, PTL DEF Spec, Typed

-----------------------------------------------------------------------------
(* What one step of one process can touch.                                 *)

Step(p) == Acquire(p) \/ UnderLock(p) \/ Caller(p) \/ Crash(p)

(* The memory of q and the operations it runs are as they were.             *)
SameMemory(q) ==
    /\ pc'[q] = pc[q] /\ call'[q] = call[q] /\ snap'[q] = snap[q]
    /\ own'[q] = own[q] /\ agents'[q] = agents[q] /\ alive'[q] = alive[q]
    /\ \A o \in Ops : rsv[o].p = q \/ rsv'[o].p = q => rsv'[o] = rsv[o]

LEMMA ReturnFrame ==
    ASSUME Typed, NEW p \in Procs, NEW a \in Answers, pc[p] # "idle", Return(p, a),
           NEW q \in Procs \ {p}
    PROVE  SameMemory(q)
<1> USE DEF Typed, TypeOK, SameMemory
<1>1. CASE call[p].kind = "claim"
  <2>1. call[p].op \in Ops /\ rsv[call[p].op].p = p
    BY <1>1 DEF Shape, Claiming
  <2>2. Answered(rsv[call[p].op], call[p], a).p \in {p, NoProc}
    BY <2>1 DEF Answered, Reservation, Free
  <2> QED BY <1>1, <2>1, <2>2 DEF Return
<1>2. CASE call[p].kind = "publish"
  BY <1>2 DEF Return, memory
<1>3. CASE call[p].kind = "clear"
  BY <1>3 DEF Return, Forget, Free
<1> QED BY <1>1, <1>2, <1>3 DEF Return

LEMMA Frame ==
    ASSUME Typed, NEW p \in Procs, Step(p), NEW q \in Procs \ {p}
    PROVE  SameMemory(q)
<1> USE DEF disk, memory
<1>0. TypeOK
  BY DEF Typed
<1>1. CASE Acquire(p)
  <2>1. CASE CreateLock(p) \/ FirstOpenExists(p) \/ JudgeReclaimable(p) \/ RemoveStale(p) \/ WriteToken(p)
    BY <1>0, <2>1 DEF CreateLock, FirstOpenExists, JudgeReclaimable, RemoveStale, WriteToken, Goto, SameMemory, TypeOK
  <2>2. CASE SecondOpenExists(p) \/ OpenFails(p) \/ JudgeBusy(p) \/ RemoveFails(p) \/ WriteTokenFails(p)
    BY <2>2, ReturnFrame DEF SecondOpenExists, OpenFails, JudgeBusy, RemoveFails, WriteTokenFails, Answers
  <2> QED BY <1>1, <2>1, <2>2 DEF Acquire
<1>3. CASE UnderLock(p)
  <2>1. CASE CheckLost(p) \/ ReadOccupied(p) \/ ReadFails(p) \/ Reread(p) \/ Replace(p) \/ ReleaseHeld(p)
    BY <1>0, <2>1 DEF CheckLost, ReadOccupied, ReadFails, Reread, Replace, ReleaseHeld, Goto, Conclude, SameMemory, TypeOK
  <2>2. CASE ReleaseLost(p) \/ Unlink(p) \/ UnlinkFails(p)
    BY <1>0, <2>2, ReturnFrame DEF ReleaseLost, Unlink, UnlinkFails, TypeOK, Call
  <2>3. CASE CheckHeld(p)
    <3>1. \A o \in Ops : rsv[o] \in Reservation /\ [rsv[o] EXCEPT !.pinned = FALSE].p = rsv[o].p
      BY <1>0 DEF TypeOK, Reservation
    <3>2. \A o \in Ops : rsv[o].p = q \/ rsv'[o].p = q => rsv'[o] = rsv[o]
      BY <2>3, <3>1 DEF CheckHeld
    <3> QED BY <1>0, <2>3, <3>2 DEF CheckHeld, Goto, SameMemory, TypeOK
  <2>4. CASE ReadFree(p) \/ NotPersisted(p)
    BY <1>0, <2>4 DEF ReadFree, NotPersisted, Goto, Conclude, SameMemory, TypeOK
  <2> QED BY <1>3, <2>1, <2>2, <2>3, <2>4 DEF UnderLock
<1>4. CASE Caller(p)
  <2>1. ASSUME NEW o \in Ops, NEW s \in Sessions, Reserve(p, o, s) \/ ReserveNew(p, o, s)
        PROVE  SameMemory(q)
    <3>1. /\ rsv[o] = Free /\ pc' = [pc EXCEPT ![p] = "open"]
          /\ call' = [call EXCEPT ![p] = [NoCall EXCEPT !.kind = "claim", !.op = o]]
          /\ UNCHANGED <<alive, own, agents, snap>>
      BY <2>1 DEF Reserve, ReserveNew, Begin
    <3>2. \E r : r.p = p /\ rsv' = [rsv EXCEPT ![o] = r]
      BY <2>1 DEF Reserve, ReserveNew, Free
    <3>3. \A x \in Ops : rsv[x].p = q \/ rsv'[x].p = q => rsv'[x] = rsv[x]
      BY <1>0, <3>1, <3>2 DEF TypeOK, Free
    <3> QED BY <1>0, <3>1, <3>3 DEF SameMemory, TypeOK
  <2>2. ASSUME NEW o \in Ops, Retry(p, o) \/ Open(p, o) \/ Settle(p, o) \/ Abandon(p, o)
        PROVE  SameMemory(q)
    <3>1. CASE Retry(p, o) \/ Open(p, o) \/ Settle(p, o)
      BY <1>0, <2>2, <3>1 DEF Retry, Open, Settle, Begin, SameMemory, TypeOK, Free, Reservation
    <3>2. CASE Abandon(p, o)
      BY <1>0, <2>2, <3>2 DEF Abandon, Publish, Begin, SameMemory, TypeOK, Free
    <3> QED BY <2>2, <3>1, <3>2
  <2>3. ASSUME NEW s \in Sessions, CloseAgent(p, s) \/ CloseAndRelease(p, s)
        PROVE  SameMemory(q)
    BY <1>0, <2>3 DEF CloseAgent, CloseAndRelease, Publish, Begin, SameMemory, TypeOK
  <2>4. CASE Beat(p) \/ Teardown(p)
    BY <1>0, <2>4 DEF Beat, Teardown, Publish, Begin, SameMemory, TypeOK
  <2> QED BY <1>4, <2>1, <2>2, <2>3, <2>4 DEF Caller
<1>5. CASE Crash(p)
  BY <1>0, <1>5 DEF Crash, Forget, SameMemory, TypeOK, Free
<1> QED BY <1>1, <1>3, <1>4, <1>5 DEF Step

-----------------------------------------------------------------------------
(* CalmSpec: the ledger under the three assumptions of CalmNext.            *)

Critical == {"read", "reread", "replace", "unlink"}

(* Two processes are never under the lock together.                         *)
LEMMA Mutex ==
    ASSUME LockInv, NEW p \in Procs, NEW q \in Procs, pc[p] \in Critical, pc[q] \in Critical
    PROVE  p = q
BY DEF LockInv, LockIsHeld, Critical

(* The lock of a process that is under it is nobody else's to change.       *)
LEMMA LockKept ==
    ASSUME CalmInv, NEW p \in Procs, Step(p), CalmReclaim,
           NEW q \in Procs \ {p}, pc[q] \in Critical
    PROVE  lock' = lock
<1> USE DEF CalmInv
<1>1. lock.by = q /\ lock.token /\ alive[q] /\ lock # NoLock
  BY DEF LockInv, LockIsHeld, Critical, Shape, NoLock
<1>2. ~RemoveStale(p) /\ ~WriteTokenFails(p) /\ ~CreateLock(p)
  BY <1>1 DEF CalmReclaim, Reclaimable, CreateLock
<1>3. ~Unlink(p)
  BY <1>1 DEF Unlink, LockInv, LockIsHeld
<1>4. Acquire(p) => lock' = lock
  BY <1>1, <1>2 DEF Acquire, FirstOpenExists, SecondOpenExists, OpenFails, JudgeReclaimable,
     JudgeBusy, RemoveFails, WriteToken, disk
<1>5. UnderLock(p) => lock' = lock
  BY <1>3 DEF UnderLock, CheckHeld, CheckLost, ReadOccupied, ReadFree, ReadFails, Reread, Replace,
     NotPersisted, ReleaseHeld, ReleaseLost, UnlinkFails, disk
<1>6. Caller(p) \/ Crash(p) => lock' = lock
  BY DEF Caller, Crash, Reserve, ReserveNew, Retry, Open, Settle, Abandon, CloseAgent,
     CloseAndRelease, Beat, Teardown, disk
<1> QED BY <1>4, <1>5, <1>6 DEF Step

(* Only the rename of the new document changes the ledger.                  *)
LEMMA LedgerKept ==
    ASSUME NEW p \in Procs, Step(p), ~Replace(p)
    PROVE  ledger' = ledger
<1>1. Acquire(p) => ledger' = ledger
  BY DEF Acquire, CreateLock, FirstOpenExists, SecondOpenExists, OpenFails, JudgeReclaimable,
     JudgeBusy, RemoveStale, RemoveFails, WriteToken, WriteTokenFails, disk
<1>2. UnderLock(p) => ledger' = ledger
  BY DEF UnderLock, CheckHeld, CheckLost, ReadOccupied, ReadFree, ReadFails, Reread,
     NotPersisted, ReleaseHeld, ReleaseLost, Unlink, UnlinkFails, disk
<1>3. Caller(p) \/ Crash(p) => ledger' = ledger
  BY DEF Caller, Crash, Reserve, ReserveNew, Retry, Open, Settle, Abandon, CloseAgent,
     CloseAndRelease, Beat, Teardown, disk
<1> QED BY <1>1, <1>2, <1>3 DEF Step

(* A step of p leaves the record of every other running process alone, and  *)
(* changes of a dead one's at most that it is dropped.                      *)
LEMMA RecordKept ==
    ASSUME CalmInv, NEW p \in Procs, Step(p), NEW q \in Procs \ {p}
    PROVE  ledger'[q] = ledger[q] \/ (~alive[q] /\ ledger'[q] = {})
<1>1. CASE Replace(p)
  BY <1>1 DEF Replace, CalmInv, SnapInv
<1>2. CASE ~Replace(p)
  BY <1>2, LedgerKept
<1> QED BY <1>1, <1>2

LEMMA AliveShrinks ==
    ASSUME CalmInv, NEW p \in Procs, Step(p), NEW q \in Procs, alive'[q]
    PROVE  alive[q]
<1>0. TypeOK /\ Typed
  BY DEF CalmInv, Typed
<1>1. CASE q = p
  BY <1>0, <1>1 DEF Step, Acquire, UnderLock, Caller, Crash, Shape, Typed, CreateLock, FirstOpenExists,
     SecondOpenExists, OpenFails, JudgeReclaimable, JudgeBusy, RemoveStale, RemoveFails, WriteToken,
     WriteTokenFails, CheckHeld, CheckLost, ReadOccupied, ReadFree, ReadFails, Reread, Replace,
     NotPersisted, ReleaseHeld, ReleaseLost, Unlink, UnlinkFails, Reserve, ReserveNew, Retry, Open,
     Settle, Abandon, CloseAgent, CloseAndRelease, Beat, Teardown, Ready, Closable
<1>2. CASE q # p
  BY <1>0, <1>2, Frame DEF SameMemory
<1> QED BY <1>1, <1>2

(* Which steps lead to the steps under the lock.                            *)
LEMMA Arrivals ==
    ASSUME Typed, NEW p \in Procs, Step(p)
    PROVE  /\ pc'[p] = "read" => CheckHeld(p)
           /\ pc'[p] = "reread" => CheckHeld(p) \/ ReadFree(p)
           /\ pc'[p] = "replace" => Reread(p)
           /\ pc'[p] = "unlink" => ReleaseHeld(p)
           /\ pc'[p] = "unlock" => \/ CheckLost(p) \/ ReadOccupied(p) \/ ReadFails(p)
                                   \/ Replace(p) \/ NotPersisted(p)
<1>0. pc \in [Procs -> Steps]
  BY DEF Typed, TypeOK
<1>1. CASE Acquire(p)
  BY <1>0, <1>1 DEF Acquire, CreateLock, FirstOpenExists, SecondOpenExists, OpenFails,
     JudgeReclaimable, JudgeBusy, RemoveStale, RemoveFails, WriteToken, WriteTokenFails, Goto, Return
<1>2. CASE UnderLock(p)
  <2>1. CASE CheckHeld(p)
    BY <1>0, <2>1 DEF CheckHeld, Goto, NextUnderLock
  <2>2. CASE ~CheckHeld(p)
    BY <1>0, <1>2, <2>2 DEF UnderLock, CheckLost, ReadOccupied, ReadFree, ReadFails, Reread,
       Replace, NotPersisted, ReleaseHeld, ReleaseLost, Unlink, UnlinkFails, Goto, Conclude, Return
  <2> QED BY <2>1, <2>2
<1>3. CASE Caller(p) \/ Crash(p)
  BY <1>0, <1>3 DEF Caller, Crash, Reserve, ReserveNew, Retry, Open, Settle, Abandon, CloseAgent,
     CloseAndRelease, Beat, Teardown, Publish, Begin, Ready, Closable
<1> QED BY <1>1, <1>2, <1>3 DEF Step

(* The claim a process is in is its own.                                    *)
LEMMA ClaimKept ==
    ASSUME Typed, NEW p \in Procs, Step(p), NEW q \in Procs \ {p}
    PROVE  /\ Claiming(q)' = Claiming(q) /\ Clearing(q)' = Clearing(q) /\ Writing(q)' = Writing(q)
           /\ Claiming(q) => ClaimedSession(q)' = ClaimedSession(q)
           /\ Pinned(q)' = Pinned(q)
<1>1. SameMemory(q)
  BY Frame
<1>2. Claiming(q) => ClaimedSession(q)' = ClaimedSession(q)
  BY <1>1 DEF SameMemory, ClaimedSession, Claiming, Typed, Shape
<1> QED BY <1>1, <1>2 DEF SameMemory, Claiming, Clearing, Writing, Pinned

LEMMA LockStep ==
    ASSUME CalmInv, NEW p \in Procs, Step(p), CalmReclaim
    PROVE  LockInv'
<1>0. Typed
  BY DEF CalmInv, Typed
<1>1. SUFFICES ASSUME NEW q \in Procs, pc'[q] \in Critical
               PROVE  LockIsHeld(q)'
  BY DEF LockInv, Critical
<1>2. CASE q # p
  BY <1>0, <1>1, <1>2, LockKept, Frame DEF CalmInv, LockInv, LockIsHeld, SameMemory, Critical
<1>3. CASE q = p
  <2>1. CheckHeld(p) \/ ReadFree(p) \/ Reread(p) \/ ReleaseHeld(p)
    BY <1>0, <1>1, <1>3, Arrivals DEF Critical
  <2> QED BY <1>3, <2>1 DEF CheckHeld, ReadFree, Reread, ReleaseHeld, CalmInv, LockInv, LockIsHeld, disk
<1> QED BY <1>2, <1>3

LEMMA SnapStep ==
    ASSUME CalmInv, NEW p \in Procs, Step(p)
    PROVE  SnapInv'
<1>0. Typed
  BY DEF CalmInv, Typed
<1>1. SUFFICES ASSUME NEW q \in Procs, pc'[q] = "replace"
               PROVE  /\ snap'[q][q] = own'[q]
                      /\ \A x \in Procs \ {q} :
                            snap'[q][x] = ledger'[x] \/ (~alive'[x] /\ snap'[q][x] = {})
  BY DEF SnapInv
<1>2. CASE q # p
  <2>1. SameMemory(q)
    BY <1>0, <1>2, Frame
  <2>2. ~Replace(p)
    BY <1>1, <1>2, <2>1, Mutex DEF Replace, Critical, SameMemory, CalmInv
  <2>3. ledger' = ledger
    BY <2>2, LedgerKept
  <2> QED BY <1>1, <2>1, <2>3, AliveShrinks DEF CalmInv, SnapInv, SameMemory
<1>3. CASE q = p
  <2>1. Reread(p)
    BY <1>0, <1>1, <1>3, Arrivals
  <2>2. snap'[p] = Rebuilt(p) /\ UNCHANGED <<alive, ledger, own>>
    BY <1>0, <2>1 DEF Reread, disk, memory, Typed, TypeOK
  <2>3. Rebuilt(p)[p] = own[p]
    BY <2>1 DEF Rebuilt, CalmInv, ClearInv, Clearing, Writing, Reread
  <2> QED BY <1>3, <2>2, <2>3 DEF Rebuilt
<1> QED BY <1>2, <1>3

LEMMA AddStep ==
    ASSUME CalmInv, NEW p \in Procs, Step(p)
    PROVE  AddInv' /\ ClearInv'
<1>0. Typed /\ TypeOK
  BY DEF CalmInv, Typed
<1>1. SUFFICES ASSUME NEW q \in Procs, Writing(q)'
               PROVE  /\ Claiming(q)' => /\ ClaimedSession(q)' \in own'[q]
                                         /\ Holders(q, ClaimedSession(q))' = {}
                      /\ Clearing(q)' => own'[q] = {}
  BY DEF AddInv, ClearInv
<1>2. CASE q # p
  <2>1. SameMemory(q) /\ Writing(q)
    BY <1>0, <1>1, <1>2, Frame, ClaimKept
  <2>2. ~Replace(p)
    BY <1>2, <2>1, Mutex DEF Replace, Critical, Writing, CalmInv
  <2>3. ledger' = ledger
    BY <2>2, LedgerKept
  <2>4. ASSUME Claiming(q)'
        PROVE  /\ ClaimedSession(q)' \in own'[q]
               /\ Holders(q, ClaimedSession(q))' = {}
    <3>1. Claiming(q) /\ ClaimedSession(q)' = ClaimedSession(q)
      BY <1>0, <1>2, <2>4, ClaimKept
    <3> QED BY <2>1, <2>3, <3>1, AliveShrinks DEF CalmInv, AddInv, SameMemory, Holders
  <2> QED BY <1>0, <1>2, <2>1, <2>4, ClaimKept DEF CalmInv, ClearInv, SameMemory
<1>3. CASE q = p
  <2>1. CheckHeld(p) \/ ReadFree(p) \/ Reread(p)
    BY <1>0, <1>1, <1>3, Arrivals DEF Writing
  <2>2. CASE CheckHeld(p)
    BY <1>0, <1>1, <1>3, <2>2 DEF CheckHeld, Writing, Goto, NextUnderLock, Claiming, Clearing, TypeOK
  <2>3. CASE ReadFree(p)
    <3>1. Claiming(p) /\ call[p].op \in Ops
      BY <1>0, <2>3 DEF ReadFree, Typed, Shape
    <3>2. /\ call'[p].kind = call[p].kind /\ call'[p].op = call[p].op
          /\ own'[p] = own[p] \cup {ClaimedSession(p)}
          /\ UNCHANGED <<alive, ledger, rsv>>
      BY <1>0, <2>3 DEF ReadFree, disk, TypeOK, Call
    <3>3. ClaimedSession(p)' = ClaimedSession(p)
      BY <3>2 DEF ClaimedSession
    <3> QED BY <1>3, <2>3, <3>1, <3>2, <3>3 DEF ReadFree, Holders, Claiming, Clearing
  <2>4. CASE Reread(p)
    BY <1>3, <2>4 DEF Reread, disk, memory, CalmInv, AddInv, ClearInv, Writing, Claiming, Clearing,
       ClaimedSession, Holders
  <2> QED BY <2>1, <2>2, <2>3, <2>4
<1> QED BY <1>2, <1>3

(* Outside the steps named here, a process adds nothing to its in-memory    *)
(* set.                                                                     *)
LEMMA OwnShrinks ==
    ASSUME Typed, NEW p \in Procs, Step(p), ~ReadFree(p),
           ~Beat(p), \A o \in Ops : ~Abandon(p, o), \A s \in Sessions : ~CloseAndRelease(p, s)
    PROVE  own'[p] \subseteq own[p]
<1>0. TypeOK
  BY DEF Typed
<1>1. ASSUME NEW a, Return(p, a)
      PROVE  own'[p] \subseteq own[p]
  BY <1>0, <1>1 DEF Return, Forget, memory, TypeOK
<1>2. CASE Acquire(p)
  BY <1>1, <1>2 DEF Acquire, CreateLock, FirstOpenExists, SecondOpenExists, OpenFails,
     JudgeReclaimable, JudgeBusy, RemoveStale, RemoveFails, WriteToken, WriteTokenFails, memory
<1>3. CASE UnderLock(p)
  <2>1. CASE CheckHeld(p)
    BY <1>0, <2>1 DEF CheckHeld, TypeOK
  <2>2. CASE NotPersisted(p)
    BY <1>0, <2>2 DEF NotPersisted, TypeOK
  <2>3. CASE ReleaseLost(p) \/ Unlink(p) \/ UnlinkFails(p)
    BY <1>1, <2>3 DEF ReleaseLost, Unlink, UnlinkFails
  <2> QED BY <1>3, <2>1, <2>2, <2>3 DEF UnderLock, CheckLost, ReadOccupied, ReadFails, Reread,
       Replace, ReleaseHeld, memory
<1>4. CASE Caller(p)
  BY <1>4 DEF Caller, Reserve, ReserveNew, Retry, Open, Settle, CloseAgent, Teardown, memory
<1>5. CASE Crash(p)
  BY <1>0, <1>5 DEF Crash, Forget, TypeOK
<1> QED BY <1>2, <1>3, <1>4, <1>5 DEF Step

LEMMA OwnStep ==
    ASSUME CalmInv, NEW p \in Procs, Step(p)
    PROVE  OwnInv'
<1>0. Typed /\ TypeOK
  BY DEF CalmInv, Typed
<1>1. SUFFICES ASSUME NEW q \in Procs, alive'[q], NEW s \in own'[q]
               PROVE  s \in ledger'[q] \/ (Claiming(q) /\ Writing(q) /\ s = ClaimedSession(q))'
  BY DEF OwnInv
<1>2. alive[q]
  BY <1>1, AliveShrinks
<1>3. CASE q # p
  BY <1>0, <1>1, <1>2, <1>3, Frame, ClaimKept, RecordKept DEF SameMemory, CalmInv, OwnInv
<1>4. CASE q = p
  <2>1. CASE Replace(p)
    BY <1>1, <1>4, <2>1 DEF Replace, memory, CalmInv, SnapInv
  <2>2. CASE ReadFree(p)
    <3>1. Claiming(p) /\ call[p].op \in Ops /\ ~Writing(p)
      BY <1>0, <2>2 DEF ReadFree, Typed, Shape, Writing
    <3>2. /\ call'[p].kind = call[p].kind /\ call'[p].op = call[p].op /\ pc'[p] = "reread"
          /\ own'[p] = own[p] \cup {ClaimedSession(p)}
          /\ UNCHANGED <<ledger, rsv>>
      BY <1>0, <2>2 DEF ReadFree, Goto, disk, TypeOK, Call
    <3> QED BY <1>1, <1>2, <1>4, <3>1, <3>2 DEF CalmInv, OwnInv, Claiming, Writing, ClaimedSession
  <2>3. CASE Reread(p)
    BY <1>0, <1>1, <1>2, <1>4, <2>3 DEF Reread, Goto, disk, memory, TypeOK, CalmInv, OwnInv, Claiming,
       Writing, ClaimedSession
  <2>4. CASE NotPersisted(p)
    BY <1>0, <1>1, <1>2, <1>4, <2>4 DEF NotPersisted, disk, TypeOK, CalmInv, OwnInv, Claiming, Writing
  <2>5. CASE \/ Beat(p) \/ \E o \in Ops : Abandon(p, o)
             \/ \E t \in Sessions : CloseAndRelease(p, t)
    <3>1. ~Writing(p) /\ ~Clearing(p) /\ UNCHANGED ledger
      BY <1>0, <2>5 DEF Beat, Abandon, CloseAndRelease, Closable, Ready, Writing, Clearing, disk, Typed, Shape
    <3>2. own'[p] \subseteq own[p] \cup agents[p] \cup Pinned(p)
      BY <1>0, <2>5 DEF Beat, Abandon, CloseAndRelease, Publish, Pinned, TypeOK
    <3> QED BY <1>1, <1>2, <1>4, <3>1, <3>2 DEF CalmInv, OwnInv, HeldInv
  <2>6. CASE ~Replace(p) /\ ~ReadFree(p) /\ ~Reread(p) /\ ~NotPersisted(p) /\ ~Beat(p)
             /\ (\A o \in Ops : ~Abandon(p, o)) /\ \A t \in Sessions : ~CloseAndRelease(p, t)
    <3>1. ledger' = ledger /\ own'[p] \subseteq own[p]
      BY <1>0, <2>6, LedgerKept, OwnShrinks
    <3>2. ~Writing(p)
      <4>1. Writing(p) => ~Acquire(p)
        BY DEF Writing, Acquire, CreateLock, FirstOpenExists, SecondOpenExists, OpenFails,
           JudgeReclaimable, JudgeBusy, RemoveStale, RemoveFails, WriteToken, WriteTokenFails
      <4>2. Writing(p) => ~UnderLock(p)
        BY <2>6 DEF Writing, UnderLock, CheckHeld, CheckLost, ReadOccupied, ReadFails, ReleaseHeld,
           ReleaseLost, Unlink, UnlinkFails
      <4>3. Writing(p) => ~Caller(p)
        <5>1. Caller(p) => Ready(p)
          BY DEF Caller, Reserve, ReserveNew, Retry, Open, Settle, Abandon, CloseAgent,
             CloseAndRelease, Beat, Teardown, Closable
        <5> QED BY <5>1 DEF Writing, Ready
      <4>4. ~Crash(p)
        BY <1>0, <1>1, <1>4 DEF Crash, Forget, TypeOK
      <4> QED BY <4>1, <4>2, <4>3, <4>4 DEF Step
    <3> QED BY <1>1, <1>2, <1>4, <3>1, <3>2 DEF CalmInv, OwnInv
  <2> QED BY <2>1, <2>2, <2>3, <2>4, <2>5, <2>6
<1> QED BY <1>3, <1>4

(* A claim is answered "ok" by its rename only, and keeps that answer until *)
(* it has released the lock.                                                *)
LEMMA AnswerStep ==
    ASSUME CalmInv, NEW p \in Procs, Step(p)
    PROVE  AnswerInv'
<1>0. Typed /\ TypeOK
  BY DEF CalmInv, Typed
<1>1. SUFFICES ASSUME NEW q \in Procs, Claiming(q)', call'[q].ans = "ok"
               PROVE  /\ pc'[q] \in {"unlock", "unlink"}
                      /\ ClaimedSession(q)' \in ledger'[q] \cap own'[q]
  BY DEF AnswerInv
<1>2. CASE q # p
  <2>1. /\ SameMemory(q) /\ Claiming(q) /\ ClaimedSession(q)' = ClaimedSession(q)
    BY <1>0, <1>1, <1>2, Frame, ClaimKept
  <2>2. alive[q]
    BY <1>0, <2>1 DEF Claiming, Typed, Shape
  <2> QED BY <1>1, <1>2, <2>1, <2>2, RecordKept DEF SameMemory, CalmInv, AnswerInv
<1>3. CASE q = p
  <2>1. CASE Replace(p)
    <3>1. /\ pc'[p] = "unlock" /\ call'[p].kind = call[p].kind /\ call'[p].op = call[p].op
          /\ ledger' = snap[p] /\ UNCHANGED <<own, rsv>>
      BY <1>0, <2>1 DEF Replace, Conclude, memory, TypeOK, Call
    <3>2. Claiming(p) /\ Writing(p)
      BY <1>1, <1>3, <2>1, <3>1 DEF Claiming, Writing, Replace
    <3> QED BY <1>3, <2>1, <3>1, <3>2 DEF Replace, CalmInv, SnapInv, AddInv, ClaimedSession
  <2>2. CASE ReleaseHeld(p)
    BY <1>0, <1>1, <1>3, <2>2 DEF ReleaseHeld, Goto, disk, memory, TypeOK, CalmInv, AnswerInv, Claiming,
       ClaimedSession
  <2>3. CASE ~Replace(p) /\ ~ReleaseHeld(p)
    <3>1. NoCall.ans # "ok" /\ NoCall.kind # "claim"
      BY DEF NoCall
    <3>2. \A c : Begin(p, [NoCall EXCEPT !.kind = "claim", !.op = c]) => call'[p].ans # "ok"
      BY <1>0 DEF Begin, TypeOK, NoCall
    <3>3. \A req, keys : Publish(p, req, keys) => call'[p].kind # "claim"
      BY <1>0 DEF Publish, Begin, TypeOK, NoCall
    <3>4. Begin(p, [NoCall EXCEPT !.kind = "clear"]) => call'[p].kind # "claim"
      BY <1>0 DEF Begin, TypeOK, NoCall
    <3>5. \A a : Return(p, a) => call'[p].kind # "claim"
      BY <1>0, <3>1 DEF Return, TypeOK
    <3>6. \A a : Conclude(p, a) /\ a # "ok" => call'[p].ans # "ok"
      BY <1>0 DEF Conclude, TypeOK, Call
    <3>7. CASE Caller(p)
      <4>1. call' = call \/ call'[p].kind # "claim" \/ call'[p].ans # "ok"
        BY <3>2, <3>3, <3>4, <3>7 DEF Caller, Reserve, ReserveNew, Retry, Open, Settle, Abandon,
           CloseAgent, CloseAndRelease, Beat, Teardown
      <4>2. Ready(p)
        BY <3>7 DEF Caller, Reserve, ReserveNew, Retry, Open, Settle, Abandon, CloseAgent,
           CloseAndRelease, Beat, Teardown, Closable
      <4> QED BY <1>0, <1>1, <1>3, <4>1, <4>2 DEF Claiming, Ready, Typed, Shape
    <3>8. CASE Acquire(p)
      <4>1. CASE CreateLock(p) \/ FirstOpenExists(p) \/ JudgeReclaimable(p) \/ RemoveStale(p) \/ WriteToken(p)
        <5>1. call' = call /\ pc[p] \notin {"unlock", "unlink"}
          BY <4>1 DEF CreateLock, FirstOpenExists, JudgeReclaimable, RemoveStale, WriteToken
        <5> QED BY <1>1, <1>3, <5>1 DEF CalmInv, AnswerInv, Claiming
      <4>2. CASE SecondOpenExists(p) \/ OpenFails(p) \/ JudgeBusy(p) \/ RemoveFails(p) \/ WriteTokenFails(p)
        BY <1>1, <1>3, <3>5, <4>2 DEF SecondOpenExists, OpenFails, JudgeBusy, RemoveFails,
           WriteTokenFails, Claiming
      <4> QED BY <3>8, <4>1, <4>2 DEF Acquire
    <3>9. CASE UnderLock(p)
      <4>1. CASE CheckHeld(p) \/ Reread(p)
        <5>1. call' = call /\ pc[p] \notin {"unlock", "unlink"}
          BY <4>1 DEF CheckHeld, Reread
        <5> QED BY <1>1, <1>3, <5>1 DEF CalmInv, AnswerInv, Claiming
      <4>2. CASE ReadFree(p)
        <5>1. /\ call'[p].kind = call[p].kind /\ call'[p].ans = call[p].ans
              /\ pc[p] \notin {"unlock", "unlink"}
          BY <1>0, <4>2 DEF ReadFree, TypeOK, Call
        <5> QED BY <1>1, <1>3, <5>1 DEF CalmInv, AnswerInv, Claiming
      <4>3. CASE ReleaseLost(p) \/ Unlink(p) \/ UnlinkFails(p)
        BY <1>1, <1>3, <3>5, <4>3 DEF ReleaseLost, Unlink, UnlinkFails, Claiming
      <4>4. CASE CheckLost(p) \/ ReadOccupied(p) \/ ReadFails(p) \/ NotPersisted(p)
        BY <1>1, <1>3, <3>6, <4>4 DEF CheckLost, ReadOccupied, ReadFails, NotPersisted
      <4> QED BY <2>3, <3>9, <4>1, <4>2, <4>3, <4>4 DEF UnderLock
    <3>10. CASE Crash(p)
      BY <1>0, <1>1, <1>3, <3>1, <3>10 DEF Crash, TypeOK, Claiming
    <3> QED BY <3>7, <3>8, <3>9, <3>10 DEF Step
  <2> QED BY <2>1, <2>2, <2>3
<1> QED BY <1>2, <1>3

-----------------------------------------------------------------------------
(* The mount operations.                                                    *)

(* How a step of p may change operation o.                                  *)
Starts(p, o) ==
    /\ Ready(p) /\ Claiming(p)'
    /\ rsv[o] = Free
    /\ rsv'[o].st = "claiming" /\ rsv'[o].p = p /\ ~rsv'[o].pinned
    /\ rsv'[o].s \in minted' \ agents[p]
    /\ \A x \in Ops \ {o} : rsv'[x] = rsv[x]
Granted(p, o) == Claiming(p) /\ call[p].op = o /\ call[p].ans = "ok"
Moves(p, o) ==
    /\ rsv[o].p = p /\ rsv'[o].p = p /\ rsv'[o].s = rsv[o].s
    /\ \/ /\ rsv[o].st = "claiming" /\ rsv'[o].st = "held"
          /\ rsv'[o].pinned = rsv[o].pinned \/ (rsv'[o].pinned /\ Granted(p, o))
       \/ /\ rsv[o].st = "claiming" /\ rsv'[o].st = "waiting"
          /\ rsv'[o].pinned = rsv[o].pinned
       \/ /\ rsv[o].st = "waiting" /\ rsv'[o].st = "claiming"
          /\ rsv'[o].pinned = rsv[o].pinned
       \/ /\ rsv[o].st = "held" /\ rsv'[o].st = "opened"
          /\ rsv'[o].pinned = rsv[o].pinned
       \/ /\ rsv'[o].st = rsv[o].st
          /\ ~rsv'[o].pinned /\ Clearing(p) /\ Clearing(p)'
OpChange(p, o) == rsv'[o] = rsv[o] \/ rsv'[o] = Free \/ Starts(p, o) \/ Moves(p, o)

LEMMA ReturnOps ==
    ASSUME Typed, NEW p \in Procs, NEW a \in Answers, pc[p] # "idle", Return(p, a),
           a = "ok" => a = call[p].ans, NEW o \in Ops
    PROVE  OpChange(p, o)
<1> USE DEF Typed, TypeOK, OpChange
<1>1. CASE call[p].kind = "claim"
  <2>1. /\ call[p].op \in Ops /\ rsv[call[p].op].p = p /\ rsv[call[p].op].st = "claiming"
        /\ rsv[call[p].op] \in Reservation
    BY <1>1 DEF Shape, Claiming
  <2> DEFINE r == rsv[call[p].op]
             n == Answered(r, call[p], a)
  <2>2. \/ n = Free
        \/ /\ n.p = r.p /\ n.s = r.s
           /\ \/ n.st = "held" /\ (n.pinned = r.pinned \/ (n.pinned /\ a = "ok"))
              \/ n.st = "waiting" /\ n.pinned = r.pinned
    BY <2>1 DEF Answered, Reservation
  <2>3. rsv' = [rsv EXCEPT ![call[p].op] = n]
    BY <1>1 DEF Return
  <2>4. CASE o # call[p].op
    BY <2>1, <2>3, <2>4
  <2>5. CASE o = call[p].op
    <3>1. rsv'[o] = n
      BY <2>1, <2>3, <2>5
    <3> HIDE DEF n
    <3> QED BY <1>1, <2>1, <2>2, <2>5, <3>1 DEF Moves, Granted, Claiming
  <2> QED BY <2>4, <2>5
<1>2. CASE call[p].kind = "publish"
  BY <1>2 DEF Return, memory
<1>3. CASE call[p].kind = "clear"
  BY <1>3 DEF Return, Forget
<1> QED BY <1>1, <1>2, <1>3 DEF Return

LEMMA OpChanges ==
    ASSUME CalmInv, NEW p \in Procs, Step(p), NEW o \in Ops
    PROVE  OpChange(p, o)
<1>0. Typed /\ TypeOK
  BY DEF CalmInv, Typed
<1>1. CASE Acquire(p)
  <2>1. CASE CreateLock(p) \/ FirstOpenExists(p) \/ JudgeReclaimable(p) \/ RemoveStale(p) \/ WriteToken(p)
    BY <2>1 DEF CreateLock, FirstOpenExists, JudgeReclaimable, RemoveStale, WriteToken, memory, OpChange
  <2>2. CASE SecondOpenExists(p) \/ OpenFails(p) \/ JudgeBusy(p) \/ RemoveFails(p) \/ WriteTokenFails(p)
    BY <1>0, <2>2, ReturnOps DEF SecondOpenExists, OpenFails, JudgeBusy, RemoveFails,
       WriteTokenFails, Answers
  <2> QED BY <1>1, <2>1, <2>2 DEF Acquire
<1>2. CASE UnderLock(p)
  <2>1. CASE CheckHeld(p)
    <3>1. CASE call[p].kind = "clear" /\ rsv[o].p = p
      <4>1. rsv'[o] = [rsv[o] EXCEPT !.pinned = FALSE] /\ rsv[o] \in Reservation /\ call' = call
        BY <1>0, <2>1, <3>1 DEF CheckHeld, TypeOK
      <4>2. rsv'[o].st = rsv[o].st /\ rsv'[o].p = rsv[o].p /\ rsv'[o].s = rsv[o].s /\ ~rsv'[o].pinned
        BY <4>1 DEF Reservation
      <4> QED BY <3>1, <4>1, <4>2 DEF OpChange, Moves, Clearing
    <3>2. CASE ~(call[p].kind = "clear" /\ rsv[o].p = p)
      BY <1>0, <2>1, <3>2 DEF CheckHeld, TypeOK, OpChange
    <3> QED BY <3>1, <3>2
  <2>2. CASE ReleaseLost(p) \/ Unlink(p) \/ UnlinkFails(p)
    BY <1>0, <2>2, ReturnOps DEF ReleaseLost, Unlink, UnlinkFails, TypeOK, Call
  <2> QED BY <1>2, <2>1, <2>2 DEF UnderLock, CheckLost, ReadOccupied, ReadFree, ReadFails, Reread,
       Replace, NotPersisted, ReleaseHeld, memory, OpChange
<1>3. CASE Caller(p)
  <2>1. ASSUME NEW x \in Ops, NEW s \in Sessions, Reserve(p, x, s) \/ ReserveNew(p, x, s)
        PROVE  OpChange(p, o)
    <3>1. /\ Ready(p) /\ rsv[x] = Free
          /\ call' = [call EXCEPT ![p] = [NoCall EXCEPT !.kind = "claim", !.op = x]]
          /\ \/ s \in stored \ agents[p] /\ minted' = minted
             \/ s \notin minted /\ minted' = minted \cup {s}
      BY <2>1 DEF Reserve, ReserveNew, Begin, disk
    <3>2. Claiming(p)'
      BY <1>0, <3>1 DEF Claiming, TypeOK, NoCall
    <3>3. s \in minted' \ agents[p]
      BY <3>1 DEF CalmInv, MintInv
    <3>4. \E r : /\ r.st = "claiming" /\ r.p = p /\ r.s = s /\ r.pinned = FALSE
                 /\ rsv' = [rsv EXCEPT ![x] = r]
      BY <2>1 DEF Reserve, ReserveNew, Free
    <3> QED BY <1>0, <3>1, <3>2, <3>3, <3>4 DEF OpChange, Starts, TypeOK
  <2>2. ASSUME NEW x \in Ops, Retry(p, x) \/ Open(p, x)
        PROVE  OpChange(p, o)
    <3>1. \E st \in {"claiming", "opened"} :
            /\ rsv' = [rsv EXCEPT ![x].st = st]
            /\ rsv[x].p = p /\ rsv[x].st = (IF st = "claiming" THEN "waiting" ELSE "held")
      BY <2>2 DEF Retry, Open
    <3> QED BY <1>0, <3>1 DEF OpChange, Moves, TypeOK, Reservation
  <2>3. ASSUME NEW x \in Ops, Settle(p, x) \/ Abandon(p, x)
        PROVE  OpChange(p, o)
    BY <1>0, <2>3 DEF Settle, Abandon, OpChange, TypeOK
  <2>4. (\E s \in Sessions : CloseAgent(p, s) \/ CloseAndRelease(p, s)) \/ Beat(p) \/ Teardown(p)
           => OpChange(p, o)
    BY DEF CloseAgent, CloseAndRelease, Beat, Teardown, memory, OpChange
  <2> QED BY <1>3, <2>1, <2>2, <2>3, <2>4 DEF Caller
<1>4. CASE Crash(p)
  BY <1>4 DEF Crash, Forget, OpChange
<1> QED BY <1>1, <1>2, <1>3, <1>4 DEF Step

(* Only Open adds an agent.                                                 *)
LEMMA AgentsAdded ==
    ASSUME CalmInv, NEW p \in Procs, Step(p), NEW s \in agents'[p], s \notin agents[p]
    PROVE  \E o \in Ops : Open(p, o) /\ s = rsv[o].s
<1>0. TypeOK
  BY DEF CalmInv
<1>1. \A a : Return(p, a) => agents'[p] \subseteq agents[p]
  BY <1>0 DEF Return, Forget, memory, TypeOK
<1>2. Acquire(p) => agents'[p] \subseteq agents[p]
  BY <1>1 DEF Acquire, CreateLock, FirstOpenExists, SecondOpenExists, OpenFails, JudgeReclaimable,
     JudgeBusy, RemoveStale, RemoveFails, WriteToken, WriteTokenFails, memory
<1>3. UnderLock(p) => agents'[p] \subseteq agents[p]
  BY <1>1 DEF UnderLock, CheckHeld, CheckLost, ReadOccupied, ReadFree, ReadFails, Reread, Replace,
     NotPersisted, ReleaseHeld, ReleaseLost, Unlink, UnlinkFails, memory
<1>4. Crash(p) => agents'[p] \subseteq agents[p]
  BY <1>0 DEF Crash, Forget, TypeOK
<1>5. CASE Caller(p)
  <2>1. ASSUME NEW o \in Ops, Abandon(p, o)
        PROVE  agents'[p] \subseteq agents[p]
    BY <1>0, <2>1 DEF Abandon, TypeOK
  <2>2. ASSUME NEW t \in Sessions, CloseAgent(p, t) \/ CloseAndRelease(p, t)
        PROVE  agents'[p] \subseteq agents[p]
    BY <1>0, <2>2 DEF CloseAgent, CloseAndRelease, TypeOK
  <2>3. ASSUME NEW o \in Ops, Open(p, o)
        PROVE  s = rsv[o].s
    BY <1>0, <2>3 DEF Open, TypeOK
  <2> QED BY <1>5, <2>1, <2>2, <2>3 DEF Caller, Reserve, ReserveNew, Retry, Settle, Beat, Teardown, memory
<1> QED BY <1>2, <1>3, <1>4, <1>5 DEF Step

(* A process that clears its record goes on clearing it until it ends.      *)
LEMMA ClearingKept ==
    ASSUME Typed, NEW p \in Procs, Step(p), Clearing(p), alive'[p]
    PROVE  Clearing(p)' /\ ~Caller(p) /\ agents'[p] = agents[p]
<1>0. TypeOK
  BY DEF Typed
<1>1. ~Caller(p)
  <2>1. Caller(p) => Ready(p)
    BY DEF Caller, Reserve, ReserveNew, Retry, Open, Settle, Abandon, CloseAgent,
       CloseAndRelease, Beat, Teardown, Closable
  <2> QED BY <2>1 DEF Ready, Clearing, Typed, Shape
<1>2. \A a : ~Return(p, a)
  BY <1>0 DEF Return, Forget, Clearing, TypeOK
<1>3. ~Crash(p)
  BY <1>0 DEF Crash, Forget, TypeOK
<1>4. Acquire(p) => call' = call /\ agents' = agents
  BY <1>2 DEF Acquire, CreateLock, FirstOpenExists, SecondOpenExists, OpenFails, JudgeReclaimable,
     JudgeBusy, RemoveStale, RemoveFails, WriteToken, WriteTokenFails, memory
<1>5. UnderLock(p) => call'[p].kind = call[p].kind /\ agents' = agents
  BY <1>0, <1>2 DEF UnderLock, CheckHeld, CheckLost, ReadOccupied, ReadFree, ReadFails, Reread, Replace,
     NotPersisted, ReleaseHeld, ReleaseLost, Unlink, UnlinkFails, memory, Conclude, TypeOK, Call
<1> QED BY <1>1, <1>3, <1>4, <1>5 DEF Step, Clearing

LEMMA MintedKept ==
    ASSUME CalmInv, NEW p \in Procs, Step(p)
    PROVE  /\ minted \subseteq minted'
           /\ stored' \subseteq stored \cup {rsv[o].s : o \in {x \in Ops : rsv[x].st = "held"}}
<1>1. Acquire(p) => minted' = minted /\ stored' = stored
  BY DEF Acquire, CreateLock, FirstOpenExists, SecondOpenExists, OpenFails, JudgeReclaimable,
     JudgeBusy, RemoveStale, RemoveFails, WriteToken, WriteTokenFails, disk
<1>2. UnderLock(p) => minted' = minted /\ stored' = stored
  BY DEF UnderLock, CheckHeld, CheckLost, ReadOccupied, ReadFree, ReadFails, Reread, Replace,
     NotPersisted, ReleaseHeld, ReleaseLost, Unlink, UnlinkFails, disk
<1>3. Caller(p) \/ Crash(p) => minted \subseteq minted'
  BY DEF Caller, Crash, Reserve, ReserveNew, Retry, Open, Settle, Abandon, CloseAgent,
     CloseAndRelease, Beat, Teardown, disk
<1>4. Caller(p) \/ Crash(p) => \/ stored' = stored
                              \/ \E o \in Ops : rsv[o].st = "held" /\ stored' = stored \cup {rsv[o].s}
  BY DEF Caller, Crash, Reserve, ReserveNew, Retry, Open, Settle, Abandon, CloseAgent,
     CloseAndRelease, Beat, Teardown, disk
<1> QED BY <1>1, <1>2, <1>3, <1>4 DEF Step

LEMMA MintStep ==
    ASSUME CalmInv, NEW p \in Procs, Step(p)
    PROVE  MintInv'
<1>0. Typed /\ TypeOK /\ MintInv
  BY DEF CalmInv, Typed
<1>1. stored' \subseteq minted'
  BY <1>0, MintedKept DEF MintInv
<1>2. ASSUME NEW q \in Procs
      PROVE  agents'[q] \subseteq minted'
  <2>1. CASE q = p
    <3>1. ASSUME NEW s \in agents'[p], s \notin agents[p]
          PROVE  s \in minted
      BY <1>0, <3>1, AgentsAdded DEF Open, MintInv
    <3> QED BY <1>0, <2>1, <3>1, MintedKept DEF MintInv
  <2>2. CASE q # p
    BY <1>0, <2>2, Frame, MintedKept DEF SameMemory, MintInv
  <2> QED BY <2>1, <2>2
<1>3. ASSUME NEW o \in Ops, rsv'[o].st # "idle"
      PROVE  rsv'[o].s \in minted'
  <2>1. OpChange(p, o) /\ rsv'[o] # Free
    BY <1>3, OpChanges DEF Free
  <2>2. CASE Starts(p, o)
    BY <2>2 DEF Starts
  <2>3. CASE rsv'[o] = rsv[o]
    BY <1>0, <1>3, <2>3, MintedKept DEF MintInv
  <2>4. CASE Moves(p, o)
    <3>1. rsv[o].st # "idle"
      BY <1>3, <2>4 DEF Moves
    <3> QED BY <1>0, <2>4, <3>1, MintedKept DEF MintInv, Moves
  <2> QED BY <2>1, <2>2, <2>3, <2>4 DEF OpChange
<1> QED BY <1>1, <1>2, <1>3 DEF MintInv

LEMMA OneOpStep ==
    ASSUME CalmInv, NEW p \in Procs, Step(p), OneOperationPerSession
    PROVE  OneOpInv'
<1>1. SUFFICES ASSUME NEW o \in Ops, NEW x \in Ops, o # x, rsv'[o].st # "idle", rsv'[x].st # "idle"
               PROVE  rsv'[o].p # rsv'[x].p \/ rsv'[o].s # rsv'[x].s
  BY DEF OneOpInv
<1>2. ASSUME NEW y \in Ops, rsv'[y].st # "idle", ~Starts(p, y)
      PROVE  rsv[y].st # "idle" /\ rsv'[y].p = rsv[y].p /\ rsv'[y].s = rsv[y].s
  BY <1>2, OpChanges DEF OpChange, Moves, Free
<1>3. ASSUME NEW y \in Ops, NEW z \in Ops, y # z, Starts(p, y), rsv'[z].st # "idle"
      PROVE  rsv'[y].p # rsv'[z].p \/ rsv'[y].s # rsv'[z].s
  <2>1. rsv'[z] = rsv[z] /\ rsv[y].st = "idle" /\ rsv'[y].st = "claiming"
    BY <1>3 DEF Starts, Free
  <2> QED BY <1>3, <2>1 DEF OneOperationPerSession
<1> QED BY <1>1, <1>2, <1>3 DEF CalmInv, OneOpInv

LEMMA OpStep ==
    ASSUME CalmInv, NEW p \in Procs, Step(p), AnnouncementsSucceed
    PROVE  OpInv'
<1>0. Typed /\ TypeOK /\ Typed'
  BY TypedStep DEF CalmInv, Typed, Step, Next
<1>1. SUFFICES ASSUME NEW o \in Ops
               PROVE  /\ rsv'[o].st \in {"claiming", "waiting", "held"} => rsv'[o].s \notin agents'[rsv'[o].p]
                      /\ rsv'[o].st \in {"held", "opened"} => rsv'[o].pinned \/ call'[rsv'[o].p].kind = "clear"
                      /\ rsv'[o].st \in {"idle", "claiming", "waiting"} => ~rsv'[o].pinned
  BY DEF OpInv, Clearing
<1>2. OpChange(p, o) /\ OpInv
  BY OpChanges DEF CalmInv
<1>3. CASE rsv'[o] = Free
  BY <1>3 DEF Free
<1>4. CASE rsv'[o] # Free
  <2>1. rsv'[o].st # "idle" /\ rsv'[o].p \in Procs /\ alive'[rsv'[o].p]
    BY <1>0, <1>4 DEF Typed, Shape
  <2>2. CASE Starts(p, o)
    <3>1. agents'[p] = agents[p]
      <4>1. SUFFICES /\ Caller(p)
                    /\ \A x \in Ops : ~Open(p, x) /\ ~Abandon(p, x)
                    /\ \A s \in Sessions : ~CloseAgent(p, s) /\ ~CloseAndRelease(p, s)
        BY DEF Caller, Reserve, ReserveNew, Retry, Settle, Beat, Teardown, memory
      <4>2. pc[p] = "idle" /\ call'[p].kind = "claim" /\ alive[p] /\ call[p].kind = "none"
        BY <1>0, <2>2 DEF Starts, Claiming, Ready, Typed, Shape
      <4>3. Caller(p)
        <5>1. ~Acquire(p) /\ ~UnderLock(p)
          BY <4>2 DEF Acquire, CreateLock, FirstOpenExists, SecondOpenExists, OpenFails, JudgeReclaimable,
             JudgeBusy, RemoveStale, RemoveFails, WriteToken, WriteTokenFails, UnderLock, CheckHeld,
             CheckLost, ReadOccupied, ReadFree, ReadFails, Reread, Replace, NotPersisted, ReleaseHeld,
             ReleaseLost, Unlink, UnlinkFails
        <5>2. ~Crash(p)
          BY <1>0, <4>2 DEF Crash, TypeOK, NoCall
        <5> QED BY <5>1, <5>2 DEF Step
      <4>4. \A req, keys : ~Publish(p, req, keys)
        BY <1>0, <4>2 DEF Publish, Begin, TypeOK, NoCall
      <4> QED BY <4>2, <4>3, <4>4 DEF Open, Abandon, CloseAgent, CloseAndRelease
    <3> QED BY <2>2, <3>1 DEF Starts
  <2>3. CASE rsv'[o] = rsv[o] \/ Moves(p, o)
    <3>1. /\ rsv'[o].p = rsv[o].p /\ rsv'[o].s = rsv[o].s /\ rsv[o].st # "idle"
      BY <2>1, <2>3 DEF Moves
    <3>2. rsv'[o].st \in {"claiming", "waiting", "held"} => rsv'[o].s \notin agents'[rsv'[o].p]
      <4>1. SUFFICES ASSUME rsv'[o].st \in {"claiming", "waiting", "held"},
                            rsv[o].s \in agents'[rsv[o].p]
                     PROVE  FALSE
        BY <3>1
      <4>2. rsv[o].st \in {"claiming", "waiting", "held"}
        BY <2>3, <4>1 DEF Moves
      <4>3. rsv[o].s \notin agents[rsv[o].p]
        BY <1>2, <4>2 DEF OpInv
      <4>4. rsv[o].p = p
        BY <1>0, <2>1, <3>1, <4>1, <4>3, Frame DEF SameMemory
      <4>5. PICK x \in Ops : Open(p, x) /\ rsv[o].s = rsv[x].s
        BY <4>1, <4>3, <4>4, AgentsAdded
      <4>6. x = o
        BY <3>1, <4>4, <4>5 DEF Open, CalmInv, OneOpInv
      <4>7. rsv'[o].st = "opened"
        BY <1>0, <4>5, <4>6 DEF Open, TypeOK, Reservation
      <4> QED BY <4>1, <4>7
    <3>3. rsv'[o].st \in {"held", "opened"} => rsv'[o].pinned \/ call'[rsv'[o].p].kind = "clear"
      <4>1. SUFFICES ASSUME rsv'[o].st \in {"held", "opened"}, ~rsv'[o].pinned
                     PROVE  call'[rsv[o].p].kind = "clear"
        BY <3>1
      <4>2. Clearing(rsv[o].p) \/ call'[rsv[o].p].kind = "clear"
        BY <1>2, <2>3, <3>1, <4>1 DEF Moves, OpInv, AnnouncementsSucceed, Clearing
      <4>3. CASE rsv[o].p = p
        BY <1>0, <2>1, <3>1, <4>2, <4>3, ClearingKept DEF Clearing
      <4>4. CASE rsv[o].p # p
        BY <1>0, <2>1, <3>1, <4>2, <4>4, Frame DEF SameMemory, Clearing
      <4> QED BY <4>3, <4>4
    <3>4. rsv'[o].st \in {"idle", "claiming", "waiting"} => ~rsv'[o].pinned
      BY <1>2, <2>3 DEF Moves, OpInv
    <3> QED BY <3>2, <3>3, <3>4
  <2> QED BY <1>2, <1>4, <2>2, <2>3, <2>1 DEF OpChange, Starts
<1> QED BY <1>3, <1>4

LEMMA HeldStep ==
    ASSUME CalmInv, NEW p \in Procs, Step(p), AnnouncementsSucceed, OwnInv'
    PROVE  HeldInv'
<1>0. Typed /\ TypeOK /\ HeldInv /\ OpInv
  BY DEF CalmInv, Typed
<1>1. SUFFICES ASSUME NEW q \in Procs, alive'[q], ~Clearing(q)'
               PROVE  /\ agents'[q] \subseteq ledger'[q] \cap own'[q]
                      /\ Pinned(q)' \subseteq ledger'[q] \cap own'[q]
  BY DEF HeldInv
<1>2. alive[q]
  BY <1>1, AliveShrinks
<1>3. CASE q # p
  BY <1>0, <1>1, <1>2, <1>3, Frame, ClaimKept, RecordKept DEF SameMemory, HeldInv
<1>4. CASE q = p
  <2>0. alive[p] /\ ~Clearing(p)
    BY <1>0, <1>1, <1>2, <1>4, ClearingKept
  <2>1. agents[p] \subseteq ledger[p] \cap own[p] /\ Pinned(p) \subseteq ledger[p] \cap own[p]
    BY <1>0, <2>0 DEF HeldInv
  (* What p drives afterwards, its record had before.                       *)
  <2>2. agents'[p] \subseteq ledger[p] \cap own[p]
    <3>1. ASSUME NEW s \in agents'[p], s \notin agents[p]
          PROVE  s \in Pinned(p)
      <4>1. PICK o \in Ops : Open(p, o) /\ s = rsv[o].s
        BY <3>1, AgentsAdded
      <4>2. rsv[o].p = p /\ rsv[o].st = "held" /\ rsv[o].s \in Sessions
        BY <1>0, <4>1 DEF Open, Typed, Shape, Free
      <4> QED BY <1>0, <2>0, <4>1, <4>2 DEF OpInv, Pinned
    <3> QED BY <2>1, <3>1
  <2>3. Pinned(p)' \subseteq ledger[p] \cap own[p]
    <3>1. SUFFICES ASSUME NEW o \in Ops, rsv'[o].p = p, rsv'[o].pinned, rsv'[o].s \in Sessions
                   PROVE  rsv'[o].s \in ledger[p] \cap own[p]
      BY DEF Pinned
    <3>2. OpChange(p, o) /\ rsv'[o] # Free /\ ~Starts(p, o)
      BY <3>1, OpChanges DEF Free, Starts
    <3>3. CASE rsv[o].pinned /\ rsv[o].p = p /\ rsv'[o].s = rsv[o].s
      BY <2>1, <3>1, <3>3 DEF Pinned
    <3>4. CASE Granted(p, o) /\ rsv'[o].s = rsv[o].s
      BY <3>4 DEF Granted, ClaimedSession, CalmInv, AnswerInv
    <3> QED BY <3>1, <3>2, <3>3, <3>4 DEF OpChange, Moves
  <2>4. CASE Replace(p)
    <3>1. ledger'[p] = own[p] /\ own' = own
      BY <2>4 DEF Replace, memory, CalmInv, SnapInv
    <3> QED BY <1>4, <2>2, <2>3, <3>1
  <2>5. CASE ~Replace(p)
    <3>1. ledger' = ledger
      BY <2>5, LedgerKept
    <3>2. SUFFICES agents'[p] \subseteq own'[p] /\ Pinned(p)' \subseteq own'[p]
      BY <1>4, <2>2, <2>3, <3>1
    <3>3. CASE own[p] \subseteq own'[p]
      BY <2>2, <2>3, <3>3
    <3>4. CASE NotPersisted(p)
      <4>1. /\ agents' = agents /\ Pinned(p)' = Pinned(p)
            /\ own'[p] = (IF Claiming(p) THEN own[p] \ {ClaimedSession(p)} ELSE own[p])
        BY <1>0, <3>4 DEF NotPersisted, Pinned, Claiming, TypeOK
      <4>2. ASSUME Claiming(p)
            PROVE  ClaimedSession(p) \notin agents[p] /\ ClaimedSession(p) \notin Pinned(p)
        <5>1. call[p].op \in Ops /\ rsv[call[p].op].p = p /\ rsv[call[p].op].st = "claiming"
          BY <1>0, <4>2 DEF Typed, Shape
        <5>2. ClaimedSession(p) \notin agents[p] /\ ~rsv[call[p].op].pinned
          BY <1>0, <5>1 DEF OpInv, ClaimedSession
        <5>3. ASSUME NEW x \in Ops, rsv[x].p = p, rsv[x].pinned
              PROVE  rsv[x].s # ClaimedSession(p)
          <6>1. x # call[p].op /\ rsv[x].st # "idle"
            BY <1>0, <5>2, <5>3 DEF OpInv
          <6> QED BY <5>1, <5>3, <6>1 DEF CalmInv, OneOpInv, ClaimedSession
        <5> QED BY <5>2, <5>3 DEF Pinned
      <4> QED BY <2>1, <4>1, <4>2
    <3>5. CASE Beat(p)
      <4>1. own'[p] = agents[p] \cup Pinned(p) /\ agents' = agents /\ Pinned(p)' = Pinned(p)
        BY <1>0, <3>5 DEF Beat, Publish, TypeOK, Pinned
      <4> QED BY <4>1
    <3>6. ASSUME NEW s \in Sessions, CloseAndRelease(p, s)
          PROVE  agents'[p] \subseteq own'[p] /\ Pinned(p)' \subseteq own'[p]
      <4>1. /\ own'[p] = (own[p] \ {s}) \cup Pinned(p) /\ agents'[p] = agents[p] \ {s}
            /\ Pinned(p)' = Pinned(p)
        BY <1>0, <3>6 DEF CloseAndRelease, Publish, TypeOK, Pinned
      <4> QED BY <2>1, <4>1
    <3>7. ASSUME NEW o \in Ops, Abandon(p, o)
          PROVE  agents'[p] \subseteq own'[p] /\ Pinned(p)' \subseteq own'[p]
      <4> DEFINE keys == {t \in Sessions : \E x \in Ops \ {o} : rsv[x].p = p /\ rsv[x].pinned /\ rsv[x].s = t}
      <4>1. /\ rsv[o].p = p /\ rsv[o].st \in {"held", "opened"}
            /\ rsv' = [rsv EXCEPT ![o] = Free]
            /\ agents' = IF rsv[o].st = "opened" THEN [agents EXCEPT ![p] = @ \ {rsv[o].s}] ELSE agents
            /\ own' = own \/ Publish(p, own[p] \ {rsv[o].s}, keys)
        BY <3>7 DEF Abandon
      <4>2. CASE own' = own
        BY <3>3, <4>2
      <4>3. CASE Publish(p, own[p] \ {rsv[o].s}, keys)
        <5>1. own'[p] = (own[p] \ {rsv[o].s}) \cup keys
          BY <1>0, <4>3 DEF Publish, TypeOK
        <5>2. Pinned(p)' \subseteq keys
          BY <1>0, <4>1 DEF Pinned, Free, TypeOK
        <5>3. agents'[p] \subseteq agents[p] \ {rsv[o].s}
          BY <1>0, <4>1 DEF TypeOK, OpInv
        <5> QED BY <2>1, <5>1, <5>2, <5>3
      <4> QED BY <4>1, <4>2, <4>3
    <3>8. CASE /\ ~NotPersisted(p) /\ ~Beat(p) /\ (\A s \in Sessions : ~CloseAndRelease(p, s))
               /\ \A o \in Ops : ~Abandon(p, o)
      <4>1. ASSUME NEW a, Return(p, a)
            PROVE  own' = own
        BY <1>0, <1>1, <1>4, <2>0, <4>1 DEF Return, Forget, memory, Clearing, TypeOK
      <4>2. CASE Acquire(p)
        BY <3>3, <4>1, <4>2 DEF Acquire, CreateLock, FirstOpenExists, SecondOpenExists, OpenFails,
           JudgeReclaimable, JudgeBusy, RemoveStale, RemoveFails, WriteToken, WriteTokenFails, memory
      <4>3. CASE UnderLock(p)
        <5>1. ReadFree(p) => own[p] \subseteq own'[p]
          BY <1>0 DEF ReadFree, TypeOK
        <5>2. CheckHeld(p) => own' = own
          BY <2>0 DEF CheckHeld, Clearing
        <5> QED BY <3>3, <3>8, <4>1, <4>3, <5>1, <5>2 DEF UnderLock, CheckLost, ReadOccupied, ReadFails,
             Reread, Replace, ReleaseHeld, ReleaseLost, Unlink, UnlinkFails, memory
      <4>4. CASE Caller(p)
        BY <3>3, <3>8, <4>4 DEF Caller, Reserve, ReserveNew, Retry, Open, Settle, CloseAgent, Teardown, memory
      <4>5. ~Crash(p)
        BY <1>0, <1>1, <1>4 DEF Crash, Forget, TypeOK
      <4> QED BY <4>2, <4>3, <4>4, <4>5 DEF Step
    <3> QED BY <3>4, <3>5, <3>6, <3>7, <3>8
  <2> QED BY <2>4, <2>5
<1> QED BY <1>3, <1>4

(* The rename that enters a claim enters a session no other running process *)
(* is recorded for.                                                         *)
LEMMA ExclusiveStep ==
    ASSUME CalmInv, NEW p \in Procs, Step(p)
    PROVE  LedgerExclusive'
<1>1. CASE Replace(p)
  <2>1. ledger'[p] = own[p] /\ Writing(p) /\ alive[p] /\ alive' = alive
    BY <1>1 DEF Replace, Writing, CalmInv, SnapInv, Shape
  <2>2. ASSUME NEW q \in Procs \ {p}, alive[q]
        PROVE  own[p] \cap ledger[q] = {} /\ ledger'[q] = ledger[q]
    <3>1. ledger'[q] = ledger[q]
      BY <2>2, RecordKept
    <3>2. \A s \in own[p] : s \in ledger[p] \/ (Claiming(p) /\ s = ClaimedSession(p))
      BY <2>1 DEF CalmInv, OwnInv
    <3>3. Claiming(p) => ClaimedSession(p) \notin ledger[q]
      BY <2>1, <2>2 DEF CalmInv, AddInv, Holders
    <3>4. ledger[p] \cap ledger[q] = {}
      BY <2>1, <2>2 DEF CalmInv, LedgerExclusive
    <3> QED BY <3>1, <3>2, <3>3, <3>4
  <2> QED BY <2>1, <2>2 DEF LedgerExclusive, CalmInv
<1>2. CASE ~Replace(p)
  BY <1>2, LedgerKept, AliveShrinks DEF LedgerExclusive, CalmInv
<1> QED BY <1>1, <1>2

LEMMA CalmInit == Init => CalmInv
<1> SUFFICES ASSUME Init PROVE CalmInv
  OBVIOUS
<1>1. TypeOK /\ Shape
  BY TypedInit DEF Typed
<1>2. /\ LockInv /\ SnapInv /\ OwnInv /\ AddInv /\ ClearInv /\ LedgerExclusive
  BY DEF Init, LockInv, SnapInv, OwnInv, AddInv, ClearInv, Writing, LedgerExclusive
<1>3. AnswerInv /\ OpInv /\ OneOpInv /\ MintInv
  BY DEF Init, AnswerInv, OpInv, OneOpInv, MintInv, Claiming, NoCall, Free
<1>4. HeldInv
  BY DEF Init, HeldInv, Pinned, Free
<1> QED BY <1>1, <1>2, <1>3, <1>4 DEF CalmInv

(* A step of the clock touches nothing but the age of the lock.             *)
LEMMA CalmStutter ==
    ASSUME CalmInv, TypeOK', Shape',
           UNCHANGED <<alive, ledger, stored, minted, memory, pc, call, snap>>,
           lock'.by = lock.by, lock'.token = lock.token
    PROVE  CalmInv'
<1> USE DEF memory, CalmInv
<1>1. LockInv' /\ SnapInv' /\ ClearInv' /\ LedgerExclusive'
  BY DEF LockInv, LockIsHeld, SnapInv, ClearInv, LedgerExclusive, Clearing, Writing
<1>2. OwnInv' /\ AddInv' /\ AnswerInv'
  BY DEF OwnInv, AddInv, AnswerInv, Claiming, Writing, ClaimedSession, Holders
<1>3. HeldInv' /\ OpInv' /\ OneOpInv' /\ MintInv'
  BY DEF HeldInv, OpInv, OneOpInv, MintInv, Clearing, Pinned
<1> QED BY <1>1, <1>2, <1>3

LEMMA CalmStep == CalmInv /\ [CalmNext]_vars => CalmInv'
<1> SUFFICES ASSUME CalmInv, [CalmNext]_vars PROVE CalmInv'
  OBVIOUS
<1>0. TypeOK' /\ Shape'
  BY TypedStep DEF CalmInv, Typed, CalmNext
<1>1. CASE UNCHANGED vars
  BY <1>0, <1>1, CalmStutter DEF vars, disk
<1>2. CASE LockAges
  BY <1>0, <1>2, CalmStutter DEF LockAges, CalmInv, TypeOK, Lock
<1>3. ASSUME NEW p \in Procs, Step(p), CalmReclaim, OneOperationPerSession, AnnouncementsSucceed
      PROVE  CalmInv'
  BY <1>0, <1>3, MintStep, LockStep, SnapStep, OwnStep, AddStep, AnswerStep, HeldStep, OpStep, OneOpStep,
     ExclusiveStep DEF CalmInv
<1> QED BY <1>1, <1>2, <1>3 DEF CalmNext, Next, Step

-----------------------------------------------------------------------------
(* Theorems about CalmSpec.                                                 *)

(* The invariant the others follow from.                                    *)
THEOREM CalmInvariant == CalmSpec => []CalmInv
BY CalmInit, CalmStep, PTL DEF CalmSpec

(* A process that rebuilds or replaces the ledger holds the lock.           *)
THEOREM WriterLocked == CalmSpec => []WriterHoldsLock
<1>1. CalmInv => WriterHoldsLock
  BY DEF CalmInv, LockInv, WriterHoldsLock
<1> QED BY <1>1, CalmInvariant, PTL

(* No session is recorded for two running processes.                        *)
THEOREM ExclusiveLedger == CalmSpec => []LedgerExclusive
<1>1. CalmInv => LedgerExclusive
  BY DEF CalmInv
<1> QED BY <1>1, CalmInvariant, PTL

LEMMA DrivenRecorded == CalmInv => DrivenIsPublished
BY DEF CalmInv, HeldInv, DrivenIsPublished, Driven, Clearing

(* What a running process drives, or is opening, is in its record.          *)
THEOREM DrivenPublished == CalmSpec => []DrivenIsPublished
BY DrivenRecorded, CalmInvariant, PTL

(* No two running processes drive one session log.                          *)
THEOREM SingleWriter == CalmSpec => []NoTwoWriters
<1>1. CalmInv => NoTwoWriters
  <2>1. SUFFICES ASSUME CalmInv, NEW p \in Procs, NEW q \in Procs, p # q, alive[p], alive[q]
                 PROVE  Driven(p) \cap Driven(q) = {}
    BY DEF NoTwoWriters
  <2>2. Driven(p) \subseteq ledger[p] /\ Driven(q) \subseteq ledger[q]
    BY <2>1, DrivenRecorded DEF DrivenIsPublished
  <2> QED BY <2>1, <2>2 DEF CalmInv, LedgerExclusive
<1> QED BY <1>1, CalmInvariant, PTL

(* While a process runs, nobody else changes its record.                    *)
THEOREM OwnRecord == CalmSpec => OnlyOwnRecordChanges
<1> DEFINE Own == \A p \in Procs : alive[p] /\ ledger'[p] # ledger[p] => pc[p] = "replace"
<1>1. CalmInv /\ [CalmNext]_vars => [Own]_vars
  <2>1. SUFFICES ASSUME CalmInv, CalmNext, NEW p \in Procs, alive[p], ledger'[p] # ledger[p]
                 PROVE  pc[p] = "replace"
    OBVIOUS
  <2>2. ~LockAges
    BY <2>1 DEF LockAges
  <2>3. PICK q \in Procs : Step(q)
    BY <2>1, <2>2 DEF CalmNext, Next, Step
  <2>4. q = p
    BY <2>1, <2>3, RecordKept
  <2>5. Replace(p)
    BY <2>1, <2>3, <2>4, LedgerKept
  <2> QED BY <2>5 DEF Replace
<1> QED BY <1>1, CalmInvariant, PTL DEF CalmSpec, OnlyOwnRecordChanges

(* A process ends in one step, by its teardown or by a crash.               *)
LEMMA AliveChanges ==
    ASSUME Typed, NEW p \in Procs, Step(p)
    PROVE  alive' = alive \/ (alive[p] /\ alive' = [alive EXCEPT ![p] = FALSE] /\ ~Replace(p))
<1>1. pc[p] # "idle" => alive[p]
  BY DEF Typed, Shape
<1>2. \A a : Return(p, a) => alive' = alive \/ alive' = [alive EXCEPT ![p] = FALSE]
  BY DEF Return, Forget, memory
<1> DEFINE Ends == alive[p] /\ alive' = [alive EXCEPT ![p] = FALSE] /\ pc[p] # "replace"
<1>3. Acquire(p) => alive' = alive \/ Ends
  BY <1>1, <1>2 DEF Acquire, CreateLock, FirstOpenExists, SecondOpenExists, OpenFails, JudgeReclaimable,
     JudgeBusy, RemoveStale, RemoveFails, WriteToken, WriteTokenFails
<1>4. UnderLock(p) => alive' = alive \/ Ends
  BY <1>1, <1>2 DEF UnderLock, CheckHeld, CheckLost, ReadOccupied, ReadFree, ReadFails, Reread, Replace,
     NotPersisted, ReleaseHeld, ReleaseLost, Unlink, UnlinkFails
<1>5. Caller(p) => alive' = alive
  BY DEF Caller, Reserve, ReserveNew, Retry, Open, Settle, Abandon, CloseAgent, CloseAndRelease, Beat, Teardown
<1>6. CASE Crash(p)
  <2>1. alive[p] /\ alive' = [alive EXCEPT ![p] = FALSE]
    BY <1>6 DEF Crash, Forget
  <2>2. ~Replace(p)
    BY <2>1 DEF Replace, Typed, TypeOK
  <2> QED BY <2>1, <2>2
<1> QED BY <1>3, <1>4, <1>5, <1>6 DEF Step, Replace

(* The protocol of locks and files implements the table of MountLedger: a   *)
(* rename is a claim or a publication, and nothing else is seen of it.      *)
THEOREM Refinement == CalmSpec => ImplementsTable
<1>1. Init => Table!Init
  BY DEF Init, Table!Init
<1>2. CalmInv /\ [CalmNext]_vars => [Table!Next]_(Table!vars)
  <2>1. SUFFICES ASSUME CalmInv, CalmNext, ~(UNCHANGED <<alive, ledger>>)
                 PROVE  Table!Next
    BY DEF Table!vars, vars, disk
  <2>2. PICK p \in Procs : Step(p)
    BY <2>1 DEF CalmNext, Next, Step, LockAges
  <2>3. CASE Replace(p)
    <3>1. /\ ledger' = snap[p] /\ snap[p] \in [Procs -> SUBSET Sessions] /\ UNCHANGED alive
          /\ snap[p][p] = own[p] /\ Writing(p) /\ alive[p]
      BY <2>1, <2>3 DEF Replace, CalmInv, SnapInv, TypeOK, Writing, Shape
    <3>2. \A q \in Procs \ {p} : ledger'[q] = ledger[q] \/ (~alive[q] /\ ledger'[q] = {})
      BY <2>1, <2>2, RecordKept
    <3>3. Table!Rewrite(p, own[p])
      BY <3>1, <3>2 DEF Table!Rewrite
    <3>4. CASE Claiming(p)
      <4>1. own[p] \ {ClaimedSession(p)} \in SUBSET ledger[p]
        BY <2>1, <3>1, <3>4 DEF CalmInv, OwnInv
      <4>2. ClaimedSession(p) \in own[p] /\ Holders(p, ClaimedSession(p)) = {}
        BY <2>1, <3>1, <3>4 DEF CalmInv, AddInv
      <4>3. ClaimedSession(p) \in Sessions
        BY <2>1, <4>2 DEF CalmInv, TypeOK
      <4>4. (own[p] \ {ClaimedSession(p)}) \cup {ClaimedSession(p)} = own[p]
        BY <4>2
      <4>5. Table!FreeFor(p, ClaimedSession(p))
        BY <4>2 DEF Table!FreeFor, Holders
      <4>6. Table!Take(p, ClaimedSession(p))
        BY <3>3, <4>1, <4>4, <4>5 DEF Table!Take
      <4> QED BY <4>3, <4>6 DEF Table!Next
    <3>5. CASE ~Claiming(p)
      <4>1. own[p] \in SUBSET ledger[p]
        BY <2>1, <3>1, <3>5 DEF CalmInv, OwnInv
      <4>2. Table!Give(p)
        BY <3>3, <4>1 DEF Table!Give
      <4> QED BY <4>2 DEF Table!Next
    <3> QED BY <3>4, <3>5
  <2>4. CASE ~Replace(p)
    <3>1. ledger' = ledger
      BY <2>2, <2>4, LedgerKept
    <3>2. alive[p] /\ alive' = [alive EXCEPT ![p] = FALSE]
      BY <2>1, <2>2, <3>1, AliveChanges DEF CalmInv, Typed
    <3>3. Table!Die(p)
      BY <3>1, <3>2 DEF Table!Die
    <3> QED BY <3>3 DEF Table!Next
  <2> QED BY <2>3, <2>4
<1> QED BY <1>1, <1>2, CalmInvariant, PTL DEF CalmSpec, ImplementsTable, Table!Spec
=============================================================================
