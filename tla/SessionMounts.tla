---------------------------- MODULE SessionMounts ----------------------------
(***************************************************************************)
(* The cross-process session mount ledger of src/sessionMounts.ts, at the  *)
(* granularity of the file-system calls it makes, with the heartbeat of    *)
(* dsh-adapter/session-mount-heartbeat.ts and the reservations its callers *)
(* hold (session-resume.ts, background-action.ts, plugin.ts).              *)
(*                                                                         *)
(* Every TUI process is single-threaded and the ledger functions are       *)
(* synchronous, so one process runs at most one of them at a time (pc), but *)
(* between two file-system calls any OTHER process may run.  Reservations  *)
(* of one process interleave at their awaits: while a claim waits for its  *)
(* next try, and while the session it stands for is being opened.          *)
(***************************************************************************)
EXTENDS Naturals

CONSTANTS
    Procs,          \* TUI processes; a process id is used by one process only
    Sessions,       \* session ids
    Ops,            \* mount operations in flight at one time, of all processes
    Stored,         \* sessions with a log on disk at the start
    MaxTries,       \* retries of a busy claim (CLAIM_RETRY_DELAYS_MS has five)
    Faults,         \* whether file-system calls may fail
    NoProc, NoSession, NoOp

ASSUME SentinelAssumption ==
    /\ NoProc \notin Procs
    /\ NoSession \notin Sessions
    /\ NoOp \notin Ops
ASSUME ParameterAssumption ==
    /\ Stored \subseteq Sessions
    /\ MaxTries \in Nat
    /\ Faults \in BOOLEAN

VARIABLES
    alive,      \* which processes are running
    lock,       \* session-mounts.lock: who created it, token written?, older than STALE_LOCK_MS?
    ledger,     \* session-mounts.json: the sessions recorded for each process
    stored,     \* sessions with a log on disk, which any process may resume
    minted,     \* session ids in use; a new id is never one of them
    own,        \* ownSessionIds of each process
    agents,     \* the live agents of each process (the registry's roster)
    rsv,        \* the mount operations (reserveMount / reserveNewSession)
    pc,         \* the next file-system call of each process
    call,       \* the ledger function each process is in
    snap        \* the document each process is about to rename into place

disk == <<lock, ledger, stored, minted>>
memory == <<own, agents, rsv>>
vars == <<alive, disk, memory, pc, call, snap>>

Answers == {"none", "ok", "busy", "occupied", "unavailable"}
Kinds == {"none", "claim", "publish", "clear"}
Steps == {"idle", "open", "judge", "remove", "reopen", "token", "check",
          "read", "reread", "replace", "unlock", "unlink"}
OpStates == {"idle", "claiming", "waiting", "held", "opened"}

NoLock == [by |-> NoProc, token |-> FALSE, aged |-> FALSE]
NoCall == [kind |-> "none", op |-> NoOp, fresh |-> FALSE, ans |-> "none"]
NoSnap == [q \in Procs |-> {}]
Free == [st |-> "idle", p |-> NoProc, s |-> NoSession, new |-> FALSE,
         fresh |-> FALSE, pinned |-> FALSE, tries |-> 0]

Lock == [by : Procs \cup {NoProc}, token : BOOLEAN, aged : BOOLEAN]
Call == [kind : Kinds, op : Ops \cup {NoOp}, fresh : BOOLEAN, ans : Answers]
Reservation == [st : OpStates, p : Procs \cup {NoProc},
                s : Sessions \cup {NoSession}, new : BOOLEAN,
                fresh : BOOLEAN, pinned : BOOLEAN, tries : Nat]

(* The type invariant of the module. *)
TypeOK ==
    /\ alive \in [Procs -> BOOLEAN]
    /\ lock \in Lock
    /\ ledger \in [Procs -> SUBSET Sessions]
    /\ stored \subseteq Sessions
    /\ minted \subseteq Sessions
    /\ own \in [Procs -> SUBSET Sessions]
    /\ agents \in [Procs -> SUBSET Sessions]
    /\ rsv \in [Ops -> Reservation]
    /\ pc \in [Procs -> Steps]
    /\ call \in [Procs -> Call]
    /\ snap \in [Procs -> [Procs -> SUBSET Sessions]]

Init ==
    /\ alive = [p \in Procs |-> TRUE]
    /\ lock = NoLock
    /\ ledger = [p \in Procs |-> {}]
    /\ stored = Stored
    /\ minted = Stored
    /\ own = [p \in Procs |-> {}]
    /\ agents = [p \in Procs |-> {}]
    /\ rsv = [o \in Ops |-> Free]
    /\ pc = [p \in Procs |-> "idle"]
    /\ call = [p \in Procs |-> NoCall]
    /\ snap = [p \in Procs |-> NoSnap]

-----------------------------------------------------------------------------
(* What the files and the memory of a process say.                         *)

(* Mistakes the runs must catch are defined just before what they mistake;  *)
(* nothing else uses them.  Here: any lock counts as a leftover, or only an *)
(* old one, whoever wrote it.                                               *)
AnyLockReclaimable == lock.by # NoProc
ReclaimableByAge == lock.by # NoProc /\ lock.aged

(* lockIsReclaimable, when its reads succeed: a token is judged by its pid, *)
(* a lock without one by its age; no lock at all is not reclaimable.        *)
Reclaimable ==
    /\ lock.by # NoProc
    /\ IF lock.token THEN ~alive[lock.by] ELSE lock.aged

(* lockIsHeld: the lock file still holds the token this process wrote.      *)
LockIsHeld(p) == lock.by = p /\ lock.token

(* The keys of mountOperations in process p.                                *)
Pinned(p) == {s \in Sessions : \E o \in Ops : rsv[o].p = p /\ rsv[o].pinned /\ rsv[o].s = s}

(* The live foreign holders a claim of s by p is refused for.               *)
Holders(p, s) == {q \in Procs \ {p} : alive[q] /\ s \in ledger[q]}

ClaimedSession(p) == rsv[call[p].op].s

(* Mistakes: peers' records are forgotten; dead records are carried over.   *)
RebuiltAlone(p) == [q \in Procs |-> IF q = p THEN own[p] ELSE {}]
RebuiltUnpruned(p) ==
    [q \in Procs |-> IF q # p THEN ledger[q] ELSE IF call[p].kind = "clear" THEN {} ELSE own[p]]

(* The document writeLedger builds: live foreign records plus our own.      *)
Rebuilt(p) ==
    [q \in Procs |-> IF q = p THEN (IF call[p].kind = "clear" THEN {} ELSE own[p])
                     ELSE IF alive[q] THEN ledger[q] ELSE {}]

-----------------------------------------------------------------------------
(* Starting and ending a ledger function.                                  *)

Begin(p, c) ==
    /\ pc' = [pc EXCEPT ![p] = "open"]
    /\ call' = [call EXCEPT ![p] = c]

Ready(p) == alive[p] /\ pc[p] = "idle"

(* What reserveMount does with the answer of a claim: hold the session, try *)
(* again later, carry on unannounced (a new session), or refuse.            *)
Answered(r, c, a) ==
    CASE a = "ok" -> [r EXCEPT !.st = "held", !.fresh = c.fresh, !.pinned = TRUE]
      [] a = "busy" /\ r.tries < MaxTries -> [r EXCEPT !.st = "waiting", !.tries = @ + 1]
      [] a # "ok" /\ ~(a = "busy" /\ r.tries < MaxTries) /\ r.new -> [r EXCEPT !.st = "held"]
      [] OTHER -> Free

(* The memory of a process is gone with it; the files stay.                 *)
Forget(p) ==
    /\ alive' = [alive EXCEPT ![p] = FALSE]
    /\ own' = [own EXCEPT ![p] = {}]
    /\ agents' = [agents EXCEPT ![p] = {}]
    /\ rsv' = [o \in Ops |-> IF rsv[o].p = p THEN Free ELSE rsv[o]]

(* The function returns with answer a.  The clear of the teardown is the    *)
(* last thing a process does.                                               *)
Return(p, a) ==
    /\ pc' = [pc EXCEPT ![p] = "idle"]
    /\ call' = [call EXCEPT ![p] = NoCall]
    /\ snap' = [snap EXCEPT ![p] = NoSnap]
    /\ \/ /\ call[p].kind = "claim"
          /\ rsv' = [rsv EXCEPT ![call[p].op] = Answered(@, call[p], a)]
          /\ UNCHANGED <<alive, own, agents>>
       \/ /\ call[p].kind = "publish"
          /\ UNCHANGED <<alive, memory>>
       \/ /\ call[p].kind = "clear"
          /\ Forget(p)

Goto(p, step) == pc' = [pc EXCEPT ![p] = step]

(* The answer is known; only the lock is left to release.                   *)
Conclude(p, a) ==
    /\ pc' = [pc EXCEPT ![p] = "unlock"]
    /\ call' = [call EXCEPT ![p].ans = a]

-----------------------------------------------------------------------------
(* acquireLock                                                             *)

CreateLock(p) ==
    /\ pc[p] \in {"open", "reopen"}
    /\ lock = NoLock
    /\ lock' = [NoLock EXCEPT !.by = p]
    /\ Goto(p, "token")
    /\ UNCHANGED <<alive, ledger, stored, minted, memory, call, snap>>

FirstOpenExists(p) ==
    /\ pc[p] = "open"
    /\ lock # NoLock
    /\ Goto(p, "judge")
    /\ UNCHANGED <<alive, disk, memory, call, snap>>

SecondOpenExists(p) ==
    /\ pc[p] = "reopen"
    /\ lock # NoLock
    /\ Return(p, "busy")
    /\ UNCHANGED disk

OpenFails(p) ==
    /\ Faults
    /\ pc[p] \in {"open", "reopen"}
    /\ Return(p, "unavailable")
    /\ UNCHANGED disk

(* The read of the token may fail, which leaves the age of the file to      *)
(* judge by, and so may the stat that asks for its age.                     *)
JudgeReclaimable(p) ==
    /\ pc[p] = "judge"
    /\ Reclaimable \/ (Faults /\ lock.by # NoProc /\ lock.aged)
    /\ Goto(p, "remove")
    /\ UNCHANGED <<alive, disk, memory, call, snap>>

JudgeBusy(p) ==
    /\ pc[p] = "judge"
    /\ Faults \/ ~Reclaimable
    /\ Return(p, "busy")
    /\ UNCHANGED disk

(* rmSync(lockPath): whatever is at the path by now is removed.             *)
RemoveStale(p) ==
    /\ pc[p] = "remove"
    /\ lock' = NoLock
    /\ Goto(p, "reopen")
    /\ UNCHANGED <<alive, ledger, stored, minted, memory, call, snap>>

RemoveFails(p) ==
    /\ Faults
    /\ pc[p] = "remove"
    /\ Return(p, "busy")
    /\ UNCHANGED disk

(* The token goes to the inode this process created, which is no longer at  *)
(* the path when a peer removed it meanwhile.                               *)
WriteToken(p) ==
    /\ pc[p] = "token"
    /\ lock' = IF lock.by = p THEN [by |-> p, token |-> TRUE, aged |-> FALSE] ELSE lock
    /\ Goto(p, "check")
    /\ UNCHANGED <<alive, ledger, stored, minted, memory, call, snap>>

(* The write fails: the path is removed, whoever's lock it holds.           *)
WriteTokenFails(p) ==
    /\ Faults
    /\ pc[p] = "token"
    /\ lock' = NoLock
    /\ Return(p, "unavailable")
    /\ UNCHANGED <<ledger, stored, minted>>

(* claimMount, publishMounts, clearOwnMounts: the first check under lock.   *)
NextUnderLock(p) == IF call[p].kind = "claim" THEN "read" ELSE "reread"

CheckHeld(p) ==
    /\ pc[p] = "check"
    /\ LockIsHeld(p)
    /\ Goto(p, NextUnderLock(p))
    /\ IF call[p].kind = "clear"
       THEN /\ own' = [own EXCEPT ![p] = {}]
            /\ rsv' = [o \in Ops |-> IF rsv[o].p = p THEN [rsv[o] EXCEPT !.pinned = FALSE]
                                                     ELSE rsv[o]]
       ELSE UNCHANGED <<own, rsv>>
    /\ UNCHANGED <<alive, disk, agents, call, snap>>

CheckLost(p) ==
    /\ pc[p] = "check"
    /\ Faults \/ ~LockIsHeld(p)
    /\ Conclude(p, "busy")
    /\ UNCHANGED <<alive, disk, memory, snap>>

(* claimMount: the conflict re-derived from the strict read under the lock. *)
ReadOccupied(p) ==
    /\ pc[p] = "read"
    /\ Holders(p, ClaimedSession(p)) # {}
    /\ Conclude(p, "occupied")
    /\ UNCHANGED <<alive, disk, memory, snap>>

ReadFree(p) ==
    /\ pc[p] = "read"
    /\ Holders(p, ClaimedSession(p)) = {}
    /\ own' = [own EXCEPT ![p] = @ \cup {ClaimedSession(p)}]
    /\ call' = [call EXCEPT ![p].fresh = ClaimedSession(p) \notin own[p]]
    /\ Goto(p, "reread")
    /\ UNCHANGED <<alive, disk, agents, rsv, snap>>

(* Mistake: a ledger that could not be read counts as an empty one.         *)
ReadFailsFree(p) ==
    /\ Faults
    /\ pc[p] = "read"
    /\ own' = [own EXCEPT ![p] = @ \cup {ClaimedSession(p)}]
    /\ Goto(p, "reread")
    /\ UNCHANGED <<alive, disk, agents, rsv, call, snap>>

ReadFails(p) ==
    /\ Faults
    /\ pc[p] = "read"
    /\ Conclude(p, "unavailable")
    /\ UNCHANGED <<alive, disk, memory, snap>>

(* writeLedger: its own strict read, then the temporary file renamed over.  *)
Reread(p) ==
    /\ pc[p] = "reread"
    /\ snap' = [snap EXCEPT ![p] = Rebuilt(p)]
    /\ Goto(p, "replace")
    /\ UNCHANGED <<alive, disk, memory, call>>

Replace(p) ==
    /\ pc[p] = "replace"
    /\ ledger' = snap[p]
    /\ snap' = [snap EXCEPT ![p] = NoSnap]
    /\ Conclude(p, "ok")
    /\ UNCHANGED <<alive, lock, stored, minted, memory>>

(* Mistake: an unwritten claim is granted.                                  *)
GrantedUnwritten(p) ==
    /\ Faults
    /\ pc[p] \in {"reread", "replace"}
    /\ snap' = [snap EXCEPT ![p] = NoSnap]
    /\ Conclude(p, "ok")
    /\ UNCHANGED <<alive, disk, memory>>

(* The ledger could not be read or replaced: it is left as it was, and a    *)
(* claim takes the session out of ownSessionIds again.                      *)
NotPersisted(p) ==
    /\ Faults
    /\ pc[p] \in {"reread", "replace"}
    /\ own' = IF call[p].kind = "claim" THEN [own EXCEPT ![p] = @ \ {ClaimedSession(p)}] ELSE own
    /\ snap' = [snap EXCEPT ![p] = NoSnap]
    /\ Conclude(p, "unavailable")
    /\ UNCHANGED <<alive, disk, agents, rsv>>

(* releaseLock: the name is removed only when the token is still our own.   *)
ReleaseHeld(p) ==
    /\ pc[p] = "unlock"
    /\ LockIsHeld(p)
    /\ Goto(p, "unlink")
    /\ UNCHANGED <<alive, disk, memory, call, snap>>

ReleaseLost(p) ==
    /\ pc[p] = "unlock"
    /\ Faults \/ ~LockIsHeld(p)
    /\ Return(p, call[p].ans)
    /\ UNCHANGED disk

Unlink(p) ==
    /\ pc[p] = "unlink"
    /\ lock' = NoLock
    /\ Return(p, call[p].ans)
    /\ UNCHANGED <<ledger, stored, minted>>

UnlinkFails(p) ==
    /\ Faults
    /\ pc[p] = "unlink"
    /\ Return(p, call[p].ans)
    /\ UNCHANGED disk

-----------------------------------------------------------------------------
(* The callers.                                                            *)

(* reserveMount of a stored session that has no live agent here.            *)
Reserve(p, o, s) ==
    /\ Ready(p)
    /\ rsv[o] = Free
    /\ s \in stored \ agents[p]
    /\ rsv' = [rsv EXCEPT ![o] = [Free EXCEPT !.st = "claiming", !.p = p, !.s = s]]
    /\ Begin(p, [NoCall EXCEPT !.kind = "claim", !.op = o])
    /\ UNCHANGED <<alive, disk, own, agents, snap>>

(* reserveNewSession of an id this process just minted.                     *)
ReserveNew(p, o, s) ==
    /\ Ready(p)
    /\ rsv[o] = Free
    /\ s \in Sessions \ minted
    /\ minted' = minted \cup {s}
    /\ rsv' = [rsv EXCEPT ![o] = [Free EXCEPT !.st = "claiming", !.p = p, !.s = s, !.new = TRUE]]
    /\ Begin(p, [NoCall EXCEPT !.kind = "claim", !.op = o])
    /\ UNCHANGED <<alive, lock, ledger, stored, own, agents, snap>>

(* claimMountWithRetry: the back-off has elapsed.                           *)
Retry(p, o) ==
    /\ Ready(p)
    /\ rsv[o].p = p /\ rsv[o].st = "waiting"
    /\ rsv' = [rsv EXCEPT ![o].st = "claiming"]
    /\ Begin(p, [NoCall EXCEPT !.kind = "claim", !.op = o])
    /\ UNCHANGED <<alive, disk, own, agents, snap>>

(* The factory (agents.resume / agents.create) returned: the agent is in    *)
(* the registry, the log is on disk.                                        *)
Open(p, o) ==
    /\ Ready(p)
    /\ rsv[o].p = p /\ rsv[o].st = "held"
    /\ rsv[o].s \notin agents[p]
    /\ rsv' = [rsv EXCEPT ![o].st = "opened"]
    /\ agents' = [agents EXCEPT ![p] = @ \cup {rsv[o].s}]
    /\ stored' = stored \cup {rsv[o].s}
    /\ UNCHANGED <<alive, lock, ledger, minted, own, pc, call, snap>>

(* settle: the mount is committed, the pin goes, the roster names it.       *)
Settle(p, o) ==
    /\ Ready(p)
    /\ rsv[o].p = p /\ rsv[o].st = "opened"
    /\ rsv' = [rsv EXCEPT ![o] = Free]
    /\ UNCHANGED <<alive, disk, own, agents, pc, call, snap>>

(* publishMounts(req): the in-memory set is replaced before the lock.       *)
Publish(p, req, keys) ==
    /\ own' = [own EXCEPT ![p] = req \cup keys]
    /\ Begin(p, [NoCall EXCEPT !.kind = "publish"])

(* abandon (after disposing the candidate, when one was opened): the pin    *)
(* goes, and a fresh claim is given back with releaseMount.                 *)
Abandon(p, o) ==
    LET s == rsv[o].s
        keys == {t \in Sessions : \E x \in Ops \ {o} : rsv[x].p = p /\ rsv[x].pinned /\ rsv[x].s = t}
    IN  /\ Ready(p)
        /\ rsv[o].p = p /\ rsv[o].st \in {"held", "opened"}
        /\ rsv' = [rsv EXCEPT ![o] = Free]
        /\ agents' = IF rsv[o].st = "opened" THEN [agents EXCEPT ![p] = @ \ {s}] ELSE agents
        /\ \/ /\ rsv[o].fresh /\ s \in own[p]
              /\ Publish(p, own[p] \ {s}, keys)
           \/ /\ ~(rsv[o].fresh /\ s \in own[p])
              /\ UNCHANGED <<own, pc, call>>
        /\ UNCHANGED <<alive, disk, snap>>

(* One beat of the heartbeat: the roster is published.                      *)
Beat(p) ==
    /\ Ready(p)
    /\ Publish(p, agents[p], Pinned(p))
    /\ UNCHANGED <<alive, disk, agents, rsv, snap>>

(* A committed agent is closed.  A DSH session is left to the next beat; a  *)
(* session of another backend is given back at once with releaseMount.      *)
Closable(p, s) == Ready(p) /\ s \in agents[p] /\ ~\E o \in Ops : rsv[o].p = p /\ rsv[o].st = "opened" /\ rsv[o].s = s

CloseAgent(p, s) ==
    /\ Closable(p, s)
    /\ agents' = [agents EXCEPT ![p] = @ \ {s}]
    /\ UNCHANGED <<alive, disk, own, rsv, pc, call, snap>>

CloseAndRelease(p, s) ==
    /\ Closable(p, s)
    /\ s \in own[p]
    /\ agents' = [agents EXCEPT ![p] = @ \ {s}]
    /\ Publish(p, own[p] \ {s}, Pinned(p))
    /\ UNCHANGED <<alive, disk, rsv, snap>>

(* The disposer of the heartbeat: no more beats, clearOwnMounts, exit.      *)
Teardown(p) ==
    /\ Ready(p)
    /\ Begin(p, [NoCall EXCEPT !.kind = "clear"])
    /\ UNCHANGED <<alive, disk, memory, snap>>

-----------------------------------------------------------------------------
(* The environment.                                                        *)

(* A process dies at any point, between any two file-system calls.          *)
Crash(p) ==
    /\ alive[p]
    /\ Forget(p)
    /\ pc' = [pc EXCEPT ![p] = "idle"]
    /\ call' = [call EXCEPT ![p] = NoCall]
    /\ snap' = [snap EXCEPT ![p] = NoSnap]
    /\ UNCHANGED disk

(* STALE_LOCK_MS pass over a lock.  The age of a lock with a token is asked *)
(* for only by a process that cannot read the token.                        *)
LockAges ==
    /\ lock.by # NoProc
    /\ ~lock.aged /\ (Faults \/ ~lock.token)
    /\ lock' = [lock EXCEPT !.aged = TRUE]
    /\ UNCHANGED <<alive, ledger, stored, minted, memory, pc, call, snap>>

Acquire(p) ==
    \/ CreateLock(p) \/ FirstOpenExists(p) \/ SecondOpenExists(p) \/ OpenFails(p)
    \/ JudgeReclaimable(p) \/ JudgeBusy(p) \/ RemoveStale(p) \/ RemoveFails(p)
    \/ WriteToken(p) \/ WriteTokenFails(p)
UnderLock(p) ==
    \/ CheckHeld(p) \/ CheckLost(p)
    \/ ReadOccupied(p) \/ ReadFree(p) \/ ReadFails(p)
    \/ Reread(p) \/ Replace(p) \/ NotPersisted(p)
    \/ ReleaseHeld(p) \/ ReleaseLost(p) \/ Unlink(p) \/ UnlinkFails(p)
Caller(p) ==
    \/ \E o \in Ops, s \in Sessions : Reserve(p, o, s) \/ ReserveNew(p, o, s)
    \/ \E o \in Ops : Retry(p, o) \/ Open(p, o) \/ Settle(p, o) \/ Abandon(p, o)
    \/ \E s \in Sessions : CloseAgent(p, s) \/ CloseAndRelease(p, s)
    \/ Beat(p) \/ Teardown(p)

Next ==
    \/ \E p \in Procs : Acquire(p) \/ UnderLock(p) \/ Caller(p) \/ Crash(p)
    \/ LockAges

Spec == Init /\ [][Next]_vars

-----------------------------------------------------------------------------
(* What the ledger relies on.  None of the three is enforced by the code;   *)
(* MCSessionMounts drops each of them in turn and shows what breaks.        *)

(* A process that removes a lock it judged stale removes one nobody alive   *)
(* holds: not one a peer created between its judgement and its rmSync, and  *)
(* not an old one whose token it could not read.                            *)
CalmReclaim ==
    \A p \in Procs :
        /\ RemoveStale(p) => (lock = NoLock \/ Reclaimable)
        /\ WriteTokenFails(p) => lock.by \in {p, NoProc}

(* A process runs one mount operation per session at a time.                *)
OneOperationPerSession ==
    \A o, x \in Ops :
        (o # x /\ rsv[o].st = "idle" /\ rsv'[o].st = "claiming" /\ rsv[x].st # "idle")
            => ~(rsv[x].p = rsv'[o].p /\ rsv[x].s = rsv'[o].s)

(* The claim of a new session is not refused.                               *)
AnnouncementsSucceed ==
    \A o \in Ops : (rsv[o].st = "claiming" /\ rsv'[o].st = "held") => rsv'[o].pinned

CalmNext ==
    /\ Next
    /\ CalmReclaim /\ OneOperationPerSession /\ AnnouncementsSucceed
CalmSpec == Init /\ [][CalmNext]_vars

-----------------------------------------------------------------------------
(* Properties.                                                             *)

(* A process that is rebuilding or replacing the ledger holds the lock      *)
(* ("CALLERS MUST HOLD THE LOCK", writeLedger): no two rebuild it at once.  *)
WriterHoldsLock ==
    \A p \in Procs : pc[p] \in {"reread", "replace"} => LockIsHeld(p)

(* No session is recorded for two running processes (claimMount: "exactly   *)
(* the state this ledger exists to prevent").                               *)
LedgerExclusive ==
    \A p, q \in Procs : p # q /\ alive[p] /\ alive[q] => ledger[p] \cap ledger[q] = {}

Driven(p) == IF call[p].kind = "clear" THEN {} ELSE agents[p] \cup Pinned(p)

(* What a process drives, or is about to, is in its record: neither a beat, *)
(* nor a release, an abandoned attempt or a peer's write takes it out.      *)
DrivenIsPublished ==
    \A p \in Procs : alive[p] => Driven(p) \subseteq ledger[p]

(* No two running processes drive one session log.                         *)
NoTwoWriters ==
    \A p, q \in Procs : p # q /\ alive[p] /\ alive[q] => Driven(p) \cap Driven(q) = {}

(* Only a process itself changes its record while it runs: a peer's rebuild *)
(* never erases or restores what it published in between.                   *)
OnlyOwnRecordChanges ==
    [][\A p \in Procs : alive[p] /\ ledger'[p] # ledger[p] => pc[p] = "replace"]_vars

(* "A stale lock is reclaimable on the next mutation" (releaseLock): a lock *)
(* its process has finished with can be taken by whoever comes next.        *)
LeftoverReclaimable ==
    \A p \in Procs : alive[p] /\ lock.by = p /\ pc[p] = "idle" => Reclaimable

-----------------------------------------------------------------------------
(* Liveness.  A synchronous function runs to its end; the heartbeat timer   *)
(* and the back-off of a retry fire between the functions of a process that *)
(* keeps running; time passes over an unwritten lock.                       *)
RunsOn ==
    /\ WF_vars(LockAges)
    /\ \A p \in Procs : WF_vars(Acquire(p) \/ UnderLock(p))
Beats == \A p \in Procs : SF_vars(Beat(p))
Retries == \A p \in Procs, o \in Ops : SF_vars(Retry(p, o))

LiveSpec == Spec /\ RunsOn /\ Retries

(* A call that fails, or a read of the lock that does.                      *)
CallFails(p) ==
    \/ OpenFails(p) \/ RemoveFails(p) \/ WriteTokenFails(p)
    \/ ReadFails(p) \/ NotPersisted(p) \/ UnlinkFails(p)
    \/ JudgeReclaimable(p) /\ ~Reclaimable
    \/ JudgeBusy(p) /\ Reclaimable
    \/ (CheckLost(p) \/ ReleaseLost(p)) /\ LockIsHeld(p)

(* The disk works again some time.                                          *)
FaultsEnd == <>[][\A p \in Procs : ~CallFails(p)]_vars
FaultySpec == Spec /\ RunsOn /\ Beats /\ FaultsEnd

(* A lock whose process goes on and will not remove it any more.            *)
Leftover == lock.token /\ alive[lock.by] /\ pc[lock.by] = "idle"

(* A dead process's record goes ("a crashed process skips this and its      *)
(* record is pruned by the next write instead"), whatever call failed and   *)
(* even when it died holding the lock: as long as another process runs on,  *)
(* and unless a living one left its lock behind.                            *)
Stale(p) == ~alive[p] /\ ledger[p] # {} /\ \E q \in Procs : alive[q]

DeadRecordPruned ==
    (\E p \in Procs : Stale(p)) ~> (Leftover \/ ~\E p \in Procs : Stale(p))

(* A claim is not refused for what the dead left behind: when its next try  *)
(* is still to come and the other processes have died, wherever they stood  *)
(* in the protocol, it is granted, whatever they held and had recorded.     *)
(* Only a lock without its token must be old by then: the retries of a      *)
(* claim last less than a second, and STALE_LOCK_MS is half a minute.       *)
TryComes(o) ==
    rsv[o].st = "waiting" \/ (rsv[o].st = "claiming" /\ pc[rsv[o].p] = "open")

ClaimSurvivesCrash ==
    \A o \in Ops, p \in Procs :
        ( /\ rsv[o].p = p /\ TryComes(o)
          /\ \A q \in Procs \ {p} : ~alive[q]
          /\ lock = NoLock \/ lock.token \/ lock.aged )
        ~> (rsv[o].st = "held" \/ ~alive[p])

-----------------------------------------------------------------------------
(* The files implement the atomic table of MountLedger.                    *)
Table == INSTANCE MountLedger WITH live <- alive, mounts <- ledger

(* Every step of the protocol is a claim, a publication, a death or none of *)
(* them for a reader of the ledger file.                                    *)
ImplementsTable == Table!Spec

-----------------------------------------------------------------------------
(* The inductive invariants of the proofs in SessionMounts_proofs.          *)

Claiming(p) == call[p].kind = "claim"
Clearing(p) == call[p].kind = "clear"
Writing(p) == pc[p] \in {"reread", "replace"}

(* How the parts of a process's memory fit together, whatever happens.      *)
Shape ==
    /\ \A p \in Procs : pc[p] = "idle" <=> call[p].kind = "none"
    /\ \A p \in Procs : pc[p] # "idle" => alive[p]
    /\ \A o \in Ops : \/ rsv[o] = Free
                      \/ /\ rsv[o].st # "idle"
                         /\ rsv[o].p \in Procs /\ alive[rsv[o].p]
                         /\ rsv[o].s \in Sessions
    /\ \A p \in Procs : Claiming(p) => /\ call[p].op \in Ops
                                       /\ rsv[call[p].op].p = p
                                       /\ rsv[call[p].op].st = "claiming"
    /\ \A p \in Procs : pc[p] = "read" => Claiming(p)

(* Under the lock: from its check to its release, the lock is the process's *)
(* own.                                                                     *)
LockInv == \A p \in Procs : pc[p] \in {"read", "reread", "replace", "unlink"} => LockIsHeld(p)

(* The document about to be renamed still agrees with the ledger about all  *)
(* other running processes.                                                 *)
SnapInv ==
    \A p \in Procs : pc[p] = "replace" =>
        /\ snap[p][p] = own[p]
        /\ \A q \in Procs \ {p} :
              snap[p][q] = ledger[q] \/ (~alive[q] /\ snap[p][q] = {})

(* A process has nothing in mind that its record does not have, save the    *)
(* session it is about to add, which is nobody else's.                      *)
OwnInv ==
    \A p \in Procs : alive[p] =>
        \A s \in own[p] : s \in ledger[p] \/ (Claiming(p) /\ Writing(p) /\ s = ClaimedSession(p))
AddInv ==
    \A p \in Procs : Claiming(p) /\ Writing(p) =>
        /\ ClaimedSession(p) \in own[p]
        /\ Holders(p, ClaimedSession(p)) = {}
ClearInv == \A p \in Procs : Clearing(p) /\ Writing(p) => own[p] = {}
AnswerInv ==
    \A p \in Procs : Claiming(p) /\ call[p].ans = "ok" =>
        /\ pc[p] \in {"unlock", "unlink"}
        /\ ClaimedSession(p) \in ledger[p] \cap own[p]

(* What a process drives or is about to drive is in its mind and in its     *)
(* record.                                                                  *)
HeldInv ==
    \A p \in Procs : alive[p] /\ ~Clearing(p) =>
        agents[p] \cup Pinned(p) \subseteq ledger[p] \cap own[p]

(* Mount operations: one per session, pinned once answered, with a live     *)
(* agent exactly when opened.                                               *)
OpInv ==
    \A o \in Ops :
        /\ rsv[o].st \in {"claiming", "waiting", "held"} => rsv[o].s \notin agents[rsv[o].p]
        /\ rsv[o].st \in {"held", "opened"} => rsv[o].pinned \/ Clearing(rsv[o].p)
        /\ rsv[o].st \in {"idle", "claiming", "waiting"} => ~rsv[o].pinned
OneOpInv ==
    \A o, x \in Ops :
        o # x /\ rsv[o].st # "idle" /\ rsv[x].st # "idle" =>
            rsv[o].p # rsv[x].p \/ rsv[o].s # rsv[x].s

(* An id is minted before it is reserved, opened or stored.                 *)
MintInv ==
    /\ stored \subseteq minted
    /\ \A p \in Procs : agents[p] \subseteq minted
    /\ \A o \in Ops : rsv[o].st # "idle" => rsv[o].s \in minted

CalmInv ==
    /\ TypeOK /\ Shape /\ MintInv
    /\ LockInv /\ SnapInv
    /\ OwnInv /\ AddInv /\ ClearInv /\ AnswerInv
    /\ HeldInv /\ OpInv /\ OneOpInv
    /\ LedgerExclusive
=============================================================================
