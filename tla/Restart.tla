------------------------------- MODULE Restart -------------------------------
(***************************************************************************)
(* A process that replaces itself: `/restart' and the kernel switch.  The  *)
(* old process leaves through the exit funnel of src/dsh-adapter/plugin.ts,*)
(* disposes its root, spawns the replacement and follows it until it ends  *)
(* (restartTui in src/update.ts), so the processes of a run form a chain   *)
(* of which the last one has the terminal.  Two things are handed over:    *)
(*                                                                         *)
(*   - the queued and held inputs of a `/restart', through a file named in *)
(*     the replacement's environment (src/heldInputs.ts): the replacement  *)
(*     parks them on its dock and only then removes the file; one that     *)
(*     ends before leaves it to the resume command its parent prints;      *)
(*   - the alternate screen of a kernel switch (src/handoffAck.ts): kept   *)
(*     open across the spawn, owned by the replacement from the moment its *)
(*     first frame is flushed.                                             *)
(*                                                                         *)
(* The host may apply the plugin again during the boot (the recompose), so *)
(* a process makes several passes over a handoff, and a pass that stages   *)
(* images outlives its own mount.                                          *)
(*                                                                         *)
(* The user, the host's recompose, the operating system and how long an    *)
(* image takes are the environment.  Risks names the things a run lets the *)
(* environment do that the code has no answer to (see README).             *)
(***************************************************************************)
EXTENDS Naturals, FiniteSets

CONSTANTS
    MaxProcs,   \* bound: processes of a run, resumed ones included
    MaxPasses,  \* bound: times the plugin is applied in one process
    Texts,      \* the inputs the user types
    Risks       \* which of AllRisks the environment may do

AllRisks == {"unsettled", "late", "parked", "switched", "undrawn", "stalled", "signalled"}

ASSUME RestartAssumption ==
    /\ MaxProcs \in Nat \ {0}
    /\ MaxPasses \in Nat \ {0}
    /\ Risks \subseteq AllRisks

Procs == 1..MaxProcs
Passes == 1..MaxPasses

VARIABLES
    st,        \* of each process: none, boot, up, leaving, disposing, follows, gone
    dad,       \* the process that spawned it and follows it, 0 for a launch
    why,       \* why it left: quit, crash, signal, restart, switch
    code,      \* how it ended: ok, bad, signal (a termination signal), kill
    named,     \* it left a persisted session, so there is something to resume
    carry,     \* the inputs it collected to hand over
    files,     \* the inputs in the file it wrote ({}: no such file)
    printed,   \* processes whose file a printed resume command names
    marker,    \* whose file its environment names, 0 for none
    waiting,   \* its unsettled handoff: [from, inputs, claimed]
    applied,   \* passes so far
    live,      \* the last of them is mounted
    ready,     \* and its channel is ready
    pass,      \* of each pass: none, listens, waits, stages, ghost, rests
    rows,      \* inputs on its dock
    ack,       \* adoption of the screen: none, armed, adopted, ready, dead
    drawn,     \* the first write after the adoption: no, flying, flushed
    screen,    \* the terminal's buffer: main or alt
    typed,     \* history: inputs typed so far
    sent,      \* history: inputs the user sent
    forgone    \* history: inputs nobody promised to keep

control == <<st, dad, why, code, named>>
handed == <<carry, files, printed, marker>>
adoption == <<waiting, applied, live, ready, pass>>
terminal == <<ack, drawn, screen>>
history == <<typed, sent, forgone>>
vars == <<control, handed, adoption, rows, terminal, history>>

Reasons == {"quit", "crash", "signal", "restart", "switch"}
Nothing == [from |-> 0, inputs |-> {}, claimed |-> FALSE]

Init ==
    /\ st = [p \in Procs |-> IF p = 1 THEN "boot" ELSE "none"]
    /\ dad = [p \in Procs |-> 0]
    /\ why = [p \in Procs |-> "none"]
    /\ code = [p \in Procs |-> "none"]
    /\ named = [p \in Procs |-> FALSE]
    /\ carry = [p \in Procs |-> {}]
    /\ files = [p \in Procs |-> {}]
    /\ printed = {}
    /\ marker = [p \in Procs |-> 0]
    /\ waiting = [p \in Procs |-> Nothing]
    /\ applied = [p \in Procs |-> 0]
    /\ live = [p \in Procs |-> FALSE]
    /\ ready = [p \in Procs |-> FALSE]
    /\ pass = [p \in Procs |-> [k \in Passes |-> "none"]]
    /\ rows = [p \in Procs |-> {}]
    /\ ack = [p \in Procs |-> "none"]
    /\ drawn = [p \in Procs |-> "no"]
    /\ screen = "main"
    /\ typed = {} /\ sent = {} /\ forgone = {}

-----------------------------------------------------------------------------
(* Terms the actions share. *)

Follows(p) == p # 0 /\ st[p] = "follows"

\* ownsAltScreenExit: who closes the alternate screen when p leaves it.
OwnsExit(p) == ack[p] \in {"none", "ready", "dead"}

\* take: the first pass to claim the handoff stages its images; a sibling waits.
Claim(h) == [h EXCEPT !.claimed = TRUE]
Taken(h) == IF h.claimed THEN "waits" ELSE "stages"

\* A release that wakes nobody.
ReleasedAsleep(p, k) ==
    /\ waiting' = [waiting EXCEPT ![p].claimed = FALSE]
    /\ pass' = [pass EXCEPT ![p][k] = "rests"]

\* release: the claim goes back and the pass that lost it is woken.
Released(p, k) ==
    LET woken == {j \in Passes : pass[p][j] = "waits"} IN
    /\ waiting' = [waiting EXCEPT ![p].claimed = (woken # {})]
    /\ pass' = [pass EXCEPT ![p] =
                  [j \in Passes |-> IF j = k THEN "rests"
                                    ELSE IF j \in woken THEN "stages" ELSE @[j]]]

\* stop: a pass that stages goes on without a mount, any other rests.
Stopped(of) == [k \in Passes |-> CASE of[k] = "none" -> "none"
                                   [] of[k] \in {"stages", "ghost"} -> "ghost"
                                   [] OTHER -> "rests"]

\* A command that names no file.
PrintedBare(p) ==
    /\ files' = IF named[p] THEN files ELSE [files EXCEPT ![p] = {}]
    /\ forgone' = IF named[p] THEN forgone ELSE forgone \cup files[p]
    /\ UNCHANGED printed

\* preservedSessionTail with heldInputsResumeCommand: the held file is named in
\* the printed command, or dropped when no session is left to resume.
Printed(p) ==
    IF named[p]
    THEN /\ printed' = IF files[p] = {} THEN printed ELSE printed \cup {p}
         /\ UNCHANGED <<files, forgone>>
    ELSE /\ files' = [files EXCEPT ![p] = {}]
         /\ forgone' = forgone \cup files[p]
         /\ UNCHANGED printed

Ends(p, how) ==
    /\ st' = [st EXCEPT ![p] = "gone"]
    /\ code' = [code EXCEPT ![p] = how]

\* The next process to be started; processes are numbered in that order.
Fresh == {p \in Procs : st[p] = "none"}
Newest(c) == c \in Fresh /\ \A q \in Fresh : c <= q

-----------------------------------------------------------------------------
(* A process's boot: the passes over the handoff, and the screen. *)

\* apply(): adoptHeldInputs reads the marker once, or finds the handoff an
\* earlier pass left, and takes it when the channel is ready at once.  The tree
\* then mounts: AlternateScreen enters the alternate screen, except in a kernel
\* switch's replacement, which adopts the one it finds and reports it.
Apply(p, atOnce) ==
    LET k == applied[p] + 1
        h == IF marker[p] = 0 THEN waiting[p]
             ELSE [from |-> marker[p], inputs |-> files[marker[p]], claimed |-> FALSE]
    IN
    /\ st[p] \in {"boot", "up"} /\ ~live[p] /\ k \in Passes
    /\ st' = [st EXCEPT ![p] = "up"]
    /\ applied' = [applied EXCEPT ![p] = k]
    /\ live' = [live EXCEPT ![p] = TRUE]
    /\ ready' = [ready EXCEPT ![p] = atOnce]
    /\ marker' = [marker EXCEPT ![p] = 0]
    /\ IF h.inputs = {}
       THEN /\ waiting' = [waiting EXCEPT ![p] = Nothing]
            /\ pass' = [pass EXCEPT ![p][k] = "rests"]
       ELSE /\ waiting' = [waiting EXCEPT ![p] = IF atOnce THEN Claim(h) ELSE h]
            /\ pass' = [pass EXCEPT ![p][k] = IF atOnce THEN Taken(h) ELSE "listens"]
    /\ screen' = IF ack[p] = "none" THEN "alt" ELSE screen
    /\ ack' = [ack EXCEPT ![p] = IF @ # "armed" THEN @
                                 ELSE IF Follows(dad[p]) THEN "adopted" ELSE "dead"]
    /\ UNCHANGED <<dad, why, code, named, carry, files, printed, rows, drawn, history>>

\* The channel turns ready: the listening pass takes the handoff.
Ready(p) ==
    LET k == applied[p] IN
    /\ st[p] = "up" /\ live[p] /\ ~ready[p]
    /\ ready' = [ready EXCEPT ![p] = TRUE]
    /\ IF pass[p][k] = "listens"
       THEN /\ waiting' = [waiting EXCEPT ![p] = Claim(@)]
            /\ pass' = [pass EXCEPT ![p][k] = Taken(waiting[p])]
       ELSE UNCHANGED <<waiting, pass>>
    /\ UNCHANGED <<control, handed, applied, live, rows, terminal, history>>

\* The recompose disposes the entry: its passes stop, the rows of its channel go
\* with it and Ink.unmount leaves the alternate screen.
Stops(p) ==
    /\ st[p] = "up" /\ live[p] /\ applied[p] < MaxPasses
    /\ rows[p] # {} => "parked" \in Risks
    /\ ack[p] # "none" => "switched" \in Risks
    /\ live' = [live EXCEPT ![p] = FALSE]
    /\ ready' = [ready EXCEPT ![p] = FALSE]
    /\ pass' = [pass EXCEPT ![p] = Stopped(@)]
    /\ rows' = [rows EXCEPT ![p] = {}]
    /\ screen' = "main"
    /\ UNCHANGED <<control, handed, waiting, applied, ack, drawn, history>>

\* The rows go up and the file stays.
ParksWithFile(p, k) ==
    /\ pass[p][k] = "stages" /\ st[p] = "up"
    /\ rows' = [rows EXCEPT ![p] = @ \cup waiting[p].inputs]
    /\ waiting' = [waiting EXCEPT ![p] = Nothing]
    /\ pass' = [pass EXCEPT ![p] = [j \in Passes |-> IF @[j] = "none" THEN "none" ELSE "rests"]]
    /\ UNCHANGED <<control, handed, applied, live, ready, terminal, history>>

\* The images of pass k are staged.  On a channel that still takes rows the
\* inputs are parked and the handoff settled: the file goes with it.
Parks(p, k) ==
    /\ pass[p][k] = "stages"
    /\ \/ st[p] = "up"
       \/ st[p] = "leaving" /\ "late" \in Risks
    /\ rows' = [rows EXCEPT ![p] = @ \cup waiting[p].inputs]
    /\ files' = [files EXCEPT ![waiting[p].from] = {}]
    /\ waiting' = [waiting EXCEPT ![p] = Nothing]
    /\ pass' = [pass EXCEPT ![p] = [j \in Passes |-> IF @[j] = "none" THEN "none" ELSE "rests"]]
    /\ UNCHANGED <<control, carry, printed, marker, applied, live, ready, terminal, history>>

\* They are staged, but the pass was stopped meanwhile: the claim goes back.
GivesBack(p, k) ==
    /\ pass[p][k] = "ghost" /\ st[p] \in {"up", "leaving", "disposing", "follows"}
    /\ Released(p, k)
    /\ UNCHANGED <<control, handed, applied, live, ready, rows, terminal, history>>

\* The first write after the adoption, and its flush callback (armFirstFrameAck,
\* markScreenReady): `ready' is sent, or the pipe is found dead.
FirstWrite(p) ==
    /\ st[p] = "up" /\ live[p] /\ ack[p] = "adopted" /\ drawn[p] = "no"
    /\ drawn' = [drawn EXCEPT ![p] = "flying"]
    /\ UNCHANGED <<control, handed, adoption, rows, ack, screen, history>>

Flushed(p) ==
    /\ drawn[p] = "flying" /\ st[p] \in {"up", "leaving", "disposing"}
    /\ drawn' = [drawn EXCEPT ![p] = "flushed"]
    /\ ack' = [ack EXCEPT ![p] = IF Follows(dad[p]) THEN "ready" ELSE "dead"]
    /\ UNCHANGED <<control, handed, adoption, rows, screen, history>>

-----------------------------------------------------------------------------
(* The user's inputs. *)

\* An input goes to the queue of a working session.
Types(p, t) ==
    /\ st[p] = "up" /\ live[p] /\ ready[p] /\ t \notin typed
    /\ typed' = typed \cup {t}
    /\ rows' = [rows EXCEPT ![p] = @ \cup {t}]
    /\ UNCHANGED <<control, handed, adoption, terminal, sent, forgone>>

Sends(p, t) ==
    /\ st[p] = "up" /\ live[p] /\ t \in rows[p]
    /\ rows' = [rows EXCEPT ![p] = @ \ {t}]
    /\ sent' = sent \cup {t}
    /\ UNCHANGED <<control, handed, adoption, terminal, typed, forgone>>

-----------------------------------------------------------------------------
(* Leaving, and what follows it. *)

\* The exit funnel, up to the terminal cleanup of finishExit: a `/restart'
\* collects the queue, any other exit gives it up; the alternate screen is
\* closed unless a kernel switch keeps it or the parent still owns it.  What
\* finishExit writes may be the first write after an adoption.
Leave(p, reason, persisted) ==
    LET hands == reason \in {"restart", "switch"} IN
    /\ st[p] = "up" /\ live[p]
    /\ hands => Fresh # {}
    /\ waiting[p].from # 0 =>
          CASE reason = "crash" -> TRUE
            [] reason = "signal" -> "signalled" \in Risks
            [] OTHER -> "unsettled" \in Risks
    /\ ack[p] = "adopted" => "undrawn" \in Risks
    /\ st' = [st EXCEPT ![p] = "leaving"]
    /\ why' = [why EXCEPT ![p] = reason]
    /\ named' = [named EXCEPT ![p] = persisted /\ reason # "switch"]
    /\ carry' = [carry EXCEPT ![p] = IF reason = "restart" THEN rows[p] ELSE {}]
    /\ forgone' = IF reason = "restart" THEN forgone ELSE forgone \cup rows[p]
    /\ rows' = [rows EXCEPT ![p] = {}]
    /\ screen' = IF reason = "switch" \/ ~OwnsExit(p) THEN screen ELSE "main"
    /\ drawn' = [drawn EXCEPT ![p] = IF ack[p] = "adopted" /\ @ = "no" THEN "flying" ELSE @]
    /\ UNCHANGED <<dad, code, files, printed, marker, adoption, ack, typed, sent>>

\* finishExit is done: a `/restart' writes the file (writeHeldInputs, best
\* effort), and the root's disposal begins, which stops the passes.
CleansUp(p, written) ==
    /\ st[p] = "leaving"
    /\ st' = [st EXCEPT ![p] = "disposing"]
    /\ carry' = [carry EXCEPT ![p] = {}]
    /\ files' = [files EXCEPT ![p] = IF written THEN carry[p] ELSE {}]
    /\ forgone' = IF written THEN forgone ELSE forgone \cup carry[p]
    /\ live' = [live EXCEPT ![p] = FALSE]
    /\ ready' = [ready EXCEPT ![p] = FALSE]
    /\ pass' = [pass EXCEPT ![p] = Stopped(@)]
    /\ UNCHANGED <<dad, why, code, named, printed, marker, waiting, applied, rows,
                   terminal, typed, sent>>

\* disposeRootAndExit, and dieBySignal: a process without a replacement ends.
Exits(p) ==
    /\ st[p] = "disposing" /\ why[p] \in {"quit", "crash", "signal"}
    /\ Ends(p, CASE why[p] = "quit" -> "ok" [] why[p] = "crash" -> "bad" [] OTHER -> "signal")
    /\ UNCHANGED <<dad, why, named, handed, adoption, rows, terminal, history>>

\* restartTui: the replacement inherits the terminal, the marker of the held
\* file and, in a kernel switch, the pipe to acknowledge the screen on.
Spawns(p, c) ==
    /\ st[p] = "disposing" /\ why[p] \in {"restart", "switch"} /\ Newest(c)
    /\ st' = [st EXCEPT ![p] = "follows", ![c] = "boot"]
    /\ dad' = [dad EXCEPT ![c] = p]
    /\ marker' = [marker EXCEPT ![c] = IF files[p] = {} THEN 0 ELSE p]
    /\ ack' = [ack EXCEPT ![c] = IF why[p] = "switch" THEN "armed" ELSE "none"]
    /\ UNCHANGED <<why, code, named, carry, files, printed, adoption, rows, drawn,
                   screen, history>>

\* The notice goes out on the screen the switch kept.
SpawnFailsOnAlt(p) ==
    /\ st[p] = "disposing" /\ why[p] \in {"restart", "switch"}
    /\ Printed(p)
    /\ Ends(p, "bad")
    /\ UNCHANGED <<dad, why, named, carry, marker, adoption, rows, terminal, typed, sent>>

\* The spawn fails: the screen a switch kept is restored before the notice.
SpawnFails(p) ==
    /\ st[p] = "disposing" /\ why[p] \in {"restart", "switch"}
    /\ screen' = IF why[p] = "switch" THEN "main" ELSE screen
    /\ Printed(p)
    /\ Ends(p, "bad")
    /\ UNCHANGED <<dad, why, named, carry, marker, adoption, rows, ack, drawn, typed, sent>>

\* A wedged turn holds the disposal for more than five seconds: runRestart
\* prints the resume command and exits without a replacement.
Stalls(p) ==
    /\ st[p] = "disposing" /\ why[p] \in {"restart", "switch"}
    /\ why[p] = "switch" => "stalled" \in Risks
    /\ Printed(p)
    /\ Ends(p, "bad")
    /\ UNCHANGED <<dad, why, named, carry, marker, adoption, rows, terminal, typed, sent>>

\* The replacement's close event, the acknowledgements read before it
\* (restartTui, superviseReplacement, classifyReplacementOutcome): one that died
\* by a termination signal takes its supervisor with it, unless the supervisor
\* still owns the screen.  The screen of a switch is restored when the
\* replacement was not ready or died without its own cleanup.  After a clean
\* exit the held file is dropped, after any other the resume command names it.
ReplacementEnds(p, c) ==
    LET switch == why[p] = "switch"
        acked == ack[c] = "ready"
    IN
    /\ st[p] = "follows" /\ dad[c] = p /\ st[c] = "gone"
    /\ IF code[c] = "signal" /\ (switch => acked)
       THEN /\ Ends(p, "signal")
            /\ UNCHANGED <<files, printed, screen, forgone>>
       ELSE /\ screen' = IF switch /\ (~acked \/ code[c] = "kill") THEN "main" ELSE screen
            /\ IF code[c] = "ok"
               THEN /\ files' = [files EXCEPT ![p] = {}]
                    /\ Ends(p, "ok")
                    /\ UNCHANGED <<printed, forgone>>
               ELSE Printed(p) /\ Ends(p, "bad")
    /\ UNCHANGED <<dad, why, named, carry, marker, adoption, rows, ack, drawn, typed, sent>>

\* The process ends before it mounts: the boot fails, or a termination signal or
\* a clean exit comes first.  Its parent names the file it did not read after a
\* failure only: it dies by the signal too, and drops the file on code 0.
BootFails(p, how) ==
    /\ st[p] = "boot"
    /\ marker[p] # 0 =>
          CASE how = "bad" -> TRUE
            [] how = "signal" -> "signalled" \in Risks
            [] OTHER -> "unsettled" \in Risks
    /\ Ends(p, how)
    /\ UNCHANGED <<dad, why, named, handed, adoption, rows, terminal, history>>

\* kill -9: nothing the process meant to do is done.
Killed(p) ==
    /\ st[p] \in {"boot", "up", "leaving", "disposing", "follows"}
    /\ Ends(p, "kill")
    /\ forgone' = forgone \cup rows[p] \cup carry[p]
    /\ rows' = [rows EXCEPT ![p] = {}]
    /\ carry' = [carry EXCEPT ![p] = {}]
    /\ UNCHANGED <<dad, why, named, files, printed, marker, adoption, terminal, typed, sent>>

\* The user runs a printed resume command once the terminal is theirs again.
Resume(f, c) ==
    /\ \A p \in Procs : st[p] \in {"none", "gone"}
    /\ f \in printed /\ Newest(c)
    /\ st' = [st EXCEPT ![c] = "boot"]
    /\ marker' = [marker EXCEPT ![c] = f]
    /\ UNCHANGED <<dad, why, code, named, carry, files, printed, adoption, rows,
                   terminal, history>>

Next ==
    \/ \E p \in Procs :
          \/ Ready(p) \/ Stops(p) \/ FirstWrite(p) \/ Flushed(p)
          \/ Exits(p) \/ SpawnFails(p) \/ Stalls(p) \/ Killed(p)
    \/ \E p \in Procs, how \in {"ok", "bad", "signal"} : BootFails(p, how)
    \/ \E p \in Procs, b \in BOOLEAN : Apply(p, b) \/ CleansUp(p, b)
    \/ \E p \in Procs, k \in Passes : Parks(p, k) \/ GivesBack(p, k)
    \/ \E p \in Procs, t \in Texts : Types(p, t) \/ Sends(p, t)
    \/ \E p \in Procs, r \in Reasons, b \in BOOLEAN : Leave(p, r, b)
    \/ \E p, c \in Procs : Spawns(p, c) \/ ReplacementEnds(p, c) \/ Resume(p, c)

Spec == Init /\ [][Next]_vars

-----------------------------------------------------------------------------
(* Properties. *)

Handoffs == [from : 0..MaxProcs, inputs : SUBSET Texts, claimed : BOOLEAN]

\* Every variable has its type.
TypeOK ==
    /\ st \in [Procs -> {"none", "boot", "up", "leaving", "disposing", "follows", "gone"}]
    /\ dad \in [Procs -> 0..MaxProcs]
    /\ why \in [Procs -> Reasons \cup {"none"}]
    /\ code \in [Procs -> {"none", "ok", "bad", "signal", "kill"}]
    /\ named \in [Procs -> BOOLEAN]
    /\ carry \in [Procs -> SUBSET Texts]
    /\ files \in [Procs -> SUBSET Texts]
    /\ printed \subseteq Procs
    /\ marker \in [Procs -> 0..MaxProcs]
    /\ waiting \in [Procs -> Handoffs]
    /\ applied \in [Procs -> 0..MaxPasses]
    /\ live \in [Procs -> BOOLEAN]
    /\ ready \in [Procs -> BOOLEAN]
    /\ pass \in [Procs -> [Passes -> {"none", "listens", "waits", "stages", "ghost", "rests"}]]
    /\ rows \in [Procs -> SUBSET Texts]
    /\ ack \in [Procs -> {"none", "armed", "adopted", "ready", "dead"}]
    /\ drawn \in [Procs -> {"no", "flying", "flushed"}]
    /\ screen \in {"main", "alt"}
    /\ typed \subseteq Texts /\ sent \subseteq Texts /\ forgone \subseteq Texts

\* Somebody will still find the file: the process that wrote it is there to name
\* it, or has; the one exception is a writer that was killed.
Reachable(f) == st[f] \in {"disposing", "follows"} \/ f \in printed \/ code[f] = "kill"

\* No input is lost on the way: each one typed was sent or given up with the
\* process that showed it, or is on the dock of a process that runs, being
\* handed over, or in a file that can still be found (heldInputs.ts: "the file
\* goes only once its inputs are on screen").
InputsSurvive ==
    \A t \in typed \ (sent \cup forgone) :
        \/ \E p \in Procs : t \in rows[p] /\ st[p] = "up"
        \/ \E p \in Procs : t \in carry[p] /\ st[p] = "leaving"
        \/ \E f \in Procs : t \in files[f] /\ Reachable(f)

\* No input is there twice: what is on one dock is on no other and in no file a
\* later process would park again, and was not sent.
ShownOnce ==
    \A p, q \in Procs :
        /\ rows[p] \cap (files[q] \cup carry[q] \cup sent) = {}
        /\ p # q => rows[p] \cap rows[q] = {}

\* The pass of a ready screen never waits for a claim nobody holds: as long as
\* the handoff is not settled, some pass is staging it and wakes the others
\* (heldInputs.ts: "without a wake-up here the ready sibling would never look").
NoneStranded ==
    \A p \in Procs :
        st[p] = "up" /\ live[p] /\ ready[p] /\ waiting[p].from # 0 =>
            \E k \in Passes : pass[p][k] \in {"stages", "ghost"}

\* Its supervisor was killed, and no longer follows it.
Orphan(p) == dad[p] # 0 /\ code[dad[p]] = "kill"

\* Killed with nobody to clean up after it: only a switch's replacement has one.
Unattended(p) == code[p] = "kill" /\ (dad[p] # 0 => why[dad[p]] # "switch" \/ Orphan(p))

\* A terminal that is the shell's again shows the main screen, and a mounted
\* process draws on the alternate one, unless a supervisor was killed beside it
\* (handoffAck.ts: "closed exactly once", by the old process if the replacement
\* dies before ready, by the replacement from then on).
ScreenRestored ==
    /\ (\A p \in Procs : st[p] \in {"none", "gone"} /\ ~Unattended(p)) => screen = "main"
    /\ (\A p \in Procs : ~Orphan(p)) => \A p \in Procs : st[p] = "up" /\ live[p] => screen = "alt"
=============================================================================
